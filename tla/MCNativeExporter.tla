-------------------------- MODULE MCNativeExporter --------------------------
(* An instance of NativeExporter for TLC. *)
EXTENDS NativeExporter

\* The first item makes its payload too large.
FirstIsBig == {1}
=============================================================================
