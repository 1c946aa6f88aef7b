------------------------------ MODULE LogTail -------------------------------
(***************************************************************************)
(* The file reader of the logs module (internal/modules/logs): each cycle  *)
(* reads every file from where it left off, splits what it finds into      *)
(* lines, folds lines into records, and emits them.  Writers append to the *)
(* files and rotate them in between, also between the stat of a file and   *)
(* the read of it.                                                         *)
(*                                                                         *)
(* A file is a sequence of bytes: the number of the line a byte of text    *)
(* belongs to, CR, or LF; in a UTF-16 file it is a code unit.  A line has  *)
(* two of text.  Odd lines begin with a timestamp.  Globs, filters, binary *)
(* files and lines longer than the scanner's buffer are left out.          *)
(***************************************************************************)
EXTENDS Integers, Ascending

CONSTANTS
  Files,          \* the paths, in the order they are read: 1..n
  Wide,           \* those that are UTF-16
  MaxBytesPerS,   \* bytes of a file a cycle reads
  MaxBatch,       \* lines a cycle reads
  MaxMultilineLines, DetectSamples,
  StartAtEnd,     \* whether a file is read from its end when first seen
  Crlf,           \* those whose writers end a line with CR LF
  MaxLines, MaxRotations, MaxUpsets  \* bounds

ASSUME TailAssumption ==
  /\ IsFiniteSet(Files) /\ Files = 1..Cardinality(Files) /\ Wide \subseteq Files
  /\ {MaxBytesPerS, MaxBatch, MaxMultilineLines, DetectSamples} \subseteq Nat \ {0}
  /\ StartAtEnd \in BOOLEAN /\ Crlf \subseteq Files
  /\ {MaxLines, MaxRotations, MaxUpsets} \subseteq Nat

LF == 0
CR == -1

VARIABLES
  lines,     \* lines begun so far
  content,   \* content[f]: the bytes of the file
  half,      \* half[f]: the line whose second half is to be written, 0 if none
  rotations, \* rotations so far
  upsets,    \* reads that overran, and what was written while files were open, so far
  replaced,  \* the files that were rotated and not read since
  found,     \* found[f]: the size the cycle's stat has found, None between cycles
  swapped,   \* the files that were truncated since that stat
  state,     \* state[f]: the tailer's fileState
  ml,        \* ml[f]: the aggregation's mlFile
  tokens,    \* tokens[f]: every line read from f
  records,   \* records[f]: every record of f that was emitted
  excused,   \* the lines a read could not deliver whole, or need not
  spilt      \* records were dropped with a read that failed

tailVars == <<lines, content, half, rotations, upsets, replaced, found, swapped, state, ml, tokens, records,
              excused, spilt>>

None == -1
Unseen == [offset |-> -1, size |-> -1]
Fresh == [decided |-> FALSE, aggregate |-> FALSE, sampled |-> 0, matched |-> 0, pending |-> <<>>]

TailInit ==
  /\ lines = 0 /\ rotations = 0 /\ upsets = 0 /\ replaced = {}
  /\ found = [f \in Files |-> None] /\ swapped = {}
  /\ content = [f \in Files |-> <<>>] /\ half = [f \in Files |-> 0]
  /\ state = [f \in Files |-> Unseen]
  /\ ml = [f \in Files |-> Fresh]
  /\ tokens = [f \in Files |-> <<>>] /\ records = [f \in Files |-> <<>>]
  /\ excused = {} /\ spilt = FALSE

(***************************************************************************)
(* The writers.                                                            *)
(***************************************************************************)
End(f) == IF f \in Crlf THEN <<CR, LF>> ELSE <<LF>>
Append2(f, bytes) == content' = [content EXCEPT ![f] = @ \o bytes]

\* The cycle has opened its files and knows how large they are.
Reading == \A f \in Files : found[f] # None

Upset == upsets < MaxUpsets /\ upsets' = upsets + 1
WriterSteps == IF Reading THEN Upset ELSE UNCHANGED upsets

WriteLine(f) ==
  /\ WriterSteps
  /\ lines < MaxLines /\ half[f] = 0
  /\ lines' = lines + 1
  /\ Append2(f, <<lines', lines'>> \o End(f))
  /\ UNCHANGED <<half, rotations, replaced, found, swapped, state, ml, tokens, records, excused, spilt>>

WriteHalf(f) ==
  /\ WriterSteps
  /\ lines < MaxLines /\ half[f] = 0
  /\ lines' = lines + 1
  /\ half' = [half EXCEPT ![f] = lines']
  /\ Append2(f, <<lines'>>)
  /\ UNCHANGED <<rotations, replaced, found, swapped, state, ml, tokens, records, excused, spilt>>

WriteRest(f) ==
  /\ WriterSteps
  /\ half[f] # 0
  /\ half' = [half EXCEPT ![f] = 0]
  /\ Append2(f, <<half[f]>> \o End(f))
  /\ UNCHANGED <<lines, rotations, replaced, found, swapped, state, ml, tokens, records, excused, spilt>>

\* The file is truncated, or replaced by an empty one of the same name.  While it is open this is
\* a truncation: what an open file holds does not change with its name, so a file that is replaced
\* between its stat and its read is as one replaced after the read.
Rotate(f) ==
  /\ rotations < MaxRotations /\ content[f] # <<>> /\ half[f] = 0
  /\ rotations' = rotations + 1 /\ replaced' = replaced \cup {f}
  /\ swapped' = IF Reading THEN swapped \cup {f} ELSE swapped
  /\ content' = [content EXCEPT ![f] = <<>>]
  /\ UNCHANGED <<lines, half, upsets, found, state, ml, tokens, records, excused, spilt>>

(***************************************************************************)
(* readPath: what one file yields.  The stat comes first; where to read    *)
(* from and where the next read begins are decided by the size it found,   *)
(* and the bytes are those the file has when it is read.                   *)
(***************************************************************************)
Size(f) == Len(content[f])

\* The files of a cycle are opened one after another.  They have nothing in common but the room in
\* the batch, so what happens to a file before its own stat may as well happen before the first one.
StatFiles ==
  /\ ~Reading
  /\ found' = [f \in Files |-> Size(f)]
  /\ UNCHANGED <<lines, content, half, rotations, upsets, replaced, swapped, state, ml, tokens, records, excused, spilt>>

\* The position to read from, and whether anything is read at all.
FirstSight(f) == state[f] = Unseen
\* Bug: a file that has shrunk is read on from where it was.
SeekOn(f) ==
  IF FirstSight(f) THEN (IF StartAtEnd THEN found[f] ELSE 0) ELSE state[f].offset

Seek(f) ==
  IF FirstSight(f) THEN (IF StartAtEnd THEN found[f] ELSE 0)
  ELSE IF found[f] < state[f].size THEN 0
  ELSE state[f].offset

\* A UTF-16 file is read to the size that was found, another one to its end.
Upto(f) == IF f \in Wide THEN Min({found[f], Size(f)}) ELSE Size(f)
Window(f) == SubSeq(content[f], Seek(f) + 1, Min({Seek(f) + MaxBytesPerS, Upto(f)}))

\* bufio.ScanLines: text up to a line end, without it, and what is left at the end.
LineEnds(w) == InOrder({i \in 1..Len(w) : w[i] = LF})
Stripped(t) == IF t # <<>> /\ t[Len(t)] = CR THEN Front(t) ELSE t
Scan(w) ==
  LET e == LineEnds(w)
      from(i) == IF i = 1 THEN 1 ELSE e[i - 1] + 1
      whole == [i \in 1..Len(e) |-> Stripped(SubSeq(w, from(i), e[i] - 1))]
      rest == SubSeq(w, from(Len(e) + 1), Len(w))
  IN IF rest = <<>> THEN whole ELSE Append(whole, Stripped(rest))

Taken(f) ==
  LET lns == Scan(Window(f)) IN SubSeq(lns, 1, Min({Len(lns), MaxBatch}))

\* Each line counts for its text and one byte.
Consumed(f) == FoldLeft(LAMBDA n, t : n + Len(t) + 1, Seek(f), Taken(f))

ReadsNothing(f) == FirstSight(f) /\ StartAtEnd

ReadText(f) == [lines |-> Taken(f), offset |-> Consumed(f)]

\* readUTF16: the complete lines of the window; the empty ones are skipped, and those past the
\* batch are left behind.
WholeLines(f) == LET e == LineEnds(Window(f)) IN IF e = <<>> THEN <<>> ELSE SubSeq(Window(f), 1, Last(e))
ReadUTF16(f) ==
  LET all == Scan(WholeLines(f))
      lns == AtPlaces(all, {i \in DOMAIN all : all[i] # <<>>})
  IN [lines |-> SubSeq(lns, 1, Min({Len(lns), MaxBatch})), offset |-> Seek(f) + Len(WholeLines(f))]

ReadPath(f) ==
  CASE ReadsNothing(f) -> [lines |-> <<>>, offset |-> found[f]]
    [] ~ReadsNothing(f) /\ f \in Wide -> ReadUTF16(f)
    [] OTHER -> ReadText(f)

(***************************************************************************)
(* The aggregation of lines into records.                                  *)
(***************************************************************************)
RecordStarts(t) == t # <<>> /\ t[1] % 2 = 1

Flushed(st) == IF st.pending = <<>> THEN <<>> ELSE <<st.pending>>

\* The verdict is due after DetectSamples lines, or at any time for its window.
Detected(st, t, windowOver) ==
  LET sampled == st.sampled + 1
      matched == st.matched + IF RecordStarts(t) THEN 1 ELSE 0
      decided == sampled >= DetectSamples \/ windowOver
  IN [st EXCEPT !.sampled = IF decided THEN 0 ELSE sampled,
                !.matched = IF decided THEN 0 ELSE matched,
                !.decided = decided,
                !.aggregate = decided /\ 2 * matched >= sampled]

\* A line begins a record, or is added to the one that is open.
Opens(st, t) == RecordStarts(t) \/ st.pending = <<>> \/ Len(st.pending) >= MaxMultilineLines

Add(acc, t, windowOver) ==
  LET st == acc.st IN
    CASE ~st.decided -> [st |-> Detected(st, t, windowOver), out |-> Append(acc.out, <<t>>)]
      [] st.decided /\ ~st.aggregate -> [acc EXCEPT !.out = Append(@, <<t>>)]
      [] st.decided /\ st.aggregate /\ Opens(st, t) ->
           [st |-> [st EXCEPT !.pending = <<t>>], out |-> acc.out \o Flushed(st)]
      [] OTHER -> [acc EXCEPT !.st.pending = Append(@, t)]

Process(st, lns, windowOver) ==
  FoldLeft(LAMBDA acc, t : Add(acc, t, windowOver), [st |-> st, out |-> <<>>], lns)

\* A record nothing was added to for a while is released.
FlushIdle(acc, idle) ==
  IF idle THEN [st |-> [acc.st EXCEPT !.pending = <<>>], out |-> acc.out \o Flushed(acc.st)] ELSE acc

(***************************************************************************)
(* A cycle: Read, then the aggregation, then the emission.                 *)
(***************************************************************************)
\* The lines of the files before f, and of f, that fit into the batch.  Files after a full
\* batch are not opened.
Got(f) == Len(ReadPath(f).lines)
GotBefore(f) == FoldFunctionOnSet(+, 0, [g \in Files |-> Got(g)], {g \in Files : g < f})
Opened(f) == GotBefore(f) < MaxBatch
Returned(f) == SubSeq(ReadPath(f).lines, 1, Min({Got(f), MaxBatch - GotBefore(f)}))

\* The next read begins where this one ended, and no later than the end that was found.
NextState(f) == [offset |-> Min({ReadPath(f).offset, found[f]}), size |-> found[f]]

TextOf(f, from, to) == {content[f][i] : i \in (from + 1)..Min({to, Size(f)})} \ {LF, CR}

\* What this read cannot deliver whole: the end of its window or of the file is inside a line,
\* the file is read from its end, or other lines have filled the batch.
Cut(f) ==
  LET r == ReadPath(f)
      w == Window(f)
  IN CASE ReadsNothing(f) -> TextOf(f, 0, r.offset)
       [] ~ReadsNothing(f) /\ f \in Wide ->
            TextOf(f, Seek(f), r.offset) \ UNION {Range(Returned(f)[i]) : i \in 1..Len(Returned(f))}
       [] OTHER -> (UNION {Range(r.lines[i]) : i \in (Len(Returned(f)) + 1)..Got(f)})
                   \cup (IF w # <<>> /\ Last(w) # LF THEN {Last(w)} ELSE {})

\* What was written between the stat and the read is read now, and again in the next cycle.
Again(f) == TextOf(f, NextState(f).offset, ReadPath(f).offset)

\* A file that was replaced and has grown past the old size is taken for the old one.
Hidden(f) ==
  IF f \in replaced /\ ~FirstSight(f) /\ found[f] >= state[f].size
    THEN {n \in TextOf(f, 0, Seek(f)) : ~\E i \in 1..Len(tokens[f]) : n \in Range(tokens[f][i])}
    ELSE {}

\* What was read of a file that was truncated since the stat is some part of the new one, which is
\* read from its beginning when the loss is noticed.
Excuse(f) ==
  IF f \in swapped THEN UNION {Range(Returned(f)[i]) : i \in 1..Len(Returned(f))}
  ELSE Cut(f) \cup Hidden(f) \cup Again(f)

CloseFiles(opened) ==
  /\ state' = [f \in Files |-> IF f \in opened THEN NextState(f) ELSE state[f]]
  /\ replaced' = replaced \ (opened \ swapped)
  /\ found' = [f \in Files |-> None] /\ swapped' = {}

Collect(windowOver, idle) ==
  LET opened == {f \in Files : Opened(f)}
      got == [f \in Files |-> IF f \in opened THEN Returned(f) ELSE <<>>]
      acc == [f \in Files |-> FlushIdle(Process(ml[f], got[f], windowOver), f \in idle)]
  IN
    /\ CloseFiles(opened)
    /\ ml' = [f \in Files |-> acc[f].st]
    /\ tokens' = [f \in Files |-> tokens[f] \o got[f]]
    /\ records' = [f \in Files |-> records[f] \o acc[f].out]
    /\ excused' = excused \cup UNION {Excuse(f) : f \in opened}
    /\ UNCHANGED <<lines, content, half, rotations, upsets, spilt>>

\* A read that overruns its deadline moves on in the files all the same; its lines, and the
\* records the same cycle released, are dropped with its error.
CollectOverruns(idle) ==
  LET opened == {f \in Files : Opened(f)} IN
    /\ Upset
    /\ CloseFiles(opened)
    /\ ml' = [f \in Files |-> FlushIdle([st |-> ml[f], out |-> <<>>], f \in idle).st]
    /\ excused' = excused \cup UNION {TextOf(f, 0, NextState(f).offset) : f \in opened \ swapped}
    /\ spilt' = (spilt \/ \E f \in idle : ml[f].pending # <<>>)
    /\ UNCHANGED <<lines, content, half, rotations, tokens, records>>

\* Only a record that no line is added to can be released for its age.
IdleFiles(lost) == {{}} \cup {{f \in Files : ml[f].pending # <<>> /\ (lost \/ ~Opened(f) \/ Returned(f) = <<>>)}}
\* The time that detection may take matters while there is something to detect.
Windows == {FALSE} \cup {~ml[f].decided : f \in Files}

TailNext ==
  \/ \E f \in Files : WriteLine(f) \/ WriteHalf(f) \/ WriteRest(f) \/ Rotate(f)
  \/ StatFiles
  \/ Reading /\ \E windowOver \in Windows, idle \in IdleFiles(FALSE) : Collect(windowOver, idle)
  \/ Reading /\ \E idle \in IdleFiles(TRUE) : CollectOverruns(idle)

TailSpec == TailInit /\ [][TailNext]_tailVars

(***************************************************************************)
(* Properties.                                                             *)
(***************************************************************************)
Copies(f, n) == Cardinality({i \in 1..Len(tokens[f]) : tokens[f][i] = <<n, n>>})

\* A line the tailer has passed was read whole and once, through every rotation that shrank the
\* file, unless one of the known reasons excuses it (source_files.go:63-64, 220-256): a read that
\* ends inside it or past the batch, an overdue cycle, a file begun at its end or taken for the old
\* one, and, of what is written while the file is open (source_files.go:188, 252-255), lines that
\* came after the stat, which are delivered again, and what a truncated file gave.  In a UTF-8
\* file lines that end with CR LF are under-counted and read again: the README says so.
LinesAreReadOnce ==
  \A f \in Files \ (Crlf \ Wide) :
    /\ \A n \in (1..lines) \ excused : Copies(f, n) <= 1
    /\ ~FirstSight(f) /\ f \notin replaced =>
         \A n \in TextOf(f, 0, state[f].offset) \ excused : Copies(f, n) = 1

\* Aggregation changes where records end and nothing else: the lines of the records of a file,
\* with those of the record still open, are the lines that were read, in their order
\* (logs.go:322-330, multiline.go:75-78).
RecordsAreTheLines ==
  ~spilt => \A f \in Files : FlattenSeq(FlattenSeq(records[f])) \o FlattenSeq(ml[f].pending) = FlattenSeq(tokens[f])

\* What the files hold is what is reported, line by line.
LinesBecomeRecords == LinesAreReadOnce /\ RecordsAreTheLines

=============================================================================
