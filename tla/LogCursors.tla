----------------------------- MODULE LogCursors -----------------------------
(***************************************************************************)
(* The readers of the logs module that keep a place in something that is   *)
(* no text: the journal (source_journald_linux.go, journalfile.go), the    *)
(* login records (source_logins_linux.go, utmp.go), the Windows event log, *)
(* the table of last logins and the archives of other tools.  `source'     *)
(* says which of them a behaviour is about; it never changes.              *)
(*                                                                         *)
(* The first three are a sequence of cells that grows and may be replaced  *)
(* by a new one.  A cell of the journal is an object: a DATA object holds  *)
(* a text, an ENTRY refers to the DATA object of its message, and several  *)
(* entries may refer to one.  Decoding and wording are left out.           *)
(***************************************************************************)
EXTENDS Integers, FiniteSets, Ascending

CONSTANTS
  CursorBatch,    \* max.batch
  EventBuffer,    \* records that fit into the buffer of ReadEventLogW
  JournalBlock,   \* objects a journal file grows by
  Uids, LastlogCap,         \* users, and the first whose record is not read
  Archives, ArchivesPerCycle,
  MaxCells, MaxCursorRotations, MaxLogins   \* bounds

ASSUME CursorAssumption ==
  /\ {CursorBatch, EventBuffer, JournalBlock, ArchivesPerCycle} \subseteq Nat \ {0}
  /\ {MaxCells, MaxCursorRotations, MaxLogins, LastlogCap} \subseteq Nat
  /\ Uids \subseteq Nat /\ Archives \subseteq Nat /\ IsFiniteSet(Archives)

VARIABLES
  source,
  cells,     \* the cells of the file there is now
  written,   \* cells written so far, which numbers them
  replacements, \* [made, unread]: how many, and whether one was not looked at yet
  cursor,    \* [offset, size] of the reader, offset -1 before its first look
  told,      \* the number and text of each cell that was delivered
  missed,    \* the cells a reader had no way to deliver, or need not
  astray,    \* the reader began inside a record, or took a new file for the old one
  table,     \* table[u]: the last login of a user, 0 if none
  seen,      \* seen[u], reported: what the readers of the table and archives remember
  reported,
  said       \* said[u]: the logins of u that were reported; the archives described

logVars == <<cells, written, replacements, cursor, told, missed, astray>>
tableVars == <<table, seen, reported, said>>
cursorVars == <<source, logVars, tableVars>>

CursorInit ==
  /\ source \in {"journald", "logins", "eventlog", "lastlog", "archives"}
  /\ cells = <<>> /\ written = 0 /\ replacements = [made |-> 0, unread |-> FALSE]
  /\ cursor = [offset |-> -1, size |-> 0]
  /\ told = <<>> /\ missed = {} /\ astray = FALSE
  /\ table = [u \in Uids |-> 0] /\ seen = [u \in Uids |-> 0] /\ reported = {}
  /\ said = [users |-> [u \in Uids |-> <<>>], archives |-> <<>>]

(***************************************************************************)
(* The writers.  A record of logins is half written for a moment, and so   *)
(* is an object of the journal.                                            *)
(***************************************************************************)
Shapes ==
  CASE source = "journald" ->
         {[type |-> "data", item |-> 0, readable |-> r] : r \in BOOLEAN}
         \cup {[type |-> "entry", item |-> i, readable |-> TRUE] : i \in {i \in 1..Len(cells) : cells[i].type = "data"}}
    [] source = "logins" -> {[type |-> "entry", item |-> 0, readable |-> r] : r \in BOOLEAN}
    [] OTHER -> {[type |-> "entry", item |-> 0, readable |-> TRUE]}

IsLog == source \in {"journald", "logins", "eventlog"}
Torn == cells # <<>> /\ ~Last(cells).whole

Write ==
  /\ IsLog /\ written < MaxCells /\ ~Torn
  /\ written' = written + 1
  /\ \E s \in Shapes, whole \in {TRUE, source = "eventlog"} :
       cells' = Append(cells, [id |-> written', type |-> s.type, item |-> s.item, readable |-> s.readable, whole |-> whole])
  /\ UNCHANGED <<source, replacements, cursor, told, missed, astray, tableVars>>

WriteEnds ==
  /\ IsLog /\ Torn
  /\ cells' = [cells EXCEPT ![Len(cells)].whole = TRUE]
  /\ UNCHANGED <<source, written, replacements, cursor, told, missed, astray, tableVars>>

Replace ==
  /\ IsLog /\ replacements.made < MaxCursorRotations /\ cells # <<>> /\ ~Torn
  /\ replacements' = [made |-> replacements.made + 1, unread |-> TRUE]
  /\ cells' = <<>>
  \* What was not read is lost with the file.
  /\ missed' = missed \cup ({cells[i].id : i \in 1..Len(cells)} \ {told[i].id : i \in 1..Len(told)})
  /\ UNCHANGED <<source, written, cursor, told, astray, tableVars>>

(***************************************************************************)
(* One read of each of the three, from a place in the file.                *)
(***************************************************************************)
\* st.Size(): a journal is allocated in blocks; a record that is half written counts for a part.
FileSize ==
  CASE source = "journald" -> JournalBlock * ((Len(cells) + JournalBlock) \div JournalBlock)
    [] source = "logins" -> 2 * Len(cells) - IF Torn THEN 1 ELSE 0
    [] OTHER -> Len(cells)

\* An entry has a message if its DATA object is not compressed.
Text(i) == IF source = "journald" THEN cells[cells[i].item].id ELSE cells[i].id
Shows(i) ==
  /\ cells[i].type = "entry"
  /\ IF source = "journald" THEN cells[cells[i].item].readable ELSE cells[i].readable

Whole(i) == cells[i].whole

\* readJournalEntries: objects up to one that is not complete, while the batch has room.
JournalEnd(from) ==
  Max({from} \cup {k \in (from + 1)..Len(cells) :
    /\ \A i \in (from + 1)..k : Whole(i)
    /\ Cardinality({i \in (from + 1)..(k - 1) : Shows(i)}) < CursorBatch})

\* Bug: a record that is half written is read.
UtmpEndsTorn(from) == Min({from + CursorBatch, Len(cells)})

\* utmpRecords: the complete records, at most a batch of them.
UtmpEnd(from) == Max({from} \cup {k \in (from + 1)..Min({from + CursorBatch, Len(cells)}) : Whole(k)})

\* Where a first look leaves the reader: at the last object of the journal, at the end else.
FirstPlace == IF source = "journald" THEN Max({0, Len(cells) - 1}) ELSE Len(cells)

Delivered(from, to) ==
  LET shown == InOrder({i \in (from + 1)..to : Shows(i)})
  IN [k \in 1..Len(shown) |-> [id |-> cells[shown[k]].id, text |-> Text(shown[k])]]

Ids(from, to) == {cells[i].id : i \in (from + 1)..to}

FirstLook ==
  /\ IsLog /\ cursor.offset = -1
  /\ source = "eventlog" => cells # <<>>
  /\ cursor' = [offset |-> FirstPlace, size |-> FileSize]
  /\ missed' = missed \cup Ids(0, FirstPlace)
  /\ astray' = (source = "logins" /\ Torn)
  /\ replacements' = [replacements EXCEPT !.unread = FALSE]
  /\ UNCHANGED <<source, cells, written, told, tableVars>>

\* The place to go on from.  A file that is smaller than it was is a new one; an event log whose
\* numbers went back is gone on with from its newest record.
From ==
  CASE source = "eventlog" -> IF Len(cells) <= cursor.offset THEN Len(cells) ELSE cursor.offset
    [] source # "eventlog" /\ FileSize < cursor.size -> 0
    [] OTHER -> cursor.offset

\* Where the reader stands after the read, and the last cell it has delivered.
To(from) ==
  CASE source = "journald" -> JournalEnd(from)
    [] source = "logins" -> UtmpEnd(from)
    [] OTHER -> Len(cells)
DeliveredTo(from) == IF source = "eventlog" THEN Min({from + EventBuffer, from + CursorBatch, Len(cells)}) ELSE To(from)

\* The read returns in time, or overruns its deadline and its records are dropped.
Look(dropped) ==
  LET to == To(From)
      got == IF dropped THEN <<>> ELSE Delivered(From, DeliveredTo(From))
  IN
    /\ IsLog /\ cursor.offset # -1
    /\ source = "eventlog" => cells # <<>>
    /\ cursor' = [offset |-> to, size |-> FileSize]
    /\ told' = told \o got
    /\ missed' = missed
         \cup (IF dropped THEN Ids(From, to) ELSE Ids(DeliveredTo(From), to))
         \* The records of a new event log that has as many as the old one are passed over.
         \cup {n \in IF source = "eventlog" THEN Ids(0, Min({From, Len(cells)})) ELSE {} : \A i \in 1..Len(told) : told[i].id # n}
    /\ replacements' = [replacements EXCEPT !.unread = FALSE]
    \* A new file that is no smaller than the old one is taken for it.
    /\ astray' = (astray \/ (source # "eventlog" /\ replacements.unread /\ From # 0))
    /\ UNCHANGED <<source, cells, written, tableVars>>

(***************************************************************************)
(* The table of last logins, and the archives.                             *)
(***************************************************************************)
Login(u) ==
  /\ source = "lastlog" /\ table[u] < MaxLogins
  /\ table' = [table EXCEPT ![u] = @ + 1]
  /\ UNCHANGED <<source, logVars, seen, reported, said>>

\* The users whose record changed, as many as fit, in the order of their numbers.
NewLogins ==
  LET changed == {u \in Uids : u < LastlogCap /\ table[u] # 0 /\ seen[u] # table[u]}
  IN {u \in changed : Cardinality({v \in changed : v < u}) < CursorBatch}
Room(users) == {u \in users : Cardinality({v \in users : v < u}) < CursorBatch}

ReadLastlog(dropped) ==
  /\ source = "lastlog"
  /\ seen' = [u \in Uids |-> IF u \in NewLogins THEN table[u] ELSE seen[u]]
  /\ said' = [said EXCEPT !.users =
       [u \in Uids |-> IF ~dropped /\ u \in Room(NewLogins) THEN Append(@[u], table[u]) ELSE @[u]]]
  /\ missed' = IF dropped THEN missed \cup NewLogins ELSE missed
  /\ UNCHANGED <<source, cells, written, replacements, cursor, told, astray, table, reported>>

\* An archive is remembered before it is opened; one that cannot be opened is not looked at again.
ReadArchives(dropped) ==
  LET new == {a \in Archives : a \notin reported}
      taken == {a \in new : Cardinality({b \in new : b < a}) < Min({ArchivesPerCycle, CursorBatch})}
  IN
    /\ source = "archives"
    /\ reported' = reported \cup taken
    /\ \E opened \in SUBSET taken :
         /\ said' = [said EXCEPT !.archives = @ \o IF dropped THEN <<>> ELSE InOrder(opened)]
         /\ missed' = missed \cup (IF dropped THEN taken ELSE taken \ opened)
    /\ UNCHANGED <<source, cells, written, replacements, cursor, told, astray, table, seen>>

CursorNext ==
  \/ Write \/ WriteEnds \/ Replace \/ FirstLook
  \/ \E u \in Uids : Login(u)
  \/ \E dropped \in BOOLEAN : Look(dropped) \/ ReadLastlog(dropped) \/ ReadArchives(dropped)

CursorSpec == CursorInit /\ [][CursorNext]_cursorVars

(***************************************************************************)
(* Properties.                                                             *)
(***************************************************************************)
Tellings(n) == {i \in 1..Len(told) : told[i].id = n}

\* An entry the reader has passed was delivered once, with its own text, whole; nothing else was,
\* through replacements that show in the size (source_journald_linux.go:23-30, utmp.go:183-185).
EntriesAreToldOnce ==
  ~astray =>
    /\ \A n \in 1..written : Cardinality(Tellings(n)) <= 1
    /\ cursor.offset # -1 /\ ~replacements.unread =>
         \A i \in 1..Min({cursor.offset, Len(cells)}) : cells[i].id \notin missed =>
           /\ Whole(i)
           /\ {told[k].text : k \in Tellings(cells[i].id)} = IF Shows(i) THEN {Text(i)} ELSE {}

\* What the reader of the table remembers of a user is the last it has reported of that user, no
\* login is reported twice, and an archive is described once unless it could not be opened
\* (source_lastlog_linux.go:80-85, source_archives_linux.go:25-28).
TableIsTold ==
  /\ source = "lastlog" => \A u \in Uids \ missed :
       /\ seen[u] = IF said.users[u] = <<>> THEN 0 ELSE Last(said.users[u])
       /\ \A i, j \in 1..Len(said.users[u]) : i # j => said.users[u][i] # said.users[u][j]
  /\ IsInjective(said.archives)
  /\ source = "archives" => reported = Range(said.archives) \cup missed

\* Each reader that keeps its place reports what came since, once.
CursorsKeepTheirPlace == EntriesAreToldOnce /\ TableIsTold

=============================================================================
