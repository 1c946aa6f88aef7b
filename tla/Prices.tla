-------------------------------- MODULE Prices --------------------------------
(***************************************************************************)
(* The price lists of the intake (internal/pricing): a lookup answers from *)
(* memory or from disk and never waits; a miss or a stale list schedules a *)
(* download, one per region, whose goroutine filters the provider's file,  *)
(* puts the rates in memory and saves them.  Lookups are made under the    *)
(* fleet store's mutex, one at a time, but a lookup takes the resolver's   *)
(* own mutex several times, and a download may end in between.             *)
(*                                                                         *)
(* A rate is a number of cents; a file is the sequence of its rows, each   *)
(* with the set of the filter's columns that have the wanted value.  What  *)
(* an operator puts in by hand (Resolver.Put) nothing in the source does.  *)
(***************************************************************************)
EXTENDS Integers, Sequences, FiniteSets, SequencesExt

CONSTANTS
  Region,         \* regions hosts claim to be in
  UnsafeRegion,   \* those of them whose name is no region's: not cached on disk
  InstanceType,
  Column,         \* the nine columns ParseAWSPriceList compares
  Listings,       \* region -> the files the provider may publish for it, none for no such region
  Leftovers,      \* what an earlier run may have left on disk
  MaxAge,         \* defaultMaxAge (14 days)
  RetryAfter,     \* retryAfterFailure (30 min)
  MaxRegions,     \* maxCachedRegions (32)
  MaxRates,       \* maxRatesPerCatalog (8192)
  MaxPriceTime, MaxStarts   \* bounds: the time, restarts of the intake

\* A row's type means nothing in the header.
Rows == [kind : {"row", "header"}, type : InstanceType \cup {"none"}, match : SUBSET Column, cents : Nat]

\* What is on disk was fetched before the intake started.
ASSUME PricesAssumption ==
  /\ IsFiniteSet(Region) /\ UnsafeRegion \subseteq Region
  /\ \A r \in Region : Listings[r] \subseteq Seq(Rows)
  /\ \A disk \in Leftovers : DOMAIN disk = Region /\ \A r \in Region : disk[r].fetched \in -1 .. MaxAge
  /\ {MaxAge, RetryAfter, MaxRegions, MaxRates} \subseteq Nat \ {0}

VARIABLES
  day,        \* the time
  starts,     \* runs of the intake so far
  kept,       \* Resolver.set
  onDisk,     \* region -> the cached catalog
  pending,    \* Resolver.pending: the downloads that run
  failedAt,   \* Resolver.failed and errs: region -> when, -1 if it has not
  saving,     \* catalogs whose goroutine is about to save them
  lookup      \* the lookup: [at, region, type, cat, answer]

priceVars == <<day, starts, kept, onDisk, pending, failedAt, saving, lookup>>

NoCatalog == [region |-> "none", fetched |-> -1, rates |-> [t \in {} |-> 0]]
NoLookup == [at |-> "idle", region |-> "none", type |-> "none", cat |-> NoCatalog, answer |-> -1]

-----------------------------------------------------------------------------
(* The provider's file. *)

\* Bug: a row is wanted if most of it is.
WantedLoosely(row) == Cardinality(row.match) + 1 >= Cardinality(Column) /\ row.cents > 0

\* The plain on-demand hourly price of a Linux instance, and not for nothing.
Wanted(row) == row.match = Column /\ row.cents > 0

\* One row: those before the header are not read, a second price for a type is counted.
ReadRow(sofar, row) ==
  IF sofar.full THEN sofar
  ELSE IF ~sofar.header THEN [sofar EXCEPT !.header = row.kind = "header"]
  ELSE IF row.kind = "header" \/ ~Wanted(row) THEN sofar
  ELSE IF row.type \in DOMAIN sofar.rates THEN [sofar EXCEPT !.duplicates = @ + 1]
  ELSE IF Cardinality(DOMAIN sofar.rates) >= MaxRates THEN [sofar EXCEPT !.full = TRUE]
  ELSE [sofar EXCEPT !.rates = [t \in DOMAIN @ \cup {row.type} |->
                                  IF t = row.type THEN row.cents ELSE @[t]]]

Unread == [header |-> FALSE, rates |-> [t \in {} |-> 0], duplicates |-> 0, full |-> FALSE]

\* The first n rows of a file, which ends there or breaks off there: what was recovered stands.
ParseAWSPriceList(file, n) == FoldLeft(ReadRow, Unread, SubSeq(file, 1, n))

Usable(read) == read.header /\ read.rates # Unread.rates /\ read.duplicates = 0

\* What a file lists, and what a disk has of a region.
PricesOf(file) ==
  {<<file[i].type, file[i].cents>> :
     i \in {j \in DOMAIN file : file[j].kind = "row" /\ file[j].match = Column}}

PricesOn(disk, r) ==
  UNION {{<<t, disk[q].rates[t]>> : t \in DOMAIN disk[q].rates} : q \in {p \in Region : disk[p].region = r}}

\* The prices the provider lists for a region, or listed before this run.
Listed(r) ==
  (UNION {PricesOf(file) : file \in Listings[r]}) \cup (UNION {PricesOn(disk, r) : disk \in Leftovers})

-----------------------------------------------------------------------------
(* Resolver.Rate. *)

Age(cat) == day - cat.fetched
Fresh(cat) == cat # NoCatalog /\ Age(cat) < MaxAge

Price(cat, type) == IF type \in DOMAIN cat.rates THEN cat.rates[type] ELSE 0

Answered(l, cat) == [l EXCEPT !.at = "idle", !.cat = NoCatalog, !.answer = Price(cat, l.type)]

\* What memory has is read; the mutex is given back.
Look ==
  /\ lookup.at = "idle"
  /\ \E r \in Region, t \in InstanceType :
       LET asked == [at |-> "disk", region |-> r, type |-> t, cat |-> kept[r], answer |-> -1] IN
       lookup' = IF Fresh(kept[r]) THEN Answered(asked, kept[r])
                 ELSE IF kept[r] # NoCatalog THEN [asked EXCEPT !.at = "schedule"]
                 ELSE asked
  /\ UNCHANGED <<day, starts, kept, onDisk, pending, failedAt, saving>>

\* loadFromDisk accepts a file of this region that has rates in it.
UsableFile(r) == r \notin UnsafeRegion /\ onDisk[r].rates # Unread.rates /\ onDisk[r].region = r

\* loadFromDisk reads the file ...
ReadFile ==
  /\ lookup.at = "disk"
  /\ lookup' = IF UsableFile(lookup.region)
               THEN [lookup EXCEPT !.at = "put", !.cat = onDisk[lookup.region]]
               ELSE [lookup EXCEPT !.at = "schedule"]
  /\ UNCHANGED <<day, starts, kept, onDisk, pending, failedAt, saving>>

\* ... and puts it in memory, whatever has been put there meanwhile; Put goes by its own region.
PutFile ==
  /\ lookup.at = "put"
  /\ kept' = [kept EXCEPT ![lookup.cat.region] = lookup.cat]
  /\ lookup' = IF Fresh(kept'[lookup.region]) THEN Answered(lookup, kept'[lookup.region])
               ELSE [lookup EXCEPT !.at = "schedule", !.cat = kept'[lookup.region]]
  /\ UNCHANGED <<day, starts, onDisk, pending, failedAt, saving>>

\* schedule: at most one download per region, not soon after a failure, not past the cap.
MayFetch(r) ==
  /\ r \notin pending
  /\ ~(failedAt[r] >= 0 /\ day - failedAt[r] < RetryAfter)
  /\ Cardinality({q \in Region : kept[q] # NoCatalog}) < MaxRegions

\* A stale rate is better than none.
Schedule ==
  /\ lookup.at = "schedule"
  /\ pending' = IF MayFetch(lookup.region) THEN pending \cup {lookup.region} ELSE pending
  /\ lookup' = Answered(lookup, lookup.cat)
  /\ UNCHANGED <<day, starts, kept, onDisk, failedAt, saving>>

-----------------------------------------------------------------------------
(* The download's goroutine. *)

\* FetchAWSRegion fails: no such region, no connection, nothing usable in the file.
FetchFails ==
  \E r \in pending :
    /\ pending' = pending \ {r}
    /\ failedAt' = [failedAt EXCEPT ![r] = day]
    /\ UNCHANGED <<day, starts, kept, onDisk, saving, lookup>>

\* It ends, with all of the file or with what came before it broke off.
FetchEnds ==
  \E r \in pending :
    /\ \E file \in Listings[r] : \E n \in 1 .. Len(file) :
         LET read == ParseAWSPriceList(file, n)
             cat == [region |-> r, fetched |-> day, rates |-> read.rates]
         IN /\ Usable(read)
            /\ kept' = [kept EXCEPT ![r] = cat]
            /\ saving' = saving \cup {cat}
    /\ pending' = pending \ {r}
    /\ failedAt' = [failedAt EXCEPT ![r] = -1]
    /\ UNCHANGED <<day, starts, onDisk, lookup>>

\* saveToDisk, after the mutex is released: a rename, so that it is done or not done.
SaveToDisk ==
  \E cat \in saving :
    /\ saving' = saving \ {cat}
    /\ onDisk' \in {onDisk} \cup {[onDisk EXCEPT ![cat.region] = cat] : c \in {cat.region} \ UnsafeRegion}
    /\ UNCHANGED <<day, starts, kept, pending, failedAt, lookup>>

-----------------------------------------------------------------------------
(* The world. *)

\* Saving does not take days.
PriceTick ==
  /\ day < MaxPriceTime /\ saving = {}
  /\ day' = day + 1
  /\ UNCHANGED <<starts, kept, onDisk, pending, failedAt, saving, lookup>>

\* The intake stops and starts: only the disk is left.
RestartIntake ==
  /\ starts < MaxStarts
  /\ starts' = starts + 1
  /\ kept' = [r \in Region |-> NoCatalog] /\ pending' = {} /\ saving' = {}
  /\ failedAt' = [r \in Region |-> -1] /\ lookup' = NoLookup
  /\ UNCHANGED <<day, onDisk>>

PricesInit ==
  /\ day = MaxAge /\ starts = 1
  /\ onDisk \in Leftovers
  /\ kept = [r \in Region |-> NoCatalog] /\ pending = {} /\ saving = {}
  /\ failedAt = [r \in Region |-> -1] /\ lookup = NoLookup

PricesNext ==
  \/ Look \/ ReadFile \/ PutFile \/ Schedule
  \/ FetchFails \/ FetchEnds \/ SaveToDisk
  \/ PriceTick \/ RestartIntake

PricesSpec == PricesInit /\ [][PricesNext]_priceVars

-----------------------------------------------------------------------------
(* Properties. *)

\* A price that is shown is one the provider has listed for that region and type, never
\* another column's, never another region's, whatever broke off, was left on disk or is stale.
AnswersAreListed ==
  lookup.answer > 0 => <<lookup.type, lookup.answer>> \in Listed(lookup.region)

\* Resolver.Status: what an operator who looks at a blank column is told about.
Status == {r \in Region : kept[r] # NoCatalog \/ r \in pending \/ failedAt[r] >= 0}

\* A blank price is explained: its region is held, is being fetched or has failed, unless
\* the resolver is full.
BlankIsExplained ==
  lookup.answer = 0 => \/ lookup.region \in Status
                       \/ Cardinality({q \in Region : kept[q] # NoCatalog}) >= MaxRegions

\* "A permanently bad region name does not schedule a 300 MB download on every page
\* render", and a region's rates are never replaced by older ones within a run.
RefreshIsOrderly ==
  /\ \A r \in pending' \ pending : failedAt[r] >= 0 => day - failedAt[r] >= RetryAfter
  /\ \A r \in Region : starts' = starts => kept'[r].fetched >= kept[r].fetched

\* What the price column says is what the provider listed, or why it says nothing; and
\* looking at it costs a download at most now and then.
PriceColumnIsTrue == [](AnswersAreListed /\ BlankIsExplained) /\ [][RefreshIsOrderly]_priceVars

=============================================================================
