------------------------- MODULE ResultPanelProofs -------------------------
(***************************************************************************)
(* Machine-checked proofs about the readers of the admin connection and the *)
(* result panel, for any number of readers, queries, pages, clicks and      *)
(* faults: pages are never mixed, the page listens to its own query, and a  *)
(* patient person is shown the table that the page means.                   *)
(***************************************************************************)
EXTENDS ResultPanel, TLAPS

\* A reader between its statements has the lock, and the connection is about what
\* it reads; what it has got so far is of one result.
Exclusive ==
    \A r \in Reader :
        /\ reading[r].at \in {"total", "columns", "rows"} => lock = r /\ cursor = reading[r].of
        /\ reading[r].at = "columns" => reading[r].total = reading[r].of
        /\ reading[r].at = "rows" /\ reading[r].of # Catalog =>
             reading[r].total = reading[r].of /\ reading[r].columns = reading[r].of
        /\ reading[r].at \in {"total", "columns"} => reading[r].of # Catalog
        /\ reading[r].at # "idle" => reading[r].of # None

ReaderInv == ReaderTypeOK /\ Exclusive /\ PagesAreWhole

ReadingType ==
    [of : Subject \cup {None}, offset : Nat,
     at : {"idle", "asked", "total", "columns", "rows", "read", "failed"},
     total : Subject \cup {None}, columns : Subject \cup {None}, rows : Subject \cup {None}]

LEMMA ReaderInitInv == ReaderInit => ReaderInv
  BY ReaderAssumption
     DEF ReaderInit, ReaderInv, ReaderTypeOK, Exclusive, PagesAreWhole, NotReading

\* A step of one reader concerns nobody else, as long as nobody else has the lock.
LEMMA OneReader ==
    ASSUME ReaderInv, NEW r \in Reader, NEW x \in ReadingType,
           reading' = [reading EXCEPT ![r] = x],
           lock' \in Reader \cup {None}, cursor' \in Subject \cup {None},
           \A s \in Reader \ {r} : lock = s => lock' = lock /\ cursor' = cursor,
           x.at \in {"total", "columns", "rows"} => lock' = r /\ cursor' = x.of,
           x.at = "columns" => x.total = x.of,
           x.at = "rows" /\ x.of # Catalog => x.total = x.of /\ x.columns = x.of,
           x.at \in {"total", "columns"} => x.of # Catalog,
           x.at # "idle" => x.of # None,
           x.at = "read" =>
             x.rows = x.of /\ (x.of # Catalog => x.total = x.of /\ x.columns = x.of)
    PROVE  ReaderInv'
  <1>1. reading \in [Reader -> ReadingType]
    BY DEF ReaderInv, ReaderTypeOK, ReadingType
  <1>2. reading' \in [Reader -> ReadingType] /\ reading'[r] = x
    BY <1>1
  <1>3. \A s \in Reader \ {r} : reading'[s] = reading[s]
    BY <1>1
  <1>4. ReaderTypeOK'
    BY <1>2 DEF ReaderTypeOK, ReadingType
  <1>5. Exclusive'
    BY <1>2, <1>3 DEF ReaderInv, Exclusive
  <1>6. PagesAreWhole'
    BY <1>2, <1>3 DEF ReaderInv, PagesAreWhole
  <1> QED
    BY <1>4, <1>5, <1>6 DEF ReaderInv

LEMMA ReaderNextInv == ReaderInv /\ [ReaderNext]_readerVars => ReaderInv'
  <1> SUFFICES ASSUME ReaderInv, [ReaderNext]_readerVars PROVE ReaderInv'
    OBVIOUS
  <1> USE ReaderAssumption
  <1>0. CASE UNCHANGED readerVars
    BY <1>0 DEF readerVars, ReaderInv, ReaderTypeOK, Exclusive, PagesAreWhole
  <1>1. ASSUME NEW r \in Reader,
               \/ Introspect(r)
               \/ \E q \in QueryId, o \in Nat : Ask(r, q, o)
               \/ ReadStep(r)
               \/ ReadFails(r)
               \/ Use(r)
        PROVE  ReaderInv'
    <2>1. /\ reading \in [Reader -> ReadingType] /\ reading[r] \in ReadingType
          /\ lock \in Reader \cup {None} /\ cursor \in Subject \cup {None}
      BY DEF ReaderInv, ReaderTypeOK, ReadingType
    <2>2. CASE Introspect(r)
      <3>1. /\ Asked(Catalog, 0) \in ReadingType /\ Asked(Catalog, 0).at = "asked"
            /\ Asked(Catalog, 0).of # None
        BY DEF Asked, NotReading, ReadingType, Subject
      <3> QED
        BY <2>1, <2>2, <3>1, OneReader DEF Introspect
    <2>3. ASSUME NEW q \in QueryId, NEW o \in Nat, Ask(r, q, o)
          PROVE  ReaderInv'
      <3>1. /\ Asked(q, o) \in ReadingType /\ Asked(q, o).at = "asked"
            /\ Asked(q, o).of # None
        BY DEF Asked, NotReading, ReadingType, Subject
      <3> QED
        BY <2>1, <2>3, <3>1, OneReader DEF Ask
    <2>4. CASE StartReading(r)
      <3> DEFINE x == [reading[r] EXCEPT !.at = IF reading[r].of = Catalog THEN "rows" ELSE "total"]
      <3>1. x \in ReadingType /\ x.of = reading[r].of
            /\ x.at \in {"rows", "total"} /\ (x.at = "rows" <=> x.of = Catalog)
        BY <2>1 DEF ReadingType
      <3>2. reading' = [reading EXCEPT ![r] = x] /\ lock = None /\ lock' = r /\ cursor' = x.of
            /\ x.of # None
        BY <2>1, <2>4 DEF StartReading, TakeLock, Execute, ReaderInv, Exclusive
      <3>3. x.of \in Subject \cup {None}
        BY <3>1 DEF ReadingType
      <3> HIDE DEF x
      <3> QED
        BY <2>1, <3>1, <3>2, <3>3, OneReader
    <2>5. CASE FetchTotal(r)
      <3> DEFINE x == [reading[r] EXCEPT !.at = "columns", !.total = cursor]
      <3>1. x \in ReadingType /\ x.of = reading[r].of /\ x.at = "columns" /\ x.total = cursor
        BY <2>1 DEF ReadingType
      <3>2. lock = r /\ cursor = reading[r].of /\ reading[r].of # Catalog /\ reading[r].of # None
        BY <2>5 DEF FetchTotal, ReaderInv, Exclusive
      <3>3. reading' = [reading EXCEPT ![r] = x] /\ lock' = lock /\ cursor' = reading[r].of
        BY <2>1, <2>5 DEF FetchTotal
      <3> HIDE DEF x
      <3> QED
        BY <2>1, <3>1, <3>2, <3>3, OneReader
    <2>6. CASE FetchColumns(r)
      <3> DEFINE x == [reading[r] EXCEPT !.at = "rows", !.columns = cursor]
      <3>1. x \in ReadingType /\ x.of = reading[r].of /\ x.at = "rows" /\ x.columns = cursor
            /\ x.total = reading[r].total
        BY <2>1 DEF ReadingType
      <3>2. /\ lock = r /\ cursor = reading[r].of /\ reading[r].total = reading[r].of
            /\ reading[r].of # None
        BY <2>6 DEF FetchColumns, ReaderInv, Exclusive
      <3>3. reading' = [reading EXCEPT ![r] = x] /\ lock' = lock /\ cursor' = reading[r].of
        BY <2>1, <2>6 DEF FetchColumns
      <3> HIDE DEF x
      <3> QED
        BY <2>1, <3>1, <3>2, <3>3, OneReader
    <2>7. CASE FetchRows(r)
      <3> DEFINE x == [reading[r] EXCEPT !.at = "read", !.rows = cursor]
      <3>1. x \in ReadingType /\ x.of = reading[r].of /\ x.at = "read" /\ x.rows = cursor
            /\ x.total = reading[r].total /\ x.columns = reading[r].columns
        BY <2>1 DEF ReadingType
      <3>2. /\ lock = r /\ cursor = reading[r].of /\ reading[r].of # None
            /\ reading[r].of # Catalog =>
                 reading[r].total = reading[r].of /\ reading[r].columns = reading[r].of
        BY <2>7 DEF FetchRows, ReaderInv, Exclusive
      <3>3. reading' = [reading EXCEPT ![r] = x] /\ lock' = None /\ cursor' = cursor
        BY <2>1, <2>7, <3>2 DEF FetchRows, Unlock
      <3> HIDE DEF x
      <3> QED
        BY <2>1, <3>1, <3>2, <3>3, OneReader
    <2>8. CASE ReadFails(r)
      <3> DEFINE x == [reading[r] EXCEPT !.at = "failed"]
      <3>1. x \in ReadingType /\ x.at = "failed" /\ x.of = reading[r].of /\ x.of # None
        BY <2>1, <2>8 DEF ReadingType, ReadFails, ReaderInv, Exclusive
      <3>2. reading' = [reading EXCEPT ![r] = x] /\ cursor' = cursor
            /\ lock' = IF lock = r THEN None ELSE lock
        BY <2>1, <2>8 DEF ReadFails, Unlock
      <3> HIDE DEF x
      <3> QED
        BY <2>1, <3>1, <3>2, OneReader
    <2>9. CASE Use(r)
      <3>1. NotReading \in ReadingType /\ NotReading.at = "idle"
        BY DEF NotReading, ReadingType
      <3> QED
        BY <2>1, <2>9, <3>1, OneReader DEF Use
    <2> QED
      BY <1>1, <2>2, <2>3, <2>4, <2>5, <2>6, <2>7, <2>8, <2>9 DEF ReadStep
  <1> QED
    BY <1>0, <1>1 DEF ReaderNext

\* The readers of the admin connection, whoever asks for what and whenever a read
\* fails, return pages made of one result each.
THEOREM ReadersReadWhole == ReaderSpec => []PagesAreWhole
  <1>1. ReaderInv => PagesAreWhole
    BY DEF ReaderInv
  <1> QED
    BY <1>1, ReaderInitInv, ReaderNextInv, PTL DEF ReaderSpec
-----------------------------------------------------------------------------
(* The panel *)

\* Who asked for a row, or got a query, knows which; a page has a reader to fail.
GoodJob ==
    {j \in JobType :
       /\ j.kind = "ask" \/ (j.kind = "submit" /\ j.reply = "ok") => j.query # None
       /\ j.kind \in PageKind => j.reply = "none"}

\* Only slots that load a page read, and they read results; onerror asks only
\* after a break.
JobsOK ==
    /\ jobs \in [Slot -> GoodJob]
    /\ \A k \in Slot :
         /\ jobs[k].kind \in PageKind <=> reading[k] # NotReading
         /\ reading[k].of \in QueryId \cup {None}
         /\ jobs[k].kind = "ask" => breaks > 0

ButtonOK ==
    /\ button \in {"run", "cancel", "disabled"}
    /\ running \in BOOLEAN
    /\ button # "disabled" => (running <=> button = "cancel")

ViewOK ==
    view \in [kind : {"message", "table"}, of : QueryId \cup {None},
              columns : QueryId \cup {None}, offset : Nat, label : Nat]

CountsOK ==
    /\ inputs \in 0 .. MaxInputs
    /\ offset \in 0 .. inputs
    /\ breaks \in 0 .. MaxBreaks
    /\ missed \in BOOLEAN

\* A page that waits for a query without a stream has seen a stream break.
Listening ==
    /\ status \in [QueryId -> {"absent", "unfinished", "completed", "failed"}]
    /\ current \in QueryId \cup {None}
    /\ source \in {None, current}
    /\ running /\ source = None => breaks > 0

ScreenOK == ButtonOK /\ ViewOK /\ CountsOK /\ Listening

PanelInv == ReaderInv /\ JobsOK /\ ScreenOK

LEMMA PanelInvImplies == PanelInv => PanelTypeOK /\ PagesAreWhole /\ WatchesCurrent
  BY UserAssumption
     DEF PanelInv, ReaderInv, JobsOK, ScreenOK, ButtonOK, ViewOK, CountsOK, Listening,
         GoodJob, PanelTypeOK, WatchesCurrent, Deaf

LEMMA PanelInitInv == PanelInit => PanelInv
  <1> SUFFICES ASSUME PanelInit PROVE PanelInv
    OBVIOUS
  <1>1. ReaderInv
    BY ReaderInitInv DEF PanelInit
  <1>2. \A k \in Slot : reading[k] = NotReading
    BY PanelAssumption DEF PanelInit, ReaderInit
  <1>3. NotReading.of = None
    BY DEF NotReading
  <1>4. NoJob \in GoodJob /\ NoJob.kind = "none"
    BY DEF NoJob, GoodJob, JobType, PageKind
  <1>5. JobsOK
    BY <1>2, <1>3, <1>4 DEF PanelInit, JobsOK, PageKind
  <1>6. ViewOK
    BY DEF PanelInit, Message, ViewOK
  <1>7. ButtonOK
    BY DEF PanelInit, ButtonOK
  <1>8. CountsOK
    <2>1. missed \in BOOLEAN
      BY DEF PanelInit
    <2>2. inputs = 0 /\ offset = 0 /\ breaks = 0
      BY DEF PanelInit, UserInit
    <2> QED
      BY <2>1, <2>2, UserAssumption, PanelAssumption DEF CountsOK
  <1>9. Listening
    BY DEF PanelInit, Listening
  <1> QED
    BY <1>1, <1>5, <1>6, <1>7, <1>8, <1>9 DEF PanelInv, ScreenOK

LEMMA FreeSlotIsFree ==
    ASSUME FreeSlots # {}, JobsOK
    PROVE  /\ FreeSlot \in Slot
           /\ jobs[FreeSlot] = NoJob
           /\ reading[FreeSlot] = NotReading
  <1>1. FreeSlot \in FreeSlots
    BY DEF FreeSlot
  <1> QED
    BY <1>1 DEF FreeSlots, JobsOK, NoJob, PageKind

\* A handler starts, goes on or ends in slot k, and its reader with it.
LEMMA OneJob ==
    ASSUME JobsOK, ScreenOK, NEW k \in Slot, NEW j \in GoodJob, jobs' = [jobs EXCEPT ![k] = j],
           \A l \in Slot \ {k} : reading'[l] = reading[l],
           j.kind \in PageKind <=> reading'[k] # NotReading,
           reading'[k].of \in QueryId \cup {None},
           breaks' \in 0 .. MaxBreaks, breaks' >= breaks,
           j.kind = "ask" => breaks' > 0
    PROVE  JobsOK'
  <1>1. jobs' \in [Slot -> GoodJob]
    BY DEF JobsOK
  <1>2. jobs'[k] = j /\ \A l \in Slot \ {k} : jobs'[l] = jobs[l]
    BY DEF JobsOK
  <1>3. breaks \in 0 .. MaxBreaks /\ MaxBreaks \in Nat
    BY PanelAssumption DEF ScreenOK, CountsOK
  <1> QED
    BY <1>1, <1>2, <1>3 DEF JobsOK

\* The same when the readers do nothing.
LEMMA OneCall ==
    ASSUME JobsOK, ScreenOK, NEW k \in Slot, NEW j \in GoodJob, jobs' = [jobs EXCEPT ![k] = j],
           UNCHANGED readerVars,
           j.kind \in PageKind <=> jobs[k].kind \in PageKind,
           breaks' \in 0 .. MaxBreaks, breaks' >= breaks,
           j.kind = "ask" => breaks' > 0
    PROVE  JobsOK'
  <1>1. reading' = reading /\ reading[k].of \in QueryId \cup {None}
        /\ (jobs[k].kind \in PageKind <=> reading[k] # NotReading)
    BY DEF readerVars, JobsOK
  <1> QED
    BY <1>1, OneJob

\* A handler calls the coordinator, from a slot that is free.
LEMMA NewCall ==
    ASSUME JobsOK, ScreenOK, FreeSlots # {}, NEW j \in GoodJob, Put(FreeSlot, j),
           UNCHANGED readerVars, j.kind \notin PageKind,
           breaks' \in 0 .. MaxBreaks, breaks' >= breaks,
           j.kind = "ask" => breaks' > 0
    PROVE  JobsOK'
  <1>1. FreeSlot \in Slot /\ jobs[FreeSlot].kind \notin PageKind
    BY FreeSlotIsFree DEF NoJob, PageKind
  <1>2. jobs' = [jobs EXCEPT ![FreeSlot] = j]
    BY DEF Put
  <1> QED
    BY <1>1, <1>2, OneCall

LEMMA JobsStay ==
    ASSUME JobsOK, ScreenOK, UNCHANGED <<readerVars, jobs>>,
           breaks' \in 0 .. MaxBreaks, breaks' >= breaks
    PROVE  JobsOK'
  <1>1. breaks \in 0 .. MaxBreaks /\ MaxBreaks \in Nat
    BY PanelAssumption DEF ScreenOK, CountsOK
  <1> QED
    BY <1>1 DEF readerVars, JobsOK

\* Loading a page for q into a slot that has no reader.
LEMMA PageAsked ==
    ASSUME ReaderInv, JobsOK, ScreenOK, NEW k \in Slot, NEW kind \in PageKind, NEW q \in QueryId,
           NEW o \in Nat, LoadResultPage(k, kind, q, o), breaks' = breaks
    PROVE  ReaderNext /\ JobsOK'
  <1>1. Job(kind, q) \in GoodJob /\ Job(kind, q).kind = kind /\ kind # "ask"
    BY DEF Job, GoodJob, JobType, PageKind
  <1>2. k \in Reader /\ Ask(k, q, o)
    BY PanelAssumption DEF LoadResultPage
  <1>3. ReaderNext
    BY <1>2 DEF ReaderNext
  <1>4. Asked(q, o).of = q /\ Asked(q, o) # NotReading
    BY DEF Asked, NotReading
  <1>5. reading'[k] = Asked(q, o) /\ \A l \in Slot \ {k} : reading'[l] = reading[l]
    BY <1>2, PanelAssumption DEF Ask, ReaderInv, ReaderTypeOK
  <1>6. breaks' \in 0 .. MaxBreaks /\ breaks' >= breaks
    BY PanelAssumption DEF ScreenOK, CountsOK
  <1>7. jobs' = [jobs EXCEPT ![k] = Job(kind, q)]
    BY DEF LoadResultPage, Put
  <1>8. JobsOK'
    <2> DEFINE j == Job(kind, q)
    <2>1. /\ j \in GoodJob /\ (j.kind \in PageKind <=> reading'[k] # NotReading)
          /\ (j.kind = "ask" => breaks' > 0)
          /\ reading'[k].of \in QueryId \cup {None}
          /\ jobs' = [jobs EXCEPT ![k] = j]
      BY <1>1, <1>4, <1>5, <1>7
    <2> HIDE DEF j
    <2> QED
      BY <1>5, <1>6, <2>1, OneJob
  <1> QED
    BY <1>3, <1>8

\* A page has been used.
LEMMA PageUsed ==
    ASSUME ReaderInv, JobsOK, ScreenOK, NEW k \in Slot, Use(k), End(k), breaks' = breaks
    PROVE  ReaderNext /\ JobsOK'
  <1>1. NoJob \in GoodJob /\ NoJob.kind = "none"
    BY DEF NoJob, GoodJob, JobType, PageKind
  <1>2. k \in Reader
    BY PanelAssumption
  <1>3. reading'[k] = NotReading /\ \A l \in Slot \ {k} : reading'[l] = reading[l]
    BY <1>2, PanelAssumption DEF Use, ReaderInv, ReaderTypeOK
  <1>4. breaks' \in 0 .. MaxBreaks /\ breaks' >= breaks /\ NotReading.of = None
    BY PanelAssumption DEF ScreenOK, CountsOK, NotReading
  <1>5. jobs' = [jobs EXCEPT ![k] = NoJob]
    BY DEF End, Put
  <1>6. NoJob.kind \notin PageKind /\ NoJob.kind # "ask"
    BY <1>1 DEF PageKind
  <1>7. JobsOK'
    BY <1>1, <1>3, <1>4, <1>5, <1>6, OneJob
  <1> QED
    BY <1>2, <1>7 DEF ReaderNext

\* While r reads, it stays a reader of the same thing.
LEMMA ReadingGoesOn ==
    ASSUME ReaderInv, JobsOK, ScreenOK, NEW r \in Reader, ReadStep(r) \/ ReadFails(r),
           UNCHANGED jobs, breaks' \in 0 .. MaxBreaks, breaks' >= breaks
    PROVE  ReaderNext /\ JobsOK'
  <1>1. reading \in [Reader -> ReadingType]
    BY DEF ReaderInv, ReaderTypeOK, ReadingType
  <1>2. /\ reading[r].at # "idle" /\ reading'[r].at # "idle"
        /\ reading'[r].of = reading[r].of
        /\ \A s \in Reader \ {r} : reading'[s] = reading[s]
    BY <1>1 DEF ReadStep, StartReading, Execute, FetchTotal, FetchColumns, FetchRows, ReadFails,
                ReadingType
  <1>3. reading[r] # NotReading /\ reading'[r] # NotReading
    BY <1>2 DEF NotReading
  <1>4. breaks \in 0 .. MaxBreaks /\ MaxBreaks \in Nat
    BY PanelAssumption DEF ScreenOK, CountsOK
  <1>5. JobsOK'
    BY <1>2, <1>3, <1>4, PanelAssumption DEF JobsOK
  <1> QED
    BY <1>5 DEF ReaderNext

LEMMA ButtonSet ==
    ASSUME ButtonOK, NEW mode \in {"run", "cancel", "disabled"}, SetRunButtonMode(mode)
    PROVE  /\ ButtonOK'
           /\ mode = "run" => ~running'
           /\ mode = "disabled" => running' = running
  BY DEF ButtonOK, SetRunButtonMode

LEMMA MessageOK == ASSUME NEW q \in QueryId \cup {None}, view' = Message(q) PROVE ViewOK'
  BY DEF Message, ViewOK

LEMMA ClickCounts ==
    ASSUME ScreenOK, Click, offset' \in 0 .. inputs + 1, UNCHANGED <<missed, breaks>>
    PROVE  CountsOK' /\ (offset \in 0 .. inputs + 1)
  BY UserAssumption DEF ScreenOK, CountsOK, Click, Input

LEMMA CountsStay ==
    ASSUME ScreenOK, UNCHANGED <<user, breaks>>, offset' = offset \/ offset' = 0,
           missed' \in BOOLEAN
    PROVE  CountsOK'
  BY UserAssumption DEF ScreenOK, CountsOK, user

LEMMA PersonInv ==
    ASSUME PanelInv, Person
    PROVE  [ReaderNext]_readerVars /\ JobsOK' /\ ScreenOK'
  <1> USE DEF PanelInv
  <1>0. ButtonOK /\ ViewOK /\ CountsOK /\ Listening
        /\ breaks \in 0 .. MaxBreaks /\ breaks >= breaks /\ offset \in 0 .. inputs + 1
        /\ inputs \in Nat
    BY PanelAssumption, UserAssumption DEF ScreenOK, CountsOK
  <1>1. CASE RunQuery
    <2>1. FreeSlots # {} /\ Click /\ ~running
      BY <1>1 DEF RunQuery, Click
    <2>2. Job("submit", None) \in GoodJob /\ Job("submit", None).kind \notin PageKind
          /\ Job("submit", None).kind # "ask"
      BY DEF Job, GoodJob, JobType, PageKind
    <2>3. JobsOK'
      BY <1>0, <1>1, <2>1, <2>2, NewCall DEF RunQuery
    <2>4. ButtonOK' /\ running' = running
      BY <1>0, <1>1, ButtonSet DEF RunQuery
    <2>5. ViewOK'
      BY <1>1, MessageOK DEF RunQuery
    <2>6. CountsOK'
      BY <1>0, <1>1, <2>1, ClickCounts DEF RunQuery
    <2>7. Listening'
      BY <1>0, <1>1, <2>1, <2>4 DEF RunQuery, Listening
    <2> QED
      BY <1>1, <2>3, <2>4, <2>5, <2>6, <2>7 DEF RunQuery, ScreenOK
  <1>2. CASE CancelQuery
    <2>1. FreeSlots # {} /\ Click
      BY <1>2 DEF CancelQuery, Click
    <2>2. Job("cancel", current) \in GoodJob /\ Job("cancel", current).kind \notin PageKind
          /\ Job("cancel", current).kind # "ask"
      BY <1>0 DEF Job, GoodJob, JobType, PageKind, Listening
    <2>3. JobsOK'
      BY <1>0, <1>2, <2>1, <2>2, NewCall DEF CancelQuery
    <2>4. ButtonOK' /\ running' = running
      BY <1>0, <1>2, ButtonSet DEF CancelQuery
    <2>5. ViewOK'
      BY <1>0, <1>2 DEF CancelQuery, ViewOK, panel
    <2>6. CountsOK'
      BY <1>0, <1>2, <2>1, ClickCounts DEF CancelQuery, panel
    <2>7. Listening'
      BY <1>0, <1>2, <2>4 DEF CancelQuery, Listening
    <2> QED
      BY <1>2, <2>3, <2>4, <2>5, <2>6, <2>7 DEF CancelQuery, ScreenOK
  <1>3. ASSUME NEW q \in QueryId, NEW s, OpenHistoryQuery(q, s)
        PROVE  [ReaderNext]_readerVars /\ JobsOK' /\ ScreenOK'
    <2>1. FreeSlots # {} /\ Click /\ current' = q /\ UNCHANGED <<status, missed, breaks>>
      BY <1>3 DEF OpenHistoryQuery, Click
    <2>2. CASE s = "unfinished"
      <3>1. /\ source' = q /\ view' = Message(q) /\ SetRunButtonMode("cancel")
            /\ UNCHANGED <<readerVars, offset, jobs>>
        BY <1>3, <2>2 DEF OpenHistoryQuery
      <3>2. JobsOK'
        BY <1>0, <2>1, <3>1, JobsStay
      <3>3. ButtonOK'
        BY <1>0, <3>1, ButtonSet
      <3>4. ViewOK' /\ CountsOK'
        BY <1>0, <2>1, <3>1, MessageOK, ClickCounts
      <3>5. Listening'
        BY <1>0, <2>1, <3>1, ReaderAssumption DEF Listening
      <3> QED
        BY <3>1, <3>2, <3>3, <3>4, <3>5 DEF ScreenOK
    <2>3. CASE s # "unfinished"
      <3>1. source' = None /\ SetRunButtonMode("run")
        BY <1>3, <2>3 DEF OpenHistoryQuery
      <3>2. ButtonOK' /\ ~running'
        BY <1>0, <3>1, ButtonSet
      <3>3. Listening'
        BY <1>0, <2>1, <3>1, <3>2 DEF Listening
      <3>4. CASE offset' = 0 /\ LoadResultPage(FreeSlot, "history", q, 0) /\ UNCHANGED view
        <4>1. ReaderNext /\ JobsOK'
          BY <2>1, <3>4, FreeSlotIsFree, PageAsked DEF PageKind
        <4>2. ViewOK' /\ CountsOK'
          BY <1>0, <2>1, <3>4, ClickCounts DEF ViewOK
        <4> QED
          BY <3>2, <3>3, <4>1, <4>2 DEF ScreenOK
      <3>5. CASE view' = Message(q) /\ UNCHANGED <<readerVars, offset, jobs>>
        <4>1. JobsOK'
          BY <1>0, <2>1, <3>5, JobsStay
        <4>2. ViewOK' /\ CountsOK'
          BY <1>0, <2>1, <3>5, MessageOK, ClickCounts
        <4> QED
          BY <3>2, <3>3, <3>5, <4>1, <4>2 DEF ScreenOK
      <3> QED
        BY <1>3, <2>3, <3>4, <3>5 DEF OpenHistoryQuery
    <2> QED
      BY <2>2, <2>3
  <1>4. CASE TurnPage
    <2>1. FreeSlots # {} /\ Click
          /\ UNCHANGED <<status, current, button, running, source, view, missed, breaks>>
      BY <1>4 DEF TurnPage, Click, panel
    <2>2. offset' \in 0 .. inputs + 1 /\ offset' \in Nat
      BY <1>0, <1>4 DEF TurnPage, CountsOK
    <2>3. CountsOK'
      BY <1>0, <2>1, <2>2, ClickCounts
    <2>4. ButtonOK' /\ ViewOK' /\ Listening'
      BY <1>0, <2>1 DEF ButtonOK, ViewOK, Listening
    <2>5. CASE current # None /\ LoadResultPage(FreeSlot, "pager", current, offset')
      <3>1. current \in QueryId
        BY <1>0, <2>5 DEF Listening
      <3>2. ReaderNext /\ JobsOK'
        BY <2>1, <2>2, <2>5, <3>1, FreeSlotIsFree, PageAsked DEF PageKind
      <3> QED
        BY <2>3, <2>4, <3>2 DEF ScreenOK
    <2>6. CASE current = None /\ UNCHANGED <<readerVars, jobs>>
      <3>1. JobsOK'
        BY <1>0, <2>1, <2>6, JobsStay
      <3> QED
        BY <2>3, <2>4, <2>6, <3>1 DEF ScreenOK
    <2> QED
      BY <1>4, <2>5, <2>6 DEF TurnPage
  <1> QED
    BY <1>1, <1>2, <1>3, <1>4 DEF Person

\* What the coordinator and the worker do leaves the screen as it is.
LEMMA ScreenStays ==
    ASSUME ScreenOK, ServerOnly, breaks' \in 0 .. MaxBreaks, breaks' >= breaks,
           status' \in [QueryId -> {"absent", "unfinished", "completed", "failed"}]
    PROVE  ScreenOK'
  <1>1. ButtonOK' /\ ViewOK'
    BY DEF ScreenOK, ServerOnly, page, panel, ButtonOK, ViewOK
  <1>2. CountsOK'
    BY DEF ScreenOK, ServerOnly, user, page, panel, CountsOK
  <1>3. breaks \in Nat /\ breaks' \in Nat
    BY PanelAssumption DEF ScreenOK, CountsOK
  <1>4. Listening'
    BY <1>3 DEF ScreenOK, ServerOnly, page, Listening
  <1> QED
    BY <1>1, <1>2, <1>4 DEF ScreenOK

\* A fault is counted; otherwise none is.
LEMMA BreaksCounted ==
    ASSUME ScreenOK, Break \/ UNCHANGED breaks
    PROVE  breaks' \in 0 .. MaxBreaks /\ breaks' >= breaks /\ (Break => breaks' > 0)
  BY PanelAssumption DEF ScreenOK, CountsOK, Break

\* A call that is answered stays the call it was.
LEMMA Replied ==
    ASSUME JobsOK, ScreenOK, NEW k \in Slot, UNCHANGED readerVars,
           NEW r \in {"ok", "error", "absent", "unfinished", "completed", "failed"}, Reply(k, r),
           jobs[k].kind = "submit" => r = "error", jobs[k].kind \notin PageKind,
           breaks' \in 0 .. MaxBreaks, breaks' >= breaks
    PROVE  JobsOK'
  <1> DEFINE j == [jobs[k] EXCEPT !.reply = r]
  <1>1. jobs' = [jobs EXCEPT ![k] = j]
    BY DEF Reply, JobsOK
  <1>2. j \in GoodJob /\ j.kind = jobs[k].kind
    BY DEF JobsOK, GoodJob, JobType, PageKind
  <1>3. j.kind = "ask" => breaks' > 0
    BY <1>2, PanelAssumption DEF JobsOK, ScreenOK, CountsOK
  <1> HIDE DEF j
  <1> QED
    BY <1>1, <1>2, <1>3, OneCall

LEMMA ServerInv ==
    ASSUME PanelInv,
           \/ \E q \in QueryId : EndQuery(q)
           \/ \E k \in Slot : Serve(k) \/ CallLost(k)
           \/ \E r \in Reader : ServePage(r) \/ ResultLost(r)
           \/ \E r \in Reader \ Slot : ReadCatalog(r)
    PROVE  [ReaderNext]_readerVars /\ JobsOK' /\ ScreenOK'
  <1> DEFINE StatusOK ==
          status \in [QueryId -> {"absent", "unfinished", "completed", "failed"}]
  <1> USE DEF PanelInv
  <1>0. StatusOK
    BY DEF ScreenOK, Listening
  <1>1. ASSUME NEW q \in QueryId, EndQuery(q)
        PROVE  [ReaderNext]_readerVars /\ JobsOK' /\ ScreenOK'
    <2>1. StatusOK' /\ ServerOnly /\ UNCHANGED <<readerVars, jobs>>
      BY <1>0, <1>1 DEF EndQuery
    <2>2. breaks' \in 0 .. MaxBreaks /\ breaks' >= breaks
      BY <1>1, BreaksCounted DEF EndQuery
    <2> QED
      BY <2>1, <2>2, JobsStay, ScreenStays
  <1>2. ASSUME NEW k \in Slot, CreateQuery(k)
        PROVE  [ReaderNext]_readerVars /\ JobsOK' /\ ScreenOK'
    <2>1. PICK q \in QueryId :
            /\ status' = [status EXCEPT ![q] = "unfinished"]
            /\ jobs' = [jobs EXCEPT ![k].query = q, ![k].reply = "ok"]
      BY <1>2 DEF CreateQuery
    <2>2. ServerOnly /\ UNCHANGED readerVars /\ jobs[k].kind = "submit"
      BY <1>2 DEF CreateQuery, Calls
    <2>3. breaks' \in 0 .. MaxBreaks /\ breaks' >= breaks
      BY <1>2, BreaksCounted DEF CreateQuery
    <2>4. StatusOK'
      BY <1>0, <2>1
    <2> DEFINE j == [jobs[k] EXCEPT !.query = q, !.reply = "ok"]
    <2>5. jobs' = [jobs EXCEPT ![k] = j] /\ j.kind = "submit"
      BY <2>1, <2>2 DEF JobsOK, GoodJob, JobType, PageKind
    <2>6. j \in GoodJob
      BY <2>2, ReaderAssumption DEF JobsOK, GoodJob, JobType, PageKind
    <2> HIDE DEF j
    <2>7. JobsOK'
      BY <2>2, <2>3, <2>5, <2>6, OneCall DEF PageKind
    <2> QED
      BY <2>2, <2>3, <2>4, <2>7, ScreenStays
  <1>3. ASSUME NEW k \in Slot, ServeCancel(k)
        PROVE  [ReaderNext]_readerVars /\ JobsOK' /\ ScreenOK'
    <2>1. /\ ServerOnly /\ UNCHANGED readerVars /\ jobs[k].kind = "cancel"
          /\ Reply(k, "ok") \/ Reply(k, "error")
          /\ jobs[k].kind \notin PageKind
      BY <1>3 DEF ServeCancel, Calls, PageKind
    <2>2. breaks' \in 0 .. MaxBreaks /\ breaks' >= breaks
      BY <1>3, BreaksCounted DEF ServeCancel
    <2>3. StatusOK'
      BY <1>0, <1>3 DEF ServeCancel
    <2> QED
      BY <2>1, <2>2, <2>3, Replied, ScreenStays
  <1>4. ASSUME NEW k \in Slot, ServeAsk(k)
        PROVE  [ReaderNext]_readerVars /\ JobsOK' /\ ScreenOK'
    <2>1. ServerOnly /\ UNCHANGED <<readerVars, status>> /\ Reply(k, status[jobs[k].query])
          /\ jobs[k].kind = "ask" /\ jobs[k].kind \notin PageKind
      BY <1>4 DEF ServeAsk, Calls, PageKind
    <2>2. breaks' \in 0 .. MaxBreaks /\ breaks' >= breaks
      BY <1>4, BreaksCounted DEF ServeAsk
    <2>3. jobs[k].query \in QueryId
      BY <2>1 DEF JobsOK, GoodJob, JobType, PageKind
    <2>4. status[jobs[k].query] \in {"absent", "unfinished", "completed", "failed"}
      BY <1>0, <2>3
    <2> QED
      BY <1>0, <2>1, <2>2, <2>4, Replied, ScreenStays
  <1>5. ASSUME NEW k \in Slot, CallLost(k)
        PROVE  [ReaderNext]_readerVars /\ JobsOK' /\ ScreenOK'
    <2>1. ServerOnly /\ UNCHANGED <<readerVars, status>> /\ Reply(k, "error")
          /\ jobs[k].kind \notin PageKind
      BY <1>5 DEF CallLost, PageKind
    <2>2. breaks' \in 0 .. MaxBreaks /\ breaks' >= breaks
      BY <1>5, BreaksCounted DEF CallLost
    <2> QED
      BY <1>0, <2>1, <2>2, Replied, ScreenStays
  <1>6. ASSUME NEW r \in Reader, ServePage(r) \/ ResultLost(r)
        PROVE  [ReaderNext]_readerVars /\ JobsOK' /\ ScreenOK'
    <2>1. ServerOnly /\ UNCHANGED <<status, jobs>> /\ (ReadStep(r) \/ ReadFails(r))
      BY <1>6 DEF ServePage, ResultLost
    <2>2. breaks' \in 0 .. MaxBreaks /\ breaks' >= breaks
      BY <1>6, BreaksCounted DEF ServePage, ResultLost
    <2> QED
      BY <1>0, <2>1, <2>2, ReadingGoesOn, ScreenStays
  <1>7. ASSUME NEW r \in Reader \ Slot, ReadCatalog(r)
        PROVE  [ReaderNext]_readerVars /\ JobsOK' /\ ScreenOK'
    <2>1. ServerOnly /\ UNCHANGED <<status, jobs>> /\ (Introspect(r) \/ Use(r))
      BY <1>7 DEF ReadCatalog
    <2>2. breaks' = breaks
      BY <1>7 DEF ReadCatalog
    <2>3. \A k \in Slot : reading'[k] = reading[k]
      BY <2>1, PanelAssumption DEF Introspect, Use, ReaderInv, ReaderTypeOK
    <2>4. JobsOK'
      BY <2>1, <2>2, <2>3 DEF JobsOK
    <2>5. breaks' \in 0 .. MaxBreaks /\ breaks' >= breaks
      BY <2>2, BreaksCounted
    <2> QED
      BY <1>0, <2>1, <2>4, <2>5, ScreenStays DEF ReaderNext
  <1> QED
    BY <1>1, <1>2, <1>3, <1>4, <1>5, <1>6, <1>7 DEF Serve

\* A handler that does not load a page ends.
LEMMA CallEnds ==
    ASSUME JobsOK, ScreenOK, NEW k \in Slot, jobs[k].kind \notin PageKind, End(k),
           UNCHANGED <<readerVars, breaks>>
    PROVE  JobsOK'
  <1>1. NoJob \in GoodJob /\ NoJob.kind \notin PageKind /\ NoJob.kind # "ask"
    BY DEF NoJob, GoodJob, JobType, PageKind
  <1>2. breaks' \in 0 .. MaxBreaks /\ breaks' >= breaks
    BY BreaksCounted
  <1>3. jobs' = [jobs EXCEPT ![k] = NoJob]
    BY DEF End, Put
  <1> QED
    BY <1>1, <1>2, <1>3, OneCall

LEMMA FinishInv ==
    ASSUME PanelInv, NEW k \in Slot, jobs[k].kind \notin PageKind, NEW q \in QueryId, NEW s,
           FinishQuery(k, q, s), UNCHANGED <<user, status, breaks>>
    PROVE  [ReaderNext]_readerVars /\ JobsOK' /\ ScreenOK'
  <1> USE DEF PanelInv
  <1>0. ButtonOK /\ ViewOK /\ CountsOK /\ Listening
    BY DEF ScreenOK
  <1>1. ButtonOK' /\ ~running'
    BY <1>0, ButtonSet DEF FinishQuery
  <1>2. source' = None /\ UNCHANGED <<current, missed>>
    BY DEF FinishQuery
  <1>3. Listening'
    BY <1>0, <1>1, <1>2 DEF Listening
  <1>4. offset' = offset \/ offset' = 0
    BY DEF FinishQuery
  <1>5. CountsOK'
    <2>1. missed' \in BOOLEAN
      BY <1>0, <1>2 DEF CountsOK
    <2> QED
      BY <1>4, <2>1, CountsStay
  <1>6. ViewOK'
    <2>1. CASE view' = Message(q)
      BY <2>1, MessageOK
    <2>2. CASE UNCHANGED view
      BY <1>0, <2>2 DEF ViewOK
    <2> QED
      BY <2>1, <2>2 DEF FinishQuery
  <1>7. CASE current # None /\ LoadResultPage(k, "finish", current, 0)
    <2>1. current \in QueryId /\ "finish" \in PageKind
      BY <1>0, <1>7 DEF Listening, PageKind
    <2>2. ReaderNext /\ JobsOK'
      BY <1>7, <2>1, PageAsked
    <2> QED
      BY <1>1, <1>3, <1>5, <1>6, <2>2 DEF ScreenOK
  <1>8. CASE End(k) /\ UNCHANGED readerVars
    <2>1. JobsOK'
      BY <1>8, CallEnds
    <2> QED
      BY <1>1, <1>3, <1>5, <1>6, <1>8, <2>1 DEF ScreenOK
  <1> QED
    BY <1>7, <1>8 DEF FinishQuery

LEMMA AnswerInv ==
    ASSUME PanelInv, NEW k \in Slot, GoOn(k)
    PROVE  [ReaderNext]_readerVars /\ JobsOK' /\ ScreenOK'
  <1> USE DEF PanelInv
  <1>0. /\ ButtonOK /\ ViewOK /\ CountsOK /\ Listening
        /\ UNCHANGED <<user, status, breaks>>
        /\ missed \in BOOLEAN
    BY DEF ScreenOK, CountsOK, GoOn
  <1>1. CASE Submitted(k)
    <2>1. jobs[k].query \in QueryId /\ jobs[k].kind \notin PageKind
      BY <1>1 DEF Submitted, JobsOK, GoodJob, JobType, PageKind
    <2>2. JobsOK'
      BY <1>0, <1>1, <2>1, CallEnds DEF Submitted
    <2>3. ButtonOK'
      BY <1>0, <1>1, ButtonSet DEF Submitted
    <2>4. ViewOK'
      BY <1>0, <1>1 DEF Submitted, ViewOK, panel
    <2>5. CountsOK'
      BY <1>0, <1>1, CountsStay DEF Submitted, panel
    <2>6. Listening'
      BY <1>0, <1>1, <2>1, ReaderAssumption DEF Submitted, Listening
    <2> QED
      BY <1>1, <2>2, <2>3, <2>4, <2>5, <2>6 DEF Submitted, ScreenOK
  <1>2. CASE PageArrives(k)
    <2>1. reading[k].of \in QueryId /\ reading[k].offset \in Nat
          /\ reading[k].rows = reading[k].of /\ reading[k].columns = reading[k].of
      BY <1>2, ReaderAssumption, PanelAssumption
         DEF PageArrives, ReaderInv, ReaderTypeOK, PagesAreWhole, JobsOK, Exclusive
    <2>2. ReaderNext /\ JobsOK'
      BY <1>0, <1>2, PageUsed DEF PageArrives
    <2>3. ButtonOK' /\ Listening' /\ offset' = offset
      BY <1>0, <1>2 DEF PageArrives, page, ButtonOK, Listening
    <2>4. offset \in Nat
      BY <1>0, UserAssumption DEF CountsOK
    <2>5. ViewOK'
      BY <1>2, <2>1, <2>4 DEF PageArrives, ViewOK
    <2>6. missed' \in BOOLEAN
      BY <1>0, <1>2 DEF PageArrives
    <2>7. CountsOK'
      BY <1>0, <2>3, <2>6, CountsStay
    <2> QED
      BY <2>2, <2>3, <2>5, <2>7 DEF ScreenOK
  <1>3. CASE PageFails(k)
    <2>1. ReaderNext /\ JobsOK'
      BY <1>0, <1>3, PageUsed DEF PageFails
    <2>2. ButtonOK' /\ (running' => running)
      <3>1. CASE SetRunButtonMode("run")
        BY <1>0, <3>1, ButtonSet
      <3>2. CASE UNCHANGED <<button, running>>
        BY <1>0, <3>2 DEF ButtonOK
      <3> QED
        BY <1>3, <3>1, <3>2 DEF PageFails
    <2>3. Listening' /\ ViewOK'
      BY <1>0, <1>3, <2>2 DEF PageFails, Listening, ViewOK
    <2>4. missed' \in BOOLEAN /\ offset' = offset
      BY <1>3 DEF PageFails
    <2>5. CountsOK'
      BY <1>0, <2>4, CountsStay
    <2> QED
      BY <2>1, <2>2, <2>3, <2>5 DEF ScreenOK
  <1>4. CASE CancelAccepted(k)
    <2>1. jobs[k].kind \notin PageKind
      BY <1>4 DEF CancelAccepted, PageKind
    <2>2. JobsOK'
      BY <1>0, <1>4, <2>1, CallEnds DEF CancelAccepted
    <2>3. ButtonOK' /\ ViewOK' /\ Listening'
      BY <1>0, <1>4 DEF CancelAccepted, page, panel, ButtonOK, ViewOK, Listening
    <2>4. CountsOK'
      BY <1>0, <1>4, CountsStay DEF CancelAccepted, page, panel
    <2> QED
      BY <1>4, <2>2, <2>3, <2>4 DEF CancelAccepted, ScreenOK
  <1>5. CASE CallFails(k)
    <2>1. UNCHANGED <<readerVars, current, offset, source, panel>> /\ End(k)
          /\ jobs[k].reply = "error"
      BY <1>5 DEF CallFails
    <2>2. JobsOK'
      <3>1. jobs[k].kind \notin PageKind
        BY <2>1 DEF JobsOK, GoodJob
      <3> QED
        BY <1>0, <2>1, <3>1, CallEnds
    <2>3. ButtonOK' /\ ~running'
      BY <1>0, <1>5, ButtonSet DEF CallFails
    <2>4. ViewOK' /\ Listening'
      BY <1>0, <2>1, <2>3 DEF panel, ViewOK, Listening
    <2>5. CountsOK'
      BY <1>0, <2>1, CountsStay DEF panel
    <2> QED
      BY <2>1, <2>2, <2>3, <2>4, <2>5 DEF ScreenOK
  <1>6. CASE AskAnswered(k)
    <2>1. /\ jobs[k].kind \notin PageKind /\ jobs[k].query \in QueryId
          /\ jobs[k].kind = "ask" /\ breaks > 0
      BY <1>6 DEF AskAnswered, JobsOK, GoodJob, JobType, PageKind
    <2>2. CASE FinishQuery(k, jobs[k].query, jobs[k].reply)
      BY <1>0, <2>1, <2>2, FinishInv
    <2>3. CASE /\ SetRunButtonMode("cancel") /\ End(k)
               /\ UNCHANGED <<readerVars, current, offset, source, panel>>
      <3>1. JobsOK'
        BY <1>0, <2>1, <2>3, CallEnds
      <3>2. ButtonOK'
        BY <1>0, <2>3, ButtonSet
      <3>3. ViewOK' /\ Listening'
        BY <1>0, <2>1, <2>3 DEF panel, ViewOK, Listening
      <3>4. CountsOK'
        BY <1>0, <2>3, CountsStay DEF panel
      <3> QED
        BY <2>3, <3>1, <3>2, <3>3, <3>4 DEF ScreenOK
    <2> QED
      BY <1>6, <2>2, <2>3 DEF AskAnswered
  <1> QED
    BY <1>1, <1>2, <1>3, <1>4, <1>5, <1>6 DEF GoOn

\* A stream brings an event, or breaks.
LEMMA StreamInv ==
    ASSUME PanelInv, QueryGoesOn \/ QueryEnds \/ StreamBreaks
    PROVE  [ReaderNext]_readerVars /\ JobsOK' /\ ScreenOK'
  <1> USE DEF PanelInv
  <1>0. /\ ButtonOK /\ ViewOK /\ CountsOK /\ Listening
        /\ missed \in BOOLEAN
    BY DEF ScreenOK, CountsOK
  <1>1. CASE QueryGoesOn
    <2>1. UNCHANGED <<user, readerVars, status, current, offset, source, panel, jobs, breaks>>
          /\ source # None /\ SetRunButtonMode("cancel")
      BY <1>1 DEF QueryGoesOn
    <2>2. JobsOK'
      BY <2>1, BreaksCounted, JobsStay
    <2>3. ButtonOK'
      BY <1>0, <2>1, ButtonSet
    <2>4. ViewOK' /\ Listening'
      BY <1>0, <2>1 DEF panel, ViewOK, Listening
    <2>5. CountsOK'
      BY <1>0, <2>1, CountsStay DEF panel
    <2> QED
      BY <2>1, <2>2, <2>3, <2>4, <2>5 DEF ScreenOK
  <1>2. CASE QueryEnds
    <2>1. FreeSlot \in Slot /\ jobs[FreeSlot].kind \notin PageKind
      BY <1>2, FreeSlotIsFree DEF QueryEnds, NoJob, PageKind
    <2>2. source \in QueryId
      BY <1>0, <1>2 DEF QueryEnds, Listening
    <2> QED
      BY <1>2, <2>1, <2>2, FinishInv DEF QueryEnds
  <1>3. CASE StreamBreaks
    <2>1. /\ source # None /\ FreeSlots # {} /\ Break /\ source' = None
          /\ UNCHANGED <<user, readerVars, status, current, offset, button, running, panel>>
      BY <1>3 DEF StreamBreaks
    <2>2. breaks' \in 0 .. MaxBreaks /\ breaks' >= breaks /\ breaks' > 0
      BY <2>1, BreaksCounted
    <2>3. JobsOK'
      <3>1. CASE jobs' = jobs
        BY <2>1, <2>2, <3>1, JobsStay
      <3>2. CASE jobs' = [jobs EXCEPT ![FreeSlot] = Job("ask", source)]
        <4>1. source \in QueryId
          BY <1>0, <2>1 DEF Listening
        <4>2. Job("ask", source) \in GoodJob /\ Job("ask", source).kind \notin PageKind
          BY <2>1, <4>1 DEF Job, GoodJob, JobType, PageKind
        <4> QED
          BY <2>1, <2>2, <3>2, <4>2, NewCall DEF Put
      <3> QED
        BY <1>3, <3>1, <3>2 DEF StreamBreaks
    <2>4. ButtonOK' /\ ViewOK' /\ Listening'
      BY <1>0, <2>1, <2>2 DEF panel, ButtonOK, ViewOK, Listening
    <2>5. CountsOK'
      BY <1>0, <2>1, <2>2 DEF user, panel, CountsOK
    <2> QED
      BY <2>1, <2>3, <2>4, <2>5 DEF ScreenOK
  <1> QED
    BY <1>1, <1>2, <1>3

\* Every step of the page is a step of the readers, or none of theirs.
LEMMA PanelStep ==
    ASSUME PanelInv, PanelNext
    PROVE  [ReaderNext]_readerVars /\ JobsOK' /\ ScreenOK'
  BY PersonInv, ServerInv, AnswerInv, StreamInv DEF PanelNext

LEMMA PanelNextInv == PanelInv /\ [PanelNext]_panelVars => PanelInv'
  <1> SUFFICES ASSUME PanelInv, [PanelNext]_panelVars PROVE PanelInv'
    OBVIOUS
  <1>1. CASE PanelNext
    <2>1. [ReaderNext]_readerVars /\ JobsOK' /\ ScreenOK'
      BY <1>1, PanelStep
    <2>2. ReaderInv'
      BY <2>1, ReaderNextInv DEF PanelInv
    <2> QED
      BY <2>1, <2>2 DEF PanelInv
  <1>2. CASE UNCHANGED panelVars
    <2>1. /\ UNCHANGED readerVars /\ UNCHANGED <<user, status, page, panel>>
          /\ jobs' = jobs /\ breaks' = breaks
      BY <1>2 DEF panelVars
    <2>2. ReaderInv'
      BY <2>1, ReaderNextInv DEF PanelInv
    <2>3. breaks' \in 0 .. MaxBreaks /\ breaks' >= breaks
      BY <2>1, BreaksCounted DEF PanelInv
    <2>4. JobsOK'
      BY <2>1, <2>3, JobsStay DEF PanelInv
    <2>5. ScreenOK'
      BY <2>1, <2>3, ScreenStays DEF PanelInv, ServerOnly, ScreenOK, Listening
    <2> QED
      BY <2>2, <2>4, <2>5 DEF PanelInv
  <1> QED
    BY <1>1, <1>2

\* The page, its calls and the readers hold what their code can put there, however
\* clicks, answers and broken streams meet.
THEOREM PanelTypeCorrect == PanelSpec => []PanelTypeOK
  BY PanelInitInv, PanelNextInv, PanelInvImplies, PTL DEF PanelSpec

\* The page listens to no query but its current one, and unless a stream broke it
\* never waits for the end of a query that it does not listen to.
THEOREM PanelWatchesCurrent == PanelSpec => []WatchesCurrent
  BY PanelInitInv, PanelNextInv, PanelInvImplies, PTL DEF PanelSpec

\* What the page asks for and uses is what readers are asked for and return: the
\* result panel is one user of the admin connection, with the guarantees of it.
THEOREM PanelReads == PanelSpec => ReaderSpec
  <1>1. PanelInit => ReaderInit
    BY DEF PanelInit
  <1>2. PanelInv /\ [PanelNext]_panelVars => [ReaderNext]_readerVars
    BY PanelStep DEF panelVars, readerVars
  <1> QED
    BY <1>1, <1>2, PanelInitInv, PanelNextInv, PTL DEF PanelSpec, ReaderSpec

\* Whatever the page does, a page of a result is made of one result.
THEOREM PanelPagesWhole == PanelSpec => []PagesAreWhole
  BY PanelReads, ReadersReadWhole, PTL
-----------------------------------------------------------------------------
(* A patient person's page *)

\* A handler that will show something, or open a stream, when it goes on.
Waits(k) == jobs[k].kind \notin {"none", "cancel"}
Loads(k) == jobs[k].kind \in PageKind

\* At most one handler is about to change the panel, and then no stream is open.
OneWaits ==
    \A k \in Slot : Waits(k) => source = None /\ \A l \in Slot : Waits(l) => l = k

\* A table is of a current query; whoever waits for a query, or for its end, sees
\* a message.
ViewMatches ==
    /\ view.kind = "table" => current # None
    /\ source # None \/ (\E k \in Slot : jobs[k].kind \in {"submit", "ask"}) =>
         view.kind = "message"

\* What is asked for is the current query's row, or the page of its result that the
\* offset tells, which exists unless the pager went on from a page that is not shown.
AsksForCurrent ==
    \A k \in Slot :
        /\ jobs[k].kind = "ask" => jobs[k].query = current
        /\ Loads(k) =>
             /\ current # None /\ reading[k].of = current /\ reading[k].offset = offset
             /\ jobs[k].kind # "pager" \/ ~missed => offset < Pages[current]

\* A table that nothing is about to replace is that of the offset.
ShowsOffset ==
    view.kind = "table" /\ ~missed /\ (\A k \in Slot : ~Waits(k)) =>
        /\ view.of = current /\ view.columns = current
        /\ view.label = offset /\ view.offset = offset
        /\ offset < Pages[current]

Settled == OneWaits /\ ViewMatches /\ AsksForCurrent /\ ShowsOffset

PatientInv == slips \in Nat /\ (slips = 0 => Settled)

LEMMA PatientImplies == PanelInv /\ PatientInv => TableFits
  <1> SUFFICES ASSUME PanelInv, PatientInv, view.kind = "table", ~Busy, slips = 0, ~missed
               PROVE  /\ view.of = view.columns /\ view.of = current
                      /\ view.label = view.offset /\ view.offset < Pages[view.of]
    BY DEF TableFits
  <1>1. \A k \in Slot : ~Waits(k)
    BY DEF Busy, Waits, NoJob
  <1> QED
    BY <1>1 DEF PatientInv, Settled, ShowsOffset

LEMMA PatientInit == PanelInit => PatientInv
  <1> SUFFICES ASSUME PanelInit PROVE PatientInv
    OBVIOUS
  <1>1. slips = 0 /\ source = None /\ view.kind = "message"
    BY DEF PanelInit, UserInit, Message
  <1>2. \A k \in Slot : jobs[k].kind = "none"
    BY DEF PanelInit, NoJob
  <1>3. Settled
    BY <1>1, <1>2
       DEF Settled, OneWaits, ViewMatches, AsksForCurrent, ShowsOffset, Waits, Loads, PageKind
  <1> QED
    BY <1>1, <1>3 DEF PatientInv

\* A patient person has nothing under way when they click.
LEMMA PatientClick ==
    ASSUME PatientInv, Click, slips' = 0
    PROVE  slips = 0 /\ Settled /\ \A k \in Slot : jobs[k] = NoJob /\ ~Waits(k)
  <1>1. slips = 0 /\ ~Busy
    BY DEF PatientInv, Click, SlipIf
  <1> QED
    BY <1>1 DEF PatientInv, Busy, Waits, NoJob

\* Nothing happens that the panel depends on: who waits goes on waiting for the same.
LEMMA SettledStays ==
    ASSUME Settled, UNCHANGED <<current, offset, source, view, missed>>,
           \A l \in Slot :
               \/ ~Waits(l) /\ ~Waits(l)'
               \/ /\ jobs'[l].kind = jobs[l].kind
                  /\ jobs[l].kind = "ask" => jobs'[l].query = jobs[l].query
                  /\ Loads(l) => /\ reading'[l].of = reading[l].of
                                 /\ reading'[l].offset = reading[l].offset
    PROVE  Settled'
  <1>1. \A l \in Slot :
          /\ Waits(l)' <=> Waits(l)
          /\ Loads(l)' => Loads(l) /\ jobs'[l].kind = jobs[l].kind
          /\ jobs'[l].kind \in {"submit", "ask"} => jobs'[l].kind = jobs[l].kind
          /\ jobs'[l].kind = "ask" => jobs'[l].query = jobs[l].query
          /\ Loads(l)' => reading'[l].of = reading[l].of /\ reading'[l].offset = reading[l].offset
    BY DEF Waits, Loads, PageKind
  <1>2. OneWaits'
    BY <1>1 DEF Settled, OneWaits
  <1>3. ViewMatches'
    BY <1>1 DEF Settled, ViewMatches
  <1>4. AsksForCurrent'
    BY <1>1 DEF Settled, AsksForCurrent
  <1>5. ShowsOffset'
    BY <1>1 DEF Settled, ShowsOffset
  <1> QED
    BY <1>2, <1>3, <1>4, <1>5 DEF Settled

\* Nobody waits after the step.
LEMMA SettledQuiet ==
    ASSUME \A l \in Slot : ~Waits(l)',
           source' # None => view'.kind = "message",
           view'.kind = "table" => current' # None,
           ShowsOffset'
    PROVE  Settled'
  <1>1. \A l \in Slot : jobs'[l].kind \notin {"submit", "ask"} /\ ~Loads(l)'
    BY DEF Waits, Loads, PageKind
  <1>2. OneWaits' /\ AsksForCurrent'
    BY <1>1 DEF OneWaits, AsksForCurrent
  <1>3. ViewMatches'
    BY <1>1 DEF ViewMatches
  <1> QED
    BY <1>2, <1>3 DEF Settled

\* After the step one handler waits for a page of the current query.
LEMMA SettledLoading ==
    ASSUME NEW k \in Slot, NEW kind \in PageKind, jobs'[k].kind = kind,
           \A l \in Slot \ {k} : ~Waits(l)',
           source' = None, current' # None,
           reading'[k].of = current', reading'[k].offset = offset',
           kind # "pager" \/ ~missed' => offset' < Pages[current']
    PROVE  Settled'
  <1>1. Waits(k)' /\ kind \notin {"submit", "ask"}
    BY DEF Waits, PageKind
  <1>2. \A l \in Slot \ {k} : jobs'[l].kind \notin {"submit", "ask"} /\ ~Loads(l)'
    BY DEF Waits, Loads, PageKind
  <1>3. OneWaits' /\ ViewMatches' /\ ShowsOffset'
    BY <1>1, <1>2 DEF OneWaits, ViewMatches, ShowsOffset
  <1>4. AsksForCurrent'
    BY <1>1, <1>2 DEF AsksForCurrent
  <1> QED
    BY <1>3, <1>4 DEF Settled

\* After the step one handler waits for a query, or for its row.
LEMMA SettledAsking ==
    ASSUME NEW k \in Slot, jobs'[k].kind \in {"submit", "ask"},
           \A l \in Slot \ {k} : ~Waits(l)',
           source' = None, view'.kind = "message",
           jobs'[k].kind = "ask" => jobs'[k].query = current'
    PROVE  Settled'
  <1>1. Waits(k)' /\ ~Loads(k)'
    BY DEF Waits, Loads, PageKind
  <1>2. \A l \in Slot \ {k} : jobs'[l].kind # "ask" /\ ~Loads(l)'
    BY DEF Waits, Loads, PageKind
  <1>3. OneWaits' /\ ViewMatches' /\ ShowsOffset'
    BY <1>1, <1>2 DEF OneWaits, ViewMatches, ShowsOffset
  <1>4. AsksForCurrent'
    BY <1>1, <1>2 DEF AsksForCurrent
  <1> QED
    BY <1>3, <1>4 DEF Settled

\* What a slot that loads a page has asked for.
LEMMA PageLoading ==
    ASSUME ReaderInv, JobsOK, NEW k \in Slot, NEW kind, NEW q, NEW o, LoadResultPage(k, kind, q, o)
    PROVE  /\ jobs'[k].kind = kind /\ \A l \in Slot \ {k} : jobs'[l] = jobs[l]
           /\ reading'[k].of = q /\ reading'[k].offset = o
  <1>1. reading' = [reading EXCEPT ![k] = Asked(q, o)] /\ k \in Reader
    BY PanelAssumption DEF LoadResultPage, Ask
  <1>2. Asked(q, o).of = q /\ Asked(q, o).offset = o
    BY DEF Asked, NotReading
  <1>3. reading'[k] = Asked(q, o)
    BY <1>1 DEF ReaderInv, ReaderTypeOK
  <1>4. jobs' = [jobs EXCEPT ![k] = Job(kind, q)] /\ Job(kind, q).kind = kind
    BY DEF LoadResultPage, Put, Job
  <1> HIDE DEF LoadResultPage
  <1>5. jobs'[k].kind = kind /\ \A l \in Slot \ {k} : jobs'[l] = jobs[l]
    BY <1>4 DEF JobsOK
  <1> QED
    BY <1>2, <1>3, <1>5

\* A slot that is put to another use leaves the others alone.
LEMMA PutOne ==
    ASSUME JobsOK, NEW k \in Slot, NEW j, Put(k, j)
    PROVE  jobs'[k] = j /\ \A l \in Slot \ {k} : jobs'[l] = jobs[l]
  BY DEF Put, JobsOK

LEMMA PersonSettled ==
    ASSUME PanelInv, PatientInv, Person, slips' = 0
    PROVE  Settled'
  <1> USE DEF PanelInv
  <1>0. Click /\ FreeSlots # {}
    BY DEF Person, RunQuery, CancelQuery, OpenHistoryQuery, TurnPage, Click
  <1>1. slips = 0 /\ Settled /\ \A k \in Slot : jobs[k] = NoJob /\ ~Waits(k)
    BY <1>0, PatientClick
  <1>2. FreeSlot \in Slot
    BY <1>0, FreeSlotIsFree
  <1>3. \A k \in Slot : jobs'[k] = jobs[k] => ~Waits(k)'
    BY <1>1 DEF Waits
  <1>4. CASE RunQuery
    <2>1. Put(FreeSlot, Job("submit", None)) /\ source' = None /\ view' = Message(None)
      BY <1>4 DEF RunQuery
    <2>2. jobs'[FreeSlot].kind = "submit" /\ \A l \in Slot \ {FreeSlot} : jobs'[l] = jobs[l]
      BY <1>2, <2>1, PutOne DEF Job
    <2>3. view'.kind = "message"
      BY <2>1 DEF Message
    <2> QED
      BY <1>2, <1>3, <2>1, <2>2, <2>3, SettledAsking
  <1>5. CASE CancelQuery
    <2>1. Put(FreeSlot, Job("cancel", current)) /\ UNCHANGED <<current, offset, source, view, missed>>
      BY <1>5 DEF CancelQuery, panel
    <2>2. jobs'[FreeSlot].kind = "cancel" /\ \A l \in Slot \ {FreeSlot} : jobs'[l] = jobs[l]
      BY <1>2, <2>1, PutOne DEF Job
    <2>3. \A l \in Slot : ~Waits(l)'
      BY <1>3, <2>2 DEF Waits
    <2> QED
      BY <1>1, <2>1, <2>3, SettledStays
  <1>6. ASSUME NEW q \in QueryId, NEW s, OpenHistoryQuery(q, s)
        PROVE  Settled'
    <2>1. current' = q /\ current' # None
      BY <1>6, ReaderAssumption DEF OpenHistoryQuery
    <2>2. CASE view' = Message(q) /\ UNCHANGED jobs
      <3>1. view'.kind = "message"
        BY <2>2 DEF Message
      <3>2. ShowsOffset'
        BY <3>1 DEF ShowsOffset
      <3>3. \A l \in Slot : ~Waits(l)'
        BY <1>3, <2>2
      <3> QED
        BY <3>1, <3>2, <3>3, SettledQuiet
    <2>3. CASE /\ source' = None /\ offset' = 0 /\ Pages[q] > 0
               /\ LoadResultPage(FreeSlot, "history", q, 0)
      <3>1. /\ jobs'[FreeSlot].kind = "history"
            /\ \A l \in Slot \ {FreeSlot} : jobs'[l] = jobs[l]
            /\ reading'[FreeSlot].of = q /\ reading'[FreeSlot].offset = 0
        BY <1>2, <2>3, PageLoading
      <3>2. \A l \in Slot \ {FreeSlot} : ~Waits(l)'
        BY <1>3, <3>1
      <3>3. "history" \in PageKind
        BY DEF PageKind
      <3> QED
        BY <1>2, <2>1, <2>3, <3>1, <3>2, <3>3, SettledLoading
    <2> QED
      BY <1>6, <2>2, <2>3 DEF OpenHistoryQuery
  <1>7. CASE TurnPage
    <2>1. /\ view.kind = "table" /\ UNCHANGED <<current, source, missed>>
          /\ \/ view.label > 0 /\ offset' = IF offset = 0 THEN 0 ELSE offset - 1
             \/ view.label + 1 < Pages[view.of] /\ offset' = offset + 1
      BY <1>7 DEF TurnPage, HasPrevious, HasNext, panel
    <2>2. current \in QueryId /\ source = None
      BY <1>1, <2>1 DEF Settled, ViewMatches, ScreenOK, Listening
    <2>3. LoadResultPage(FreeSlot, "pager", current, offset')
      BY <1>7, <2>2, ReaderAssumption DEF TurnPage
    <2>4. /\ jobs'[FreeSlot].kind = "pager"
          /\ \A l \in Slot \ {FreeSlot} : jobs'[l] = jobs[l]
          /\ reading'[FreeSlot].of = current /\ reading'[FreeSlot].offset = offset'
      BY <1>2, <2>3, PageLoading
    <2>5. \A l \in Slot \ {FreeSlot} : ~Waits(l)'
      BY <1>3, <2>4
    <2>6. ~missed => offset' < Pages[current]
      <3>1. SUFFICES ASSUME ~missed PROVE offset' < Pages[current]
        OBVIOUS
      <3>2. view.of = current /\ view.label = offset /\ offset < Pages[current]
        BY <1>1, <2>1, <3>1 DEF Settled, ShowsOffset
      <3>3. offset \in Nat /\ Pages[current] \in Nat
        BY <2>2, PanelAssumption, UserAssumption DEF ScreenOK, CountsOK
      <3> QED
        BY <2>1, <3>2, <3>3
    <2>7. "pager" \in PageKind
      BY DEF PageKind
    <2> QED
      BY <1>2, <2>1, <2>2, <2>4, <2>5, <2>6, <2>7, ReaderAssumption, SettledLoading
  <1> QED
    BY <1>4, <1>5, <1>6, <1>7 DEF Person

\* The offset and the query that r reads stay the same while it reads.
LEMMA SameReading ==
    ASSUME ReaderInv, NEW r \in Reader, ReadStep(r) \/ ReadFails(r)
    PROVE  \A s \in Reader : /\ reading'[s].of = reading[s].of
                             /\ reading'[s].offset = reading[s].offset
  <1>1. reading \in [Reader -> ReadingType]
    BY DEF ReaderInv, ReaderTypeOK, ReadingType
  <1> QED
    BY <1>1 DEF ReadStep, StartReading, Execute, FetchTotal, FetchColumns, FetchRows, ReadFails,
                ReadingType

\* What the coordinator and the worker do leaves every handler waiting for what it
\* waited for.
LEMMA ServerSettled ==
    ASSUME PanelInv, Settled,
           \/ \E q \in QueryId : EndQuery(q)
           \/ \E k \in Slot : Serve(k) \/ CallLost(k)
           \/ \E r \in Reader : ServePage(r) \/ ResultLost(r)
           \/ \E r \in Reader \ Slot : ReadCatalog(r)
    PROVE  Settled'
  <1> USE DEF PanelInv
  <1>0. UNCHANGED <<current, offset, source, view, missed>>
    BY DEF EndQuery, Serve, CreateQuery, ServeCancel, ServeAsk, CallLost, ServePage, ResultLost,
           ReadCatalog, ServerOnly, page, panel
  <1> DEFINE Same(l) == /\ jobs'[l].kind = jobs[l].kind
                        /\ jobs[l].kind = "ask" => jobs'[l].query = jobs[l].query
                        /\ Loads(l) => /\ reading'[l].of = reading[l].of
                                       /\ reading'[l].offset = reading[l].offset
  <1>1. SUFFICES \A l \in Slot : Same(l)
    <2> HIDE DEF Same
    <2> QED
      BY <1>0, SettledStays DEF Same
  <1>2. CASE UNCHANGED <<readerVars, jobs>>
    BY <1>2 DEF readerVars
  <1>3. ASSUME NEW k \in Slot, CreateQuery(k)
        PROVE  \A l \in Slot : Same(l)
    <2>1. PICK q \in QueryId : jobs' = [jobs EXCEPT ![k].query = q, ![k].reply = "ok"]
      BY <1>3 DEF CreateQuery
    <2>2. jobs[k].kind = "submit" /\ reading' = reading
      BY <1>3 DEF CreateQuery, Calls, readerVars
    <2> QED
      BY <2>1, <2>2 DEF JobsOK, GoodJob, JobType
  <1>4. ASSUME NEW k \in Slot, NEW r, Reply(k, r), UNCHANGED readerVars
        PROVE  \A l \in Slot : Same(l)
    BY <1>4 DEF Reply, JobsOK, GoodJob, JobType, readerVars
  <1>5. ASSUME NEW r \in Reader, ReadStep(r) \/ ReadFails(r), UNCHANGED jobs
        PROVE  \A l \in Slot : Same(l)
    BY <1>5, SameReading, PanelAssumption
  <1>6. ASSUME NEW r \in Reader \ Slot, Introspect(r) \/ Use(r), UNCHANGED jobs
        PROVE  \A l \in Slot : Same(l)
    BY <1>6, PanelAssumption DEF Introspect, Use, ReaderInv, ReaderTypeOK
  <1>7. ASSUME NEW k \in Slot, Serve(k) \/ CallLost(k)
        PROVE  \A l \in Slot : Same(l)
    <2> HIDE DEF Same
    <2> QED
      BY <1>3, <1>4, <1>7 DEF Serve, ServeCancel, ServeAsk, CallLost
  <1>8. ASSUME NEW r \in Reader, ServePage(r) \/ ResultLost(r)
        PROVE  \A l \in Slot : Same(l)
    <2> HIDE DEF Same
    <2> QED
      BY <1>5, <1>8 DEF ServePage, ResultLost
  <1>9. ASSUME NEW r \in Reader \ Slot, ReadCatalog(r)
        PROVE  \A l \in Slot : Same(l)
    <2> HIDE DEF Same
    <2> QED
      BY <1>6, <1>9 DEF ReadCatalog
  <1>10. ASSUME NEW q \in QueryId, EndQuery(q)
         PROVE  UNCHANGED <<readerVars, jobs>>
    BY <1>10 DEF EndQuery
  <1> HIDE DEF Same
  <1> QED
    BY <1>2, <1>7, <1>8, <1>9, <1>10

\* FinishQuery by a handler that was the only one to wait, or by the stream.
LEMMA FinishSettled ==
    ASSUME PanelInv, NEW k \in Slot, \A l \in Slot \ {k} : ~Waits(l),
           current # None, NEW s, FinishQuery(k, current, s)
    PROVE  Settled'
  <1> USE DEF PanelInv
  <1>1. source' = None /\ current' = current
    BY DEF FinishQuery
  <1>2. CASE /\ offset' = 0 /\ Pages[current] > 0
             /\ LoadResultPage(k, "finish", current, 0)
    <2>1. /\ jobs'[k].kind = "finish" /\ \A l \in Slot \ {k} : jobs'[l] = jobs[l]
          /\ reading'[k].of = current /\ reading'[k].offset = 0
      BY <1>2, PageLoading
    <2>2. \A l \in Slot \ {k} : ~Waits(l)'
      BY <2>1 DEF Waits
    <2>3. "finish" \in PageKind
      BY DEF PageKind
    <2> QED
      BY <1>1, <1>2, <2>1, <2>2, <2>3, SettledLoading
  <1>3. CASE view' = Message(current) /\ End(k)
    <2>1. jobs'[k] = NoJob /\ \A l \in Slot \ {k} : jobs'[l] = jobs[l]
      BY <1>3, PutOne DEF End
    <2>2. \A l \in Slot : ~Waits(l)'
      BY <2>1 DEF Waits, NoJob
    <2>3. view'.kind = "message"
      BY <1>3 DEF Message
    <2>4. ShowsOffset'
      BY <2>3 DEF ShowsOffset
    <2> QED
      BY <2>2, <2>3, <2>4, SettledQuiet
  <1> QED
    BY <1>2, <1>3 DEF FinishQuery

LEMMA AnswerSettled ==
    ASSUME PanelInv, Settled, NEW k \in Slot, GoOn(k)
    PROVE  Settled'
  <1> USE DEF PanelInv
  <1>1. Waits(k) => source = None /\ \A l \in Slot \ {k} : ~Waits(l)
    BY DEF Settled, OneWaits
  <1>2. ASSUME End(k), UNCHANGED <<readerVars, current, offset, source, view, missed>>,
               jobs[k].kind \in {"submit", "ask"} => view.kind = "message"
        PROVE  Settled'
    <2>1. jobs'[k] = NoJob /\ \A l \in Slot \ {k} : jobs'[l] = jobs[l]
      BY <1>2, PutOne DEF End
    <2>2. ~Waits(k)'
      BY <2>1 DEF Waits, NoJob
    <2>3. CASE ~Waits(k)
      BY <1>2, <2>1, <2>2, <2>3, SettledStays DEF readerVars
    <2>4. CASE jobs[k].kind \in {"submit", "ask"}
      <3>1. \A l \in Slot : ~Waits(l)'
        BY <1>1, <2>1, <2>2, <2>4 DEF Waits
      <3>2. view'.kind = "message"
        BY <1>2, <2>4
      <3>3. ShowsOffset'
        BY <3>2 DEF ShowsOffset
      <3> QED
        BY <3>1, <3>2, <3>3, SettledQuiet
    <2>5. CASE Loads(k)
      <3>1. reading[k] # NotReading
        BY <2>5 DEF JobsOK, Loads
      <3>2. jobs'[k].kind = "none" /\ reading'[k] # NotReading
        BY <1>2, <2>1, <3>1 DEF NoJob, readerVars
      <3>3. JobsOK'
        BY AnswerInv
      <3> QED
        BY <3>2, <3>3 DEF JobsOK, PageKind
    <2>6. jobs[k].kind \in {"none", "submit", "cancel", "ask"} \cup PageKind
      BY DEF JobsOK, GoodJob, JobType
    <2> QED
      BY <2>3, <2>4, <2>5, <2>6 DEF Waits, Loads
  <1>3. jobs[k].kind \in {"submit", "ask"} => view.kind = "message"
    BY DEF Settled, ViewMatches
  <1>4. CASE Submitted(k)
    <2>1. jobs'[k] = NoJob /\ \A l \in Slot \ {k} : jobs'[l] = jobs[l]
      BY <1>4, PutOne DEF Submitted, End
    <2>2. \A l \in Slot : ~Waits(l)'
      BY <1>1, <1>4, <2>1 DEF Submitted, Waits, NoJob
    <2>3. view'.kind = "message"
      BY <1>3, <1>4 DEF Submitted, panel
    <2>4. ShowsOffset'
      BY <2>3 DEF ShowsOffset
    <2> QED
      BY <2>2, <2>3, <2>4, SettledQuiet
  <1>5. ASSUME reading[k].at \in {"read", "failed"}
        PROVE  /\ Loads(k) /\ Waits(k) /\ current # None
               /\ reading[k].of = current /\ reading[k].offset = offset
               /\ jobs[k].kind # "pager" \/ ~missed => offset < Pages[current]
    <2>1. reading[k] # NotReading
      BY <1>5 DEF NotReading
    <2>2. Loads(k)
      BY <2>1 DEF JobsOK, Loads
    <2>3. Waits(k)
      BY <2>2 DEF Loads, Waits, PageKind
    <2> QED
      BY <2>2, <2>3 DEF Settled, AsksForCurrent
  <1>6. ASSUME End(k), Waits(k)
        PROVE  \A l \in Slot : ~Waits(l)'
    <2>1. jobs'[k] = NoJob /\ \A l \in Slot \ {k} : jobs'[l] = jobs[l]
      BY <1>6, PutOne DEF End
    <2> QED
      BY <1>1, <1>6, <2>1 DEF Waits, NoJob
  <1>7. CASE PageArrives(k)
    <2>1. /\ Waits(k) /\ current # None
          /\ reading[k].of = current /\ reading[k].offset = offset
          /\ jobs[k].kind # "pager" \/ ~missed => offset < Pages[current]
      BY <1>5, <1>7 DEF PageArrives
    <2>2. \A l \in Slot : ~Waits(l)'
      BY <1>6, <1>7, <2>1 DEF PageArrives
    <2>3. reading[k].rows = current /\ reading[k].columns = current
      <3>1. k \in Reader /\ current \in QueryId /\ current # Catalog
        BY <2>1, PanelAssumption, ReaderAssumption DEF ScreenOK, Listening
      <3> QED
        BY <1>7, <2>1, <3>1 DEF PageArrives, ReaderInv, PagesAreWhole
    <2>4. /\ view' = [kind |-> "table", of |-> current, columns |-> current,
                      offset |-> offset, label |-> offset]
          /\ missed' = (missed /\ jobs[k].kind = "pager")
          /\ UNCHANGED <<current, offset, source>>
      BY <1>7, <2>1, <2>3 DEF PageArrives, page
    <2>5. ShowsOffset'
      BY <2>1, <2>4 DEF ShowsOffset
    <2>6. source' = None /\ current' # None
      BY <1>1, <2>1, <2>4
    <2> QED
      BY <2>2, <2>5, <2>6, SettledQuiet
  <1>8. CASE PageFails(k)
    <2>1. Waits(k) /\ current # None
      BY <1>5, <1>8 DEF PageFails
    <2>2. \A l \in Slot : ~Waits(l)'
      BY <1>6, <1>8, <2>1 DEF PageFails
    <2>3. missed' /\ UNCHANGED <<current, source>>
      BY <1>8 DEF PageFails
    <2>4. ShowsOffset'
      BY <2>3 DEF ShowsOffset
    <2>5. source' = None /\ current' # None
      BY <1>1, <2>1, <2>3
    <2> QED
      BY <2>2, <2>4, <2>5, SettledQuiet
  <1>9. CASE CancelAccepted(k)
    BY <1>2, <1>3, <1>9 DEF CancelAccepted, page, panel
  <1>10. CASE CallFails(k)
    BY <1>2, <1>3, <1>10 DEF CallFails, panel
  <1>11. CASE AskAnswered(k)
    <2>1. jobs[k].kind = "ask" /\ jobs[k].query \in QueryId
      BY <1>11 DEF AskAnswered, JobsOK, GoodJob, JobType
    <2>2. Waits(k) /\ jobs[k].query = current /\ current # None
      BY <2>1, ReaderAssumption DEF Waits, Settled, AsksForCurrent
    <2>3. CASE End(k) /\ UNCHANGED <<readerVars, current, offset, source, panel>>
      BY <1>2, <1>3, <2>3 DEF panel
    <2>4. CASE FinishQuery(k, jobs[k].query, jobs[k].reply)
      BY <1>1, <2>2, <2>4, FinishSettled
    <2> QED
      BY <1>11, <2>3, <2>4 DEF AskAnswered
  <1> QED
    BY <1>4, <1>7, <1>8, <1>9, <1>10, <1>11 DEF GoOn

LEMMA StreamSettled ==
    ASSUME PanelInv, Settled, QueryGoesOn \/ QueryEnds \/ StreamBreaks
    PROVE  Settled'
  <1> USE DEF PanelInv
  <1>1. source # None /\ source = current /\ current # None
    BY DEF QueryGoesOn, QueryEnds, StreamBreaks, ScreenOK, Listening
  <1>2. \A k \in Slot : ~Waits(k)
    BY <1>1 DEF Settled, OneWaits
  <1>3. view.kind = "message"
    BY <1>1 DEF Settled, ViewMatches
  <1>4. CASE UNCHANGED <<current, offset, view, missed, jobs>>
    <2>1. \A k \in Slot : ~Waits(k)'
      BY <1>2, <1>4 DEF Waits
    <2>2. view'.kind = "message"
      BY <1>3, <1>4
    <2>3. ShowsOffset'
      BY <2>2 DEF ShowsOffset
    <2> QED
      BY <2>1, <2>2, <2>3, SettledQuiet
  <1>5. CASE QueryGoesOn
    BY <1>4, <1>5 DEF QueryGoesOn, panel
  <1>6. CASE QueryEnds
    <2>1. FreeSlot \in Slot
      BY <1>6, FreeSlotIsFree DEF QueryEnds
    <2> QED
      BY <1>1, <1>2, <1>6, <2>1, FinishSettled DEF QueryEnds
  <1>7. CASE StreamBreaks
    <2>1. CASE jobs' = jobs
      BY <1>4, <1>7, <2>1 DEF StreamBreaks, panel
    <2>2. CASE jobs' = [jobs EXCEPT ![FreeSlot] = Job("ask", source)]
      <3>1. FreeSlot \in Slot
        BY <1>7, FreeSlotIsFree DEF StreamBreaks
      <3>2. /\ jobs'[FreeSlot] = Job("ask", source)
            /\ \A l \in Slot \ {FreeSlot} : jobs'[l] = jobs[l]
        BY <2>2, <3>1, PutOne DEF Put
      <3>3. \A l \in Slot \ {FreeSlot} : ~Waits(l)'
        BY <1>2, <3>2 DEF Waits
      <3>4. jobs'[FreeSlot].kind = "ask" /\ jobs'[FreeSlot].query = current
        BY <1>1, <3>2 DEF Job
      <3>5. source' = None /\ view'.kind = "message" /\ current' = current
        BY <1>3, <1>7 DEF StreamBreaks, panel
      <3> QED
        BY <3>1, <3>3, <3>4, <3>5, SettledAsking
    <2> QED
      BY <1>7, <2>1, <2>2 DEF StreamBreaks
  <1> QED
    BY <1>5, <1>6, <1>7

LEMMA PatientNext == PanelInv /\ PatientInv /\ [PanelNext]_panelVars => PatientInv'
  <1> SUFFICES ASSUME PanelInv, PatientInv, [PanelNext]_panelVars PROVE PatientInv'
    OBVIOUS
  <1>1. CASE PanelNext
    <2>1. CASE Person
      <3>1. slips' = slips \/ slips' = slips + 1
        BY <2>1 DEF Person, RunQuery, CancelQuery, OpenHistoryQuery, TurnPage, Click, SlipIf
      <3>2. slips' \in Nat
        BY <3>1 DEF PatientInv
      <3> QED
        BY <2>1, <3>2, PersonSettled DEF PatientInv
    <2>2. CASE \/ \E q \in QueryId : EndQuery(q)
               \/ \E k \in Slot : Serve(k) \/ CallLost(k)
               \/ \E r \in Reader : ServePage(r) \/ ResultLost(r)
               \/ \E r \in Reader \ Slot : ReadCatalog(r)
      <3>1. slips' = slips
        BY <2>2 DEF EndQuery, Serve, CreateQuery, ServeCancel, ServeAsk, CallLost, ServePage,
                    ResultLost, ReadCatalog, ServerOnly, user
      <3> QED
        BY <2>2, <3>1, ServerSettled DEF PatientInv
    <2>3. ASSUME NEW k \in Slot, GoOn(k)
          PROVE  PatientInv'
      <3>1. slips' = slips
        BY <2>3 DEF GoOn, user
      <3> QED
        BY <2>3, <3>1, AnswerSettled DEF PatientInv
    <2>4. CASE QueryGoesOn \/ QueryEnds \/ StreamBreaks
      <3>1. slips' = slips
        BY <2>4 DEF QueryGoesOn, QueryEnds, StreamBreaks, user
      <3> QED
        BY <2>4, <3>1, StreamSettled DEF PatientInv
    <2> QED
      BY <1>1, <2>1, <2>2, <2>3, <2>4 DEF PanelNext
  <1>2. CASE UNCHANGED panelVars
    <2>1. slips' = slips /\ UNCHANGED <<readerVars, current, offset, source, view, missed, jobs>>
      BY <1>2 DEF panelVars, user, page, panel
    <2>2. Settled => Settled'
      BY <2>1, SettledStays DEF readerVars
    <2> QED
      BY <2>1, <2>2 DEF PatientInv
  <1> QED
    BY <1>1, <1>2

\* A person who lets every click take effect is shown the table of the query and the
\* offset that the page means, whatever the coordinator, the worker and the stream do
\* meanwhile, unless a page failed to load.
THEOREM PanelTableFits == PanelSpec => []TableFits
  <1>1. PanelInit => PanelInv /\ PatientInv
    BY PanelInitInv, PatientInit
  <1>2. (PanelInv /\ PatientInv) /\ [PanelNext]_panelVars => (PanelInv /\ PatientInv)'
    BY PanelNextInv, PatientNext
  <1> QED
    BY <1>1, <1>2, PatientImplies, PTL DEF PanelSpec
=============================================================================
