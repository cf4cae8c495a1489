---------------------------- MODULE EditorProofs ----------------------------
(***************************************************************************)
(* Machine-checked proofs about the editor, for any number of sheets, calls *)
(* under way, keystrokes and clicks: no text gets under the name of another *)
(* sheet, deleting the sheet that is shown is a trap, and no save replaces  *)
(* a newer text by an older one unless the sheet is doubtful.               *)
(***************************************************************************)
EXTENDS Editor, SequenceTheorems, FiniteSetTheorems, WellFoundedInduction, TLAPS

\* A text that may stand in sheet s.
Fits(text, s) == text.of \in {s, NoSheet}

Known == {s \in Sheet : row[s] # "unborn"}

\* Tabs and calls that are about the sheets in K and keep texts apart.
TabsOf(K) == {e \in TabType : Fits(e.text, e.sheet) /\ e.sheet \in K}
JobsOf(K) ==
    {j \in JobType :
       /\ Fits(j.text, j.saves)
       /\ j.rows \subseteq TabsOf(K)
       /\ j.at = "save" => j.saves \in K
       /\ j.at = "save" /\ j.kind \in {"close", "delete"} => j.index > 0
       /\ j.at = "save" /\ j.kind = "switch" => j.sheet \in K
       /\ j.at = "create" => j.kind = "new"
       /\ j.at = "create" /\ j.reply = "ok" => j.sheet \in K}

TableOK ==
    /\ row \in [Sheet -> {"unborn", "live", "deleted"}]
    /\ stored \in [Sheet -> Text]
    /\ \A s \in Sheet : Fits(stored[s], s)

FieldOK(K) == active \in K \cup {NoSheet} /\ input \in Text /\ Fits(input, active)

PageOK(K) ==
    /\ open \in Seq(TabsOf(K))
    /\ listed \subseteq TabsOf(K)
    /\ FieldOK(K)
    /\ timer \in BOOLEAN
    /\ jobs \in [Slot -> JobsOf(K)]

HistoryOK ==
    /\ inputs \in 0 .. MaxInputs
    /\ last \in [Sheet -> 0 .. MaxInputs]
    /\ doubtful \subseteq Sheet

EditorInv == TableOK /\ PageOK(Known) /\ HistoryOK
-----------------------------------------------------------------------------
(* Sequences of tabs *)

LEMMA LeastNatural ==
    ASSUME NEW T, T \subseteq Nat, T # {}
    PROVE  \E m \in T : \A k \in T : m <= k
  <1>1. PICK m \in T : \A k \in T : <<k, m>> \notin OpToRel(<, Nat)
    BY NatLessThanWellFounded, WFMin
  <1>2. ASSUME NEW k \in T PROVE m <= k
    <2>1. k \in Nat /\ m \in Nat
      OBVIOUS
    <2>2. <<k, m>> \notin OpToRel(<, Nat)
      BY <1>1
    <2>3. ~(k < m)
      BY <2>1, <2>2 DEF OpToRel
    <2> QED
      BY <2>1, <2>3
  <1> QED
    BY <1>2

LEMMA FirstTab ==
    ASSUME NEW E, NEW O \in Seq(E), NEW s \in TabsIn(O)
    PROVE  PositionIn(O, s) \in 1 .. Len(O) /\ O[PositionIn(O, s)].sheet = s
  <1>1. DOMAIN O = 1 .. Len(O) /\ Len(O) \in Nat
    BY LenProperties
  <1> DEFINE T == {i \in DOMAIN O : O[i].sheet = s}
  <1>2. T \subseteq Nat /\ T # {}
    BY <1>1 DEF TabsIn
  <1>3. PICK m \in T : \A k \in T : m <= k
    BY <1>2, LeastNatural
  <1>4. m \in DOMAIN O /\ O[m].sheet = s /\ \A j \in 1 .. m - 1 : O[j].sheet # s
    BY <1>1, <1>3
  <1> QED
    BY <1>1, <1>4 DEF PositionIn

LEMMA TabsAreTabs ==
    ASSUME NEW K \in SUBSET Sheet, NEW O \in Seq(TabsOf(K))
    PROVE  /\ \A i \in 1 .. Len(O) : O[i] \in TabsOf(K)
           /\ DOMAIN O = 1 .. Len(O) /\ Len(O) \in Nat
           /\ TabsIn(O) \subseteq K
  BY LenProperties, ElementOfSeq DEF TabsIn, TabsOf

LEMMA SyncedOK ==
    ASSUME NEW K \in SUBSET Sheet, NEW O \in Seq(TabsOf(K)),
           NEW text \in Text, Fits(text, active)
    PROVE  /\ Synced(O, text) \in Seq(TabsOf(K))
           /\ TabsIn(Synced(O, text)) = TabsIn(O)
  <1>1. CASE active \notin TabsIn(O)
    BY <1>1 DEF Synced
  <1>2. CASE active \in TabsIn(O)
    <2> DEFINE p == PositionIn(O, active)
               e == [O[p] EXCEPT !.text = text]
    <2>1. p \in 1 .. Len(O) /\ O[p].sheet = active
      BY <1>2, FirstTab
    <2>2. O[p] \in TabsOf(K)
      BY <2>1, TabsAreTabs
    <2>3. e \in TabsOf(K) /\ e.sheet = O[p].sheet
      BY <2>1, <2>2 DEF TabsOf, TabType, Fits
    <2>4. Synced(O, text) = [O EXCEPT ![p] = e]
      BY <1>2 DEF Synced
    <2> HIDE DEF p, e
    <2>5. /\ Synced(O, text) \in Seq(TabsOf(K))
          /\ Len(Synced(O, text)) = Len(O)
          /\ \A j \in 1 .. Len(O) : Synced(O, text)[j] = IF j = p THEN e ELSE O[j]
      BY <2>1, <2>3, <2>4, ExceptSeq
    <2>6. DOMAIN Synced(O, text) = 1 .. Len(O) /\ DOMAIN O = 1 .. Len(O)
      BY <2>5, TabsAreTabs
    <2>7. \A j \in 1 .. Len(O) : Synced(O, text)[j].sheet = O[j].sheet
      BY <2>3, <2>5
    <2>8. TabsIn(Synced(O, text)) = TabsIn(O)
      BY <2>6, <2>7 DEF TabsIn
    <2> QED
      BY <2>5, <2>8
  <1> QED
    BY <1>1, <1>2

\* Removing a tab moves those behind it.
LEMMA RemovedTabs ==
    ASSUME NEW K \in SUBSET Sheet, NEW O \in Seq(TabsOf(K)), NEW i \in DOMAIN O
    PROVE  /\ RemoveAt(O, i) \in Seq(TabsOf(K))
           /\ DOMAIN RemoveAt(O, i) = 1 .. Len(O) - 1
           /\ \A j \in 1 .. Len(O) - 1 : RemoveAt(O, i)[j] = IF j < i THEN O[j] ELSE O[j + 1]
  <1> DEFINE n == Len(O)
             A == SubSeq(O, 1, i - 1)
             B == SubSeq(O, i + 1, n)
             C == A \o B
  <1>1. n \in Nat /\ i \in 1 .. n /\ DOMAIN O = 1 .. n /\ \A j \in 1 .. n : O[j] \in TabsOf(K)
    BY TabsAreTabs
  <1>2. /\ A \in Seq(TabsOf(K)) /\ Len(A) = i - 1
        /\ \A j \in 1 .. i - 1 : A[j] = O[j]
    <2>1. \A j \in 1 .. i - 1 : O[j] \in TabsOf(K)
      BY <1>1
    <2>2. /\ SubSeq(O, 1, i - 1) \in Seq(TabsOf(K))
          /\ Len(SubSeq(O, 1, i - 1)) = IF 1 <= i - 1 THEN i - 1 - 1 + 1 ELSE 0
          /\ \A j \in 1 .. i - 1 - 1 + 1 : SubSeq(O, 1, i - 1)[j] = O[1 + j - 1]
      BY <1>1, <2>1, SubSeqProperties
    <2> QED
      BY <1>1, <2>2
  <1>3. /\ B \in Seq(TabsOf(K)) /\ Len(B) = n - i
        /\ \A j \in 1 .. n - i : B[j] = O[i + j]
    <2>1. \A j \in i + 1 .. n : O[j] \in TabsOf(K)
      BY <1>1
    <2>2. /\ SubSeq(O, i + 1, n) \in Seq(TabsOf(K))
          /\ Len(SubSeq(O, i + 1, n)) = IF i + 1 <= n THEN n - (i + 1) + 1 ELSE 0
          /\ \A j \in 1 .. n - (i + 1) + 1 : SubSeq(O, i + 1, n)[j] = O[i + 1 + j - 1]
      BY <1>1, <2>1, SubSeqProperties
    <2>3. (IF i + 1 <= n THEN n - (i + 1) + 1 ELSE 0) = n - i /\ n - (i + 1) + 1 = n - i
      BY <1>1
    <2>4. \A j \in 1 .. n - i : i + 1 + j - 1 = i + j
      BY <1>1
    <2>5. Len(B) = n - i /\ B \in Seq(TabsOf(K))
      BY <2>2, <2>3
    <2>6. \A j \in 1 .. n - i : B[j] = O[i + 1 + j - 1]
      BY <2>2, <2>3
    <2> QED
      BY <2>4, <2>5, <2>6
  <1> HIDE DEF A, B
  <1>4. RemoveAt(O, i) = C
    BY DEF RemoveAt, A, B
  <1>5. /\ C \in Seq(TabsOf(K)) /\ Len(C) = n - 1
        /\ \A j \in 1 .. n - 1 : C[j] = IF j < i THEN O[j] ELSE O[j + 1]
    <2>1. /\ C \in Seq(TabsOf(K)) /\ Len(C) = Len(A) + Len(B)
          /\ \A j \in 1 .. Len(A) + Len(B) :
               C[j] = IF j <= Len(A) THEN A[j] ELSE B[j - Len(A)]
      BY <1>2, <1>3, ConcatProperties
    <2> HIDE DEF C, n
    <2>2. Len(A) + Len(B) = n - 1
      BY <1>1, <1>2, <1>3
    <2>3. ASSUME NEW j \in 1 .. n - 1, j < i PROVE C[j] = O[j]
      <3>1. j \in 1 .. i - 1 /\ j <= Len(A) /\ j \in 1 .. Len(A) + Len(B)
        BY <1>1, <1>2, <2>2, <2>3
      <3> QED
        BY <1>2, <2>1, <3>1
    <2>4. ASSUME NEW j \in 1 .. n - 1, ~(j < i) PROVE C[j] = O[j + 1]
      <3>1. j - Len(A) \in 1 .. n - i /\ ~(j <= Len(A)) /\ j \in 1 .. Len(A) + Len(B)
        BY <1>1, <1>2, <2>2, <2>4
      <3>2. C[j] = B[j - Len(A)] /\ B[j - Len(A)] = O[i + (j - Len(A))]
        BY <1>3, <2>1, <3>1
      <3>3. i + (j - Len(A)) = j + 1
        BY <1>1, <1>2
      <3> QED
        BY <3>2, <3>3
    <2> QED
      BY <2>1, <2>2, <2>3, <2>4
  <1> HIDE DEF C, n
  <1>6. DOMAIN C = 1 .. n - 1
    BY <1>5, TabsAreTabs
  <1> QED
    BY <1>4, <1>5, <1>6 DEF n

\* It keeps the others.
LEMMA RemovedOK ==
    ASSUME NEW K \in SUBSET Sheet, NEW O \in Seq(TabsOf(K)), NEW i \in DOMAIN O
    PROVE  /\ RemoveAt(O, i) \in Seq(TabsOf(K))
           /\ TabsIn(RemoveAt(O, i)) \subseteq TabsIn(O)
           /\ TabsIn(O) \ {O[i].sheet} \subseteq TabsIn(RemoveAt(O, i))
  <1> DEFINE n == Len(O)
             C == RemoveAt(O, i)
  <1>1. n \in Nat /\ i \in 1 .. n /\ DOMAIN O = 1 .. n
    BY TabsAreTabs
  <1>2. /\ C \in Seq(TabsOf(K))
        /\ \A j \in 1 .. n - 1 : C[j] = IF j < i THEN O[j] ELSE O[j + 1]
    BY RemovedTabs
  <1>3. DOMAIN C = 1 .. n - 1
    BY RemovedTabs
  <1> HIDE DEF C, n
  <1>4. ASSUME NEW s \in TabsIn(C) PROVE s \in TabsIn(O)
    <2>1. PICK j \in 1 .. n - 1 : C[j].sheet = s
      BY <1>3 DEF TabsIn
    <2>2. PICK k \in {j, j + 1} : C[j] = O[k]
      BY <1>2
    <2>3. k \in 1 .. n
      BY <1>1
    <2> QED
      BY <1>1, <2>1, <2>2, <2>3 DEF TabsIn
  <1>5. ASSUME NEW s \in TabsIn(O) \ {O[i].sheet} PROVE s \in TabsIn(C)
    <2>1. PICK j \in 1 .. n : O[j].sheet = s /\ j # i
      BY <1>1 DEF TabsIn
    <2>2. CASE j < i
      BY <1>1, <1>2, <1>3, <2>1, <2>2 DEF TabsIn
    <2>3. CASE j > i
      <3>1. j - 1 \in 1 .. n - 1 /\ ~(j - 1 < i) /\ (j - 1) + 1 = j
        BY <1>1, <2>1, <2>3
      <3>2. C[j - 1] = O[j]
        BY <1>2, <3>1
      <3> QED
        BY <1>3, <2>1, <3>1, <3>2 DEF TabsIn
    <2> QED
      BY <1>1, <2>1, <2>2, <2>3
  <1> QED
    BY <1>2, <1>4, <1>5 DEF C
-----------------------------------------------------------------------------
(* What handlers have in common *)

Kinds == {"none", "autosave", "switch", "close", "new", "rename", "delete", "load"}

LEMMA BlankFits == Blank \in Text /\ \A s : Fits(Blank, s)
  BY UserAssumption DEF Blank, Text, Fits

LEMMA NoJobOK == ASSUME NEW K \in SUBSET Sheet PROVE NoJob \in JobsOf(K)
  BY BlankFits DEF NoJob, JobsOf, JobType

LEMMA JobOK ==
    ASSUME NEW K \in SUBSET Sheet, NEW kind \in Kinds, NEW s \in Sheet \cup {NoSheet}
    PROVE  Job(kind, s) \in JobsOf(K) /\ Job(kind, s).kind = kind /\ Job(kind, s).sheet = s
  BY BlankFits DEF Job, NoJob, JobsOf, JobType, Kinds

LEMMA FreeSlotIsFree == ASSUME FreeSlots # {} PROVE FreeSlot \in Slot /\ jobs[FreeSlot] = NoJob
  <1>1. FreeSlot \in FreeSlots
    BY DEF FreeSlot
  <1> QED
    BY <1>1 DEF FreeSlots

\* Slot k gets job j.
LEMMA PutOK ==
    ASSUME NEW K \in SUBSET Sheet, PageOK(K), NEW k \in Slot, NEW j \in JobsOf(K),
           jobs' = [jobs EXCEPT ![k] = j]
    PROVE  /\ jobs' \in [Slot -> JobsOf(K)]
           /\ jobs'[k] = j /\ \A l \in Slot \ {k} : jobs'[l] = jobs[l]
  BY DEF PageOK

LEMMA CallOK ==
    ASSUME NEW K \in SUBSET Sheet, PageOK(K), NEW k \in Slot, NEW j \in JobsOf(K),
           NEW at \in {"create", "rename", "delete", "list"}, Call(k, j, at),
           at = "create" => j.kind = "new"
    PROVE  /\ jobs' \in [Slot -> JobsOf(K)]
           /\ jobs'[k].at = at /\ jobs'[k].reply = "none"
           /\ \A l \in Slot \ {k} : jobs'[l] = jobs[l]
  <1> DEFINE x == [j EXCEPT !.at = at, !.reply = "none"]
  <1>1. x \in JobsOf(K) /\ x.at = at /\ x.reply = "none"
    BY DEF JobsOf, JobType
  <1>2. jobs' = [jobs EXCEPT ![k] = x]
    BY DEF Call
  <1> HIDE DEF x
  <1> QED
    BY <1>1, <1>2, PutOK

LEMMA EndOK ==
    ASSUME NEW K \in SUBSET Sheet, PageOK(K), NEW k \in Slot, End(k)
    PROVE  /\ jobs' \in [Slot -> JobsOf(K)]
           /\ jobs'[k] = NoJob /\ \A l \in Slot \ {k} : jobs'[l] = jobs[l]
  BY NoJobOK, PutOK DEF End

\* A save takes the text field and its sheet together.
LEMMA SaveOK ==
    ASSUME NEW K \in SUBSET Sheet, PageOK(K), NEW k \in Slot, NEW j \in JobsOf(K),
           NEW O \in Seq(TabsOf(K)), SaveActive(k, j, O),
           j.kind \in {"close", "delete"} => j.index > 0,
           j.kind = "switch" => j.sheet \in K
    PROVE  /\ jobs' \in [Slot -> JobsOf(K)]
           /\ jobs'[k].at = "save" /\ jobs'[k].saves = active /\ jobs'[k].reply = "none"
           /\ \A l \in Slot \ {k} : jobs'[l] = jobs[l]
           /\ open' \in Seq(TabsOf(K)) /\ TabsIn(open') = TabsIn(O)
           /\ timer' \in BOOLEAN
  <1> DEFINE x == [j EXCEPT !.saves = active, !.text = input, !.at = "save", !.reply = "none"]
  <1>1. active \in K /\ input \in Text /\ Fits(input, active)
    BY TabsAreTabs DEF SaveActive, Tabs, PageOK, FieldOK
  <1>2. x \in JobsOf(K) /\ x.at = "save" /\ x.saves = active /\ x.reply = "none"
    <2>1. x \in JobType /\ x.at = "save" /\ x.saves = active /\ x.reply = "none"
          /\ x.text = input /\ x.rows = j.rows /\ x.kind = j.kind /\ x.sheet = j.sheet
          /\ x.index = j.index
      BY <1>1 DEF JobsOf, JobType
    <2> HIDE DEF x
    <2> QED
      BY <1>1, <2>1 DEF JobsOf
  <1>3. jobs' = [jobs EXCEPT ![k] = x]
    BY DEF SaveActive, Call, JobsOf, JobType
  <1> HIDE DEF x
  <1>4. open' \in Seq(TabsOf(K)) /\ TabsIn(open') = TabsIn(O)
    BY <1>1, SyncedOK DEF SaveActive
  <1>5. timer' \in BOOLEAN
    BY DEF SaveActive
  <1> QED
    BY <1>2, <1>3, <1>4, <1>5, PutOK

LEMMA ShowOK ==
    ASSUME NEW K \in SUBSET Sheet, NEW O \in Seq(TabsOf(K)), NEW s \in K \cup {NoSheet},
           Show(s, O)
    PROVE  FieldOK(K)'
  <1>1. CASE s \in TabsIn(O)
    <2>1. PositionIn(O, s) \in 1 .. Len(O) /\ O[PositionIn(O, s)].sheet = s
      BY <1>1, FirstTab
    <2>2. O[PositionIn(O, s)] \in TabsOf(K)
      BY <2>1, TabsAreTabs
    <2>3. O[PositionIn(O, s)].text \in Text /\ Fits(O[PositionIn(O, s)].text, s)
      BY <2>1, <2>2 DEF TabsOf, TabType
    <2> QED
      BY <1>1, <2>3 DEF Show, FieldOK, Fits
  <1>2. CASE s \notin TabsIn(O)
    BY <1>2, BlankFits DEF Show, FieldOK, Fits
  <1> QED
    BY <1>1, <1>2

\* Whatever is shown after a tab is closed, the other tabs stay.
LEMMA RemoveTabOK ==
    ASSUME NEW K \in SUBSET Sheet, PageOK(K), doubtful \subseteq Sheet,
           NEW s \in Sheet \cup {NoSheet}, NEW i \in Nat, i > 0, RemoveTab(s, i)
    PROVE  /\ open' \in Seq(TabsOf(K)) /\ FieldOK(K)' /\ doubtful' \subseteq Sheet
           /\ i \in DOMAIN open => Tabs \ {open[i].sheet} \subseteq TabsIn(open')
           /\ active # s => active' = active
  <1> DEFINE rest == IF i \in DOMAIN open THEN RemoveAt(open, i) ELSE open
             next == IF rest = <<>> THEN NoSheet
                     ELSE rest[IF i <= Len(rest) THEN i ELSE Len(rest)].sheet
  <1>1. /\ rest \in Seq(TabsOf(K)) /\ TabsIn(rest) \subseteq Tabs
        /\ i \in DOMAIN open => Tabs \ {open[i].sheet} \subseteq TabsIn(rest)
    BY RemovedOK DEF PageOK, Tabs
  <1>2. open' = rest
    BY DEF RemoveTab
  <1>3. next \in K \cup {NoSheet}
    <2> HIDE DEF rest
    <2>1. CASE rest # <<>>
      <3>1. Len(rest) \in Nat \ {0}
        BY <1>1, <2>1, EmptySeq
      <3>2. \A j \in 1 .. Len(rest) : rest[j].sheet \in K
        BY <1>1, TabsAreTabs DEF TabsOf
      <3> QED
        BY <2>1, <3>1, <3>2
    <2> QED
      BY <2>1
  <1>4. FieldOK(K)'
    <2>1. CASE active = s
      <3>1. Show(next, rest)
        BY <2>1 DEF RemoveTab
      <3> HIDE DEF next, rest
      <3> QED
        BY <1>1, <1>3, <3>1, ShowOK
    <2>2. CASE active # s
      <3>1. UNCHANGED <<active, input>>
        BY <2>2 DEF RemoveTab
      <3> QED
        BY <3>1 DEF PageOK, FieldOK, Fits
    <2> QED
      BY <2>1, <2>2
  <1>5. doubtful' \subseteq Sheet
    <2>1. doubtful' = doubtful \cup ((Tabs \ TabsIn(rest)) \ {s})
      BY DEF RemoveTab, Doubt
    <2>2. Tabs \subseteq Sheet
      BY TabsAreTabs DEF PageOK, Tabs
    <2> QED
      BY <2>1, <2>2
  <1>6. active # s => active' = active
    BY DEF RemoveTab
  <1> QED
    BY <1>1, <1>2, <1>4, <1>5, <1>6
-----------------------------------------------------------------------------
(* What the person does *)

LEMMA ClickOK ==
    ASSUME HistoryOK, Click
    PROVE  inputs' \in 0 .. MaxInputs /\ FreeSlots # {}
  BY UserAssumption DEF HistoryOK, Click, Input

LEMMA TypeInv ==
    ASSUME NEW K \in SUBSET Sheet, PageOK(K), HistoryOK, Type
    PROVE  PageOK(K)' /\ HistoryOK'
  <1> DEFINE text == [of |-> active, n |-> inputs + 1]
  <1>1. inputs' \in 0 .. MaxInputs /\ inputs + 1 \in 0 .. MaxInputs
    BY UserAssumption DEF HistoryOK, Type, Input
  <1>2. text \in Text /\ Fits(text, active)
    BY <1>1 DEF Text, Fits, PageOK, FieldOK
  <1>3. input' = text /\ open' = Synced(open, text) /\ UNCHANGED <<listed, active, jobs>>
    BY DEF Type
  <1>4. timer' \in BOOLEAN
    BY DEF Type
  <1> HIDE DEF text
  <1>5. open' \in Seq(TabsOf(K))
    BY <1>2, <1>3, SyncedOK DEF PageOK
  <1>6. PageOK(K)'
    BY <1>2, <1>3, <1>4, <1>5 DEF PageOK, FieldOK, Fits
  <1>7. last' \in [Sheet -> 0 .. MaxInputs]
    BY <1>1 DEF Type, HistoryOK
  <1>8. doubtful' \subseteq Sheet
    BY DEF Type, Doubt, HistoryOK, PageOK, FieldOK
  <1> QED
    BY <1>1, <1>6, <1>7, <1>8 DEF HistoryOK

\* Going to another sheet, with the tabs O.
LEMMA SwitchOK ==
    ASSUME NEW K \in SUBSET Sheet, PageOK(K), FreeSlots # {}, NEW s \in K,
           NEW O \in Seq(TabsOf(K)), SwitchToSheet(s, O)
    PROVE  /\ open' \in Seq(TabsOf(K)) /\ FieldOK(K)' /\ timer' \in BOOLEAN
           /\ jobs' \in [Slot -> JobsOf(K)]
  <1>1. CASE SaveActive(FreeSlot, Job("switch", s), O) /\ UNCHANGED <<active, input>>
    <2>1. /\ Job("switch", s) \in JobsOf(K)
          /\ Job("switch", s).kind = "switch" /\ Job("switch", s).sheet = s
      BY JobOK DEF Kinds
    <2>2. open' \in Seq(TabsOf(K)) /\ timer' \in BOOLEAN /\ jobs' \in [Slot -> JobsOf(K)]
      BY <1>1, <2>1, FreeSlotIsFree, SaveOK
    <2> QED
      BY <1>1, <2>2 DEF PageOK, FieldOK, Fits
  <1>2. CASE NothingToSave /\ Show(s, O) /\ open' = O /\ UNCHANGED jobs
    <2>1. timer' \in BOOLEAN
      BY <1>2 DEF NothingToSave
    <2> QED
      BY <1>2, <2>1, ShowOK DEF PageOK
  <1>3. CASE open' = O /\ UNCHANGED <<active, input, timer, jobs>>
    BY <1>3 DEF PageOK, FieldOK, Fits
  <1> QED
    BY <1>1, <1>2, <1>3 DEF SwitchToSheet

LEMMA PersonInv ==
    ASSUME NEW K \in SUBSET Sheet, TableOK, PageOK(K), HistoryOK, Person
    PROVE  UNCHANGED table /\ PageOK(K)' /\ HistoryOK'
  <1>1. CASE Type
    BY <1>1, TypeInv DEF Type
  <1>2. ASSUME NEW s \in Sheet, ClickTab(s)
        PROVE  UNCHANGED table /\ PageOK(K)' /\ HistoryOK'
    <2>1. Click /\ SwitchToSheet(s, open) /\ UNCHANGED <<table, listed, last, doubtful>>
      BY <1>2 DEF ClickTab
    <2>2. inputs' \in 0 .. MaxInputs /\ FreeSlots # {}
      BY <2>1, ClickOK
    <2>3. s \in K
      BY <1>2, TabsAreTabs DEF ClickTab, PageOK, Tabs
    <2>4. PageOK(K)'
      BY <2>1, <2>2, <2>3, SwitchOK DEF PageOK
    <2> QED
      BY <2>1, <2>2, <2>4 DEF HistoryOK
  <1>3. ASSUME NEW s \in Sheet, CloseTab(s)
        PROVE  UNCHANGED table /\ PageOK(K)' /\ HistoryOK'
    <2>1. Click /\ UNCHANGED <<table, listed, last>> /\ s \in Tabs
      BY <1>3 DEF CloseTab
    <2>2. inputs' \in 0 .. MaxInputs /\ FreeSlots # {}
      BY <2>1, ClickOK
    <2>3. PositionOf(s) \in Nat /\ PositionOf(s) > 0
      BY <2>1, FirstTab, TabsAreTabs DEF PageOK, Tabs, PositionOf
    <2>4. CASE StartClose(FreeSlot, Job("close", s))
      <3>1. Job("close", s) \in JobsOf(K) /\ Job("close", s).kind = "close"
        BY JobOK DEF Kinds
      <3> DEFINE j == [Job("close", s) EXCEPT !.index = PositionOf(s)]
      <3>2. j \in JobsOf(K) /\ j.index > 0 /\ j.kind = "close"
        BY <2>3, <3>1 DEF JobsOf, JobType
      <3>3. SaveActive(FreeSlot, j, open) /\ UNCHANGED <<active, input, doubtful>>
        BY <2>4 DEF StartClose, Job, NoJob
      <3> HIDE DEF j
      <3>4. open' \in Seq(TabsOf(K)) /\ timer' \in BOOLEAN /\ jobs' \in [Slot -> JobsOf(K)]
        BY <2>2, <3>2, <3>3, FreeSlotIsFree, SaveOK DEF PageOK
      <3> QED
        BY <2>1, <2>2, <3>3, <3>4 DEF PageOK, FieldOK, Fits, HistoryOK
    <2>5. CASE RemoveTab(s, PositionOf(s)) /\ UNCHANGED <<timer, jobs>>
      <3>1. open' \in Seq(TabsOf(K)) /\ FieldOK(K)' /\ doubtful' \subseteq Sheet
        BY <2>3, <2>5, RemoveTabOK DEF HistoryOK
      <3> QED
        BY <2>1, <2>2, <2>5, <3>1 DEF PageOK, HistoryOK
    <2> QED
      BY <1>3, <2>4, <2>5 DEF CloseTab
  <1>4. ASSUME NEW s \in Sheet, RenameSheet(s)
        PROVE  UNCHANGED table /\ PageOK(K)' /\ HistoryOK'
    <2>1. Click /\ UNCHANGED <<table, page, last, doubtful>>
          /\ Call(FreeSlot, Job("rename", s), "rename")
      BY <1>4 DEF RenameSheet
    <2>2. inputs' \in 0 .. MaxInputs /\ FreeSlots # {}
      BY <2>1, ClickOK
    <2>3. jobs' \in [Slot -> JobsOf(K)]
      BY <2>1, <2>2, FreeSlotIsFree, JobOK, CallOK DEF Kinds
    <2> QED
      BY <2>1, <2>2, <2>3 DEF page, PageOK, FieldOK, Fits, HistoryOK
  <1>5. ASSUME NEW e \in listed, OpenFromSidebar(e)
        PROVE  UNCHANGED table /\ PageOK(K)' /\ HistoryOK'
    <2> DEFINE new == e.sheet \notin Tabs
               O == IF new THEN Append(open, e) ELSE open
    <2>1. /\ Click /\ SwitchToSheet(e.sheet, O) /\ UNCHANGED <<table, listed, last>>
          /\ Doubt(IF new /\ e.text # stored[e.sheet] THEN {e.sheet} ELSE {})
      BY <1>5 DEF OpenFromSidebar
    <2>2. inputs' \in 0 .. MaxInputs /\ FreeSlots # {}
      BY <2>1, ClickOK
    <2>3. e \in TabsOf(K) /\ e.sheet \in K /\ open \in Seq(TabsOf(K))
      BY DEF PageOK, TabsOf
    <2>4. O \in Seq(TabsOf(K))
      BY <2>3, AppendProperties
    <2>5. doubtful' \subseteq Sheet
      BY <2>1, <2>3 DEF Doubt, HistoryOK
    <2> HIDE DEF O
    <2>6. PageOK(K)'
      BY <2>1, <2>2, <2>3, <2>4, SwitchOK DEF PageOK
    <2> QED
      BY <2>1, <2>2, <2>5, <2>6 DEF HistoryOK
  <1>6. ASSUME NEW e \in listed, DeleteSheet(e)
        PROVE  UNCHANGED table /\ PageOK(K)' /\ HistoryOK'
    <2>1. Click /\ UNCHANGED <<table, page, last, doubtful>>
          /\ Call(FreeSlot, Job("delete", e.sheet), "delete")
      BY <1>6 DEF DeleteSheet
    <2>2. inputs' \in 0 .. MaxInputs /\ FreeSlots # {}
      BY <2>1, ClickOK
    <2>3. e.sheet \in Sheet
      BY DEF PageOK, TabsOf
    <2>4. jobs' \in [Slot -> JobsOf(K)]
      BY <2>1, <2>2, <2>3, FreeSlotIsFree, JobOK, CallOK DEF Kinds
    <2> QED
      BY <2>1, <2>2, <2>4 DEF page, PageOK, FieldOK, Fits, HistoryOK
  <1>7. CASE NewSheet
    <2>1. Click /\ UNCHANGED <<table, listed, active, input, last, doubtful>>
      BY <1>7 DEF NewSheet
    <2>2. inputs' \in 0 .. MaxInputs /\ FreeSlots # {}
      BY <2>1, ClickOK
    <2>3. Job("new", NoSheet) \in JobsOf(K) /\ Job("new", NoSheet).kind = "new"
      BY JobOK DEF Kinds
    <2>4. open' \in Seq(TabsOf(K)) /\ timer' \in BOOLEAN /\ jobs' \in [Slot -> JobsOf(K)]
      <3>1. CASE SaveActive(FreeSlot, Job("new", NoSheet), open)
        BY <2>2, <2>3, <3>1, FreeSlotIsFree, SaveOK DEF PageOK
      <3>2. CASE NothingToSave /\ Call(FreeSlot, Job("new", NoSheet), "create") /\ UNCHANGED open
        <4>1. timer' \in BOOLEAN
          BY <3>2 DEF NothingToSave
        <4>2. jobs' \in [Slot -> JobsOf(K)]
          BY <2>2, <2>3, <3>2, FreeSlotIsFree, CallOK
        <4> QED
          BY <3>2, <4>1, <4>2 DEF PageOK
      <3> QED
        BY <1>7, <3>1, <3>2 DEF NewSheet
    <2> QED
      BY <2>1, <2>2, <2>4 DEF PageOK, FieldOK, Fits, HistoryOK
  <1>8. CASE Reload
    <2>1. /\ Input /\ UNCHANGED <<table, last>>
          /\ open' = <<>> /\ active' = NoSheet /\ input' = Blank /\ listed' = {}
          /\ Call(FreeSlot, Job("load", NoSheet), "list")
      BY <1>8 DEF Reload, Refresh
    <2>2. inputs' \in 0 .. MaxInputs
      BY <2>1, UserAssumption DEF HistoryOK, Input
    <2>3. timer' \in BOOLEAN
      BY <1>8 DEF Reload
    <2>4. doubtful' \subseteq Sheet
      BY <1>8 DEF Reload, Doubt, HistoryOK
    <2>5. jobs' \in [Slot -> JobsOf(K)]
      <3>1. CASE FreeSlots # {}
        BY <2>1, <3>1, FreeSlotIsFree, JobOK, CallOK DEF Kinds
      <3>2. CASE FreeSlots = {}
        BY <1>8, <2>1, <3>2 DEF Reload, FreeSlots, Call, PageOK
      <3> QED
        BY <3>1, <3>2
    <2>6. open' \in Seq(TabsOf(K)) /\ FieldOK(K)'
      BY <2>1, EmptySeq, BlankFits DEF FieldOK, Fits
    <2> QED
      BY <2>1, <2>2, <2>3, <2>4, <2>5, <2>6 DEF PageOK, HistoryOK
  <1> QED
    BY <1>1, <1>2, <1>3, <1>4, <1>5, <1>6, <1>7, <1>8 DEF Person
-----------------------------------------------------------------------------
(* What the timer and the coordinator do *)

LEMMA TimerInv ==
    ASSUME NEW K \in SUBSET Sheet, PageOK(K), HistoryOK, TimerFires
    PROVE  UNCHANGED table /\ PageOK(K)' /\ HistoryOK'
  <1>1. FreeSlots # {} /\ UNCHANGED <<user, table, listed, active, input, last, doubtful>>
    BY DEF TimerFires
  <1>2. open' \in Seq(TabsOf(K)) /\ timer' \in BOOLEAN /\ jobs' \in [Slot -> JobsOf(K)]
    <2>1. CASE SaveActive(FreeSlot, Job("autosave", NoSheet), open)
      <3>1. /\ Job("autosave", NoSheet) \in JobsOf(K)
            /\ Job("autosave", NoSheet).kind = "autosave"
        BY JobOK DEF Kinds
      <3> QED
        BY <1>1, <2>1, <3>1, FreeSlotIsFree, SaveOK DEF PageOK
    <2>2. CASE NothingToSave /\ UNCHANGED <<open, jobs>>
      BY <2>2 DEF NothingToSave, PageOK
    <2> QED
      BY <2>1, <2>2 DEF TimerFires
  <1> QED
    BY <1>1, <1>2 DEF PageOK, FieldOK, Fits, HistoryOK, user

LEMMA ReplyOK ==
    ASSUME NEW K \in SUBSET Sheet, PageOK(K), NEW k \in Slot, NEW r \in {"ok", "error"},
           jobs[k].at = "create" => r = "error", Reply(k, r)
    PROVE  /\ jobs' \in [Slot -> JobsOf(K)]
           /\ jobs'[k] = [jobs[k] EXCEPT !.reply = r]
           /\ \A l \in Slot \ {k} : jobs'[l] = jobs[l]
  <1> DEFINE x == [jobs[k] EXCEPT !.reply = r]
  <1>1. jobs[k] \in JobsOf(K)
    BY DEF PageOK
  <1>2. x \in JobsOf(K)
    BY <1>1 DEF JobsOf, JobType
  <1>3. jobs' = [jobs EXCEPT ![k] = x]
    BY DEF Reply
  <1> HIDE DEF x
  <1>4. jobs' \in [Slot -> JobsOf(K)] /\ jobs'[k] = x /\ \A l \in Slot \ {k} : jobs'[l] = jobs[l]
    BY <1>2, <1>3, PutOK
  <1> QED
    BY <1>4 DEF x

\* Answers that leave the rows as they are.
LEMMA AnswerInv ==
    ASSUME NEW K \in SUBSET Sheet, TableOK, PageOK(K), HistoryOK, NEW k \in Slot,
           UpdateSql(k) \/ UpdateName(k) \/ CallLost(k)
    PROVE  UNCHANGED row /\ TableOK' /\ PageOK(K)' /\ HistoryOK'
  <1>1. jobs[k] \in JobsOf(K)
    BY DEF PageOK
  <1>2. CASE UpdateSql(k)
    <2> DEFINE s == jobs[k].saves
               r == IF s \in Live THEN "ok" ELSE "error"
    <2>1. /\ Asks(k, "save") /\ SlipIf(Overtakes(k)) /\ UNCHANGED <<row, inputs, page, last>>
          /\ stored' = IF s \in Live THEN [stored EXCEPT ![s] = jobs[k].text] ELSE stored
          /\ Reply(k, r) /\ Doubt(IF Overtakes(k) THEN {s} ELSE {})
      BY <1>2 DEF UpdateSql
    <2>2. s \in Sheet /\ jobs[k].text \in Text /\ Fits(jobs[k].text, s) /\ jobs[k].at # "create"
      BY <1>1, <2>1 DEF JobsOf, JobType, Asks
    <2>3. r \in {"ok", "error"}
      OBVIOUS
    <2> HIDE DEF r
    <2>4. jobs' \in [Slot -> JobsOf(K)]
      BY <2>1, <2>2, <2>3, ReplyOK
    <2> HIDE DEF s
    <2>5. TableOK'
      BY <2>1, <2>2 DEF TableOK, Fits
    <2>6. doubtful' \subseteq Sheet
      BY <2>1, <2>2 DEF Doubt, HistoryOK
    <2> QED
      BY <2>1, <2>4, <2>5, <2>6 DEF page, PageOK, FieldOK, Fits, HistoryOK
  <1>3. CASE UpdateName(k)
    <2> DEFINE r == IF jobs[k].sheet \in Live THEN "ok" ELSE "error"
    <2>1. /\ jobs[k].at = "rename" /\ Reply(k, r)
          /\ UNCHANGED table /\ UNCHANGED <<user, page, last, doubtful>>
      BY <1>3 DEF UpdateName, Asks, ServerOnly
    <2>2. r \in {"ok", "error"} /\ jobs[k].at # "create"
      BY <2>1
    <2> HIDE DEF r
    <2>3. jobs' \in [Slot -> JobsOf(K)]
      BY <2>1, <2>2, ReplyOK
    <2> QED
      BY <2>1, <2>3 DEF page, table, user, PageOK, FieldOK, TableOK, Fits, HistoryOK
  <1>4. CASE CallLost(k)
    <2>1. /\ Reply(k, "error") /\ UNCHANGED <<inputs, table, page, last>>
          /\ Doubt(IF Asks(k, "save") THEN {jobs[k].saves} ELSE {})
      BY <1>4 DEF CallLost
    <2>2. jobs' \in [Slot -> JobsOf(K)]
      BY <2>1, ReplyOK
    <2>3. doubtful' \subseteq Sheet
      BY <1>1, <2>1 DEF Doubt, HistoryOK, Asks, JobsOf
    <2> QED
      BY <2>1, <2>2, <2>3 DEF page, table, PageOK, FieldOK, TableOK, Fits, HistoryOK
  <1> QED
    BY <1>2, <1>3, <1>4

\* What holds for some sheets holds for more of them.
LEMMA PageGrows ==
    ASSUME NEW K \in SUBSET Sheet, NEW L \in SUBSET Sheet, K \subseteq L, PageOK(K)
    PROVE  PageOK(L)
  <1>1. TabsOf(K) \subseteq TabsOf(L)
    BY DEF TabsOf
  <1>2. JobsOf(K) \subseteq JobsOf(L)
    BY <1>1 DEF JobsOf
  <1>3. open \in Seq(TabsOf(L))
    <2>1. /\ open \in [1 .. Len(open) -> TabsOf(K)] /\ Len(open) \in Nat
      BY LenProperties DEF PageOK
    <2>2. open \in [1 .. Len(open) -> TabsOf(L)]
      BY <1>1, <2>1
    <2> QED
      BY <2>1, <2>2, SeqDef
  <1> QED
    BY <1>1, <1>2, <1>3 DEF PageOK, FieldOK

LEMMA CreateInv ==
    ASSUME NEW K \in SUBSET Sheet, TableOK, PageOK(K), HistoryOK, NEW k \in Slot, CreateRow(k)
    PROVE  \E s \in Sheet : /\ row' = [row EXCEPT ![s] = "live"]
                            /\ TableOK' /\ PageOK(K \cup {s})' /\ HistoryOK'
  <1>1. PICK s \in Sheet : /\ row' = [row EXCEPT ![s] = "live"]
                           /\ jobs' = [jobs EXCEPT ![k].sheet = s, ![k].reply = "ok"]
    BY DEF CreateRow
  <1>2. UNCHANGED stored /\ UNCHANGED <<user, page, last, doubtful>> /\ jobs[k].at = "create"
    BY DEF CreateRow, ServerOnly, Asks
  <1> DEFINE L == K \cup {s}
             x == [jobs[k] EXCEPT !.sheet = s, !.reply = "ok"]
  <1>3. L \in SUBSET Sheet /\ K \subseteq L /\ s \in L
    OBVIOUS
  <1> HIDE DEF L
  <1>4. PageOK(L)
    BY <1>3, PageGrows
  <1>5. jobs \in [Slot -> JobsOf(L)] /\ jobs[k] \in JobsOf(L)
    BY <1>4 DEF PageOK
  <1>6. x \in JobsOf(L)
    BY <1>2, <1>3, <1>5 DEF JobsOf, JobType
  <1>7. jobs' = [jobs EXCEPT ![k] = x]
    BY <1>1, <1>5
  <1> HIDE DEF x
  <1>8. jobs' \in [Slot -> JobsOf(L)]
    BY <1>5, <1>6, <1>7
  <1>9. PageOK(L)'
    BY <1>2, <1>4, <1>8 DEF page, PageOK, FieldOK, Fits
  <1>10. TableOK' /\ HistoryOK'
    BY <1>1, <1>2 DEF user, TableOK, HistoryOK, Fits
  <1> QED
    BY <1>1, <1>9, <1>10 DEF L

LEMMA DeleteInv ==
    ASSUME NEW K \in SUBSET Sheet, TableOK, PageOK(K), HistoryOK, NEW k \in Slot, DeleteRow(k)
    PROVE  Known \subseteq Known' /\ TableOK' /\ PageOK(K)' /\ HistoryOK'
  <1> DEFINE r == IF jobs[k].sheet \in Live THEN "ok" ELSE "error"
  <1>1. /\ jobs[k].at = "delete" /\ row' = [row EXCEPT ![jobs[k].sheet] = "deleted"]
        /\ Reply(k, r) /\ UNCHANGED stored /\ UNCHANGED <<user, page, last, doubtful>>
    BY DEF DeleteRow, Asks, ServerOnly
  <1>2. r \in {"ok", "error"} /\ jobs[k].at # "create"
    BY <1>1
  <1> HIDE DEF r
  <1>3. jobs' \in [Slot -> JobsOf(K)]
    BY <1>1, <1>2, ReplyOK
  <1>4. TableOK' /\ Known \subseteq Known'
    BY <1>1 DEF TableOK, Fits, Known
  <1> QED
    BY <1>1, <1>3, <1>4 DEF page, user, PageOK, FieldOK, Fits, HistoryOK

\* The list is of sheets that have a row.
LEMMA ListInv ==
    ASSUME NEW K \in SUBSET Sheet, TableOK, PageOK(K), HistoryOK, NEW k \in Slot, ListRows(k),
           Live \subseteq K
    PROVE  UNCHANGED row /\ TableOK' /\ PageOK(K)' /\ HistoryOK'
  <1> DEFINE R == {Entry(s, stored[s]) : s \in Live}
             x == [jobs[k] EXCEPT !.reply = "ok", !.rows = R]
  <1>1. /\ jobs[k].at = "list" /\ UNCHANGED table /\ UNCHANGED <<user, page, last, doubtful>>
        /\ jobs' = [jobs EXCEPT ![k].reply = "ok", ![k].rows = R]
    BY DEF ListRows, Asks, ServerOnly
  <1>2. jobs[k] \in JobsOf(K) /\ jobs \in [Slot -> JobsOf(K)]
    BY DEF PageOK
  <1>3. R \subseteq TabsOf(K)
    BY DEF Entry, TabsOf, TabType, Live, TableOK
  <1>4. jobs' = [jobs EXCEPT ![k] = x]
    BY <1>1, <1>2
  <1> HIDE DEF R
  <1>5. x \in JobsOf(K)
    <2>1. R \in SUBSET TabType
      BY <1>3 DEF TabsOf
    <2> QED
      BY <1>1, <1>2, <1>3, <2>1 DEF JobsOf, JobType
  <1> HIDE DEF x
  <1>6. jobs' \in [Slot -> JobsOf(K)]
    BY <1>2, <1>4, <1>5
  <1> QED
    BY <1>1, <1>6 DEF page, user, table, PageOK, FieldOK, TableOK, Fits, HistoryOK
-----------------------------------------------------------------------------
(* What handlers do with an answer *)

LEMMA RefreshOK ==
    ASSUME NEW K \in SUBSET Sheet, PageOK(K), NEW k \in Slot, Refresh(k, jobs[k].kind)
    PROVE  jobs' \in [Slot -> JobsOf(K)] /\ listed' = {}
  <1>1. jobs[k].kind \in Kinds
    BY DEF PageOK, JobsOf, JobType, Kinds
  <1> QED
    BY <1>1, JobOK, CallOK DEF Refresh

LEMMA RemovalOK ==
    ASSUME NEW K \in SUBSET Sheet, PageOK(K), doubtful \subseteq Sheet, NEW k \in Slot,
           jobs[k].at = "save", jobs[k].kind \in {"close", "delete"},
           RemoveTab(jobs[k].sheet, jobs[k].index)
    PROVE  open' \in Seq(TabsOf(K)) /\ FieldOK(K)' /\ doubtful' \subseteq Sheet
  <1>1. jobs[k] \in JobsOf(K)
    BY DEF PageOK
  <1>2. jobs[k].sheet \in Sheet \cup {NoSheet} /\ jobs[k].index \in Nat /\ jobs[k].index > 0
    BY <1>1 DEF JobsOf, JobType
  <1> QED
    BY <1>2, RemoveTabOK

LEMMA DeleteGoesOnInv ==
    ASSUME NEW K \in SUBSET Sheet, PageOK(K), doubtful \subseteq Sheet, NEW k \in Slot,
           DeleteGoesOn(k)
    PROVE  PageOK(K)' /\ doubtful' \subseteq Sheet
  <1> DEFINE s == jobs[k].sheet
             p == PositionOf(s)
  <1>1. jobs[k] \in JobsOf(K) /\ jobs[k].at = "delete"
    BY DEF PageOK, DeleteGoesOn, Answered
  <1>2. ASSUME s \in Tabs PROVE p \in Nat /\ p > 0 /\ s \in K
    BY <1>2, FirstTab, TabsAreTabs DEF PageOK, Tabs, PositionOf
  <1>3. CASE s \notin Tabs /\ Refresh(k, jobs[k].kind)
             /\ UNCHANGED <<open, active, input, timer, doubtful>>
    BY <1>3, RefreshOK DEF PageOK, FieldOK, Fits
  <1>4. CASE s \in Tabs \ {active} /\ RemoveTab(s, p) /\ Refresh(k, jobs[k].kind)
             /\ UNCHANGED timer
    <2> HIDE DEF p, s
    <2>1. open' \in Seq(TabsOf(K)) /\ FieldOK(K)' /\ doubtful' \subseteq Sheet
      BY <1>2, <1>4, RemoveTabOK
    <2>2. jobs' \in [Slot -> JobsOf(K)] /\ listed' = {}
      BY <1>4, RefreshOK
    <2> QED
      BY <1>4, <2>1, <2>2 DEF PageOK
  <1>5. CASE s \in Tabs /\ StartClose(k, jobs[k]) /\ UNCHANGED listed
    <2> DEFINE j == [jobs[k] EXCEPT !.index = p]
    <2> HIDE DEF p
    <2>1. j \in JobsOf(K) /\ j.index > 0 /\ j.sheet \in K
      BY <1>1, <1>2, <1>5 DEF JobsOf, JobType
    <2>2. SaveActive(k, j, open) /\ UNCHANGED <<active, input, doubtful>>
      BY <1>5 DEF StartClose, p
    <2> HIDE DEF j
    <2>3. open' \in Seq(TabsOf(K)) /\ timer' \in BOOLEAN /\ jobs' \in [Slot -> JobsOf(K)]
      BY <2>1, <2>2, SaveOK DEF PageOK
    <2> QED
      BY <1>5, <2>2, <2>3 DEF PageOK, FieldOK, Fits
  <1> QED
    BY <1>3, <1>4, <1>5 DEF DeleteGoesOn

LEMMA GoOnInv ==
    ASSUME NEW K \in SUBSET Sheet, PageOK(K), HistoryOK, NEW k \in Slot, GoOn(k)
    PROVE  UNCHANGED table /\ PageOK(K)' /\ HistoryOK'
  <1>1. UNCHANGED <<user, table, last>>
    BY DEF GoOn
  <1>2. jobs[k] \in JobsOf(K) /\ doubtful \subseteq Sheet
    BY DEF PageOK, HistoryOK
  <1> SUFFICES PageOK(K)' /\ doubtful' \subseteq Sheet
    BY <1>1 DEF HistoryOK, user
  <1>3. CASE (AutosaveEnds(k) \/ HandlerFails(k))
    <2>1. End(k) /\ UNCHANGED <<page, doubtful>>
      BY <1>3 DEF AutosaveEnds, HandlerFails
    <2> QED
      BY <1>2, <2>1, EndOK DEF page, PageOK, FieldOK, Fits
  <1>4. CASE SwitchEnds(k)
    <2> DEFINE s == jobs[k].sheet
    <2>1. jobs[k].at = "save" /\ jobs[k].kind = "switch" /\ Show(s, open) /\ End(k)
          /\ Doubt({s} \ Tabs) /\ UNCHANGED <<listed, open, timer>>
      BY <1>4 DEF SwitchEnds, Answered
    <2>2. s \in K
      BY <1>2, <2>1 DEF JobsOf
    <2> HIDE DEF s
    <2>3. FieldOK(K)'
      BY <2>1, <2>2, ShowOK DEF PageOK
    <2>4. doubtful' \subseteq Sheet
      BY <1>2, <2>1, <2>2 DEF Doubt
    <2> QED
      BY <2>1, <2>3, <2>4, EndOK DEF PageOK
  <1>5. CASE CloseEnds(k)
    <2>1. jobs[k].at = "save" /\ jobs[k].kind = "close" /\ End(k)
          /\ RemoveTab(jobs[k].sheet, jobs[k].index) /\ UNCHANGED <<listed, timer>>
      BY <1>5 DEF CloseEnds, Answered
    <2>2. open' \in Seq(TabsOf(K)) /\ FieldOK(K)' /\ doubtful' \subseteq Sheet
      BY <1>2, <2>1, RemovalOK
    <2> QED
      BY <2>1, <2>2, EndOK DEF PageOK
  <1>6. CASE NewGoesOn(k)
    <2>1. Call(k, Job("new", NoSheet), "create") /\ UNCHANGED <<page, doubtful>>
      BY <1>6 DEF NewGoesOn
    <2>2. jobs' \in [Slot -> JobsOf(K)]
      BY <2>1, JobOK, CallOK DEF Kinds
    <2> QED
      BY <1>2, <2>1, <2>2 DEF page, PageOK, FieldOK, Fits
  <1>7. CASE NewEnds(k)
    <2> DEFINE s == jobs[k].sheet
    <2>1. jobs[k].at = "create" /\ jobs[k].reply = "ok"
          /\ open' = Append(open, Entry(s, Blank)) /\ Show(s, open')
          /\ Refresh(k, jobs[k].kind) /\ Doubt({s} \cap Tabs) /\ UNCHANGED timer
      BY <1>7 DEF NewEnds, Answered
    <2>2. s \in K /\ s \in Sheet
      BY <1>2, <2>1 DEF JobsOf
    <2> HIDE DEF s
    <2>3. Entry(s, Blank) \in TabsOf(K)
      BY <2>2, BlankFits DEF Entry, TabsOf, TabType
    <2>4. open' \in Seq(TabsOf(K))
      BY <2>1, <2>3, AppendProperties DEF PageOK
    <2>5. FieldOK(K)'
      BY <2>1, <2>2, <2>4, ShowOK
    <2>6. doubtful' \subseteq Sheet
      BY <1>2, <2>1, <2>2 DEF Doubt
    <2> QED
      BY <2>1, <2>4, <2>5, <2>6, RefreshOK DEF PageOK
  <1>8. CASE RenameEnds(k)
    <2>1. Refresh(k, jobs[k].kind) /\ UNCHANGED <<open, active, input, timer, doubtful>>
      BY <1>8 DEF RenameEnds
    <2> QED
      BY <1>2, <2>1, RefreshOK DEF PageOK, FieldOK, Fits
  <1>9. CASE DeleteGoesOn(k)
    BY <1>2, <1>9, DeleteGoesOnInv
  <1>10. CASE DeleteEnds(k)
    <2>1. jobs[k].at = "save" /\ jobs[k].kind = "delete" /\ Refresh(k, jobs[k].kind)
          /\ RemoveTab(jobs[k].sheet, jobs[k].index) /\ UNCHANGED timer
      BY <1>10 DEF DeleteEnds, Answered
    <2>2. open' \in Seq(TabsOf(K)) /\ FieldOK(K)' /\ doubtful' \subseteq Sheet
      BY <1>2, <2>1, RemovalOK
    <2> QED
      BY <2>1, <2>2, RefreshOK DEF PageOK
  <1>11. CASE ListEnds(k)
    <2>1. listed' = listed \cup jobs[k].rows /\ End(k)
          /\ UNCHANGED <<open, active, input, timer, doubtful>>
      BY <1>11 DEF ListEnds
    <2>2. listed' \subseteq TabsOf(K)
      BY <1>2, <2>1 DEF JobsOf, PageOK
    <2> QED
      BY <1>2, <2>1, <2>2, EndOK DEF PageOK, FieldOK, Fits
  <1> QED
    BY <1>3, <1>4, <1>5, <1>6, <1>7, <1>8, <1>9, <1>10, <1>11 DEF GoOn
-----------------------------------------------------------------------------
(* The invariant *)

LEMMA EditorInitInv == EditorInit => EditorInv
  <1> SUFFICES ASSUME EditorInit PROVE EditorInv
    OBVIOUS
  <1>1. TableOK
    BY EditorAssumption, UserAssumption DEF EditorInit, TableOK, Text, Blank, Fits
  <1>2. Saved = Known /\ Saved \in SUBSET Sheet
    BY EditorAssumption DEF EditorInit, Known
  <1>3. PICK O \in SetToAllKPermutations(Saved) :
          /\ open = [i \in DOMAIN O |-> Entry(O[i], stored[O[i]])]
          /\ active = IF O = <<>> THEN NoSheet ELSE Last(O)
    BY DEF EditorInit
  <1>4. O \in Seq(Saved)
    <2>1. PICK S \in SUBSET Saved : O \in SetToSeqs(S)
      BY <1>3 DEF SetToAllKPermutations
    <2>2. IsFiniteSet(S)
      <3>1. S \in SUBSET Sheet /\ IsFiniteSet(Sheet)
        BY EditorAssumption
      <3> QED
        BY <3>1, FS_Subset
    <2>3. Cardinality(S) \in Nat
      BY <2>2, FS_CardinalityType
    <2>4. O \in [1 .. Cardinality(S) -> S]
      BY <2>1 DEF SetToSeqs
    <2>5. O \in [1 .. Cardinality(S) -> Saved]
      BY <2>4
    <2> QED
      BY <2>3, <2>5, SeqDef
  <1>5. DOMAIN O = 1 .. Len(O) /\ Len(O) \in Nat /\ \A i \in 1 .. Len(O) : O[i] \in Saved
    BY <1>4, LenProperties, ElementOfSeq
  <1>6. \A s \in Saved : Entry(s, stored[s]) \in TabsOf(Saved)
    BY <1>1, <1>2 DEF Entry, TabsOf, TabType, TableOK
  <1>7. open \in Seq(TabsOf(Saved))
    <2>1. open \in [1 .. Len(O) -> TabsOf(Saved)]
      BY <1>3, <1>5, <1>6
    <2> QED
      BY <1>5, <2>1, SeqDef
  <1>8. listed \subseteq TabsOf(Saved)
    BY <1>6 DEF EditorInit
  <1>9. FieldOK(Saved)
    <2>1. active \in Saved \cup {NoSheet}
      <3>1. CASE O = <<>>
        BY <1>3, <3>1
      <3>2. CASE O # <<>>
        <4>1. Len(O) \in 1 .. Len(O)
          BY <1>4, <1>5, <3>2, EmptySeq
        <4> QED
          BY <1>2, <1>3, <1>5, <3>2, <4>1 DEF Last
      <3> QED
        BY <3>1, <3>2
    <2>2. input = IF active = NoSheet THEN Blank ELSE stored[active]
      BY DEF EditorInit
    <2>3. NoSheet \notin Sheet
      BY EditorAssumption
    <2> QED
      BY <1>1, <1>2, <2>1, <2>2, <2>3, BlankFits DEF FieldOK, TableOK
  <1>10. timer \in BOOLEAN /\ jobs \in [Slot -> JobsOf(Saved)]
    BY <1>2, NoJobOK DEF EditorInit
  <1>11. HistoryOK
    BY UserAssumption DEF EditorInit, UserInit, HistoryOK
  <1> QED
    BY <1>1, <1>2, <1>7, <1>8, <1>9, <1>10, <1>11 DEF EditorInv, PageOK

\* Rows are never forgotten.
LEMMA RowsStay ==
    ASSUME TableOK, NEW s \in Sheet, row' = [row EXCEPT ![s] = "live"]
    PROVE  Known' = Known \cup {s}
  BY DEF TableOK, Known

LEMMA EditorStepInv == ASSUME EditorInv, EditorNext PROVE EditorInv'
  <1>1. PICK K \in SUBSET Sheet : K = Known
    BY DEF Known
  <1>2. TableOK /\ PageOK(K) /\ HistoryOK
    BY <1>1 DEF EditorInv
  <1>3. ASSUME NEW L \in SUBSET Sheet, L = Known', TableOK', PageOK(L)', HistoryOK'
        PROVE  EditorInv'
    BY <1>3 DEF EditorInv, PageOK, FieldOK, TabsOf, JobsOf
  <1>4. ASSUME UNCHANGED row, TableOK', PageOK(K)', HistoryOK'
        PROVE  EditorInv'
    BY <1>1, <1>3, <1>4 DEF Known
  <1>5. ASSUME UNCHANGED table, PageOK(K)', HistoryOK'
        PROVE  EditorInv'
    <2>1. UNCHANGED row /\ TableOK'
      BY <1>2, <1>5 DEF table, TableOK, Fits
    <2> QED
      BY <1>4, <1>5, <2>1
  <1>6. CASE Person
    BY <1>2, <1>5, <1>6, PersonInv
  <1>7. CASE TimerFires
    BY <1>2, <1>5, <1>7, TimerInv
  <1>8. ASSUME NEW k \in Slot, Serve(k) \/ CallLost(k)
        PROVE  EditorInv'
    <2>1. CASE UpdateSql(k) \/ UpdateName(k) \/ CallLost(k)
      BY <1>2, <1>4, <2>1, AnswerInv
    <2>2. CASE CreateRow(k)
      <3>1. PICK s \in Sheet : /\ row' = [row EXCEPT ![s] = "live"]
                               /\ TableOK' /\ PageOK(K \cup {s})' /\ HistoryOK'
        BY <1>2, <2>2, CreateInv
      <3>2. Known' = K \cup {s}
        BY <1>1, <1>2, <3>1, RowsStay
      <3> QED
        BY <1>3, <3>1, <3>2
    <2>3. CASE DeleteRow(k)
      <3>1. Known \subseteq Known'
        BY <1>2, <2>3, DeleteInv
      <3>2. PICK L \in SUBSET Sheet : L = Known'
        BY DEF Known
      <3>3. PageOK(L)
        BY <1>1, <1>2, <3>1, <3>2, PageGrows
      <3>4. TableOK' /\ PageOK(L)' /\ HistoryOK'
        BY <1>2, <2>3, <3>3, DeleteInv
      <3> QED
        BY <1>3, <3>2, <3>4
    <2>4. CASE ListRows(k)
      <3>1. Live \subseteq K
        BY <1>1 DEF Live, Known
      <3> QED
        BY <1>2, <1>4, <2>4, <3>1, ListInv
    <2> QED
      BY <1>8, <2>1, <2>2, <2>3, <2>4 DEF Serve
  <1>9. ASSUME NEW k \in Slot, GoOn(k)
        PROVE  EditorInv'
    BY <1>2, <1>5, <1>9, GoOnInv
  <1> QED
    BY <1>6, <1>7, <1>8, <1>9 DEF EditorNext

LEMMA EditorNextInv == EditorInv /\ [EditorNext]_editorVars => EditorInv'
  <1> SUFFICES ASSUME EditorInv, UNCHANGED editorVars PROVE EditorInv'
    BY EditorStepInv
  <1> QED
    BY DEF editorVars, user, table, page, EditorInv, TableOK, PageOK, FieldOK, HistoryOK,
           TabsOf, JobsOf, Fits, Known

LEMMA EditorInvImplies == EditorInv => EditorTypeOK /\ TextsApart
  <1> SUFFICES ASSUME EditorInv PROVE EditorTypeOK /\ TextsApart
    OBVIOUS
  <1>1. PICK K \in SUBSET Sheet : K = Known
    BY DEF Known
  <1>2. TableOK /\ PageOK(K) /\ HistoryOK
    BY <1>1 DEF EditorInv
  <1>3. TabsOf(K) \subseteq TabType /\ JobsOf(K) \subseteq JobType
    BY DEF TabsOf, JobsOf
  <1>4. open \in Seq(TabType)
    <2>1. open \in [1 .. Len(open) -> TabsOf(K)] /\ Len(open) \in Nat
      BY <1>2, LenProperties DEF PageOK
    <2>2. open \in [1 .. Len(open) -> TabType]
      BY <1>3, <2>1
    <2> QED
      BY <2>1, <2>2, SeqDef
  <1>5. \A s \in Tabs : row[s] # "unborn"
    BY <1>1, <1>2, TabsAreTabs DEF PageOK, Tabs, Known
  <1>6. EditorTypeOK
    BY <1>2, <1>3, <1>4, <1>5 DEF EditorTypeOK, TableOK, PageOK, FieldOK, HistoryOK
  <1>7. \A i \in DOMAIN open : open[i] \in TabsOf(K)
    BY <1>2, TabsAreTabs DEF PageOK
  <1>8. \A k \in Slot : jobs[k] \in JobsOf(K)
    BY <1>2 DEF PageOK
  <1>9. TextsApart
    BY <1>2, <1>7, <1>8 DEF TextsApart, TableOK, TabsOf, JobsOf, Fits
  <1> QED
    BY <1>6, <1>9
-----------------------------------------------------------------------------
(* The trap *)

\* No call that runs shows another sheet than s.
CallsTrapped(s) ==
    \A k \in Slot : /\ jobs[k].at = "save" => jobs[k].saves = s /\ jobs[k].reply # "ok"
                    /\ jobs[k].at # "create"

LEMMA FreedNever ==
    ASSUME NEW s \in Sheet, Trapped(s), active' = active, s \in TabsIn(open'),
           row'[s] = "deleted", CallsTrapped(s)'
    PROVE  Trapped(s)'
  BY DEF Trapped, Tabs, CallsTrapped

\* One call changes, and is not a save that worked.
LEMMA CallsStayTrapped ==
    ASSUME NEW s \in Sheet, CallsTrapped(s), NEW k \in Slot,
           \A l \in Slot \ {k} : jobs'[l] = jobs[l],
           jobs'[k].at = "save" => jobs'[k].saves = s /\ jobs'[k].reply # "ok",
           jobs'[k].at # "create"
    PROVE  CallsTrapped(s)'
  BY DEF CallsTrapped

LEMMA SaveTraps ==
    ASSUME NEW K \in SUBSET Sheet, PageOK(K), NEW k \in Slot, NEW j \in JobsOf(K),
           NEW O \in Seq(TabsOf(K)), SaveActive(k, j, O),
           j.kind \in {"close", "delete"} => j.index > 0,
           j.kind = "switch" => j.sheet \in K,
           NEW s \in Sheet, s = active, CallsTrapped(s)
    PROVE  CallsTrapped(s)' /\ TabsIn(open') = TabsIn(O)
  <1>1. /\ \A l \in Slot \ {k} : jobs'[l] = jobs[l]
        /\ jobs'[k].at = "save" /\ jobs'[k].saves = active /\ jobs'[k].reply = "none"
        /\ TabsIn(open') = TabsIn(O)
    BY SaveOK
  <1>2. jobs'[k].at = "save" => jobs'[k].saves = s /\ jobs'[k].reply # "ok"
    BY <1>1
  <1>3. jobs'[k].at # "create"
    BY <1>1
  <1> QED
    BY <1>1, <1>2, <1>3, CallsStayTrapped

LEMMA CallTraps ==
    ASSUME NEW K \in SUBSET Sheet, PageOK(K), NEW k \in Slot, NEW j \in JobsOf(K),
           NEW at \in {"rename", "delete", "list"}, Call(k, j, at),
           NEW s \in Sheet, CallsTrapped(s)
    PROVE  CallsTrapped(s)'
  <1>1. jobs'[k].at = at /\ \A l \in Slot \ {k} : jobs'[l] = jobs[l]
    BY CallOK
  <1> QED
    BY <1>1, CallsStayTrapped

LEMMA EndTraps ==
    ASSUME NEW K \in SUBSET Sheet, PageOK(K), NEW k \in Slot, End(k),
           NEW s \in Sheet, CallsTrapped(s)
    PROVE  CallsTrapped(s)'
  <1>1. jobs'[k] = NoJob /\ \A l \in Slot \ {k} : jobs'[l] = jobs[l]
    BY EndOK
  <1>2. jobs'[k].at = "none"
    BY <1>1 DEF NoJob
  <1> QED
    BY <1>1, <1>2, CallsStayTrapped

\* A switch flushes the deleted sheet first.
LEMMA SwitchTraps ==
    ASSUME NEW K \in SUBSET Sheet, PageOK(K), FreeSlots # {}, NEW t \in K,
           NEW O \in Seq(TabsOf(K)), SwitchToSheet(t, O),
           NEW s \in Sheet, s = active, s \in Tabs, s \in TabsIn(O), CallsTrapped(s)
    PROVE  active' = active /\ s \in TabsIn(open') /\ CallsTrapped(s)'
  <1>1. CASE SaveActive(FreeSlot, Job("switch", t), O) /\ UNCHANGED <<active, input>>
    <2>1. /\ Job("switch", t) \in JobsOf(K)
          /\ Job("switch", t).kind = "switch" /\ Job("switch", t).sheet = t
      BY JobOK DEF Kinds
    <2>2. CallsTrapped(s)' /\ TabsIn(open') = TabsIn(O)
      BY <1>1, <2>1, FreeSlotIsFree, SaveTraps
    <2> QED
      BY <1>1, <2>2
  <1>2. CASE NothingToSave
    BY <1>2 DEF NothingToSave
  <1>3. CASE open' = O /\ UNCHANGED <<active, input, timer, jobs>>
    BY <1>3 DEF CallsTrapped
  <1> QED
    BY <1>1, <1>2, <1>3 DEF SwitchToSheet

\* So does a close.
LEMMA CloseTraps ==
    ASSUME NEW K \in SUBSET Sheet, PageOK(K), NEW k \in Slot, NEW j \in JobsOf(K),
           j.sheet \in Tabs, StartClose(k, j),
           NEW s \in Sheet, s = active, s \in Tabs, CallsTrapped(s)
    PROVE  active' = active /\ s \in TabsIn(open') /\ CallsTrapped(s)'
  <1> DEFINE p == PositionOf(j.sheet)
             x == [j EXCEPT !.index = p]
  <1>1. p \in Nat /\ p > 0 /\ j.sheet \in K
    BY FirstTab, TabsAreTabs DEF PageOK, Tabs, PositionOf
  <1>2. SaveActive(k, x, open) /\ UNCHANGED active
    BY DEF StartClose
  <1> HIDE DEF p
  <1>3. x \in JobsOf(K) /\ x.index > 0 /\ x.sheet \in K
    BY <1>1 DEF JobsOf, JobType
  <1> HIDE DEF x
  <1>4. CallsTrapped(s)' /\ TabsIn(open') = TabsIn(open)
    BY <1>2, <1>3, SaveTraps DEF PageOK
  <1> QED
    BY <1>2, <1>4 DEF Tabs

\* Removing the tab of another sheet leaves s where it is.
LEMMA RemoveTraps ==
    ASSUME NEW K \in SUBSET Sheet, PageOK(K), doubtful \subseteq Sheet,
           NEW t \in Tabs, RemoveTab(t, PositionOf(t)),
           NEW s \in Sheet, s = active, s \in Tabs, t # s
    PROVE  active' = active /\ s \in TabsIn(open')
  <1>1. PositionOf(t) \in DOMAIN open /\ open[PositionOf(t)].sheet = t
        /\ PositionOf(t) \in Nat /\ PositionOf(t) > 0 /\ t \in Sheet
    BY FirstTab, TabsAreTabs DEF PageOK, Tabs, PositionOf
  <1>2. Tabs \ {t} \subseteq TabsIn(open') /\ active' = active
    BY <1>1, RemoveTabOK
  <1> QED
    BY <1>2

LEMMA PersonTraps ==
    ASSUME NEW K \in SUBSET Sheet, PageOK(K), HistoryOK, Person,
           NEW s \in Sheet, s = active, s \in Tabs, CallsTrapped(s)
    PROVE  (active' = active /\ s \in TabsIn(open') /\ CallsTrapped(s)') \/ Reload
  <1> DEFINE Stays == active' = active /\ s \in TabsIn(open') /\ CallsTrapped(s)'
  <1>1. CASE Type
    <2> DEFINE text == [of |-> active, n |-> inputs + 1]
    <2>1. UNCHANGED <<active, jobs>> /\ open' = Synced(open, text)
      BY <1>1 DEF Type
    <2>2. text \in Text /\ Fits(text, active)
      BY <1>1, UserAssumption DEF Text, Fits, PageOK, FieldOK, HistoryOK, Type, Input
    <2> HIDE DEF text
    <2>3. TabsIn(open') = Tabs
      BY <2>1, <2>2, SyncedOK DEF PageOK, Tabs
    <2> QED
      BY <2>1, <2>3 DEF CallsTrapped
  <1>2. ASSUME NEW t \in Sheet, ClickTab(t) PROVE Stays
    <2>1. SwitchToSheet(t, open) /\ FreeSlots # {}
      BY <1>2 DEF ClickTab, Click
    <2>2. t \in K
      BY <1>2, TabsAreTabs DEF ClickTab, PageOK, Tabs
    <2> QED
      BY <2>1, <2>2, SwitchTraps DEF PageOK, Tabs
  <1>3. ASSUME NEW t \in Sheet, CloseTab(t) PROVE Stays
    <2>1. t \in Tabs /\ FreeSlots # {}
      BY <1>3 DEF CloseTab, Click
    <2>2. CASE StartClose(FreeSlot, Job("close", t))
      <3>1. /\ Job("close", t) \in JobsOf(K)
            /\ Job("close", t).kind = "close" /\ Job("close", t).sheet = t
        BY JobOK DEF Kinds
      <3> QED
        BY <2>1, <2>2, <3>1, FreeSlotIsFree, CloseTraps
    <2>3. CASE t # active /\ RemoveTab(t, PositionOf(t)) /\ UNCHANGED <<timer, jobs>>
      <3>1. active' = active /\ s \in TabsIn(open')
        BY <2>1, <2>3, RemoveTraps DEF HistoryOK
      <3> QED
        BY <2>3, <3>1 DEF CallsTrapped
    <2> QED
      BY <1>3, <2>2, <2>3 DEF CloseTab
  <1>4. ASSUME NEW t \in Sheet, RenameSheet(t) PROVE Stays
    <2>1. /\ FreeSlots # {} /\ UNCHANGED page
          /\ Call(FreeSlot, Job("rename", t), "rename")
      BY <1>4 DEF RenameSheet, Click
    <2>2. CallsTrapped(s)'
      BY <2>1, FreeSlotIsFree, JobOK, CallTraps DEF Kinds
    <2> QED
      BY <2>1, <2>2 DEF page, Tabs
  <1>5. ASSUME NEW e \in listed, OpenFromSidebar(e) PROVE Stays
    <2> DEFINE new == e.sheet \notin Tabs
               O == IF new THEN Append(open, e) ELSE open
    <2>1. SwitchToSheet(e.sheet, O) /\ FreeSlots # {}
      BY <1>5 DEF OpenFromSidebar, Click
    <2>2. e \in TabsOf(K) /\ e.sheet \in K /\ open \in Seq(TabsOf(K))
      BY DEF PageOK, TabsOf
    <2>3. O \in Seq(TabsOf(K))
      BY <2>2, AppendProperties
    <2>4. s \in TabsIn(O)
      <3>1. PICK i \in DOMAIN open : open[i].sheet = s
        BY DEF Tabs, TabsIn
      <3>2. i \in 1 .. Len(open) /\ DOMAIN open = 1 .. Len(open)
        BY <2>2, LenProperties
      <3>3. O[i] = open[i] /\ i \in DOMAIN O
        <4>1. /\ \A j \in 1 .. Len(open) : Append(open, e)[j] = open[j]
              /\ Len(Append(open, e)) = Len(open) + 1 /\ Append(open, e) \in Seq(TabsOf(K))
          BY <2>2, AppendProperties
        <4>2. DOMAIN Append(open, e) = 1 .. Len(open) + 1 /\ Len(open) \in Nat
          BY <2>2, <4>1, LenProperties
        <4> QED
          BY <3>2, <4>1, <4>2
      <3> QED
        BY <3>1, <3>3 DEF TabsIn
    <2> HIDE DEF O
    <2> QED
      BY <2>1, <2>2, <2>3, <2>4, SwitchTraps
  <1>6. ASSUME NEW e \in listed, DeleteSheet(e) PROVE Stays
    <2>1. /\ FreeSlots # {} /\ UNCHANGED page
          /\ Call(FreeSlot, Job("delete", e.sheet), "delete")
      BY <1>6 DEF DeleteSheet, Click
    <2>2. e.sheet \in Sheet
      BY DEF PageOK, TabsOf
    <2>3. CallsTrapped(s)'
      BY <2>1, <2>2, FreeSlotIsFree, JobOK, CallTraps DEF Kinds
    <2> QED
      BY <2>1, <2>3 DEF page, Tabs
  <1>7. CASE NewSheet
    <2>1. UNCHANGED active /\ FreeSlots # {} /\ SaveActive(FreeSlot, Job("new", NoSheet), open)
      BY <1>7 DEF NewSheet, Click, NothingToSave
    <2>2. Job("new", NoSheet) \in JobsOf(K) /\ Job("new", NoSheet).kind = "new"
      BY JobOK DEF Kinds
    <2>3. CallsTrapped(s)' /\ TabsIn(open') = TabsIn(open)
      BY <2>1, <2>2, FreeSlotIsFree, SaveTraps DEF PageOK
    <2> QED
      BY <2>1, <2>3 DEF Tabs
  <1> QED
    BY <1>1, <1>2, <1>3, <1>4, <1>5, <1>6, <1>7 DEF Person

LEMMA TimerTraps ==
    ASSUME NEW K \in SUBSET Sheet, PageOK(K), TimerFires,
           NEW s \in Sheet, s = active, s \in Tabs, CallsTrapped(s)
    PROVE  active' = active /\ s \in TabsIn(open') /\ CallsTrapped(s)'
  <1>1. /\ UNCHANGED active /\ FreeSlots # {}
        /\ SaveActive(FreeSlot, Job("autosave", NoSheet), open)
    BY DEF TimerFires, NothingToSave
  <1>2. Job("autosave", NoSheet) \in JobsOf(K) /\ Job("autosave", NoSheet).kind = "autosave"
    BY JobOK DEF Kinds
  <1>3. CallsTrapped(s)' /\ TabsIn(open') = TabsIn(open)
    BY <1>1, <1>2, FreeSlotIsFree, SaveTraps DEF PageOK
  <1> QED
    BY <1>1, <1>3 DEF Tabs

\* The coordinator answers a save of a deleted sheet with an error.
LEMMA ServeTraps ==
    ASSUME NEW K \in SUBSET Sheet, TableOK, PageOK(K), NEW k \in Slot, Serve(k) \/ CallLost(k),
           NEW s \in Sheet, s \in Tabs, row[s] = "deleted", CallsTrapped(s)
    PROVE  UNCHANGED page /\ row'[s] = "deleted" /\ CallsTrapped(s)'
  <1>1. jobs[k] \in JobsOf(K) /\ jobs \in [Slot -> JobsOf(K)]
    BY DEF PageOK
  <1>2. jobs[k].at # "create" /\ (jobs[k].at = "save" => jobs[k].saves = s)
    BY DEF CallsTrapped
  <1>3. ASSUME NEW r \in {"ok", "error"}, Reply(k, r), jobs[k].at = "save" => r = "error"
        PROVE  CallsTrapped(s)'
    <2>1. /\ jobs'[k] = [jobs[k] EXCEPT !.reply = r]
          /\ \A l \in Slot \ {k} : jobs'[l] = jobs[l]
      BY <1>2, <1>3, ReplyOK
    <2>2. jobs'[k].at = jobs[k].at /\ jobs'[k].saves = jobs[k].saves /\ jobs'[k].reply = r
      BY <1>1, <2>1 DEF JobsOf, JobType
    <2>3. jobs'[k].at = "save" => jobs'[k].saves = s /\ jobs'[k].reply # "ok"
      BY <1>2, <1>3, <2>2
    <2>4. jobs'[k].at # "create"
      BY <1>2, <2>2
    <2> QED
      BY <2>1, <2>3, <2>4, CallsStayTrapped
  <1>4. CASE UpdateSql(k)
    <2>1. jobs[k].at = "save" /\ Reply(k, IF jobs[k].saves \in Live THEN "ok" ELSE "error")
          /\ UNCHANGED <<row, page>>
      BY <1>4 DEF UpdateSql, Asks
    <2>2. jobs[k].saves \notin Live
      BY <1>2, <2>1 DEF Live
    <2> QED
      BY <1>3, <2>1, <2>2
  <1>5. CASE UpdateName(k)
    <2> DEFINE r == IF jobs[k].sheet \in Live THEN "ok" ELSE "error"
    <2>1. jobs[k].at = "rename" /\ Reply(k, r) /\ UNCHANGED table /\ UNCHANGED page
      BY <1>5 DEF UpdateName, Asks, ServerOnly
    <2>2. r \in {"ok", "error"}
      OBVIOUS
    <2> HIDE DEF r
    <2> QED
      BY <1>3, <2>1, <2>2 DEF table
  <1>6. CASE CreateRow(k)
    BY <1>2, <1>6 DEF CreateRow, Asks
  <1>7. CASE DeleteRow(k)
    <2> DEFINE r == IF jobs[k].sheet \in Live THEN "ok" ELSE "error"
    <2>1. jobs[k].at = "delete" /\ Reply(k, r) /\ UNCHANGED page
          /\ row' = [row EXCEPT ![jobs[k].sheet] = "deleted"]
      BY <1>7 DEF DeleteRow, Asks, ServerOnly
    <2>2. r \in {"ok", "error"}
      OBVIOUS
    <2> HIDE DEF r
    <2>3. row'[s] = "deleted"
      BY <2>1 DEF TableOK
    <2> QED
      BY <1>3, <2>1, <2>2, <2>3
  <1>8. CASE ListRows(k)
    <2> DEFINE R == {Entry(t, stored[t]) : t \in Live}
               x == [jobs[k] EXCEPT !.reply = "ok", !.rows = R]
    <2>1. /\ jobs[k].at = "list" /\ UNCHANGED table /\ UNCHANGED page
          /\ jobs' = [jobs EXCEPT ![k].reply = "ok", ![k].rows = R]
      BY <1>8 DEF ListRows, Asks, ServerOnly
    <2>2. jobs' = [jobs EXCEPT ![k] = x] /\ x.at = "list"
      BY <1>1, <2>1 DEF JobsOf, JobType
    <2> HIDE DEF x
    <2>3. jobs'[k].at = "list" /\ \A l \in Slot \ {k} : jobs'[l] = jobs[l]
      BY <1>1, <2>2
    <2>4. CallsTrapped(s)'
      BY <2>3, CallsStayTrapped
    <2> QED
      BY <2>1, <2>4 DEF table
  <1>9. CASE CallLost(k)
    <2>1. Reply(k, "error") /\ UNCHANGED table /\ UNCHANGED page
      BY <1>9 DEF CallLost
    <2> QED
      BY <1>3, <2>1 DEF table
  <1> QED
    BY <1>4, <1>5, <1>6, <1>7, <1>8, <1>9 DEF Serve

LEMMA GoOnTraps ==
    ASSUME NEW K \in SUBSET Sheet, PageOK(K), doubtful \subseteq Sheet, NEW k \in Slot, GoOn(k),
           NEW s \in Sheet, s = active, s \in Tabs, CallsTrapped(s)
    PROVE  active' = active /\ s \in TabsIn(open') /\ CallsTrapped(s)'
  <1>1. ~Answered(k, "save") /\ ~Answered(k, "create")
    BY DEF Answered, CallsTrapped
  <1>2. jobs[k] \in JobsOf(K) /\ jobs[k].kind \in Kinds
    BY DEF PageOK, JobsOf, JobType, Kinds
  <1>3. ASSUME Refresh(k, jobs[k].kind) PROVE CallsTrapped(s)'
    <2>1. Call(k, Job(jobs[k].kind, NoSheet), "list")
      BY <1>3 DEF Refresh
    <2>2. Job(jobs[k].kind, NoSheet) \in JobsOf(K)
      BY <1>2, JobOK
    <2> QED
      BY <2>1, <2>2, CallTraps
  <1>4. CASE RenameEnds(k)
    BY <1>3, <1>4 DEF RenameEnds, Tabs
  <1>5. CASE DeleteGoesOn(k)
    <2> DEFINE t == jobs[k].sheet
    <2>1. CASE t \notin Tabs /\ Refresh(k, jobs[k].kind)
               /\ UNCHANGED <<open, active, input, timer, doubtful>>
      BY <1>3, <2>1 DEF Tabs
    <2>2. CASE t \in Tabs \ {active} /\ RemoveTab(t, PositionOf(t)) /\ Refresh(k, jobs[k].kind)
      <3> HIDE DEF t
      <3>1. active' = active /\ s \in TabsIn(open')
        BY <2>2, RemoveTraps
      <3> QED
        BY <1>3, <2>2, <3>1
    <2>3. CASE t \in Tabs /\ StartClose(k, jobs[k])
      <3>1. jobs[k].at = "delete"
        BY <1>5 DEF DeleteGoesOn, Answered
      <3> QED
        BY <2>3, <1>2, CloseTraps
    <2> QED
      BY <1>5, <2>1, <2>2, <2>3 DEF DeleteGoesOn
  <1>6. CASE ListEnds(k)
    BY <1>6, EndTraps DEF ListEnds, Tabs
  <1>7. CASE HandlerFails(k)
    BY <1>7, EndTraps DEF HandlerFails, Tabs, page
  <1> QED
    BY <1>1, <1>4, <1>5, <1>6, <1>7
       DEF GoOn, AutosaveEnds, SwitchEnds, CloseEnds, NewGoesOn, NewEnds, DeleteEnds

LEMMA StepTraps ==
    ASSUME EditorInv, EditorNext, NEW s \in Sheet, Trapped(s)
    PROVE  Trapped(s)' \/ Reload
  <1>1. PICK K \in SUBSET Sheet : K = Known
    BY DEF Known
  <1>2. TableOK /\ PageOK(K) /\ HistoryOK /\ doubtful \subseteq Sheet
    BY <1>1 DEF EditorInv, HistoryOK
  <1>3. s = active /\ s \in Tabs /\ row[s] = "deleted" /\ CallsTrapped(s)
    BY DEF Trapped, CallsTrapped
  <1>4. CASE Person
    <2>1. UNCHANGED row
      BY <1>2, <1>4, PersonInv DEF table
    <2>2. (active' = active /\ s \in TabsIn(open') /\ CallsTrapped(s)') \/ Reload
      BY <1>2, <1>3, <1>4, PersonTraps
    <2> QED
      BY <1>3, <2>1, <2>2, FreedNever
  <1>5. CASE TimerFires
    <2>1. UNCHANGED row
      BY <1>5 DEF TimerFires, table
    <2>2. active' = active /\ s \in TabsIn(open') /\ CallsTrapped(s)'
      BY <1>2, <1>3, <1>5, TimerTraps
    <2> QED
      BY <1>3, <2>1, <2>2, FreedNever
  <1>6. ASSUME NEW k \in Slot, Serve(k) \/ CallLost(k)
        PROVE  Trapped(s)'
    <2>1. UNCHANGED page /\ row'[s] = "deleted" /\ CallsTrapped(s)'
      BY <1>2, <1>3, <1>6, ServeTraps
    <2>2. active' = active /\ s \in TabsIn(open')
      BY <1>3, <2>1 DEF page, Tabs
    <2> QED
      BY <2>1, <2>2, FreedNever
  <1>7. ASSUME NEW k \in Slot, GoOn(k)
        PROVE  Trapped(s)'
    <2>1. UNCHANGED row
      BY <1>7 DEF GoOn, table
    <2>2. active' = active /\ s \in TabsIn(open') /\ CallsTrapped(s)'
      BY <1>2, <1>3, <1>7, GoOnTraps
    <2> QED
      BY <1>3, <2>1, <2>2, FreedNever
  <1> QED
    BY <1>4, <1>5, <1>6, <1>7 DEF EditorNext
-----------------------------------------------------------------------------
\* The page and the table hold what their code can put there, and no tab is of a
\* sheet that was never created.
THEOREM EditorTypeCorrect == EditorSpec => []EditorTypeOK
  <1>1. EditorInv => EditorTypeOK
    BY EditorInvImplies
  <1> QED
    BY <1>1, EditorInitInv, EditorNextInv, PTL DEF EditorSpec

\* However clicks, keystrokes, the timer and answers meet, no sheet is given the
\* text of another one.
THEOREM TextsStayApart == EditorSpec => []TextsApart
  <1>1. EditorInv => TextsApart
    BY EditorInvImplies
  <1> QED
    BY <1>1, EditorInitInv, EditorNextInv, PTL DEF EditorSpec

\* Once the sheet that is shown was deleted, no click, timer or answer gets the
\* page away from it, whatever the order: only a reload does.
THEOREM DeletedTraps == EditorSpec => OnlyReloadFrees
  <1>1. EditorInv /\ [EditorNext]_editorVars
        => [\A s \in Sheet : Trapped(s) => Trapped(s)' \/ Reload]_editorVars
    BY StepTraps
  <1> QED
    BY <1>1, EditorInitInv, EditorNextInv, PTL DEF EditorSpec, OnlyReloadFrees
-----------------------------------------------------------------------------
(* The order of the texts of a sheet *)

TextsIn(O, s) == {O[i].text : i \in {j \in DOMAIN O : O[j].sheet = s}}
OnceIn(O, s) == \A i, j \in DOMAIN O : O[i].sheet = s /\ O[j].sheet = s => i = j

\* Nothing doubtful has happened to the row of s.
Sure(s) == row[s] = "live" /\ s \notin doubtful

\* The text that s had before anybody typed; other texts of it were typed.
Start(s) == IF s \in Saved THEN [of |-> s, n |-> 0] ELSE Blank
Genuine(text, s) == text.n = 0 => text = Start(s)

\* A save of s is on its way; k will show another sheet, or has shown that it
\* would; k has created s.
Sends(k, s) == Asks(k, "save") /\ jobs[k].saves = s
Leaves(k) ==
    /\ jobs[k].at \in {"save", "create"} /\ jobs[k].kind \notin {"none", "autosave"}
    /\ jobs[k].reply # "error"
Creates(k, s) == Answered(k, "create") /\ jobs[k].sheet = s

StoredSound(s) == stored[s].n <= inputs /\ Genuine(stored[s], s)

\* A tab has no older text than the table.
TabSound(s) ==
    /\ OnceIn(open, s)
    /\ \A t \in TextsIn(open, s) : Genuine(t, s) /\ stored[s].n <= t.n /\ t.n <= inputs

\* A save that is on its way brings no older text.
SendsSound(s) ==
    \A k \in Slot : Sends(k, s) => Genuine(jobs[k].text, s) /\ stored[s].n <= jobs[k].text.n

\* The text field of the sheet that is shown has the newest text, and who is about to
\* leave that sheet has stored it, or is storing it.
ShownSound(s) ==
    active = s =>
        /\ TextsIn(open, s) = {input}
        /\ \A k \in Slot :
             /\ Sends(k, s) => jobs[k].text.n <= input.n
             /\ Leaves(k) => stored[s].n = input.n \/ (Sends(k, s) /\ jobs[k].text = input)

\* Of a sheet that is not shown everything has been stored.
HiddenSound(s) ==
    active # s =>
        /\ \A t \in TextsIn(open, s) : t.n = stored[s].n
        /\ \A k \in Slot : Sends(k, s) => jobs[k].text.n = stored[s].n

\* A sheet whose first tab is still to come is blank.
NewSound(s) == \A k \in Slot : Creates(k, s) => stored[s] = Blank

InOrder(s) ==
    /\ StoredSound(s) /\ TabSound(s) /\ SendsSound(s)
    /\ ShownSound(s) /\ HiddenSound(s) /\ NewSound(s)

Unborn(s) == row[s] = "unborn" => s \notin Saved /\ stored[s] = Blank

OrderInv == \A s \in Sheet : Unborn(s) /\ (Sure(s) => InOrder(s))

LEMMA SomeText ==
    ASSUME NEW O, NEW s
    PROVE  s \in TabsIn(O) <=> TextsIn(O, s) # {}
  BY DEF TabsIn, TextsIn

LEMMA OneText ==
    ASSUME NEW O, NEW s, OnceIn(O, s), NEW t \in TextsIn(O, s)
    PROVE  TextsIn(O, s) = {t}
  BY DEF TextsIn, OnceIn

\* syncActiveOpenSheet concerns the tab that is shown.
LEMMA SyncedTexts ==
    ASSUME NEW K \in SUBSET Sheet, NEW O \in Seq(TabsOf(K)), NEW text \in Text, NEW s,
           OnceIn(O, s)
    PROVE  /\ OnceIn(Synced(O, text), s)
           /\ s # active => TextsIn(Synced(O, text), s) = TextsIn(O, s)
           /\ s = active /\ TextsIn(O, s) # {} => TextsIn(Synced(O, text), s) = {text}
  <1>1. CASE active \notin TabsIn(O)
    BY <1>1, SomeText DEF Synced
  <1>2. CASE active \in TabsIn(O)
    <2> DEFINE p == PositionIn(O, active)
               S == Synced(O, text)
    <2>1. p \in 1 .. Len(O) /\ O[p].sheet = active
      BY <1>2, FirstTab
    <2>2. DOMAIN O = 1 .. Len(O) /\ \A j \in 1 .. Len(O) : O[j] \in TabType
      BY TabsAreTabs DEF TabsOf
    <2>3. S = [O EXCEPT ![p].text = text]
      BY <1>2 DEF Synced
    <2> HIDE DEF p, S
    <2>4. /\ DOMAIN S = DOMAIN O
          /\ \A j \in DOMAIN O : S[j].sheet = O[j].sheet
          /\ \A j \in DOMAIN O : S[j].text = IF j = p THEN text ELSE O[j].text
      BY <2>1, <2>2, <2>3 DEF TabType
    <2>5. OnceIn(S, s)
      BY <2>4 DEF OnceIn
    <2>6. ASSUME s # active PROVE TextsIn(S, s) = TextsIn(O, s)
      <3>1. \A j \in DOMAIN O : O[j].sheet = s => S[j].text = O[j].text
        BY <2>1, <2>4, <2>6
      <3> QED
        BY <2>4, <3>1 DEF TextsIn
    <2>7. ASSUME s = active PROVE TextsIn(S, s) = {text}
      <3>1. p \in DOMAIN S /\ S[p].sheet = s /\ S[p].text = text
        BY <2>1, <2>2, <2>4, <2>7
      <3>2. text \in TextsIn(S, s)
        BY <3>1 DEF TextsIn
      <3> QED
        BY <2>5, <3>2, OneText
    <2> QED
      BY <2>5, <2>6, <2>7 DEF S
  <1> QED
    BY <1>1, <1>2

LEMMA AppendedTexts ==
    ASSUME NEW K \in SUBSET Sheet, NEW O \in Seq(TabsOf(K)), NEW e \in TabsOf(K), NEW s,
           OnceIn(O, s)
    PROVE  /\ s # e.sheet \/ s \notin TabsIn(O) => OnceIn(Append(O, e), s)
           /\ s # e.sheet => TextsIn(Append(O, e), s) = TextsIn(O, s)
           /\ s = e.sheet => TextsIn(Append(O, e), s) = TextsIn(O, s) \cup {e.text}
  <1> DEFINE A == Append(O, e)
             n == Len(O)
  <1>1. DOMAIN O = 1 .. n /\ n \in Nat
    BY TabsAreTabs
  <1>2. A \in Seq(TabsOf(K)) /\ Len(A) = n + 1 /\ A[n + 1] = e /\ \A j \in 1 .. n : A[j] = O[j]
    BY AppendProperties
  <1>3. DOMAIN A = 1 .. n + 1
    BY <1>2, TabsAreTabs
  <1> HIDE DEF A, n
  <1>4. \A j \in 1 .. n + 1 : j \in 1 .. n \/ j = n + 1
    BY <1>1
  <1>5. ASSUME s # e.sheet \/ s \notin TabsIn(O) PROVE OnceIn(A, s)
    <2> SUFFICES ASSUME NEW i \in DOMAIN A, NEW j \in DOMAIN A, A[i].sheet = s, A[j].sheet = s
                 PROVE  i = j
      BY DEF OnceIn
    <2>1. CASE i \in 1 .. n /\ j \in 1 .. n
      BY <1>1, <1>2, <2>1 DEF OnceIn
    <2>2. CASE i = n + 1 /\ j = n + 1
      BY <2>2
    <2>3. ASSUME n + 1 \in {i, j}, \E l \in 1 .. n : l \in {i, j} PROVE FALSE
      <3>1. s = e.sheet
        BY <1>2, <2>3
      <3>2. s \in TabsIn(O)
        BY <1>1, <1>2, <2>3 DEF TabsIn
      <3> QED
        BY <1>5, <3>1, <3>2
    <2> QED
      BY <1>3, <1>4, <2>1, <2>2, <2>3
  <1>6. ASSUME s # e.sheet PROVE TextsIn(A, s) = TextsIn(O, s)
    BY <1>1, <1>2, <1>3, <1>4, <1>6 DEF TextsIn
  <1>7. ASSUME s = e.sheet PROVE TextsIn(A, s) = TextsIn(O, s) \cup {e.text}
    <2>1. n + 1 \in 1 .. n + 1 /\ \A j \in 1 .. n : j \in 1 .. n + 1
      BY <1>1
    <2>2. TextsIn(A, s) \subseteq TextsIn(O, s) \cup {e.text}
      BY <1>1, <1>2, <1>3, <1>4 DEF TextsIn
    <2>3. TextsIn(O, s) \subseteq TextsIn(A, s)
      BY <1>1, <1>2, <1>3, <2>1 DEF TextsIn
    <2>4. e.text \in TextsIn(A, s)
      BY <1>2, <1>3, <1>7, <2>1 DEF TextsIn
    <2> QED
      BY <2>2, <2>3, <2>4
  <1> QED
    BY <1>5, <1>6, <1>7 DEF A

LEMMA RemovedTexts ==
    ASSUME NEW K \in SUBSET Sheet, NEW O \in Seq(TabsOf(K)), NEW i \in DOMAIN O, NEW s,
           OnceIn(O, s)
    PROVE  OnceIn(RemoveAt(O, i), s) /\ TextsIn(RemoveAt(O, i), s) \subseteq TextsIn(O, s)
  <1> DEFINE n == Len(O)
             R == RemoveAt(O, i)
             From(j) == IF j < i THEN j ELSE j + 1
  <1>1. n \in Nat /\ i \in 1 .. n /\ DOMAIN O = 1 .. n
    BY TabsAreTabs
  <1>2. DOMAIN R = 1 .. n - 1 /\ \A j \in 1 .. n - 1 : R[j] = O[From(j)]
    BY RemovedTabs
  <1>3. /\ \A j \in 1 .. n - 1 : From(j) \in 1 .. n
        /\ \A j, l \in 1 .. n - 1 : From(j) = From(l) => j = l
    BY <1>1
  <1> HIDE DEF n, R, From
  <1>4. OnceIn(R, s)
    <2> SUFFICES ASSUME NEW j \in DOMAIN R, NEW l \in DOMAIN R, R[j].sheet = s, R[l].sheet = s
                 PROVE  j = l
      BY DEF OnceIn
    <2>1. From(j) = From(l)
      BY <1>1, <1>2, <1>3 DEF OnceIn
    <2> QED
      BY <1>2, <1>3, <2>1
  <1>5. TextsIn(R, s) \subseteq TextsIn(O, s)
    BY <1>1, <1>2, <1>3 DEF TextsIn
  <1> QED
    BY <1>4, <1>5 DEF R

\* The text field gets the text of the tab that is shown.
LEMMA ShownText ==
    ASSUME NEW K \in SUBSET Sheet, NEW O \in Seq(TabsOf(K)), NEW s \in TabsIn(O),
           OnceIn(O, s), Show(s, O)
    PROVE  active' = s /\ input' \in TextsIn(O, s) /\ TextsIn(O, s) = {input'}
  <1>1. PositionIn(O, s) \in DOMAIN O /\ O[PositionIn(O, s)].sheet = s
    BY FirstTab, TabsAreTabs
  <1>2. active' = s /\ input' = O[PositionIn(O, s)].text
    BY DEF Show
  <1>3. input' \in TextsIn(O, s)
    BY <1>1, <1>2 DEF TextsIn
  <1> QED
    BY <1>2, <1>3, OneText

\* What the proofs below need to know about the numbers.
LEMMA Numbers ==
    ASSUME EditorInv
    PROVE  /\ \A s \in Sheet : stored[s].n \in Nat
           /\ \A s \in Sheet : \A t \in TextsIn(open, s) : t \in Text /\ t.n \in Nat
           /\ \A k \in Slot : jobs[k].text.n \in Nat
           /\ input \in Text /\ input.n \in Nat /\ inputs \in Nat
  <1>1. PICK K \in SUBSET Sheet : K = Known
    BY DEF Known
  <1>2. TableOK /\ PageOK(K) /\ HistoryOK
    BY <1>1 DEF EditorInv
  <1>3. \A t \in Text : t.n \in Nat
    BY UserAssumption DEF Text
  <1>4. \A i \in DOMAIN open : open[i].text \in Text
    BY <1>2, TabsAreTabs DEF PageOK, TabsOf, TabType
  <1>5. \A k \in Slot : jobs[k].text \in Text
    BY <1>2 DEF PageOK, JobsOf, JobType
  <1>6. inputs \in Nat
    BY <1>2, UserAssumption DEF HistoryOK
  <1> QED
    BY <1>2, <1>3, <1>4, <1>5, <1>6 DEF TableOK, PageOK, FieldOK, TextsIn

\* No save of s starts, and no tab is announced for it.
NoNewCall(s) ==
    \A k \in Slot : /\ Sends(k, s)' => Sends(k, s) /\ jobs'[k].text = jobs[k].text
                    /\ Creates(k, s)' => Creates(k, s)

\* s is not shown after the step; if it was before, it had been stored.
LEMMA SheetRests ==
    ASSUME EditorInv, EditorInv', NEW s \in Sheet, InOrder(s), NoNewCall(s),
           stored'[s] = stored[s], inputs' >= inputs,
           active' # s, active = s => stored[s].n = input.n,
           OnceIn(open', s), TextsIn(open', s) \subseteq TextsIn(open, s) \cup {stored[s]}
    PROVE  InOrder(s)'
  <1> USE Numbers DEF InOrder
  <1>1. inputs \in Nat /\ inputs' \in Nat
    BY UserAssumption DEF EditorInv, HistoryOK
  <1>2. \A t \in TextsIn(open, s) \cup {stored[s]} : t.n = stored[s].n /\ Genuine(t, s)
    BY DEF ShownSound, HiddenSound, TabSound, StoredSound
  <1>3. \A k \in Slot : Sends(k, s) => jobs[k].text.n = stored[s].n /\ Genuine(jobs[k].text, s)
    BY DEF ShownSound, HiddenSound, SendsSound
  <1>4. StoredSound(s)'
    BY <1>1 DEF StoredSound, Genuine
  <1>5. TabSound(s)'
    BY <1>1, <1>2, <1>4 DEF TabSound, StoredSound, Genuine
  <1>6. SendsSound(s)' /\ HiddenSound(s)'
    BY <1>2, <1>3 DEF SendsSound, HiddenSound, NoNewCall, Genuine
  <1>7. ShownSound(s)' /\ NewSound(s)'
    BY DEF ShownSound, NewSound, NoNewCall
  <1> QED
    BY <1>4, <1>5, <1>6, <1>7

\* s is shown from now on, or again, with everything stored.
LEMMA SheetShows ==
    ASSUME EditorInv, EditorInv', NEW s \in Sheet, InOrder(s), NoNewCall(s),
           stored'[s] = stored[s], inputs' >= inputs,
           active' = s, active = s => stored[s].n = input.n,
           OnceIn(open', s), TextsIn(open', s) = {input'},
           input' \in TextsIn(open, s) \cup {stored[s]}
    PROVE  InOrder(s)'
  <1> USE Numbers DEF InOrder
  <1>1. inputs \in Nat /\ inputs' \in Nat
    BY UserAssumption DEF EditorInv, HistoryOK
  <1>2. input'.n = stored[s].n /\ Genuine(input', s)
    BY DEF ShownSound, HiddenSound, TabSound, StoredSound
  <1>3. \A k \in Slot : Sends(k, s) => jobs[k].text.n = stored[s].n /\ Genuine(jobs[k].text, s)
    BY DEF ShownSound, HiddenSound, SendsSound
  <1>4. StoredSound(s)'
    BY <1>1 DEF StoredSound, Genuine
  <1>5. TabSound(s)'
    BY <1>1, <1>2, <1>4 DEF TabSound, StoredSound, Genuine
  <1>6. SendsSound(s)'
    BY <1>3 DEF SendsSound, NoNewCall, Genuine
  <1>7. ShownSound(s)'
    BY <1>2, <1>3 DEF ShownSound, NoNewCall
  <1>8. HiddenSound(s)' /\ NewSound(s)'
    BY DEF HiddenSound, NewSound, NoNewCall
  <1> QED
    BY <1>4, <1>5, <1>6, <1>7, <1>8

\* s stays shown, and may be saved.
LEMMA SheetStays ==
    ASSUME EditorInv, EditorInv', NEW s \in Sheet, InOrder(s),
           stored'[s] = stored[s], inputs' >= inputs,
           active = s, active' = s, input' = input,
           OnceIn(open', s), TextsIn(open', s) = {input},
           \A k \in Slot :
              /\ Sends(k, s)' => \/ Sends(k, s) /\ jobs'[k].text = jobs[k].text
                                 \/ jobs'[k].text = input
              /\ Leaves(k)' => \/ Leaves(k) /\ jobs'[k] = jobs[k]
                               \/ stored[s].n = input.n
                               \/ Sends(k, s)' /\ jobs'[k].text = input
              /\ Creates(k, s)' => Creates(k, s)
    PROVE  InOrder(s)'
  <1> USE Numbers DEF InOrder
  <1>1. inputs \in Nat /\ inputs' \in Nat
    BY UserAssumption DEF EditorInv, HistoryOK
  <1>2. Genuine(input, s) /\ stored[s].n <= input.n /\ input.n <= inputs
    BY DEF ShownSound, TabSound
  <1>3. StoredSound(s)'
    BY <1>1 DEF StoredSound, Genuine
  <1>4. TabSound(s)'
    BY <1>1, <1>2 DEF TabSound, Genuine
  <1>5. SendsSound(s)'
    BY <1>2 DEF SendsSound, Genuine
  <1>6. \A k \in Slot : Sends(k, s)' => jobs'[k].text.n <= input.n
    BY DEF ShownSound
  <1>7. \A k \in Slot : Leaves(k)' =>
          stored[s].n = input.n \/ (Sends(k, s)' /\ jobs'[k].text = input)
    BY DEF ShownSound, Sends, Asks
  <1>8. ShownSound(s)'
    BY <1>6, <1>7 DEF ShownSound
  <1>9. HiddenSound(s)' /\ NewSound(s)'
    BY DEF HiddenSound, NewSound
  <1> QED
    BY <1>3, <1>4, <1>5, <1>8, <1>9

\* One call changes, and is no save of s then.
LEMMA OtherCall ==
    ASSUME NEW k \in Slot, \A l \in Slot \ {k} : jobs'[l] = jobs[l], NEW s,
           jobs'[k].at = "save" => jobs'[k].saves # s \/ jobs'[k].reply # "none",
           jobs'[k].at = "create" => jobs'[k].reply = "none"
    PROVE  NoNewCall(s)
  BY DEF NoNewCall, Sends, Creates, Asks, Answered

\* A step that does not concern the tabs and the text field, and lets nobody leave.
LEMMA NothingShown ==
    ASSUME EditorInv, EditorInv', NEW s \in Sheet, InOrder(s), NoNewCall(s),
           stored'[s] = stored[s], inputs' >= inputs,
           UNCHANGED <<open, active, input>>,
           active = s => \A k \in Slot : Leaves(k)' => \/ Leaves(k) /\ jobs'[k] = jobs[k]
                                                       \/ stored[s].n = input.n
    PROVE  InOrder(s)'
  <1>1. OnceIn(open', s) /\ TextsIn(open', s) = TextsIn(open, s)
    BY DEF InOrder, TabSound
  <1>2. CASE active = s
    <2>1. TextsIn(open', s) = {input}
      BY <1>1, <1>2 DEF InOrder, ShownSound
    <2> QED
      BY <1>1, <1>2, <2>1, SheetStays DEF NoNewCall
  <1>3. CASE active # s
    BY <1>1, <1>3, SheetRests
  <1> QED
    BY <1>2, <1>3

\* The first half of flushSheetSave, for a handler in slot k and the tabs O.
LEMMA SaveInOrder ==
    ASSUME EditorInv, EditorInv', NEW s \in Sheet, InOrder(s),
           stored'[s] = stored[s], inputs' >= inputs, UNCHANGED <<active, input>>,
           NEW K \in SUBSET Sheet, K = Known, NEW k \in Slot, NEW j \in JobsOf(K),
           NEW O \in Seq(TabsOf(K)), SaveActive(k, j, O),
           j.kind \in {"close", "delete"} => j.index > 0,
           j.kind = "switch" => j.sheet \in K,
           OnceIn(O, s), TextsIn(O, s) \subseteq TextsIn(open, s) \cup {stored[s]},
           active = s => TextsIn(O, s) # {}
    PROVE  InOrder(s)'
  <1>1. PageOK(K) /\ input \in Text
    BY Numbers DEF EditorInv
  <1>2. /\ jobs'[k].at = "save" /\ jobs'[k].saves = active /\ jobs'[k].reply = "none"
        /\ \A l \in Slot \ {k} : jobs'[l] = jobs[l]
    BY <1>1, SaveOK
  <1>3. jobs'[k].text = input
    BY <1>1 DEF SaveActive, Call, PageOK, JobsOf, JobType
  <1>4. open' = Synced(O, input)
    BY DEF SaveActive
  <1>5. /\ OnceIn(open', s)
        /\ s # active => TextsIn(open', s) = TextsIn(O, s)
        /\ s = active => TextsIn(open', s) = {input}
    BY <1>1, <1>4, SyncedTexts
  <1>6. CASE active = s
    <2>1. \A l \in Slot \ {k} : /\ Sends(l, s)' => Sends(l, s)
                                /\ Leaves(l)' => Leaves(l)
                                /\ Creates(l, s)' => Creates(l, s)
      BY <1>2 DEF Sends, Asks, Leaves, Creates, Answered
    <2>2. Sends(k, s)' /\ jobs'[k].text = input /\ ~Creates(k, s)'
      BY <1>2, <1>3, <1>6 DEF Sends, Asks, Creates, Answered
    <2> QED
      BY <1>2, <1>5, <1>6, <2>1, <2>2, SheetStays
  <1>7. CASE active # s
    <2>1. NoNewCall(s)
      BY <1>2, <1>7, OtherCall
    <2> QED
      BY <1>5, <1>7, <2>1, SheetRests
  <1> QED
    BY <1>6, <1>7

\* A sheet that nothing is in doubt about is not shown without its tab.
LEMMA ShownHasTab ==
    ASSUME NEW s \in Sheet, InOrder(s), active = s
    PROVE  s \in Tabs /\ ~NothingToSave
  <1>1. TextsIn(open, s) # {}
    BY DEF InOrder, ShownSound
  <1> QED
    BY <1>1, SomeText DEF Tabs, NothingToSave

LEMMA SwitchInOrder ==
    ASSUME EditorInv, EditorInv', NEW s \in Sheet, InOrder(s),
           stored'[s] = stored[s], inputs' >= inputs, FreeSlots # {},
           NEW K \in SUBSET Sheet, K = Known, NEW x \in K, NEW O \in Seq(TabsOf(K)),
           SwitchToSheet(x, O), x \in TabsIn(O), OnceIn(O, s),
           TextsIn(O, s) \subseteq TextsIn(open, s) \cup {stored[s]},
           active = s => TextsIn(O, s) = TextsIn(open, s)
    PROVE  InOrder(s)'
  <1>1. CASE SaveActive(FreeSlot, Job("switch", x), O) /\ UNCHANGED <<active, input>>
    <2>1. /\ Job("switch", x) \in JobsOf(K)
          /\ Job("switch", x).kind = "switch" /\ Job("switch", x).sheet = x
      BY JobOK DEF Kinds
    <2>2. FreeSlot \in Slot
      BY FreeSlotIsFree
    <2>3. active = s => TextsIn(O, s) # {}
      BY DEF InOrder, ShownSound
    <2> QED
      BY <1>1, <2>1, <2>2, <2>3, SaveInOrder
  <1>2. CASE NothingToSave /\ Show(x, O) /\ open' = O /\ UNCHANGED jobs
    <2>1. active # s
      BY <1>2, ShownHasTab
    <2>2. NoNewCall(s)
      BY <1>2 DEF NoNewCall, Sends, Creates, Asks, Answered
    <2>3. CASE x = s
      <3>1. active' = s /\ input' \in TextsIn(O, s) /\ TextsIn(O, s) = {input'}
        BY <1>2, <2>3, ShownText
      <3> QED
        BY <1>2, <2>1, <2>2, <3>1, SheetShows
    <2>4. CASE x # s
      BY <1>2, <2>1, <2>2, <2>4, SheetRests DEF Show
    <2> QED
      BY <2>3, <2>4
  <1>3. CASE open' = O /\ UNCHANGED <<active, input, timer, jobs>>
    <2>1. NoNewCall(s)
      BY <1>3 DEF NoNewCall, Sends, Creates, Asks, Answered
    <2>2. CASE active = s
      <3>1. TextsIn(open', s) = {input}
        BY <1>3, <2>2 DEF InOrder, ShownSound
      <3>2. \A k \in Slot : Leaves(k)' => Leaves(k) /\ jobs'[k] = jobs[k]
        BY <1>3 DEF Leaves
      <3> QED
        BY <1>3, <2>1, <2>2, <3>1, <3>2, SheetStays DEF NoNewCall
    <2>3. CASE active # s
      BY <1>3, <2>1, <2>3, SheetRests
    <2> QED
      BY <2>2, <2>3
  <1> QED
    BY <1>1, <1>2, <1>3 DEF SwitchToSheet

\* The tab that stands at i goes, on behalf of a handler that closes x.
LEMMA RemoveInOrder ==
    ASSUME EditorInv, EditorInv', NEW s \in Sheet, s \notin doubtful', InOrder(s), NoNewCall(s),
           stored'[s] = stored[s], inputs' >= inputs,
           NEW x, NEW i \in Nat, i > 0, RemoveTab(x, i),
           active = x /\ x = s => stored[s].n = input.n,
           \A k \in Slot : Leaves(k)' => Leaves(k) /\ jobs'[k] = jobs[k]
    PROVE  InOrder(s)'
  <1> DEFINE rest == IF i \in DOMAIN open THEN RemoveAt(open, i) ELSE open
             next == IF rest = <<>> THEN NoSheet
                     ELSE rest[IF i <= Len(rest) THEN i ELSE Len(rest)].sheet
  <1>1. PICK K \in SUBSET Sheet : K = Known
    BY DEF Known
  <1>2. open \in Seq(TabsOf(K)) /\ OnceIn(open, s)
    BY <1>1 DEF EditorInv, PageOK, InOrder, TabSound
  <1>3. /\ rest \in Seq(TabsOf(K)) /\ OnceIn(rest, s)
        /\ TextsIn(rest, s) \subseteq TextsIn(open, s)
    BY <1>2, RemovedOK, RemovedTexts
  <1>4. open' = rest /\ doubtful' = doubtful \cup ((Tabs \ TabsIn(rest)) \ {x})
    BY DEF RemoveTab, Doubt
  <1>5. CASE active # x
    <2>1. UNCHANGED <<active, input>>
      BY <1>5 DEF RemoveTab
    <2> HIDE DEF rest, next
    <2>2. CASE active = s
      <3>1. s \in TabsIn(rest)
        BY <1>4, <1>5, <2>2, ShownHasTab
      <3>2. TextsIn(open, s) = {input}
        BY <2>2 DEF InOrder, ShownSound
      <3>3. TextsIn(rest, s) = {input}
        BY <1>3, <3>1, <3>2, SomeText
      <3> QED
        BY <1>3, <1>4, <2>1, <2>2, <3>3, SheetStays DEF NoNewCall
    <2>3. CASE active # s
      BY <1>3, <1>4, <2>1, <2>3, SheetRests
    <2> QED
      BY <2>2, <2>3
  <1>6. CASE active = x
    <2>1. Show(next, rest)
      BY <1>6 DEF RemoveTab
    <2>2. ASSUME next = s PROVE s \in TabsIn(rest)
      <3> HIDE DEF rest
      <3>1. rest # <<>>
        BY <2>2, EditorAssumption
      <3>2. Len(rest) \in Nat \ {0} /\ DOMAIN rest = 1 .. Len(rest)
        BY <1>3, <3>1, EmptySeq, TabsAreTabs
      <3>3. (IF i <= Len(rest) THEN i ELSE Len(rest)) \in DOMAIN rest
        BY <3>2
      <3> QED
        BY <2>2, <3>1, <3>3 DEF TabsIn
    <2> HIDE DEF rest, next
    <2>3. CASE next = s
      <3>1. active' = s /\ input' \in TextsIn(rest, s) /\ TextsIn(rest, s) = {input'}
        BY <1>3, <2>1, <2>2, <2>3, ShownText
      <3>2. active = s => stored[s].n = input.n
        BY <1>6
      <3> QED
        BY <1>3, <1>4, <3>1, <3>2, SheetShows
    <2>4. CASE next # s
      <3>1. active' # s
        BY <2>1, <2>4 DEF Show
      <3> QED
        BY <1>3, <1>4, <1>6, <3>1, SheetRests
    <2> QED
      BY <2>3, <2>4
  <1> QED
    BY <1>5, <1>6

\* A sheet that a handler is about to leave after its save, or its creation of another
\* one, has been stored.
LEMMA LeftIsStored ==
    ASSUME NEW s \in Sheet, InOrder(s), active = s, NEW k \in Slot,
           Leaves(k), jobs[k].reply = "ok"
    PROVE  stored[s].n = input.n
  BY DEF InOrder, ShownSound, Sends, Asks

\* A handler ends, or calls for something that shows nothing.
LEMMA CallInOrder ==
    ASSUME EditorInv, EditorInv', NEW s \in Sheet, InOrder(s),
           stored'[s] = stored[s], inputs' >= inputs, UNCHANGED <<open, active, input>>,
           NEW k \in Slot, \A l \in Slot \ {k} : jobs'[l] = jobs[l],
           jobs'[k].at \notin {"save", "create"}
    PROVE  InOrder(s)'
  <1>1. NoNewCall(s)
    BY OtherCall
  <1>2. \A l \in Slot : Leaves(l)' => Leaves(l) /\ jobs'[l] = jobs[l]
    BY DEF Leaves
  <1> QED
    BY <1>1, <1>2, NothingShown
-----------------------------------------------------------------------------
(* What keeps the order *)

LEMMA TypeInOrder ==
    ASSUME EditorInv, EditorInv', NEW s \in Sheet, InOrder(s), s \notin doubtful', Type
    PROVE  InOrder(s)'
  <1> DEFINE text == [of |-> active, n |-> inputs + 1]
  <1>1. PICK K \in SUBSET Sheet : K = Known
    BY DEF Known
  <1>2. PageOK(K) /\ HistoryOK /\ inputs \in Nat
    BY <1>1, Numbers DEF EditorInv
  <1>3. inputs' = inputs + 1 /\ inputs' >= inputs /\ inputs + 1 \in 0 .. MaxInputs
    BY <1>2, UserAssumption DEF Type, Input, HistoryOK
  <1>4. text \in Text /\ text.n = inputs + 1
    BY <1>2, <1>3 DEF Text, PageOK, FieldOK
  <1>5. input' = text /\ open' = Synced(open, text) /\ UNCHANGED <<table, active, jobs>>
    BY DEF Type
  <1>6. NoNewCall(s) /\ stored' = stored
    BY <1>5 DEF NoNewCall, Sends, Creates, Asks, Answered, table
  <1> HIDE DEF text
  <1>7. /\ OnceIn(open', s)
        /\ s # active => TextsIn(open', s) = TextsIn(open, s)
        /\ s = active /\ TextsIn(open, s) # {} => TextsIn(open', s) = {text}
    BY <1>2, <1>4, <1>5, SyncedTexts DEF InOrder, TabSound, PageOK
  <1>8. CASE active # s
    BY <1>3, <1>5, <1>6, <1>7, <1>8, SheetRests
  <1>9. CASE active = s
    <2>1. ~Busy
      BY <1>9, EditorAssumption DEF Type, Doubt
    <2>2. \A k \in Slot : ~Leaves(k)'
      BY <1>5, <2>1 DEF Busy, Leaves
    <2>3. TextsIn(open', s) = {text}
      BY <1>7, <1>9 DEF InOrder, ShownSound
    <2>4. input.n <= inputs /\ stored[s].n <= inputs /\ stored[s].n \in Nat /\ input.n \in Nat
      BY <1>9, Numbers DEF InOrder, ShownSound, TabSound, StoredSound
    <2>5. StoredSound(s)'
      BY <1>2, <1>3, <1>6, <2>4 DEF InOrder, StoredSound, Genuine
    <2>6. TabSound(s)'
      BY <1>2, <1>3, <1>4, <1>6, <1>7, <2>3, <2>4 DEF TabSound, Genuine
    <2>7. \A k \in Slot : Sends(k, s)' <=> Sends(k, s)
      BY <1>5 DEF Sends, Asks
    <2>8. SendsSound(s)'
      BY <1>5, <1>6, <2>7 DEF InOrder, SendsSound, Genuine
    <2>9. ShownSound(s)'
      <3>1. \A k \in Slot : Sends(k, s) => jobs[k].text.n <= inputs + 1
        BY <1>2, <1>9, <2>4, Numbers DEF InOrder, ShownSound
      <3> QED
        BY <1>4, <1>5, <2>2, <2>3, <2>7, <3>1 DEF ShownSound
    <2>10. HiddenSound(s)' /\ NewSound(s)'
      BY <1>5, <1>6, <1>9 DEF HiddenSound, NewSound, InOrder, Creates, Answered
    <2> QED
      BY <2>5, <2>6, <2>8, <2>9, <2>10 DEF InOrder
  <1> QED
    BY <1>8, <1>9

LEMMA PersonInOrder ==
    ASSUME EditorInv, EditorInv', NEW s \in Sheet, InOrder(s), s \notin doubtful', Person
    PROVE  InOrder(s)'
  <1>1. PICK K \in SUBSET Sheet : K = Known
    BY DEF Known
  <1>2. PageOK(K) /\ inputs \in Nat /\ open \in Seq(TabsOf(K)) /\ OnceIn(open, s)
    BY <1>1, Numbers DEF EditorInv, PageOK, InOrder, TabSound
  <1>3. ASSUME Click PROVE inputs' >= inputs /\ FreeSlots # {} /\ FreeSlot \in Slot
    BY <1>2, <1>3, FreeSlotIsFree DEF Click, Input
  <1>4. active = s => TextsIn(open, s) # {}
    BY DEF InOrder, ShownSound
  <1>5. CASE Type
    BY <1>5, TypeInOrder
  <1>6. ASSUME NEW x \in Sheet, ClickTab(x) PROVE InOrder(s)'
    <2>1. Click /\ x \in Tabs /\ SwitchToSheet(x, open) /\ stored' = stored
      BY <1>6 DEF ClickTab, table
    <2>2. x \in K /\ x \in TabsIn(open)
      BY <1>2, <2>1, TabsAreTabs DEF Tabs
    <2> QED
      BY <1>1, <1>2, <1>3, <2>1, <2>2, SwitchInOrder
  <1>7. ASSUME NEW x \in Sheet, CloseTab(x) PROVE InOrder(s)'
    <2>1. Click /\ x \in Tabs /\ stored' = stored
      BY <1>7 DEF CloseTab, table
    <2>2. PositionOf(x) \in Nat /\ PositionOf(x) > 0
      BY <1>2, <2>1, FirstTab, TabsAreTabs DEF Tabs, PositionOf
    <2>3. CASE StartClose(FreeSlot, Job("close", x))
      <3>1. Job("close", x) \in JobsOf(K) /\ Job("close", x).kind = "close"
        BY JobOK DEF Kinds
      <3> DEFINE j == [Job("close", x) EXCEPT !.index = PositionOf(x)]
      <3>2. j \in JobsOf(K) /\ j.index > 0 /\ j.kind = "close"
        BY <2>2, <3>1 DEF JobsOf, JobType
      <3>3. SaveActive(FreeSlot, j, open) /\ UNCHANGED <<active, input>>
        BY <2>3 DEF StartClose, Job, NoJob
      <3> HIDE DEF j
      <3> QED
        BY <1>1, <1>2, <1>3, <1>4, <2>1, <3>2, <3>3, SaveInOrder
    <2>4. CASE x # active /\ RemoveTab(x, PositionOf(x)) /\ UNCHANGED <<timer, jobs>>
      <3>1. NoNewCall(s) /\ \A k \in Slot : Leaves(k)' => Leaves(k) /\ jobs'[k] = jobs[k]
        BY <2>4 DEF NoNewCall, Sends, Creates, Asks, Answered, Leaves
      <3> QED
        BY <1>3, <2>1, <2>2, <2>4, <3>1, RemoveInOrder
    <2> QED
      BY <1>7, <2>3, <2>4 DEF CloseTab
  <1>8. ASSUME NEW j \in JobsOf(K), NEW at \in {"rename", "delete"}, Click,
               Call(FreeSlot, j, at), UNCHANGED <<table, page>>
        PROVE  InOrder(s)'
    <2>1. jobs'[FreeSlot].at = at /\ \A l \in Slot \ {FreeSlot} : jobs'[l] = jobs[l]
      BY <1>2, <1>3, <1>8, CallOK
    <2> QED
      BY <1>3, <1>8, <2>1, CallInOrder DEF table, page
  <1>9. ASSUME NEW x \in Sheet, RenameSheet(x) PROVE InOrder(s)'
    BY <1>8, <1>9, JobOK DEF RenameSheet, Kinds
  <1>10. ASSUME NEW e \in listed, DeleteSheet(e) PROVE InOrder(s)'
    <2>1. e.sheet \in Sheet
      BY <1>2 DEF PageOK, TabsOf
    <2> QED
      BY <1>8, <1>10, <2>1, JobOK DEF DeleteSheet, Kinds
  <1>11. ASSUME NEW e \in listed, OpenFromSidebar(e) PROVE InOrder(s)'
    <2> DEFINE new == e.sheet \notin Tabs
               O == IF new THEN Append(open, e) ELSE open
    <2>1. /\ Click /\ SwitchToSheet(e.sheet, O) /\ stored' = stored
          /\ Doubt(IF new /\ e.text # stored[e.sheet] THEN {e.sheet} ELSE {})
      BY <1>11 DEF OpenFromSidebar, table
    <2>2. e \in TabsOf(K) /\ e.sheet \in K
      BY <1>2 DEF PageOK, TabsOf
    <2>3. CASE ~new
      <3>1. e.sheet \in TabsIn(open) /\ O = open
        BY <2>3 DEF Tabs
      <3> QED
        BY <1>1, <1>2, <1>3, <2>1, <2>2, <3>1, SwitchInOrder
    <2>4. CASE new
      <3>1. O = Append(open, e) /\ e.sheet \notin TabsIn(open)
        BY <2>4 DEF Tabs
      <3>2. O \in Seq(TabsOf(K))
        BY <1>2, <2>2, <3>1, AppendProperties
      <3>3. /\ OnceIn(O, s)
            /\ s # e.sheet => TextsIn(O, s) = TextsIn(open, s)
            /\ s = e.sheet => TextsIn(O, s) = TextsIn(open, s) \cup {e.text}
        BY <1>2, <2>2, <3>1, AppendedTexts
      <3>4. s = e.sheet => e.text = stored[s] /\ active # s
        <4>1. s = e.sheet => active # s
          BY <3>1, ShownHasTab DEF Tabs
        <4>2. s = e.sheet => e.text = stored[s]
          BY <2>1, <2>4 DEF Doubt
        <4> QED
          BY <4>1, <4>2
      <3>5. e.sheet \in TabsIn(O)
        <4>1. TextsIn(O, e.sheet) # {}
          <5>1. Len(open) + 1 \in DOMAIN O /\ O[Len(open) + 1] = e
            BY <1>2, <2>2, <3>1, <3>2, AppendProperties, TabsAreTabs
          <5> QED
            BY <5>1 DEF TextsIn
        <4> QED
          BY <4>1, SomeText
      <3>6. SwitchToSheet(e.sheet, O)
        BY <2>1
      <3> HIDE DEF O
      <3> QED
        BY <1>1, <1>3, <2>1, <2>2, <3>2, <3>3, <3>4, <3>5, <3>6, SwitchInOrder
    <2> QED
      BY <2>3, <2>4
  <1>12. CASE NewSheet
    <2>1. Click /\ stored' = stored /\ UNCHANGED <<active, input>>
      BY <1>12 DEF NewSheet, table
    <2>2. Job("new", NoSheet) \in JobsOf(K) /\ Job("new", NoSheet).kind = "new"
      BY JobOK DEF Kinds
    <2>3. CASE SaveActive(FreeSlot, Job("new", NoSheet), open)
      BY <1>1, <1>2, <1>3, <1>4, <2>1, <2>2, <2>3, SaveInOrder
    <2>4. CASE NothingToSave /\ Call(FreeSlot, Job("new", NoSheet), "create") /\ UNCHANGED open
      <3>1. active # s
        BY <2>4, ShownHasTab
      <3>2. /\ jobs'[FreeSlot].at = "create" /\ jobs'[FreeSlot].reply = "none"
            /\ \A l \in Slot \ {FreeSlot} : jobs'[l] = jobs[l]
        BY <1>2, <1>3, <2>1, <2>2, <2>4, CallOK
      <3>3. NoNewCall(s)
        BY <1>3, <2>1, <3>2, OtherCall
      <3> QED
        BY <1>3, <2>1, <2>4, <3>1, <3>3, NothingShown
    <2> QED
      BY <1>12, <2>3, <2>4 DEF NewSheet
  <1>13. CASE Reload
    <2>1. /\ Input /\ stored' = stored /\ open' = <<>> /\ active' = NoSheet
          /\ \A k \in Slot : jobs[k] = NoJob
          /\ Call(FreeSlot, Job("load", NoSheet), "list")
      BY <1>13 DEF Reload, Refresh, table
    <2>2. inputs' >= inputs
      BY <1>2, <2>1 DEF Input
    <2>3. \A k \in Slot : jobs'[k].at \notin {"save", "create"}
      <3>1. NoJob.at = "none"
        BY DEF NoJob
      <3>2. [Job("load", NoSheet) EXCEPT !.at = "list", !.reply = "none"].at = "list"
        BY DEF Job, NoJob
      <3>3. \A k \in Slot : \/ jobs'[k] = jobs[k]
                            \/ jobs'[k] = [Job("load", NoSheet) EXCEPT !.at = "list", !.reply = "none"]
        BY <1>2, <2>1 DEF Call, PageOK
      <3> QED
        BY <2>1, <3>1, <3>2, <3>3
    <2>4. NoNewCall(s)
      BY <2>3 DEF NoNewCall, Sends, Creates, Asks, Answered
    <2>5. active' # s
      BY <2>1, EditorAssumption
    <2>6. OnceIn(open', s) /\ TextsIn(open', s) = {}
      BY <2>1 DEF OnceIn, TextsIn
    <2>7. StoredSound(s)' /\ TabSound(s)' /\ SendsSound(s)' /\ ShownSound(s)' /\ HiddenSound(s)'
          /\ NewSound(s)'
      <3>1. StoredSound(s)'
        BY <1>2, <2>1, <2>2, Numbers, UserAssumption
           DEF InOrder, StoredSound, Genuine, EditorInv, HistoryOK
      <3>2. TabSound(s)'
        BY <2>6 DEF TabSound
      <3>3. \A k \in Slot : ~Sends(k, s)' /\ ~Creates(k, s)'
        BY <2>3 DEF Sends, Creates, Asks, Answered
      <3>4. SendsSound(s)' /\ ShownSound(s)' /\ HiddenSound(s)' /\ NewSound(s)'
        BY <2>5, <2>6, <3>3 DEF SendsSound, ShownSound, HiddenSound, NewSound
      <3> QED
        BY <3>1, <3>2, <3>4
    <2> QED
      BY <2>7 DEF InOrder
  <1> QED
    BY <1>5, <1>6, <1>7, <1>9, <1>10, <1>11, <1>12, <1>13 DEF Person

LEMMA TimerInOrder ==
    ASSUME EditorInv, EditorInv', NEW s \in Sheet, InOrder(s), TimerFires
    PROVE  InOrder(s)'
  <1>1. PICK K \in SUBSET Sheet : K = Known
    BY DEF Known
  <1>2. PageOK(K) /\ inputs \in Nat /\ open \in Seq(TabsOf(K)) /\ OnceIn(open, s)
    BY <1>1, Numbers DEF EditorInv, PageOK, InOrder, TabSound
  <1>3. /\ FreeSlots # {} /\ stored' = stored /\ inputs' = inputs /\ inputs' >= inputs
        /\ UNCHANGED <<active, input>>
    BY <1>2 DEF TimerFires, table, user
  <1>4. CASE SaveActive(FreeSlot, Job("autosave", NoSheet), open)
    <2>1. /\ Job("autosave", NoSheet) \in JobsOf(K)
          /\ Job("autosave", NoSheet).kind = "autosave"
      BY JobOK DEF Kinds
    <2>2. active = s => TextsIn(open, s) # {}
      BY DEF InOrder, ShownSound
    <2> QED
      BY <1>1, <1>2, <1>3, <1>4, <2>1, <2>2, FreeSlotIsFree, SaveInOrder
  <1>5. CASE NothingToSave /\ UNCHANGED <<open, jobs>>
    <2>1. active # s
      BY <1>5, ShownHasTab
    <2>2. NoNewCall(s)
      BY <1>5 DEF NoNewCall, Sends, Creates, Asks, Answered
    <2> QED
      BY <1>3, <1>5, <2>1, <2>2, NothingShown
  <1> QED
    BY <1>4, <1>5 DEF TimerFires

\* A save that is not overtaken brings a text that is at least as new, and no newer
\* than those still to come.
LEMMA UpdateInOrder ==
    ASSUME EditorInv, EditorInv', NEW s \in Sheet, Sure(s), s \notin doubtful', InOrder(s),
           NEW k \in Slot, UpdateSql(k)
    PROVE  InOrder(s)' /\ ~Older(stored'[s], stored[s])
  <1> DEFINE u == jobs[k].saves
             r == IF u \in Live THEN "ok" ELSE "error"
  <1>1. PICK K \in SUBSET Sheet : K = Known
    BY DEF Known
  <1>2. PageOK(K) /\ TableOK
    BY <1>1 DEF EditorInv
  <1>3. /\ Asks(k, "save") /\ UNCHANGED <<row, inputs, open, active, input>>
        /\ stored' = IF u \in Live THEN [stored EXCEPT ![u] = jobs[k].text] ELSE stored
        /\ Reply(k, r) /\ Doubt(IF Overtakes(k) THEN {u} ELSE {})
    BY DEF UpdateSql, page
  <1>4. r \in {"ok", "error"} /\ jobs[k].at # "create"
    BY <1>3 DEF Asks
  <1> HIDE DEF r
  <1>5. /\ jobs'[k] = [jobs[k] EXCEPT !.reply = r]
        /\ \A l \in Slot \ {k} : jobs'[l] = jobs[l]
    BY <1>2, <1>3, <1>4, ReplyOK
  <1>6. /\ jobs'[k].at = "save" /\ jobs'[k].saves = u /\ jobs'[k].reply \in {"ok", "error"}
        /\ jobs'[k].kind = jobs[k].kind
    BY <1>2, <1>3, <1>4, <1>5 DEF PageOK, JobsOf, JobType, Asks
  <1>7. NoNewCall(s)
    BY <1>5, <1>6, OtherCall
  <1>8. inputs' >= inputs /\ inputs \in Nat
    BY <1>3, Numbers
  <1>9. CASE s # u
    <2>1. stored'[s] = stored[s]
      BY <1>2, <1>3, <1>9 DEF TableOK
    <2>2. ASSUME active = s, Leaves(k)' PROVE stored[s].n = input.n
      <3>1. Leaves(k) /\ ~Sends(k, s)
        BY <1>3, <1>6, <1>9, <2>2 DEF Leaves, Sends, Asks
      <3> QED
        BY <2>2, <3>1 DEF InOrder, ShownSound
    <2>3. active = s => \A l \in Slot : Leaves(l)' => \/ Leaves(l) /\ jobs'[l] = jobs[l]
                                                      \/ stored[s].n = input.n
      BY <1>5, <2>2 DEF Leaves
    <2>4. InOrder(s)'
      BY <1>3, <1>7, <1>8, <2>1, <2>3, NothingShown
    <2>5. ~Older(stored'[s], stored[s])
      BY <2>1, Numbers DEF Older
    <2> QED
      BY <2>4, <2>5
  <1>10. CASE s = u
    <2> DEFINE x == jobs[k].text
    <2>1. Sends(k, s)
      BY <1>3, <1>10 DEF Sends
    <2>2. stored'[s] = x
      BY <1>2, <1>3, <1>10 DEF Sure, Live, TableOK
    <2>3. Genuine(x, s) /\ stored[s].n <= x.n /\ x.n \in Nat /\ stored[s].n \in Nat
      BY <2>1, Numbers DEF InOrder, SendsSound
    <2>4. \A l \in Slot : Sends(l, s) => x.n <= jobs[l].text.n
      <3>1. ~Overtakes(k)
        BY <1>3, <1>10 DEF Doubt
      <3> QED
        BY <1>10, <3>1, Numbers DEF Overtakes, Sends
    <2>5. \A l \in Slot : Sends(l, s)' => Sends(l, s) /\ jobs'[l].text = jobs[l].text
      BY <1>7 DEF NoNewCall
    <2>6. TextsIn(open', s) = TextsIn(open, s) /\ OnceIn(open', s)
      BY <1>3 DEF InOrder, TabSound
    <2>7. active = s => x.n <= input.n /\ input.n \in Nat /\ input.n <= inputs
                        /\ TextsIn(open, s) = {input}
      BY <2>1, Numbers DEF InOrder, ShownSound, TabSound
    <2>8. active # s => x.n = stored[s].n
      BY <2>1 DEF InOrder, HiddenSound
    <2> HIDE DEF x
    <2>9. x.n <= inputs
      BY <1>8, <2>3, <2>7, <2>8 DEF InOrder, StoredSound
    <2>10. StoredSound(s)'
      BY <1>3, <2>2, <2>3, <2>9 DEF StoredSound, Genuine
    <2>11. TabSound(s)'
      <3>1. \A t \in TextsIn(open, s) : Genuine(t, s) /\ t.n <= inputs /\ stored[s].n <= t.n
        BY DEF InOrder, TabSound
      <3>2. \A t \in TextsIn(open, s) : x.n <= t.n
        BY <2>7, <2>8, <3>1
      <3> QED
        BY <1>3, <2>2, <2>6, <3>1, <3>2 DEF TabSound, Genuine
    <2>12. SendsSound(s)'
      BY <2>2, <2>4, <2>5 DEF InOrder, SendsSound, Genuine
    <2>13. ShownSound(s)'
      <3> SUFFICES ASSUME active = s PROVE ShownSound(s)'
        BY <1>3 DEF ShownSound
      <3>1. \A l \in Slot : Sends(l, s)' => jobs'[l].text.n <= input.n
        BY <2>5 DEF InOrder, ShownSound
      <3>2. \A l \in Slot \ {k} : Leaves(l)' =>
              x.n = input.n \/ (Sends(l, s)' /\ jobs'[l].text = input)
        <4> SUFFICES ASSUME NEW l \in Slot \ {k}, Leaves(l)', x.n # input.n
                     PROVE  Sends(l, s)' /\ jobs'[l].text = input
          OBVIOUS
        <4>1. Leaves(l)
          BY <1>5 DEF Leaves
        <4>2. stored[s].n # input.n
          BY <2>3, <2>7
        <4>3. Sends(l, s) /\ jobs[l].text = input
          BY <4>1, <4>2 DEF InOrder, ShownSound
        <4> QED
          BY <1>5, <4>3 DEF Sends, Asks
      <3>3. Leaves(k)' => x.n = input.n
        <4> SUFFICES ASSUME Leaves(k)' PROVE x.n = input.n
          OBVIOUS
        <4>1. Leaves(k)
          BY <1>3, <1>6 DEF Leaves, Asks
        <4>2. stored[s].n = input.n \/ jobs[k].text = input
          BY <4>1 DEF InOrder, ShownSound
        <4> QED
          BY <2>3, <2>7, <4>2 DEF x
      <3> QED
        BY <1>3, <2>2, <2>6, <2>7, <3>1, <3>2, <3>3 DEF ShownSound
    <2>14. HiddenSound(s)'
      BY <1>3, <2>2, <2>5, <2>6, <2>8 DEF InOrder, HiddenSound
    <2>15. ASSUME x.n = 0 PROVE x = stored[s]
      BY <2>3, <2>15 DEF InOrder, StoredSound, Genuine
    <2>16. NewSound(s)'
      <3> SUFFICES ASSUME NEW l \in Slot, Creates(l, s)' PROVE stored'[s] = Blank
        BY DEF NewSound
      <3>1. Creates(l, s)
        BY <1>7 DEF NoNewCall
      <3>2. stored[s] = Blank /\ stored[s].n = 0
        BY <3>1 DEF InOrder, NewSound, Blank
      <3>3. active = s => stored[s].n = input.n
        <4>1. jobs[l] \in JobsOf(K)
          BY <1>2 DEF PageOK
        <4>2. Leaves(l) /\ jobs[l].reply = "ok"
          BY <3>1, <4>1 DEF Creates, Answered, Leaves, JobsOf
        <4> QED
          BY <4>2, LeftIsStored
      <3>4. x.n = 0
        BY <2>3, <2>7, <2>8, <3>2, <3>3
      <3> QED
        BY <2>2, <2>15, <3>2, <3>4
    <2>17. ~Older(stored'[s], stored[s])
      <3>1. Blank.n = 0
        BY DEF Blank
      <3> QED
        BY <2>2, <2>3, <2>15, <3>1 DEF Older
    <2> QED
      BY <2>10, <2>11, <2>12, <2>13, <2>14, <2>16, <2>17 DEF InOrder
  <1> QED
    BY <1>9, <1>10

\* A new sheet is blank, and nobody has a text of it.
LEMMA CreateInOrder ==
    ASSUME EditorInv, EditorInv', NEW s \in Sheet, Unborn(s), Sure(s) => InOrder(s), Sure(s)',
           NEW k \in Slot, CreateRow(k)
    PROVE  InOrder(s)'
  <1>1. PICK K \in SUBSET Sheet : K = Known
    BY DEF Known
  <1>2. PageOK(K) /\ TableOK /\ jobs[k] \in JobsOf(K)
    BY <1>1 DEF EditorInv, PageOK
  <1>3. PICK x \in Sheet : /\ row[x] = "unborn" /\ row' = [row EXCEPT ![x] = "live"]
                           /\ jobs' = [jobs EXCEPT ![k].sheet = x, ![k].reply = "ok"]
    BY DEF CreateRow
  <1>4. /\ Asks(k, "create") /\ UNCHANGED stored
        /\ UNCHANGED <<inputs, open, active, input, doubtful>>
    BY DEF CreateRow, ServerOnly, user, page
  <1>5. /\ jobs'[k].at = "create" /\ jobs'[k].sheet = x /\ jobs'[k].reply = "ok"
        /\ \A l \in Slot \ {k} : jobs'[l] = jobs[l]
    BY <1>2, <1>3, <1>4 DEF PageOK, JobsOf, JobType, Asks
  <1>6. inputs' >= inputs /\ inputs \in Nat
    BY <1>4, Numbers
  <1>7. CASE s = x
    <2>1. stored[s] = Blank /\ Start(s) = Blank /\ s \notin K
      BY <1>1, <1>3, <1>7 DEF Unborn, Start, Known
    <2>2. OnceIn(open, s) /\ TextsIn(open, s) = {}
      BY <1>2, <2>1, TabsAreTabs DEF PageOK, TabsIn, OnceIn, TextsIn
    <2>3. active # s
      BY <1>2, <2>1, EditorAssumption DEF PageOK, FieldOK
    <2>4. \A l \in Slot : ~Sends(l, s)'
      BY <1>2, <1>5, <2>1 DEF Sends, Asks, PageOK, JobsOf
    <2>5. StoredSound(s)'
      BY <1>4, <1>6, <2>1 DEF StoredSound, Genuine, Blank
    <2>6. TabSound(s)' /\ SendsSound(s)' /\ ShownSound(s)' /\ HiddenSound(s)' /\ NewSound(s)'
      BY <1>4, <2>1, <2>2, <2>3, <2>4
         DEF TabSound, SendsSound, ShownSound, HiddenSound, NewSound
    <2> QED
      BY <2>5, <2>6 DEF InOrder
  <1>8. CASE s # x
    <2>1. InOrder(s)
      BY <1>2, <1>3, <1>4, <1>8 DEF Sure, TableOK
    <2>2. NoNewCall(s)
      BY <1>5, <1>8 DEF NoNewCall, Sends, Creates, Asks, Answered
    <2>3. ASSUME active = s PROVE stored[s].n = input.n \/ ~Leaves(k)'
      <3>1. Leaves(k) /\ ~Sends(k, s)
        BY <1>2, <1>4 DEF Leaves, Sends, Asks, JobsOf
      <3> QED
        BY <2>1, <2>3, <3>1 DEF InOrder, ShownSound
    <2>4. active = s => \A l \in Slot : Leaves(l)' => \/ Leaves(l) /\ jobs'[l] = jobs[l]
                                                      \/ stored[s].n = input.n
      BY <1>5, <2>3 DEF Leaves
    <2> QED
      BY <1>4, <1>6, <2>1, <2>2, <2>4, NothingShown
  <1> QED
    BY <1>7, <1>8

\* Other answers of the coordinator, and lost ones.
LEMMA AnswerInOrder ==
    ASSUME EditorInv, EditorInv', NEW s \in Sheet, InOrder(s), NEW k \in Slot,
           UpdateName(k) \/ DeleteRow(k) \/ ListRows(k) \/ CallLost(k)
    PROVE  InOrder(s)' /\ stored' = stored
  <1>1. PICK K \in SUBSET Sheet : K = Known
    BY DEF Known
  <1>2. PageOK(K) /\ jobs[k] \in JobsOf(K)
    BY <1>1 DEF EditorInv, PageOK
  <1>3. stored' = stored /\ inputs' = inputs /\ UNCHANGED <<open, active, input>>
    BY DEF UpdateName, DeleteRow, ListRows, CallLost, ServerOnly, table, user, page
  <1>4. inputs' >= inputs
    BY <1>3, Numbers
  <1>5. CASE UpdateName(k) \/ DeleteRow(k) \/ ListRows(k)
    <2>1. jobs[k].at \in {"rename", "delete", "list"}
      BY <1>5 DEF UpdateName, DeleteRow, ListRows, Asks
    <2>2. jobs'[k].at = jobs[k].at /\ \A l \in Slot \ {k} : jobs'[l] = jobs[l]
      <3>1. CASE UpdateName(k) \/ DeleteRow(k)
        BY <1>2, <3>1 DEF UpdateName, DeleteRow, Reply, PageOK, JobsOf, JobType
      <3>2. CASE ListRows(k)
        <4> DEFINE R == {Entry(t, stored[t]) : t \in Live}
        <4>1. jobs' = [jobs EXCEPT ![k].reply = "ok", ![k].rows = R]
          BY <3>2 DEF ListRows
        <4> HIDE DEF R
        <4> QED
          BY <1>2, <4>1 DEF PageOK, JobsOf, JobType
      <3> QED
        BY <1>5, <3>1, <3>2
    <2> QED
      BY <1>3, <1>4, <2>1, <2>2, CallInOrder
  <1>6. CASE CallLost(k)
    <2>1. jobs'[k] = [jobs[k] EXCEPT !.reply = "error"] /\ \A l \in Slot \ {k} : jobs'[l] = jobs[l]
      BY <1>2, <1>6, ReplyOK DEF CallLost
    <2>2. jobs'[k].reply = "error"
      BY <1>2, <2>1 DEF JobsOf, JobType
    <2>3. NoNewCall(s) /\ \A l \in Slot : Leaves(l)' => Leaves(l) /\ jobs'[l] = jobs[l]
      BY <2>1, <2>2 DEF NoNewCall, Sends, Creates, Leaves, Asks, Answered
    <2> QED
      BY <1>3, <1>4, <2>3, NothingShown
  <1> QED
    BY <1>3, <1>5, <1>6

\* closeSheet after its flush, on behalf of a handler that then ends or lists.
LEMMA RemovalInOrder ==
    ASSUME EditorInv, EditorInv', NEW s \in Sheet, InOrder(s), s \notin doubtful', NEW k \in Slot,
           stored'[s] = stored[s], inputs' >= inputs,
           jobs[k].at = "save", jobs[k].reply = "ok", jobs[k].kind \in {"close", "delete"},
           RemoveTab(jobs[k].sheet, jobs[k].index),
           \A l \in Slot \ {k} : jobs'[l] = jobs[l], jobs'[k].at \notin {"save", "create"}
    PROVE  InOrder(s)'
  <1>1. PICK K \in SUBSET Sheet : K = Known
    BY DEF Known
  <1>2. jobs[k] \in JobsOf(K)
    BY <1>1 DEF EditorInv, PageOK
  <1>3. jobs[k].index \in Nat /\ jobs[k].index > 0
    BY <1>2 DEF JobsOf, JobType
  <1>4. active = s => stored[s].n = input.n
    BY LeftIsStored DEF Leaves
  <1>5. NoNewCall(s) /\ \A l \in Slot : Leaves(l)' => Leaves(l) /\ jobs'[l] = jobs[l]
    BY OtherCall DEF Leaves
  <1> QED
    BY <1>3, <1>4, <1>5, RemoveInOrder

LEMMA NewEndsInOrder ==
    ASSUME EditorInv, EditorInv', NEW s \in Sheet, InOrder(s), s \notin doubtful', NEW k \in Slot,
           stored'[s] = stored[s], inputs' >= inputs, NewEnds(k), NoNewCall(s)
    PROVE  InOrder(s)'
  <1> DEFINE x == jobs[k].sheet
             e == Entry(x, Blank)
             O == Append(open, e)
  <1>1. PICK K \in SUBSET Sheet : K = Known
    BY DEF Known
  <1>2. jobs[k] \in JobsOf(K) /\ open \in Seq(TabsOf(K)) /\ OnceIn(open, s)
    BY <1>1 DEF EditorInv, PageOK, InOrder, TabSound
  <1>3. /\ Answered(k, "create") /\ open' = O /\ Show(x, O)
        /\ doubtful' = doubtful \cup ({x} \cap Tabs)
    BY DEF NewEnds, Doubt
  <1>4. x \in K /\ jobs[k].kind = "new"
    BY <1>2, <1>3 DEF Answered, JobsOf
  <1>5. e \in TabsOf(K) /\ e.sheet = x /\ e.text = Blank
    BY <1>4, BlankFits DEF Entry, TabsOf, TabType
  <1>6. active = s => stored[s].n = input.n
    BY <1>3, <1>4, LeftIsStored DEF Leaves, Answered
  <1> HIDE DEF e
  <1>7. O \in Seq(TabsOf(K))
    BY <1>2, <1>5, AppendProperties
  <1>8. CASE x = s
    <2>1. s \notin TabsIn(open)
      BY <1>3, <1>8 DEF Tabs
    <2>2. stored[s] = Blank
      BY <1>3, <1>8 DEF InOrder, NewSound, Creates
    <2>3. OnceIn(O, s) /\ TextsIn(O, s) = {Blank}
      BY <1>2, <1>5, <1>8, <2>1, AppendedTexts, SomeText
    <2>4. s \in TabsIn(O)
      BY <2>3, SomeText
    <2> HIDE DEF O, x
    <2>5. active' = s /\ input' = Blank
      BY <1>3, <1>7, <1>8, <2>3, <2>4, ShownText
    <2> QED
      BY <1>3, <1>6, <2>2, <2>3, <2>5, SheetShows
  <1>9. CASE x # s
    <2>1. OnceIn(O, s) /\ TextsIn(O, s) = TextsIn(open, s)
      BY <1>2, <1>5, <1>9, AppendedTexts
    <2>2. active' # s
      BY <1>3, <1>9 DEF Show
    <2> HIDE DEF O, x
    <2> QED
      BY <1>3, <1>6, <2>1, <2>2, SheetRests
  <1> QED
    BY <1>8, <1>9

LEMMA DeleteInOrder ==
    ASSUME EditorInv, EditorInv', NEW s \in Sheet, InOrder(s), s \notin doubtful', NEW k \in Slot,
           stored'[s] = stored[s], inputs' >= inputs, DeleteGoesOn(k),
           Refresh(k, jobs[k].kind) =>
              jobs'[k].at = "list" /\ \A l \in Slot \ {k} : jobs'[l] = jobs[l]
    PROVE  InOrder(s)'
  <1> DEFINE x == jobs[k].sheet
             p == PositionOf(x)
  <1>1. PICK K \in SUBSET Sheet : K = Known
    BY DEF Known
  <1>2. /\ jobs[k] \in JobsOf(K) /\ open \in Seq(TabsOf(K)) /\ OnceIn(open, s)
        /\ jobs[k].at = "delete"
    BY <1>1 DEF EditorInv, PageOK, InOrder, TabSound, DeleteGoesOn, Answered
  <1>3. ASSUME x \in Tabs PROVE p \in Nat /\ p > 0 /\ x \in K
    BY <1>2, <1>3, FirstTab, TabsAreTabs DEF Tabs, PositionOf
  <1>4. CASE Refresh(k, jobs[k].kind) /\ UNCHANGED <<open, active, input>>
    BY <1>4, CallInOrder
  <1>5. CASE x \in Tabs \ {active} /\ RemoveTab(x, p) /\ Refresh(k, jobs[k].kind)
    <2>1. jobs'[k].at = "list" /\ \A l \in Slot \ {k} : jobs'[l] = jobs[l]
      BY <1>5
    <2>2. NoNewCall(s) /\ \A l \in Slot : Leaves(l)' => Leaves(l) /\ jobs'[l] = jobs[l]
      BY <2>1, OtherCall DEF Leaves
    <2> HIDE DEF p, x
    <2> QED
      BY <1>3, <1>5, <2>2, RemoveInOrder
  <1>6. CASE x \in Tabs /\ StartClose(k, jobs[k])
    <2> DEFINE j == [jobs[k] EXCEPT !.index = p]
    <2>1. SaveActive(k, j, open) /\ UNCHANGED <<active, input>>
      BY <1>6 DEF StartClose
    <2> HIDE DEF p
    <2>2. j \in JobsOf(K) /\ j.index > 0 /\ j.sheet \in K
      BY <1>2, <1>3, <1>6 DEF JobsOf, JobType
    <2> HIDE DEF j
    <2>3. active = s => TextsIn(open, s) # {}
      BY DEF InOrder, ShownSound
    <2> QED
      BY <1>1, <1>2, <2>1, <2>2, <2>3, SaveInOrder
  <1> QED
    BY <1>4, <1>5, <1>6 DEF DeleteGoesOn

LEMMA GoOnInOrder ==
    ASSUME EditorInv, EditorInv', NEW s \in Sheet, InOrder(s), s \notin doubtful', NEW k \in Slot,
           GoOn(k)
    PROVE  InOrder(s)'
  <1>1. PICK K \in SUBSET Sheet : K = Known
    BY DEF Known
  <1>2. PageOK(K) /\ jobs[k] \in JobsOf(K) /\ open \in Seq(TabsOf(K)) /\ OnceIn(open, s)
    BY <1>1 DEF EditorInv, PageOK, InOrder, TabSound
  <1>3. stored' = stored /\ inputs' = inputs /\ inputs' >= inputs
    BY Numbers DEF GoOn, user, table
  <1>4. ASSUME Refresh(k, jobs[k].kind)
        PROVE  jobs'[k].at = "list" /\ \A l \in Slot \ {k} : jobs'[l] = jobs[l]
    <2>1. jobs[k].kind \in Kinds
      BY <1>2 DEF JobsOf, JobType, Kinds
    <2>2. Job(jobs[k].kind, NoSheet) \in JobsOf(K)
      BY <2>1, JobOK
    <2> QED
      BY <1>2, <1>4, <2>2, CallOK DEF Refresh
  <1>5. ASSUME End(k)
        PROVE  jobs'[k].at = "none" /\ \A l \in Slot \ {k} : jobs'[l] = jobs[l]
    BY <1>2, <1>5, EndOK DEF NoJob
  <1>6. ASSUME jobs'[k].at \in {"list", "none"}, \A l \in Slot \ {k} : jobs'[l] = jobs[l]
        PROVE  NoNewCall(s)
    BY <1>6, OtherCall
  <1>7. CASE AutosaveEnds(k) \/ HandlerFails(k) \/ ListEnds(k)
    <2>1. End(k) /\ UNCHANGED <<open, active, input>>
      BY <1>7 DEF AutosaveEnds, HandlerFails, ListEnds, page
    <2> QED
      BY <1>3, <1>5, <2>1, CallInOrder
  <1>8. CASE SwitchEnds(k)
    <2> DEFINE x == jobs[k].sheet
    <2>1. /\ Answered(k, "save") /\ jobs[k].kind = "switch" /\ Show(x, open) /\ End(k)
          /\ doubtful' = doubtful \cup ({x} \ Tabs) /\ open' = open
      BY <1>8 DEF SwitchEnds, Doubt
    <2>2. active = s => stored[s].n = input.n
      BY <2>1, LeftIsStored DEF Leaves, Answered
    <2>3. NoNewCall(s)
      BY <1>5, <1>6, <2>1
    <2> HIDE DEF x
    <2>4. CASE x = s
      <3>1. s \in TabsIn(open)
        BY <2>1, <2>4 DEF Tabs
      <3>2. active' = s /\ input' \in TextsIn(open, s) /\ TextsIn(open, s) = {input'}
        BY <1>2, <2>1, <2>4, <3>1, ShownText
      <3> QED
        BY <1>2, <1>3, <2>1, <2>2, <2>3, <3>2, SheetShows
    <2>5. CASE x # s
      <3>1. active' # s
        BY <2>1, <2>5 DEF Show
      <3> QED
        BY <1>2, <1>3, <2>1, <2>2, <2>3, <3>1, SheetRests
    <2> QED
      BY <2>4, <2>5
  <1>9. CASE CloseEnds(k) \/ DeleteEnds(k)
    <2>1. /\ jobs[k].at = "save" /\ jobs[k].reply = "ok" /\ jobs[k].kind \in {"close", "delete"}
          /\ RemoveTab(jobs[k].sheet, jobs[k].index)
          /\ End(k) \/ Refresh(k, jobs[k].kind)
      BY <1>9 DEF CloseEnds, DeleteEnds, Answered
    <2> QED
      BY <1>3, <1>4, <1>5, <2>1, RemovalInOrder
  <1>10. CASE NewGoesOn(k)
    <2>1. /\ Answered(k, "save") /\ jobs[k].kind = "new" /\ UNCHANGED <<open, active, input>>
          /\ Call(k, Job("new", NoSheet), "create")
      BY <1>10 DEF NewGoesOn, page
    <2>2. Job("new", NoSheet) \in JobsOf(K) /\ Job("new", NoSheet).kind = "new"
      BY JobOK DEF Kinds
    <2>3. /\ jobs'[k].at = "create" /\ jobs'[k].reply = "none"
          /\ \A l \in Slot \ {k} : jobs'[l] = jobs[l]
      BY <1>2, <2>1, <2>2, CallOK
    <2>4. NoNewCall(s)
      BY <2>3, OtherCall
    <2>5. active = s => stored[s].n = input.n
      BY <2>1, LeftIsStored DEF Leaves, Answered
    <2>6. active = s => \A l \in Slot : Leaves(l)' => \/ Leaves(l) /\ jobs'[l] = jobs[l]
                                                      \/ stored[s].n = input.n
      BY <2>5
    <2> QED
      BY <1>3, <2>1, <2>4, <2>6, NothingShown
  <1>11. CASE NewEnds(k)
    <2>1. Refresh(k, jobs[k].kind)
      BY <1>11 DEF NewEnds
    <2> QED
      BY <1>3, <1>4, <1>6, <1>11, <2>1, NewEndsInOrder
  <1>12. CASE RenameEnds(k)
    <2>1. Refresh(k, jobs[k].kind) /\ UNCHANGED <<open, active, input>>
      BY <1>12 DEF RenameEnds
    <2> QED
      BY <1>3, <1>4, <2>1, CallInOrder
  <1>13. CASE DeleteGoesOn(k)
    BY <1>3, <1>4, <1>13, DeleteInOrder
  <1> QED
    BY <1>7, <1>8, <1>9, <1>10, <1>11, <1>12, <1>13 DEF GoOn
-----------------------------------------------------------------------------
(* The invariant of the order *)

LEMMA OrderInit == EditorInit => OrderInv
  <1> SUFFICES ASSUME EditorInit, NEW s \in Sheet PROVE Unborn(s) /\ (Sure(s) => InOrder(s))
    BY DEF OrderInv
  <1>1. PICK O \in SetToAllKPermutations(Saved) :
          /\ open = [i \in DOMAIN O |-> Entry(O[i], stored[O[i]])]
          /\ active = IF O = <<>> THEN NoSheet ELSE Last(O)
    BY DEF EditorInit
  <1>2. /\ inputs = 0 /\ stored[s] = Start(s) /\ Start(s).n = 0
        /\ row[s] = IF s \in Saved THEN "live" ELSE "unborn"
        /\ input = IF active = NoSheet THEN Blank ELSE stored[active]
        /\ \A k \in Slot : jobs[k] = NoJob
    BY DEF EditorInit, UserInit, Start, Blank
  <1>3. PICK S \in SUBSET Saved : O \in SetToSeqs(S)
    BY <1>1 DEF SetToAllKPermutations
  <1>4. Cardinality(S) \in Nat
    <2>1. S \in SUBSET Sheet /\ IsFiniteSet(Sheet)
      BY EditorAssumption
    <2> QED
      BY <2>1, FS_Subset, FS_CardinalityType
  <1>5. /\ O \in [1 .. Cardinality(S) -> S]
        /\ \A i, j \in DOMAIN O : O[i] = O[j] => i = j
    BY <1>3 DEF SetToSeqs
  <1>6. /\ DOMAIN open = DOMAIN O
        /\ \A i \in DOMAIN O : open[i].sheet = O[i] /\ open[i].text = stored[O[i]]
    BY <1>1 DEF Entry
  <1>7. OnceIn(open, s) /\ \A t \in TextsIn(open, s) : t = stored[s]
    BY <1>5, <1>6 DEF OnceIn, TextsIn
  <1>8. ASSUME active = s PROVE TextsIn(open, s) = {input}
    <2>1. O # <<>> /\ s = O[Len(O)]
      BY <1>1, <1>8, EditorAssumption DEF Last
    <2>2. O \in Seq(S)
      BY <1>4, <1>5, SeqDef
    <2>3. Len(O) \in DOMAIN O
      BY <2>1, <2>2, EmptySeq, LenProperties
    <2>4. stored[s] \in TextsIn(open, s)
      BY <1>6, <2>1, <2>3 DEF TextsIn
    <2>5. input = stored[s]
      BY <1>2, <1>8, EditorAssumption
    <2> QED
      BY <1>7, <2>4, <2>5
  <1>9. \A k \in Slot : ~Sends(k, s) /\ ~Leaves(k) /\ ~Creates(k, s)
    BY <1>2 DEF NoJob, Sends, Leaves, Creates, Asks, Answered
  <1>10. StoredSound(s) /\ TabSound(s)
    BY <1>2, <1>7 DEF StoredSound, TabSound, Genuine
  <1>11. SendsSound(s) /\ ShownSound(s) /\ HiddenSound(s) /\ NewSound(s)
    BY <1>7, <1>8, <1>9 DEF SendsSound, ShownSound, HiddenSound, NewSound
  <1>12. Unborn(s)
    BY <1>2 DEF Unborn, Start
  <1> QED
    BY <1>10, <1>11, <1>12 DEF InOrder

\* A doubt stays.
LEMMA DoubtsStay ==
    ASSUME EditorNext, NEW s \in Sheet
    PROVE  doubtful \subseteq doubtful'
  <1>1. CASE Person
    BY <1>1 DEF Person, Type, ClickTab, CloseTab, RenameSheet, OpenFromSidebar, DeleteSheet,
                NewSheet, Reload, StartClose, RemoveTab, Doubt
  <1>2. CASE TimerFires
    BY <1>2 DEF TimerFires
  <1>3. ASSUME NEW k \in Slot, Serve(k) \/ CallLost(k) PROVE doubtful \subseteq doubtful'
    BY <1>3 DEF Serve, UpdateSql, UpdateName, CreateRow, DeleteRow, ListRows, CallLost,
                ServerOnly, Doubt
  <1>4. ASSUME NEW k \in Slot, GoOn(k) PROVE doubtful \subseteq doubtful'
    BY <1>4 DEF GoOn, AutosaveEnds, SwitchEnds, CloseEnds, NewGoesOn, NewEnds, RenameEnds,
                DeleteGoesOn, DeleteEnds, ListEnds, HandlerFails, StartClose, RemoveTab, Doubt
  <1> QED
    BY <1>1, <1>2, <1>3, <1>4 DEF EditorNext

\* What a step does to the row of s and to the text that is stored for it.
StepInOrder(s) ==
    /\ Unborn(s)'
    /\ Sure(s)' => InOrder(s)'
    /\ Older(stored'[s], stored[s]) => s \in doubtful'

LEMMA SheetInOrder ==
    ASSUME EditorInv, EditorInv', EditorNext, NEW s \in Sheet, Unborn(s), Sure(s) => InOrder(s)
    PROVE  StepInOrder(s)
  <1>1. TableOK /\ stored[s].n \in Nat /\ doubtful \subseteq doubtful'
    BY Numbers, DoubtsStay DEF EditorInv
  <1>2. ASSUME stored' = stored, row' = row, Sure(s)' => InOrder(s)'
        PROVE  StepInOrder(s)
    <2>1. ~Older(stored'[s], stored[s])
      BY <1>1, <1>2 DEF Older
    <2> QED
      BY <1>2, <2>1 DEF StepInOrder, Unborn
  <1>3. row' = row /\ Sure(s)' => InOrder(s) /\ s \notin doubtful'
    BY <1>1 DEF Sure
  <1>4. CASE Person
    <2>1. stored' = stored /\ row' = row
      BY <1>4 DEF Person, Type, ClickTab, CloseTab, RenameSheet, OpenFromSidebar, DeleteSheet,
                  NewSheet, Reload, table
    <2> QED
      BY <1>2, <1>3, <1>4, <2>1, PersonInOrder
  <1>5. CASE TimerFires
    <2>1. stored' = stored /\ row' = row
      BY <1>5 DEF TimerFires, table
    <2> QED
      BY <1>2, <1>3, <1>5, <2>1, TimerInOrder
  <1>6. ASSUME NEW k \in Slot, UpdateSql(k) PROVE StepInOrder(s)
    <2>1. /\ row' = row
          /\ stored'[s] # stored[s] => row[s] = "live"
      BY <1>1, <1>6 DEF UpdateSql, TableOK, Live
    <2>2. Unborn(s)'
      BY <2>1 DEF Unborn
    <2>3. CASE Sure(s) /\ s \notin doubtful'
      <3>1. InOrder(s)' /\ ~Older(stored'[s], stored[s])
        BY <1>6, <2>3, UpdateInOrder
      <3> QED
        BY <2>2, <3>1 DEF StepInOrder
    <2>4. CASE s \in doubtful'
      BY <2>2, <2>4 DEF StepInOrder, Sure
    <2>5. CASE row[s] # "live"
      <3>1. ~Older(stored'[s], stored[s])
        BY <1>1, <2>1, <2>5 DEF Older
      <3> QED
        BY <2>1, <2>2, <2>5, <3>1 DEF StepInOrder, Sure
    <2> QED
      BY <1>1, <2>3, <2>4, <2>5 DEF Sure
  <1>7. ASSUME NEW k \in Slot, CreateRow(k) PROVE StepInOrder(s)
    <2>1. stored' = stored /\ Unborn(s)'
      BY <1>1, <1>7 DEF CreateRow, Unborn, TableOK
    <2>2. Sure(s)' => InOrder(s)'
      BY <1>7, CreateInOrder
    <2>3. ~Older(stored'[s], stored[s])
      BY <1>1, <2>1 DEF Older
    <2> QED
      BY <2>1, <2>2, <2>3 DEF StepInOrder
  <1>8. ASSUME NEW k \in Slot, DeleteRow(k) PROVE StepInOrder(s)
    <2>1. /\ stored' = stored /\ doubtful' = doubtful
          /\ row'[s] = row[s] \/ row'[s] = "deleted"
      BY <1>1, <1>8 DEF DeleteRow, ServerOnly, TableOK
    <2>2. Unborn(s)'
      BY <2>1 DEF Unborn
    <2>3. Sure(s)' => InOrder(s)'
      BY <1>8, <2>1, AnswerInOrder DEF Sure
    <2>4. ~Older(stored'[s], stored[s])
      BY <1>1, <2>1 DEF Older
    <2> QED
      BY <2>2, <2>3, <2>4 DEF StepInOrder
  <1>9. ASSUME NEW k \in Slot, UpdateName(k) \/ ListRows(k) \/ CallLost(k) PROVE StepInOrder(s)
    <2>1. stored' = stored /\ row' = row
      BY <1>9 DEF UpdateName, ListRows, CallLost, table
    <2> QED
      BY <1>2, <1>3, <1>9, <2>1, AnswerInOrder
  <1>10. ASSUME NEW k \in Slot, GoOn(k) PROVE StepInOrder(s)
    <2>1. stored' = stored /\ row' = row
      BY <1>10 DEF GoOn, table
    <2> QED
      BY <1>2, <1>3, <1>10, <2>1, GoOnInOrder
  <1> QED
    BY <1>4, <1>5, <1>6, <1>7, <1>8, <1>9, <1>10 DEF EditorNext, Serve

LEMMA OrderNext ==
    ASSUME EditorInv, EditorInv', OrderInv, [EditorNext]_editorVars
    PROVE  /\ OrderInv'
           /\ [\A s \in Sheet : Older(stored'[s], stored[s]) => s \in doubtful']_editorVars
  <1>1. CASE EditorNext
    <2>1. \A s \in Sheet : StepInOrder(s)
      BY <1>1, SheetInOrder DEF OrderInv
    <2> QED
      BY <2>1 DEF OrderInv, StepInOrder
  <1>2. CASE UNCHANGED editorVars
    <2>1. OrderInv'
      BY <1>2 DEF editorVars, user, table, page, OrderInv, Unborn, Sure, InOrder, StoredSound,
                  TabSound, SendsSound, ShownSound, HiddenSound, NewSound, Sends, Leaves,
                  Creates, Asks, Answered
    <2> QED
      BY <1>2, <2>1
  <1> QED
    BY <1>1, <1>2

\* However saves, switches, closes, new sheets and answers meet, no save replaces a
\* newer text by an older one, or by none, unless one of the things called doubtful
\* has happened to the sheet.
THEOREM OlderOnlyWhenDoubtful == EditorSpec => OlderReplacesDoubtful
  <1>1. EditorInit => EditorInv /\ OrderInv
    BY EditorInitInv, OrderInit
  <1>2. EditorInv /\ OrderInv /\ [EditorNext]_editorVars => EditorInv' /\ OrderInv'
    BY EditorNextInv, OrderNext
  <1>3. EditorInv /\ EditorInv' /\ OrderInv /\ [EditorNext]_editorVars
        => [\A s \in Sheet : Older(stored'[s], stored[s]) => s \in doubtful']_editorVars
    BY OrderNext
  <1> QED
    BY <1>1, <1>2, <1>3, PTL DEF EditorSpec, OlderReplacesDoubtful
=============================================================================
