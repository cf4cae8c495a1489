------------------------------- MODULE Editor -------------------------------
(***************************************************************************)
(* The SQL editor of static/index.html with its sheets, and the sheets      *)
(* table behind routes.py and db/sheets.py.                                 *)
(*                                                                         *)
(* The page keeps the sheets it has open (openSheets), the one it shows     *)
(* (activeSheetId), the text field, one timer for all sheets, and in the    *)
(* sidebar the sheets as they were when the list was last asked for. A      *)
(* handler that calls the coordinator becomes a job, which continues when   *)
(* its answer arrives.                                                      *)
(*                                                                         *)
(* A text is the sheet it was typed into and the number of the keystroke:   *)
(* 0 for the text a sheet had before. Names are left out.                   *)
(***************************************************************************)
EXTENDS PageUser, Sequences, SequencesExt, FiniteSets

CONSTANTS
    Sheet,      \* sheets there may ever be
    Saved,      \* the sheets that exist when the page is loaded
    MaxJobs,    \* bound on the calls under way at a time
    NoSheet     \* null

ASSUME EditorAssumption ==
    /\ Saved \subseteq Sheet
    /\ IsFiniteSet(Sheet)
    /\ MaxJobs \in Nat
    /\ NoSheet \notin Sheet

VARIABLES
    row,        \* row[s]: whether the sheets table has a row for s
    stored,     \* stored[s]: the column sql of that row
    listed,     \* the sidebar: sheets with the text they were listed with
    open,       \* the tabs in order, each with the sheet and the text it has
    active,     \* the sheet the text field belongs to
    input,      \* the text field
    timer,      \* whether sheetSaveTimer is set
    jobs,       \* jobs[k]: the k-th handler that waits for an answer
    last,       \* last[s]: the last text typed into s
    doubtful    \* sheets for which one of the things described below happened

table == <<row, stored>>
page == <<listed, open, active, input, timer>>
editorVars == <<user, table, page, jobs, last, doubtful>>

Text == [of : Sheet \cup {NoSheet}, n : 0 .. MaxInputs]
Blank == [of |-> NoSheet, n |-> 0]

Slot == 1 .. MaxJobs
NoJob == [kind |-> "none", sheet |-> NoSheet, index |-> 0, at |-> "none",
          saves |-> NoSheet, text |-> Blank, rows |-> {}, reply |-> "none"]

\* A handler of the given kind that is about sheet s, before its first call.
Job(kind, s) == [NoJob EXCEPT !.kind = kind, !.sheet = s]

Entry(s, text) == [sheet |-> s, text |-> text]

\* The page has been loaded and has listed the sheets, and some were opened
\* since, the last of them the active one.
EditorInit ==
    /\ UserInit
    /\ row = [s \in Sheet |-> IF s \in Saved THEN "live" ELSE "unborn"]
    /\ stored = [s \in Sheet |-> IF s \in Saved THEN [of |-> s, n |-> 0] ELSE Blank]
    /\ listed = {Entry(s, stored[s]) : s \in Saved}
    /\ \E O \in SetToAllKPermutations(Saved) :
         /\ open = [i \in DOMAIN O |-> Entry(O[i], stored[O[i]])]
         /\ active = IF O = <<>> THEN NoSheet ELSE Last(O)
    /\ input = IF active = NoSheet THEN Blank ELSE stored[active]
    /\ timer = FALSE
    /\ jobs = [k \in Slot |-> NoJob]
    /\ last = [s \in Sheet |-> 0]
    /\ doubtful = {}

TabsIn(O) == {O[i].sheet : i \in DOMAIN O}
Tabs == TabsIn(open)

\* openSheets.findIndex: the first tab of s.
PositionIn(O, s) ==
    CHOOSE i \in DOMAIN O : O[i].sheet = s /\ \A j \in 1 .. i - 1 : O[j].sheet # s

Live == {s \in Sheet : row[s] = "live"}

FreeSlots == {k \in Slot : jobs[k] = NoJob}
FreeSlot == CHOOSE k \in FreeSlots : TRUE

\* The handler job, in slot k, makes its next call.
Call(k, job, at) == jobs' = [jobs EXCEPT ![k] = [job EXCEPT !.at = at, !.reply = "none"]]
End(k) == jobs' = [jobs EXCEPT ![k] = NoJob]

\* A click of the person still waits, apart from the list that ends it.
Busy == \E k \in Slot : jobs[k].kind \notin {"none", "autosave"} /\ jobs[k].at # "list"

Click == Input /\ SlipIf(Busy) /\ FreeSlots # {}

\* A sheet is doubtful once one of these things has happened to it: its tab was
\* opened from an entry of the sidebar older than its text, or opened twice, or
\* shown after it was closed, or closed in place of another; it was typed into while a click
\* was waiting; a save of it failed or was overtaken by an older one; or the
\* page was reloaded before the timer.
Doubt(S) == doubtful' = doubtful \cup S

Unsaved(s) == row[s] = "live" /\ stored[s].n < last[s]
-----------------------------------------------------------------------------
(* Typing, showing and saving *)

\* Mutant of Synced: what is typed is not copied to the tab.
SyncedNever(O, text) == O

\* syncActiveOpenSheet, for the tabs O and the text field.
Synced(O, text) ==
    IF active \in TabsIn(O) THEN [O EXCEPT ![PositionIn(O, active)].text = text] ELSE O

\* The input handler: syncActiveOpenSheet and scheduleSheetSave.
Type ==
    LET text == [of |-> active, n |-> inputs + 1]
    IN  /\ Input /\ SlipIf(Busy)
        /\ input' = text
        /\ open' = Synced(open, text)
        /\ timer' = (active # NoSheet)
        /\ last' = [s \in Sheet |-> IF s = active THEN inputs + 1 ELSE last[s]]
        /\ Doubt(IF Busy THEN {active} \ {NoSheet} ELSE {})
        /\ UNCHANGED <<table, listed, active, jobs>>

\* The first half of flushSheetSave for the active sheet, on behalf of job, when
\* the tabs are O: it sends the text field as it is now.
SaveActive(k, job, O) ==
    /\ active \in Tabs
    /\ open' = Synced(O, input)
    /\ timer' = FALSE
    /\ Call(k, [job EXCEPT !.saves = active, !.text = input], "save")

\* There is nothing to save: no sheet is shown, or its tab is gone.
NothingToSave == active \notin Tabs /\ timer' = FALSE

\* autoSaveCurrentSheet
TimerFires ==
    /\ timer /\ FreeSlots # {}
    /\ \/ SaveActive(FreeSlot, Job("autosave", NoSheet), open)
       \/ NothingToSave /\ UNCHANGED <<open, jobs>>
    /\ UNCHANGED <<user, table, listed, active, input, last, doubtful>>

\* Mutant of Show: the text field keeps its text.
ShowEarly(s, O) == active' = s /\ UNCHANGED input

\* The second half of switchToSheet, when the tabs are O.
Show(s, O) ==
    /\ active' = s
    /\ input' = IF s \in TabsIn(O) THEN O[PositionIn(O, s)].text ELSE Blank

\* switchToSheet, when the tabs are O. A sheet that is active already is left
\* as it is, even if its tab is new.
SwitchToSheet(s, O) ==
    \/ active # s /\ SaveActive(FreeSlot, Job("switch", s), O) /\ UNCHANGED <<active, input>>
    \/ active # s /\ NothingToSave /\ Show(s, O) /\ open' = O /\ UNCHANGED jobs
    \/ active = s /\ open' = O /\ UNCHANGED <<active, input, timer, jobs>>

ClickTab(s) ==
    /\ s \in Tabs \ {active}
    /\ Click
    /\ SwitchToSheet(s, open)
    /\ UNCHANGED <<table, listed, last, doubtful>>

\* openSheetFromSidebar: a new tab starts with the text the entry was listed with.
OpenFromSidebar(e) ==
    LET new == e.sheet \notin Tabs
    IN  /\ e.sheet # active \/ new
        /\ Click
        /\ SwitchToSheet(e.sheet, IF new THEN Append(open, e) ELSE open)
        /\ Doubt(IF new /\ e.text # stored[e.sheet] THEN {e.sheet} ELSE {})
        /\ UNCHANGED <<table, listed, last>>
-----------------------------------------------------------------------------
(* Closing, creating, renaming and deleting *)

PositionOf(s) == PositionIn(open, s)

\* closeSheet after its flush: the tab at position i goes, by a splice that
\* removes nothing beyond the end; if s is still active, the tab that took its
\* place is shown.
RemoveTab(s, i) ==
    LET rest == IF i \in DOMAIN open THEN RemoveAt(open, i) ELSE open
        next == IF rest = <<>> THEN NoSheet
                ELSE rest[IF i <= Len(rest) THEN i ELSE Len(rest)].sheet
    IN  /\ open' = rest
        /\ IF active = s THEN Show(next, rest) ELSE UNCHANGED <<active, input>>
        /\ Doubt((Tabs \ TabsIn(rest)) \ {s})

\* The other half: the position is taken before the flush of an active sheet.
StartClose(k, job) ==
    /\ SaveActive(k, [job EXCEPT !.index = PositionOf(job.sheet)], open)
    /\ UNCHANGED <<active, input, doubtful>>

\* Mutant of CloseTab: the tab goes without a flush.
CloseTabUnsaved(s) ==
    /\ s \in Tabs
    /\ Click
    /\ RemoveTab(s, PositionOf(s))
    /\ UNCHANGED <<table, listed, timer, jobs, last>>

CloseTab(s) ==
    /\ s \in Tabs
    /\ Click
    /\ \/ s = active /\ StartClose(FreeSlot, Job("close", s))
       \/ s # active /\ RemoveTab(s, PositionOf(s)) /\ UNCHANGED <<timer, jobs>>
    /\ UNCHANGED <<table, listed, last>>

\* createNewSheet; its list of the sheets only serves to make up a name.
NewSheet ==
    /\ \E s \in Sheet : row[s] = "unborn"
    /\ Click
    /\ \/ SaveActive(FreeSlot, Job("new", NoSheet), open)
       \/ NothingToSave /\ Call(FreeSlot, Job("new", NoSheet), "create") /\ UNCHANGED open
    /\ UNCHANGED <<table, listed, active, input, last, doubtful>>

RenameSheet(s) ==
    /\ s \in Tabs \cup {e.sheet : e \in listed}
    /\ Click
    /\ Call(FreeSlot, Job("rename", s), "rename")
    /\ UNCHANGED <<table, page, last, doubtful>>

DeleteSheet(e) ==
    /\ Click
    /\ Call(FreeSlot, Job("delete", e.sheet), "delete")
    /\ UNCHANGED <<table, page, last, doubtful>>

\* refreshSheets clears the sidebar and asks for the list.
Refresh(k, kind) == listed' = {} /\ Call(k, Job(kind, NoSheet), "list")

\* The page is loaded again; a reload while a call is under way is left out.
Reload ==
    /\ \A k \in Slot : jobs[k] = NoJob
    /\ Input /\ SlipIf(timer)
    /\ open' = <<>>
    /\ active' = NoSheet
    /\ input' = Blank
    /\ timer' = FALSE
    /\ Refresh(FreeSlot, "load")
    /\ Doubt(IF timer THEN {s \in Sheet : Unsaved(s)} ELSE {})
    /\ UNCHANGED <<table, last>>
-----------------------------------------------------------------------------
(* The coordinator *)

Reply(k, r) == jobs' = [jobs EXCEPT ![k].reply = r]

Asks(k, at) == jobs[k].at = at /\ jobs[k].reply = "none"

\* Saves of one sheet take parallel connections and may overtake each other.
Overtakes(k) ==
    \E l \in Slot : /\ Asks(l, "save") /\ jobs[l].saves = jobs[k].saves
                    /\ jobs[l].text.n < jobs[k].text.n

\* Mutant of UpdateSql: a sheet without a row is no error.
UpdateSqlAnyway(k) ==
    LET s == jobs[k].saves
    IN  /\ Asks(k, "save") /\ SlipIf(Overtakes(k))
        /\ stored' = IF s \in Live THEN [stored EXCEPT ![s] = jobs[k].text] ELSE stored
        /\ Reply(k, "ok")
        /\ Doubt(IF Overtakes(k) THEN {s} ELSE {})
        /\ UNCHANGED <<row, inputs, page, last>>

\* PATCH /sheets/{id} with sql: 404 without a row.
UpdateSql(k) ==
    LET s == jobs[k].saves
    IN  /\ Asks(k, "save") /\ SlipIf(Overtakes(k))
        /\ stored' = IF s \in Live THEN [stored EXCEPT ![s] = jobs[k].text] ELSE stored
        /\ Reply(k, IF s \in Live THEN "ok" ELSE "error")
        /\ Doubt(IF Overtakes(k) THEN {s} ELSE {})
        /\ UNCHANGED <<row, inputs, page, last>>

ServerOnly == UNCHANGED <<user, page, last, doubtful>>

\* PATCH /sheets/{id} with name.
UpdateName(k) ==
    /\ Asks(k, "rename")
    /\ Reply(k, IF jobs[k].sheet \in Live THEN "ok" ELSE "error")
    /\ UNCHANGED table /\ ServerOnly

\* Mutant of CreateRow: the new row is not kept.
CreateRowLost(k) ==
    /\ Asks(k, "create")
    /\ \E s \in Sheet :
         /\ row[s] = "unborn"
         /\ jobs' = [jobs EXCEPT ![k].sheet = s, ![k].reply = "ok"]
    /\ UNCHANGED table /\ ServerOnly

\* POST /sheets
CreateRow(k) ==
    /\ Asks(k, "create")
    /\ \E s \in Sheet :
         /\ row[s] = "unborn"
         /\ row' = [row EXCEPT ![s] = "live"]
         /\ jobs' = [jobs EXCEPT ![k].sheet = s, ![k].reply = "ok"]
    /\ UNCHANGED stored /\ ServerOnly

\* DELETE /sheets/{id}: 404 without a row.
DeleteRow(k) ==
    LET s == jobs[k].sheet
    IN  /\ Asks(k, "delete")
        /\ row' = [row EXCEPT ![s] = "deleted"]
        /\ Reply(k, IF s \in Live THEN "ok" ELSE "error")
        /\ UNCHANGED stored /\ ServerOnly

\* GET /sheets
ListRows(k) ==
    /\ Asks(k, "list")
    /\ jobs' = [jobs EXCEPT ![k].reply = "ok",
                            ![k].rows = {Entry(s, stored[s]) : s \in Live}]
    /\ UNCHANGED table /\ ServerOnly

\* A call or its answer is lost.
CallLost(k) ==
    /\ jobs[k] # NoJob /\ jobs[k].reply # "error"
    /\ SlipIf(TRUE)
    /\ Reply(k, "error")
    /\ Doubt(IF Asks(k, "save") THEN {jobs[k].saves} ELSE {})
    /\ UNCHANGED <<inputs, table, page, last>>
-----------------------------------------------------------------------------
(* Handlers that go on with an answer *)

Answered(k, at) == jobs[k].at = at /\ jobs[k].reply = "ok"

AutosaveEnds(k) ==
    /\ Answered(k, "save") /\ jobs[k].kind = "autosave"
    /\ End(k)
    /\ UNCHANGED <<page, doubtful>>

SwitchEnds(k) ==
    /\ Answered(k, "save") /\ jobs[k].kind = "switch"
    /\ Show(jobs[k].sheet, open)
    /\ End(k)
    /\ Doubt({jobs[k].sheet} \ Tabs)
    /\ UNCHANGED <<listed, open, timer>>

CloseEnds(k) ==
    /\ Answered(k, "save") /\ jobs[k].kind = "close"
    /\ RemoveTab(jobs[k].sheet, jobs[k].index)
    /\ End(k)
    /\ UNCHANGED <<listed, timer>>

NewGoesOn(k) ==
    /\ Answered(k, "save") /\ jobs[k].kind = "new"
    /\ Call(k, Job("new", NoSheet), "create")
    /\ UNCHANGED <<page, doubtful>>

\* The new sheet is shown without a flush of the one that is shown.
NewEnds(k) ==
    LET s == jobs[k].sheet
    IN  /\ Answered(k, "create")
        /\ open' = Append(open, Entry(s, Blank))
        /\ Show(s, open')
        /\ Refresh(k, jobs[k].kind)
        /\ Doubt({s} \cap Tabs)
        /\ UNCHANGED timer

RenameEnds(k) ==
    /\ Answered(k, "rename")
    /\ Refresh(k, jobs[k].kind)
    /\ UNCHANGED <<open, active, input, timer, doubtful>>

\* closeSheet follows the deletion, and flushes the deleted sheet if it is active.
DeleteGoesOn(k) ==
    LET s == jobs[k].sheet
    IN  /\ Answered(k, "delete")
        /\ \/ /\ s \notin Tabs /\ Refresh(k, jobs[k].kind)
              /\ UNCHANGED <<open, active, input, timer, doubtful>>
           \/ /\ s \in Tabs \ {active} /\ RemoveTab(s, PositionOf(s)) /\ Refresh(k, jobs[k].kind)
              /\ UNCHANGED timer
           \/ s \in Tabs /\ s = active /\ StartClose(k, jobs[k]) /\ UNCHANGED listed

DeleteEnds(k) ==
    /\ Answered(k, "save") /\ jobs[k].kind = "delete"
    /\ RemoveTab(jobs[k].sheet, jobs[k].index)
    /\ Refresh(k, jobs[k].kind)
    /\ UNCHANGED timer

ListEnds(k) ==
    /\ Answered(k, "list")
    /\ listed' = listed \cup jobs[k].rows
    /\ End(k)
    /\ UNCHANGED <<open, active, input, timer, doubtful>>

\* The error is shown, and nothing else that the handler had in mind happens.
HandlerFails(k) ==
    /\ jobs[k].reply = "error"
    /\ End(k)
    /\ UNCHANGED <<page, doubtful>>
-----------------------------------------------------------------------------
Person ==
    \/ Type
    \/ \E s \in Sheet : ClickTab(s) \/ CloseTab(s) \/ RenameSheet(s)
    \/ \E e \in listed : OpenFromSidebar(e) \/ DeleteSheet(e)
    \/ NewSheet
    \/ Reload

Serve(k) ==
    \/ UpdateSql(k)
    \/ UpdateName(k)
    \/ CreateRow(k)
    \/ DeleteRow(k)
    \/ ListRows(k)

GoOn(k) ==
    /\ \/ AutosaveEnds(k)
       \/ SwitchEnds(k)
       \/ CloseEnds(k)
       \/ NewGoesOn(k)
       \/ NewEnds(k)
       \/ RenameEnds(k)
       \/ DeleteGoesOn(k)
       \/ DeleteEnds(k)
       \/ ListEnds(k)
       \/ HandlerFails(k)
    /\ UNCHANGED <<user, table, last>>

EditorNext ==
    \/ Person
    \/ TimerFires
    \/ \E k \in Slot : Serve(k) \/ CallLost(k) \/ GoOn(k)

EditorSpec == EditorInit /\ [][EditorNext]_editorVars

\* Timers fire, the coordinator serves its requests and the page is not closed;
\* the person owes nothing.
EditorFairness ==
    /\ WF_editorVars(TimerFires)
    /\ WF_editorVars(\E k \in Slot : Serve(k) \/ GoOn(k))

FairEditorSpec == EditorSpec /\ EditorFairness
-----------------------------------------------------------------------------
(* Properties *)

TabType == [sheet : Sheet, text : Text]
JobType ==
    [kind : {"none", "autosave", "switch", "close", "new", "rename", "delete", "load"},
     sheet : Sheet \cup {NoSheet}, index : Nat,
     at : {"none", "save", "create", "rename", "delete", "list"},
     saves : Sheet \cup {NoSheet}, text : Text, rows : SUBSET TabType,
     reply : {"none", "ok", "error"}]

\* The page and the table hold what their code can put there; no tab is of a
\* sheet that was never created.
EditorTypeOK ==
    /\ row \in [Sheet -> {"unborn", "live", "deleted"}]
    /\ stored \in [Sheet -> Text]
    /\ listed \subseteq TabType
    /\ open \in Seq(TabType)
    /\ active \in Sheet \cup {NoSheet}
    /\ input \in Text
    /\ timer \in BOOLEAN
    /\ jobs \in [Slot -> JobType]
    /\ last \in [Sheet -> 0 .. MaxInputs]
    /\ doubtful \subseteq Sheet
    /\ \A s \in Tabs : row[s] # "unborn"

\* However clicks, keystrokes, the timer and answers meet, a sheet is only ever
\* given what was typed into it, or nothing: no handler that goes on after
\* another one has changed the active sheet stores the text of one under the
\* name of another.
TextsApart ==
    \A s \in Sheet :
        /\ stored[s].of \in {s, NoSheet}
        /\ \A i \in DOMAIN open : open[i].sheet = s => open[i].text.of \in {s, NoSheet}
        /\ \A k \in Slot : jobs[k].saves = s => jobs[k].text.of \in {s, NoSheet}

\* What is typed into a sheet is stored in the end, unless the sheet is deleted
\* or one of the things called doubtful happens to it: whatever was closed,
\* switched, created, renamed and deleted before the timer fired.
TypedIsStored == \A s \in Sheet : Unsaved(s) ~> ~Unsaved(s) \/ s \in doubtful

\* t was typed before u, or nothing was.
Older(t, u) == t.n < u.n \/ (t = Blank /\ u # Blank)

\* A save replaces a newer text by an older one only if the sheet is doubtful.
OlderReplacesDoubtful ==
    [][\A s \in Sheet : Older(stored'[s], stored[s]) => s \in doubtful']_editorVars

\* The active sheet was deleted, and no handler that shows another one is past
\* its flush.
Trapped(s) ==
    /\ s = active /\ s \in Tabs /\ row[s] = "deleted"
    /\ \A k \in Slot :
         /\ jobs[k].at = "save" => jobs[k].saves = s /\ jobs[k].reply # "ok"
         /\ jobs[k].at # "create"

\* Deleting the active sheet is a trap: closeSheet flushes it, gets a 404 and
\* leaves its tab, and so does every later switch, close and new sheet, in
\* whatever order they are tried. The only way out is to load the page again.
OnlyReloadFrees == [][\A s \in Sheet : Trapped(s) => Trapped(s)' \/ Reload]_editorVars

\* README.md:116: "Query history and sheets persist per browser": no save
\* replaces a newer text by an older one.
SheetsPersist == [][\A s \in Sheet : ~Older(stored'[s], stored[s])]_editorVars
=============================================================================
