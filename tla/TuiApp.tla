--------------------------------- MODULE TuiApp --------------------------------
(***************************************************************************)
(* The state of the terminal interface: App and PickerState of             *)
(* tam-cli/src/tui/app.rs and the keys of tui/mod.rs.  The rows are sorted *)
(* by urgency whenever something changes, the selection is an index into   *)
(* those of them the filter leaves, and a dialog remembers the name of the *)
(* task it was opened for.  What arrives, and when, is ClientStream's      *)
(* subject: here any event can arrive and any list can be loaded.          *)
(***************************************************************************)
EXTENDS Integers, FiniteSets, Sequences

CONSTANTS
    TaskNames,   \* names of tasks: numbers, in the order of the names
    Repo,        \* the repository of each task, as a number
    States,      \* states an agent can be in
    Filters,     \* what can be typed as a filter: the tasks it matches by name,
                 \* repository or path, and whether it matches a provider
    MaxItems,    \* bound: items in a picker
    NoAgent      \* Option::None

NoFilter == [names |-> TaskNames, provider |-> FALSE]

ASSUME TuiAssumption ==
    /\ TaskNames \subseteq Nat /\ IsFiniteSet(TaskNames)
    /\ Repo \in [TaskNames -> Nat]
    /\ NoAgent \notin States
    /\ NoFilter \notin Filters
    /\ MaxItems \in Nat \ {0}

VARIABLES
    rows,      \* App.tasks
    selected,  \* App.selected
    filter,    \* App.filter
    mode,      \* App.mode and App.filter_active, and being attached
    action     \* the action the last key asked for, until its reload

tui == <<rows, selected, filter, mode, action>>

\* A row shows its agent's state or, without one, whether it is stale or gone.
Row == [agent : States \cup {NoAgent}, quiet : BOOLEAN]

\* A picker shows the items its filter leaves, and an index into them.
Mode == [at : {"normal", "filter", "attached", "path", "new_name"}]
            \cup [at : {"confirm_drop"}, name : TaskNames]
            \cup [at : {"pick_project"}, items : 0..MaxItems, index : Nat]
            \cup [at : {"pick_session"}, name : TaskNames, items : 0..MaxItems, index : Nat]
Normal == [at |-> "normal"]

Action == [do : {"none", "new"}]
            \cup [do : {"run", "stop", "notify", "drop", "attach"}, name : TaskNames]
Nothing == [do |-> "none"]

-----------------------------------------------------------------------------
(* The order and the selection of the rows *)

\* Task::status: that of the agent or, without one, gone, stale or idle.
Status(row) ==
    CASE row.agent = "working" -> "run"
      [] row.agent = "blocked" -> "block"
      [] row.agent \in {"input", "idle"} -> row.agent
      [] row.agent = NoAgent /\ row.quiet -> "quiet"
      [] OTHER -> "idle"

\* TaskStatus::sort_priority.
Priority(row) ==
    CHOOSE i \in 1..5 : <<"block", "input", "run", "idle", "quiet">>[i] = Status(row)

\* sort_tasks: by repository, then by urgency, then by name.
Precedes(rs, m, n) ==
    LET p == Priority(rs[m])
        q == Priority(rs[n])
    IN \/ Repo[m] < Repo[n]
       \/ Repo[m] = Repo[n] /\ (p < q \/ (p = q /\ m < n))

\* visible_tasks.
Visible(rs, f) ==
    {n \in DOMAIN rs : n \in f.names \/ (f.provider /\ rs[n].agent # NoAgent)}

\* The index of n among the rows ns.
Position(rs, ns, n) == Cardinality({m \in ns : Precedes(rs, m, n)})

\* selected_task: none when the index is past the rows that are shown.
SelectedOf(rs, f, i) == {n \in Visible(rs, f) : Position(rs, Visible(rs, f), n) = i}
Selected == SelectedOf(rows, filter, selected)

\* clamp_selection, and that of a picker.
Clamped(i, count) == IF count = 0 THEN 0 ELSE IF i < count THEN i ELSE count - 1
Clamp(rs, f, i) == Clamped(i, Cardinality(Visible(rs, f)))

\* select_next and select_prev of a list of so many.
Moves(i, count) ==
    {IF count = 0 THEN i ELSE Clamped(i + 1, count), IF i = 0 THEN 0 ELSE i - 1}

\* Mutant of Reselected: the index is kept, not the task.
ReselectedByIndex(rs) == Clamp(rs, filter, selected)

\* Mutant of Reselected: an index past the end is not taken back.
ReselectedUnclamped(rs) ==
    IF \E n \in Selected : n \in DOMAIN rs
    THEN Position(rs, DOMAIN rs, CHOOSE n \in Selected : TRUE)
    ELSE selected

\* set_tasks: the place of the task selected before in all the rows.
Reselected(rs) ==
    IF \E n \in Selected : n \in DOMAIN rs
    THEN Position(rs, DOMAIN rs, CHOOSE n \in Selected : TRUE)
    ELSE Clamp(rs, filter, selected)

-----------------------------------------------------------------------------
(* What changes the rows *)

\* Stale or gone, as git, the directory and the clock say when rows are sorted.
Quieted(rs, q) ==
    [n \in DOMAIN rs |-> [rs[n] EXCEPT !.quiet = (rs[n].agent = NoAgent /\ n \in q)]]

\* The rows a list of tasks and agents makes.
Lists == UNION {[ns -> Row] : ns \in SUBSET TaskNames}

\* set_tasks(build_task_list()), which ends every action but attaching's start.
SetTasks ==
    /\ action # Nothing
    /\ action' = Nothing
    /\ rows' \in Lists
    /\ selected' = Reselected(rows')
    /\ mode' = IF mode.at = "attached" THEN Normal ELSE mode
    /\ UNCHANGED filter

\* The loop looks at events and keys when no action is under way.
AtLoop == action = Nothing

\* update_agent and update_state: the rows are sorted again, the index stays.
AgentEvent(n, s) ==
    /\ AtLoop /\ n \in DOMAIN rows
    /\ rows' = [rows EXCEPT ![n] = [agent |-> s, quiet |-> FALSE]]
    /\ UNCHANGED <<selected, filter, mode, action>>

\* remove_agent clamps the index.
AgentExited(n) ==
    /\ AtLoop /\ n \in DOMAIN rows
    /\ \E q \in BOOLEAN : rows' = [rows EXCEPT ![n] = [agent |-> NoAgent, quiet |-> q]]
    /\ selected' = Clamp(rows', filter, selected)
    /\ UNCHANGED <<filter, mode, action>>

\* Mutant of GitTimer: the timer loads the tasks anew.
GitTimerReloads ==
    /\ AtLoop
    /\ rows' \in Lists
    /\ selected' = Reselected(rows')
    /\ UNCHANGED <<filter, mode, action>>

\* refresh_git_status, every 30 seconds, in whatever mode.
GitTimer ==
    /\ AtLoop
    /\ \E q \in SUBSET TaskNames : rows' = Quieted(rows, q)
    /\ selected' = Clamp(rows', filter, selected)
    /\ UNCHANGED <<filter, mode, action>>

-----------------------------------------------------------------------------
(* Keys of the list and of the filter *)

Key(at) == AtLoop /\ mode.at = at
Asks(a) == action' = a
Stay == UNCHANGED <<rows, filter, selected>>

Move ==
    /\ Key("normal") \/ Key("filter")
    /\ selected' \in Moves(selected, Cardinality(Visible(rows, filter)))
    /\ UNCHANGED <<rows, filter, mode, action>>

\* Each character, backspace and the first escape select the first row; enter,
\* and escape with nothing typed, leave the filter as it is.
TypeFilter ==
    /\ Key("filter")
    /\ \/ /\ filter' \in Filters \cup {NoFilter}
          /\ selected' = 0
          /\ UNCHANGED <<rows, mode, action>>
       \/ mode' = Normal /\ UNCHANGED <<rows, selected, filter, action>>

OpenFilter ==
    /\ Key("normal")
    /\ mode' = [at |-> "filter"]
    /\ Stay /\ UNCHANGED action

\* enter, s and b ask for something of the selected task's agent.
AgentKey ==
    /\ Key("normal")
    /\ \E n \in Selected, do \in {"stop", "notify", "attach"} :
          /\ rows[n].agent # NoAgent
          /\ Asks([do |-> do, name |-> n])
          /\ mode' = IF do = "attach" THEN [at |-> "attached"] ELSE mode
    /\ Stay

-----------------------------------------------------------------------------
(* Running, dropping, creating: the dialogs *)

\* start_run_flow: without sessions to resume the agent is run at once.
RunKey ==
    /\ Key("normal")
    /\ \E n \in Selected :
          /\ rows[n].agent = NoAgent
          /\ \/ Asks([do |-> "run", name |-> n]) /\ UNCHANGED mode
             \/ \E k \in 2..MaxItems :
                  mode' = [at |-> "pick_session", name |-> n, items |-> k, index |-> 0]
                  /\ UNCHANGED action
    /\ Stay

DropKey ==
    /\ Key("normal")
    /\ \E n \in Selected : mode' = [at |-> "confirm_drop", name |-> n]
    /\ Stay /\ UNCHANGED action

\* Any key but y is a no.
ConfirmKey ==
    /\ Key("confirm_drop")
    /\ mode' = Normal
    /\ Asks([do |-> "drop", name |-> mode.name]) \/ UNCHANGED action
    /\ Stay

\* start_new_task_flow: the working directory, "enter path" and what is found.
NewKey ==
    /\ Key("normal")
    /\ \E k \in 2..MaxItems : mode' = [at |-> "pick_project", items |-> k, index |-> 0]
    /\ Stay /\ UNCHANGED action

Picking == Key("pick_project") \/ Key("pick_session")

PickerMove ==
    /\ Picking
    /\ \E i \in Moves(mode.index, mode.items) : mode' = [mode EXCEPT !.index = i]
    /\ Stay /\ UNCHANGED action

\* A character or a backspace: other items match.
PickerType ==
    /\ Picking
    /\ \E k \in 0..MaxItems : mode' = [mode EXCEPT !.items = k, !.index = 0]
    /\ Stay /\ UNCHANGED action

\* Enter, with an item under the index: the session is resumed, or a path is
\* asked for, or a name; a directory that cannot be resolved ends the dialog.
PickerEnter ==
    /\ Picking /\ mode.index < mode.items
    /\ \/ /\ mode.at = "pick_session"
          /\ mode' = Normal
          /\ Asks([do |-> "run", name |-> mode.name])
       \/ /\ mode.at = "pick_project"
          /\ mode' \in {[at |-> "path"], [at |-> "new_name"], Normal}
          /\ UNCHANGED action
    /\ Stay

PathEnter ==
    /\ Key("path")
    /\ mode' \in {[at |-> "new_name"], Normal}
    /\ Stay /\ UNCHANGED action

\* Enter with a name typed.
NameEnter ==
    /\ Key("new_name")
    /\ mode' = Normal
    /\ Asks([do |-> "new"])
    /\ Stay

Escape ==
    /\ Picking \/ Key("path") \/ Key("new_name")
    /\ mode' = Normal
    /\ Stay /\ UNCHANGED action

-----------------------------------------------------------------------------
(* The specification *)

\* App::new and the first set_tasks.
TuiInit ==
    /\ rows \in Lists
    /\ selected = 0 /\ filter = NoFilter /\ mode = Normal
    /\ action = Nothing

Rows ==
    \/ SetTasks \/ GitTimer
    \/ \E n \in TaskNames : AgentExited(n) \/ \E s \in States : AgentEvent(n, s)

Keys ==
    \/ Move \/ TypeFilter \/ OpenFilter \/ AgentKey
    \/ RunKey \/ DropKey \/ ConfirmKey \/ NewKey
    \/ PickerMove \/ PickerType \/ PickerEnter \/ PathEnter \/ NameEnter \/ Escape

TuiNext == Rows \/ Keys

TuiSpec == TuiInit /\ [][TuiNext]_tui

-----------------------------------------------------------------------------
(* Properties *)

\* The variables have their types: a dialog has what its keys look at.
TuiTypeOK ==
    /\ rows \in Lists
    /\ selected \in Nat
    /\ filter \in Filters \cup {NoFilter}
    /\ mode \in Mode
    /\ action \in Action

\* Without a filter the index is that of a row, whatever was loaded, typed or
\* moved over before; that of a picker is an item's whatever is typed over it.
IndexInRange ==
    /\ filter = NoFilter => selected = 0 \/ selected < Cardinality(DOMAIN rows)
    /\ mode.at \in {"pick_project", "pick_session"} =>
          mode.index = 0 \/ mode.index < mode.items

\* A dialog opened for a task is about a row there is until it is closed: no
\* list is loaded under it.  (Otherwise the run would start in no directory.)
DialogHasRow ==
    mode.at \in {"confirm_drop", "pick_session"} => mode.name \in DOMAIN rows

\* The task list is replaced under the selection of a task that is still in it:
\* that task stays selected, when there is no filter.
SelectionKept ==
    [][(SetTasks /\ filter = NoFilter) =>
          \A n \in Selected : n \in DOMAIN rows' => n \in Selected']_tui
===============================================================================
