------------------------------- MODULE ListProofs -------------------------------
(***************************************************************************)
(* The lists a user picks from.  The terminal interface keeps its          *)
(* selection on a row and its dialogs about tasks there are, for any       *)
(* tasks, repositories, states and filters.  The names directories are     *)
(* shown under lead back to them and keep worktrees with their repository, *)
(* for any directories.                                                    *)
(***************************************************************************)
EXTENDS TuiApp, PrettyNames, FiniteSetTheorems,
        SequenceTheorems, WellFoundedInduction, TLAPS

-----------------------------------------------------------------------------
(* The order of the rows *)

\* A list of rows is a function from names of tasks.
LEMMA ListsAre ==
    ASSUME NEW rs
    PROVE  rs \in Lists <=> DOMAIN rs \subseteq TaskNames /\ rs \in [DOMAIN rs -> Row]
BY DEF Lists

\* Every row has an urgency.
LEMMA PriorityType ==
    ASSUME NEW row
    PROVE  Priority(row) \in 1..5
<1> DEFINE words == <<"block", "input", "run", "idle", "quiet">>
<1>1. Status(row) \in {"block", "input", "run", "idle", "quiet"}
  BY DEF Status
<1>2. \E i \in 1..5 : words[i] = Status(row)
  <2>1. words[1] = "block" /\ words[2] = "input" /\ words[3] = "run"
        /\ words[4] = "idle" /\ words[5] = "quiet"
    OBVIOUS
  <2> QED
    BY <1>1, <2>1
<1> QED
  BY <1>2 DEF Priority

\* sort_tasks orders any two rows one way.
LEMMA PrecedesIsTotal ==
    ASSUME NEW rs, NEW m \in TaskNames, NEW n \in TaskNames, NEW l \in TaskNames
    PROVE  /\ ~Precedes(rs, m, m)
           /\ m # n => Precedes(rs, m, n) \/ Precedes(rs, n, m)
           /\ Precedes(rs, l, m) /\ Precedes(rs, m, n) => Precedes(rs, l, n)
<1>1. Priority(rs[m]) \in Nat /\ Priority(rs[n]) \in Nat /\ Priority(rs[l]) \in Nat
  BY PriorityType
<1>2. Repo[m] \in Nat /\ Repo[n] \in Nat /\ Repo[l] \in Nat /\ m \in Nat /\ n \in Nat /\ l \in Nat
  BY TuiAssumption
<1> QED
  BY <1>1, <1>2 DEF Precedes

\* A set that lacks an element of a finite set is smaller.
LEMMA StrictSubset ==
    ASSUME NEW S, IsFiniteSet(S), NEW T \in SUBSET S, NEW x \in S, x \notin T
    PROVE  Cardinality(T) < Cardinality(S)
<1>1. Cardinality(T) <= Cardinality(S) /\ Cardinality(T) # Cardinality(S)
  BY FS_Subset
<1>2. Cardinality(T) \in Nat /\ Cardinality(S) \in Nat
  BY FS_Subset, FS_CardinalityType
<1> QED
  BY <1>1, <1>2

\* The index of a row is less than that of a row after it and than their number.
LEMMA PositionGrows ==
    ASSUME NEW rs, NEW ns \in SUBSET TaskNames, NEW n \in ns
    PROVE  /\ Position(rs, ns, n) \in Nat
           /\ Position(rs, ns, n) < Cardinality(ns)
           /\ \A m \in ns : Precedes(rs, n, m) => Position(rs, ns, n) < Position(rs, ns, m)
<1> DEFINE InFront(k) == {m \in ns : Precedes(rs, m, k)}
<1>1. IsFiniteSet(ns)
  BY TuiAssumption, FS_Subset
<1>2. IsFiniteSet(InFront(n)) /\ Cardinality(InFront(n)) \in Nat
  BY <1>1, FS_Subset, FS_CardinalityType
<1>3. n \notin InFront(n)
  BY PrecedesIsTotal
<1>4. Cardinality(InFront(n)) < Cardinality(ns)
  BY <1>1, <1>3, StrictSubset
<1>5. ASSUME NEW m \in ns, Precedes(rs, n, m)
      PROVE  Cardinality(InFront(n)) < Cardinality(InFront(m))
  <2>1. IsFiniteSet(InFront(m))
    BY <1>1, FS_Subset
  <2>2. InFront(n) \subseteq InFront(m) /\ n \in InFront(m)
    BY <1>5, PrecedesIsTotal
  <2> QED
    BY <1>3, <2>1, <2>2, StrictSubset
<1> QED
  BY <1>2, <1>4, <1>5 DEF Position

\* At most one row is selected.
LEMMA SelectedIsOne ==
    ASSUME NEW rs, DOMAIN rs \subseteq TaskNames, NEW f, NEW i,
           NEW m \in SelectedOf(rs, f, i), NEW n \in SelectedOf(rs, f, i)
    PROVE  m = n
<1> DEFINE ns == Visible(rs, f)
<1>1. ns \in SUBSET TaskNames
  BY DEF Visible
<1>2. m \in ns /\ n \in ns /\ Position(rs, ns, m) = i /\ Position(rs, ns, n) = i
  BY DEF SelectedOf
<1>3. ~Precedes(rs, m, n) /\ ~Precedes(rs, n, m)
  <2> HIDE DEF ns
  <2> QED
    BY <1>1, <1>2, PositionGrows
<1> QED
  BY <1>1, <1>2, <1>3, PrecedesIsTotal

\* What is shown is rows, and without a filter all of them.
LEMMA VisibleRows ==
    ASSUME NEW rs, DOMAIN rs \subseteq TaskNames, NEW f
    PROVE  /\ Visible(rs, f) \subseteq DOMAIN rs
           /\ IsFiniteSet(Visible(rs, f)) /\ Cardinality(Visible(rs, f)) \in Nat
           /\ IsFiniteSet(DOMAIN rs) /\ Cardinality(DOMAIN rs) \in Nat
           /\ f = NoFilter => Visible(rs, f) = DOMAIN rs
<1>1. Visible(rs, f) \subseteq DOMAIN rs
  BY DEF Visible
<1>2. IsFiniteSet(DOMAIN rs) /\ IsFiniteSet(Visible(rs, f))
  BY <1>1, TuiAssumption, FS_Subset
<1>3. f = NoFilter => Visible(rs, f) = DOMAIN rs
  BY DEF Visible, NoFilter
<1> QED
  BY <1>1, <1>2, <1>3, FS_CardinalityType

\* Clamping an index puts it in range; so do the keys that move it.
LEMMA ClampedInRange ==
    ASSUME NEW i \in Nat, NEW count \in Nat
    PROVE  /\ Clamped(i, count) \in Nat
           /\ Clamped(i, count) = 0 \/ Clamped(i, count) < count
           /\ \A j \in Moves(i, count) :
                 j \in Nat /\ (i = 0 \/ i < count => j = 0 \/ j < count)
BY DEF Clamped, Moves

\* A list loaded anew is shown with an index in range.
LEMMA ReselectedInRange ==
    ASSUME TuiTypeOK, NEW rs \in Lists
    PROVE  /\ Reselected(rs) \in Nat
           /\ filter = NoFilter => Reselected(rs) = 0 \/ Reselected(rs) < Cardinality(DOMAIN rs)
<1>1. DOMAIN rs \subseteq TaskNames /\ DOMAIN rows \subseteq TaskNames /\ selected \in Nat
  BY ListsAre DEF TuiTypeOK
<1>2. CASE \E n \in Selected : n \in DOMAIN rs
  <2> DEFINE n == CHOOSE n \in Selected : TRUE
  <2>1. n \in DOMAIN rs
    BY <1>1, <1>2, SelectedIsOne DEF Selected
  <2>2. Reselected(rs) = Position(rs, DOMAIN rs, n)
    BY <1>2 DEF Reselected
  <2> HIDE DEF n
  <2> QED
    BY <1>1, <2>1, <2>2, PositionGrows
<1>3. CASE ~\E n \in Selected : n \in DOMAIN rs
  <2>1. Reselected(rs) = Clamped(selected, Cardinality(Visible(rs, filter)))
    BY <1>3 DEF Reselected, Clamp
  <2> QED
    BY <1>1, <2>1, VisibleRows, ClampedInRange
<1> QED
  BY <1>2, <1>3

-----------------------------------------------------------------------------
(* Types *)

\* Mode and its parts, by what they are at.
LEMMA ModeIs ==
    /\ Normal \in Mode /\ Normal.at = "normal"
    /\ \A at \in {"normal", "filter", "attached", "path", "new_name"} : [at |-> at] \in Mode
    /\ \A n \in TaskNames : [at |-> "confirm_drop", name |-> n] \in Mode
    /\ \A k \in 0..MaxItems, i \in Nat : [at |-> "pick_project", items |-> k, index |-> i] \in Mode
    /\ \A n \in TaskNames, k \in 0..MaxItems, i \in Nat :
          [at |-> "pick_session", name |-> n, items |-> k, index |-> i] \in Mode
BY DEF Mode, Normal

\* A picker has items and an index.
LEMMA PickerHas ==
    ASSUME NEW m \in Mode, m.at \in {"pick_project", "pick_session"}
    PROVE  m.items \in 0..MaxItems /\ m.items \in Nat /\ m.index \in Nat
<1>1. m.items \in 0..MaxItems /\ m.index \in Nat
  BY DEF Mode
<1> QED
  BY <1>1, TuiAssumption

\* A picker goes on being one when its index moves.
LEMMA PickerStays ==
    ASSUME NEW m \in Mode, m.at \in {"pick_project", "pick_session"},
           NEW i \in Nat
    PROVE  /\ [m EXCEPT !.index = i] \in Mode
           /\ [m EXCEPT !.index = i].at = m.at
           /\ [m EXCEPT !.index = i].index = i /\ [m EXCEPT !.index = i].items = m.items
           /\ m.at = "pick_session" =>
                 /\ m.name \in TaskNames
                 /\ [m EXCEPT !.index = i].name = m.name
<1>1. CASE m.at = "pick_project"
  <2>1. m \in [at : {"pick_project"}, items : 0..MaxItems, index : Nat]
    BY <1>1 DEF Mode
  <2> QED
    BY <1>1, <2>1 DEF Mode
<1>2. CASE m.at = "pick_session"
  <2>1. m \in [at : {"pick_session"}, name : TaskNames, items : 0..MaxItems, index : Nat]
    BY <1>2 DEF Mode
  <2> QED
    BY <1>2, <2>1 DEF Mode
<1> QED
  BY <1>1, <1>2

\* The selected row is one of the rows.
LEMMA SelectedIsRow ==
    ASSUME TuiTypeOK, NEW n \in Selected
    PROVE  n \in DOMAIN rows /\ n \in TaskNames
BY ListsAre DEF TuiTypeOK, Selected, SelectedOf, Visible

-----------------------------------------------------------------------------
(* The index, and what a dialog is about *)

\* While an action is under way no dialog is open: that is when lists are loaded.
NoDialogAmid == action # Nothing => mode.at \in {"normal", "attached"}

TuiInv == TuiTypeOK /\ IndexInRange /\ DialogHasRow /\ NoDialogAmid

\* An event or a list leaves the index in range, the dialog a row.
LEMMA RowsKeep ==
    ASSUME TuiInv, Rows
    PROVE  TuiInv'
<1>1. DOMAIN rows \subseteq TaskNames /\ rows \in [DOMAIN rows -> Row] /\ rows \in Lists
      /\ selected \in Nat /\ mode \in Mode /\ filter \in Filters \cup {NoFilter}
      /\ action \in Action
  BY ListsAre DEF TuiInv, TuiTypeOK
<1>2. ASSUME NEW rs \in [DOMAIN rows -> Row], rows' = rs,
             UNCHANGED <<filter, mode, action>>,
             \/ UNCHANGED selected
             \/ selected' = Clamp(rs, filter, selected)
      PROVE  TuiInv'
  <2>1. DOMAIN rs = DOMAIN rows /\ rs \in Lists
    BY <1>1, ListsAre
  <2>2. /\ Clamp(rs, filter, selected) \in Nat
        /\ filter = NoFilter => \/ Clamp(rs, filter, selected) = 0
                                \/ Clamp(rs, filter, selected) < Cardinality(DOMAIN rs)
    BY <1>1, <2>1, VisibleRows, ClampedInRange DEF Clamp
  <2> QED
    BY <1>1, <1>2, <2>1, <2>2
       DEF TuiInv, TuiTypeOK, IndexInRange, DialogHasRow, NoDialogAmid
<1>3. CASE SetTasks
  <2>1. mode'.at \notin {"confirm_drop", "pick_session", "pick_project"} /\ mode' \in Mode
    BY <1>1, <1>3, ModeIs DEF SetTasks, TuiInv, NoDialogAmid
  <2>2. action' \in Action
    BY <1>3 DEF SetTasks, Nothing, Action
  <2> QED
    BY <1>1, <1>3, <2>1, <2>2, ReselectedInRange
       DEF SetTasks, TuiInv, TuiTypeOK, IndexInRange, DialogHasRow, NoDialogAmid
<1>4. CASE GitTimer
  <2> PICK q \in SUBSET TaskNames : rows' = Quieted(rows, q)
    BY <1>4 DEF GitTimer
  <2>1. Quieted(rows, q) \in [DOMAIN rows -> Row]
    BY <1>1 DEF Quieted, Row
  <2> QED
    BY <1>2, <1>4, <2>1 DEF GitTimer
<1>5. ASSUME NEW n \in TaskNames, AgentExited(n)
      PROVE  TuiInv'
  <2> PICK q \in BOOLEAN : rows' = [rows EXCEPT ![n] = [agent |-> NoAgent, quiet |-> q]]
    BY <1>5 DEF AgentExited
  <2>1. rows' \in [DOMAIN rows -> Row]
    BY <1>1 DEF Row
  <2> QED
    BY <1>2, <1>5, <2>1 DEF AgentExited
<1>6. ASSUME NEW n \in TaskNames, NEW s \in States, AgentEvent(n, s)
      PROVE  TuiInv'
  <2>1. rows' \in [DOMAIN rows -> Row]
    BY <1>1, <1>6 DEF AgentEvent, Row
  <2> QED
    BY <1>2, <1>6, <2>1 DEF AgentEvent
<1> QED
  BY <1>3, <1>4, <1>5, <1>6 DEF Rows

\* A key leaves them so too.
LEMMA KeysKeep ==
    ASSUME TuiInv, Keys
    PROVE  TuiInv'
<1>1. /\ rows \in Lists /\ DOMAIN rows \subseteq TaskNames
      /\ selected \in Nat /\ mode \in Mode /\ filter \in Filters \cup {NoFilter}
      /\ action = Nothing
  BY ListsAre DEF TuiInv, TuiTypeOK, Keys, Move, TypeFilter, OpenFilter, AgentKey, RunKey,
     DropKey, ConfirmKey, NewKey, Picking, PickerMove, PickerType, PickerEnter, PathEnter,
     NameEnter, Escape, Key, AtLoop
<1>2. Nothing \in Action /\ [do |-> "new"] \in Action
      /\ \A n \in TaskNames, do \in {"run", "stop", "notify", "drop", "attach"} :
            [do |-> do, name |-> n] \in Action
  BY DEF Action, Nothing
<1> DEFINE DialogOK == /\ mode.at \in {"pick_project", "pick_session"} =>
                             mode.index = 0 \/ mode.index < mode.items
                       /\ DialogHasRow
                       /\ NoDialogAmid
<1>3. ASSUME Stay, mode' \in Mode, action' \in Action, DialogOK'
      PROVE  TuiInv'
  BY <1>1, <1>3 DEF TuiInv, TuiTypeOK, IndexInRange, Stay
<1>4. ASSUME Stay, mode' \in Mode, action' \in Action,
             mode'.at \in {"normal", "filter", "attached", "path", "new_name"},
             action' # Nothing => mode'.at \in {"normal", "attached"}
      PROVE  TuiInv'
  BY <1>3, <1>4 DEF DialogHasRow, NoDialogAmid
<1>5. CASE Move
  <2>1. /\ selected' \in Nat
        /\ IndexInRange'
    BY <1>1, <1>5, VisibleRows, ClampedInRange DEF Move, TuiInv, IndexInRange
  <2> QED
    BY <1>1, <1>5, <2>1
       DEF Move, TuiInv, TuiTypeOK, DialogHasRow, NoDialogAmid
<1>6. CASE TypeFilter
  BY <1>1, <1>2, <1>6, ModeIs
     DEF TypeFilter, Key, AtLoop, TuiInv, TuiTypeOK, IndexInRange, DialogHasRow, NoDialogAmid
<1>7. CASE OpenFilter \/ PathEnter \/ NameEnter \/ Escape
  <2>1. /\ Stay /\ action' \in Action
        /\ mode' \in {Normal, [at |-> "filter"], [at |-> "new_name"]}
        /\ action' # Nothing => mode' = Normal
    BY <1>1, <1>2, <1>7 DEF OpenFilter, PathEnter, NameEnter, Escape, Asks
  <2> QED
    BY <1>4, <2>1, ModeIs
<1>8. CASE AgentKey
  <2>1. /\ Stay /\ action' \in Action
        /\ mode' = [at |-> "attached"] \/ (mode' = mode /\ mode.at = "normal")
    BY <1>1, <1>2, <1>8, SelectedIsRow DEF AgentKey, Asks, Key, TuiInv
  <2> QED
    BY <1>1, <1>4, <2>1, ModeIs
<1>9. CASE RunKey
  <2> PICK n \in Selected :
         \/ Asks([do |-> "run", name |-> n]) /\ UNCHANGED mode
         \/ \E k \in 2..MaxItems :
              mode' = [at |-> "pick_session", name |-> n, items |-> k, index |-> 0]
              /\ UNCHANGED action
    BY <1>9 DEF RunKey
  <2>1. n \in DOMAIN rows /\ n \in TaskNames
    BY SelectedIsRow DEF TuiInv
  <2>2. Stay /\ mode.at = "normal"
    BY <1>9 DEF RunKey, Key
  <2>3. CASE Asks([do |-> "run", name |-> n]) /\ UNCHANGED mode
    BY <1>1, <1>2, <1>4, <2>1, <2>2, <2>3 DEF Asks
  <2>4. ASSUME NEW k \in 2..MaxItems,
               mode' = [at |-> "pick_session", name |-> n, items |-> k, index |-> 0],
               UNCHANGED action
        PROVE  TuiInv'
    <3>1. mode' \in Mode
      BY <2>1, <2>4, ModeIs, TuiAssumption
    <3>2. DialogOK'
      BY <1>1, <2>1, <2>2, <2>4 DEF DialogHasRow, NoDialogAmid, Stay
    <3> QED
      BY <1>1, <1>2, <1>3, <2>2, <2>4, <3>1, <3>2
  <2> QED
    BY <2>3, <2>4
<1>10. CASE DropKey
  <2> PICK n \in Selected : mode' = [at |-> "confirm_drop", name |-> n]
    BY <1>10 DEF DropKey
  <2>1. n \in DOMAIN rows /\ n \in TaskNames
    BY SelectedIsRow DEF TuiInv
  <2>2. DialogOK'
    BY <1>1, <1>10, <2>1 DEF DropKey, Stay, DialogHasRow, NoDialogAmid
  <2> QED
    BY <1>1, <1>2, <1>3, <1>10, <2>1, <2>2, ModeIs DEF DropKey
<1>11. CASE ConfirmKey
  <2>1. mode.name \in TaskNames
    BY <1>1, <1>11 DEF ConfirmKey, Key, TuiInv, DialogHasRow
  <2> QED
    BY <1>1, <1>2, <1>4, <1>11, <2>1, ModeIs DEF ConfirmKey, Asks
<1>12. CASE NewKey
  <2> PICK k \in 2..MaxItems : mode' = [at |-> "pick_project", items |-> k, index |-> 0]
    BY <1>12 DEF NewKey
  <2>1. mode' \in Mode
    BY ModeIs, TuiAssumption
  <2>2. DialogOK'
    BY <1>1, <1>12 DEF NewKey, DialogHasRow, NoDialogAmid
  <2> QED
    BY <1>1, <1>2, <1>3, <1>12, <2>1, <2>2 DEF NewKey
<1>13. CASE PickerMove
  <2>1. Stay /\ UNCHANGED action /\ mode.at \in {"pick_project", "pick_session"}
    BY <1>13 DEF PickerMove, Picking, Key
  <2> PICK i \in Moves(mode.index, mode.items) : mode' = [mode EXCEPT !.index = i]
    BY <1>13 DEF PickerMove
  <2>2. /\ mode.items \in Nat /\ mode.index \in Nat
        /\ mode.index = 0 \/ mode.index < mode.items
    BY <1>1, <2>1, PickerHas DEF TuiInv, IndexInRange
  <2>3. i \in Nat /\ (i = 0 \/ i < mode.items)
    BY <2>2, ClampedInRange
  <2>4. /\ mode' \in Mode /\ mode'.at = mode.at /\ mode'.index = i /\ mode'.items = mode.items
        /\ mode.at = "pick_session" => mode'.name = mode.name
    <3>1. mode.items \in 0..MaxItems
      BY <1>1, <2>1, PickerHas
    <3> QED
      BY <1>1, <2>1, <2>3, <3>1, PickerStays
  <2>5. DialogOK'
    BY <1>1, <2>1, <2>3, <2>4 DEF TuiInv, DialogHasRow, NoDialogAmid, Stay
  <2> QED
    BY <1>1, <1>2, <1>3, <2>1, <2>4, <2>5
<1>14. CASE PickerType
  <2>1. Stay /\ UNCHANGED action /\ mode.at \in {"pick_project", "pick_session"}
    BY <1>14 DEF PickerType, Picking, Key
  <2> PICK k \in 0..MaxItems : mode' = [mode EXCEPT !.items = k, !.index = 0]
    BY <1>14 DEF PickerType
  <2>2. /\ mode' \in Mode /\ mode'.at = mode.at /\ mode'.index = 0
        /\ mode.at = "pick_session" => mode'.name = mode.name
    <3>1. CASE mode.at = "pick_project"
      <4>1. mode \in [at : {"pick_project"}, items : 0..MaxItems, index : Nat]
        BY <1>1, <3>1 DEF Mode
      <4> QED
        BY <3>1, <4>1 DEF Mode
    <3>2. CASE mode.at = "pick_session"
      <4>1. mode \in [at : {"pick_session"}, name : TaskNames, items : 0..MaxItems, index : Nat]
        BY <1>1, <3>2 DEF Mode
      <4> QED
        BY <3>2, <4>1 DEF Mode
    <3> QED
      BY <2>1, <3>1, <3>2
  <2>3. DialogHasRow' /\ NoDialogAmid'
    BY <1>1, <2>1, <2>2 DEF TuiInv, DialogHasRow, NoDialogAmid, Stay
  <2>4. DialogOK'
    BY <2>2, <2>3
  <2> QED
    BY <1>1, <1>2, <1>3, <2>1, <2>2, <2>4
<1>15. CASE PickerEnter
  <2>1. mode.at = "pick_session" => mode.name \in TaskNames
    BY <1>1 DEF TuiInv, DialogHasRow
  <2>2. /\ Stay /\ action' \in Action
        /\ mode' \in {Normal, [at |-> "path"], [at |-> "new_name"]}
        /\ action' # Nothing => mode' = Normal
    BY <1>1, <1>2, <1>15, <2>1 DEF PickerEnter, Asks
  <2> QED
    BY <1>4, <2>2, ModeIs
<1> QED
  BY <1>5, <1>6, <1>7, <1>8, <1>9, <1>10, <1>11, <1>12, <1>13, <1>14, <1>15 DEF Keys

\* The interface's invariant holds of every behaviour.
LEMMA TuiInvariant == TuiSpec => []TuiInv
<1>1. TuiInit => TuiInv
  <2> SUFFICES ASSUME TuiInit PROVE TuiInv
    OBVIOUS
  <2>1. Normal \in Mode /\ Normal.at = "normal" /\ Nothing \in Action
    BY ModeIs DEF Action, Nothing
  <2> QED
    BY <2>1 DEF TuiInit, TuiInv, TuiTypeOK, IndexInRange, DialogHasRow, NoDialogAmid
<1>2. TuiInv /\ [TuiNext]_tui => TuiInv'
  <2>1. CASE TuiNext
    BY <2>1, RowsKeep, KeysKeep DEF TuiNext
  <2>2. CASE UNCHANGED tui
    BY <2>2 DEF tui, TuiInv, TuiTypeOK, IndexInRange, DialogHasRow, NoDialogAmid
  <2> QED
    BY <2>1, <2>2
<1> QED
  BY <1>1, <1>2, PTL DEF TuiSpec

\* TuiTypeOK: whatever events arrive, lists are loaded and keys are pressed, App has
\* a mode with what its keys look at.
THEOREM TuiTypeCorrect == TuiSpec => []TuiTypeOK
BY TuiInvariant, PTL DEF TuiInv

\* IndexInRange: the selection of the list and of a picker is never past the end.
THEOREM IndexStaysInRange == TuiSpec => []IndexInRange
BY TuiInvariant, PTL DEF TuiInv

\* DialogHasRow: no list is loaded under a dialog that was opened for a task, so the
\* task it remembers is still there when it is confirmed.
THEOREM DialogKeepsRow == TuiSpec => []DialogHasRow
BY TuiInvariant, PTL DEF TuiInv

\* SelectionKept: set_tasks keeps the selected task selected.
THEOREM SelectionStays == TuiSpec => SelectionKept
<1>1. TuiInv => [(SetTasks /\ filter = NoFilter) =>
          \A n \in Selected : n \in DOMAIN rows' => n \in Selected']_tui
  <2> SUFFICES ASSUME TuiInv, SetTasks, filter = NoFilter,
                      NEW n \in Selected, n \in DOMAIN rows'
               PROVE  n \in Selected'
    OBVIOUS
  <2>1. DOMAIN rows \subseteq TaskNames /\ DOMAIN rows' \subseteq TaskNames
    BY ListsAre DEF TuiInv, TuiTypeOK, SetTasks
  <2>2. \A m \in Selected : m = n
    BY <2>1, SelectedIsOne DEF Selected
  <2>3. selected' = Position(rows', DOMAIN rows', n)
    <3>1. (CHOOSE m \in Selected : TRUE) = n
      BY <2>2
    <3> QED
      BY <3>1 DEF SetTasks, Reselected
  <2>4. Visible(rows', filter') = DOMAIN rows'
    BY <2>1, VisibleRows DEF SetTasks
  <2> QED
    BY <2>3, <2>4 DEF Selected, SelectedOf
<1> QED
  BY <1>1, TuiInvariant, PTL DEF SelectionKept
-----------------------------------------------------------------------------
(* The pretty names *)

\* The pairs of natural numbers of which the first is less.
Less == {pair \in Nat \X Nat : pair[1] < pair[2]}

LEMMA LessIs == \A x, y \in Nat : <<x, y>> \notin Less => y <= x
<1>1. \A x, y \in Nat : <<x, y>> \in Less <=> x < y
  BY DEF Less
<1> QED
  BY <1>1

LEMMA LessIsWellFounded == IsWellFoundedOn(Less, Nat)
BY NatLessThanWellFounded DEF OpToRel, Less

LEMMA MinimalNatural ==
    ASSUME NEW S, S \subseteq Nat, S # {}
    PROVE  \E m \in S : \A n \in S : ~(<<n, m>> \in Less)
BY LessIsWellFounded, WFMin

\* A set of natural numbers that has an element has a smallest one.
LEMMA LeastElement ==
    ASSUME NEW S, S \subseteq Nat, S # {}
    PROVE  \E m \in S : \A n \in S : m <= n
<1>1. \E m \in S : \A n \in S : ~(<<n, m>> \in Less)
  BY MinimalNatural
<1>2. \A n, m \in S : <<n, m>> \notin Less => m <= n
  BY LessIs
<1> QED
  BY <1>1, <1>2

\* The last of some places in a sequence.
LEMMA LastPlace ==
    ASSUME NEW n \in Nat, NEW S, S \subseteq 1..n, S # {}
    PROVE  \E m \in S : \A k \in S : k <= m
<1> DEFINE T == {i \in Nat : n - i \in S}
<1>1. T \subseteq Nat /\ T # {}
  <2>1. PICK k \in S : TRUE
    OBVIOUS
  <2>2. n - k \in Nat /\ n - (n - k) = k
    BY <2>1
  <2> QED
    BY <2>1, <2>2
<1>2. PICK t \in T : \A u \in T : t <= u
  BY <1>1, LeastElement
<1>3. \A k \in S : n - k \in T
  <2> SUFFICES ASSUME NEW k \in S PROVE n - k \in T
    OBVIOUS
  <2>1. n - k \in Nat /\ n - (n - k) = k
    OBVIOUS
  <2> QED
    BY <2>1
<1>4. \A k \in S : k <= n - t
  <2> SUFFICES ASSUME NEW k \in S PROVE k <= n - t
    OBVIOUS
  <2>1. t <= n - k /\ k \in 1..n /\ t \in Nat
    BY <1>2, <1>3
  <2> QED
    BY <2>1
<1> WITNESS n - t \in S
<1> QED
  BY <1>4

\* The end of a sequence of components, of which there is at least one.
LEMMA EndOfIs ==
    ASSUME NEW s \in Seq(STRING), s # <<>>, NEW n \in Nat
    PROVE  /\ EndOf(s, n) \in Seq(STRING)
           /\ n > 0 => EndOf(s, n) # <<>>
           /\ n >= Len(s) => EndOf(s, n) = s
           /\ Len(EndOf(s, n)) = IF Len(s) > n THEN n ELSE Len(s)
<1>1. Len(s) \in Nat /\ Len(s) > 0
  BY EmptySeq, LenProperties
<1>2. CASE Len(s) > n
  <2>1. \A i \in Len(s) - n + 1..Len(s) : s[i] \in STRING
    BY <1>1, <1>2, ElementOfSeq
  <2>2. /\ SubSeq(s, Len(s) - n + 1, Len(s)) \in Seq(STRING)
        /\ Len(SubSeq(s, Len(s) - n + 1, Len(s))) = n
    BY <1>1, <1>2, <2>1, SubSeqProperties
  <2>3. EndOf(s, n) \in Seq(STRING) /\ Len(EndOf(s, n)) = n
    BY <1>1, <1>2, <2>2 DEF EndOf
  <2>4. n > 0 => EndOf(s, n) # <<>>
    BY <2>3, EmptySeq
  <2> QED
    BY <1>1, <1>2, <2>3, <2>4
<1>3. CASE Len(s) <= n
  <2>1. EndOf(s, n) = s
    BY <1>1, <1>3 DEF EndOf
  <2> QED
    BY <1>1, <1>3, <2>1
<1> QED
  BY <1>1, <1>2, <1>3

\* The end of an end is that of the whole.
LEMMA EndOfEnd ==
    ASSUME NEW s \in Seq(STRING), s # <<>>, NEW n \in Nat, NEW m \in 1..n
    PROVE  EndOf(EndOf(s, n), m) = EndOf(s, m)
<1>1. Len(s) \in Nat
  BY LenProperties
<1>2. CASE n >= Len(s)
  BY <1>2, EndOfIs
<1>3. CASE n < Len(s)
  <2>1. /\ EndOf(s, n) = SubSeq(s, Len(s) - n + 1, Len(s))
        /\ EndOf(s, n) \in Seq(STRING) /\ Len(EndOf(s, n)) = n
    BY <1>1, <1>3, EndOfIs DEF EndOf
  <2> HIDE DEF EndOf
  <2>2. \A i \in Len(s) - n + 1..Len(s) : s[i] \in STRING
    BY <1>1, <1>3, ElementOfSeq
  <2>3. \A i \in 1..n : EndOf(s, n)[i] = s[Len(s) - n + i]
    <3>1. \A i \in 1..Len(s) - (Len(s) - n + 1) + 1 :
             SubSeq(s, Len(s) - n + 1, Len(s))[i] = s[Len(s) - n + 1 + i - 1]
      BY <1>1, <2>2, SubSeqProperties
    <3>2. \A i \in 1..n : i \in 1..Len(s) - (Len(s) - n + 1) + 1
                       /\ Len(s) - n + 1 + i - 1 = Len(s) - n + i
      BY <1>1
    <3> QED
      BY <2>1, <3>1, <3>2
  <2>4. ASSUME NEW t \in Seq(STRING), Len(t) >= m
        PROVE  /\ EndOf(t, m) \in Seq(STRING) /\ Len(EndOf(t, m)) = m
               /\ \A i \in 1..m : EndOf(t, m)[i] = t[Len(t) - m + i]
    <3>1. Len(t) \in Nat /\ \A i \in Len(t) - m + 1..Len(t) : t[i] \in STRING
      BY <2>4, LenProperties, ElementOfSeq
    <3>2. EndOf(t, m) = SubSeq(t, Len(t) - m + 1, Len(t))
      <4>1. CASE Len(t) = m
        BY <3>1, <4>1, SubSeqFull, Len(t) - m + 1 = 1 DEF EndOf
      <4>2. CASE Len(t) > m
        BY <4>2 DEF EndOf
      <4> QED
        BY <2>4, <3>1, <4>1, <4>2
    <3>3. /\ SubSeq(t, Len(t) - m + 1, Len(t)) \in Seq(STRING)
          /\ Len(SubSeq(t, Len(t) - m + 1, Len(t))) = m
          /\ \A i \in 1..Len(t) - (Len(t) - m + 1) + 1 :
                SubSeq(t, Len(t) - m + 1, Len(t))[i] = t[Len(t) - m + 1 + i - 1]
      BY <2>4, <3>1, SubSeqProperties
    <3>4. \A i \in 1..m : i \in 1..Len(t) - (Len(t) - m + 1) + 1
                       /\ Len(t) - m + 1 + i - 1 = Len(t) - m + i
      BY <3>1
    <3> QED
      BY <3>2, <3>3, <3>4
  <2>5. \A i \in 1..m : EndOf(s, n)[n - m + i] = s[Len(s) - m + i]
    <3>1. \A i \in 1..m : n - m + i \in 1..n /\ Len(s) - n + (n - m + i) = Len(s) - m + i
      BY <1>1
    <3> QED
      BY <2>3, <3>1
  <2>6. /\ EndOf(EndOf(s, n), m) \in Seq(STRING) /\ Len(EndOf(EndOf(s, n), m)) = m
        /\ \A i \in 1..m : EndOf(EndOf(s, n), m)[i] = EndOf(s, n)[n - m + i]
    <3>1. PICK t \in Seq(STRING) : t = EndOf(s, n) /\ Len(t) = n
      BY <2>1
    <3>2. Len(t) >= m
      BY <3>1
    <3> QED
      BY <2>4, <3>1, <3>2
  <2>7. /\ EndOf(s, m) \in Seq(STRING) /\ Len(EndOf(s, m)) = m
        /\ \A i \in 1..m : EndOf(s, m)[i] = s[Len(s) - m + i]
    BY <1>1, <1>3, <2>4
  <2> QED
    BY <2>5, <2>6, <2>7, SeqEqual
<1> QED
  BY <1>1, <1>2, <1>3
\* A path has a parent and a name; a worktree's repository has a name too.
LEMMA PathIs ==
    ASSUME paths \in Seq(Paths), NEW i \in DOMAIN paths
    PROVE  /\ Parent(i) \in Seq(STRING) /\ Parent(i) # <<>>
           /\ Len(Parent(i)) \in Nat \ {0}
           /\ paths[i].base \in BaseNames
           /\ IsWorktree(i) => paths[i].of \in BaseNames
           /\ Group(i) \in BaseNames /\ Lower[Group(i)] \in Nat
           /\ Lower[paths[i].base] \in Nat
           /\ i \in Nat
<1>1. paths[i] \in Path
  BY LenProperties, ElementOfSeq, PrettyAssumption
<1>2. /\ Parent(i) \in Seq(STRING) /\ Parent(i) # <<>>
      /\ paths[i].base \in BaseNames
      /\ IsWorktree(i) => paths[i].of \in BaseNames
  BY <1>1 DEF Path, Parents, Parent, IsWorktree
<1>3. Len(Parent(i)) \in Nat \ {0}
  BY <1>2, EmptySeq
<1>4. i \in Nat
  BY LenProperties
<1>5. Group(i) \in BaseNames
  BY <1>2 DEF Group
<1> QED
  BY <1>2, <1>3, <1>4, <1>5, PrettyAssumption

\* Two paths of a name are colliding ones, and the same ones collide with them.
LEMMA CollidingAre ==
    ASSUME paths \in Seq(Paths), NEW i \in DOMAIN paths, NEW k \in DOMAIN paths, i # k,
           paths[i].base = paths[k].base
    PROVE  Colliding(i) = Colliding(k) /\ i \in Colliding(i) /\ k \in Colliding(i)
<1> DEFINE same == {j \in DOMAIN paths : paths[j].base = paths[i].base}
<1>1. IsFiniteSet(DOMAIN paths)
  BY LenProperties, FS_Interval
<1>2. IsFiniteSet(same)
  BY <1>1, FS_Subset
<1>3. ~(Cardinality(same) <= 1)
  <2>1. {i} \in SUBSET same /\ k \in same /\ k \notin {i}
    OBVIOUS
  <2>2. Cardinality({i}) < Cardinality(same)
    <3> HIDE DEF same
    <3> QED
      BY <1>2, <2>1, StrictSubset
  <2>3. Cardinality({i}) = 1 /\ Cardinality(same) \in Nat
    BY <1>2, FS_Singleton, FS_CardinalityType
  <2> QED
    BY <2>2, <2>3
<1>4. same = {j \in DOMAIN paths : paths[j].base = paths[k].base}
  OBVIOUS
<1> QED
  BY <1>3, <1>4 DEF Colliding

\* At this depth the end of a parent's path tells i apart from those of its name.
Unique(i, d) ==
    \A j \in Colliding(i) \ {i} : EndOf(Parent(j), d) # EndOf(Parent(i), d)

\* A suffix is the first end that tells its path apart, and there is none as long as
\* no end does.
SuffixesUnique ==
    \A i \in DOMAIN paths :
        \/ suffixes[i] = <<>> /\ (i \in Colliding(i) => \A d \in 1..depth : ~Unique(i, d))
        \/ \E d \in 1..depth : suffixes[i] = EndOf(Parent(i), d) /\ Unique(i, d)

NamesInv == NamesTypeOK /\ SuffixesUnique

\* One turn of the loop keeps it so.
LEMMA DeepenKeeps ==
    ASSUME NamesInv, Deepen
    PROVE  NamesInv'
<1>1. /\ paths \in Seq(Paths) /\ Len(paths) <= MaxPaths /\ depth \in Nat
      /\ suffixes \in [DOMAIN paths -> Seq(STRING)] /\ paths' = paths /\ depth' = depth + 1
  BY DEF NamesInv, NamesTypeOK, Deepen
<1>2. /\ \A i : Colliding(i)' = Colliding(i) /\ Parent(i)' = Parent(i)
      /\ \A i, d : Unique(i, d)' = Unique(i, d)
  BY <1>1 DEF Colliding, Parent, Unique
<1>3. ASSUME NEW i \in DOMAIN paths
      PROVE  \/ /\ suffixes[i] = <<>> /\ i \in Colliding(i) /\ Unique(i, depth')
                /\ suffixes'[i] = EndOf(Parent(i), depth')
             \/ /\ ~(suffixes[i] = <<>> /\ i \in Colliding(i) /\ Unique(i, depth'))
                /\ suffixes'[i] = suffixes[i]
  BY DEF Deepen, Unique
<1>4. \A i \in DOMAIN paths : EndOf(Parent(i), depth') \in Seq(STRING)
  BY <1>1, PathIs, EndOfIs
<1>5. NamesTypeOK'
  <2>1. \A i \in DOMAIN paths : suffixes'[i] \in Seq(STRING)
    BY <1>1, <1>3, <1>4
  <2>2. suffixes' = [i \in DOMAIN paths |-> suffixes'[i]]
    BY DEF Deepen
  <2> QED
    BY <1>1, <2>1, <2>2 DEF NamesTypeOK
<1>6. ASSUME NEW i \in DOMAIN paths
      PROVE  \/ suffixes'[i] = <<>> /\ (i \in Colliding(i) => \A d \in 1..depth' : ~Unique(i, d))
             \/ \E d \in 1..depth' : suffixes'[i] = EndOf(Parent(i), d) /\ Unique(i, d)
  <2>1. 1..depth' = 1..depth \cup {depth'} /\ depth' \in 1..depth'
    BY <1>1
  <2>2. CASE suffixes[i] = <<>> /\ i \in Colliding(i) /\ Unique(i, depth')
    BY <1>3, <2>1, <2>2
  <2>3. CASE ~(suffixes[i] = <<>> /\ i \in Colliding(i) /\ Unique(i, depth'))
    <3>1. suffixes'[i] = suffixes[i]
      BY <1>3, <2>3
    <3>2. \/ suffixes[i] = <<>> /\ (i \in Colliding(i) => \A d \in 1..depth : ~Unique(i, d))
          \/ \E d \in 1..depth : suffixes[i] = EndOf(Parent(i), d) /\ Unique(i, d)
      BY DEF NamesInv, SuffixesUnique
    <3> QED
      BY <2>1, <2>3, <3>1, <3>2
  <2> QED
    BY <2>2, <2>3
<1>7. SuffixesUnique'
  BY <1>1, <1>2, <1>6 DEF SuffixesUnique
<1> QED
  BY <1>5, <1>7 DEF NamesInv

LEMMA NamesInvariant == NamesSpec => []NamesInv
<1>1. NamesInit => NamesInv
  <2> SUFFICES ASSUME NamesInit PROVE NamesInv
    OBVIOUS
  <2>1. PICK m \in 0..MaxPaths : paths \in [1..m -> Paths]
    BY DEF NamesInit, BoundedSeq, SeqOf
  <2>2. paths \in Seq(Paths) /\ Len(paths) = m
    BY <2>1
  <2>3. suffixes \in [DOMAIN paths -> Seq(STRING)]
    BY EmptySeq DEF NamesInit
  <2> QED
    BY <2>2, <2>3, PrettyAssumption DEF NamesInit, NamesInv, NamesTypeOK, SuffixesUnique
<1>2. NamesInv /\ [NamesNext]_names => NamesInv'
  <2>1. ASSUME NamesInv, UNCHANGED names
        PROVE  NamesInv'
    <3>1. paths' = paths /\ depth' = depth /\ suffixes' = suffixes
      BY <2>1 DEF names
    <3>2. \A i, d : Unique(i, d)' = Unique(i, d) /\ Parent(i)' = Parent(i)
                    /\ Colliding(i)' = Colliding(i)
      BY <3>1 DEF Unique, Colliding, Parent
    <3> QED
      BY <2>1, <3>1, <3>2 DEF NamesInv, NamesTypeOK, SuffixesUnique
  <2> QED
    BY <2>1, DeepenKeeps DEF NamesNext
<1> QED
  BY <1>1, <1>2, PTL DEF NamesSpec

\* Suffixes that tell apart differ, whatever their lengths.
LEMMA SuffixesDiffer ==
    ASSUME paths \in Seq(Paths), NEW i \in DOMAIN paths, NEW k \in DOMAIN paths, i # k,
           paths[i].base = paths[k].base,
           NEW d \in Nat \ {0}, NEW e \in Nat \ {0}, d <= e, Unique(i, d)
    PROVE  EndOf(Parent(i), d) # EndOf(Parent(k), e)
<1>1. EndOf(EndOf(Parent(k), e), d) = EndOf(Parent(k), d)
  BY PathIs, EndOfEnd, d \in 1..e
<1>2. EndOf(EndOf(Parent(i), d), d) = EndOf(Parent(i), d)
  BY PathIs, EndOfEnd, d \in 1..d
<1>3. EndOf(Parent(k), d) # EndOf(Parent(i), d)
  BY CollidingAre DEF Unique
<1> QED
  BY <1>1, <1>2, <1>3

\* The names of different directories are different, but for those beside each other.
LEMMA NamesDiffer ==
    ASSUME NamesInv, Done, NEW i \in DOMAIN paths, NEW k \in DOMAIN paths, i # k,
           Beside(i) = {}
    PROVE  DisplayName(k) # DisplayName(i)
<1> SUFFICES ASSUME DisplayName(k) = DisplayName(i)
             PROVE  FALSE
  OBVIOUS
<1>1. paths \in Seq(Paths) /\ depth \in Nat
  BY DEF NamesInv, NamesTypeOK
<1>2. paths[i].base = paths[k].base
  BY DEF DisplayName
<1>3. Colliding(i) = Colliding(k) /\ i \in Colliding(i) /\ k \in Colliding(i)
  BY <1>1, <1>2, CollidingAre
<1>4. suffixes[i] = suffixes[k]
  BY <1>3 DEF DisplayName
<1>5. CASE suffixes[i] = <<>>
  <2>1. \A j \in DOMAIN paths : EndOf(Parent(j), depth) = Parent(j) /\ depth > 0
    BY <1>1, PathIs, EndOfIs DEF Done
  <2>2. ~Unique(i, depth)
    <3>1. \A d \in 1..depth : EndOf(Parent(i), d) # <<>>
      BY <1>1, PathIs, EndOfIs
    <3> QED
      BY <1>1, <1>3, <1>5, <2>1, <3>1 DEF NamesInv, SuffixesUnique
  <2>3. PICK j \in Colliding(i) \ {i} : Parent(j) = Parent(i)
    <3>1. \A j \in Colliding(i) : j \in DOMAIN paths
      BY DEF Colliding
    <3> QED
      BY <2>1, <2>2, <3>1 DEF Unique
  <2> QED
    BY <2>3 DEF Colliding, Beside
<1>6. CASE suffixes[i] # <<>>
  <2>1. PICK d \in 1..depth : suffixes[i] = EndOf(Parent(i), d) /\ Unique(i, d)
    BY <1>6 DEF NamesInv, SuffixesUnique
  <2>2. PICK e \in 1..depth : suffixes[k] = EndOf(Parent(k), e) /\ Unique(k, e)
    BY <1>4, <1>6 DEF NamesInv, SuffixesUnique
  <2>3. d <= e \/ e <= d
    BY <1>1
  <2>4. d \in Nat \ {0} /\ e \in Nat \ {0}
    BY <1>1
  <2>5. CASE d <= e
    BY <1>1, <1>2, <1>4, <2>1, <2>2, <2>4, <2>5, SuffixesDiffer
  <2>6. CASE e <= d
    BY <1>1, <1>2, <1>4, <2>1, <2>2, <2>4, <2>6, SuffixesDiffer
  <2> QED
    BY <2>3, <2>5, <2>6
<1> QED
  BY <1>5, <1>6

\* NamesIdentify: what prettify shows, resolve leads back to the directory it was
\* shown for, unless one of its name is beside it.
THEOREM NamesLead == NamesSpec => []NamesIdentify
<1>1. NamesInv => NamesIdentify
  BY NamesDiffer DEF NamesIdentify, Resolved
<1> QED
  BY <1>1, NamesInvariant, PTL
\* The order of the entries, key by key.
LEMMA BeforeIs ==
    ASSUME NEW i, NEW j
    PROVE  LET s == SortKey(i)
               t == SortKey(j)
           IN Before(i, j) <=> \/ s[1] < t[1]
                               \/ s[1] = t[1] /\ s[2] < t[2]
                               \/ s[1] = t[1] /\ s[2] = t[2] /\ s[3] < t[3]
                               \/ s[1] = t[1] /\ s[2] = t[2] /\ s[3] = t[3] /\ s[4] < t[4]
<1>1. 1..4 = {1, 2, 3, 4} /\ 1..1-1 = {} /\ 1..2-1 = {1} /\ 1..3-1 = {1, 2} /\ 1..4-1 = {1, 2, 3}
  OBVIOUS
<1> DEFINE Upto(k) == \A l \in 1..k - 1 : SortKey(i)[l] = SortKey(j)[l]
<1>2. /\ Upto(1)
      /\ Upto(2) <=> SortKey(i)[1] = SortKey(j)[1]
      /\ Upto(3) <=> SortKey(i)[1] = SortKey(j)[1] /\ SortKey(i)[2] = SortKey(j)[2]
      /\ Upto(4) <=> /\ SortKey(i)[1] = SortKey(j)[1] /\ SortKey(i)[2] = SortKey(j)[2]
                     /\ SortKey(i)[3] = SortKey(j)[3]
  BY <1>1
<1>3. Before(i, j) <=> \E k \in {1, 2, 3, 4} : Upto(k) /\ SortKey(i)[k] < SortKey(j)[k]
  BY <1>1 DEF Before
<1> HIDE DEF Upto
<1> QED
  BY <1>2, <1>3

\* The parts of a key.
LEMMA SortKeyIs ==
    ASSUME paths \in Seq(Paths), NEW i \in DOMAIN paths
    PROVE  /\ SortKey(i)[1] = Lower[Group(i)] /\ SortKey(i)[1] \in Nat
           /\ SortKey(i)[2] = IF IsWorktree(i) THEN 1 ELSE 0
           /\ ~IsWorktree(i) => SortKey(i)[3] = 0 /\ SortKey(i)[4] = i
BY PathIs DEF SortKey, Group

\* A worktree follows the last repository of its name, with nothing between but
\* worktrees of that name.
LEMMA FamilyHas ==
    ASSUME paths \in Seq(Paths), NEW r \in DOMAIN paths, NEW w \in DOMAIN paths,
           ~IsWorktree(r), paths[w].of = paths[r].base,
           \A v \in DOMAIN paths :
              Lower[Group(v)] = Lower[paths[r].base] => Group(v) = paths[r].base
    PROVE  \E s \in DOMAIN paths : ~IsWorktree(s) /\ w \in Family(s)
<1> DEFINE R == {s \in DOMAIN paths : ~IsWorktree(s) /\ paths[s].base = paths[r].base}
<1>1. PICK s \in R : \A k \in R : k <= s
  <2>1. Len(paths) \in Nat /\ R \subseteq 1..Len(paths) /\ r \in R
    BY LenProperties
  <2> HIDE DEF R
  <2> QED
    BY <2>1, LastPlace
<1>2. IsWorktree(w) /\ Group(w) = paths[r].base /\ Group(s) = paths[r].base /\ ~IsWorktree(s)
      /\ paths[s].base = paths[r].base
  BY PathIs, PrettyAssumption DEF IsWorktree, Group
<1>3. Before(s, w)
  BY <1>2, BeforeIs, SortKeyIs
<1>4. ASSUME NEW v \in DOMAIN paths, Before(s, v), Before(v, w)
      PROVE  paths[v].of = paths[s].base
  <2>1. SortKey(s)[1] <= SortKey(v)[1] /\ SortKey(v)[1] <= SortKey(w)[1]
    BY <1>4, BeforeIs, SortKeyIs
  <2>2. Lower[Group(v)] = Lower[paths[r].base]
    BY <1>2, <2>1, SortKeyIs
  <2>3. Group(v) = paths[r].base
    BY <2>2
  <2>4. CASE IsWorktree(v)
    BY <1>2, <2>3, <2>4 DEF Group
  <2>5. CASE ~IsWorktree(v)
    <3>1. v \in R /\ v \in Nat /\ s \in Nat /\ v <= s
      BY <1>1, <2>3, <2>5, PathIs DEF Group
    <3>2. s < v
      BY <1>2, <1>4, <2>2, <2>5, <3>1, BeforeIs, SortKeyIs
    <3> QED
      BY <3>1, <3>2
  <2> QED
    BY <2>4, <2>5
<1>5. w \in Family(s)
  BY <1>2, <1>3, <1>4 DEF Family, Group, IsWorktree
<1> QED
  BY <1>2, <1>5

\* FamiliesTogether: build_tree_output lists every worktree under a repository of its
\* name, if one is found and no other name sorts between for its case.
THEOREM FamiliesStayTogether == NamesSpec => []FamiliesTogether
<1>1. NamesInv => FamiliesTogether
  BY FamilyHas DEF NamesInv, NamesTypeOK, FamiliesTogether
<1> QED
  BY <1>1, NamesInvariant, PTL

\* NamesTypeOK: every directory found has its suffix.
THEOREM NamesTypeCorrect == NamesSpec => []NamesTypeOK
BY NamesInvariant, PTL DEF NamesInv

\* NamesLeadBack: what the pretty names are for.
THEOREM PrettyNamesLeadBack == NamesSpec => []NamesLeadBack
BY NamesLead, FamiliesStayTogether, PTL DEF NamesLeadBack
===============================================================================
