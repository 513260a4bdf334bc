-------------------------------- MODULE Ledger --------------------------------
(***************************************************************************)
(* What one event of the task ledger of tam-cli/src/ledger.rs does to what *)
(* is derived from it.  The file is a log that every command, the terminal *)
(* interface and the bridge append to.  Two things are read from it: the   *)
(* active tasks, which a state of the ledger is here, a function from names *)
(* to tasks; and, by the session pickers, every run a name ever had, which *)
(* no event resets.  LedgerReplay compares the first with the loop the code *)
(* replays the log with.                                                   *)
(***************************************************************************)
EXTENDS Naturals

CONSTANTS
    Names,      \* names a task can have
    Dirs,       \* directories a task can be bound to
    MaxRuns,    \* bound: runs are counted up to here, and "this many or more"
    None        \* Option::None

ASSUME LedgerAssumption == MaxRuns \in Nat \ {0}

-----------------------------------------------------------------------------
(* Events and tasks *)

Snapshot == [dir : Dirs, owned : BOOLEAN, runs : 0..MaxRuns]

\* The tasks that are active: created and not dropped since.
Tasks == [Names -> Snapshot \cup {None}]

TaskCreated(n, d, o) == [type |-> "task_created", task |-> n, dir |-> d, owned |-> o]
AgentRunStarted(n) == [type |-> "agent_run_started", task |-> n]
AgentRunEnded(n) == [type |-> "agent_run_ended", task |-> n]
WorktreeDeleted(n) == [type |-> "worktree_deleted", task |-> n]
TaskDropped(n) == [type |-> "task_dropped", task |-> n]

\* A run more, counted up to the bound.
OneMore(r) == IF r < MaxRuns THEN r + 1 ELSE r

\* The tasks after one more event.  A run is counted only for a task there is;
\* the end of a run and the deletion of a worktree leave no trace but a time.
Apply(tasks, e) ==
    CASE e.type = "task_created" ->
            [tasks EXCEPT ![e.task] = [dir |-> e.dir, owned |-> e.owned, runs |-> 0]]
      [] e.type = "agent_run_started" /\ tasks[e.task] # None ->
            [tasks EXCEPT ![e.task].runs = OneMore(@)]
      [] e.type = "task_dropped" ->
            [tasks EXCEPT ![e.task] = None]
      [] OTHER -> tasks

-----------------------------------------------------------------------------
(* What is asked of them *)

\* task_runs: the events of the whole log that are runs of the name, whether a
\* task of the name was created or dropped since or not.
IsRun(e, n) == e.type = "agent_run_started" /\ e.task = n

Exists(tasks, n) == tasks[n] # None

BoundTo(tasks, d) == {n \in Names : Exists(tasks, n) /\ tasks[n].dir = d}
===============================================================================
