------------------------------ MODULE LedgerReplay -----------------------------
(***************************************************************************)
(* Ledger::active_tasks of tam-cli/src/ledger.rs: the loop that replays    *)
(* the log, event by event, into a map of tasks and a set of dropped       *)
(* names, and leaves the dropped ones out at the end.  Ledger says what an *)
(* event does to the tasks; this module runs both side by side.            *)
(***************************************************************************)
EXTENDS Ledger

VARIABLES
    tasks,    \* the map of tasks: a task that was dropped stays in it
    dropped,  \* the set of dropped names
    view      \* what the same events make of the tasks in Ledger

replay == <<tasks, dropped, view>>

\* A line that is no event: read_events skips it, and an empty one.
Malformed == [type |-> "malformed"]

Events ==
    {Malformed} \cup
    {TaskCreated(n, d, o) : n \in Names, d \in Dirs, o \in BOOLEAN}
        \cup UNION {{AgentRunStarted(n), AgentRunEnded(n), WorktreeDeleted(n),
                     TaskDropped(n)} : n \in Names}

Init ==
    /\ tasks = [n \in Names |-> None]
    /\ dropped = {}
    /\ view = [n \in Names |-> None]

-----------------------------------------------------------------------------
(* The body of the loop *)

\* Mutant of Create: a name once dropped stays dropped.
CreateStaysDropped(e) ==
    /\ e.type = "task_created"
    /\ tasks' = [tasks EXCEPT ![e.task] = [dir |-> e.dir, owned |-> e.owned, runs |-> 0]]
    /\ UNCHANGED dropped

\* A created task replaces one of its name, and is no longer dropped.
Create(e) ==
    /\ e.type = "task_created"
    /\ tasks' = [tasks EXCEPT ![e.task] = [dir |-> e.dir, owned |-> e.owned, runs |-> 0]]
    /\ dropped' = dropped \ {e.task}

\* A run is counted for a task in the map, a dropped one too.
CountRun(e) ==
    /\ e.type = "agent_run_started"
    /\ tasks' = IF tasks[e.task] # None
                THEN [tasks EXCEPT ![e.task].runs = OneMore(@)] ELSE tasks
    /\ UNCHANGED dropped

\* A dropped name is remembered, whether it is in the map or not.
Drop(e) ==
    /\ e.type = "task_dropped"
    /\ dropped' = dropped \cup {e.task}
    /\ UNCHANGED tasks

\* The end of a run changes a time; the deletion of a worktree, nothing; what is no
\* event does not come this far.
Ignore(e) ==
    /\ e.type \in {"agent_run_ended", "worktree_deleted", "malformed"}
    /\ UNCHANGED <<tasks, dropped>>

Replay(e) ==
    /\ Create(e) \/ CountRun(e) \/ Drop(e) \/ Ignore(e)
    /\ view' = Apply(view, e)

Next == \E e \in Events : Replay(e)

Spec == Init /\ [][Next]_replay

-----------------------------------------------------------------------------
(* Properties *)

\* The variables have their types: runs stay counted up to the bound.
TypeOK ==
    /\ tasks \in Tasks
    /\ dropped \subseteq Names
    /\ view \in Tasks

\* The filter at the end.
ActiveTasks == [n \in Names |-> IF n \in dropped THEN None ELSE tasks[n]]

\* Whatever the order of the events of all the processes that write the log -- a
\* run of a dropped task, a drop of no task, a task created twice -- the loop
\* yields the tasks that applying each event to the tasks yields.
ReplayAgrees == ActiveTasks = view
===============================================================================
