------------------------------- MODULE TaskFlows -------------------------------
(***************************************************************************)
(* The commands that work on tasks: `tam new`, `run`, `stop` and `drop` of *)
(* tam-cli/src/main.rs, the same four of the terminal interface            *)
(* (tui/mod.rs) and the spawn and kill of the web bridge (serve.rs), over  *)
(* three stores nobody locks together: the ledger, the git worktrees       *)
(* (tam-worktree/src/worktree.rs) and the agents of the daemon.            *)
(*                                                                         *)
(* Each command loads the ledger once and then goes through its steps with *)
(* what it read; a step is one operation on one store.  Commands of        *)
(* different processes interleave freely, and a process can fail or die    *)
(* between any two steps.  The names two commands have worked on at the    *)
(* same time are remembered in raced: only RunsRecorded is promised of     *)
(* them.                                                                   *)
(***************************************************************************)
EXTENDS Integers, FiniteSets

CONSTANTS
    Names,      \* names a task can have
    Plain,      \* directories that are no worktree of tam's
    Clis,       \* processes running a command line
    Tuis,       \* terminal interfaces
    Bridges,    \* requests a web bridge serves at the same time
    MaxRuns,    \* bound: runs of a task that are told apart
    None        \* Option::None

Procs == Clis \cup Tuis \cup Bridges

\* worktree_root/{project}--{name}, in one project.
Target(n) == <<"worktree", n>>
Targets == {Target(n) : n \in Names}
Dirs == Plain \cup Targets

L == INSTANCE Ledger

ASSUME FlowsAssumption ==
    /\ MaxRuns \in Nat \ {0}
    /\ IsFiniteSet(Procs)
    /\ Plain \cap Targets = {}
    /\ Clis \cap Tuis = {}
    /\ Clis \cap Bridges = {}
    /\ Tuis \cap Bridges = {}
    /\ None \notin L!Snapshot
    /\ None \notin [dir : Dirs, by : Procs]

VARIABLES
    ledger,     \* the active tasks the ledger file yields
    worktrees,  \* names whose worktree directory exists
    agents,     \* what the daemon runs: the directory its launch named, and
                \* the process that asked for it
    cmd,        \* the command each process is in the middle of
    seen,       \* the task list each terminal interface has loaded
    left,       \* worktrees a command that failed or died left behind
    stray,      \* agents launched by a bridge request that recorded no task, and
                \* those the drop of their task did not reach
    raced,      \* names two commands have worked on at the same time
    owed        \* for each name, the launches the log holds no run of and no
                \* failure accounts for: launches less runs

log == <<ledger, owed>>
stores == <<log, worktrees, agents>>
history == <<left, stray, raced>>
vars == <<ledger, worktrees, agents, cmd, seen, left, stray, raced, owed>>

-----------------------------------------------------------------------------
(* The types *)

Steps == {"check", "resolve", "add", "init", "commands", "record", "spawn",
          "count", "kill", "look", "delete", "branch", "deleted", "forget",
          "load", "adopt"}

Command == [at : Steps, name : Names, dir : Dirs, owned : BOOLEAN]

\* From the launch of an agent to the record of its run.
ToRecord == {"load", "adopt", "count"}

\* Between two commands, and, for a terminal interface, about to load its list.
Idle == [at |-> "idle"]
Reloading == [at |-> "reload"]

\* What a process does when a command is over: the terminal interface reloads
\* its task list after each of its commands, before it looks at a key again.
Rest(p) == IF p \in Tuis THEN Reloading ELSE Idle

Busy(p) == cmd[p].at \in Steps
On(p, n) == Busy(p) /\ cmd[p].name = n
At(p, step) == cmd[p].at = step

Init ==
    /\ ledger = [n \in Names |-> None]
    /\ worktrees = {}
    /\ agents = [n \in Names |-> None]
    /\ cmd = [p \in Procs |-> Rest(p)]
    /\ seen = [p \in Tuis |-> ledger]
    /\ left = {}
    /\ stray = {}
    /\ raced = {}
    /\ owed = [n \in Names |-> 0]

-----------------------------------------------------------------------------
(* Beginning, going on and ending *)

Goto(p, step) == cmd' = [cmd EXCEPT ![p].at = step]
End(p) == cmd' = [cmd EXCEPT ![p] = Rest(p)]

\* A command on n begins.  It races with every other command on n, and a
\* command chosen from a list races with what happened to n since.
Begin(p, n, step, d, o) ==
    /\ cmd[p] = Idle
    /\ cmd' = [cmd EXCEPT ![p] = [at |-> step, name |-> n, dir |-> d, owned |-> o]]
    /\ raced' = IF \/ \E q \in Procs \ {p} : On(q, n)
                   \/ p \in Tuis /\ seen[p][n] # ledger[n]
                THEN raced \cup {n} ELSE raced

\* One event appended to the file; a run is one launch less to record.
Append(e) ==
    /\ ledger' = L!Apply(ledger, e)
    /\ owed' = [n \in Names |-> IF L!IsRun(e, n) THEN owed[n] - 1 ELSE owed[n]]

\* The daemon has launched an agent: a run is to be recorded.
Launch(p, n, d) ==
    /\ agents' = [agents EXCEPT ![n] = [dir |-> d, by |-> p]]
    /\ owed' = [owed EXCEPT ![n] = @ + 1]

Running(n) == IF agents[n] # None THEN {n} ELSE {}
NoAgent(n) == agents' = [agents EXCEPT ![n] = None]

\* Mutant of Forget: the missing task of an agent outlives the agent.
ForgetNothing(n) == UNCHANGED stray

\* The agent of n is gone, and with it what was missing about it.
Forget(n) == stray' = stray \ {n}

-----------------------------------------------------------------------------
(* New: the task is created, then its agent launched *)

\* A directory a borrowed task can be bound to: any that exists.
Exists(d) == d \in Plain \/ \E n \in worktrees : d = Target(n)

\* `tam new`: an owned task gets a worktree of its own, a borrowed one the
\* working directory, unless a task is bound to it.
BeginNew(p, n) ==
    /\ p \in Clis
    /\ ~ L!Exists(ledger, n)
    /\ \/ Begin(p, n, "check", Target(n), TRUE)
       \/ \E d \in Dirs : /\ Exists(d)
                          /\ L!BoundTo(ledger, d) = {}
                          /\ Begin(p, n, "record", d, FALSE)
    /\ UNCHANGED <<stores, seen, left, stray>>

\* do_new_task does not look for a task bound to the directory.
NewInTui(p, n) ==
    /\ p \in Tuis
    /\ ~ L!Exists(ledger, n)
    /\ \/ Begin(p, n, "check", Target(n), TRUE)
       \/ \E d \in Dirs : Exists(d) /\ Begin(p, n, "record", d, FALSE)
    /\ UNCHANGED <<stores, seen, left, stray>>

\* create bails out when the directory exists, before it goes to the network.
CheckTarget(p) ==
    /\ At(p, "check")
    /\ IF cmd[p].name \in worktrees THEN End(p) ELSE Goto(p, "resolve")
    /\ UNCHANGED <<stores, seen, history>>

\* Fetching, whose failure is ignored; then the branch: a local one of the name, a
\* remote one, or a new one from the base given or the default branch, which may
\* not be found.
ResolveBranch(p) ==
    /\ At(p, "resolve")
    /\ Goto(p, "add") \/ End(p)
    /\ UNCHANGED <<stores, seen, history>>

\* git worktree add refuses a directory that exists.
CanAdd(n) == n \notin worktrees

\* It adds nothing when it fails.
AddWorktree(p) ==
    /\ At(p, "add")
    /\ \/ /\ CanAdd(cmd[p].name)
          /\ worktrees' = worktrees \cup {cmd[p].name}
          /\ Goto(p, "init")
       \/ End(p) /\ UNCHANGED worktrees
    /\ UNCHANGED <<log, agents, seen, history>>

\* The terminal interface ignores a failure of the initialisation; `tam new` ends
\* with it, the worktree made and no task recorded.
InitFails(p) ==
    IF p \in Tuis THEN Goto(p, "record") /\ UNCHANGED left
    ELSE End(p) /\ left' = left \cup ({cmd[p].name} \cap worktrees)

\* The configuration is read and the files it names are copied, if it says so.
InitWorktree(p) ==
    /\ At(p, "init")
    /\ \/ Goto(p, "commands") /\ UNCHANGED left
       \/ InitFails(p)
    /\ UNCHANGED <<stores, seen, stray, raced>>

\* Its commands run in the worktree, up to the first that fails.
RunCommands(p) ==
    /\ At(p, "commands")
    /\ \/ Goto(p, "record") /\ UNCHANGED left
       \/ InitFails(p)
    /\ UNCHANGED <<stores, seen, stray, raced>>

\* The task is in the ledger; --no-start stops here.
RecordTask(p) ==
    /\ At(p, "record")
    /\ Append(L!TaskCreated(cmd[p].name, cmd[p].dir, cmd[p].owned))
    /\ \/ Goto(p, "spawn")
       \/ p \in Clis /\ End(p)
    /\ UNCHANGED <<worktrees, agents, seen, history>>

\* The daemon launches an agent unless the name is taken.
Spawn(p) ==
    /\ At(p, "spawn")
    /\ IF agents[cmd[p].name] = None
       THEN Launch(p, cmd[p].name, cmd[p].dir) /\ Goto(p, "count")
       ELSE End(p) /\ UNCHANGED <<agents, owed>>
    /\ UNCHANGED <<ledger, worktrees, seen, history>>

RecordRun(p) ==
    /\ At(p, "count")
    /\ Append(L!AgentRunStarted(cmd[p].name))
    /\ End(p)
    /\ UNCHANGED <<worktrees, agents, seen, history>>

-----------------------------------------------------------------------------
(* Run and stop *)

\* `tam run` takes the directory from the ledger it has just loaded, and may ask
\* for a session to resume before it goes on.
BeginRun(p, n) ==
    /\ p \in Clis
    /\ L!Exists(ledger, n)
    /\ Begin(p, n, "spawn", ledger[n].dir, FALSE)
    /\ UNCHANGED <<stores, seen, left, stray>>

\* The terminal interface takes it from the list on the screen.
RunInTui(p, n) ==
    /\ p \in Tuis
    /\ L!Exists(seen[p], n)
    /\ Begin(p, n, "spawn", seen[p][n].dir, FALSE)
    /\ UNCHANGED <<stores, seen, left, stray>>

\* The daemon kills the agent and answers; the end of the run is then recorded.
StopAgent(p, n) ==
    /\ cmd[p] = Idle
    /\ agents[n] # None
    /\ NoAgent(n)
    /\ Forget(n)
    /\ Append(L!AgentRunEnded(n))
    /\ cmd' = [cmd EXCEPT ![p] = Rest(p)]
    /\ UNCHANGED <<worktrees, seen, left, raced>>

\* `tam stop`, by name or for the task of the working directory.
Stop(p, n) == p \in Clis /\ StopAgent(p, n)

\* s in the terminal interface.
StopInTui(p, n) == p \in Tuis /\ L!Exists(seen[p], n) /\ StopAgent(p, n)

\* The bridge kills without recording the end of the run.
StopByBridge(p, n) ==
    /\ p \in Bridges
    /\ cmd[p] = Idle
    /\ agents[n] # None
    /\ NoAgent(n)
    /\ Forget(n)
    /\ UNCHANGED <<log, worktrees, cmd, seen, left, raced>>

\* The agent exits by itself, or its daemon dies.
AgentExits(n) ==
    /\ agents[n] # None
    /\ NoAgent(n)
    /\ Forget(n)
    /\ UNCHANGED <<log, worktrees, cmd, seen, left, raced>>

-----------------------------------------------------------------------------
(* Drop *)

\* `tam drop` keeps what the ledger said of the task when it began.
BeginDrop(p, n) ==
    /\ p \in Clis
    /\ L!Exists(ledger, n)
    /\ Begin(p, n, "kill", ledger[n].dir, ledger[n].owned)
    /\ UNCHANGED <<stores, seen, left, stray>>

\* d, confirmed, on a task of the list on the screen.
DropInTui(p, n) ==
    /\ p \in Tuis
    /\ L!Exists(seen[p], n)
    /\ Begin(p, n, "kill", seen[p][n].dir, FALSE)
    /\ UNCHANGED <<stores, seen, left, stray>>

\* Mutant of ToDelete: whose the worktree is does not matter.
ToDeleteAny(n, owned) == n \in worktrees

\* Whether there is a worktree to delete; the directory is only deleted when it
\* is there.
ToDelete(n, owned) == owned /\ n \in worktrees

\* The terminal interface looks the task up; `tam drop` knows it already.
AfterKill(p) ==
    IF p \in Tuis THEN "look"
    ELSE IF ToDelete(cmd[p].name, cmd[p].owned) THEN "delete"
    ELSE IF cmd[p].owned THEN "deleted" ELSE "forget"

\* Mutant of KillAgent: the agent is left running.
KillNoAgent(p) ==
    /\ At(p, "kill")
    /\ Goto(p, AfterKill(p))
    /\ UNCHANGED <<stores, seen, history>>

\* An error is ignored: there is no such agent, or the daemon cannot be reached.
KillAgent(p) ==
    /\ At(p, "kill")
    /\ \/ NoAgent(cmd[p].name) /\ Forget(cmd[p].name)
       \/ stray' = stray \cup Running(cmd[p].name) /\ UNCHANGED agents
    /\ Goto(p, AfterKill(p))
    /\ UNCHANGED <<log, worktrees, seen, left, raced>>

\* The terminal interface loads the ledger after the kill.
LookUp(p) ==
    /\ At(p, "look")
    /\ LET n == cmd[p].name
       IN Goto(p, IF L!Exists(ledger, n) /\ ToDelete(n, ledger[n].owned)
                  THEN "delete" ELSE "forget")
    /\ UNCHANGED <<stores, seen, history>>

\* Mutant of AfterFailedDelete: `tam drop` goes on, too.
AfterFailedDeleteGoOn(p) == Goto(p, "forget")

\* What follows a deletion that failed: `tam drop` ends, and the task is still
\* active; the terminal interface goes on and drops it.
AfterFailedDelete(p) == IF p \in Tuis THEN Goto(p, "forget") ELSE End(p)

\* worktree::delete, with force: the directory is removed, or it is not, or is gone
\* already.
DeleteWorktree(p) ==
    /\ At(p, "delete")
    /\ LET n == cmd[p].name
       IN \/ /\ n \in worktrees
             /\ worktrees' = worktrees \ {n}
             /\ left' = left \ {n}
             /\ Goto(p, "branch")
          \/ /\ left' = IF p \in Tuis THEN left \cup ({n} \cap worktrees) ELSE left
             /\ AfterFailedDelete(p)
             /\ UNCHANGED worktrees
    /\ UNCHANGED <<log, agents, seen, stray, raced>>

\* What it does for the branch then never fails: see TaskBranches.
CleanBranch(p) ==
    /\ At(p, "branch")
    /\ Goto(p, IF p \in Tuis THEN "forget" ELSE "deleted")
    /\ UNCHANGED <<stores, seen, history>>

\* Of an owned task, `tam drop` notes the deletion, whether there was one or not.
RecordDeletion(p) ==
    /\ At(p, "deleted")
    /\ Append(L!WorktreeDeleted(cmd[p].name))
    /\ Goto(p, "forget")
    /\ UNCHANGED <<worktrees, agents, seen, history>>

RecordDrop(p) ==
    /\ At(p, "forget")
    /\ Append(L!TaskDropped(cmd[p].name))
    /\ End(p)
    /\ UNCHANGED <<worktrees, agents, seen, history>>

-----------------------------------------------------------------------------
(* The web bridge: the agent is launched, then made a task *)

BeginBridge(p, n) ==
    /\ p \in Bridges
    /\ agents[n] = None
    /\ \E d \in Dirs : /\ Exists(d)
                       /\ Begin(p, n, "load", d, FALSE)
                       /\ Launch(p, n, d)
    /\ UNCHANGED <<ledger, worktrees, seen, left, stray>>

\* Mutant of BridgeLoads: the request never makes its agent a task.
BridgeNeverAdopts(p) ==
    /\ At(p, "load")
    /\ Goto(p, "count")
    /\ UNCHANGED <<stores, seen, history>>

\* Mutant of BridgeLoads: the request creates a task of a name there is.
BridgeAlwaysAdopts(p) ==
    /\ At(p, "load")
    /\ Goto(p, "adopt")
    /\ UNCHANGED <<stores, seen, history>>

\* record_spawn looks for a task of the name.
BridgeLoads(p) ==
    /\ At(p, "load")
    /\ Goto(p, IF L!Exists(ledger, cmd[p].name) THEN "count" ELSE "adopt")
    /\ UNCHANGED <<stores, seen, history>>

\* Mutant of Adopt: the run is not recorded after the task.
AdoptOnly(p) ==
    /\ At(p, "adopt")
    /\ Append(L!TaskCreated(cmd[p].name, cmd[p].dir, cmd[p].owned))
    /\ End(p)
    /\ UNCHANGED <<worktrees, agents, seen, history>>

Adopt(p) ==
    /\ At(p, "adopt")
    /\ Append(L!TaskCreated(cmd[p].name, cmd[p].dir, cmd[p].owned))
    /\ Goto(p, "count")
    /\ UNCHANGED <<worktrees, agents, seen, history>>

-----------------------------------------------------------------------------
(* The terminal interface, failures, and the world *)

\* build_task_list, when the interface starts and after each of its commands.
Reload(p) ==
    /\ cmd[p] = Reloading
    /\ seen' = [seen EXCEPT ![p] = ledger]
    /\ cmd' = [cmd EXCEPT ![p] = Idle]
    /\ UNCHANGED <<stores, history>>

\* A command fails, the daemon cannot be reached, the ledger cannot be written,
\* or the process is interrupted: nothing of what was done is undone.
Abandon(p) ==
    /\ Busy(p)
    /\ LET n == cmd[p].name
       IN /\ left' = IF At(p, "init") \/ At(p, "commands") \/ (At(p, "record") /\ cmd[p].owned)
                     THEN left \cup ({n} \cap worktrees) ELSE left
          /\ stray' = IF At(p, "load") \/ At(p, "adopt")
                      THEN stray \cup Running(n) ELSE stray
          /\ owed' = IF cmd[p].at \in ToRecord THEN [owed EXCEPT ![n] = @ - 1] ELSE owed
    /\ End(p)
    /\ UNCHANGED <<ledger, worktrees, agents, seen, raced>>

\* Somebody deletes a worktree without tam.
RemovedByHand(n) ==
    /\ n \in worktrees
    /\ worktrees' = worktrees \ {n}
    /\ left' = left \ {n}
    /\ UNCHANGED <<log, agents, cmd, seen, stray, raced>>

Process(p) ==
    \/ \E n \in Names : \/ BeginNew(p, n) \/ NewInTui(p, n)
                        \/ BeginRun(p, n) \/ RunInTui(p, n)
                        \/ Stop(p, n) \/ StopInTui(p, n) \/ StopByBridge(p, n)
                        \/ BeginDrop(p, n) \/ DropInTui(p, n)
                        \/ BeginBridge(p, n)
    \/ CheckTarget(p) \/ ResolveBranch(p) \/ AddWorktree(p)
    \/ InitWorktree(p) \/ RunCommands(p) \/ RecordTask(p)
    \/ Spawn(p) \/ RecordRun(p)
    \/ KillAgent(p) \/ LookUp(p) \/ DeleteWorktree(p)
    \/ CleanBranch(p) \/ RecordDeletion(p) \/ RecordDrop(p)
    \/ BridgeLoads(p) \/ Adopt(p)
    \/ Reload(p) \/ Abandon(p)

Next ==
    \/ \E p \in Procs : Process(p)
    \/ \E n \in Names : AgentExits(n) \/ RemovedByHand(n)

Spec == Init /\ [][Next]_vars

-----------------------------------------------------------------------------
(* Properties *)

Active(n) == L!Exists(ledger, n)
Owns(n) == Active(n) /\ ledger[n].owned
Amid(n, steps) == \E p \in Procs : On(p, n) /\ cmd[p].at \in steps

\* The variables have their types; what is remembered as left behind exists, and
\* what is remembered as missing is about an agent that runs.
TypeOK ==
    /\ ledger \in L!Tasks
    /\ worktrees \subseteq Names
    /\ agents \in [Names -> [dir : Dirs, by : Procs] \cup {None}]
    /\ cmd \in [Procs -> Command \cup {Idle, Reloading}]
    /\ seen \in [Tuis -> L!Tasks]
    /\ left \subseteq worktrees
    /\ stray \subseteq {n \in Names : agents[n] # None}
    /\ raced \subseteq Names
    /\ owed \in [Names -> Int]

\* A worktree that exists belongs to an active task that owns it, or to a `new`
\* that has not recorded its task yet, or a command that could not finish left
\* it behind: no sequence of commands loses track of one.
WorktreesAccounted ==
    \A n \in worktrees \ raced :
        Owns(n) \/ Amid(n, {"init", "commands", "record"}) \/ n \in left

\* An agent that runs has an active task, or its bridge request is about to
\* record one, or failed to, or the daemon was out of reach when the task was
\* dropped: no drop that goes well leaves an agent nobody can name.
AgentsAccounted ==
    \A n \in Names \ raced :
        agents[n] # None => Active(n) \/ Amid(n, {"load", "adopt"}) \/ n \in stray

\* An agent launched for a task by a command runs where the task is.  (One the
\* bridge launches under the name of a task runs where its request says.)
InTaskDir ==
    \A n \in Names \ raced :
        agents[n] # None /\ Active(n) /\ agents[n].by \notin Bridges /\ n \notin stray
            => agents[n].dir = ledger[n].dir

\* Commands whose launch has gone well and whose run is not recorded yet.
Pending(n) == {p \in Procs : On(p, n) /\ cmd[p].at \in ToRecord}

\* The log, in which the session pickers look for the runs of a name, holds one
\* run for each agent launched under the name, and no other: what it lacks are
\* those of the commands about to record theirs, and of those that failed or died
\* before they did.  Races are no exception.
RunsRecorded == \A n \in Names : owed[n] = Cardinality(Pending(n))

\* A task keeps its directory, and its owner keeps owning it, until it is
\* dropped: creating never replaces a task that is there.
TaskIsStable ==
    [][\A n \in Names \ raced' :
          Active(n) /\ L!Exists(ledger', n)
            => /\ ledger'[n].dir = ledger[n].dir
               /\ ledger'[n].owned = ledger[n].owned]_vars

\* tam deletes no worktree but that of a task that owns it, whoever made it and
\* whatever is bound to it now.
DeletesOnlyItsOwn ==
    [][\A n \in worktrees \ (worktrees' \cup raced) : Owns(n) \/ RemovedByHand(n)]_vars

\* tam_manifesto.md, "Directory uniqueness": "At most one active task can be
\* bound to a directory."
OneTaskPerDirectory ==
    \A m, n \in Names :
        Active(m) /\ Active(n) /\ ledger[m].dir = ledger[n].dir => m = n
===============================================================================
