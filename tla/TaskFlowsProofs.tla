---------------------------- MODULE TaskFlowsProofs ----------------------------
(***************************************************************************)
(* What is proved of the commands on tasks for any number of processes,    *)
(* names and directories.                                                  *)
(***************************************************************************)
EXTENDS TaskFlows, FiniteSetTheorems, TLAPS

-----------------------------------------------------------------------------
(* Commands and ledger *)

\* What TypeOK says of the commands.
CmdOK == cmd \in [Procs -> Command \cup {Idle, Reloading}]

LEMMA BusyIsCommand ==
    ASSUME CmdOK, NEW p \in Procs
    PROVE  /\ Busy(p) <=> cmd[p] \in Command
           /\ Busy(p) => cmd[p].at \in Steps /\ cmd[p].name \in Names
                           /\ cmd[p].dir \in Dirs /\ cmd[p].owned \in BOOLEAN
           /\ ~Busy(p) => cmd[p] \in {Idle, Reloading}
<1>1. Idle.at \notin Steps /\ Reloading.at \notin Steps
  BY DEF Idle, Reloading, Steps
<1>2. cmd[p] \in Command \cup {Idle, Reloading}
  BY DEF CmdOK
<1> QED
  BY <1>1, <1>2 DEF Busy, Command

\* Going on changes the step of one command and nothing else of it.
LEMMA GotoEffect ==
    ASSUME CmdOK, NEW p \in Procs, Busy(p), NEW step \in Steps, Goto(p, step)
    PROVE  /\ CmdOK'
           /\ cmd'[p].at = step /\ cmd'[p].name = cmd[p].name
           /\ cmd'[p].dir = cmd[p].dir /\ cmd'[p].owned = cmd[p].owned
           /\ \A q \in Procs \ {p} : cmd'[q] = cmd[q]
<1>1. cmd[p] \in Command
  BY BusyIsCommand
<1>2. cmd' = [cmd EXCEPT ![p] = [cmd[p] EXCEPT !.at = step]]
  BY DEF Goto
<1>3. [cmd[p] EXCEPT !.at = step] \in Command
  BY <1>1 DEF Command
<1> QED
  BY <1>1, <1>2, <1>3 DEF CmdOK, Command

\* Ending leaves a process without a command.
LEMMA EndEffect ==
    ASSUME CmdOK, NEW p \in Procs, End(p)
    PROVE  /\ CmdOK'
           /\ ~Busy(p)'
           /\ \A q \in Procs \ {p} : cmd'[q] = cmd[q]
<1>1. Rest(p) \in {Idle, Reloading} /\ Rest(p).at \notin Steps
  BY DEF Rest, Idle, Reloading, Steps
<1>2. cmd'[p] = Rest(p) /\ CmdOK'
  BY <1>1 DEF End, CmdOK
<1> QED
  BY <1>1, <1>2 DEF End, CmdOK, Busy

\* Beginning gives an idle process a command.
LEMMA BeginEffect ==
    ASSUME CmdOK, NEW p \in Procs, NEW n \in Names, NEW step \in Steps,
           NEW d \in Dirs, NEW o \in BOOLEAN, Begin(p, n, step, d, o)
    PROVE  /\ CmdOK'
           /\ ~Busy(p)
           /\ cmd'[p] = [at |-> step, name |-> n, dir |-> d, owned |-> o]
           /\ \A q \in Procs \ {p} : cmd'[q] = cmd[q]
<1>1. [at |-> step, name |-> n, dir |-> d, owned |-> o] \in Command
  BY DEF Command
<1>2. cmd[p] = Idle /\ Idle.at \notin Steps
  BY DEF Begin, Idle, Steps
<1> QED
  BY <1>1, <1>2 DEF Begin, CmdOK, Busy

\* What the events do to the ledger.
LEMMA CreatedEffect ==
    ASSUME ledger \in L!Tasks, NEW n \in Names, NEW d \in Dirs, NEW o \in BOOLEAN,
           Append(L!TaskCreated(n, d, o))
    PROVE  /\ ledger' = [ledger EXCEPT ![n] = [dir |-> d, owned |-> o, runs |-> 0]]
           /\ ledger' \in L!Tasks
           /\ ledger'[n] # None /\ ledger'[n].dir = d /\ ledger'[n].owned = o
           /\ \A m \in Names \ {n} : ledger'[m] = ledger[m]
<1>1. ledger' = [ledger EXCEPT ![n] = [dir |-> d, owned |-> o, runs |-> 0]]
  BY DEF Append, L!Apply, L!TaskCreated
<1>2. [dir |-> d, owned |-> o, runs |-> 0] \in L!Snapshot
  BY FlowsAssumption DEF L!Snapshot
<1> QED
  BY <1>1, <1>2, FlowsAssumption DEF L!Tasks

LEMMA StartedEffect ==
    ASSUME ledger \in L!Tasks, NEW n \in Names, Append(L!AgentRunStarted(n))
    PROVE  /\ ledger' \in L!Tasks
           /\ ledger'[n] # None <=> ledger[n] # None
           /\ ledger[n] # None => /\ ledger'[n].dir = ledger[n].dir
                                  /\ ledger'[n].owned = ledger[n].owned
           /\ \A m \in Names \ {n} : ledger'[m] = ledger[m]
<1>1. CASE ledger[n] = None
  <2>1. ledger' = ledger
    BY <1>1 DEF Append, L!Apply, L!AgentRunStarted
  <2> QED
    BY <1>1, <2>1
<1>2. CASE ledger[n] # None
  <2>1. ledger[n] \in L!Snapshot
    BY <1>2 DEF L!Tasks
  <2>2. L!OneMore(ledger[n].runs) \in 1..MaxRuns
    BY <2>1, FlowsAssumption DEF L!Snapshot, L!OneMore
  <2>3. ledger' = [ledger EXCEPT ![n] = [ledger[n] EXCEPT !.runs = L!OneMore(@)]]
    BY <1>2 DEF Append, L!Apply, L!AgentRunStarted
  <2>4. [ledger[n] EXCEPT !.runs = L!OneMore(@)] \in L!Snapshot
    BY <2>1, <2>2 DEF L!Snapshot
  <2>5. ledger'[n] = [ledger[n] EXCEPT !.runs = L!OneMore(@)]
    BY <2>3 DEF L!Tasks
  <2> QED
    BY <1>2, <2>1, <2>3, <2>4, <2>5, FlowsAssumption DEF L!Tasks, L!Snapshot
<1> QED
  BY <1>1, <1>2

LEMMA DroppedEffect ==
    ASSUME ledger \in L!Tasks, NEW n \in Names, Append(L!TaskDropped(n))
    PROVE  /\ ledger' \in L!Tasks
           /\ ledger'[n] = None
           /\ \A m \in Names \ {n} : ledger'[m] = ledger[m]
<1>1. ledger' = [ledger EXCEPT ![n] = None]
  BY DEF Append, L!Apply, L!TaskDropped
<1> QED
  BY <1>1 DEF L!Tasks

LEMMA NotedEffect ==
    ASSUME NEW n \in Names,
           Append(L!AgentRunEnded(n)) \/ Append(L!WorktreeDeleted(n))
    PROVE  ledger' = ledger
BY DEF Append, L!Apply, L!AgentRunEnded, L!WorktreeDeleted

-----------------------------------------------------------------------------
(* Launches and the runs the log holds of them *)

\* What TypeOK says of the launches whose run is not in the log.
OwedOK == owed \in [Names -> Int]

\* What a step of p for n may do about them: nothing, or p has launched an agent
\* and is about to record its run, or p is no longer and the log lacks one less.
RunsMove(p, n) ==
    /\ \A q \in Procs, m \in Names :
         q # p \/ m # n => (q \in Pending(m)' <=> q \in Pending(m))
    /\ \/ owed' = owed /\ (p \in Pending(n)' <=> p \in Pending(n))
       \/ owed' = [owed EXCEPT ![n] = @ + 1] /\ p \notin Pending(n) /\ p \in Pending(n)'
       \/ owed' = [owed EXCEPT ![n] = @ - 1] /\ p \in Pending(n) /\ p \notin Pending(n)'

\* Of the events, a run is owed no more; the others are no runs.
LEMMA AppendOwes ==
    ASSUME OwedOK, NEW n \in Names
    PROVE  /\ Append(L!AgentRunStarted(n)) => owed' = [owed EXCEPT ![n] = @ - 1]
           /\ \A d, o : Append(L!TaskCreated(n, d, o)) => owed' = owed
           /\ \/ Append(L!AgentRunEnded(n)) \/ Append(L!WorktreeDeleted(n))
              \/ Append(L!TaskDropped(n))
              => owed' = owed
BY DEF OwedOK, Append, L!IsRun, L!AgentRunStarted, L!TaskCreated, L!AgentRunEnded,
   L!WorktreeDeleted, L!TaskDropped

\* A step that changes the command of p, which is on n, concerns no other run.
LEMMA PendingOf ==
    ASSUME NEW p \in Procs, NEW n \in Names, \A q \in Procs \ {p} : cmd'[q] = cmd[q],
           Busy(p) => cmd[p].name = n, Busy(p)' => cmd'[p].name = n
    PROVE  /\ \A q \in Procs, m \in Names :
                q # p \/ m # n => (q \in Pending(m)' <=> q \in Pending(m))
           /\ p \in Pending(n) <=> cmd[p].at \in ToRecord
           /\ p \in Pending(n)' <=> cmd'[p].at \in ToRecord
BY DEF Pending, On, Busy, ToRecord, Steps

\* So is what is owed an integer after it.
LEMMA MoveType ==
    ASSUME OwedOK, NEW p, NEW n \in Names, RunsMove(p, n)
    PROVE  OwedOK'
BY DEF OwedOK, RunsMove

LEMMA BeginMoves ==
    ASSUME CmdOK, OwedOK, NEW p \in Procs, NEW n \in Names,
           \/ BeginNew(p, n) \/ NewInTui(p, n) \/ BeginRun(p, n) \/ RunInTui(p, n)
           \/ BeginDrop(p, n) \/ DropInTui(p, n) \/ BeginBridge(p, n)
    PROVE  RunsMove(p, n)
<1>1. PICK step, d, o :
        /\ Begin(p, n, step, d, o)
        /\ \/ step \in {"check", "record", "spawn", "kill"} /\ owed' = owed
           \/ step = "load" /\ owed' = [owed EXCEPT ![n] = @ + 1]
  BY DEF BeginNew, NewInTui, BeginRun, RunInTui, BeginDrop, DropInTui, BeginBridge,
     Launch, stores, log
<1>2. /\ ~Busy(p)
      /\ cmd'[p].at = step /\ cmd'[p].name = n
      /\ \A q \in Procs \ {p} : cmd'[q] = cmd[q]
  BY <1>1 DEF Begin, CmdOK, Busy, Idle, Steps
<1>3. cmd[p].at \notin ToRecord
  BY <1>2 DEF Busy, ToRecord, Steps
<1>4. cmd'[p].at \in ToRecord <=> step = "load"
  BY <1>1, <1>2 DEF ToRecord
<1> QED
  BY <1>1, <1>2, <1>3, <1>4, PendingOf DEF RunsMove

-----------------------------------------------------------------------------
(* Type correctness *)

\* What TypeOK says of the stores and of what is remembered of them.
AgentsOK == agents \in [Names -> [dir : Dirs, by : Procs] \cup {None}]
MemoryOK ==
    /\ worktrees \subseteq Names
    /\ left \subseteq worktrees
    /\ stray \subseteq {n \in Names : agents[n] # None}
    /\ raced \subseteq Names

LEMMA TypeParts ==
    /\ TypeOK <=> /\ ledger \in L!Tasks /\ AgentsOK /\ CmdOK
                  /\ seen \in [Tuis -> L!Tasks] /\ MemoryOK /\ OwedOK
    /\ TypeOK' <=> /\ ledger' \in L!Tasks /\ AgentsOK' /\ CmdOK'
                   /\ seen' \in [Tuis -> L!Tasks] /\ MemoryOK' /\ OwedOK'
BY DEF TypeOK, AgentsOK, CmdOK, MemoryOK, OwedOK

\* An agent that goes is forgotten.
LEMMA AgentGoes ==
    ASSUME AgentsOK, MemoryOK, NEW n \in Names, NoAgent(n), Forget(n),
           UNCHANGED <<worktrees, left, raced>>
    PROVE  AgentsOK' /\ MemoryOK'
<1>1. AgentsOK'
  BY DEF AgentsOK, NoAgent
<1>2. \A m \in Names : agents'[m] = IF m = n THEN None ELSE agents[m]
  BY DEF AgentsOK, NoAgent
<1> QED
  BY <1>1, <1>2 DEF MemoryOK, Forget

\* So is a worktree.
LEMMA WorktreeGoes ==
    ASSUME MemoryOK, NEW n, worktrees' = worktrees \ {n}, left' = left \ {n},
           UNCHANGED <<agents, stray, raced>>
    PROVE  MemoryOK'
BY DEF MemoryOK

\* An agent that is launched is a new one.
LEMMA AgentComes ==
    ASSUME AgentsOK, MemoryOK, NEW n \in Names, NEW d \in Dirs, NEW p \in Procs,
           agents[n] = None, agents' = [agents EXCEPT ![n] = [dir |-> d, by |-> p]],
           UNCHANGED <<worktrees, left, stray>>,
           raced' = raced \/ raced' = raced \cup {n}
    PROVE  /\ AgentsOK' /\ MemoryOK'
           /\ agents'[n] # None /\ agents'[n].dir = d /\ agents'[n].by = p
           /\ \A m \in Names \ {n} : agents'[m] = agents[m]
<1>1. [dir |-> d, by |-> p] # None
  BY FlowsAssumption
<1> QED
  BY <1>1 DEF AgentsOK, MemoryOK

LEMMA InitType == Init => TypeOK
<1> SUFFICES ASSUME Init PROVE TypeOK
  OBVIOUS
<1>1. CmdOK
  BY DEF Init, CmdOK, Rest
<1>2. ledger \in L!Tasks /\ seen \in [Tuis -> L!Tasks]
  BY DEF Init, L!Tasks
<1>3. AgentsOK /\ MemoryOK /\ OwedOK
  BY DEF Init, AgentsOK, MemoryOK, OwedOK
<1> QED
  BY <1>1, <1>2, <1>3, TypeParts

\* A command begins with its types.
LEMMA BeginType ==
    ASSUME TypeOK, NEW p \in Procs, NEW n \in Names,
           \/ BeginNew(p, n) \/ NewInTui(p, n) \/ BeginRun(p, n) \/ RunInTui(p, n)
           \/ BeginDrop(p, n) \/ DropInTui(p, n) \/ BeginBridge(p, n)
    PROVE  TypeOK'
<1>0. /\ ledger \in L!Tasks /\ AgentsOK /\ CmdOK /\ seen \in [Tuis -> L!Tasks]
      /\ MemoryOK /\ OwedOK
  BY TypeParts
<1>1. PICK step \in Steps, d \in Dirs, o \in BOOLEAN : Begin(p, n, step, d, o)
  <2>1. Target(n) \in Dirs
    BY DEF Dirs, Targets
  <2>2. ASSUME NEW tasks \in L!Tasks, L!Exists(tasks, n)
        PROVE  tasks[n].dir \in Dirs /\ tasks[n].owned \in BOOLEAN
    BY <2>2 DEF L!Tasks, L!Exists, L!Snapshot
  <2>3. CASE BeginNew(p, n) \/ NewInTui(p, n)
    BY <2>1, <2>3 DEF BeginNew, NewInTui, Steps
  <2>4. CASE BeginRun(p, n) \/ BeginDrop(p, n)
    BY <1>0, <2>2, <2>4 DEF BeginRun, BeginDrop, Steps
  <2>5. CASE RunInTui(p, n) \/ DropInTui(p, n)
    <3>1. seen[p] \in L!Tasks
      BY <1>0, <2>5 DEF RunInTui, DropInTui
    <3> QED
      BY <2>2, <2>5, <3>1 DEF RunInTui, DropInTui, Steps
  <2>6. CASE BeginBridge(p, n)
    BY <2>6 DEF BeginBridge, Steps, Launch
  <2> QED
    BY <2>3, <2>4, <2>5, <2>6
<1>2. CmdOK' /\ OwedOK' /\ (raced' = raced \/ raced' = raced \cup {n})
  BY <1>0, <1>1, BeginEffect, BeginMoves, MoveType DEF Begin
<1>3. CASE BeginBridge(p, n)
  <2>1. PICK dd \in Dirs : agents' = [agents EXCEPT ![n] = [dir |-> dd, by |-> p]]
    BY <1>3 DEF BeginBridge, Launch
  <2>2. AgentsOK' /\ MemoryOK'
    BY <1>0, <1>2, <1>3, <2>1, AgentComes DEF BeginBridge, Launch
  <2> QED
    BY <1>0, <1>2, <1>3, <2>2, TypeParts DEF BeginBridge, Launch
<1>4. CASE ~BeginBridge(p, n)
  <2>1. UNCHANGED <<stores, seen, left, stray>>
    BY <1>4 DEF BeginNew, NewInTui, BeginRun, RunInTui, BeginDrop, DropInTui
  <2>2. AgentsOK' /\ MemoryOK'
    BY <1>0, <1>2, <2>1 DEF AgentsOK, MemoryOK, stores, log
  <2> QED
    BY <1>0, <1>2, <2>1, <2>2, TypeParts DEF stores, log
<1> QED
  BY <1>3, <1>4

\* The steps of a command.
Step(p) ==
    \/ CheckTarget(p) \/ ResolveBranch(p) \/ AddWorktree(p)
    \/ InitWorktree(p) \/ RunCommands(p) \/ RecordTask(p)
    \/ Spawn(p) \/ RecordRun(p)
    \/ KillAgent(p) \/ LookUp(p) \/ DeleteWorktree(p)
    \/ CleanBranch(p) \/ RecordDeletion(p) \/ RecordDrop(p)
    \/ BridgeLoads(p) \/ Adopt(p) \/ Abandon(p)

\* They move the process through the steps or end its command.
LEMMA StepMoves ==
    ASSUME CmdOK, NEW p \in Procs, Step(p)
    PROVE  Busy(p) /\ (End(p) \/ \E step \in Steps : Goto(p, step))
<1>1. CASE CheckTarget(p) \/ ResolveBranch(p) \/ AddWorktree(p) \/ InitWorktree(p)
             \/ RunCommands(p) \/ RecordTask(p)
  BY <1>1 DEF CheckTarget, ResolveBranch, AddWorktree, InitWorktree, RunCommands,
     InitFails, RecordTask, At, Busy, Steps, log
<1>2. CASE Spawn(p) \/ RecordRun(p) \/ BridgeLoads(p) \/ Adopt(p) \/ Abandon(p)
  BY <1>2 DEF Spawn, RecordRun, BridgeLoads, Adopt, Abandon, At, Busy, Steps, Launch
<1>3. CASE KillAgent(p)
  <2>1. PICK step : Goto(p, step) /\ step \in {"look", "delete", "deleted", "forget"}
    BY <1>3 DEF KillAgent, AfterKill, log
  <2> QED
    BY <1>3, <2>1 DEF KillAgent, At, Busy, Steps, log
<1>4. CASE LookUp(p) \/ DeleteWorktree(p) \/ CleanBranch(p)
             \/ RecordDeletion(p) \/ RecordDrop(p)
  BY <1>4 DEF LookUp, DeleteWorktree, AfterFailedDelete, CleanBranch,
     RecordDeletion, RecordDrop, At, Busy, Steps, log
<1> QED
  BY <1>1, <1>2, <1>3, <1>4 DEF Step

\* A step of a command launches an agent whose run it is then to record, records
\* it, gives it up, or leaves the runs as they are.
LEMMA StepRuns ==
    ASSUME CmdOK, OwedOK, NEW p \in Procs, NEW n \in Names, n = cmd[p].name, Step(p)
    PROVE  RunsMove(p, n)
<1>0. /\ Busy(p)
      /\ \A q \in Procs \ {p} : cmd'[q] = cmd[q]
      /\ Busy(p)' => cmd'[p].name = n
  BY StepMoves, BusyIsCommand, GotoEffect, EndEffect
<1>1. SUFFICES
        \/ owed' = owed /\ (cmd'[p].at \in ToRecord <=> cmd[p].at \in ToRecord)
        \/ /\ owed' = [owed EXCEPT ![n] = @ + 1]
           /\ cmd[p].at \notin ToRecord /\ cmd'[p].at \in ToRecord
        \/ /\ owed' = [owed EXCEPT ![n] = @ - 1]
           /\ cmd[p].at \in ToRecord /\ cmd'[p].at \notin ToRecord
  BY <1>0, PendingOf DEF RunsMove
<1>2. End(p) => cmd'[p].at \notin ToRecord
  BY EndEffect DEF Busy, ToRecord, Steps
<1>3. \A step \in Steps : Goto(p, step) => cmd'[p].at = step
  BY <1>0, GotoEffect
<1>4. CASE \/ CheckTarget(p) \/ ResolveBranch(p) \/ AddWorktree(p)
           \/ InitWorktree(p) \/ RunCommands(p) \/ RecordTask(p)
  <2>1. owed' = owed
    BY <1>0, <1>4, AppendOwes
    DEF CheckTarget, ResolveBranch, AddWorktree, InitWorktree, RunCommands,
        RecordTask, stores, log
  <2>2. /\ cmd[p].at \in {"check", "resolve", "add", "init", "commands", "record"}
        /\ \/ End(p)
           \/ \E step \in {"resolve", "add", "init", "commands", "record", "spawn"} :
                Goto(p, step)
    BY <1>4 DEF CheckTarget, ResolveBranch, AddWorktree, InitWorktree, RunCommands,
       InitFails, RecordTask, At
  <2>3. cmd'[p].at \notin ToRecord
    BY <1>2, <1>3, <2>2 DEF ToRecord, Steps
  <2> QED
    BY <2>1, <2>2, <2>3 DEF ToRecord
<1>5. CASE \/ KillAgent(p) \/ LookUp(p) \/ DeleteWorktree(p) \/ CleanBranch(p)
           \/ RecordDeletion(p) \/ RecordDrop(p)
  <2>1. owed' = owed
    BY <1>0, <1>5, AppendOwes
    DEF KillAgent, LookUp, DeleteWorktree, CleanBranch, RecordDeletion, RecordDrop,
        stores, log
  <2>2. /\ cmd[p].at \in {"kill", "look", "delete", "branch", "deleted", "forget"}
        /\ \/ End(p)
           \/ \E step \in {"look", "delete", "branch", "deleted", "forget"} :
                Goto(p, step)
    <3>1. CASE KillAgent(p)
      <4>1. PICK step : Goto(p, step) /\ step \in {"look", "delete", "deleted", "forget"}
        BY <3>1 DEF KillAgent, AfterKill
      <4> QED
        BY <3>1, <4>1 DEF KillAgent, At
    <3> QED
      BY <1>5, <3>1 DEF LookUp, DeleteWorktree, AfterFailedDelete, CleanBranch,
         RecordDeletion, RecordDrop, At
  <2>3. cmd'[p].at \notin ToRecord
    BY <1>2, <1>3, <2>2 DEF ToRecord, Steps
  <2> QED
    BY <2>1, <2>2, <2>3 DEF ToRecord
<1>6. CASE Spawn(p)
  <2>1. \/ Goto(p, "count") /\ owed' = [owed EXCEPT ![n] = @ + 1]
        \/ End(p) /\ owed' = owed
    BY <1>6 DEF Spawn, Launch
  <2> QED
    BY <1>2, <1>3, <1>6, <2>1 DEF Spawn, At, ToRecord, Steps
<1>7. CASE BridgeLoads(p) \/ Adopt(p)
  <2>1. /\ owed' = owed /\ cmd[p].at \in {"load", "adopt"}
        /\ \E step \in {"adopt", "count"} : Goto(p, step)
    BY <1>0, <1>7, AppendOwes DEF BridgeLoads, Adopt, At, stores, log
  <2> QED
    BY <1>3, <2>1 DEF ToRecord, Steps
<1>8. CASE RecordRun(p)
  <2>1. End(p) /\ owed' = [owed EXCEPT ![n] = @ - 1]
    BY <1>0, <1>8, AppendOwes DEF RecordRun
  <2> QED
    BY <1>2, <1>8, <2>1 DEF RecordRun, At, ToRecord
<1>9. CASE Abandon(p)
  BY <1>2, <1>9 DEF Abandon
<1> QED
  BY <1>4, <1>5, <1>6, <1>7, <1>8, <1>9 DEF Step

LEMMA StepType ==
    ASSUME TypeOK, NEW p \in Procs, Step(p)
    PROVE  TypeOK'
<1>0. /\ ledger \in L!Tasks /\ AgentsOK /\ CmdOK /\ seen \in [Tuis -> L!Tasks]
      /\ MemoryOK /\ OwedOK
  BY TypeParts
<1>1. /\ cmd[p].name \in Names /\ cmd[p].dir \in Dirs /\ cmd[p].owned \in BOOLEAN
      /\ CmdOK' /\ OwedOK'
  <2>1. PICK n \in Names : n = cmd[p].name
    BY <1>0, StepMoves, BusyIsCommand
  <2>2. OwedOK'
    BY <1>0, <2>1, StepRuns, MoveType
  <2> QED
    BY <1>0, <2>2, StepMoves, BusyIsCommand, GotoEffect, EndEffect
<1>2. UNCHANGED seen
  BY DEF Step, CheckTarget, ResolveBranch, AddWorktree, InitWorktree, RunCommands,
     RecordTask, Spawn, RecordRun, KillAgent, LookUp, DeleteWorktree, CleanBranch,
     RecordDeletion, RecordDrop, BridgeLoads, Adopt, Abandon, Launch, log
<1>3. CASE CheckTarget(p) \/ ResolveBranch(p) \/ LookUp(p) \/ CleanBranch(p)
             \/ BridgeLoads(p)
  <2>1. UNCHANGED <<stores, history>>
    BY <1>3 DEF CheckTarget, ResolveBranch, LookUp, CleanBranch, BridgeLoads
  <2> QED
    BY <1>0, <1>1, <1>2, <2>1, TypeParts DEF stores, history, AgentsOK, MemoryOK, log
<1>4. CASE AddWorktree(p)
  <2>1. MemoryOK' /\ AgentsOK'
    BY <1>0, <1>1, <1>4 DEF AddWorktree, history, AgentsOK, MemoryOK, log
  <2> QED
    BY <1>0, <1>1, <1>2, <1>4, <2>1, TypeParts DEF AddWorktree, log
<1>5. CASE InitWorktree(p) \/ RunCommands(p)
  <2>1. /\ left' = left \/ left' = left \cup ({cmd[p].name} \cap worktrees)
        /\ UNCHANGED <<ledger, worktrees, agents, stray, raced>>
    BY <1>5 DEF InitWorktree, RunCommands, InitFails, stores, log
  <2>2. AgentsOK' /\ MemoryOK'
    BY <1>0, <2>1 DEF AgentsOK, MemoryOK
  <2> QED
    BY <1>0, <1>1, <1>2, <2>1, <2>2, TypeParts
<1>6. CASE RecordTask(p) \/ RecordRun(p) \/ RecordDeletion(p) \/ RecordDrop(p)
             \/ Adopt(p)
  <2>1. UNCHANGED <<worktrees, agents, history>>
    BY <1>6 DEF RecordTask, RecordRun, RecordDeletion, RecordDrop, Adopt
  <2>2. ledger' \in L!Tasks
    BY <1>0, <1>1, <1>6, CreatedEffect, StartedEffect, DroppedEffect, NotedEffect
    DEF RecordTask, RecordRun, RecordDeletion, RecordDrop, Adopt
  <2>3. AgentsOK' /\ MemoryOK'
    BY <1>0, <2>1 DEF AgentsOK, MemoryOK, history
  <2> QED
    BY <1>1, <1>0, <1>2, <2>2, <2>3, TypeParts
<1>7. CASE Spawn(p)
  <2>1. UNCHANGED <<ledger, worktrees, left, stray, raced>>
    BY <1>7 DEF Spawn, history, Launch
  <2>2. AgentsOK' /\ MemoryOK'
    <3>1. CASE agents[cmd[p].name] = None
      BY <1>0, <1>1, <1>7, <2>1, <3>1, AgentComes DEF Spawn, Launch
    <3>2. CASE agents[cmd[p].name] # None
      BY <1>0, <1>7, <2>1, <3>2 DEF Spawn, AgentsOK, MemoryOK, Launch
    <3> QED
      BY <3>1, <3>2
  <2> QED
    BY <1>0, <1>1, <1>2, <2>1, <2>2, TypeParts
<1>8. CASE KillAgent(p)
  <2>1. CASE NoAgent(cmd[p].name) /\ Forget(cmd[p].name)
    <3>1. AgentsOK' /\ MemoryOK' /\ UNCHANGED ledger
      BY <1>0, <1>1, <1>8, <2>1, AgentGoes DEF KillAgent, log
    <3> QED
      BY <1>0, <1>1, <1>2, <3>1, TypeParts
  <2>2. CASE stray' = stray \cup Running(cmd[p].name) /\ UNCHANGED agents
    <3>1. AgentsOK' /\ MemoryOK' /\ UNCHANGED ledger
      BY <1>0, <1>1, <1>8, <2>2 DEF KillAgent, Running, AgentsOK, MemoryOK, log
    <3> QED
      BY <1>0, <1>1, <1>2, <3>1, TypeParts
  <2> QED
    BY <1>8, <2>1, <2>2 DEF KillAgent, log
<1>9. CASE DeleteWorktree(p)
  <2>1. /\ UNCHANGED <<ledger, agents, stray, raced>>
        /\ \/ /\ worktrees' = worktrees \ {cmd[p].name}
              /\ left' = left \ {cmd[p].name}
           \/ /\ left' \in {left, left \cup ({cmd[p].name} \cap worktrees)}
              /\ UNCHANGED worktrees
    BY <1>9 DEF DeleteWorktree, log
  <2>2. AgentsOK' /\ MemoryOK'
    BY <1>0, <2>1 DEF AgentsOK, MemoryOK
  <2> QED
    BY <1>0, <1>1, <1>2, <2>1, <2>2, TypeParts
<1>10. CASE Abandon(p)
  <2>1. Running(cmd[p].name) \subseteq {n \in Names : agents[n] # None}
    BY <1>1 DEF Running
  <2>2. /\ UNCHANGED <<ledger, worktrees, agents, raced>>
        /\ left' \in {left, left \cup ({cmd[p].name} \cap worktrees)}
        /\ stray' \in {stray, stray \cup Running(cmd[p].name)}
    BY <1>10 DEF Abandon, stores, log
  <2>3. AgentsOK' /\ MemoryOK'
    BY <1>0, <2>1, <2>2 DEF AgentsOK, MemoryOK
  <2> QED
    BY <1>0, <1>1, <1>2, <2>2, <2>3, TypeParts
<1> QED
  BY <1>3, <1>4, <1>5, <1>6, <1>7, <1>8, <1>9, <1>10 DEF Step

\* What happens to a name without a command: it loses its agent or its worktree.
Loses(n) ==
    \/ \E p \in Procs : Stop(p, n) \/ StopInTui(p, n) \/ StopByBridge(p, n)
    \/ AgentExits(n)
    \/ RemovedByHand(n)

LEMMA LosesEffect ==
    ASSUME CmdOK, NEW n \in Names, Loses(n)
    PROVE  /\ UNCHANGED <<ledger, seen, raced>>
           /\ \/ NoAgent(n) /\ Forget(n) /\ UNCHANGED <<worktrees, left>>
              \/ /\ worktrees' = worktrees \ {n} /\ left' = left \ {n}
                 /\ UNCHANGED <<agents, stray>>
           /\ CmdOK'
           /\ \A q \in Procs : cmd'[q] = cmd[q] \/ (~Busy(q) /\ ~Busy(q)')
<1>1. CASE \E p \in Procs : Stop(p, n) \/ StopInTui(p, n)
  <2> PICK p \in Procs : StopAgent(p, n)
    BY <1>1 DEF Stop, StopInTui
  <2>1. ledger' = ledger
    BY NotedEffect DEF StopAgent
  <2>2. End(p) /\ ~Busy(p)
    BY DEF StopAgent, End, Busy, Idle, Steps
  <2> QED
    BY <2>1, <2>2, EndEffect DEF StopAgent
<1>2. CASE \/ \E p \in Procs : StopByBridge(p, n)
           \/ AgentExits(n) \/ RemovedByHand(n)
  BY <1>2 DEF StopByBridge, AgentExits, RemovedByHand, CmdOK, Busy, log
<1> QED
  BY <1>1, <1>2 DEF Loses

\* No launch is lost without a command.
LEMMA LosesRuns ==
    ASSUME CmdOK, OwedOK, NEW n \in Names, Loses(n)
    PROVE  owed' = owed /\ \A m \in Names : Pending(m)' = Pending(m)
<1>1. owed' = owed
  BY AppendOwes DEF Loses, Stop, StopInTui, StopAgent, StopByBridge, AgentExits,
     RemovedByHand, log
<1>2. \A q \in Procs : cmd'[q] = cmd[q] \/ (~Busy(q) /\ ~Busy(q)')
  BY LosesEffect
<1> QED
  BY <1>1, <1>2 DEF Pending, On, Busy

LEMMA LosesType ==
    ASSUME TypeOK, NEW n \in Names, Loses(n)
    PROVE  TypeOK'
<1>1. AgentsOK' /\ MemoryOK' /\ OwedOK'
  BY LosesEffect, LosesRuns, AgentGoes, WorktreeGoes, TypeParts DEF AgentsOK, OwedOK
<1> QED
  BY <1>1, LosesEffect, TypeParts

\* The list of a terminal interface is a ledger that was.
LEMMA ReloadType ==
    ASSUME TypeOK, NEW p \in Procs, Reload(p)
    PROVE  TypeOK'
<1>1. seen' \in [Tuis -> L!Tasks] /\ CmdOK'
  BY TypeParts DEF Reload, CmdOK
<1>2. AgentsOK' /\ MemoryOK' /\ OwedOK' /\ UNCHANGED ledger
  BY TypeParts DEF Reload, stores, history, AgentsOK, MemoryOK, OwedOK, log
<1> QED
  BY <1>1, <1>2, TypeParts

\* The steps by the kind of change they make.
LEMMA NextCases ==
    ASSUME Next
    PROVE  \/ \E p \in Procs, n \in Names :
                \/ BeginNew(p, n) \/ NewInTui(p, n) \/ BeginRun(p, n)
                \/ RunInTui(p, n) \/ BeginDrop(p, n) \/ DropInTui(p, n)
                \/ BeginBridge(p, n)
           \/ \E p \in Procs : Step(p) \/ Reload(p)
           \/ \E n \in Names : Loses(n)
BY DEF Next, Process, Step, Loses

LEMMA NextType == TypeOK /\ [Next]_vars => TypeOK'
<1>1. TypeOK /\ UNCHANGED vars => TypeOK'
  BY DEF vars, TypeOK
<1> QED
  BY <1>1, NextCases, BeginType, StepType, LosesType, ReloadType

\* In every reachable state the variables have their types: what is remembered as
\* left behind exists, and what is remembered as missing is about an agent that
\* runs.
THEOREM FlowsTypeCorrect == Spec => []TypeOK
BY InitType, NextType, PTL DEF Spec

-----------------------------------------------------------------------------
(* Every launch is in the log, whatever races *)

\* A move of one run keeps the balance: what is owed is the number of commands
\* about to record a run.
LEMMA MoveKeeps ==
    ASSUME OwedOK, RunsRecorded, NEW p \in Procs, NEW n \in Names, RunsMove(p, n)
    PROVE  RunsRecorded'
<1> SUFFICES ASSUME NEW m \in Names PROVE owed'[m] = Cardinality(Pending(m)')
  BY DEF RunsRecorded
<1>1. /\ Pending(m) \subseteq Procs /\ Pending(m)' \subseteq Procs
      /\ owed[m] = Cardinality(Pending(m))
  BY DEF Pending, RunsRecorded
<1>2. IsFiniteSet(Pending(m)) /\ Cardinality(Pending(m)) \in Nat
  BY <1>1, FlowsAssumption, FS_Subset, FS_CardinalityType
<1>3. CASE m # n \/ owed' = owed
  <2>1. Pending(m)' = Pending(m)
    <3>1. CASE m # n
      BY <1>1, <3>1 DEF RunsMove
    <3>2. CASE m = n /\ owed' = owed
      <4>1. p \in Pending(n)' <=> p \in Pending(n)
        BY <3>2 DEF RunsMove, OwedOK
      <4> QED
        BY <1>1, <3>2, <4>1 DEF RunsMove
    <3> QED
      BY <1>3, <3>1, <3>2
  <2>2. owed'[m] = owed[m]
    BY <1>3 DEF RunsMove, OwedOK
  <2> QED
    BY <1>1, <2>1, <2>2
<1>4. CASE /\ m = n /\ owed' = [owed EXCEPT ![n] = @ + 1]
          /\ p \notin Pending(n) /\ p \in Pending(n)'
  <2>1. Pending(m)' = Pending(m) \cup {p}
    BY <1>1, <1>4 DEF RunsMove
  <2>2. Cardinality(Pending(m)') = Cardinality(Pending(m)) + 1
    BY <1>2, <1>4, <2>1, FS_AddElement
  <2> QED
    BY <1>1, <1>4, <2>2 DEF OwedOK
<1>5. CASE /\ m = n /\ owed' = [owed EXCEPT ![n] = @ - 1]
          /\ p \in Pending(n) /\ p \notin Pending(n)'
  <2>1. Pending(m)' = Pending(m) \ {p}
    BY <1>1, <1>5 DEF RunsMove
  <2>2. Cardinality(Pending(m)') = Cardinality(Pending(m)) - 1
    BY <1>2, <1>5, <2>1, FS_RemoveElement
  <2> QED
    BY <1>1, <1>5, <2>2 DEF OwedOK
<1> QED
  BY <1>3, <1>4, <1>5 DEF RunsMove

LEMMA RunsInductive ==
    /\ Init => RunsRecorded
    /\ TypeOK /\ RunsRecorded /\ [Next]_vars => RunsRecorded'
<1>1. ASSUME Init PROVE RunsRecorded
  <2>1. \A n \in Names : Pending(n) = {}
    BY <1>1 DEF Init, Pending, On, Busy, Rest, Idle, Reloading, Steps
  <2> QED
    BY <1>1, <2>1, FS_EmptySet DEF Init, RunsRecorded
<1>2. ASSUME RunsRecorded, UNCHANGED owed, \A m \in Names : Pending(m)' = Pending(m)
      PROVE  RunsRecorded'
  BY <1>2 DEF RunsRecorded
<1>3. ASSUME RunsRecorded, UNCHANGED vars PROVE RunsRecorded'
  <2>1. UNCHANGED owed /\ \A m \in Names : Pending(m)' = Pending(m)
    BY <1>3 DEF vars, Pending, On, Busy
  <2> QED
    BY <1>2, <1>3, <2>1
<1>4. ASSUME TypeOK, RunsRecorded, Next PROVE RunsRecorded'
  <2>0. CmdOK /\ OwedOK
    BY <1>4, TypeParts
  <2>1. ASSUME NEW p \in Procs, NEW n \in Names, RunsMove(p, n) PROVE RunsRecorded'
    BY <1>4, <2>0, <2>1, MoveKeeps
  <2>2. ASSUME NEW p \in Procs, NEW n \in Names,
               \/ BeginNew(p, n) \/ NewInTui(p, n) \/ BeginRun(p, n) \/ RunInTui(p, n)
               \/ BeginDrop(p, n) \/ DropInTui(p, n) \/ BeginBridge(p, n)
        PROVE  RunsRecorded'
    BY <2>0, <2>1, <2>2, BeginMoves
  <2>3. ASSUME NEW p \in Procs, Step(p) PROVE RunsRecorded'
    <3>1. PICK n \in Names : n = cmd[p].name
      BY <2>0, <2>3, StepMoves, BusyIsCommand
    <3> QED
      BY <2>0, <2>1, <2>3, <3>1, StepRuns
  <2>4. ASSUME NEW p \in Procs, Reload(p) PROVE RunsRecorded'
    <3>1. UNCHANGED owed /\ \A m \in Names : Pending(m)' = Pending(m)
      BY <2>0, <2>4
      DEF Reload, Pending, On, Busy, Idle, Reloading, Steps, CmdOK, stores, log
    <3> QED
      BY <1>2, <1>4, <3>1
  <2>5. ASSUME NEW n \in Names, Loses(n) PROVE RunsRecorded'
    BY <1>2, <1>4, <2>0, <2>5, LosesRuns
  <2> QED
    BY <1>4, <2>2, <2>3, <2>4, <2>5, NextCases
<1> QED
  BY <1>1, <1>3, <1>4

\* The log holds exactly one run for each launch, but for those a command is about
\* to record or has failed to: for every name, and however commands race on it.
THEOREM RunsCorrect == Spec => []RunsRecorded
BY InitType, NextType, RunsInductive, PTL DEF Spec

-----------------------------------------------------------------------------
(* The inductive invariant: what is known of one name *)

Free(m) == \A p \in Procs : ~On(p, m)
Sole(p, m) == On(p, m) /\ \A q \in Procs \ {p} : ~On(q, m)

\* A command that has made a worktree and not yet recorded its task; one that
\* has launched an agent that may have no task.
Making(p) == At(p, "init") \/ At(p, "commands") \/ (At(p, "record") /\ cmd[p].owned)
Bridging(p) == At(p, "load") \/ At(p, "adopt")

\* What the stores say of a name, in the middle of a command and between two.
Facts(m, making, bridging) ==
    /\ m \in worktrees => Owns(m) \/ making \/ m \in left
    /\ agents[m] # None => Active(m) \/ bridging \/ m \in stray
    /\ agents[m] # None /\ Active(m) /\ agents[m].by \notin Bridges /\ m \notin stray
         => agents[m].dir = ledger[m].dir

\* What a command alone on its name knows at each of its steps, from what it has
\* read and done before.
Stage(p, m) ==
    /\ cmd[p].at \in {"check", "resolve", "add", "init", "commands"} => cmd[p].owned
    /\ cmd[p].at \in {"check", "resolve", "add", "init", "commands", "record", "adopt"}
         => ~Active(m)
    /\ cmd[p].at \in {"spawn", "count", "kill"} => Active(m)
    /\ At(p, "spawn") => cmd[p].dir = ledger[m].dir
    /\ At(p, "kill") /\ p \notin Tuis => cmd[p].owned = ledger[m].owned
    /\ At(p, "delete") => Owns(m)
    /\ cmd[p].at \in {"look", "delete", "branch", "deleted", "forget"}
         => agents[m] = None \/ m \in stray
    /\ cmd[p].at \in {"branch", "deleted"} => m \notin worktrees
    /\ At(p, "forget") => m \notin worktrees \/ m \in left
    /\ Bridging(p) /\ agents[m] # None => agents[m].by \in Bridges

Mid(p, m) == Facts(m, Making(p), Bridging(p)) /\ Stage(p, m)

\* A name no two commands have worked on at the same time has at most one on it.
NameInv(m) ==
    \/ m \in raced
    \/ Free(m) /\ Facts(m, FALSE, FALSE)
    \/ \E p \in Procs : Sole(p, m) /\ Mid(p, m)

FlowsInv == TypeOK /\ \A m \in Names : NameInv(m)

-----------------------------------------------------------------------------
(* What does not concern a name leaves it as it is *)

SameStores(m) ==
    /\ ledger'[m] = ledger[m] /\ agents'[m] = agents[m]
    /\ m \in worktrees' <=> m \in worktrees
    /\ m \in left' <=> m \in left
    /\ m \in stray' <=> m \in stray
    /\ m \in raced => m \in raced'

SameCommands(m) ==
    \A q \in Procs : /\ On(q, m)' <=> On(q, m)
                     /\ On(q, m) => cmd'[q] = cmd[q]

LEMMA Unconcerned ==
    ASSUME NEW m, NameInv(m), SameStores(m), SameCommands(m)
    PROVE  NameInv(m)'
<1>1. CASE m \in raced
  BY <1>1 DEF NameInv, SameStores
<1>2. CASE Free(m) /\ Facts(m, FALSE, FALSE)
  <2>1. Free(m)'
    BY <1>2 DEF Free, SameCommands
  <2>2. Facts(m, FALSE, FALSE)'
    BY <1>2 DEF Facts, Owns, Active, L!Exists, SameStores
  <2> QED
    BY <2>1, <2>2 DEF NameInv
<1>3. CASE \E p \in Procs : Sole(p, m) /\ Mid(p, m)
  <2> PICK p \in Procs : Sole(p, m) /\ Mid(p, m)
    BY <1>3
  <2>1. Sole(p, m)' /\ cmd'[p] = cmd[p]
    BY DEF Sole, SameCommands
  <2>2. Facts(m, Making(p), Bridging(p))'
    BY <2>1 DEF Mid, Facts, Making, Bridging, At, Owns, Active, L!Exists, SameStores
  <2>3. Stage(p, m)'
    BY <2>1 DEF Mid, Stage, Bridging, At, Owns, Active, L!Exists, SameStores
  <2> QED
    BY <2>1, <2>2, <2>3 DEF NameInv, Mid
<1> QED
  BY <1>1, <1>2, <1>3 DEF NameInv

\* A step that changes one command concerns no name but that command's.
LEMMA OtherCommands ==
    ASSUME NEW p \in Procs, NEW m, ~On(p, m), ~On(p, m)',
           \A q \in Procs \ {p} : cmd'[q] = cmd[q]
    PROVE  SameCommands(m)
BY DEF SameCommands, On, Busy

-----------------------------------------------------------------------------
(* A step of a command alone on its name *)

\* What it leaves: the next step's facts, or the facts of a name without a command.
After(p, n) ==
    /\ Busy(p)' => Mid(p, n)'
    /\ ~Busy(p)' => Facts(n, FALSE, FALSE)'

\* The goal after a step that goes on, and after one that ends.
LEMMA AfterGoto ==
    ASSUME CmdOK, NEW p \in Procs, Busy(p), NEW step \in Steps, Goto(p, step)
    PROVE  /\ Busy(p)'
           /\ cmd'[p].at = step /\ cmd'[p].name = cmd[p].name
           /\ cmd'[p].dir = cmd[p].dir /\ cmd'[p].owned = cmd[p].owned
BY GotoEffect DEF Busy

LEMMA MakesWorktree ==
    ASSUME TypeOK, NEW p \in Procs, NEW n \in Names, On(p, n), Mid(p, n),
           \/ CheckTarget(p) \/ ResolveBranch(p) \/ AddWorktree(p)
           \/ InitWorktree(p) \/ RunCommands(p)
    PROVE  After(p, n)
<1>0. CmdOK /\ Busy(p) /\ n = cmd[p].name /\ Facts(n, Making(p), Bridging(p))
      /\ Stage(p, n)
  BY TypeParts DEF On, Mid
<1>1. CASE CheckTarget(p) \/ ResolveBranch(p)
  <2>1. UNCHANGED <<stores, history>> /\ cmd[p].at \in {"check", "resolve"}
    BY <1>1 DEF CheckTarget, ResolveBranch, At
  <2>2. CASE End(p)
    BY <1>0, <2>1, <2>2, EndEffect
    DEF After, Facts, Making, Bridging, At, Owns, Active, L!Exists, stores, history, log
  <2>3. CASE \E step \in {"resolve", "add"} : Goto(p, step)
    <3> PICK step \in {"resolve", "add"} : Goto(p, step)
      BY <2>3
    <3>1. /\ Busy(p)' /\ cmd'[p].at = step /\ cmd'[p].owned = cmd[p].owned
      BY <1>0, AfterGoto DEF Steps
    <3>2. Facts(n, Making(p), Bridging(p))'
      BY <1>0, <2>1, <3>1
      DEF Facts, Making, Bridging, At, Owns, Active, L!Exists, stores, history, log
    <3>3. Stage(p, n)'
      BY <1>0, <2>1, <3>1
      DEF Stage, Bridging, At, Owns, Active, L!Exists, stores, history, log
    <3> QED
      BY <3>1, <3>2, <3>3 DEF After, Mid
  <2> QED
    BY <1>1, <2>2, <2>3 DEF CheckTarget, ResolveBranch
<1>2. CASE AddWorktree(p)
  <2>1. UNCHANGED <<ledger, agents, history>> /\ At(p, "add")
    BY <1>2 DEF AddWorktree, log
  <2>2. CASE End(p) /\ UNCHANGED worktrees
    BY <1>0, <2>1, <2>2, EndEffect
    DEF After, Facts, Making, Bridging, At, Owns, Active, L!Exists, history
  <2>3. CASE worktrees' = worktrees \cup {n} /\ Goto(p, "init")
    <3>1. /\ Busy(p)' /\ cmd'[p].at = "init" /\ cmd'[p].owned = cmd[p].owned
      BY <1>0, <2>3, AfterGoto DEF Steps
    <3>2. Facts(n, Making(p), Bridging(p))'
      BY <1>0, <2>1, <2>3, <3>1
      DEF Facts, Making, Bridging, At, Owns, Active, L!Exists, history
    <3>3. Stage(p, n)'
      BY <1>0, <2>1, <3>1 DEF Stage, Bridging, At, Active, L!Exists
    <3> QED
      BY <3>1, <3>2, <3>3 DEF After, Mid
  <2> QED
    BY <1>0, <1>2, <2>2, <2>3 DEF AddWorktree, log
<1>3. CASE InitWorktree(p) \/ RunCommands(p)
  <2>1. /\ UNCHANGED <<stores, stray, raced>>
        /\ cmd[p].at \in {"init", "commands"}
        /\ \/ Goto(p, "commands") /\ UNCHANGED left
           \/ Goto(p, "record") /\ UNCHANGED left
           \/ End(p) /\ left' = left \cup ({n} \cap worktrees)
    BY <1>0, <1>3 DEF InitWorktree, RunCommands, InitFails, At
  <2>2. CASE End(p) /\ left' = left \cup ({n} \cap worktrees)
    BY <1>0, <2>1, <2>2, EndEffect
    DEF After, Facts, Making, Bridging, At, Owns, Active, L!Exists, stores, log
  <2>3. CASE UNCHANGED left /\ \E step \in {"commands", "record"} : Goto(p, step)
    <3> PICK step \in {"commands", "record"} : Goto(p, step)
      BY <2>3
    <3>1. /\ Busy(p)' /\ cmd'[p].at = step /\ cmd'[p].owned = cmd[p].owned
      BY <1>0, AfterGoto DEF Steps
    <3>2. Facts(n, Making(p), Bridging(p))'
      BY <1>0, <2>1, <2>3, <3>1
      DEF Facts, Stage, Making, Bridging, At, Owns, Active, L!Exists, stores, log
    <3>3. Stage(p, n)'
      BY <1>0, <2>1, <3>1 DEF Stage, Bridging, At, Active, L!Exists, stores, log
    <3> QED
      BY <3>1, <3>2, <3>3 DEF After, Mid
  <2> QED
    BY <2>1, <2>2, <2>3
<1> QED
  BY <1>1, <1>2, <1>3

LEMMA Records ==
    ASSUME TypeOK, NEW p \in Procs, NEW n \in Names, On(p, n), Mid(p, n),
           RecordTask(p) \/ Adopt(p) \/ RecordRun(p)
    PROVE  After(p, n)
<1>0. /\ CmdOK /\ Busy(p) /\ n = cmd[p].name /\ ledger \in L!Tasks
      /\ Facts(n, Making(p), Bridging(p)) /\ Stage(p, n)
  BY TypeParts DEF On, Mid
<1>1. cmd[p].dir \in Dirs /\ cmd[p].owned \in BOOLEAN
  BY <1>0, BusyIsCommand
<1>2. CASE RecordTask(p) \/ Adopt(p)
  <2>1. /\ UNCHANGED <<worktrees, agents, history>>
        /\ Append(L!TaskCreated(n, cmd[p].dir, cmd[p].owned))
        /\ \/ At(p, "record") /\ (Goto(p, "spawn") \/ End(p))
           \/ At(p, "adopt") /\ Goto(p, "count")
    BY <1>0, <1>2 DEF RecordTask, Adopt
  <2>2. ledger'[n] # None /\ ledger'[n].dir = cmd[p].dir /\ ledger'[n].owned = cmd[p].owned
    BY <1>0, <1>1, <2>1, CreatedEffect
  <2>3. CASE End(p)
    <3>1. At(p, "record")
      BY <1>0, <2>1, <2>3, EndEffect, AfterGoto DEF Steps
    <3>2. Facts(n, FALSE, FALSE)'
      BY <1>0, <2>1, <2>2, <3>1
      DEF Facts, Stage, Making, Bridging, At, Owns, Active, L!Exists, history
    <3> QED
      BY <1>0, <2>3, <3>2, EndEffect DEF After
  <2>4. CASE \E step \in {"spawn", "count"} : Goto(p, step)
    <3> PICK step \in {"spawn", "count"} : Goto(p, step)
      BY <2>4
    <3>1. /\ Busy(p)' /\ cmd'[p].at = step /\ cmd'[p].dir = cmd[p].dir
      BY <1>0, AfterGoto DEF Steps
    <3>2. cmd[p].at = "adopt" => step = "count"
      BY <1>0, <2>1, <3>1, AfterGoto, EndEffect DEF At, Steps
    <3>3. Facts(n, Making(p), Bridging(p))'
      BY <1>0, <2>1, <2>2, <3>1, <3>2
      DEF Facts, Stage, Making, Bridging, At, Owns, Active, L!Exists, history
    <3>4. Stage(p, n)'
      BY <1>0, <2>1, <2>2, <3>1 DEF Stage, Bridging, At, Active, L!Exists
    <3> QED
      BY <3>1, <3>3, <3>4 DEF After, Mid
  <2> QED
    BY <2>1, <2>3, <2>4
<1>3. CASE RecordRun(p)
  <2>1. /\ UNCHANGED <<worktrees, agents, history>> /\ At(p, "count") /\ End(p)
        /\ Append(L!AgentRunStarted(n))
    BY <1>0, <1>3 DEF RecordRun
  <2>2. /\ ledger'[n] # None /\ ledger'[n].dir = ledger[n].dir
        /\ ledger'[n].owned = ledger[n].owned
    BY <1>0, <2>1, StartedEffect DEF Stage, At, Active, L!Exists
  <2>3. Facts(n, FALSE, FALSE)'
    BY <1>0, <2>1, <2>2
    DEF Facts, Stage, Making, Bridging, At, Owns, Active, L!Exists, history
  <2> QED
    BY <1>0, <2>1, <2>3, EndEffect DEF After
<1> QED
  BY <1>2, <1>3

LEMMA Launches ==
    ASSUME TypeOK, NEW p \in Procs, NEW n \in Names, On(p, n), Mid(p, n),
           Spawn(p) \/ BridgeLoads(p)
    PROVE  After(p, n)
<1>0. /\ CmdOK /\ Busy(p) /\ n = cmd[p].name /\ AgentsOK /\ MemoryOK
      /\ Facts(n, Making(p), Bridging(p)) /\ Stage(p, n)
  BY TypeParts DEF On, Mid
<1>1. cmd[p].dir \in Dirs
  BY <1>0, BusyIsCommand
<1>2. CASE Spawn(p)
  <2>1. UNCHANGED <<ledger, worktrees, seen, history>> /\ At(p, "spawn")
    BY <1>2 DEF Spawn, Launch
  <2>2. CASE agents[n] = None
    <3>1. agents' = [agents EXCEPT ![n] = [dir |-> cmd[p].dir, by |-> p]] /\ Goto(p, "count")
      BY <1>0, <1>2, <2>2 DEF Spawn, Launch
    <3>2. agents'[n] # None /\ agents'[n].dir = cmd[p].dir
      BY <1>0, <1>1, <2>1, <2>2, <3>1, AgentComes DEF history
    <3>3. Busy(p)' /\ cmd'[p].at = "count" /\ cmd'[p].dir = cmd[p].dir
      BY <1>0, <3>1, AfterGoto DEF Steps
    <3>4. n \notin stray
      BY <1>0, <2>2 DEF MemoryOK
    <3>5. Facts(n, Making(p), Bridging(p))'
      BY <1>0, <2>1, <3>2, <3>3, <3>4
      DEF Facts, Stage, Making, Bridging, At, Owns, Active, L!Exists, history
    <3>6. Stage(p, n)'
      BY <1>0, <2>1, <3>3 DEF Stage, Bridging, At, Active, L!Exists
    <3> QED
      BY <3>3, <3>5, <3>6 DEF After, Mid
  <2>3. CASE agents[n] # None
    <3>1. End(p) /\ UNCHANGED agents
      BY <1>0, <1>2, <2>3 DEF Spawn, Launch
    <3>2. Facts(n, FALSE, FALSE)'
      BY <1>0, <2>1, <3>1
      DEF Facts, Making, Bridging, At, Owns, Active, L!Exists, history
    <3> QED
      BY <1>0, <3>1, <3>2, EndEffect DEF After
  <2> QED
    BY <2>2, <2>3
<1>3. CASE BridgeLoads(p)
  <2>1. PICK step \in {"count", "adopt"} :
          /\ Goto(p, step) /\ UNCHANGED <<stores, history>> /\ At(p, "load")
          /\ step = "count" <=> Active(n)
    BY <1>0, <1>3 DEF BridgeLoads, Active
  <2>2. Busy(p)' /\ cmd'[p].at = step
    BY <1>0, <2>1, AfterGoto DEF Steps
  <2>3. Facts(n, Making(p), Bridging(p))'
    BY <1>0, <2>1, <2>2
    DEF Facts, Making, Bridging, At, Owns, Active, L!Exists, stores, history, log
  <2>4. Stage(p, n)'
    BY <1>0, <2>1, <2>2 DEF Stage, Bridging, At, Active, L!Exists, stores, history, log
  <2> QED
    BY <2>2, <2>3, <2>4 DEF After, Mid
<1> QED
  BY <1>2, <1>3

LEMMA Drops ==
    ASSUME TypeOK, NEW p \in Procs, NEW n \in Names, On(p, n), Mid(p, n),
           \/ KillAgent(p) \/ LookUp(p) \/ DeleteWorktree(p) \/ CleanBranch(p)
           \/ RecordDeletion(p) \/ RecordDrop(p)
    PROVE  After(p, n)
<1>0. /\ CmdOK /\ Busy(p) /\ n = cmd[p].name /\ ledger \in L!Tasks /\ AgentsOK
      /\ Facts(n, Making(p), Bridging(p)) /\ Stage(p, n)
  BY TypeParts DEF On, Mid
<1>1. CASE KillAgent(p)
  <2>1. /\ UNCHANGED <<ledger, worktrees, left, raced>> /\ At(p, "kill")
        /\ \/ agents'[n] = None /\ n \notin stray'
           \/ UNCHANGED agents /\ agents[n] # None /\ n \in stray'
           \/ UNCHANGED <<agents, stray>> /\ agents[n] = None
    BY <1>0, <1>1 DEF KillAgent, NoAgent, Forget, Running, AgentsOK, log
  <2>2. PICK step \in {"look", "delete", "deleted", "forget"} :
          /\ Goto(p, step)
          /\ p \in Tuis => step = "look"
          /\ step = "look" => p \in Tuis
          /\ step = "delete" => cmd[p].owned /\ n \in worktrees
          /\ step = "deleted" => cmd[p].owned /\ n \notin worktrees
          /\ step = "forget" => ~cmd[p].owned
    BY <1>0, <1>1 DEF KillAgent, AfterKill, ToDelete, log
  <2>3. Busy(p)' /\ cmd'[p].at = step
    BY <1>0, <2>2, AfterGoto DEF Steps
  <2>4. Facts(n, Making(p), Bridging(p))'
    BY <1>0, <2>1, <2>3 DEF Facts, Making, Bridging, At, Owns, Active, L!Exists
  <2>5. Stage(p, n)'
    BY <1>0, <2>1, <2>2, <2>3
    DEF Facts, Stage, Making, Bridging, At, Owns, Active, L!Exists
  <2> QED
    BY <2>3, <2>4, <2>5 DEF After, Mid
<1>2. CASE LookUp(p)
  <2>1. PICK step \in {"delete", "forget"} :
          /\ Goto(p, step) /\ UNCHANGED <<stores, history>> /\ At(p, "look")
          /\ step = "delete" <=> Owns(n) /\ n \in worktrees
    BY <1>0, <1>2 DEF LookUp, ToDelete, Owns, Active
  <2>2. Busy(p)' /\ cmd'[p].at = step
    BY <1>0, <2>1, AfterGoto DEF Steps
  <2>3. Facts(n, Making(p), Bridging(p))'
    BY <1>0, <2>1, <2>2
    DEF Facts, Making, Bridging, At, Owns, Active, L!Exists, stores, history, log
  <2>4. Stage(p, n)'
    BY <1>0, <2>1, <2>2
    DEF Facts, Stage, Making, Bridging, At, Owns, Active, L!Exists, stores, history, log
  <2> QED
    BY <2>2, <2>3, <2>4 DEF After, Mid
<1>3. CASE DeleteWorktree(p)
  <2>1. UNCHANGED <<ledger, agents, seen, stray, raced>> /\ At(p, "delete")
    BY <1>3 DEF DeleteWorktree, log
  <2>2. CASE worktrees' = worktrees \ {n} /\ left' = left \ {n} /\ Goto(p, "branch")
    <3>1. Busy(p)' /\ cmd'[p].at = "branch"
      BY <1>0, <2>2, AfterGoto DEF Steps
    <3>2. Facts(n, Making(p), Bridging(p))'
      BY <1>0, <2>1, <2>2, <3>1 DEF Facts, Making, Bridging, At, Owns, Active, L!Exists
    <3>3. Stage(p, n)'
      BY <1>0, <2>1, <2>2, <3>1 DEF Stage, Bridging, At
    <3> QED
      BY <3>1, <3>2, <3>3 DEF After, Mid
  <2>3. CASE /\ UNCHANGED worktrees /\ p \in Tuis
             /\ left' = left \cup ({n} \cap worktrees) /\ Goto(p, "forget")
    <3>1. Busy(p)' /\ cmd'[p].at = "forget"
      BY <1>0, <2>3, AfterGoto DEF Steps
    <3>2. Facts(n, Making(p), Bridging(p))'
      BY <1>0, <2>1, <2>3, <3>1 DEF Facts, Making, Bridging, At, Owns, Active, L!Exists
    <3>3. Stage(p, n)'
      BY <1>0, <2>1, <2>3, <3>1 DEF Stage, Bridging, At
    <3> QED
      BY <3>1, <3>2, <3>3 DEF After, Mid
  <2>4. CASE UNCHANGED <<worktrees, left>> /\ End(p)
    <3>1. Facts(n, FALSE, FALSE)'
      BY <1>0, <2>1, <2>4
      DEF Facts, Stage, Making, Bridging, At, Owns, Active, L!Exists
    <3> QED
      BY <1>0, <2>4, <3>1, EndEffect DEF After
  <2> QED
    BY <1>0, <1>3, <2>2, <2>3, <2>4 DEF DeleteWorktree, AfterFailedDelete, log
<1>4. CASE CleanBranch(p) \/ RecordDeletion(p)
  <2>1. /\ UNCHANGED <<ledger, worktrees, agents, history>>
        /\ cmd[p].at \in {"branch", "deleted"}
        /\ End(p) \/ \E step \in {"forget", "deleted"} : Goto(p, step)
    BY <1>0, <1>4, NotedEffect
    DEF CleanBranch, RecordDeletion, AfterFailedDelete, At, stores, log
  <2>2. CASE End(p)
    <3>1. Facts(n, FALSE, FALSE)'
      BY <1>0, <2>1
      DEF Facts, Making, Bridging, At, Owns, Active, L!Exists, history
    <3> QED
      BY <1>0, <2>2, <3>1, EndEffect DEF After
  <2>3. CASE \E step \in {"forget", "deleted"} : Goto(p, step)
    <3> PICK step \in {"forget", "deleted"} : Goto(p, step)
      BY <2>3
    <3>1. Busy(p)' /\ cmd'[p].at = step
      BY <1>0, AfterGoto DEF Steps
    <3>2. Facts(n, Making(p), Bridging(p))'
      BY <1>0, <2>1, <3>1
      DEF Facts, Making, Bridging, At, Owns, Active, L!Exists, history
    <3>3. Stage(p, n)'
      BY <1>0, <2>1, <3>1 DEF Stage, Bridging, At, history
    <3> QED
      BY <3>1, <3>2, <3>3 DEF After, Mid
  <2> QED
    BY <2>1, <2>2, <2>3
<1>5. CASE RecordDrop(p)
  <2>1. /\ UNCHANGED <<worktrees, agents, history>> /\ At(p, "forget") /\ End(p)
        /\ Append(L!TaskDropped(n))
    BY <1>0, <1>5 DEF RecordDrop
  <2>2. ledger'[n] = None
    BY <1>0, <2>1, DroppedEffect
  <2>3. Facts(n, FALSE, FALSE)'
    BY <1>0, <2>1, <2>2
    DEF Facts, Stage, Making, Bridging, At, Owns, Active, L!Exists, history
  <2> QED
    BY <1>0, <2>1, <2>3, EndEffect DEF After
<1> QED
  BY <1>1, <1>2, <1>3, <1>4, <1>5

\* Nothing of what was done is undone, and what is left of it is remembered.
LEMMA Abandons ==
    ASSUME TypeOK, NEW p \in Procs, NEW n \in Names, On(p, n), Mid(p, n), Abandon(p)
    PROVE  After(p, n)
<1>0. /\ CmdOK /\ Busy(p) /\ n = cmd[p].name
      /\ Facts(n, Making(p), Bridging(p)) /\ Stage(p, n)
  BY TypeParts DEF On, Mid
<1>1. End(p) /\ UNCHANGED <<ledger, worktrees, agents, raced>>
  BY DEF Abandon, stores, log
<1>2. /\ n \in left' <=> n \in left \/ (Making(p) /\ n \in worktrees)
      /\ n \in stray' <=> n \in stray \/ (Bridging(p) /\ agents[n] # None)
  BY <1>0 DEF Abandon, Running, Making, Bridging
<1>3. Facts(n, FALSE, FALSE)'
  BY <1>0, <1>1, <1>2 DEF Facts, Stage, Owns, Active, L!Exists
<1> QED
  BY <1>0, <1>1, <1>3, EndEffect DEF After

LEMMA StepAfter ==
    ASSUME TypeOK, NEW p \in Procs, NEW n \in Names, On(p, n), Mid(p, n), Step(p)
    PROVE  After(p, n)
BY MakesWorktree, Records, Launches, Drops, Abandons DEF Step

-----------------------------------------------------------------------------
(* Every step keeps what is known of every name *)

\* The stores change at the name of the command only.
LEMMA StepElsewhere ==
    ASSUME TypeOK, NEW p \in Procs, NEW m \in Names, Step(p), m # cmd[p].name
    PROVE  SameStores(m)
<1>0. /\ CmdOK /\ ledger \in L!Tasks /\ AgentsOK
      /\ cmd[p].name \in Names /\ cmd[p].dir \in Dirs /\ cmd[p].owned \in BOOLEAN
  BY TypeParts, StepMoves, BusyIsCommand
<1>1. ledger'[m] = ledger[m]
  <2>1. CASE RecordTask(p) \/ Adopt(p) \/ RecordRun(p) \/ RecordDeletion(p) \/ RecordDrop(p)
    BY <1>0, <2>1, CreatedEffect, StartedEffect, DroppedEffect, NotedEffect
    DEF RecordTask, Adopt, RecordRun, RecordDeletion, RecordDrop
  <2>2. CASE ~(RecordTask(p) \/ Adopt(p) \/ RecordRun(p) \/ RecordDeletion(p) \/ RecordDrop(p))
    <3>1. UNCHANGED ledger
      BY <2>2 DEF Step, CheckTarget, ResolveBranch, AddWorktree, InitWorktree,
         RunCommands, Spawn, KillAgent, LookUp, DeleteWorktree, CleanBranch,
         BridgeLoads, Abandon, stores, Launch, log
    <3> QED
      BY <3>1
  <2> QED
    BY <2>1, <2>2
<1>2. agents'[m] = agents[m]
  <2>1. CASE Spawn(p) \/ KillAgent(p)
    BY <1>0, <2>1 DEF Spawn, KillAgent, NoAgent, AgentsOK, Launch, log
  <2>2. CASE ~(Spawn(p) \/ KillAgent(p))
    <3>1. UNCHANGED agents
      BY <2>2 DEF Step, CheckTarget, ResolveBranch, AddWorktree, InitWorktree,
         RunCommands, RecordTask, RecordRun, LookUp, DeleteWorktree, CleanBranch,
         RecordDeletion, RecordDrop, BridgeLoads, Adopt, Abandon, stores, log
    <3> QED
      BY <3>1
  <2> QED
    BY <2>1, <2>2
<1>3. m \in worktrees' <=> m \in worktrees
  BY DEF Step, CheckTarget, ResolveBranch, AddWorktree, InitWorktree, RunCommands,
     RecordTask, Spawn, RecordRun, KillAgent, LookUp, DeleteWorktree, CleanBranch,
     RecordDeletion, RecordDrop, BridgeLoads, Adopt, Abandon, stores, Launch, log
<1>4. CASE InitWorktree(p) \/ RunCommands(p) \/ KillAgent(p) \/ DeleteWorktree(p)
             \/ Abandon(p)
  <2>1. /\ m \in left' <=> m \in left
        /\ m \in stray' <=> m \in stray
        /\ UNCHANGED raced
    BY <1>4 DEF InitWorktree, RunCommands, InitFails, KillAgent, Forget, Running,
       DeleteWorktree, Abandon, log
  <2> QED
    BY <1>1, <1>2, <1>3, <2>1 DEF SameStores
<1>5. CASE ~(InitWorktree(p) \/ RunCommands(p) \/ KillAgent(p) \/ DeleteWorktree(p)
             \/ Abandon(p))
  <2>1. UNCHANGED history
    BY <1>5 DEF Step, CheckTarget, ResolveBranch, AddWorktree, RecordTask, Spawn,
       RecordRun, LookUp, CleanBranch, RecordDeletion, RecordDrop, BridgeLoads, Adopt,
       Launch, log
  <2> QED
    BY <1>1, <1>2, <1>3, <2>1 DEF SameStores, history
<1> QED
  BY <1>4, <1>5

LEMMA StepKeeps ==
    ASSUME FlowsInv, NEW p \in Procs, NEW m \in Names, Step(p)
    PROVE  NameInv(m)'
<1>0. TypeOK /\ CmdOK /\ NameInv(m)
  BY TypeParts DEF FlowsInv
<1>1. /\ Busy(p) /\ On(p, cmd[p].name) /\ cmd[p].name \in Names
      /\ \A q \in Procs \ {p} : cmd'[q] = cmd[q]
      /\ Busy(p)' => cmd'[p].name = cmd[p].name
  BY <1>0, StepMoves, BusyIsCommand, GotoEffect, EndEffect DEF On
<1>2. CASE m # cmd[p].name
  <2>1. SameCommands(m)
    BY <1>1, <1>2, OtherCommands DEF On
  <2> QED
    BY <1>0, <1>2, <2>1, StepElsewhere, Unconcerned
<1>3. CASE m = cmd[p].name /\ m \in raced
  <2>1. raced \subseteq raced'
    BY DEF Step, CheckTarget, ResolveBranch, AddWorktree, InitWorktree, RunCommands,
       RecordTask, Spawn, RecordRun, KillAgent, LookUp, DeleteWorktree, CleanBranch,
       RecordDeletion, RecordDrop, BridgeLoads, Adopt, Abandon, history, Launch, log
  <2> QED
    BY <1>3, <2>1 DEF NameInv
<1>4. CASE m = cmd[p].name /\ m \notin raced
  <2>1. Sole(p, m) /\ Mid(p, m)
    BY <1>0, <1>1, <1>4 DEF NameInv, Free, Sole
  <2>2. After(p, m)
    BY <1>0, <1>1, <1>4, <2>1, StepAfter
  <2>3. \A q \in Procs \ {p} : ~On(q, m)'
    BY <1>1, <2>1 DEF Sole, On, Busy
  <2>4. CASE Busy(p)'
    BY <1>1, <1>4, <2>2, <2>3, <2>4 DEF After, NameInv, Sole, On
  <2>5. CASE ~Busy(p)'
    BY <2>2, <2>3, <2>5 DEF After, NameInv, Free, On
  <2> QED
    BY <2>4, <2>5
<1> QED
  BY <1>2, <1>3, <1>4

\* A command that begins on a name without another is alone on it, and knows what
\* it has read.
LEMMA BeginKeeps ==
    ASSUME FlowsInv, NEW p \in Procs, NEW n \in Names, NEW m \in Names,
           \/ BeginNew(p, n) \/ NewInTui(p, n) \/ BeginRun(p, n) \/ RunInTui(p, n)
           \/ BeginDrop(p, n) \/ DropInTui(p, n) \/ BeginBridge(p, n)
    PROVE  NameInv(m)'
<1>0. TypeOK /\ CmdOK /\ AgentsOK /\ MemoryOK /\ ledger \in L!Tasks /\ NameInv(m)
      /\ seen \in [Tuis -> L!Tasks]
  BY TypeParts DEF FlowsInv
<1>1. PICK step \in Steps, d \in Dirs, o \in BOOLEAN :
        /\ Begin(p, n, step, d, o)
        /\ \/ /\ step = "check" /\ o /\ ~Active(n)
           \/ /\ step = "record" /\ ~o /\ ~Active(n)
           \/ /\ step = "spawn" /\ p \notin Tuis /\ Active(n) /\ d = ledger[n].dir
           \/ /\ step = "spawn" /\ p \in Tuis /\ L!Exists(seen[p], n) /\ d = seen[p][n].dir
           \/ /\ step = "kill" /\ p \notin Tuis /\ Active(n) /\ o = ledger[n].owned
           \/ /\ step = "kill" /\ p \in Tuis /\ L!Exists(seen[p], n)
           \/ /\ step = "load" /\ p \in Bridges /\ agents[n] = None
              /\ agents' = [agents EXCEPT ![n] = [dir |-> d, by |-> p]]
        /\ step # "load" => UNCHANGED agents
        /\ UNCHANGED <<ledger, worktrees, seen, left, stray>>
  <2>1. ASSUME NEW tasks \in L!Tasks, L!Exists(tasks, n)
        PROVE  tasks[n].dir \in Dirs /\ tasks[n].owned \in BOOLEAN
    BY <2>1 DEF L!Tasks, L!Exists, L!Snapshot
  <2>2. Target(n) \in Dirs
    BY DEF Dirs, Targets
  <2>3. p \in Clis \/ p \in Bridges => p \notin Tuis
    BY FlowsAssumption
  <2>4. CASE BeginNew(p, n) \/ NewInTui(p, n)
    BY <2>2, <2>4 DEF BeginNew, NewInTui, Active, Steps, stores, log
  <2>5. CASE BeginRun(p, n)
    BY <1>0, <2>1, <2>3, <2>5 DEF BeginRun, Active, Steps, stores, log
  <2>6. CASE BeginDrop(p, n)
    BY <1>0, <2>1, <2>3, <2>6 DEF BeginDrop, Active, Steps, stores, log
  <2>7. CASE RunInTui(p, n) \/ DropInTui(p, n)
    <3>1. p \in Tuis /\ seen[p] \in L!Tasks
      BY <1>0, <2>7 DEF RunInTui, DropInTui
    <3> QED
      BY <2>1, <2>7, <3>1 DEF RunInTui, DropInTui, Steps, stores, log
  <2>8. CASE BeginBridge(p, n)
    BY <2>8 DEF BeginBridge, Steps, Launch
  <2> QED
    BY <2>4, <2>5, <2>6, <2>7, <2>8
<1>2. /\ ~Busy(p)
      /\ cmd'[p] = [at |-> step, name |-> n, dir |-> d, owned |-> o]
      /\ \A q \in Procs \ {p} : cmd'[q] = cmd[q]
  BY <1>0, <1>1, BeginEffect
<1>3. raced \subseteq raced' /\ raced' \subseteq raced \cup {n}
  BY <1>1 DEF Begin
<1>4. CASE m # n
  <2>1. SameCommands(m)
    BY <1>2, <1>4, OtherCommands DEF On
  <2>2. agents'[m] = agents[m]
    BY <1>0, <1>1, <1>4 DEF AgentsOK
  <2> QED
    BY <1>0, <1>1, <1>3, <1>4, <2>1, <2>2, Unconcerned DEF SameStores
<1>5. CASE m = n /\ n \in raced'
  BY <1>5 DEF NameInv
<1>6. CASE m = n /\ n \notin raced'
  <2>1. /\ n \notin raced
        /\ \A q \in Procs \ {p} : ~On(q, n)
        /\ p \in Tuis => seen[p][n] = ledger[n]
    BY <1>1, <1>3, <1>6 DEF Begin
  <2>2. Facts(n, FALSE, FALSE)
    BY <1>0, <1>2, <1>6, <2>1 DEF NameInv, Sole, On
  <2>3. /\ cmd'[p].at = step /\ cmd'[p].name = n /\ cmd'[p].dir = d
        /\ cmd'[p].owned = o /\ Busy(p)'
    BY <1>2 DEF Busy
  <2>4. Sole(p, n)'
    BY <1>2, <2>1, <2>3 DEF Sole, On, Busy
  <2>5. CASE step = "load"
    <3>1. agents'[n] # None /\ agents'[n].by = p /\ p \in Bridges
      BY <1>0, <1>1, <1>3, <2>5, AgentComes
    <3>2. Facts(n, Making(p), Bridging(p))'
      BY <1>1, <2>2, <2>3, <2>5, <3>1
      DEF Facts, Making, Bridging, At, Owns, Active, L!Exists
    <3>3. Stage(p, n)'
      BY <2>3, <2>5, <3>1 DEF Stage, Bridging, At
    <3> QED
      BY <1>6, <2>4, <3>2, <3>3 DEF NameInv, Mid
  <2>6. CASE step # "load"
    <3>1. /\ step \in {"check", "record", "spawn", "kill"}
          /\ step \in {"check", "record"} => ~Active(n)
          /\ step = "check" => o
          /\ step \in {"spawn", "kill"} => Active(n)
          /\ step = "spawn" => d = ledger[n].dir
          /\ step = "kill" /\ p \notin Tuis => o = ledger[n].owned
          /\ UNCHANGED <<ledger, worktrees, agents, left, stray>>
      BY <1>1, <2>1, <2>6 DEF Active, L!Exists
    <3>2. Facts(n, Making(p), Bridging(p))'
      BY <2>2, <2>3, <3>1 DEF Facts, Making, Bridging, At, Owns, Active, L!Exists
    <3>3. Stage(p, n)'
      BY <2>3, <3>1 DEF Stage, Bridging, At, Active, L!Exists
    <3> QED
      BY <1>6, <2>4, <3>2, <3>3 DEF NameInv, Mid
  <2> QED
    BY <2>5, <2>6
<1> QED
  BY <1>4, <1>5, <1>6

\* A name that loses its agent or its worktree, whatever command is on it.
LEMMA LosesKeeps ==
    ASSUME FlowsInv, NEW n \in Names, NEW m \in Names, Loses(n)
    PROVE  NameInv(m)'
<1>0. TypeOK /\ CmdOK /\ AgentsOK /\ NameInv(m)
  BY TypeParts DEF FlowsInv
<1>1. /\ UNCHANGED <<ledger, raced>> /\ SameCommands(m)
      /\ \/ NoAgent(n) /\ Forget(n) /\ UNCHANGED <<worktrees, left>>
         \/ /\ worktrees' = worktrees \ {n} /\ left' = left \ {n}
            /\ UNCHANGED <<agents, stray>>
  BY <1>0, LosesEffect DEF SameCommands, On, Busy
<1>2. CASE m # n
  <2>1. SameStores(m)
    BY <1>0, <1>1, <1>2 DEF SameStores, NoAgent, Forget, AgentsOK
  <2> QED
    BY <1>0, <1>1, <2>1, Unconcerned
<1>3. CASE m = n /\ m \notin raced
  <2>1. \/ /\ agents'[m] = None /\ m \notin stray'
           /\ UNCHANGED <<worktrees, left>>
        \/ /\ m \notin worktrees' /\ UNCHANGED <<agents, stray>>
    BY <1>0, <1>1, <1>3 DEF NoAgent, Forget, AgentsOK
  <2>2. CASE Free(m) /\ Facts(m, FALSE, FALSE)
    <3>1. Free(m)'
      BY <1>1, <2>2 DEF Free, SameCommands
    <3>2. Facts(m, FALSE, FALSE)'
      BY <1>1, <2>1, <2>2 DEF Facts, Owns, Active, L!Exists
    <3> QED
      BY <3>1, <3>2 DEF NameInv
  <2>3. CASE \E p \in Procs : Sole(p, m) /\ Mid(p, m)
    <3> PICK p \in Procs : Sole(p, m) /\ Mid(p, m)
      BY <2>3
    <3>1. Sole(p, m)' /\ cmd'[p] = cmd[p]
      BY <1>1 DEF Sole, SameCommands
    <3>2. Facts(m, Making(p), Bridging(p))'
      BY <1>1, <2>1, <3>1
      DEF Mid, Facts, Making, Bridging, At, Owns, Active, L!Exists
    <3>3. Stage(p, m)'
      BY <1>1, <2>1, <3>1
      DEF Mid, Stage, Bridging, At, Owns, Active, L!Exists
    <3> QED
      BY <3>1, <3>2, <3>3 DEF NameInv, Mid
  <2> QED
    BY <1>0, <1>3, <2>2, <2>3 DEF NameInv
<1> QED
  BY <1>1, <1>2, <1>3 DEF NameInv

LEMMA ReloadKeeps ==
    ASSUME FlowsInv, NEW p \in Procs, NEW m \in Names, Reload(p)
    PROVE  NameInv(m)'
<1>1. CmdOK /\ NameInv(m)
  BY TypeParts DEF FlowsInv
<1>2. /\ ~Busy(p) /\ ~Busy(p)'
      /\ \A q \in Procs \ {p} : cmd'[q] = cmd[q]
  BY <1>1 DEF Reload, Busy, Idle, Reloading, Steps, CmdOK
<1>3. SameCommands(m)
  BY <1>2, OtherCommands DEF On
<1>4. SameStores(m)
  BY DEF Reload, SameStores, stores, history, log
<1> QED
  BY <1>1, <1>3, <1>4, Unconcerned

LEMMA FlowsInvInductive ==
    /\ Init => FlowsInv
    /\ FlowsInv /\ [Next]_vars => FlowsInv'
<1>1. ASSUME Init PROVE FlowsInv
  <2>1. ASSUME NEW m \in Names PROVE NameInv(m)
    <3>1. Free(m)
      BY <1>1 DEF Init, Free, On, Busy, Rest, Idle, Reloading, Steps
    <3>2. Facts(m, FALSE, FALSE)
      BY <1>1 DEF Init, Facts
    <3> QED
      BY <3>1, <3>2 DEF NameInv
  <2> QED
    BY <1>1, <2>1, InitType DEF FlowsInv
<1>2. ASSUME FlowsInv, UNCHANGED vars, NEW m \in Names PROVE NameInv(m)'
  <2>1. SameCommands(m) /\ SameStores(m)
    BY <1>2 DEF vars, SameCommands, SameStores, On, Busy
  <2> QED
    BY <1>2, <2>1, Unconcerned DEF FlowsInv
<1>3. ASSUME FlowsInv, Next, NEW m \in Names PROVE NameInv(m)'
  BY <1>3, NextCases, BeginKeeps, StepKeeps, ReloadKeeps, LosesKeeps
<1> QED
  BY <1>1, <1>2, <1>3, NextType DEF FlowsInv

-----------------------------------------------------------------------------
(* What follows *)

\* What is known of a name gives the properties of that name.
LEMMA NameFacts ==
    ASSUME FlowsInv, NEW m \in Names \ raced
    PROVE  Facts(m, Amid(m, {"init", "commands", "record"}), Amid(m, {"load", "adopt"}))
<1>1. CASE Free(m) /\ Facts(m, FALSE, FALSE)
  BY <1>1 DEF Facts
<1>2. CASE \E p \in Procs : Sole(p, m) /\ Mid(p, m)
  <2> PICK p \in Procs : Sole(p, m) /\ Mid(p, m)
    BY <1>2
  <2>1. /\ Making(p) => Amid(m, {"init", "commands", "record"})
        /\ Bridging(p) => Amid(m, {"load", "adopt"})
    BY DEF Making, Bridging, At, Amid, Sole
  <2> QED
    BY <2>1 DEF Mid, Facts
<1> QED
  BY <1>1, <1>2 DEF FlowsInv, NameInv

\* No sequence of commands, of any number of processes that die and fail where
\* they may, loses track of a worktree of a name they do not race on.
THEOREM WorktreesCorrect == Spec => []WorktreesAccounted
<1>1. FlowsInv => WorktreesAccounted
  <2> SUFFICES ASSUME FlowsInv PROVE WorktreesAccounted
    OBVIOUS
  <2>1. worktrees \subseteq Names
    BY DEF FlowsInv, TypeOK
  <2> QED
    BY <2>1, NameFacts DEF WorktreesAccounted, Facts
<1> QED
  BY <1>1, FlowsInvInductive, PTL DEF Spec

\* Nor of an agent.
THEOREM AgentsCorrect == Spec => []AgentsAccounted
<1>1. FlowsInv => AgentsAccounted
  BY NameFacts DEF AgentsAccounted, Facts
<1> QED
  BY <1>1, FlowsInvInductive, PTL DEF Spec

\* An agent launched for a task runs where the task is.
THEOREM DirsCorrect == Spec => []InTaskDir
<1>1. FlowsInv => InTaskDir
  BY NameFacts DEF InTaskDir, Facts
<1> QED
  BY <1>1, FlowsInvInductive, PTL DEF Spec

-----------------------------------------------------------------------------
(* What a step may not do *)

LEMMA OnIsMid ==
    ASSUME FlowsInv, NEW p \in Procs, NEW n \in Names \ raced, On(p, n)
    PROVE  Mid(p, n)
BY DEF FlowsInv, NameInv, Free, Sole

\* The steps that change the ledger at a name are those of a command on it.
LEMMA LedgerChanges ==
    ASSUME FlowsInv, Next, NEW n \in Names, ledger'[n] # ledger[n]
    PROVE  \E p \in Procs : On(p, n) /\ Step(p) /\ UNCHANGED raced
<1>0. TypeOK /\ CmdOK
  BY TypeParts DEF FlowsInv
<1>1. ASSUME NEW p \in Procs, NEW m \in Names,
             \/ BeginNew(p, m) \/ NewInTui(p, m) \/ BeginRun(p, m)
             \/ RunInTui(p, m) \/ BeginDrop(p, m) \/ DropInTui(p, m)
             \/ BeginBridge(p, m)
      PROVE  FALSE
  BY <1>1 DEF BeginNew, NewInTui, BeginRun, RunInTui, BeginDrop, DropInTui,
     BeginBridge, stores, Launch, log
<1>2. ASSUME NEW p \in Procs, Reload(p) PROVE FALSE
  BY <1>2 DEF Reload, stores, log
<1>3. ASSUME NEW m \in Names, Loses(m) PROVE FALSE
  BY <1>0, <1>3, LosesEffect
<1>4. PICK p \in Procs : Step(p)
  BY <1>1, <1>2, <1>3, NextCases
<1>5. n = cmd[p].name
  BY <1>0, <1>4, StepElsewhere DEF SameStores
<1>6. On(p, n)
  BY <1>0, <1>4, <1>5, StepMoves DEF On
<1>7. UNCHANGED raced
  BY <1>4 DEF Step, CheckTarget, ResolveBranch, AddWorktree, InitWorktree,
     RunCommands, RecordTask, Spawn, RecordRun, KillAgent, LookUp, DeleteWorktree,
     CleanBranch, RecordDeletion, RecordDrop, BridgeLoads, Adopt, Abandon, history,
     Launch, log
<1> QED
  BY <1>4, <1>6, <1>7

LEMMA StepIsStable ==
    ASSUME FlowsInv, Next, NEW n \in Names \ raced', Active(n), L!Exists(ledger', n)
    PROVE  ledger'[n].dir = ledger[n].dir /\ ledger'[n].owned = ledger[n].owned
<1> SUFFICES ASSUME ledger'[n] # ledger[n]
             PROVE  ledger'[n].dir = ledger[n].dir /\ ledger'[n].owned = ledger[n].owned
  OBVIOUS
<1>0. ledger \in L!Tasks /\ CmdOK
  BY TypeParts DEF FlowsInv
<1>1. PICK p \in Procs : On(p, n) /\ Step(p) /\ UNCHANGED raced
  BY LedgerChanges
<1>2. Stage(p, n) /\ cmd[p].name = n
  BY <1>1, OnIsMid DEF Mid, On
<1>3. ~RecordTask(p) /\ ~Adopt(p)
  BY <1>2 DEF RecordTask, Adopt, Stage, At
<1>4. ~RecordDrop(p) /\ ~RecordDeletion(p)
  BY <1>0, <1>2, DroppedEffect, NotedEffect DEF RecordDrop, RecordDeletion, Active, L!Exists
<1>5. RecordRun(p)
  BY <1>1, <1>3, <1>4
  DEF Step, CheckTarget, ResolveBranch, AddWorktree, InitWorktree, RunCommands,
      Spawn, KillAgent, LookUp, DeleteWorktree, CleanBranch, BridgeLoads, Abandon, stores,
      Launch, log
<1> QED
  BY <1>0, <1>2, <1>5, StartedEffect DEF RecordRun, Active, L!Exists

\* A task of a name nobody races on keeps its directory, and whether it owns it,
\* until it is dropped.
THEOREM TasksAreStable == Spec => TaskIsStable
<1>1. FlowsInv /\ [Next]_vars =>
        [\A n \in Names \ raced' :
           Active(n) /\ L!Exists(ledger', n)
             => /\ ledger'[n].dir = ledger[n].dir
                /\ ledger'[n].owned = ledger[n].owned]_vars
  BY StepIsStable
<1> QED
  BY <1>1, FlowsInvInductive, PTL DEF Spec, TaskIsStable

LEMMA DeletionIsOwn ==
    ASSUME FlowsInv, Next, NEW n \in worktrees \ (worktrees' \cup raced)
    PROVE  Owns(n) \/ RemovedByHand(n)
<1>0. TypeOK /\ CmdOK /\ n \in Names
  BY TypeParts DEF FlowsInv, TypeOK
<1>1. ASSUME NEW p \in Procs, NEW m \in Names,
             \/ BeginNew(p, m) \/ NewInTui(p, m) \/ BeginRun(p, m)
             \/ RunInTui(p, m) \/ BeginDrop(p, m) \/ DropInTui(p, m)
             \/ BeginBridge(p, m)
      PROVE  FALSE
  BY <1>1 DEF BeginNew, NewInTui, BeginRun, RunInTui, BeginDrop, DropInTui,
     BeginBridge, stores, Launch, log
<1>2. ASSUME NEW p \in Procs, Reload(p) PROVE FALSE
  BY <1>2 DEF Reload, stores, log
<1>3. ASSUME NEW m \in Names, Loses(m) PROVE RemovedByHand(n)
  BY <1>3 DEF Loses, Stop, StopInTui, StopAgent, StopByBridge, AgentExits, RemovedByHand,
     log
<1>4. ASSUME NEW p \in Procs, Step(p) PROVE Owns(n)
  <2>1. At(p, "delete") /\ n = cmd[p].name
    BY <1>4 DEF Step, CheckTarget, ResolveBranch, AddWorktree, InitWorktree,
       RunCommands, RecordTask, Spawn, RecordRun, KillAgent, LookUp, DeleteWorktree,
       CleanBranch, RecordDeletion, RecordDrop, BridgeLoads, Adopt, Abandon, stores,
       Launch, log
  <2>2. On(p, n)
    BY <1>0, <1>4, <2>1, StepMoves DEF On
  <2> QED
    BY <1>0, <2>1, <2>2, OnIsMid DEF Mid, Stage
<1> QED
  BY <1>1, <1>2, <1>3, <1>4, NextCases

\* tam deletes the worktree of a name nobody races on only for the task that owns
\* it.
THEOREM DeletionsAreOwn == Spec => DeletesOnlyItsOwn
<1>1. FlowsInv /\ [Next]_vars =>
        [\A n \in worktrees \ (worktrees' \cup raced) : Owns(n) \/ RemovedByHand(n)]_vars
  BY DeletionIsOwn
<1> QED
  BY <1>1, FlowsInvInductive, PTL DEF Spec, DeletesOnlyItsOwn
===============================================================================
