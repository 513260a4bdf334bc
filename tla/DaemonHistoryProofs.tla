------------------------ MODULE DaemonHistoryProofs ------------------------
(***************************************************************************)
(* What is proved, for every value of the constants, of the daemon         *)
(* observed: which agents a shutdown can leave behind, when the daemon     *)
(* stops by itself, and what the event stream tells of the table.          *)
(***************************************************************************)
EXTENDS DaemonHistory, DaemonProofs

-----------------------------------------------------------------------------
(* The observed daemon is the daemon *)

LEMMA ObservedStep ==
    /\ HistoryNext => Next
    /\ [HistoryNext]_hvars => [Next]_vars
<1>1. HistoryNext => Next
  BY DEF HistoryNext, Watch, Next, Monitor
<1> QED
  BY <1>1 DEF hvars

LEMMA OwnerInvObserved ==
    /\ Init => OwnerInv
    /\ OwnerInv /\ [HistoryNext]_hvars => OwnerInv'
BY OwnerInvInductive, ObservedStep

-----------------------------------------------------------------------------
(* Agents left behind by a shutdown *)

\* What makes OnlyLateAgentsDropped inductive: once the daemon has decided to shut
\* down, the agents in the table are also later than that decision.
LateInv ==
    /\ before \in Nat /\ before <= spawned
    /\ poll = "look" => shutdown
    /\ ~shutdown => dropped = {}
    /\ shutdown => \A p \in Owned \cup dropped : p > before

\* Only a handler of Shutdown and the monitor take the decision, and both leave an
\* empty table.
LEMMA DecisionEmpties ==
    ASSUME OwnerInv, Next, ~shutdown, shutdown'
    PROVE  Owned' = {} /\ UNCHANGED <<spawned, dropped>>
<1>0. TypeOK /\ TableOK(agents)
  BY DEF OwnerInv, TypeOK, TableOK
<1>1. CASE \E c \in Clients : HandleShutdown(c)
  <2> PICK c \in Clients : HandleShutdown(c)
    BY <1>1
  <2>1. DOMAIN agents' = {}
    BY <1>0, WithoutTable DEF HandleShutdown, Drained
  <2> QED
    BY <2>1 DEF HandleShutdown, Owned
<1>2. CASE MonitorTick
  <2>1. DOMAIN agents' = {} /\ UNCHANGED process
    BY <1>0, <1>2 DEF MonitorTick, Expired
  <2> QED
    BY <2>1 DEF Owned, process
<1>3. (\A c \in Clients : ~HandleShutdown(c)) /\ ~MonitorTick => shutdown' = shutdown
  BY DEF Next, Connection, Accept, Begin, Leave, Recheck, Request, HandleSpawn,
         HandleList, HandleKill, HandleSetNotify, HandleHookEvent, HandleQuery,
         HandleAttach, Monitor, MonitorStop, WriteContext, Elapse, PollSleep,
         PollStop, Process, Exit, Signalled, Reap, GiveUp
<1> QED
  BY <1>1, <1>2, <1>3

\* Which processes a step can add to those of the table and the dropped ones: a
\* step moves processes between the two sets, or launches the next one.
LEMMA NextProcesses ==
    ASSUME OwnerInv, Next
    PROVE  /\ Owned' \cup dropped' \subseteq Owned \cup dropped \cup {spawned + 1}
           /\ spawned' \in {spawned, spawned + 1}
           /\ shutdown => shutdown'
           /\ dropped' # dropped => poll = "look"
           /\ poll' = "look" => poll = "look" \/ shutdown
<1>0. TypeOK /\ TableOK(agents)
  BY DEF OwnerInv, TypeOK, TableOK
<1>1. CASE \E c \in Clients : Connection(c)
  BY <1>0, <1>1 DEF Connection, Accept, Begin, Leave, Recheck, table, process, Owned
<1>2. ASSUME NEW c \in Clients, Request(c)
      PROVE  /\ Owned' \subseteq Owned \cup {spawned + 1}
             /\ spawned' \in {spawned, spawned + 1}
             /\ shutdown => shutdown'
             /\ UNCHANGED <<dropped, poll>>
  <2>1. CASE HandleSpawn(c)
    <3>1. PICK id \in Ids, provider \in Providers : SpawnAs(id, provider)
      BY <1>0, <2>1, DaemonAssumption DEF HandleSpawn, TypeOK
    <3>2. UNCHANGED <<shutdown, poll>>
      BY <2>1 DEF HandleSpawn
    <3>3. CASE UNCHANGED <<agents, process>>
      BY <3>2, <3>3 DEF Owned, process
    <3>4. CASE /\ spawned < MaxSpawns
               /\ \/ agents' = With(id, NewAgent(spawned + 1, provider))
                  \/ UNCHANGED agents
               /\ spawned' = spawned + 1
               /\ UNCHANGED dropped
      <4>1. spawned + 1 \in Pids
        BY <1>0, <3>4, DaemonAssumption DEF TypeOK, Pids
      <4>2. /\ NewAgent(spawned + 1, provider) \in Agent
            /\ NewAgent(spawned + 1, provider).pid = spawned + 1
        BY <4>1, NewAgentType
      <4>3. CASE UNCHANGED agents
        BY <3>2, <3>4, <4>3 DEF Owned
      <4>4. CASE agents' = With(id, NewAgent(spawned + 1, provider))
        <5>1. /\ DOMAIN agents' = DOMAIN agents \cup {id}
              /\ agents'[id].pid = spawned + 1
              /\ \A i \in DOMAIN agents \ {id} : agents'[i] = agents[i]
          BY <1>0, <4>2, <4>4, WithTable
        <5> QED
          BY <3>2, <3>4, <5>1 DEF Owned
      <4> QED
        BY <3>4, <4>3, <4>4
    <3> QED
      BY <3>1, <3>3, <3>4 DEF SpawnAs
  <2>2. CASE HandleList(c) \/ HandleKill(c) \/ HandleShutdown(c)
    <3>1. PICK gone : agents' = Without(gone) \/ agents' = agents
      BY <2>2 DEF HandleList, HandleKill, HandleShutdown, Drained
    <3>2. /\ DOMAIN agents' \subseteq DOMAIN agents
          /\ \A id \in DOMAIN agents' : agents'[id] = agents[id]
      <4>1. CASE agents' = Without(gone)
        BY <4>1 DEF Without
      <4>2. CASE agents' = agents
        BY <4>2
      <4> QED
        BY <3>1, <4>1, <4>2
    <3>3. Owned' \subseteq Owned
      BY <3>2 DEF Owned
    <3> QED
      BY <2>2, <3>3 DEF HandleList, HandleKill, HandleShutdown, process
  <2>3. CASE HandleSetNotify(c) \/ HandleHookEvent(c)
    <3>1. /\ DOMAIN agents' = DOMAIN agents
          /\ \A id \in DOMAIN agents : agents'[id].pid = agents[id].pid
      BY <1>0, <2>3 DEF HandleSetNotify, HandleHookEvent, TableOK, Agent
    <3>2. Owned' = Owned
      BY <3>1 DEF Owned
    <3> QED
      BY <2>3, <3>2 DEF HandleSetNotify, HandleHookEvent, process
  <2>4. CASE HandleQuery(c) \/ HandleAttach(c)
    BY <2>4 DEF HandleQuery, HandleAttach, table, process, Owned
  <2> QED
    BY <1>2, <2>1, <2>2, <2>3, <2>4 DEF Request
<1>3. CASE MonitorTick \/ WriteContext
  <2>1. /\ DOMAIN agents' \subseteq DOMAIN agents
        /\ \A id \in DOMAIN agents' : agents'[id].pid = agents[id].pid
    BY <1>0, <1>3 DEF MonitorTick, WriteContext, TableOK, Agent
  <2>2. Owned' \subseteq Owned
    BY <2>1 DEF Owned
  <2>3. UNCHANGED <<process, poll>> /\ (shutdown => shutdown')
    BY <1>3 DEF MonitorTick, WriteContext
  <2> QED
    BY <2>2, <2>3 DEF process
<1>4. CASE MonitorStop \/ Elapse \/ PollSleep
  BY <1>4 DEF MonitorStop, Elapse, PollSleep, table, process, Owned
<1>5. CASE PollStop
  <2>1. DOMAIN agents' = {}
    BY <1>0, <1>5, WithoutTable DEF PollStop
  <2> QED
    BY <1>5, <2>1 DEF PollStop, LoopEnds, Owned
<1>6. CASE \E p \in Pids : Process(p)
  BY <1>6 DEF Process, Exit, Signalled, Reap, GiveUp, table, process, Owned
<1> QED
  BY <1>1, <1>2, <1>3, <1>4, <1>5, <1>6 DEF Next, Monitor

LEMMA LateInvInductive ==
    /\ Init /\ HistoryInit => LateInv
    /\ OwnerInv /\ LateInv /\ [HistoryNext]_hvars => LateInv'
<1>1. Init /\ HistoryInit => LateInv
  BY DEF Init, HistoryInit, LateInv, Owned
<1>2. ASSUME OwnerInv, LateInv, HistoryNext
      PROVE  LateInv'
  <2>0. Next /\ Remember /\ spawned \in Nat
    BY <1>2, ObservedStep, DaemonAssumption DEF HistoryNext, OwnerInv, TypeOK
  <2>n. /\ Owned' \cup dropped' \subseteq Owned \cup dropped \cup {spawned + 1}
        /\ spawned' \in {spawned, spawned + 1}
        /\ shutdown => shutdown'
        /\ dropped' # dropped => poll = "look"
        /\ poll' = "look" => poll = "look" \/ shutdown
    BY <1>2, <2>0, NextProcesses
  <2>1. CASE ~shutdown /\ shutdown'
    <3>1. Owned' = {} /\ UNCHANGED <<spawned, dropped>> /\ before' = spawned
      BY <1>2, <2>0, <2>1, DecisionEmpties DEF Remember
    <3> QED
      BY <1>2, <2>0, <2>1, <3>1 DEF LateInv
  <2>2. CASE ~shutdown /\ ~shutdown'
    <3>1. before' = before /\ dropped' = dropped
      BY <1>2, <2>0, <2>2, <2>n DEF Remember, LateInv
    <3> QED
      BY <1>2, <2>0, <2>2, <2>n, <3>1 DEF LateInv
  <2>3. CASE shutdown
    <3>1. before' = before /\ shutdown'
      BY <2>0, <2>3, <2>n DEF Remember
    <3>2. before' \in Nat /\ before' <= spawned'
      BY <1>2, <2>0, <2>n, <3>1 DEF LateInv
    <3>3. \A p \in Owned \cup dropped \cup {spawned + 1} : p > before
      BY <1>2, <2>0, <2>3 DEF LateInv
    <3>4. \A p \in Owned' \cup dropped' : p > before'
      BY <2>n, <3>1, <3>3
    <3> QED
      BY <3>1, <3>2, <3>4 DEF LateInv
  <2> QED
    BY <2>1, <2>2, <2>3
<1>3. LateInv /\ UNCHANGED hvars => LateInv'
  BY DEF LateInv, hvars, history, vars, Owned
<1> QED
  BY <1>1, <1>2, <1>3

\* A shutdown, asked for or decided by the monitor, kills every agent the daemon
\* has at that moment: one left unkilled when run returns was launched later.
THEOREM ShutdownKillsAll == HistorySpec => []OnlyLateAgentsDropped
<1>1. OwnerInv /\ LateInv => OnlyLateAgentsDropped
  BY DEF LateInv, OnlyLateAgentsDropped
<1> QED
  BY <1>1, OwnerInvObserved, LateInvInductive, PTL DEF HistorySpec

-----------------------------------------------------------------------------
(* The countdown to the automatic shutdown *)

\* What makes IdleShutdownWaits hold: while the countdown runs, the time it has
\* run and the time it has left make up IdleTimeout.
IdleInv ==
    /\ quiet \in 0..IdleTimeout
    /\ idle # None => quiet + idle >= IdleTimeout

LEMMA IdleInvInductive ==
    /\ Init /\ HistoryInit => IdleInv
    /\ TypeOK /\ IdleInv /\ [HistoryNext]_hvars => IdleInv'
<1>1. Init /\ HistoryInit => IdleInv
  BY DaemonAssumption DEF Init, HistoryInit, IdleInv
<1>2. ASSUME TypeOK, IdleInv, HistoryNext
      PROVE  IdleInv'
  <2>1. CASE MonitorTick /\ quiet' = IF SeesWork THEN 0 ELSE quiet
    <3>1. CASE SeesWork
      <4>1. idle' = None
        BY <2>1, <3>1 DEF SeesWork, MonitorTick, Countdown
      <4> QED
        BY <2>1, <3>1, <4>1, DaemonAssumption DEF IdleInv
    <3>2. CASE ~SeesWork
      <4>1. idle' = IF idle = None THEN IdleTimeout ELSE idle
        BY <2>1, <3>2 DEF SeesWork, MonitorTick, Countdown
      <4> QED
        BY <1>2, <2>1, <3>2, <4>1, DaemonAssumption DEF IdleInv, TypeOK
    <3> QED
      BY <3>1, <3>2
  <2>2. CASE Elapse /\ quiet' = IF quiet < IdleTimeout THEN quiet + 1 ELSE quiet
    <3>1. quiet \in 0..IdleTimeout /\ quiet' \in 0..IdleTimeout
      BY <1>2, <2>2, DaemonAssumption DEF IdleInv
    <3>2. CASE idle = None
      <4>1. idle' = None
        BY <2>2, <3>2, DaemonAssumption DEF Elapse
      <4> QED
        BY <3>1, <4>1 DEF IdleInv
    <3>3. CASE idle # None
      <4>1. idle \in 0..IdleTimeout /\ quiet + idle >= IdleTimeout
        BY <1>2, <3>3 DEF IdleInv, TypeOK
      <4>2. idle' = IF idle = 0 THEN 0 ELSE idle - 1
        BY <2>2, <4>1, DaemonAssumption DEF Elapse
      <4> QED
        BY <2>2, <3>1, <4>1, <4>2, DaemonAssumption DEF IdleInv
    <3> QED
      BY <3>2, <3>3
  <2>3. CASE /\ \/ \E c \in Clients : Connection(c) \/ Request(c)
                \/ MonitorStop \/ WriteContext \/ PollSleep \/ PollStop
                \/ \E p \in Pids : Process(p)
             /\ UNCHANGED quiet
    <3>1. idle' = idle
      BY <2>3
      DEF Connection, Accept, Begin, Leave, Recheck, Request, HandleSpawn, HandleList,
          HandleKill, HandleSetNotify, HandleHookEvent, HandleShutdown, HandleQuery,
          HandleAttach, MonitorStop, WriteContext, PollSleep, PollStop, Process, Exit,
          Signalled, Reap, GiveUp
    <3> QED
      BY <1>2, <2>3, <3>1 DEF IdleInv
  <2> QED
    BY <1>2, <2>1, <2>2, <2>3 DEF HistoryNext, Watch
<1>3. IdleInv /\ UNCHANGED hvars => IdleInv'
  BY DEF IdleInv, hvars, history, vars
<1> QED
  BY <1>1, <1>2, <1>3

\* The monitor shuts the daemon down only when no tick of the last IdleTimeout
\* seconds saw an agent or a client and there is none at that tick either.
THEOREM IdleShutdownIsIdle == HistorySpec => IdleShutdownWaits
<1> DEFINE Waits ==
      mon = "tick" /\ mon' = "done" /\ ~shutdown =>
        quiet = IdleTimeout /\ DOMAIN agents' = {} /\ Counted = {}
<1>1. OwnerInv /\ LateInv /\ IdleInv /\ [HistoryNext]_hvars => [Waits]_hvars
  <2> SUFFICES ASSUME OwnerInv, LateInv, IdleInv, HistoryNext,
                      mon = "tick", mon' = "done", ~shutdown
               PROVE  quiet = IdleTimeout /\ DOMAIN agents' = {} /\ Counted = {}
    BY DEF hvars, vars
  <2>1. MonitorTick
    <3>1. ~PollStop
      BY DEF LateInv, PollStop, LoopEnds
    <3>2. Next
      BY ObservedStep
    <3> QED
      BY <3>1, <3>2
      DEF Next, Connection, Accept, Begin, Leave, Recheck, Request, HandleSpawn,
          HandleList, HandleKill, HandleSetNotify, HandleHookEvent, HandleShutdown,
          HandleQuery, HandleAttach, Monitor, MonitorStop, WriteContext, Elapse,
          PollSleep, Process, Exit, Signalled, Reap, GiveUp, monitor
  <2>2. DOMAIN agents' = DOMAIN agents \ Exited
    BY <2>1 DEF MonitorTick
  <2>3. DOMAIN agents' = {} /\ Counted = {} /\ idle = 0
    BY <2>1, <2>2 DEF MonitorTick, Expired
  <2>4. quiet = IdleTimeout
    BY <2>3, DaemonAssumption DEF IdleInv
  <2> QED
    BY <2>3, <2>4
<1>2. OwnerInv => TypeOK
  BY DEF OwnerInv
<1> QED
  BY <1>1, <1>2, OwnerInvObserved, LateInvInductive, IdleInvInductive, PTL
  DEF HistorySpec, IdleShutdownWaits

-----------------------------------------------------------------------------
(* What the event stream tells of the table *)

\* What is announced of an agent of the table.
Announced(agent) ==
    [pid |-> agent.pid, state |-> agent.reported, context |-> agent.context]

LEMMA AnnouncedPid ==
    ASSUME NEW agent, NEW known,
           known = [pid |-> agent.pid, state |-> agent.reported,
                    context |-> agent.context]
    PROVE  known.pid = agent.pid
OBVIOUS

\* What a step may do to the agents the stream shows and the table has not: it
\* tells nothing of them, and a new one among them has exited or is killed by a
\* shutdown.
GhostStep ==
    \A id \in DOMAIN announced' \ DOMAIN agents' :
      /\ id \in DOMAIN announced
      /\ announced'[id] = announced[id]
      /\ id \in DOMAIN agents => id \in Exited \/ shutdown'

\* A step that sends no event, keeps what was announced of the agents that stay
\* and removes only agents that have exited, unless it shuts down.
LEMMA SilentStep ==
    ASSUME StreamCoversAgents, Listen, events' = {},
           DOMAIN agents' \subseteq DOMAIN agents,
           \A id \in DOMAIN agents' :
             /\ agents'[id].pid = agents[id].pid
             /\ agents'[id].reported = agents[id].reported
             /\ agents'[id].context = agents[id].context,
           DOMAIN agents \ DOMAIN agents' \subseteq Exited \/ shutdown'
    PROVE  StreamCoversAgents' /\ GhostStep
<1>1. \A type : Named(type) = {}
  BY DEF Named
<1>2. /\ DOMAIN announced' = DOMAIN announced
      /\ \A id \in DOMAIN announced : announced'[id] = announced[id]
  BY <1>1 DEF Listen, Knows
<1> QED
  BY <1>2 DEF StreamCoversAgents, GhostStep

\* The event of a spawn makes the new agent known.
LEMMA SpawnTold ==
    ASSUME OwnerInv, StreamCoversAgents, Listen, UNCHANGED shutdown,
           NEW id \in Ids, NEW provider \in Providers, SpawnAs(id, provider)
    PROVE  StreamCoversAgents' /\ GhostStep
<1>0. TypeOK /\ TableOK(agents)
  BY DEF OwnerInv, TypeOK, TableOK
<1>1. CASE events' = {} /\ UNCHANGED agents
  BY <1>1, SilentStep
<1>2. CASE /\ spawned < MaxSpawns
           /\ agents' = With(id, NewAgent(spawned + 1, provider))
           /\ events' = {AgentSpawned(id, NewAgent(spawned + 1, provider))}
  <2> DEFINE agent == NewAgent(spawned + 1, provider)
             e == AgentSpawned(id, agent)
  <2>1. spawned + 1 \in Pids
    BY <1>0, <1>2, DaemonAssumption DEF TypeOK, Pids
  <2>2. agent \in Agent /\ agent.state = agent.reported
    BY <2>1, NewAgentType
  <2>3. /\ DOMAIN agents' = DOMAIN agents \cup {id}
        /\ agents'[id] = agent
        /\ \A i \in DOMAIN agents \ {id} : agents'[i] = agents[i]
    BY <1>0, <1>2, <2>2, WithTable
  <2>4. events' = {e} /\ e.type = "AgentSpawned" /\ e.id = id
    BY <1>2 DEF AgentSpawned
  <2>5. /\ Named("AgentSpawned") = {id}
        /\ Named("AgentExited") = {}
        /\ Named("StateChange") = {}
        /\ Named("ContextUpdate") = {}
    BY <2>4 DEF Named
  <2>6. EventOf("AgentSpawned", id) = e
    BY <2>4 DEF EventOf
  <2>7. Knows(id) = Announced(agent)
    BY <2>2, <2>5, <2>6 DEF Knows, Announced, AgentSpawned
  <2>8. /\ DOMAIN announced' = DOMAIN announced \cup {id}
        /\ announced'[id] = Announced(agent)
        /\ \A i \in DOMAIN announced \ {id} : announced'[i] = announced[i]
    BY <2>5, <2>7 DEF Listen, Knows
  <2> QED
    BY <2>3, <2>8 DEF StreamCoversAgents, GhostStep, Announced
<1> QED
  BY <1>1, <1>2 DEF SpawnAs, process

\* The event of a kill makes its removal known.
LEMMA KillTold ==
    ASSUME TypeOK, StreamCoversAgents, Listen, NEW c \in Clients, HandleKill(c)
    PROVE  StreamCoversAgents' /\ GhostStep
<1>1. PICK id \in Ids :
        \/ /\ id \in DOMAIN agents
           /\ agents' = Without({id})
           /\ events' = KillEvents(id)
        \/ events' = {} /\ UNCHANGED agents
  BY DEF HandleKill
<1>2. CASE events' = {} /\ UNCHANGED agents
  BY <1>2, SilentStep
<1>3. CASE agents' = Without({id}) /\ events' = KillEvents(id)
  <2>1. events' = {AgentExited(id)}
    BY <1>3 DEF KillEvents
  <2>e. AgentExited(id).type = "AgentExited" /\ AgentExited(id).id = id
    BY DEF AgentExited
  <2>2. /\ Named("AgentExited") = {id}
        /\ Named("AgentSpawned") = {}
        /\ Named("StateChange") = {}
        /\ Named("ContextUpdate") = {}
    BY <2>1, <2>e DEF Named
  <2>3. /\ DOMAIN announced' = DOMAIN announced \ {id}
        /\ \A i \in DOMAIN announced' : announced'[i] = announced[i]
    BY <2>2 DEF Listen, Knows
  <2>4. /\ DOMAIN agents' = DOMAIN agents \ {id}
        /\ \A i \in DOMAIN agents' : agents'[i] = agents[i]
    BY <1>3, WithoutTable DEF TypeOK, TableOK
  <2> QED
    BY <2>3, <2>4 DEF StreamCoversAgents, GhostStep
<1> QED
  BY <1>1, <1>2, <1>3

\* The events of a tick make known the exits and the states it has reported.
LEMMA TickTold ==
    ASSUME TypeOK, StreamCoversAgents, Listen, MonitorTick
    PROVE  StreamCoversAgents' /\ GhostStep
<1> DEFINE live == DOMAIN agents \ Exited
<1>0. TableOK(agents)
  BY DEF TypeOK, TableOK
<1>1. PICK now \in [live -> AgentState] :
        /\ agents' = [id \in live |-> [agents[id] EXCEPT !.reported = now[id]]]
        /\ events' = {AgentExited(id) : id \in Exited} \cup StateChanges(live, now)
  BY DEF MonitorTick
<1> DEFINE changed == {id \in live : now[id] # agents[id].reported}
           change(id) == StateChange(id, agents[id].reported, now[id])
<1>2. events' = {AgentExited(id) : id \in Exited} \cup {change(id) : id \in changed}
  BY <1>1 DEF StateChanges
<1>3. /\ \A id : AgentExited(id).type = "AgentExited" /\ AgentExited(id).id = id
      /\ \A id : /\ change(id).type = "StateChange"
                 /\ change(id).id = id
                 /\ change(id).new = now[id]
  BY DEF AgentExited, StateChange
<1> HIDE DEF change
<1>4. /\ Named("AgentExited") = Exited
      /\ Named("StateChange") = changed
      /\ Named("AgentSpawned") = {}
      /\ Named("ContextUpdate") = {}
  BY <1>2, <1>3 DEF Named
<1>5. \A id \in changed : EventOf("StateChange", id) = change(id)
  <2> SUFFICES ASSUME NEW id \in changed
               PROVE  EventOf("StateChange", id) = change(id)
    OBVIOUS
  <2>1. \A e \in events' : e.type = "StateChange" /\ e.id = id => e = change(id)
    BY <1>2, <1>3
  <2>2. change(id) \in events'
    BY <1>2
  <2> QED
    BY <1>3, <2>1, <2>2 DEF EventOf
<1>6. DOMAIN announced' = DOMAIN announced \ Exited
  BY <1>4 DEF Listen
<1>7. \A id \in DOMAIN announced' :
        announced'[id] = IF id \in changed
                         THEN [announced[id] EXCEPT !.state = now[id]]
                         ELSE announced[id]
  BY <1>3, <1>4, <1>5, <1>6 DEF Listen, Knows
<1>8. /\ DOMAIN agents' = live
      /\ \A id \in live : /\ agents'[id].pid = agents[id].pid
                          /\ agents'[id].context = agents[id].context
                          /\ agents'[id].reported = now[id]
  BY <1>0, <1>1 DEF TableOK, Agent
<1>9. \A id \in live : announced[id] = Announced(agents[id])
  BY DEF StreamCoversAgents, Announced
<1>10. \A id \in live : announced'[id] = Announced(agents'[id])
  <2> SUFFICES ASSUME NEW id \in live
               PROVE  announced'[id] = Announced(agents'[id])
    OBVIOUS
  <2>1. id \in DOMAIN announced'
    BY <1>6 DEF StreamCoversAgents
  <2>2. CASE id \in changed
    <3>1. announced'[id] = [Announced(agents[id]) EXCEPT !.state = now[id]]
      BY <1>7, <1>9, <2>1, <2>2
    <3>2. [Announced(agents[id]) EXCEPT !.state = now[id]]
            = [pid |-> agents[id].pid,
               state |-> now[id],
               context |-> agents[id].context]
      BY DEF Announced
    <3> QED
      BY <1>8, <2>2, <3>1, <3>2 DEF Announced
  <2>3. CASE id \notin changed
    BY <1>7, <1>8, <1>9, <2>1, <2>3 DEF Announced
  <2> QED
    BY <2>2, <2>3
<1>11. StreamCoversAgents'
  BY <1>6, <1>8, <1>10 DEF StreamCoversAgents, Announced
<1>12. GhostStep
  BY <1>6, <1>7, <1>8 DEF GhostStep
<1> QED
  BY <1>11, <1>12

\* The events of a write-back make known the context usage it has written.
LEMMA ContextTold ==
    ASSUME TypeOK, StreamCoversAgents, Listen, WriteContext
    PROVE  StreamCoversAgents' /\ GhostStep
<1>0. TableOK(agents)
  BY DEF TypeOK, TableOK
<1>1. PICK usage \in [DOMAIN jobs -> Percents \cup {None}] :
        LET found == {id \in DOMAIN jobs \cap DOMAIN agents : usage[id] # None}
        IN /\ agents' = [id \in DOMAIN agents |->
                           IF id \in found
                           THEN [agents[id] EXCEPT !.context = usage[id]]
                           ELSE agents[id]]
           /\ events' = {ContextUpdate(id, usage[id]) :
                           id \in {i \in found : usage[i] # agents[i].context}}
  BY DEF WriteContext
<1> DEFINE found == {id \in DOMAIN jobs \cap DOMAIN agents : usage[id] # None}
           changed == {id \in found : usage[id] # agents[id].context}
           update(id) == ContextUpdate(id, usage[id])
<1>2. events' = {update(id) : id \in changed}
  BY <1>1
<1>3. \A id : /\ update(id).type = "ContextUpdate"
              /\ update(id).id = id
              /\ update(id).context = usage[id]
  BY DEF ContextUpdate
<1> HIDE DEF update
<1>4. /\ Named("ContextUpdate") = changed
      /\ Named("AgentExited") = {}
      /\ Named("StateChange") = {}
      /\ Named("AgentSpawned") = {}
  BY <1>2, <1>3 DEF Named
<1>5. \A id \in changed : EventOf("ContextUpdate", id) = update(id)
  <2> SUFFICES ASSUME NEW id \in changed
               PROVE  EventOf("ContextUpdate", id) = update(id)
    OBVIOUS
  <2>1. \A e \in events' : e.id = id => e = update(id)
    BY <1>2, <1>3
  <2>2. update(id) \in events'
    BY <1>2
  <2> QED
    BY <1>3, <2>1, <2>2 DEF EventOf
<1>6. DOMAIN announced' = DOMAIN announced
  BY <1>4 DEF Listen
<1>7. \A id \in DOMAIN announced' :
        announced'[id] = IF id \in changed
                         THEN [announced[id] EXCEPT !.context = usage[id]]
                         ELSE announced[id]
  BY <1>3, <1>4, <1>5, <1>6 DEF Listen, Knows
<1>8. /\ DOMAIN agents' = DOMAIN agents
      /\ \A id \in DOMAIN agents :
           /\ agents'[id].pid = agents[id].pid
           /\ agents'[id].reported = agents[id].reported
           /\ agents'[id].context = IF id \in found THEN usage[id]
                                    ELSE agents[id].context
  BY <1>0, <1>1 DEF TableOK, Agent
<1>9. \A id \in DOMAIN agents : announced[id] = Announced(agents[id])
  BY DEF StreamCoversAgents, Announced
<1>10. \A id \in DOMAIN agents : announced'[id] = Announced(agents'[id])
  <2> SUFFICES ASSUME NEW id \in DOMAIN agents
               PROVE  announced'[id] = Announced(agents'[id])
    OBVIOUS
  <2>1. id \in DOMAIN announced'
    BY <1>6 DEF StreamCoversAgents
  <2>2. CASE id \in changed
    <3>1. announced'[id] = [Announced(agents[id]) EXCEPT !.context = usage[id]]
      BY <1>7, <1>9, <2>1, <2>2
    <3>2. [Announced(agents[id]) EXCEPT !.context = usage[id]]
            = [pid |-> agents[id].pid,
               state |-> agents[id].reported,
               context |-> usage[id]]
      BY DEF Announced
    <3> QED
      BY <1>8, <2>2, <3>1, <3>2 DEF Announced
  <2>3. CASE id \notin changed
    BY <1>7, <1>8, <1>9, <2>1, <2>3 DEF Announced
  <2> QED
    BY <2>2, <2>3
<1>11. StreamCoversAgents'
  BY <1>6, <1>8, <1>10 DEF StreamCoversAgents, Announced
<1>12. GhostStep
  BY <1>6, <1>7, <1>8 DEF GhostStep
<1> QED
  BY <1>11, <1>12

\* Every step keeps what the stream tells in agreement with the table.
LEMMA StreamStep ==
    ASSUME OwnerInv, LateInv, StreamCoversAgents, HistoryNext
    PROVE  StreamCoversAgents' /\ GhostStep
<1>0. TypeOK /\ TableOK(agents) /\ Listen /\ Next
  BY ObservedStep DEF OwnerInv, TypeOK, TableOK, HistoryNext
<1>1. CASE \E c \in Clients : Connection(c)
  BY <1>0, <1>1, SilentStep DEF Connection, Accept, Begin, Leave, Recheck, table
<1>2. ASSUME NEW c \in Clients, Request(c)
      PROVE  StreamCoversAgents' /\ GhostStep
  <2>1. CASE HandleSpawn(c)
    <3>1. PICK id \in Ids, provider \in Providers : SpawnAs(id, provider)
      BY <1>0, <2>1, DaemonAssumption DEF HandleSpawn, TypeOK
    <3> QED
      BY <1>0, <2>1, <3>1, SpawnTold DEF HandleSpawn
  <2>2. CASE HandleList(c)
    <3>1. /\ DOMAIN agents' = DOMAIN agents \ Exited
          /\ \A id \in DOMAIN agents' : agents'[id] = agents[id]
      BY <1>0, <2>2, WithoutTable DEF HandleList
    <3> QED
      BY <1>0, <2>2, <3>1, SilentStep DEF HandleList
  <2>3. CASE HandleKill(c)
    BY <1>0, <2>3, KillTold
  <2>4. CASE HandleSetNotify(c) \/ HandleHookEvent(c)
    <3>1. /\ DOMAIN agents' = DOMAIN agents
          /\ \A id \in DOMAIN agents :
               /\ agents'[id].pid = agents[id].pid
               /\ agents'[id].reported = agents[id].reported
               /\ agents'[id].context = agents[id].context
      BY <1>0, <2>4 DEF HandleSetNotify, HandleHookEvent, TableOK, Agent
    <3>2. events' = {}
      BY <2>4 DEF HandleSetNotify, HandleHookEvent
    <3> QED
      BY <1>0, <3>1, <3>2, SilentStep
  <2>5. CASE HandleShutdown(c)
    <3>1. DOMAIN agents' = {}
      BY <1>0, <2>5, WithoutTable DEF HandleShutdown, Drained
    <3> QED
      BY <1>0, <2>5, <3>1, SilentStep DEF HandleShutdown
  <2>6. CASE HandleQuery(c) \/ HandleAttach(c)
    BY <1>0, <2>6, SilentStep DEF HandleQuery, HandleAttach, table
  <2> QED
    BY <1>2, <2>1, <2>2, <2>3, <2>4, <2>5, <2>6 DEF Request
<1>3. CASE MonitorTick
  BY <1>0, <1>3, TickTold
<1>4. CASE WriteContext
  BY <1>0, <1>4, ContextTold
<1>5. CASE MonitorStop \/ Elapse \/ PollSleep
  BY <1>0, <1>5, SilentStep DEF MonitorStop, Elapse, PollSleep, table
<1>6. CASE PollStop
  <2>1. DOMAIN agents' = {} /\ events' = {} /\ shutdown'
    BY <1>0, <1>6, WithoutTable DEF PollStop, LoopEnds, LateInv
  <2> QED
    BY <1>0, <2>1, SilentStep
<1>7. CASE \E p \in Pids : Process(p)
  BY <1>0, <1>7, SilentStep DEF Process, Exit, Signalled, Reap, GiveUp, table
<1> QED
  BY <1>0, <1>1, <1>2, <1>3, <1>4, <1>5, <1>6, <1>7 DEF Next, Monitor

\* What makes StreamGhostsAreDead inductive: no process announced is yet to be
\* launched.
StreamInv ==
    /\ StreamCoversAgents
    /\ StreamGhostsAreDead
    /\ \A id \in DOMAIN announced : announced[id].pid \in Nat /\ announced[id].pid <= spawned

\* A step starts no process but the next one.
LEMMA NextRunning ==
    ASSUME OwnerInv, Next
    PROVE  running' \subseteq running \cup {spawned + 1}
<1>1. CASE \E c \in Clients : HandleSpawn(c)
  <2>1. PICK id \in Ids, provider \in Providers : SpawnAs(id, provider)
    BY <1>1, DaemonAssumption DEF HandleSpawn, OwnerInv, TypeOK
  <2> QED
    BY <2>1 DEF SpawnAs, process
<1>2. (\A c \in Clients : ~HandleSpawn(c)) => running' \subseteq running
  BY DEF Next, Connection, Accept, Begin, Leave, Recheck, Request, HandleList,
         HandleKill, HandleSetNotify, HandleHookEvent, HandleShutdown, HandleQuery,
         HandleAttach, Monitor, MonitorTick, MonitorStop, WriteContext, Elapse,
         PollSleep, PollStop, Process, Exit, Signalled, Reap, GiveUp, process
<1> QED
  BY <1>1, <1>2

LEMMA StreamInvInductive ==
    /\ Init /\ HistoryInit => StreamInv
    /\ OwnerInv /\ LateInv /\ StreamInv /\ [HistoryNext]_hvars => StreamInv'
<1>1. Init /\ HistoryInit => StreamInv
  BY DEF Init, HistoryInit, StreamInv, StreamCoversAgents, StreamGhostsAreDead
<1>2. ASSUME OwnerInv, LateInv, StreamInv, HistoryNext
      PROVE  StreamInv'
  <2>1. StreamCoversAgents' /\ GhostStep
    BY <1>2, StreamStep DEF StreamInv
  <2>2. Next /\ OwnerInv' /\ spawned \in Nat /\ spawned' \in Nat
    BY <1>2, ObservedStep, OwnerInvObserved, DaemonAssumption DEF OwnerInv, TypeOK
  <2>3. /\ spawned' \in {spawned, spawned + 1}
        /\ shutdown => shutdown'
    BY <1>2, <2>2, NextProcesses
  <2>4. \A id \in DOMAIN announced' :
          announced'[id].pid \in Nat /\ announced'[id].pid <= spawned'
    <3>1. ASSUME NEW id \in DOMAIN agents'
          PROVE  announced'[id].pid \in Nat /\ announced'[id].pid <= spawned'
      <4>1. announced'[id].pid = agents'[id].pid
        BY <2>1, AnnouncedPid DEF StreamCoversAgents
      <4>2. agents'[id].pid \in Pids /\ agents'[id].pid \in Owned'
        BY <2>2 DEF OwnerInv, TypeOK, Agent, Owned
      <4>3. agents'[id].pid <= spawned'
        BY <2>2, <4>2 DEF OwnerInv, Launched
      <4> QED
        BY <4>1, <4>2, <4>3 DEF Pids
    <3>2. ASSUME NEW id \in DOMAIN announced' \ DOMAIN agents'
          PROVE  announced'[id].pid \in Nat /\ announced'[id].pid <= spawned'
      BY <1>2, <2>1, <2>2, <2>3 DEF GhostStep, StreamInv
    <3> QED
      BY <3>1, <3>2
  <2>5. StreamGhostsAreDead'
    <3> SUFFICES ASSUME NEW id \in DOMAIN announced' \ DOMAIN agents', ~shutdown'
                 PROVE  announced'[id].pid \notin running'
      BY DEF StreamGhostsAreDead
    <3>1. /\ id \in DOMAIN announced
          /\ announced'[id] = announced[id]
          /\ id \in DOMAIN agents => id \in Exited
      BY <2>1 DEF GhostStep
    <3>2. announced[id].pid \notin running
      <4>1. CASE id \in DOMAIN agents
        <5>1. announced[id].pid = agents[id].pid
          BY <1>2, <4>1, AnnouncedPid DEF StreamInv, StreamCoversAgents
        <5> QED
          BY <3>1, <4>1, <5>1 DEF Exited
      <4>2. CASE id \notin DOMAIN agents
        BY <1>2, <2>3, <3>1, <4>2 DEF StreamInv, StreamGhostsAreDead
      <4> QED
        BY <4>1, <4>2
    <3>3. announced[id].pid # spawned + 1
      BY <1>2, <2>2, <3>1 DEF StreamInv
    <3> QED
      BY <1>2, <2>2, <3>1, <3>2, <3>3, NextRunning
  <2> QED
    BY <2>1, <2>4, <2>5 DEF StreamInv
<1>3. StreamInv /\ UNCHANGED hvars => StreamInv'
  BY DEF StreamInv, StreamCoversAgents, StreamGhostsAreDead, hvars, history, vars
<1> QED
  BY <1>1, <1>2, <1>3

\* Whoever has read every event knows the process, the reported state and the
\* context usage of each agent in the table, whatever handlers, ticks and
\* write-backs came between.
THEOREM StreamIsComplete == HistorySpec => []StreamCoversAgents
<1>1. StreamInv => StreamCoversAgents
  BY DEF StreamInv
<1> QED
  BY <1>1, OwnerInvObserved, LateInvInductive, StreamInvInductive, PTL DEF HistorySpec

\* Until a shutdown, an agent the stream shows and the table has lost is dead: the
\* removals nobody is told of never hide a process that is alive.
THEOREM GhostsAreDead == HistorySpec => []StreamGhostsAreDead
<1>1. StreamInv => StreamGhostsAreDead
  BY DEF StreamInv
<1> QED
  BY <1>1, OwnerInvObserved, LateInvInductive, StreamInvInductive, PTL DEF HistorySpec

\* What EventsChain says of one event.
Chains(e) ==
    /\ e.type # "AgentSpawned" => e.id \in DOMAIN announced
    /\ e.type = "StateChange" => announced[e.id].state = e.old /\ e.new # e.old
    /\ e.type = "ContextUpdate" => announced[e.id].context # e.context

\* What is announced of the agents of the table, field by field.
LEMMA AnnouncedFields ==
    ASSUME StreamCoversAgents, NEW id \in DOMAIN agents
    PROVE  /\ id \in DOMAIN announced
           /\ announced[id].state = agents[id].reported
           /\ announced[id].context = agents[id].context
<1>1. announced[id] = [pid |-> agents[id].pid, state |-> agents[id].reported,
                       context |-> agents[id].context]
  BY DEF StreamCoversAgents
<1> QED
  BY <1>1 DEF StreamCoversAgents

LEMMA EventsOfStep ==
    ASSUME TypeOK, StreamCoversAgents, Next, NEW e \in events'
    PROVE  Chains(e)
<1>1. CASE \E c \in Clients : HandleSpawn(c)
  <2>1. PICK id, provider : SpawnAs(id, provider)
    BY <1>1 DEF HandleSpawn
  <2>2. e.type = "AgentSpawned"
    BY <2>1 DEF SpawnAs, AgentSpawned
  <2> QED
    BY <2>2 DEF Chains
<1>2. CASE \E c \in Clients : HandleKill(c)
  <2>1. PICK id \in DOMAIN agents : e = AgentExited(id)
    BY <1>2 DEF HandleKill, KillEvents
  <2>2. e.type = "AgentExited" /\ e.id = id
    BY <2>1 DEF AgentExited
  <2> QED
    BY <2>2, AnnouncedFields DEF Chains
<1>3. CASE MonitorTick
  <2> DEFINE live == DOMAIN agents \ Exited
  <2>1. PICK now : events' = {AgentExited(id) : id \in Exited} \cup StateChanges(live, now)
    BY <1>3 DEF MonitorTick
  <2>2. CASE \E id \in Exited : e = AgentExited(id)
    <3>1. PICK id \in DOMAIN agents : e = AgentExited(id)
      BY <2>2 DEF Exited
    <3>2. e.type = "AgentExited" /\ e.id = id
      BY <3>1 DEF AgentExited
    <3> QED
      BY <3>2, AnnouncedFields DEF Chains
  <2>3. CASE e \in StateChanges(live, now)
    <3>1. PICK id \in live : /\ now[id] # agents[id].reported
                             /\ e = StateChange(id, agents[id].reported, now[id])
      BY <2>3 DEF StateChanges
    <3>2. /\ e.type = "StateChange" /\ e.id = id
          /\ e.old = agents[id].reported /\ e.new = now[id]
      BY <3>1 DEF StateChange
    <3> QED
      BY <3>1, <3>2, AnnouncedFields DEF Chains
  <2> QED
    BY <2>1, <2>2, <2>3
<1>4. CASE WriteContext
  <2>0. PICK id \in DOMAIN agents :
          \E percent : e = ContextUpdate(id, percent) /\ percent # agents[id].context
    BY <1>4 DEF WriteContext
  <2>1. PICK percent : e = ContextUpdate(id, percent) /\ percent # agents[id].context
    BY <2>0
  <2>2. e.type = "ContextUpdate" /\ e.id = id /\ e.context = percent
    BY <2>1 DEF ContextUpdate
  <2> QED
    BY <2>1, <2>2, AnnouncedFields DEF Chains
<1>5. events' = {} \/ MonitorTick \/ WriteContext
      \/ \E c \in Clients : HandleSpawn(c) \/ HandleKill(c)
  BY DEF Next, Connection, Accept, Begin, Leave, Recheck, Request, HandleList,
         HandleSetNotify, HandleHookEvent, HandleShutdown, HandleQuery, HandleAttach,
         Monitor, MonitorStop, Elapse, PollSleep, PollStop, Process, Exit, Signalled,
         Reap, GiveUp
<1> QED
  BY <1>1, <1>2, <1>3, <1>4, <1>5

\* Each event follows from those before it: a state change leaves the state last
\* announced, a context update brings a new value, and only an announced agent
\* changes or exits.
THEOREM EventsFollow == HistorySpec => EventsChain
<1>1. OwnerInv /\ StreamInv /\ [HistoryNext]_hvars
        => [\A e \in events' :
              /\ e.type # "AgentSpawned" => e.id \in DOMAIN announced
              /\ e.type = "StateChange" =>
                   announced[e.id].state = e.old /\ e.new # e.old
              /\ e.type = "ContextUpdate" => announced[e.id].context # e.context]_hvars
  BY ObservedStep, EventsOfStep DEF OwnerInv, StreamInv, Chains
<1> QED
  BY <1>1, OwnerInvObserved, LateInvInductive, StreamInvInductive, PTL
  DEF HistorySpec, EventsChain

=============================================================================
