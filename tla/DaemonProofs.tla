---------------------------- MODULE DaemonProofs ----------------------------
(***************************************************************************)
(* What is proved of the daemon for every value of its constants.          *)
(***************************************************************************)
EXTENDS Daemon, TLAPS

-----------------------------------------------------------------------------
(* The agent table *)

\* What TypeOK says of the table, of any table.
TableOK(t) == DOMAIN t \subseteq Ids /\ t \in [DOMAIN t -> Agent]

\* Removing names leaves a table of the other names with the agents they had.
LEMMA WithoutTable ==
    ASSUME TableOK(agents), NEW gone
    PROVE  /\ TableOK(Without(gone))
           /\ DOMAIN Without(gone) = DOMAIN agents \ gone
           /\ \A id \in DOMAIN agents \ gone : Without(gone)[id] = agents[id]
BY DEF Without, TableOK

\* Adding an agent leaves a table that has it and the other agents as they were.
LEMMA WithTable ==
    ASSUME TableOK(agents), NEW id \in Ids, NEW agent \in Agent
    PROVE  /\ TableOK(With(id, agent))
           /\ DOMAIN With(id, agent) = DOMAIN agents \cup {id}
           /\ With(id, agent)[id] = agent
           /\ \A i \in DOMAIN agents \ {id} : With(id, agent)[i] = agents[i]
BY DEF With, TableOK

\* A new agent has the type of an agent.
LEMMA NewAgentType ==
    ASSUME NEW pid \in Pids, NEW provider \in Providers
    PROVE  /\ NewAgent(pid, provider) \in Agent
           /\ NewAgent(pid, provider).pid = pid
           /\ NewAgent(pid, provider).state = "working"
           /\ NewAgent(pid, provider).reported = "working"
           /\ NewAgent(pid, provider).context = None
BY DEF NewAgent, Agent, AgentState

\* A provider maps a hook event to a state or to nothing.
LEMMA MapHookEventType ==
    ASSUME NEW provider, NEW event
    PROVE  MapHookEvent(provider, event) \in AgentState \cup {None}
BY DEF MapHookEvent, AgentState

\* The constructors of events build events.
LEMMA EventTypes ==
    /\ \A id \in Ids : AgentExited(id) \in Event
    /\ \A id \in Ids, agent \in Agent : AgentSpawned(id, agent) \in Event
    /\ \A id \in Ids, old, new \in AgentState : StateChange(id, old, new) \in Event
    /\ \A id \in Ids, percent \in Percents : ContextUpdate(id, percent) \in Event
BY DEF AgentExited, AgentSpawned, StateChange, ContextUpdate, Event, Agent

-----------------------------------------------------------------------------
(* Type correctness *)

LEMMA InitType == Init => TypeOK
<1> SUFFICES ASSUME Init PROVE TypeOK
  OBVIOUS
<1>1. /\ DOMAIN agents = {} /\ agents \in [DOMAIN agents -> Agent]
      /\ DOMAIN jobs = {} /\ jobs \in [DOMAIN jobs -> Pids]
  BY DEF Init
<1>2. /\ nextId \in 1..(MaxNextId + 1)
      /\ counter \in 0..(ContextEvery - 1)
      /\ spawned \in 0..MaxSpawns
  BY DaemonAssumption DEF Init
<1>3. conn \in [Clients -> ConnState]
  BY DEF Init, ConnState
<1> QED
  BY <1>1, <1>2, <1>3 DEF Init, TypeOK

\* No step of a connection that is not a request breaks the types.
LEMMA ConnectionType ==
    ASSUME TypeOK, NEW c \in Clients, Connection(c)
    PROVE  TypeOK'
BY DEF TypeOK, Connection, Accept, Begin, Leave, Recheck, ConnState, table,
       monitor, process

LEMMA SpawnAsType ==
    ASSUME TypeOK, NEW id \in Ids, NEW provider \in Providers,
           SpawnAs(id, provider)
    PROVE  /\ TableOK(agents')
           /\ spawned' \in 0..MaxSpawns
           /\ running' \subseteq Pids
           /\ killing' \subseteq Pids
           /\ abandoned' \subseteq Pids
           /\ dropped' \subseteq Pids
           /\ events' \subseteq Event
<1>0. TableOK(agents)
  BY DEF TypeOK, TableOK
<1>1. CASE events' = {} /\ UNCHANGED <<agents, process>>
  BY <1>0, <1>1 DEF TypeOK, TableOK, process
<1>2. CASE /\ spawned < MaxSpawns
           /\ spawned' = spawned + 1
           /\ running' = running \cup {spawned + 1}
           /\ \/ /\ agents' = With(id, NewAgent(spawned + 1, provider))
                 /\ events' = {AgentSpawned(id, NewAgent(spawned + 1, provider))}
                 /\ UNCHANGED abandoned
              \/ /\ abandoned' = abandoned \cup {spawned + 1}
                 /\ events' = {}
                 /\ UNCHANGED agents
           /\ UNCHANGED <<killing, dropped>>
  <2>1. spawned + 1 \in Pids
    BY <1>2, DaemonAssumption DEF TypeOK, Pids
  <2>2. NewAgent(spawned + 1, provider) \in Agent
    BY <2>1, NewAgentType
  <2>3. TableOK(agents')
    BY <1>0, <1>2, <2>2, WithTable
  <2>4. events' \subseteq Event
    BY <1>2, <2>2, EventTypes
  <2> QED
    BY <1>2, <2>1, <2>3, <2>4, DaemonAssumption DEF TypeOK, Pids
<1> QED
  BY <1>1, <1>2 DEF SpawnAs

\* No request handler breaks the types.
LEMMA RequestType ==
    ASSUME TypeOK, NEW c \in Clients, Request(c)
    PROVE  TypeOK'
<1>0. TableOK(agents)
  BY DEF TypeOK, TableOK
<1>r. Reply(c) => conn' \in [Clients -> ConnState]
  BY DEF Reply, TypeOK, ConnState
<1>1. CASE HandleSpawn(c)
  <2>1. PICK provider \in Providers :
          \/ \E id \in Ids : SpawnAs(id, provider) /\ UNCHANGED nextId
          \/ /\ nextId <= MaxNextId
             /\ SpawnAs(AutoId(nextId), provider)
             /\ nextId' = nextId + 1
    BY <1>1 DEF HandleSpawn
  <2>2. PICK id \in Ids : SpawnAs(id, provider)
    BY <2>1, DaemonAssumption DEF TypeOK
  <2>3. nextId' \in 1..(MaxNextId + 1)
    BY <2>1, DaemonAssumption DEF TypeOK
  <2> QED
    BY <1>1, <1>r, <2>2, <2>3, SpawnAsType
    DEF HandleSpawn, TypeOK, TableOK, monitor
<1>2. CASE HandleList(c)
  <2>1. TableOK(agents')
    BY <1>0, <1>2, WithoutTable DEF HandleList
  <2> QED
    BY <1>2, <1>r, <2>1 DEF HandleList, TypeOK, TableOK, monitor, process
<1>3. CASE HandleKill(c)
  <2>1. TableOK(agents') /\ killing' \subseteq Pids /\ events' \subseteq Event
    <3>1. PICK id \in Ids :
            \/ /\ id \in DOMAIN agents
               /\ agents' = Without({id})
               /\ killing' = killing \cup {agents[id].pid}
               /\ events' = KillEvents(id)
            \/ /\ events' = {}
               /\ UNCHANGED <<agents, killing>>
      BY <1>3 DEF HandleKill
    <3>2. KillEvents(id) \subseteq Event
      BY EventTypes DEF KillEvents
    <3>3. id \in DOMAIN agents => agents[id].pid \in Pids
      BY <1>0 DEF TableOK, Agent
    <3>4. TableOK(agents')
      BY <1>0, <3>1, WithoutTable
    <3> QED
      BY <3>1, <3>2, <3>3, <3>4 DEF TypeOK
  <2> QED
    BY <1>3, <1>r, <2>1 DEF HandleKill, TypeOK, TableOK, monitor
<1>4. CASE HandleSetNotify(c)
  <2>1. TableOK(agents')
    BY <1>0, <1>4 DEF HandleSetNotify, TableOK, Agent
  <2> QED
    BY <1>4, <1>r, <2>1 DEF HandleSetNotify, TypeOK, TableOK, monitor, process
<1>5. CASE HandleHookEvent(c)
  <2>1. TableOK(agents')
    BY <1>0, <1>5, MapHookEventType DEF HandleHookEvent, TableOK, Agent
  <2> QED
    BY <1>5, <1>r, <2>1 DEF HandleHookEvent, TypeOK, TableOK, monitor, process
<1>6. CASE HandleShutdown(c)
  <2>1. TableOK(agents')
    BY <1>0, <1>6, WithoutTable DEF HandleShutdown, Drained
  <2>2. Owned \subseteq Pids
    BY <1>0 DEF Owned, TableOK, Agent
  <2> QED
    BY <1>6, <1>r, <2>1, <2>2 DEF HandleShutdown, TypeOK, TableOK, monitor
<1>7. CASE HandleQuery(c)
  BY <1>7, <1>r DEF HandleQuery, TypeOK, table, monitor, process
<1>8. CASE HandleAttach(c)
  BY <1>8 DEF HandleAttach, TypeOK, ConnState, table, monitor, process
<1> QED
  BY <1>1, <1>2, <1>3, <1>4, <1>5, <1>6, <1>7, <1>8 DEF Request

\* No step of the monitor breaks the types.
LEMMA MonitorType ==
    ASSUME TypeOK, Monitor
    PROVE  TypeOK'
<1>0. TableOK(agents)
  BY DEF TypeOK, TableOK
<1>1. CASE MonitorTick
  <2> DEFINE live == DOMAIN agents \ Exited
  <2>1. PICK now \in [live -> AgentState] :
          /\ agents' = [id \in live |-> [agents[id] EXCEPT !.reported = now[id]]]
          /\ events' = {AgentExited(id) : id \in Exited} \cup StateChanges(live, now)
          /\ idle' = Countdown(live)
          /\ IF Expired(live)
             THEN /\ shutdown' = TRUE
                  /\ mon' = "done"
                  /\ UNCHANGED <<counter, jobs>>
             ELSE /\ UNCHANGED shutdown
                  /\ IF ContextDue
                     THEN /\ counter' = 0
                          /\ jobs' = [id \in live |-> agents[id].pid]
                          /\ mon' = "io"
                     ELSE /\ counter' = counter + 1
                          /\ UNCHANGED <<jobs, mon>>
    BY <1>1 DEF MonitorTick
  <2>2. TableOK(agents')
    BY <1>0, <2>1 DEF TableOK, Agent
  <2>3. events' \subseteq Event
    <3>1. \A id \in Exited : AgentExited(id) \in Event
      BY <1>0, EventTypes DEF Exited, TableOK
    <3>2. \A id \in live : StateChange(id, agents[id].reported, now[id]) \in Event
      BY <1>0, EventTypes DEF TableOK, Agent
    <3> QED
      BY <2>1, <3>1, <3>2 DEF StateChanges
  <2>4. idle' \in 0..IdleTimeout \cup {None}
    BY <2>1, DaemonAssumption DEF Countdown, TypeOK
  <2>5. /\ mon' \in {"tick", "io", "done"}
        /\ shutdown' \in BOOLEAN
        /\ counter' \in 0..(ContextEvery - 1)
    <3>1. mon' \in {"tick", "io", "done"} /\ shutdown' \in BOOLEAN
      BY <2>1 DEF TypeOK
    <3>2. counter' \in {counter, 0}
            \cup (IF ContextDue THEN {} ELSE {counter + 1})
      BY <2>1
    <3>3. counter' \in 0..(ContextEvery - 1)
      BY <3>2, DaemonAssumption DEF TypeOK, ContextDue
    <3> QED
      BY <3>1, <3>3
  <2>6. DOMAIN jobs' \subseteq Ids /\ jobs' \in [DOMAIN jobs' -> Pids]
    <3>1. \A id \in live : id \in Ids /\ agents[id].pid \in Pids
      BY <1>0 DEF TableOK, Agent
    <3>2. CASE UNCHANGED jobs
      BY <3>2 DEF TypeOK
    <3>3. CASE jobs' = [id \in live |-> agents[id].pid]
      BY <3>1, <3>3
    <3> QED
      BY <2>1, <3>2, <3>3
  <2> QED
    BY <1>1, <2>2, <2>3, <2>4, <2>5, <2>6
    DEF MonitorTick, TypeOK, TableOK, process
<1>2. CASE MonitorStop
  BY <1>2 DEF MonitorStop, TypeOK, table, process
<1>3. CASE WriteContext
  <2>1. PICK usage \in [DOMAIN jobs -> Percents \cup {None}] :
          LET found == {id \in DOMAIN jobs \cap DOMAIN agents : usage[id] # None}
          IN /\ agents' = [id \in DOMAIN agents |->
                             IF id \in found
                             THEN [agents[id] EXCEPT !.context = usage[id]]
                             ELSE agents[id]]
             /\ events' = {ContextUpdate(id, usage[id]) :
                             id \in {i \in found : usage[i] # agents[i].context}}
    BY <1>3 DEF WriteContext
  <2>2. TableOK(agents')
    <3>1. ASSUME NEW id \in DOMAIN agents
          PROVE  /\ agents[id] \in Agent
                 /\ id \in DOMAIN jobs /\ usage[id] # None =>
                      [agents[id] EXCEPT !.context = usage[id]] \in Agent
      BY <1>0 DEF TableOK, Agent
    <3> QED
      BY <1>0, <2>1, <3>1 DEF TableOK
  <2>3. events' \subseteq Event
    BY <1>0, <2>1, EventTypes DEF TableOK
  <2>4. DOMAIN jobs' = {} /\ jobs' \in [DOMAIN jobs' -> Pids]
    BY <1>3 DEF WriteContext
  <2> QED
    BY <1>3, <2>2, <2>3, <2>4 DEF WriteContext, TypeOK, TableOK, process
<1> QED
  BY <1>1, <1>2, <1>3 DEF Monitor

\* Nor does a step of the clock, of the accept loop or of a process.
LEMMA OtherType ==
    ASSUME TypeOK, Elapse \/ PollSleep \/ PollStop \/ \E p \in Pids : Process(p)
    PROVE  TypeOK'
<1>0. TableOK(agents)
  BY DEF TypeOK, TableOK
<1>1. CASE Elapse
  <2>1. idle' \in 0..IdleTimeout \cup {None}
    BY <1>1, DaemonAssumption DEF Elapse, TypeOK
  <2> QED
    BY <1>1, <2>1 DEF Elapse, TypeOK, table, monitor, process
<1>2. CASE PollSleep
  BY <1>2 DEF PollSleep, TypeOK, table, monitor, process
<1>3. CASE PollStop
  <2>1. TableOK(agents')
    BY <1>0, <1>3, WithoutTable DEF PollStop
  <2>2. Owned \subseteq Pids
    BY <1>0 DEF Owned, TableOK, Agent
  <2>3. conn' \in [Clients -> ConnState]
    BY <1>3 DEF PollStop, ConnState
  <2>4. DOMAIN jobs' = {} /\ jobs' \in [DOMAIN jobs' -> Pids]
    BY <1>3 DEF PollStop
  <2> QED
    BY <1>3, <2>1, <2>2, <2>3, <2>4 DEF PollStop, TypeOK, TableOK
<1>4. CASE \E p \in Pids : Process(p)
  BY <1>4 DEF Process, Exit, Signalled, Reap, GiveUp, TypeOK, table, monitor
<1> QED
  BY <1>1, <1>2, <1>3, <1>4

LEMMA NextType == TypeOK /\ Next => TypeOK'
BY ConnectionType, RequestType, MonitorType, OtherType DEF Next

\* The variables of every reachable state have their types: in particular the
\* idle countdown and the context counter stay within their limits.
THEOREM TypeCorrect == Spec => []TypeOK
<1>1. TypeOK /\ [Next]_vars => TypeOK'
  <2>1. TypeOK /\ UNCHANGED vars => TypeOK'
    BY DEF vars, TypeOK
  <2> QED
    BY <2>1, NextType
<1> QED
  BY InitType, <1>1, PTL DEF Spec

-----------------------------------------------------------------------------
(* Every process has one owner *)

\* What makes OneOwner inductive: the process a spawn launches is a new one.
Launched ==
    \A p \in running \cup Owned \cup killing \cup abandoned \cup dropped : p <= spawned

OwnerInv == TypeOK /\ OneOwner /\ Launched

\* The table after a step holds some of the agents it held, with their processes.
Subtable ==
    /\ DOMAIN agents' \subseteq DOMAIN agents
    /\ \A id \in DOMAIN agents' : agents'[id].pid = agents[id].pid

\* A step that only changes fields of agents and removes agents that have exited
\* loses no process.
LEMMA SweepKeepsOwners ==
    ASSUME OneOwner, Launched, Subtable, UNCHANGED process,
           DOMAIN agents \ DOMAIN agents' \subseteq Exited
    PROVE  OneOwner' /\ Launched'
<1>1. Owned' \subseteq Owned
  BY DEF Subtable, Owned
<1>2. running' \subseteq Owned' \cup killing' \cup abandoned' \cup dropped'
  <2> SUFFICES ASSUME NEW p \in running, p \in Owned
               PROVE  p \in Owned'
    BY DEF OneOwner, process
  <2>1. PICK id \in DOMAIN agents : agents[id].pid = p
    BY DEF Owned
  <2>2. id \in DOMAIN agents'
    BY <2>1 DEF Exited
  <2> QED
    BY <2>1, <2>2 DEF Subtable, Owned
<1>3. \A i, j \in DOMAIN agents' : agents'[i].pid = agents'[j].pid => i = j
  BY DEF Subtable, OneOwner
<1> QED
  BY <1>1, <1>2, <1>3 DEF OneOwner, Launched, process

\* A step that hands the processes of the agents it removes to kill tasks, or
\* drops them, loses none of them.
LEMMA HandOverKeepsOwners ==
    ASSUME OneOwner, Launched, Subtable,
           NEW given, given \subseteq Owned, given \cap Owned' = {},
           Owned \subseteq given \cup Owned',
           \/ killing' = killing \cup given /\ UNCHANGED dropped
           \/ dropped' = dropped \cup given /\ UNCHANGED killing,
           UNCHANGED <<spawned, running, abandoned>>
    PROVE  OneOwner' /\ Launched'
<1>1. Owned' \subseteq Owned
  BY DEF Subtable, Owned
<1>2. \A i, j \in DOMAIN agents' : agents'[i].pid = agents'[j].pid => i = j
  BY DEF Subtable, OneOwner
<1>3. running' \subseteq Owned' \cup killing' \cup abandoned' \cup dropped'
  BY DEF OneOwner
<1>4. /\ Owned' \cap (killing' \cup abandoned' \cup dropped') = {}
      /\ killing' \cap (abandoned' \cup dropped') = {}
  BY <1>1 DEF OneOwner
<1>5. Launched'
  BY <1>1 DEF Launched
<1> QED
  BY <1>2, <1>3, <1>4, <1>5 DEF OneOwner

\* Removing one agent takes its process, and no other, out of the table.
LEMMA WithoutOne ==
    ASSUME TypeOK, OneOwner, NEW id \in DOMAIN agents, agents' = Without({id})
    PROVE  /\ Subtable
           /\ Owned = Owned' \cup {agents[id].pid}
           /\ agents[id].pid \notin Owned'
<1>1. /\ DOMAIN agents' = DOMAIN agents \ {id}
      /\ \A i \in DOMAIN agents \ {id} : agents'[i] = agents[i]
  BY WithoutTable DEF TypeOK, TableOK
<1>2. Subtable
  BY <1>1 DEF Subtable
<1>3. Owned = Owned' \cup {agents[id].pid}
  BY <1>1 DEF Owned
<1>4. agents[id].pid \notin Owned'
  <2>1. \A i \in DOMAIN agents' : agents'[i].pid # agents[id].pid
    BY <1>1 DEF OneOwner
  <2> QED
    BY <2>1 DEF Owned
<1> QED
  BY <1>2, <1>3, <1>4

\* A launched process is owned by its agent, and nobody else has it.
LEMMA SpawnKeepsOwners ==
    ASSUME OwnerInv, NEW id \in Ids, NEW provider \in Providers,
           SpawnAs(id, provider)
    PROVE  OneOwner' /\ Launched'
<1>1. CASE UNCHANGED <<agents, process>>
  BY <1>1 DEF OwnerInv, OneOwner, Launched, Owned, process
<1>2. CASE /\ NameFree(id)
           /\ spawned < MaxSpawns
           /\ spawned' = spawned + 1
           /\ running' = running \cup {spawned + 1}
           /\ \/ agents' = With(id, NewAgent(spawned + 1, provider)) /\ UNCHANGED abandoned
              \/ abandoned' = abandoned \cup {spawned + 1} /\ UNCHANGED agents
           /\ UNCHANGED <<killing, dropped>>
  <2> DEFINE new == spawned + 1
             used == running \cup Owned \cup killing \cup abandoned \cup dropped
  <2>1. spawned \in Nat /\ new \in Pids
    BY <1>2, DaemonAssumption DEF OwnerInv, TypeOK, Pids
  <2>2. new \notin used
    BY <2>1 DEF OwnerInv, Launched
  <2>4. \A p \in used \cup {new} : p <= new
    <3>1. \A i \in DOMAIN agents : agents[i].pid \in Pids
      BY DEF OwnerInv, TypeOK, Agent
    <3>2. used \subseteq Pids
      BY <3>1 DEF OwnerInv, TypeOK, Owned
    <3>3. \A p \in used : p \in Nat /\ p <= spawned
      BY <3>2 DEF OwnerInv, Launched, Pids
    <3> QED
      BY <2>1, <3>3
  <2>3. CASE UNCHANGED agents /\ abandoned' = abandoned \cup {new}
    <3>1. OneOwner'
      BY <1>2, <2>2, <2>3 DEF OwnerInv, OneOwner, Owned
    <3>2. running' \cup Owned' \cup killing' \cup abandoned' \cup dropped'
            \subseteq used \cup {new}
      BY <1>2, <2>3 DEF Owned
    <3> QED
      BY <1>2, <2>1, <2>4, <3>1, <3>2 DEF Launched
  <2>5. CASE agents' = With(id, NewAgent(new, provider)) /\ UNCHANGED abandoned
    <3>1. NewAgent(new, provider) \in Agent /\ NewAgent(new, provider).pid = new
      BY <2>1, NewAgentType
    <3>2. /\ DOMAIN agents' = DOMAIN agents \cup {id}
          /\ agents'[id].pid = new
          /\ \A i \in DOMAIN agents \ {id} : agents'[i] = agents[i]
      BY <2>5, <3>1, WithTable DEF OwnerInv, TypeOK, TableOK
    <3>3. id \notin DOMAIN agents
      BY <1>2 DEF NameFree
    <3>4. Owned' = Owned \cup {new}
      BY <3>2, <3>3 DEF Owned
    <3>5. \A i, j \in DOMAIN agents' : agents'[i].pid = agents'[j].pid => i = j
      BY <2>2, <3>2, <3>3 DEF OwnerInv, OneOwner, Owned
    <3>6. OneOwner'
      BY <1>2, <2>2, <2>5, <3>4, <3>5 DEF OwnerInv, OneOwner
    <3>7. running' \cup Owned' \cup killing' \cup abandoned' \cup dropped'
            \subseteq used \cup {new}
      BY <1>2, <2>5, <3>4
    <3> QED
      BY <1>2, <2>1, <2>4, <3>6, <3>7 DEF Launched
  <2> QED
    BY <1>2, <2>3, <2>5
<1> QED
  BY <1>1, <1>2 DEF SpawnAs

\* No request handler loses a process.
LEMMA RequestKeepsOwners ==
    ASSUME OwnerInv, NEW c \in Clients, Request(c)
    PROVE  OneOwner' /\ Launched'
<1>0. TypeOK /\ OneOwner /\ Launched /\ TableOK(agents)
  BY DEF OwnerInv, TypeOK, TableOK
<1>1. CASE HandleSpawn(c)
  <2>1. PICK id \in Ids, provider \in Providers : SpawnAs(id, provider)
    BY <1>0, <1>1, DaemonAssumption DEF HandleSpawn, TypeOK
  <2> QED
    BY <2>1, SpawnKeepsOwners
<1>2. CASE HandleList(c)
  <2>1. Subtable /\ DOMAIN agents \ DOMAIN agents' \subseteq Exited
    BY <1>0, <1>2, WithoutTable DEF HandleList, Subtable
  <2> QED
    BY <1>0, <1>2, <2>1, SweepKeepsOwners DEF HandleList
<1>3. CASE HandleKill(c)
  <2>1. PICK id \in Ids :
          \/ /\ id \in DOMAIN agents
             /\ agents' = Without({id})
             /\ killing' = killing \cup {agents[id].pid}
          \/ UNCHANGED <<agents, killing>>
    BY <1>3 DEF HandleKill
  <2>2. UNCHANGED <<spawned, running, abandoned, dropped>>
    BY <1>3 DEF HandleKill
  <2>3. CASE UNCHANGED <<agents, killing>>
    BY <1>0, <2>2, <2>3 DEF OneOwner, Launched, Owned
  <2>4. CASE /\ id \in DOMAIN agents
             /\ agents' = Without({id})
             /\ killing' = killing \cup {agents[id].pid}
    <3>1. /\ Subtable
          /\ Owned = Owned' \cup {agents[id].pid}
          /\ agents[id].pid \notin Owned'
      BY <1>0, <2>4, WithoutOne
    <3> QED
      BY <1>0, <2>2, <2>4, <3>1, HandOverKeepsOwners
  <2> QED
    BY <2>1, <2>3, <2>4
<1>4. CASE HandleSetNotify(c)
  <2>1. Subtable /\ DOMAIN agents' = DOMAIN agents
    BY <1>0, <1>4 DEF HandleSetNotify, Subtable, TableOK, Agent
  <2> QED
    BY <1>0, <1>4, <2>1, SweepKeepsOwners DEF HandleSetNotify
<1>5. CASE HandleHookEvent(c)
  <2>1. Subtable /\ DOMAIN agents' = DOMAIN agents
    BY <1>0, <1>5 DEF HandleHookEvent, Subtable, TableOK, Agent
  <2> QED
    BY <1>0, <1>5, <2>1, SweepKeepsOwners DEF HandleHookEvent
<1>6. CASE HandleShutdown(c)
  <2>1. DOMAIN agents' = {}
    BY <1>0, <1>6, WithoutTable DEF HandleShutdown, Drained
  <2>2. Subtable /\ Owned' = {}
    BY <2>1 DEF Subtable, Owned
  <2> QED
    BY <1>0, <1>6, <2>2, HandOverKeepsOwners DEF HandleShutdown
<1>7. CASE HandleQuery(c) \/ HandleAttach(c)
  BY <1>0, <1>7
  DEF HandleQuery, HandleAttach, OneOwner, Launched, Owned, table, process
<1> QED
  BY <1>1, <1>2, <1>3, <1>4, <1>5, <1>6, <1>7 DEF Request

\* Nor does any step that is not a request.
LEMMA OtherKeepsOwners ==
    ASSUME OwnerInv,
           \/ \E c \in Clients : Connection(c)
           \/ Monitor \/ Elapse \/ PollSleep \/ PollStop
           \/ \E p \in Pids : Process(p)
    PROVE  OneOwner' /\ Launched'
<1>0. TypeOK /\ OneOwner /\ Launched /\ TableOK(agents)
  BY DEF OwnerInv, TypeOK, TableOK
<1>1. CASE UNCHANGED <<agents, process>>
  BY <1>0, <1>1 DEF OneOwner, Launched, Owned, process
<1>2. (\E c \in Clients : Connection(c)) \/ MonitorStop \/ Elapse \/ PollSleep
        => UNCHANGED <<agents, process>>
  BY DEF Connection, Accept, Begin, Leave, Recheck, MonitorStop, Elapse, PollSleep,
         table, process
<1>3. CASE MonitorTick
  <2>1. /\ DOMAIN agents' = DOMAIN agents \ Exited
        /\ \A id \in DOMAIN agents' : agents'[id].pid = agents[id].pid
        /\ UNCHANGED process
    BY <1>0, <1>3 DEF MonitorTick, TableOK, Agent
  <2> QED
    BY <1>0, <2>1, SweepKeepsOwners DEF Subtable
<1>4. CASE WriteContext
  <2>1. DOMAIN agents' = DOMAIN agents /\ UNCHANGED process
    BY <1>4 DEF WriteContext
  <2>2. \A id \in DOMAIN agents' : agents'[id].pid = agents[id].pid
    BY <1>0, <1>4 DEF WriteContext, TableOK, Agent
  <2> QED
    BY <1>0, <2>1, <2>2, SweepKeepsOwners DEF Subtable
<1>5. CASE PollStop
  <2>1. DOMAIN agents' = {}
    BY <1>0, <1>5, WithoutTable DEF PollStop
  <2>2. Subtable /\ Owned' = {}
    BY <2>1 DEF Subtable, Owned
  <2> QED
    BY <1>0, <1>5, <2>2, HandOverKeepsOwners DEF PollStop
<1>6. CASE \E p \in Pids : Process(p)
  <2> PICK p \in Pids : Process(p)
    BY <1>6
  <2>1. UNCHANGED <<agents, spawned, dropped>> /\ Owned' = Owned
    BY DEF Process, Exit, Signalled, Reap, GiveUp, table, Owned
  <2>2. OneOwner'
    BY <1>0, <2>1 DEF Process, Exit, Signalled, Reap, GiveUp, OneOwner
  <2>3. Launched'
    BY <1>0, <2>1 DEF Process, Exit, Signalled, Reap, GiveUp, Launched
  <2> QED
    BY <2>2, <2>3
<1> QED
  BY <1>1, <1>2, <1>3, <1>4, <1>5, <1>6 DEF Monitor

\* OwnerInv holds at first and no step breaks it.
LEMMA OwnerInvInductive ==
    /\ Init => OwnerInv
    /\ OwnerInv /\ [Next]_vars => OwnerInv'
<1>1. Init => OwnerInv
  <2>1. Init => OneOwner /\ Launched
    BY DEF Init, OneOwner, Launched, Owned
  <2> QED
    BY <2>1, InitType DEF OwnerInv
<1>2. OwnerInv /\ Next => OneOwner' /\ Launched'
  BY RequestKeepsOwners, OtherKeepsOwners DEF Next
<1>3. OwnerInv /\ Next => OwnerInv'
  BY <1>2, NextType DEF OwnerInv
<1>4. OwnerInv /\ UNCHANGED vars => OwnerInv'
  BY DEF vars, OwnerInv, TypeOK, OneOwner, Launched, Owned
<1> QED
  BY <1>1, <1>3, <1>4

\* No order of requests, exits and monitor ticks loses a process that is alive
\* or gives it two owners: a process runs under the agent of one name, under one
\* kill task, or because a kill task gave up on it or run returned.
THEOREM OwnersCorrect == Spec => []OneOwner
<1>1. OwnerInv => OneOwner
  BY DEF OwnerInv
<1> QED
  BY <1>1, OwnerInvInductive, PTL DEF Spec

-----------------------------------------------------------------------------
(* What the refinement needs of the daemon's states *)

\* run returns only after the flag has been set, and takes every connection with
\* it: no handler runs in a daemon that has returned.
ClosedInv ==
    /\ poll = "look" => shutdown
    /\ ~up => shutdown /\ \A c \in Clients : conn[c] = "none"

LEMMA ClosedInvInductive ==
    /\ Init => ClosedInv
    /\ TypeOK /\ ClosedInv /\ [Next]_vars => ClosedInv'
<1>1. Init => ClosedInv
  BY DEF Init, ClosedInv
<1>2. ASSUME TypeOK, ClosedInv, UNCHANGED vars PROVE ClosedInv'
  BY <1>2 DEF vars, ClosedInv
<1>3. ASSUME TypeOK, ClosedInv, NEW c \in Clients, Connection(c) PROVE ClosedInv'
  BY <1>3 DEF Connection, Accept, Begin, Leave, Recheck, ClosedInv, TypeOK
<1>4. ASSUME TypeOK, ClosedInv, NEW c \in Clients, Request(c) PROVE ClosedInv'
  <2>1. up /\ UNCHANGED <<up, poll>> /\ (shutdown => shutdown')
    BY <1>4 DEF Request, HandleSpawn, HandleList, HandleKill, HandleSetNotify,
         HandleHookEvent, HandleShutdown, HandleQuery, HandleAttach, Reply, ClosedInv
  <2> QED
    BY <1>4, <2>1 DEF ClosedInv
<1>5. ASSUME TypeOK, ClosedInv, Monitor \/ Elapse \/ PollSleep PROVE ClosedInv'
  <2>1. up /\ UNCHANGED <<up, conn>> /\ (shutdown => shutdown')
    BY <1>5 DEF Monitor, MonitorTick, MonitorStop, WriteContext, Elapse, PollSleep
  <2>2. poll' = "look" => shutdown'
    BY <1>5, <2>1 DEF Monitor, MonitorTick, MonitorStop, WriteContext, Elapse,
         PollSleep, ClosedInv
  <2> QED
    BY <2>1, <2>2 DEF ClosedInv
<1>6. ASSUME TypeOK, ClosedInv, PollStop PROVE ClosedInv'
  BY <1>6 DEF PollStop, LoopEnds, ClosedInv
<1>7. ASSUME TypeOK, ClosedInv, NEW p \in Pids, Process(p) PROVE ClosedInv'
  BY <1>7 DEF Process, Exit, Signalled, Reap, GiveUp, ClosedInv
<1> QED
  BY <1>1, <1>2, <1>3, <1>4, <1>5, <1>6, <1>7 DEF Next

RegistryInv == TypeOK /\ ClosedInv

-----------------------------------------------------------------------------
(* The table as the registry sees it *)

\* The variables of the registry do not change.
Unseen == UNCHANGED <<RegistryPhase, Holds, spawned, running, killing,
                      abandoned \cup dropped>>

\* What the registry holds is what the agents in the table own.
LEMMA HeldIsOwned == Registry!Held = Owned
BY DEF Registry!Held, Holds, Owned

\* A step that keeps some of the agents, with their processes, keeps what the
\* registry holds under these names.
LEMMA SubtableKeeps ==
    ASSUME Subtable
    PROVE  Holds' = Registry!Keep(DOMAIN agents')
BY DEF Subtable, Holds, Registry!Keep

\* Removing agents that have exited is clearing names.
LEMMA SweepClears ==
    ASSUME Subtable, DOMAIN agents' = DOMAIN agents \ Exited,
           UNCHANGED <<RegistryPhase, process>>
    PROVE  Registry!Next
<1>1. Exited \in SUBSET DOMAIN Holds /\ DOMAIN Holds = DOMAIN agents
  BY DEF Exited, Holds
<1>2. \A n \in Exited : Holds[n] \notin running
  BY DEF Exited, Holds
<1>3. Holds' = Registry!Keep(DOMAIN Holds \ Exited)
  BY <1>1, SubtableKeeps
<1>4. Registry!Clear(Exited)
  BY <1>2, <1>3 DEF Registry!Clear, process
<1> QED
  BY <1>1, <1>4 DEF Registry!Next

\* A step that changes fields of agents only is none of the registry.
LEMMA FieldsUnseen ==
    ASSUME Subtable, DOMAIN agents' = DOMAIN agents,
           UNCHANGED <<RegistryPhase, process>>
    PROVE  Unseen
<1>1. Holds' = Holds
  BY DEF Subtable, Holds
<1> QED
  BY <1>1 DEF Unseen, process

\* Spawn launches a process for a free name or changes nothing.
LEMMA SpawnLaunches ==
    ASSUME TypeOK, up, NEW id \in Ids, NEW provider \in Providers,
           SpawnAs(id, provider), UNCHANGED RegistryPhase
    PROVE  Registry!Next \/ Unseen
<1>1. CASE UNCHANGED <<agents, process>>
  BY <1>1 DEF Unseen, Holds, process
<1>2. CASE ~UNCHANGED <<agents, process>>
  <2>1. /\ NameFree(id) /\ spawned < MaxSpawns /\ spawned' = spawned + 1
        /\ running' = running \cup {spawned + 1}
        /\ \/ agents' = With(id, NewAgent(spawned + 1, provider)) /\ UNCHANGED abandoned
           \/ abandoned' = abandoned \cup {spawned + 1} /\ UNCHANGED agents
        /\ UNCHANGED <<killing, dropped>>
    BY <1>2 DEF SpawnAs
  <2>2. RegistryPhase # "closed" /\ id \notin DOMAIN Holds
    BY <2>1 DEF RegistryPhase, NameFree, Holds
  <2>3. CASE agents' = With(id, NewAgent(spawned + 1, provider)) /\ UNCHANGED abandoned
    <3>1. spawned + 1 \in Pids
      BY <2>1, DaemonAssumption DEF TypeOK, Pids
    <3>2. /\ NewAgent(spawned + 1, provider) \in Agent
          /\ NewAgent(spawned + 1, provider).pid = spawned + 1
      BY <3>1, NewAgentType
    <3>3. /\ DOMAIN agents' = DOMAIN agents \cup {id}
          /\ agents'[id] = NewAgent(spawned + 1, provider)
          /\ \A i \in DOMAIN agents \ {id} : agents'[i] = agents[i]
      BY <2>3, <3>2, WithTable DEF TypeOK, TableOK
    <3>4. Holds' = [m \in DOMAIN Holds \cup {id} |->
                      IF m = id THEN spawned' ELSE Holds[m]]
      BY <2>1, <3>2, <3>3 DEF Holds
    <3>5. Registry!Launch(id)
      BY <2>1, <2>2, <2>3, <3>4 DEF Registry!Launch
    <3> QED
      BY <3>5 DEF Registry!Next
  <2>4. CASE abandoned' = abandoned \cup {spawned + 1} /\ UNCHANGED agents
    <3>1. Holds' = Holds
      BY <2>4 DEF Holds
    <3>2. Registry!Launch(id)
      BY <2>1, <2>2, <2>4, <3>1 DEF Registry!Launch
    <3> QED
      BY <3>2 DEF Registry!Next
  <2> QED
    BY <2>1, <2>3, <2>4
<1> QED
  BY <1>1, <1>2

-----------------------------------------------------------------------------
(* Every step of the daemon is one of the registry or none *)

LEMMA RequestImplements ==
    ASSUME RegistryInv, NEW c \in Clients, Request(c)
    PROVE  Registry!Next \/ Unseen
<1>0. TypeOK /\ TableOK(agents)
  BY DEF RegistryInv, TypeOK, TableOK
<1>1. up /\ up' = up
  BY DEF RegistryInv, ClosedInv, Request, HandleSpawn, HandleList, HandleKill,
     HandleSetNotify, HandleHookEvent, HandleShutdown, HandleQuery, HandleAttach, Reply
<1>2. CASE HandleSpawn(c)
  <2>1. PICK id \in Ids, provider \in Providers : SpawnAs(id, provider)
    BY <1>0, <1>2, DaemonAssumption DEF HandleSpawn, TypeOK
  <2>2. UNCHANGED RegistryPhase
    BY <1>1, <1>2 DEF HandleSpawn, RegistryPhase
  <2> QED
    BY <1>0, <1>1, <2>1, <2>2, SpawnLaunches
<1>3. CASE HandleList(c)
  <2>1. Subtable /\ DOMAIN agents' = DOMAIN agents \ Exited
    BY <1>0, <1>3, WithoutTable DEF HandleList, Subtable
  <2>2. UNCHANGED <<RegistryPhase, process>>
    BY <1>1, <1>3 DEF HandleList, RegistryPhase
  <2> QED
    BY <2>1, <2>2, SweepClears
<1>4. CASE HandleKill(c)
  <2>1. UNCHANGED <<RegistryPhase, spawned, running, abandoned, dropped>>
    BY <1>1, <1>4 DEF HandleKill, RegistryPhase
  <2>2. PICK id \in Ids :
          \/ /\ id \in DOMAIN agents
             /\ agents' = Without({id})
             /\ killing' = killing \cup {agents[id].pid}
          \/ UNCHANGED <<agents, killing>>
    BY <1>4 DEF HandleKill
  <2>3. CASE UNCHANGED <<agents, killing>>
    BY <2>1, <2>3 DEF Unseen, Holds
  <2>4. CASE /\ id \in DOMAIN agents
             /\ agents' = Without({id})
             /\ killing' = killing \cup {agents[id].pid}
    <3>1. DOMAIN agents' = DOMAIN agents \ {id} /\ Subtable
      BY <1>0, <2>4, WithoutTable DEF Subtable
    <3>2. Holds' = Registry!Keep(DOMAIN Holds \ {id})
      BY <3>1, SubtableKeeps DEF Holds
    <3>3. id \in DOMAIN Holds /\ Holds[id] = agents[id].pid
      BY <2>4 DEF Holds
    <3>4. Registry!Kill(id)
      BY <2>1, <2>4, <3>2, <3>3 DEF Registry!Kill
    <3> QED
      BY <3>3, <3>4 DEF Registry!Next
  <2> QED
    BY <2>2, <2>3, <2>4
<1>5. CASE HandleSetNotify(c)
  <2>1. Subtable /\ DOMAIN agents' = DOMAIN agents
    BY <1>0, <1>5 DEF HandleSetNotify, Subtable, TableOK, Agent
  <2>2. UNCHANGED <<RegistryPhase, process>>
    BY <1>1, <1>5 DEF HandleSetNotify, RegistryPhase
  <2> QED
    BY <2>1, <2>2, FieldsUnseen
<1>6. CASE HandleHookEvent(c)
  <2>1. Subtable /\ DOMAIN agents' = DOMAIN agents
    BY <1>0, <1>6 DEF HandleHookEvent, Subtable, TableOK, Agent
  <2>2. UNCHANGED <<RegistryPhase, process>>
    BY <1>1, <1>6 DEF HandleHookEvent, RegistryPhase
  <2> QED
    BY <2>1, <2>2, FieldsUnseen
<1>7. CASE HandleShutdown(c)
  <2>1. DOMAIN agents' = {} /\ Subtable
    BY <1>0, <1>7, WithoutTable DEF HandleShutdown, Drained, Subtable
  <2>2. Holds' = Registry!Keep({})
    BY <2>1, SubtableKeeps
  <2>3. RegistryPhase # "closed" /\ RegistryPhase' = "closing"
    BY <1>1, <1>7 DEF HandleShutdown, RegistryPhase
  <2>4. \E given \in SUBSET Registry!Held :
          Registry!Held \cap running \subseteq given /\ killing' = killing \cup given
    BY <1>7, HeldIsOwned DEF HandleShutdown
  <2>5. Registry!KillAll
    BY <1>7, <2>2, <2>3, <2>4 DEF HandleShutdown, Registry!KillAll
  <2> QED
    BY <2>5 DEF Registry!Next
<1>8. CASE HandleQuery(c) \/ HandleAttach(c)
  BY <1>8 DEF HandleQuery, HandleAttach, Unseen, Holds, RegistryPhase, table, process
<1> QED
  BY <1>2, <1>3, <1>4, <1>5, <1>6, <1>7, <1>8 DEF Request

LEMMA MonitorImplements ==
    ASSUME RegistryInv, Monitor
    PROVE  Registry!Next \/ Unseen
<1>0. TypeOK /\ TableOK(agents)
  BY DEF RegistryInv, TypeOK, TableOK
<1>1. CASE MonitorTick
  <2>1. /\ DOMAIN agents' = DOMAIN agents \ Exited
        /\ up /\ ~shutdown /\ UNCHANGED <<up, process>>
    BY <1>1 DEF MonitorTick
  <2>2. Subtable
    BY <1>0, <1>1 DEF MonitorTick, TableOK, Agent, Subtable
  <2>3. CASE ~shutdown'
    BY <2>1, <2>2, <2>3, SweepClears DEF RegistryPhase
  <2>4. CASE shutdown'
    <3>1. DOMAIN agents \ Exited = {}
      BY <1>1, <2>1, <2>4 DEF MonitorTick, Expired
    <3>2. Holds' = Registry!Keep({})
      BY <2>1, <2>2, <3>1, SubtableKeeps
    <3>3. RegistryPhase # "closed" /\ RegistryPhase' = "closing"
      BY <2>1, <2>4 DEF RegistryPhase
    <3>4. Registry!Held \cap running \subseteq {}
      BY <3>1, HeldIsOwned DEF Owned, Exited
    <3>5. {} \in SUBSET Registry!Held /\ killing' = killing \cup {}
      BY <2>1 DEF process
    <3>6. Registry!KillAll
      BY <2>1, <3>2, <3>3, <3>4, <3>5 DEF process, Registry!KillAll
    <3> QED
      BY <3>6 DEF Registry!Next
  <2> QED
    BY <1>0, <1>1, <2>3, <2>4 DEF MonitorTick, TypeOK
<1>2. CASE MonitorStop
  BY <1>2 DEF MonitorStop, Unseen, Holds, RegistryPhase, table, process
<1>3. CASE WriteContext
  <2>1. DOMAIN agents' = DOMAIN agents /\ UNCHANGED <<RegistryPhase, process>>
    BY <1>3 DEF WriteContext, RegistryPhase
  <2>2. \A id \in DOMAIN agents' : agents'[id].pid = agents[id].pid
    BY <1>0, <1>3 DEF WriteContext, TableOK, Agent
  <2> QED
    BY <2>1, <2>2, FieldsUnseen DEF Subtable
<1> QED
  BY <1>1, <1>2, <1>3 DEF Monitor

LEMMA StopImplements ==
    ASSUME RegistryInv, PollStop
    PROVE  Registry!Next
<1>0. TypeOK /\ TableOK(agents)
  BY DEF RegistryInv, TypeOK, TableOK
<1>1. RegistryPhase = "closing" /\ RegistryPhase' = "closed"
  BY DEF PollStop, LoopEnds, RegistryInv, ClosedInv, RegistryPhase
<1>2. DOMAIN agents' = {} /\ Subtable
  BY <1>0, WithoutTable DEF PollStop, Subtable
<1>3. Holds' = Registry!Keep({})
  BY <1>2, SubtableKeeps
<1>4. (abandoned \cup dropped)' = (abandoned \cup dropped) \cup Registry!Held
  BY HeldIsOwned DEF PollStop
<1>5. Registry!Close
  BY <1>1, <1>3, <1>4 DEF PollStop, Registry!Close
<1> QED
  BY <1>5 DEF Registry!Next

LEMMA ProcessImplements ==
    ASSUME NEW p \in Pids, Process(p)
    PROVE  Registry!Next
<1>1. UNCHANGED <<RegistryPhase, Holds>> /\ UNCHANGED <<spawned, dropped>>
  BY DEF Process, Exit, Signalled, Reap, GiveUp, RegistryPhase, Holds, table
<1>2. Exit(p) \/ Signalled(p) => Registry!Die(p)
  BY <1>1 DEF Exit, Signalled, Registry!Die
<1>3. Reap(p) \/ GiveUp(p) => Registry!KillEnds(p)
  BY <1>1 DEF Reap, GiveUp, Registry!KillEnds
<1>4. p \in Registry!Processes
  BY DEF Pids, Registry!Processes
<1> QED
  BY <1>2, <1>3, <1>4 DEF Process, Registry!Next

LEMMA StepImplements ==
    ASSUME RegistryInv, [Next]_vars
    PROVE  Registry!Next \/ Unseen
<1>1. CASE UNCHANGED vars
  BY <1>1 DEF vars, Unseen, Holds, RegistryPhase
<1>2. CASE (\E c \in Clients : Connection(c)) \/ Elapse \/ PollSleep
  BY <1>2 DEF Connection, Accept, Begin, Leave, Recheck, Elapse, PollSleep, Unseen,
     Holds, RegistryPhase, table, process
<1> QED
  BY <1>1, <1>2, RequestImplements, MonitorImplements, StopImplements,
     ProcessImplements DEF Next

\* The daemon implements the registry: from the first state on, each of its steps
\* launches, clears, kills, closes or ends a killing as the registry allows, or is
\* not seen by it.
THEOREM DaemonImplementsRegistry == Spec => ImplementsRegistry
<1>1. Init => Registry!Init
  BY DEF Init, Registry!Init, RegistryPhase, Holds
<1>2. RegistryInv /\ [Next]_vars => [Registry!Next]_(Registry!registry)
  BY StepImplements DEF Unseen, Registry!registry
<1>3. /\ Init => RegistryInv
      /\ RegistryInv /\ [Next]_vars => RegistryInv'
  <2>1. TypeOK /\ UNCHANGED vars => TypeOK'
    BY DEF vars, TypeOK
  <2> QED
    BY <2>1, InitType, NextType, ClosedInvInductive DEF RegistryInv
<1> QED
  BY <1>1, <1>2, <1>3, PTL DEF Spec, ImplementsRegistry, Registry!Spec
-----------------------------------------------------------------------------
(* The events as those who listen hear them *)

\* Nothing is heard, and nothing reported has changed.
Quiet == Told' = {} /\ Reported' = Reported

LEMMA QuietIsHeard ==
    ASSUME Quiet
    PROVE  Feed!Next
<1>1. Reported = [n \in Ids |-> Reported[n]]
  BY DEF Reported
<1>2. Feed!Vacate({})
  BY <1>1 DEF Quiet, Feed!Vacate
<1> QED
  BY <1>2 DEF Quiet, Feed!Next

\* No event, or events of usage only, and agents with the states they had.
LEMMA SameIsQuiet ==
    ASSUME \A e \in events' : e.type = "ContextUpdate",
           DOMAIN agents' = DOMAIN agents,
           \A id \in DOMAIN agents : agents'[id].reported = agents[id].reported
    PROVE  Quiet
<1>1. Told' = {}
  BY DEF Told
<1>2. Reported' = Reported
  BY DEF Reported
<1> QED
  BY <1>1, <1>2 DEF Quiet

\* The names of the agents are those that show a state.
LEMMA LiveIs ==
    ASSUME TypeOK
    PROVE  /\ Feed!Live = DOMAIN agents
           /\ \A id \in DOMAIN agents : Reported[id] = agents[id].reported
<1>1. \A id \in DOMAIN agents : agents[id].reported \in AgentState /\ id \in Ids
  BY DEF TypeOK, Agent
<1>2. "none" \notin AgentState
  BY DEF AgentState
<1> QED
  BY <1>1, <1>2 DEF Feed!Live, Reported

\* Agents removed without a word.
LEMMA SilentIsHeard ==
    ASSUME TypeOK, NEW gone, gone \subseteq DOMAIN agents, agents' = Without(gone),
           events' = {}
    PROVE  Feed!Next
<1>1. Told' = {}
  BY DEF Told
<1>2. gone \in SUBSET Feed!Live
  BY LiveIs
<1>3. Reported' = [n \in Ids |-> IF n \in gone THEN "none" ELSE Reported[n]]
  BY DEF Reported, Without
<1>4. Feed!Vacate(gone)
  BY <1>3 DEF Feed!Vacate
<1> QED
  BY <1>1, <1>2, <1>4 DEF Feed!Next

LEMMA SpawnIsHeard ==
    ASSUME TypeOK, NEW id \in Ids, NEW provider \in Providers, SpawnAs(id, provider)
    PROVE  Feed!Next
<1>1. CASE events' = {} /\ UNCHANGED agents
  BY <1>1, SameIsQuiet, QuietIsHeard
<1>2. CASE ~(events' = {} /\ UNCHANGED agents)
  <2> DEFINE agent == NewAgent(spawned + 1, provider)
  <2>1. /\ id \notin DOMAIN agents
        /\ agents' = With(id, agent) /\ events' = {AgentSpawned(id, agent)}
    BY <1>2 DEF SpawnAs, NameFree
  <2>2. agent.state = "working" /\ agent.reported = "working"
    BY DEF NewAgent
  <2> HIDE DEF agent
  <2>3. Told' = {Feed!Spawned(id)}
    <3>1. AgentSpawned(id, agent).type = "AgentSpawned" /\ AgentSpawned(id, agent).id = id
          /\ AgentSpawned(id, agent).state = "working"
      BY <2>2 DEF AgentSpawned
    <3>2. Heard(AgentSpawned(id, agent)) = Feed!Spawned(id)
      BY <3>1 DEF Heard, Feed!Spawned
    <3> QED
      BY <2>1, <3>1, <3>2 DEF Told
  <2>4. Reported' = [Reported EXCEPT ![id] = "working"]
    BY <2>1, <2>2 DEF Reported, With
  <2>5. id \notin Feed!Live
    BY <2>1, LiveIs
  <2> QED
    BY <2>3, <2>4, <2>5 DEF Feed!Launch, Feed!Next
<1> QED
  BY <1>1, <1>2

LEMMA KillIsHeard ==
    ASSUME TypeOK, NEW c \in Clients, HandleKill(c)
    PROVE  Feed!Next
<1>1. PICK id \in Ids :
        \/ /\ id \in DOMAIN agents
           /\ agents' = Without({id})
           /\ events' = {AgentExited(id)}
        \/ events' = {} /\ UNCHANGED agents
  BY DEF HandleKill, KillEvents
<1>2. CASE events' = {} /\ UNCHANGED agents
  BY <1>2, SameIsQuiet, QuietIsHeard
<1>3. CASE /\ id \in DOMAIN agents
           /\ agents' = Without({id})
           /\ events' = {AgentExited(id)}
  <2>1. Heard(AgentExited(id)) = Feed!Exited(id) /\ AgentExited(id).type # "ContextUpdate"
    BY DEF Heard, AgentExited, Feed!Exited
  <2>2. Told' = {Feed!Exited(id)}
    BY <1>3, <2>1 DEF Told
  <2>3. Reported' = [n \in Ids |-> IF n \in {id} THEN "none" ELSE Reported[n]]
    BY <1>3 DEF Reported, Without
  <2>4. Feed!Vacate({id})
    BY <2>3 DEF Feed!Vacate
  <2> QED
    BY <1>3, <2>2, <2>4, LiveIs DEF Feed!Next
<1> QED
  BY <1>1, <1>2, <1>3

LEMMA TickIsHeard ==
    ASSUME TypeOK, MonitorTick
    PROVE  Feed!Next
<1> DEFINE live == DOMAIN agents \ Exited
<1>1. PICK now \in [live -> AgentState] :
         /\ agents' = [id \in live |-> [agents[id] EXCEPT !.reported = now[id]]]
         /\ events' = {AgentExited(id) : id \in Exited} \cup StateChanges(live, now)
  BY DEF MonitorTick
<1>2. /\ Exited \in SUBSET Feed!Live /\ Feed!Live \ Exited = live
      /\ \A id \in DOMAIN agents : Reported[id] = agents[id].reported
  BY LiveIs DEF Exited
<1>3. \A id \in live : agents[id] \in Agent /\ id \in Ids
  BY DEF TypeOK
<1>4. \A id \in live : agents'[id].reported = now[id]
  BY <1>1, <1>3 DEF Agent
<1>5. Reported' = [n \in Ids |-> IF n \in live THEN now[n] ELSE "none"]
  BY <1>1, <1>4 DEF Reported
<1>6. Feed!Tick(Exited, now)
  BY <1>2, <1>5 DEF Feed!Tick
<1>7. \A id : /\ AgentExited(id).type # "ContextUpdate"
              /\ Heard(AgentExited(id)) = Feed!Exited(id)
  BY DEF Heard, AgentExited, Feed!Exited
<1>8. \A id, old, new : /\ StateChange(id, old, new).type # "ContextUpdate"
                        /\ Heard(StateChange(id, old, new)) = Feed!Changed(id, new)
  BY DEF Heard, StateChange, Feed!Changed
<1> DEFINE moved == {i \in live : now[i] # agents[i].reported}
<1>9. events' = {AgentExited(id) : id \in Exited}
                  \cup {StateChange(id, agents[id].reported, now[id]) : id \in moved}
  BY <1>1 DEF StateChanges
<1>10. Told' = {Feed!Exited(id) : id \in Exited} \cup {Feed!Changed(id, now[id]) : id \in moved}
  <2>1. \A e \in events' : e.type # "ContextUpdate"
    BY <1>7, <1>8, <1>9
  <2>2. Told' = {Heard(e) : e \in events'}
    BY <2>1 DEF Told
  <2> HIDE DEF moved
  <2> QED
    BY <1>7, <1>8, <1>9, <2>2
<1>11. moved = {m \in Feed!Live \ Exited : now[m] # Reported[m]}
  BY <1>2
<1>12. Told' = Feed!TickTells(Exited, now)
  BY <1>10, <1>11 DEF Feed!TickTells
<1> QED
  BY <1>2, <1>6, <1>12 DEF Feed!Next

LEMMA RequestIsHeard ==
    ASSUME TypeOK, NEW c \in Clients, Request(c)
    PROVE  Feed!Next
<1>1. CASE HandleSpawn(c)
  <2>1. PICK id \in Ids, provider \in Providers : SpawnAs(id, provider)
    BY <1>1, DaemonAssumption DEF HandleSpawn, TypeOK
  <2> QED
    BY <2>1, SpawnIsHeard
<1>2. CASE HandleList(c)
  BY <1>2, SilentIsHeard DEF HandleList, Exited
<1>3. CASE HandleShutdown(c)
  BY <1>3, SilentIsHeard DEF HandleShutdown, Drained
<1>4. CASE HandleSetNotify(c) \/ HandleHookEvent(c)
  <2>1. events' = {} /\ DOMAIN agents' = DOMAIN agents
    BY <1>4 DEF HandleSetNotify, HandleHookEvent
  <2>2. \A id \in DOMAIN agents : agents[id] \in Agent
    BY DEF TypeOK
  <2>3. \A id \in DOMAIN agents : agents'[id].reported = agents[id].reported
    BY <1>4, <2>2 DEF HandleSetNotify, HandleHookEvent, Agent
  <2> QED
    BY <2>1, <2>3, SameIsQuiet, QuietIsHeard
<1>5. CASE HandleQuery(c) \/ HandleAttach(c)
  BY <1>5, SameIsQuiet, QuietIsHeard DEF HandleQuery, HandleAttach, table
<1> QED
  BY <1>1, <1>2, <1>3, <1>4, <1>5, KillIsHeard DEF Request

LEMMA MonitorIsHeard ==
    ASSUME TypeOK, Monitor
    PROVE  Feed!Next
<1>1. CASE MonitorStop
  BY <1>1, SameIsQuiet, QuietIsHeard DEF MonitorStop, table
<1>2. CASE WriteContext
  <2>1. \A e \in events' : e.type = "ContextUpdate"
    BY <1>2 DEF WriteContext, ContextUpdate
  <2>2. \A id \in DOMAIN agents : agents[id] \in Agent
    BY DEF TypeOK
  <2>3. DOMAIN agents' = DOMAIN agents
    BY <1>2 DEF WriteContext
  <2>4. \A id \in DOMAIN agents : agents'[id].reported = agents[id].reported
    BY <1>2, <2>2 DEF WriteContext, Agent
  <2> QED
    BY <2>1, <2>3, <2>4, SameIsQuiet, QuietIsHeard
<1> QED
  BY <1>1, <1>2, TickIsHeard DEF Monitor

\* A step of the daemon tells all it does to the states reported, and nothing else.
LEMMA StepIsHeard ==
    ASSUME TypeOK, Next
    PROVE  Feed!Next
<1>1. CASE (\E c \in Clients : Connection(c)) \/ Elapse \/ PollSleep
           \/ (\E p \in Pids : Process(p))
  <2>1. events' = {} /\ agents' = agents
    BY <1>1 DEF Connection, Accept, Begin, Leave, Recheck, Elapse, PollSleep, Process,
       Exit, Signalled, Reap, GiveUp, table
  <2> QED
    BY <2>1, SameIsQuiet, QuietIsHeard
<1>2. CASE PollStop
  BY <1>2, SilentIsHeard DEF PollStop
<1> QED
  BY <1>1, <1>2, RequestIsHeard, MonitorIsHeard DEF Next

\* The daemon implements the feed: whatever its connections and its monitor do, one
\* who follows its events knows of every launch and every change of a state that is
\* reported, and is told of nothing that is not so.
THEOREM DaemonImplementsFeed == Spec => ImplementsFeed
<1>1. Init => Feed!Init
  BY DEF Init, Feed!Init, Reported, Told
<1>2. TypeOK /\ [Next]_vars => [Feed!Next]_(<<Reported, Told>>)
  <2>1. UNCHANGED vars => UNCHANGED <<Reported, Told>>
    BY DEF vars, Reported, Told
  <2> QED
    BY <2>1, StepIsHeard
<1> QED
  BY <1>1, <1>2, TypeCorrect, PTL DEF Spec, ImplementsFeed, Feed!Spec
===============================================================================
