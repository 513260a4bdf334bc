------------------------------- MODULE Daemon -------------------------------
(***************************************************************************)
(* The agent daemon of tam-daemon/src/daemon.rs, with the agents of        *)
(* agent.rs: the table of agents behind one mutex, the request handlers    *)
(* that run under it, the monitor task that wakes once a second, the       *)
(* accept loop that polls the shutdown flag, and the tasks that kill the   *)
(* processes of removed agents in the background.                          *)
(*                                                                         *)
(* A step is one critical section of the mutex (a whole handler, a whole   *)
(* monitor tick), or one step of a process, of a kill task, of the accept  *)
(* loop or of the clock.  Everything the code does without the mutex held  *)
(* may therefore interleave with every handler.                            *)
(***************************************************************************)
EXTENDS Naturals, FiniteSets

CONSTANTS
    Ids,              \* names an agent can have
    AutoId(_),        \* AutoId(n) is the name "agent-{n}"
    Clients,          \* connections that can exist at the same time
    HookProviders,    \* providers whose state is pushed by hooks (claude)
    OutputProviders,  \* providers whose state is read off output (codex, any)
    HookEvents,       \* hook event names that can arrive
    Percents,         \* context usage percentages
    IdleTimeout,      \* IDLE_TIMEOUT_SECS
    ContextEvery,     \* ticks between two context refreshes (10)
    MaxSpawns,        \* bound: processes ever launched
    MaxNextId,        \* bound: automatic names ever drawn
    None              \* Option::None

Providers == HookProviders \cup OutputProviders
Pids == 1..MaxSpawns
AgentState == {"working", "blocked", "input", "idle"}

ASSUME DaemonAssumption ==
    /\ IdleTimeout \in Nat \ {0}
    /\ ContextEvery \in Nat \ {0}
    /\ MaxSpawns \in Nat
    /\ MaxNextId \in Nat
    /\ \A n \in 1..MaxNextId : AutoId(n) \in Ids
    /\ None \notin Ids \cup Percents \cup 0..IdleTimeout
    /\ HookProviders \cap OutputProviders = {}

VARIABLES
    agents,     \* DaemonState.agents: a function on the names in use
    nextId,     \* DaemonState.next_id
    shutdown,   \* DaemonState.shutdown
    idle,       \* seconds left to DaemonState.idle_deadline, None if unset
    conn,       \* what each connection task is doing
    mon,        \* where the monitor task is: at its tick, in file IO, done
    counter,    \* state_monitor's context_counter
    jobs,       \* the refresh jobs the monitor holds outside the lock
    up,         \* Daemon::run has not returned
    poll,       \* where shutdown_signal is: in its sleep, or about to look
    spawned,    \* processes launched so far: the next one is spawned + 1
    running,    \* processes that have not exited
    killing,    \* processes owned by a background kill_and_drop task
    abandoned,  \* processes a kill task or a failed spawn gave up on
    dropped,    \* processes whose Agent was dropped when run returned
    events      \* the events the last step sent on event_tx

table == <<agents, nextId>>
monitor == <<mon, counter, jobs>>
process == <<spawned, running, killing, abandoned, dropped>>
vars == <<agents, nextId, shutdown, idle, conn, mon, counter, jobs, up, poll,
          spawned, running, killing, abandoned, dropped, events>>

-----------------------------------------------------------------------------
(* The types *)

Agent == [pid : Pids, provider : Providers, state : AgentState,
          reported : AgentState, context : Percents \cup {None},
          notify : BOOLEAN]

\* What a connection task is doing: accepted by the listener but not yet
\* running, waiting for a request, past its reply but not yet past the check of
\* the shutdown flag, or relaying a PTY.
ConnState == {"none", "accepted", "open", "replied", "attached"}

Event ==
    [type : {"AgentSpawned"}, id : Ids, pid : Pids, state : AgentState,
     context : Percents \cup {None}]
      \cup [type : {"AgentExited"}, id : Ids]
      \cup [type : {"StateChange"}, id : Ids, old : AgentState, new : AgentState]
      \cup [type : {"ContextUpdate"}, id : Ids, context : Percents]

TypeOK ==
    /\ DOMAIN agents \subseteq Ids
    /\ agents \in [DOMAIN agents -> Agent]
    /\ nextId \in 1..(MaxNextId + 1)
    /\ shutdown \in BOOLEAN
    /\ idle \in 0..IdleTimeout \cup {None}
    /\ conn \in [Clients -> ConnState]
    /\ mon \in {"tick", "io", "done"}
    /\ counter \in 0..(ContextEvery - 1)
    /\ DOMAIN jobs \subseteq Ids
    /\ jobs \in [DOMAIN jobs -> Pids]
    /\ up \in BOOLEAN
    /\ poll \in {"sleep", "look"}
    /\ spawned \in 0..MaxSpawns
    /\ running \subseteq Pids
    /\ killing \subseteq Pids
    /\ abandoned \subseteq Pids
    /\ dropped \subseteq Pids
    /\ events \subseteq Event

Init ==
    /\ agents = [id \in {} |-> None]
    /\ nextId = 1
    /\ shutdown = FALSE
    /\ idle = None
    /\ conn = [c \in Clients |-> "none"]
    /\ mon = "tick"
    /\ counter = 0
    /\ jobs = [id \in {} |-> None]
    /\ up = TRUE
    /\ poll = "sleep"
    /\ spawned = 0
    /\ running = {}
    /\ killing = {}
    /\ abandoned = {}
    /\ dropped = {}
    /\ events = {}

-----------------------------------------------------------------------------
(* Helpers *)

\* The processes an Agent in the table owns.
Owned == {agents[id].pid : id \in DOMAIN agents}

\* Connections that hold a ClientGuard, so that connected_clients counts them.
Counted == {c \in Clients : conn[c] \in {"open", "replied", "attached"}}

\* Mutant of Exited: exits are looked for only while no client is connected.
ExitedUnwatched ==
    {id \in DOMAIN agents : agents[id].pid \notin running /\ Counted = {}}

\* Agents whose process has exited but which nothing has removed yet.
Exited == {id \in DOMAIN agents : agents[id].pid \notin running}

Without(gone) == [id \in DOMAIN agents \ gone |-> agents[id]]

With(id, agent) ==
    [i \in DOMAIN agents \cup {id} |-> IF i = id THEN agent ELSE agents[i]]

\* The state a provider maps a hook event to, None when it does not know it.
MapHookEvent(provider, event) ==
    IF provider \notin HookProviders THEN None
    ELSE CASE event = "user_prompt_submit" -> "working"
           [] event \in {"stop", "notification:idle_prompt"} -> "input"
           [] event = "notification:permission_prompt" -> "blocked"
           [] OTHER -> None

\* What current_state can return: the stored state under a hook provider; under
\* an output provider it depends on how long ago the process last wrote.
CurrentStates(agent) ==
    IF agent.provider \in HookProviders THEN {agent.state}
    ELSE {"working", "idle"}

NewAgent(pid, provider) ==
    [pid |-> pid, provider |-> provider, state |-> "working",
     reported |-> "working", context |-> None, notify |-> TRUE]

AgentSpawned(id, agent) ==
    [type |-> "AgentSpawned", id |-> id, pid |-> agent.pid,
     state |-> agent.state, context |-> agent.context]
AgentExited(id) == [type |-> "AgentExited", id |-> id]
StateChange(id, old, new) ==
    [type |-> "StateChange", id |-> id, old |-> old, new |-> new]
ContextUpdate(id, percent) ==
    [type |-> "ContextUpdate", id |-> id, context |-> percent]

-----------------------------------------------------------------------------
(* Connections *)

\* The listener accepts; the event receiver is subscribed before the connection
\* task runs.  Leaving the select drops shutdown_signal, so its sleep restarts.
Accept(c) ==
    /\ up
    /\ conn[c] = "none"
    /\ conn' = [conn EXCEPT ![c] = "accepted"]
    /\ poll' = "sleep"
    /\ events' = {}
    /\ UNCHANGED <<table, shutdown, idle, monitor, up, process>>

\* The connection task starts and counts itself.
Begin(c) ==
    /\ conn[c] = "accepted"
    /\ conn' = [conn EXCEPT ![c] = "open"]
    /\ events' = {}
    /\ UNCHANGED <<table, shutdown, idle, monitor, up, poll, process>>

\* The task ends: end of file, a failed write, or the end of an attach session.
Leave(c) ==
    /\ conn[c] \in {"open", "replied", "attached"}
    /\ conn' = [conn EXCEPT ![c] = "none"]
    /\ events' = {}
    /\ UNCHANGED <<table, shutdown, idle, monitor, up, poll, process>>

\* After the reply the task takes the lock again to look at the shutdown flag.
Recheck(c) ==
    /\ conn[c] = "replied"
    /\ conn' = [conn EXCEPT ![c] = IF shutdown THEN "none" ELSE "open"]
    /\ events' = {}
    /\ UNCHANGED <<table, shutdown, idle, monitor, up, poll, process>>

\* A request of c is handled and answered.
Reply(c) ==
    /\ conn[c] = "open"
    /\ conn' = [conn EXCEPT ![c] = "replied"]

-----------------------------------------------------------------------------
(* Request handlers *)

\* Mutant of NameFree: the test for a taken name is missing.
AnyNameFree(id) == TRUE

NameFree(id) == id \notin DOMAIN agents

\* Spawn under a name: refused when the name is taken, whether or not the agent
\* that holds it is still alive, and when the process cannot be launched.  When
\* only its reader thread cannot be created, the process is there without an agent.
SpawnAs(id, provider) ==
    \/ /\ events' = {}
       /\ UNCHANGED <<agents, process>>
    \/ /\ NameFree(id)
       /\ spawned < MaxSpawns
       /\ spawned' = spawned + 1
       /\ running' = running \cup {spawned + 1}
       /\ \/ LET agent == NewAgent(spawned + 1, provider) IN
             /\ agents' = With(id, agent)
             /\ events' = {AgentSpawned(id, agent)}
             /\ UNCHANGED abandoned
          \/ /\ abandoned' = abandoned \cup {spawned + 1}
             /\ events' = {}
             /\ UNCHANGED agents
       /\ UNCHANGED <<killing, dropped>>

HandleSpawn(c) ==
    /\ Reply(c)
    /\ \E provider \in Providers :
         \/ \E id \in Ids : SpawnAs(id, provider) /\ UNCHANGED nextId
         \/ /\ nextId <= MaxNextId
            /\ SpawnAs(AutoId(nextId), provider)
            /\ nextId' = nextId + 1
    /\ UNCHANGED <<shutdown, idle, monitor, up, poll>>

\* List removes the agents that have exited, and tells nobody.
HandleList(c) ==
    /\ Reply(c)
    /\ agents' = Without(Exited)
    /\ events' = {}
    /\ UNCHANGED <<nextId, shutdown, idle, monitor, up, poll, process>>

\* Mutant of KillEvents: the exit is left for the monitor to report.
NoKillEvents(id) == {}

KillEvents(id) == {AgentExited(id)}

HandleKill(c) ==
    /\ Reply(c)
    /\ \E id \in Ids :
         \/ /\ id \in DOMAIN agents
            /\ agents' = Without({id})
            /\ killing' = killing \cup {agents[id].pid}
            /\ events' = KillEvents(id)
         \/ /\ id \notin DOMAIN agents
            /\ events' = {}
            /\ UNCHANGED <<agents, killing>>
    /\ UNCHANGED <<nextId, shutdown, idle, monitor, up, poll, spawned, running,
                   abandoned, dropped>>

\* A name without an agent is answered by an error, as by HandleQuery.
HandleSetNotify(c) ==
    /\ Reply(c)
    /\ \E id \in DOMAIN agents, enabled \in BOOLEAN :
         agents' = [agents EXCEPT ![id].notify = enabled]
    /\ events' = {}
    /\ UNCHANGED <<nextId, shutdown, idle, monitor, up, poll, process>>

\* A hook event reaches the agent that has the name now.  An event the provider
\* does not know, or a name without an agent, changes nothing.
HandleHookEvent(c) ==
    /\ Reply(c)
    /\ \E id \in DOMAIN agents, event \in HookEvents :
         LET new == MapHookEvent(agents[id].provider, event) IN
         agents' = IF new = None THEN agents
                   ELSE [agents EXCEPT ![id].state = new]
    /\ events' = {}
    /\ UNCHANGED <<nextId, shutdown, idle, monitor, up, poll, process>>

\* Mutant of Drained: the agents stay in the table.
NotDrained == agents

Drained == Without(DOMAIN agents)

HandleShutdown(c) ==
    /\ Reply(c)
    /\ killing' = killing \cup Owned
    /\ agents' = Drained
    /\ shutdown' = TRUE
    /\ events' = {}
    /\ UNCHANGED <<nextId, idle, monitor, up, poll, spawned, running, abandoned,
                   dropped>>

\* Requests that change no state of the daemon: Hello, Scrollback, Resize, and any
\* request about a name without an agent.  (A line that does not parse is answered
\* without a look at the shutdown flag: nothing changes.)
HandleQuery(c) ==
    /\ Reply(c)
    /\ events' = {}
    /\ UNCHANGED <<table, shutdown, idle, monitor, up, poll, process>>

\* Attach to an agent turns the connection into a relay for good.
HandleAttach(c) ==
    /\ conn[c] = "open"
    /\ DOMAIN agents # {}
    /\ conn' = [conn EXCEPT ![c] = "attached"]
    /\ events' = {}
    /\ UNCHANGED <<table, shutdown, idle, monitor, up, poll, process>>

-----------------------------------------------------------------------------
(* The monitor task *)

\* Mutant of Countdown: work seen by a tick does not stop the countdown.
CountdownThroughWork(live) == IF idle = None THEN IdleTimeout ELSE idle

\* Mutant of Countdown: every tick without work starts it again.
CountdownRestarted(live) ==
    IF live # {} \/ Counted # {} THEN None ELSE IdleTimeout

\* Its countdown, given the agents that are left after the exit sweep.
Countdown(live) ==
    IF live # {} \/ Counted # {} THEN None
    ELSE IF idle = None THEN IdleTimeout
    ELSE idle

Expired(live) == live = {} /\ Counted = {} /\ idle = 0

\* Mutant of ContextDue: off by one.
ContextDueLate == counter + 1 > ContextEvery

ContextDue == counter + 1 >= ContextEvery

\* Mutants of StateChanges: what has changed is told from the stored state, and
\* the old state of the event is the stored one.
StateChangesOfStored(live, now) ==
    {StateChange(id, agents[id].reported, now[id]) :
       id \in {i \in live : now[i] # agents[i].state}}
StateChangesFromStored(live, now) ==
    {StateChange(id, agents[id].state, now[id]) :
       id \in {i \in live : now[i] # agents[i].reported}}

\* The events for the agents whose state now is not the one reported last.
StateChanges(live, now) ==
    {StateChange(id, agents[id].reported, now[id]) :
       id \in {i \in live : now[i] # agents[i].reported}}

MonitorTick ==
    /\ up
    /\ mon = "tick"
    /\ ~shutdown
    /\ LET live == DOMAIN agents \ Exited IN
       \E now \in [live -> AgentState] :
         /\ \A id \in live : now[id] \in CurrentStates(agents[id])
         /\ agents' = [id \in live |-> [agents[id] EXCEPT !.reported = now[id]]]
         /\ events' = {AgentExited(id) : id \in Exited} \cup StateChanges(live, now)
         /\ idle' = Countdown(live)
         /\ IF Expired(live)
            THEN /\ shutdown' = TRUE
                 /\ mon' = "done"
                 /\ UNCHANGED <<counter, jobs>>
            ELSE /\ UNCHANGED shutdown
                 /\ IF ContextDue
                    THEN /\ counter' = 0
                         /\ jobs' = [id \in live |-> agents[id].pid]
                         /\ mon' = "io"
                    ELSE /\ counter' = counter + 1
                         /\ UNCHANGED <<jobs, mon>>
    /\ UNCHANGED <<nextId, conn, up, poll, process>>

MonitorStop ==
    /\ up
    /\ mon = "tick"
    /\ shutdown
    /\ mon' = "done"
    /\ events' = {}
    /\ UNCHANGED <<table, shutdown, idle, conn, counter, jobs, up, poll, process>>

\* The usage files of the jobs are read without the lock, and the results are
\* written back to whatever agents have the names by then.
WriteContext ==
    /\ up
    /\ mon = "io"
    /\ \E usage \in [DOMAIN jobs -> Percents \cup {None}] :
         LET found == {id \in DOMAIN jobs \cap DOMAIN agents : usage[id] # None}
         IN /\ agents' = [id \in DOMAIN agents |->
                            IF id \in found
                            THEN [agents[id] EXCEPT !.context = usage[id]]
                            ELSE agents[id]]
            /\ events' = {ContextUpdate(id, usage[id]) :
                            id \in {i \in found : usage[i] # agents[i].context}}
    /\ mon' = "tick"
    /\ jobs' = [id \in {} |-> None]
    /\ UNCHANGED <<nextId, shutdown, idle, conn, counter, up, poll, process>>

\* A second passes.
Elapse ==
    /\ up
    /\ idle' = IF idle \in 1..IdleTimeout THEN idle - 1 ELSE idle
    /\ events' = {}
    /\ UNCHANGED <<table, shutdown, conn, monitor, up, poll, process>>

-----------------------------------------------------------------------------
(* The accept loop's other branch: shutdown_signal *)

\* The sleep of 100 ms ends.  It is a step only once the flag is set: until then
\* the loop in shutdown_signal goes back to sleep.
PollSleep ==
    /\ up
    /\ shutdown
    /\ poll = "sleep"
    /\ poll' = "look"
    /\ events' = {}
    /\ UNCHANGED <<table, shutdown, idle, conn, monitor, up, process>>

\* Mutant of LoopEnds: the flag is not looked at.
LoopEndsUnasked == up

\* Mutant of LoopEnds: the loop waits for its clients to leave.
LoopEndsAlone == up /\ poll = "look" /\ Counted = {}

LoopEnds == up /\ poll = "look"

\* run sees the flag and returns: every task is dropped where it stands and with
\* them the agents still in the table, which are not killed; the runtime waits
\* for the blocking kill tasks only.
PollStop ==
    /\ LoopEnds
    /\ up' = FALSE
    /\ conn' = [c \in Clients |-> "none"]
    /\ agents' = Without(DOMAIN agents)
    /\ dropped' = dropped \cup Owned
    /\ mon' = "done"
    /\ jobs' = [id \in {} |-> None]
    /\ events' = {}
    /\ UNCHANGED <<nextId, shutdown, idle, counter, poll, spawned, running,
                   killing, abandoned>>

-----------------------------------------------------------------------------
(* Processes and the tasks that kill them *)

\* A process exits by itself.
Exit(p) ==
    /\ p \in running
    /\ running' = running \ {p}
    /\ events' = {}
    /\ UNCHANGED <<table, shutdown, idle, conn, monitor, up, poll, spawned,
                   killing, abandoned, dropped>>

\* The SIGTERM or SIGKILL of its kill task ends a process.
Signalled(p) ==
    /\ p \in killing \cap running
    /\ running' = running \ {p}
    /\ events' = {}
    /\ UNCHANGED <<table, shutdown, idle, conn, monitor, up, poll, spawned,
                   killing, abandoned, dropped>>

\* The kill task sees that the process has exited.
Reap(p) ==
    /\ p \in killing \ running
    /\ killing' = killing \ {p}
    /\ events' = {}
    /\ UNCHANGED <<table, shutdown, idle, conn, monitor, up, poll, spawned,
                   running, abandoned, dropped>>

\* Two seconds after SIGKILL the kill task gives up.
GiveUp(p) ==
    /\ p \in killing \cap running
    /\ killing' = killing \ {p}
    /\ abandoned' = abandoned \cup {p}
    /\ events' = {}
    /\ UNCHANGED <<table, shutdown, idle, conn, monitor, up, poll, spawned,
                   running, dropped>>

-----------------------------------------------------------------------------
Request(c) ==
    \/ HandleSpawn(c)
    \/ HandleList(c)
    \/ HandleKill(c)
    \/ HandleSetNotify(c)
    \/ HandleHookEvent(c)
    \/ HandleShutdown(c)
    \/ HandleQuery(c)
    \/ HandleAttach(c)

Connection(c) == Accept(c) \/ Begin(c) \/ Leave(c) \/ Recheck(c)

Monitor == MonitorTick \/ MonitorStop \/ WriteContext

Process(p) == Exit(p) \/ Signalled(p) \/ Reap(p) \/ GiveUp(p)

Next ==
    \/ \E c \in Clients : Connection(c) \/ Request(c)
    \/ Monitor
    \/ Elapse
    \/ PollSleep
    \/ PollStop
    \/ \E p \in Pids : Process(p)

Spec == Init /\ [][Next]_vars

\* The runtime runs every task that can run, timers fire, and a signalled
\* process exits; nothing is assumed of clients or of processes left alone.
Fairness ==
    /\ WF_vars(Monitor)
    /\ WF_vars(Elapse)
    /\ WF_vars(PollSleep)
    /\ WF_vars(PollStop)
    /\ \A c \in Clients : WF_vars(Begin(c)) /\ WF_vars(Recheck(c))
    /\ \A p \in Pids : WF_vars(Signalled(p)) /\ WF_vars(Reap(p))

FairSpec == Spec /\ Fairness

-----------------------------------------------------------------------------
(* Properties *)

\* Every process that runs has exactly one owner: the agent of one name, a kill
\* task, or nobody because a kill task or a failed spawn gave up on it or because
\* run returned.  No handler, and no reuse of a name, loses a process that is
\* alive: daemon.rs moves an Agent between the table and the kill tasks, and
\* dropping it anywhere else would leave its process running with nothing to stop
\* it.
OneOwner ==
    /\ running \subseteq Owned \cup killing \cup abandoned \cup dropped
    /\ \A i, j \in DOMAIN agents : agents[i].pid = agents[j].pid => i = j
    /\ Owned \cap (killing \cup abandoned \cup dropped) = {}
    /\ killing \cap (abandoned \cup dropped) = {}

\* What the table and the flags are to those who ask for agents by name.
RegistryPhase == IF ~up THEN "closed" ELSE IF shutdown THEN "closing" ELSE "open"
Holds == [id \in DOMAIN agents |-> agents[id].pid]

Registry == INSTANCE AgentRegistry WITH
    Names <- Ids, MaxLaunches <- MaxSpawns, phase <- RegistryPhase, holds <- Holds,
    launched <- spawned, alive <- running, dying <- killing,
    adrift <- abandoned \cup dropped

\* Every step of the daemon is one of the registry or changes nothing of it: no
\* name changes hands between two processes, a shutdown hands over every process
\* alive before run returns, and a daemon that has returned launches nothing,
\* whatever its connections and its monitor were doing.
ImplementsRegistry == Registry!Spec

\* What the table and the events are to those who listen; usage aside.
Reported ==
    [id \in Ids |-> IF id \in DOMAIN agents THEN agents[id].reported ELSE "none"]

Heard(e) ==
    CASE e.type = "AgentSpawned" -> [type |-> "spawned", name |-> e.id, state |-> e.state]
      [] e.type = "AgentExited" -> [type |-> "exited", name |-> e.id]
      [] OTHER -> [type |-> "state", name |-> e.id, state |-> e.new]

Told == {Heard(e) : e \in {f \in events : f.type # "ContextUpdate"}}

Feed == INSTANCE AgentFeed WITH
    Names <- Ids, States <- AgentState, None <- "none", agents <- Reported, told <- Told

\* What a step tells is what it does to the states reported: no handler and no tick
\* tells of a change it does not make, or makes one that is told in part, later or
\* never; only removals may be silent, as those of a list and a shutdown are.
ImplementsFeed == Feed!Spec

\* An agent whose process has exited leaves the table, by the monitor or by a
\* request, unless the daemon decides to shut down first; the name is refused to
\* a new agent until then.
ExitsAreReaped ==
    \A id \in Ids, p \in Pids :
      (id \in DOMAIN agents /\ agents[id].pid = p /\ p \notin running)
        ~> (shutdown \/ id \notin DOMAIN agents \/ agents[id].pid # p)

\* Once the flag is set run returns, if clients stop connecting at some time:
\* each accepted connection restarts the sleep before the flag is looked at.
ShutdownStops ==
    <>[][\A c \in Clients : ~Accept(c)]_vars => (shutdown ~> ~up)

\* A daemon left without agents and connections for good stops by itself.
IdleStops ==
    <>[](DOMAIN agents = {} /\ \A c \in Clients : conn[c] = "none") => <>~up

=============================================================================
