--------------------------- MODULE DaemonHistory ---------------------------
(***************************************************************************)
(* The daemon of module Daemon, observed.  Three history variables record  *)
(* what its behaviour has shown so far, and change nothing of it:          *)
(*   announced  what a subscriber knows that has read every event;         *)
(*   quiet      for how long the monitor has seen neither agent nor client;*)
(*   before     how many processes had been launched when the daemon       *)
(*              decided to shut down.                                      *)
(***************************************************************************)
EXTENDS Daemon

VARIABLES announced, quiet, before

history == <<announced, quiet, before>>
hvars == <<vars, history>>

Announcement == [pid : Pids, state : AgentState, context : Percents \cup {None}]

HistoryTypeOK ==
    /\ DOMAIN announced \subseteq Ids
    /\ announced \in [DOMAIN announced -> Announcement]
    /\ quiet \in 0..IdleTimeout
    /\ before \in 0..MaxSpawns

HistoryInit ==
    /\ announced = [id \in {} |-> None]
    /\ quiet = 0
    /\ before = 0

-----------------------------------------------------------------------------
\* The names of the events of one type that the step sends.
Named(type) == {e.id : e \in {x \in events' : x.type = type}}

\* The event of one type about id that the step sends.
EventOf(type, id) == CHOOSE e \in events' : e.type = type /\ e.id = id

\* What a subscriber knows of id once it has read the events of the step.
Knows(id) ==
    IF id \in Named("AgentSpawned")
    THEN LET e == EventOf("AgentSpawned", id)
         IN [pid |-> e.pid, state |-> e.state, context |-> e.context]
    ELSE IF id \in Named("StateChange")
    THEN [announced[id] EXCEPT !.state = EventOf("StateChange", id).new]
    ELSE IF id \in Named("ContextUpdate")
    THEN [announced[id] EXCEPT !.context = EventOf("ContextUpdate", id).context]
    ELSE announced[id]

Listen ==
    announced' = [id \in (DOMAIN announced \ Named("AgentExited"))
                           \cup Named("AgentSpawned") |-> Knows(id)]

\* The monitor sees an agent or a client at its tick.
SeesWork == DOMAIN agents \ Exited # {} \/ Counted # {}

Watch ==
    \/ MonitorTick /\ quiet' = IF SeesWork THEN 0 ELSE quiet
    \/ Elapse /\ quiet' = IF quiet < IdleTimeout THEN quiet + 1 ELSE quiet
    \/ /\ \/ \E c \in Clients : Connection(c) \/ Request(c)
          \/ MonitorStop \/ WriteContext \/ PollSleep \/ PollStop
          \/ \E p \in Pids : Process(p)
       /\ UNCHANGED quiet

Remember == before' = IF shutdown' /\ ~shutdown THEN spawned ELSE before

HistoryNext == Watch /\ Listen /\ Remember

HistorySpec == Init /\ HistoryInit /\ [][HistoryNext]_hvars

-----------------------------------------------------------------------------
(* Properties *)

\* Whoever has read every event knows each agent in the table as the daemon
\* does: its process, the state last reported and its context usage.  Handlers
\* and monitor change these fields in different critical sections, and a change
\* without its event would stay invisible to the TUI until it lists again.
StreamCoversAgents ==
    \A id \in DOMAIN agents :
      /\ id \in DOMAIN announced
      /\ announced[id] = [pid |-> agents[id].pid, state |-> agents[id].reported,
                          context |-> agents[id].context]

\* Until a shutdown, an agent the stream still shows but the table has lost is
\* one whose process is dead: the removal nobody was told of (List's) never
\* hides a process that is alive.
StreamGhostsAreDead ==
    \A id \in DOMAIN announced \ DOMAIN agents :
      ~shutdown => announced[id].pid \notin running

\* Events chain: a state change starts from the state last announced for the
\* agent and moves away from it, a context update says something new, and an
\* exit is announced only of an agent that was announced and not yet gone.
EventsChain ==
    [][\A e \in events' :
         /\ e.type # "AgentSpawned" => e.id \in DOMAIN announced
         /\ e.type = "StateChange" =>
              announced[e.id].state = e.old /\ e.new # e.old
         /\ e.type = "ContextUpdate" => announced[e.id].context # e.context]_hvars

\* The monitor shuts the daemon down only after IdleTimeout seconds through which
\* none of its ticks saw an agent or a client, and with none there at that tick.
IdleShutdownWaits ==
    [][mon = "tick" /\ mon' = "done" /\ ~shutdown =>
         /\ quiet = IdleTimeout
         /\ DOMAIN agents' = {}
         /\ Counted = {}]_hvars

\* An agent the daemon had when it decided to shut down is killed or has exited
\* by the time run returns: only an agent launched after that decision can be
\* left to the end unkilled.
OnlyLateAgentsDropped == \A p \in dropped : p > before

\* README.md:142 promises of `tam shutdown` that all agents are stopped, and the
\* auto-shutdown is meant for a daemon without agents: when run has returned, no
\* agent was left in the table.
NoAgentLeftBehind == dropped = {}

\* tam-proto/src/lib.rs:8 and daemon.rs:539 say of an agent's exit that it is an
\* event: an agent the stream shows is one the daemon still has.
ExitIsAnEvent == ~shutdown => DOMAIN announced \subseteq DOMAIN agents

=============================================================================
