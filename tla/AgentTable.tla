------------------------------ MODULE AgentTable -------------------------------
(***************************************************************************)
(* The daemon's agents as those know them who hear of them: the state each *)
(* was last reported in, and what each change of the table tells.  The     *)
(* state an agent is in between two reports is whatever it is found in     *)
(* when the daemon looks.  AgentFeed makes a specification of this, which  *)
(* Daemon implements; ClientStream adds a client that listens.             *)
(***************************************************************************)
CONSTANTS
    Names,       \* names an agent can have
    States,      \* states an agent can be in
    None         \* no agent has the name

VARIABLE agents  \* the state each agent was last reported in

Live == {n \in Names : agents[n] # None}

\* The events.
Spawned(n) == [type |-> "spawned", name |-> n, state |-> "working"]
Exited(n) == [type |-> "exited", name |-> n]
Changed(n, s) == [type |-> "state", name |-> n, state |-> s]

\* A launch tells Spawned(n).
Launch(n) ==
    /\ n \notin Live
    /\ agents' = [agents EXCEPT ![n] = "working"]

\* A kill tells Exited(n).  A list that finds agents gone, or a shutdown, removes
\* them and tells nothing.
Vacate(gone) == agents' = [n \in Names |-> IF n \in gone THEN None ELSE agents[n]]

\* A look of the monitor, which finds some agents gone and the others in a state,
\* tells the exits, and the states that are not the ones it reported last.
Tick(gone, now) ==
    agents' = [n \in Names |-> IF n \in Live \ gone THEN now[n] ELSE None]

TickTells(gone, now) ==
    {Exited(n) : n \in gone}
        \cup {Changed(n, now[n]) : n \in {m \in Live \ gone : now[m] # agents[m]}}
===============================================================================
