----------------------------- MODULE AgentRegistry -----------------------------
(***************************************************************************)
(* What the agent daemon promises of names and processes, without its      *)
(* connections, its monitor, its events and its lock: a name holds at most *)
(* one process, a process is held by at most one name, and a name is given *)
(* up only when its process is dead or has been handed over to be killed   *)
(* -- until the registry closes and lets go of what it still holds.        *)
(* Module Daemon implements it.                                            *)
(***************************************************************************)
EXTENDS Naturals

CONSTANTS
    Names,          \* names that can hold a process
    MaxLaunches     \* bound: processes ever launched

Processes == 1..MaxLaunches

VARIABLES
    phase,      \* "open"; "closing": it has killed what it held; "closed"
    holds,      \* the process each name in use holds
    launched,   \* the processes launched so far are 1..launched
    alive,      \* the processes that have not exited
    dying,      \* the processes handed over to be killed
    adrift      \* the processes nobody answers for any more

registry == <<phase, holds, launched, alive, dying, adrift>>

Init ==
    /\ phase = "open"
    /\ holds = [n \in {} |-> 0]
    /\ launched = 0
    /\ alive = {}
    /\ dying = {}
    /\ adrift = {}

-----------------------------------------------------------------------------
(* Names *)

Held == {holds[n] : n \in DOMAIN holds}
Keep(names) == [n \in names |-> holds[n]]

\* A process is launched for a name that is free, or its launch fails half way.
Launch(n) ==
    /\ phase # "closed"
    /\ n \notin DOMAIN holds
    /\ launched < MaxLaunches
    /\ launched' = launched + 1
    /\ alive' = alive \cup {launched'}
    /\ \/ /\ holds' = [m \in DOMAIN holds \cup {n} |-> IF m = n THEN launched' ELSE holds[m]]
          /\ UNCHANGED adrift
       \/ adrift' = adrift \cup {launched'} /\ UNCHANGED holds
    /\ UNCHANGED <<phase, dying>>

\* Names whose processes are dead become free.
Clear(names) ==
    /\ \A n \in names : holds[n] \notin alive
    /\ holds' = Keep(DOMAIN holds \ names)
    /\ UNCHANGED <<phase, launched, alive, dying, adrift>>

\* A name becomes free when its process, dead or alive, is handed over.
Kill(n) ==
    /\ holds' = Keep(DOMAIN holds \ {n})
    /\ dying' = dying \cup {holds[n]}
    /\ UNCHANGED <<phase, launched, alive, adrift>>

\* Every process alive is handed over, and every name becomes free.
KillAll ==
    /\ phase # "closed"
    /\ phase' = "closing"
    /\ holds' = Keep({})
    /\ \E given \in SUBSET Held : /\ Held \cap alive \subseteq given
                                  /\ dying' = dying \cup given
    /\ UNCHANGED <<launched, alive, adrift>>

\* What was launched after KillAll is let go.
Close ==
    /\ phase = "closing"
    /\ phase' = "closed"
    /\ holds' = Keep({})
    /\ adrift' = adrift \cup Held
    /\ UNCHANGED <<launched, alive, dying>>

-----------------------------------------------------------------------------
(* Processes *)

Die(p) ==
    /\ p \in alive
    /\ alive' = alive \ {p}
    /\ UNCHANGED <<phase, holds, launched, dying, adrift>>

\* A killing ends when the process is dead, or is given up.
KillEnds(p) ==
    /\ p \in dying
    /\ dying' = dying \ {p}
    /\ adrift' = IF p \in alive THEN adrift \cup {p} ELSE adrift
    /\ UNCHANGED <<phase, holds, launched, alive>>

Next ==
    \/ \E n \in Names : Launch(n)
    \/ \E names \in SUBSET DOMAIN holds : Clear(names)
    \/ \E n \in DOMAIN holds : Kill(n)
    \/ KillAll
    \/ Close
    \/ \E p \in Processes : Die(p) \/ KillEnds(p)

Spec == Init /\ [][Next]_registry
===============================================================================
