------------------------------- MODULE AgentFeed -------------------------------
(***************************************************************************)
(* What the daemon promises those who listen to its events: a step tells   *)
(* all it does to the states reported and nothing else, except that agents *)
(* may be removed in silence.  Module Daemon implements it.                *)
(***************************************************************************)
EXTENDS AgentTable

VARIABLE told    \* the events of the last step

Init ==
    /\ agents = [n \in Names |-> None]
    /\ told = {}

Next ==
    \/ told' = {} /\ \E gone \in SUBSET Live : Vacate(gone)
    \/ \E n \in Names : told' = {Spawned(n)} /\ Launch(n)
    \/ \E n \in Live : told' = {Exited(n)} /\ Vacate({n})
    \/ \E gone \in SUBSET Live : \E now \in [Live \ gone -> States] :
         told' = TickTells(gone, now) /\ Tick(gone, now)

Spec == Init /\ [][Next]_<<agents, told>>
===============================================================================
