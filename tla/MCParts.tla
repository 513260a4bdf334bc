-------------------------------- MODULE MCParts --------------------------------
(***************************************************************************)
(* The parts of the system that share no state with the daemon's table or  *)
(* with one another, each explored from its own initial states while the   *)
(* others stay as they are: the replay of the ledger, the coming and going *)
(* of daemons, the terminal interface, the two files of Claude, the relay  *)
(* and the pretty names.  Two clients and three daemons allow a race after *)
(* a crash.                                                                *)
(***************************************************************************)
EXTENDS LedgerReplay, Lifecycle, TuiApp, HooksFile, TrustFile, Relay, PrettyNames

CONSTANTS outer, inner

VARIABLE part  \* the part explored

-----------------------------------------------------------------------------
(* Values of the constants *)

\* Two tasks of one repository, and a filter that matches the second by its name
\* and any task that has an agent by the provider.
PartsRepo == <<1, 1>>
PartsFilters == {[names |-> {2}, provider |-> FALSE], [names |-> {}, provider |-> TRUE]}

\* A directory inside another.
PartsAbove == [d \in {outer, inner} |-> {d, outer}]

\* Directories of two parents that differ above their last component, with two
\* names that differ only in case.
PartsParents == {<<"/", "w">>, <<"/", "x", "w">>}
PartsPaths ==
    [parent : PartsParents, base : BaseNames, of : {"app", "App"}, prefixed : BOOLEAN]
      \cup [parent : PartsParents, base : BaseNames, of : {NoRepo}, prefixed : {FALSE}]
PartsLower == [n \in {"app", "App", "fix"} |-> IF n = "fix" THEN 2 ELSE 1]

-----------------------------------------------------------------------------
(* One of them at a time *)

lifeVars == <<sock, daemon, client, overlaps>>

\* How a part is while another is explored.
NoTui == /\ rows = [n \in {} |-> 0] /\ selected = 0 /\ filter = NoFilter
         /\ mode = Normal /\ action = Nothing
NoHooks == /\ settings = [h \in Hooks |-> [tam |-> 0, zinc |-> 0, user |-> 0]]
           /\ hookWriter = [w \in HookWriters |-> HookIdle]
           /\ users = [h \in Hooks |-> 0] /\ hooksRaced = FALSE
NoTrust == path = NoFile /\ TrustInit
NoRelay == output = <<>> /\ typed = <<>> /\ RelayInit
NoNames == paths = <<>> /\ depth = 0 /\ suffixes = <<>>

PartsInit ==
    /\ Init /\ LifeInit
    /\ \/ part = "tui" /\ TuiInit /\ NoHooks /\ NoTrust /\ NoRelay /\ NoNames
       \/ part = "hooks" /\ HooksInit /\ NoTui /\ NoTrust /\ NoRelay /\ NoNames
       \/ part = "trust" /\ TrustInit /\ NoTui /\ NoHooks /\ NoRelay /\ NoNames
       \/ part = "relay" /\ RelayInit /\ NoTui /\ NoHooks /\ NoTrust /\ NoNames
       \/ part = "names" /\ NamesInit /\ NoTui /\ NoHooks /\ NoTrust /\ NoRelay
       \/ part \in {"ledger", "life"} /\ NoTui /\ NoHooks /\ NoTrust /\ NoRelay /\ NoNames

PartsNext ==
    \/ /\ part = "ledger" /\ Next
       /\ UNCHANGED <<part, lifeVars, tui, hooksFile, trustFile, relay, names>>
    \/ /\ part = "life" /\ LifeNext
       /\ UNCHANGED <<part, replay, tui, hooksFile, trustFile, relay, names>>
    \/ /\ part = "tui" /\ TuiNext
       /\ UNCHANGED <<part, replay, lifeVars, hooksFile, trustFile, relay, names>>
    \/ /\ part = "hooks" /\ HooksNext
       /\ UNCHANGED <<part, replay, lifeVars, tui, trustFile, relay, names>>
    \/ /\ part = "trust" /\ TrustNext
       /\ UNCHANGED <<part, replay, lifeVars, tui, hooksFile, relay, names>>
    \/ /\ part = "relay" /\ RelayNext
       /\ UNCHANGED <<part, replay, lifeVars, tui, hooksFile, trustFile, names>>
    \/ /\ part = "names" /\ NamesNext
       /\ UNCHANGED <<part, replay, lifeVars, tui, hooksFile, trustFile, relay>>

parts == <<part, replay, lifeVars, tui, hooksFile, trustFile, relay, names>>

PartsSpec == PartsInit /\ [][PartsNext]_parts

===============================================================================
