------------------------------- MODULE Lifecycle -------------------------------
(***************************************************************************)
(* How daemons come and go: the start and the end of Daemon::run in        *)
(* tam-daemon/src/daemon.rs, and the client of tam-cli/src/client.rs that  *)
(* starts a daemon when it finds none.  All share one socket path; nothing *)
(* but the path says whether there is a daemon.  What a daemon does while  *)
(* it serves is the module Daemon.                                         *)
(***************************************************************************)
EXTENDS Naturals

CONSTANTS
    Clients,      \* processes that use the daemon
    MaxDaemons,   \* bound: daemons ever launched
    MaxAttempts,  \* attempts to connect to a daemon just started (41)
    NoDaemon      \* nothing is at the path

ASSUME LifecycleAssumption ==
    /\ MaxDaemons \in Nat
    /\ MaxAttempts \in Nat \ {0}
    /\ NoDaemon \notin Nat

Daemons == 1..MaxDaemons

VARIABLES
    sock,     \* the daemon that bound the socket at the path, alive or not
    daemon,   \* how far each daemon is
    client,   \* how far each client is
    overlaps  \* daemons that started while another's start was under way, or by
              \* hand while another lived, and those they met

files == <<sock, daemon>>
world == <<sock, daemon, client, overlaps>>

-----------------------------------------------------------------------------
(* The types *)

Phases == {"unborn", "starting", "binding", "serving", "stopping", "gone", "failed"}

\* A client: idle or given up; refused, although some daemons listened, and
\* about to start one; waiting for it with so many attempts left; connected.
Client ==
    [at : {"idle", "failed"}]
        \cup [at : {"refused"}, there : SUBSET Daemons]
        \cup [at : {"polling"}, left : 1..MaxAttempts]
        \cup [at : {"connected"}, to : Daemons]
Idle == [at |-> "idle"]

Listening(d) == daemon[d] \in {"serving", "stopping"}
Alive(d) == daemon[d] \in {"starting", "binding", "serving", "stopping"}

LifeInit ==
    /\ sock = NoDaemon
    /\ daemon = [d \in Daemons |-> "unborn"]
    /\ client = [c \in Clients |-> Idle]
    /\ overlaps = {}

-----------------------------------------------------------------------------
(* Clients *)

\* Connecting succeeds when the daemon that bound the path still listens.
Answers == sock # NoDaemon /\ Listening(sock)
Become(c, s) == client' = [client EXCEPT ![c] = s]

\* Refused, although these listened: none of them can have been reached.
Refused == [at |-> "refused", there |-> {d \in Daemons : Listening(d)}]

\* Mutant of Connect: a daemon is started without looking for one.
ConnectBlindly(c) ==
    /\ client[c] = Idle
    /\ Become(c, Refused)
    /\ UNCHANGED <<files, overlaps>>

\* connect: the first attempt.
Connect(c) ==
    /\ client[c] = Idle
    /\ Become(c, IF Answers THEN [at |-> "connected", to |-> sock] ELSE Refused)
    /\ UNCHANGED <<files, overlaps>>

\* try_connect never starts a daemon.
TryConnect(c) ==
    /\ client[c] = Idle
    /\ Answers
    /\ Become(c, [at |-> "connected", to |-> sock])
    /\ UNCHANGED <<files, overlaps>>

\* A new daemon overlaps every other that lives, but for those that have listened
\* since before its client was refused and overlap nothing else.
Launch(there) ==
    \E d \in Daemons :
       /\ daemon[d] = "unborn" /\ \A e \in 1..d - 1 : daemon[e] # "unborn"
       /\ daemon' = [daemon EXCEPT ![d] = "starting"]
       /\ LET others == {e \in Daemons : Alive(e) /\ e \notin there \ overlaps}
          IN overlaps' = IF others = {} THEN overlaps ELSE overlaps \cup {d} \cup others

\* start_daemon.  The daemon runs in a session of its own and outlives the client.
StartDaemon(c) ==
    /\ client[c].at = "refused"
    /\ Launch(client[c].there)
    /\ Become(c, [at |-> "polling", left |-> MaxAttempts])
    /\ UNCHANGED sock

\* Every 50 ms, until the attempts are used up.
Poll(c) ==
    /\ client[c].at = "polling"
    /\ Become(c, CASE Answers -> [at |-> "connected", to |-> sock]
                   [] ~Answers /\ client[c].left > 1 -> [client[c] EXCEPT !.left = @ - 1]
                   [] OTHER -> [at |-> "failed"])
    /\ UNCHANGED <<files, overlaps>>

\* The command is over; so is that of a client whose handshake fails, because the
\* daemon stopped before it read the Hello or speaks another version.
Finish(c) ==
    /\ client[c].at \in {"connected", "failed"}
    /\ Become(c, Idle)
    /\ UNCHANGED <<files, overlaps>>

\* `tam daemon`, by hand, does not look for a daemon.
StartByHand ==
    /\ Launch({})
    /\ UNCHANGED <<sock, client>>

-----------------------------------------------------------------------------
(* Daemons *)

Advance(d, from, to) ==
    /\ daemon[d] = from
    /\ daemon' = [daemon EXCEPT ![d] = to]

\* Mutant of RemoveStale: what is at the path is left there.
LeaveStale(d) ==
    /\ Advance(d, "starting", "binding")
    /\ UNCHANGED <<sock, client, overlaps>>

\* The socket file is removed, whoever's it is.
RemoveStale(d) ==
    /\ Advance(d, "starting", "binding")
    /\ sock' = NoDaemon
    /\ UNCHANGED <<client, overlaps>>

\* bind fails when there is a file again.
Bind(d) ==
    /\ IF sock = NoDaemon THEN Advance(d, "binding", "serving") /\ sock' = d
                      ELSE Advance(d, "binding", "failed") /\ UNCHANGED sock
    /\ UNCHANGED <<client, overlaps>>

\* A shutdown, or nobody there for a while: the loop ends.
LoopEnds(d) ==
    /\ Advance(d, "serving", "stopping")
    /\ UNCHANGED <<sock, client, overlaps>>

\* The socket file is removed, whoever's it is, then the file with the process id,
\* which nothing reads, and the listener is dropped.
CleanUp(d) ==
    /\ Advance(d, "stopping", "gone")
    /\ sock' = NoDaemon
    /\ UNCHANGED <<client, overlaps>>

\* The daemon is killed or crashes, or cannot write the file with its process id:
\* the socket file stays, and nobody listens.
Crash(d) ==
    /\ Alive(d)
    /\ daemon' = [daemon EXCEPT ![d] = "gone"]
    /\ UNCHANGED <<sock, client, overlaps>>

LifeNext ==
    \/ \E c \in Clients : \/ Connect(c) \/ TryConnect(c) \/ StartDaemon(c)
                          \/ Poll(c) \/ Finish(c)
    \/ \E d \in Daemons : \/ RemoveStale(d) \/ Bind(d) \/ LoopEnds(d)
                          \/ CleanUp(d) \/ Crash(d)
    \/ StartByHand

LifeSpec == LifeInit /\ [][LifeNext]_world

-----------------------------------------------------------------------------
(* Properties *)

\* The variables have their types; the attempts left are those of Poll.
LifeTypeOK ==
    /\ sock \in Daemons \cup {NoDaemon}
    /\ daemon \in [Daemons -> Phases]
    /\ client \in [Clients -> Client]
    /\ overlaps \subseteq Daemons

\* A daemon that serves is the one clients reach: its agents are never cut off
\* from everybody.  Two starts that overlap are the exception.
ServingIsReachable ==
    \A d \in Daemons \ overlaps : daemon[d] = "serving" => sock = d

\* A daemon that is started binds the path, whatever crashed before it and left
\* its socket there.  Two starts that overlap are the exception.
StartsUnlessRaced ==
    \A d \in Daemons \ overlaps : daemon[d] # "failed"
===============================================================================
