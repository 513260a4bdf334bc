------------------------------ MODULE PtyStream ------------------------------
(***************************************************************************)
(* The output of one agent on its way to the connections attached to it:   *)
(* the terminal, the reader thread of agent.rs (pty_reader_loop), the      *)
(* scrollback ring, the broadcast channel, and the attach sessions of      *)
(* daemon.rs (the Attach branch of handle_connection, then                 *)
(* handle_attach_session).                                                 *)
(*                                                                         *)
(* The process writes the bytes 1, 2, 3, ... to its terminal: a byte is    *)
(* its own position in the output, so a byte lost or carried twice shows.  *)
(*                                                                         *)
(* The reader is a thread of its own that never takes the daemon's mutex,  *)
(* so its steps fall between the two things an attaching connection does   *)
(* under it: subscribing to the channel and copying the ring.              *)
(***************************************************************************)
EXTENDS Scrollback, FiniteSets

CONSTANTS
    Clients,            \* connections that attach
    ReadMax,            \* bytes one read of the terminal returns (4096)
    ChannelCapacity,    \* chunks the broadcast channel keeps (64)
    MaxOutput,          \* bound: bytes the process writes
    MaxAttach           \* bound: attach requests

ASSUME PtyStreamAssumption ==
    /\ IsFiniteSet(Clients)
    /\ Capacity # 0
    /\ ReadMax \in Nat \ {0}
    /\ ChannelCapacity \in Nat \ {0}
    /\ MaxOutput \in Nat
    /\ MaxAttach \in Nat

VARIABLES
    \* the process and its terminal
    written,    \* bytes the process has written
    terminal,   \* somebody holds the slave side open
    child,      \* the process that was launched has not exited
    \* the Agent and its reader thread
    agent,      \* who owns the Agent: the table, a kill task, nobody any more
    reader,     \* what the reader thread does next
    data,       \* the chunk the reader has stored and not yet sent
    consumed,   \* bytes the reader has taken off the terminal
    ring,       \* Agent.scrollback
    sent,       \* every chunk sent on Agent.output_tx
    viewers,    \* Agent.viewers
    \* the connections
    phase,      \* how far a connection is
    here,       \* the client holds its end of the connection
    next,       \* chunks its receiver has taken or skipped
    copy,       \* the scrollback its session was given
    screen,     \* bytes the daemon has written to the client
    lagged,     \* its receiver has been told Lagged
    attaches    \* attach requests so far

process == <<written, terminal, child>>
output == <<reader, data, consumed, ring, sent>>
session == <<phase, here, next, copy, screen, lagged>>
vars == <<written, terminal, child, agent, reader, data, consumed, ring, sent,
          viewers, phase, here, next, copy, screen, lagged, attaches>>

-----------------------------------------------------------------------------
(* The types *)

Bytes == 1..MaxOutput

\* The first n bytes of the output.
Output(n) == [i \in 1..n |-> i]

\* "subscribed": inside the critical section, between subscribe and the copy of
\* the ring; "copied": past it, Attached not written yet; "greeting" and
\* "forwarding": in handle_attach_session, before the scrollback and before the
\* input that came with the request are passed on; "relay": in the select;
\* "closed": over because the channel closed; "ended": over in any other way.
Phase == {"none", "subscribed", "copied", "greeting", "forwarding", "relay",
          "closed", "ended"}

TypeOK ==
    /\ written \in 0..MaxOutput
    /\ terminal \in BOOLEAN
    /\ child \in BOOLEAN
    /\ agent \in {"table", "killing", "dropped"}
    /\ reader \in {"read", "send", "done"}
    /\ data \in Seq(Bytes)
    /\ consumed \in 0..MaxOutput
    /\ ring \in Seq(Bytes)
    /\ sent \in Seq(Seq(Bytes))
    /\ viewers \in Nat
    /\ phase \in [Clients -> Phase]
    /\ here \in [Clients -> BOOLEAN]
    /\ next \in [Clients -> Nat]
    /\ copy \in [Clients -> Seq(Bytes)]
    /\ screen \in [Clients -> Seq(Bytes)]
    /\ lagged \in [Clients -> BOOLEAN]
    /\ attaches \in 0..MaxAttach

Init ==
    /\ written = 0 /\ terminal = TRUE /\ child = TRUE
    /\ agent = "table"
    /\ reader = "read" /\ data = <<>> /\ consumed = 0
    /\ ring = <<>> /\ sent = <<>> /\ viewers = 0
    /\ phase = [c \in Clients |-> "none"]
    /\ here = [c \in Clients |-> FALSE]
    /\ next = [c \in Clients |-> 0]
    /\ copy = [c \in Clients |-> <<>>]
    /\ screen = [c \in Clients |-> <<>>]
    /\ lagged = [c \in Clients |-> FALSE]
    /\ attaches = 0

-----------------------------------------------------------------------------
(* Helpers *)

\* A connection holds the daemon's mutex.
Locked == \E c \in Clients : phase[c] = "subscribed"

\* Connections inside handle_attach_session.
Sessions == {c \in Clients : phase[c] \in {"greeting", "forwarding", "relay"}}

\* Connections that hold a receiver of the channel.
Receivers == Sessions \cup {c \in Clients : phase[c] \in {"subscribed", "copied"}}

\* Mutant of SendersGone: a session keeps the sender it subscribed with.
SendersGoneButSessions == agent = "dropped" /\ reader = "done" /\ Receivers = {}

\* The Agent holds one sender of the channel, its reader thread the other.
SendersGone == agent = "dropped" /\ reader = "done"

\* The chunk a receiver wants next is no longer kept by the channel.
TooSlow(c) == Len(sent) - next[c] > ChannelCapacity

\* A connection is over: what it held is dropped.
Over(c) ==
    /\ phase' = [phase EXCEPT ![c] = "ended"]
    /\ next' = [next EXCEPT ![c] = 0]
    /\ copy' = [copy EXCEPT ![c] = <<>>]
    /\ screen' = [screen EXCEPT ![c] = <<>>]
    /\ lagged' = [lagged EXCEPT ![c] = FALSE]

\* A session moves on and nothing else about it changes.
Moves(c, to) ==
    /\ phase' = [phase EXCEPT ![c] = to]
    /\ UNCHANGED <<next, copy, lagged>>

-----------------------------------------------------------------------------
(* The process: the leader of the terminal's session.  Once it has exited, *)
(* the kernel lets nobody write to the terminal, but a child of its own    *)
(* may hold the slave side open for longer.                                *)

Write ==
    /\ child /\ terminal
    /\ written < MaxOutput
    /\ written' = written + 1
    /\ UNCHANGED <<terminal, child, agent, output, viewers, session, attaches>>

Exit ==
    /\ child
    /\ child' = FALSE
    /\ UNCHANGED <<written, terminal, agent, output, viewers, session, attaches>>

TerminalCloses ==
    /\ terminal
    /\ terminal' = FALSE
    /\ UNCHANGED <<written, child, agent, output, viewers, session, attaches>>

-----------------------------------------------------------------------------
(* The Agent *)

\* The monitor's tick and the List handler drop an agent that has exited.
Sweep ==
    /\ agent = "table" /\ ~child /\ ~Locked
    /\ agent' = "dropped"
    /\ UNCHANGED <<process, output, viewers, session, attaches>>

Kill ==
    /\ agent = "table" /\ ~Locked
    /\ agent' = "killing"
    /\ UNCHANGED <<process, output, viewers, session, attaches>>

\* Agent::kill returns when the process has exited, or when it gives up on it.
KillTaskEnds ==
    /\ agent = "killing"
    /\ agent' = "dropped"
    /\ UNCHANGED <<process, output, viewers, session, attaches>>

-----------------------------------------------------------------------------
(* The reader thread *)

ReaderStore ==
    /\ reader = "read"
    /\ \E n \in 1..ReadMax :
         /\ consumed + n <= written
         /\ LET chunk == [i \in 1..n |-> consumed + i] IN
              /\ data' = chunk
              /\ ring' = RingWrite(ring, chunk)
         /\ consumed' = consumed + n
    /\ reader' = "send"
    /\ UNCHANGED <<process, agent, sent, viewers, session, attaches>>

\* Mutant of ReaderSend: the channel holds the reader up while it is full.
ReaderSendWaits ==
    /\ reader = "send"
    /\ \A c \in Receivers : Len(sent) - next[c] < ChannelCapacity
    /\ sent' = Append(sent, data)
    /\ data' = <<>>
    /\ reader' = "read"
    /\ UNCHANGED <<process, agent, consumed, ring, viewers, session, attaches>>

ReaderSend ==
    /\ reader = "send"
    /\ sent' = Append(sent, data)
    /\ data' = <<>>
    /\ reader' = "read"
    /\ UNCHANGED <<process, agent, consumed, ring, viewers, session, attaches>>

\* Mutant of ReaderEnds: the hangup ends it, whatever is still to be read.
ReaderEndsAtHangup ==
    /\ reader = "read" /\ ~terminal
    /\ reader' = "done"
    /\ UNCHANGED <<process, agent, data, consumed, ring, sent, viewers, session,
                   attaches>>

\* A read fails only once the slave side is closed and all has been read.
ReaderEnds ==
    /\ reader = "read" /\ ~terminal /\ consumed = written
    /\ reader' = "done"
    /\ UNCHANGED <<process, agent, data, consumed, ring, sent, viewers, session,
                   attaches>>

-----------------------------------------------------------------------------
(* Attaching *)

\* The lookup, the resize (whose signal the process may answer with output) and
\* the subscription.  An agent that is not there is answered with an error.
Subscribe(c) ==
    /\ phase[c] \in {"none", "closed", "ended"}
    /\ ~Locked
    /\ attaches < MaxAttach
    /\ attaches' = attaches + 1
    /\ agent = "table"
    /\ phase' = [phase EXCEPT ![c] = "subscribed"]
    /\ here' = [here EXCEPT ![c] = TRUE]
    /\ next' = [next EXCEPT ![c] = Len(sent)]
    /\ copy' = [copy EXCEPT ![c] = <<>>]
    /\ screen' = [screen EXCEPT ![c] = <<>>]
    /\ lagged' = [lagged EXCEPT ![c] = FALSE]
    /\ UNCHANGED <<process, agent, output, viewers>>

CopyScrollback(c) ==
    /\ phase[c] = "subscribed"
    /\ phase' = [phase EXCEPT ![c] = "copied"]
    /\ copy' = [copy EXCEPT ![c] = ring]
    /\ UNCHANGED <<process, agent, output, viewers, here, next, screen, lagged,
                   attaches>>

\* Mutant of SendAttached: the session subscribes for itself when it starts.
SendAttachedThenSubscribe(c) ==
    /\ phase[c] = "copied"
    /\ here[c]
    /\ viewers' = viewers + 1
    /\ phase' = [phase EXCEPT ![c] = "greeting"]
    /\ next' = [next EXCEPT ![c] = Len(sent)]
    /\ UNCHANGED <<process, agent, output, here, copy, screen, lagged, attaches>>

\* Attached is written, and the session starts by counting itself.
SendAttached(c) ==
    /\ phase[c] = "copied"
    /\ IF here[c]
       THEN /\ viewers' = viewers + 1
            /\ Moves(c, "greeting")
            /\ UNCHANGED screen
       ELSE /\ Over(c)
            /\ UNCHANGED viewers
    /\ UNCHANGED <<process, agent, output, here, attaches>>

\* The early return for a client that has left does not count the session out.
SendScrollback(c) ==
    /\ phase[c] = "greeting"
    /\ IF here[c] \/ copy[c] = <<>>
       THEN /\ Moves(c, "forwarding")
            /\ screen' = [screen EXCEPT ![c] = copy[c]]
       ELSE Over(c)
    /\ UNCHANGED <<process, agent, output, viewers, here, attaches>>

\* Input that came with the request, if any, is written to the terminal first;
\* the early return on an error does not count the session out.
ForwardInput(c) ==
    /\ phase[c] = "forwarding"
    /\ \/ Moves(c, "relay") /\ UNCHANGED screen
       \/ ~terminal /\ Over(c)
    /\ UNCHANGED <<process, agent, output, viewers, here, attaches>>

-----------------------------------------------------------------------------
(* The relay: a select of the output and of the input task.                *)

Deliver(c) ==
    /\ phase[c] = "relay" /\ here[c]
    /\ next[c] < Len(sent) /\ ~TooSlow(c)
    /\ screen' = [screen EXCEPT ![c] = @ \o sent[next[c] + 1]]
    /\ next' = [next EXCEPT ![c] = @ + 1]
    /\ UNCHANGED <<process, agent, output, viewers, phase, here, copy, lagged,
                   attaches>>

\* Lagged is passed over: the receiver goes on with the oldest chunk kept.
SkipAhead(c) ==
    /\ phase[c] = "relay" /\ TooSlow(c)
    /\ next' = [next EXCEPT ![c] = Len(sent) - ChannelCapacity]
    /\ lagged' = [lagged EXCEPT ![c] = TRUE]
    /\ UNCHANGED <<process, agent, output, viewers, phase, here, copy, screen,
                   attaches>>

\* The channel is empty and has no sender left.
ChannelCloses(c) ==
    /\ phase[c] = "relay"
    /\ next[c] = Len(sent) /\ SendersGone
    /\ viewers' = viewers - 1
    /\ Moves(c, "closed")
    /\ UNCHANGED <<process, agent, output, here, screen, attaches>>

\* Mutant of RelayStops: each half of the session counts it out.
RelayStopsTwice(c) ==
    /\ phase[c] = "relay"
    /\ ~here[c] \/ ~terminal
    /\ viewers' = viewers - 2
    /\ Over(c)
    /\ UNCHANGED <<process, agent, output, here, attaches>>

\* The client has left, so that reading from it or writing to it fails, or it
\* has typed something and the terminal does not take it.
RelayStops(c) ==
    /\ phase[c] = "relay"
    /\ ~here[c] \/ ~terminal
    /\ viewers' = viewers - 1
    /\ Over(c)
    /\ UNCHANGED <<process, agent, output, here, attaches>>

\* The client hangs up: it detaches, or it dies.
ClientLeaves(c) ==
    /\ here[c]
    /\ here' = [here EXCEPT ![c] = FALSE]
    /\ UNCHANGED <<process, agent, output, viewers, phase, next, copy, screen,
                   lagged, attaches>>

-----------------------------------------------------------------------------
Connection(c) ==
    \/ Subscribe(c) \/ CopyScrollback(c) \/ SendAttached(c)
    \/ SendScrollback(c) \/ ForwardInput(c)
    \/ Deliver(c) \/ SkipAhead(c) \/ ChannelCloses(c) \/ RelayStops(c)

Next ==
    \/ Write \/ Exit \/ TerminalCloses
    \/ Sweep \/ Kill \/ KillTaskEnds
    \/ ReaderStore \/ ReaderSend \/ ReaderEnds
    \/ \E c \in Clients : Connection(c) \/ ClientLeaves(c)

Spec == Init /\ [][Next]_vars

\* The reader is a thread, the kill task and the monitor are scheduled, and a
\* connection that holds the mutex does not wait for anybody.  Nothing is
\* assumed of the process, of the terminal or of a client.
Fairness ==
    /\ WF_vars(ReaderStore) /\ WF_vars(ReaderSend) /\ WF_vars(ReaderEnds)
    /\ WF_vars(Sweep) /\ WF_vars(KillTaskEnds)
    /\ \A c \in Clients : WF_vars(CopyScrollback(c))

FairSpec == Spec /\ Fairness

-----------------------------------------------------------------------------
(* Properties *)

\* What the ring holds is the end of what the reader has taken off the terminal,
\* as much of it as fits: what a peek or a later attach is shown.
RingIsTail == ring = Kept(Output(consumed))

\* A client sees the output in order.  Only where the live output follows on the
\* copied scrollback may it step back (output that arrived between subscribing
\* and copying comes twice), and only a receiver that was told Lagged may miss
\* any: subscribing before copying leaves no gap, whatever the reader does.
JoinedWithoutGap ==
    \A c \in Clients : \A i \in 1..(Len(screen[c]) - 1) :
        LET this == screen[c][i]
            that == screen[c][i + 1]
        IN  /\ that > this + 1 => lagged[c]
            /\ that <= this => i = Len(copy[c])

\* A client whose session ended because the channel closed, the normal end of an
\* agent, has been sent the last byte the process wrote, even if it lagged.
ClosedAtTheEnd ==
    \A c \in Clients :
        phase[c] = "closed" /\ written > 0
            => screen[c] # <<>> /\ screen[c][Len(screen[c])] = written

\* The count shown to users never falls short of the sessions there are, so the
\* fetch_sub at the end of a session cannot wrap below zero.
ViewersCoverSessions == viewers >= Cardinality(Sessions)

\* The count shown to users is the number of sessions (agent.rs:269).
ViewersAreSessions == viewers = Cardinality(Sessions)

\* Whatever the process writes is read and handed on: no client, however slow,
\* holds it up.
OutputIsDrained == \A n \in Bytes : written >= n ~> consumed - Len(data) >= n

\* The client reads what it is sent, so that its session goes on, and the session
\* notices when the client has left.  Nobody has to type for it to end.
ClientReads(c) ==
    /\ WF_vars(SendAttached(c)) /\ WF_vars(SendScrollback(c))
    /\ WF_vars(ForwardInput(c)) /\ WF_vars(Deliver(c)) /\ WF_vars(SkipAhead(c))
    /\ WF_vars(ChannelCloses(c)) /\ WF_vars(~here[c] /\ RelayStops(c))

\* Once the process has exited and its terminal is closed, every connection
\* attached to the agent is let go, if its client reads what it is sent.
SessionsEnd ==
    \A c \in Clients :
        ClientReads(c) => (~child /\ ~terminal ~> c \notin Receivers)
=============================================================================
