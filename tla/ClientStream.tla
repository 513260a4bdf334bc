----------------------------- MODULE ClientStream ------------------------------
(***************************************************************************)
(* What a long-lived client of the daemon, the terminal interface, knows   *)
(* of the agents: the connection task of tam-daemon/src/daemon.rs that     *)
(* writes events and answers to a socket, the client of                    *)
(* tam-cli/src/client.rs that reads them, and the rows of tui/app.rs they  *)
(* are applied to.                                                         *)
(*                                                                         *)
(* Events wait in the bounded channel of the connection task; that task    *)
(* writes them and the answers to requests to the socket; the interface    *)
(* reads the socket from its loop, or inside Client::send, which sets the  *)
(* events that arrive before the answer aside.  The daemon itself is that  *)
(* of AgentTable: the state each agent was last reported in.               *)
(***************************************************************************)
EXTENDS AgentTable, Naturals, FiniteSets, Sequences, SequencesExt

CONSTANTS
    Capacity,    \* events the channel of a connection keeps (64)
    SocketMax,   \* bound: messages that fit into the socket
    MaxTransit   \* bound: what sends events begins while fewer are under way

ASSUME StreamAssumption ==
    /\ IsFiniteSet(Names)
    /\ "working" \in States
    /\ None \notin States
    /\ Capacity \in Nat \ {0}
    /\ SocketMax \in Nat \ {0}
    /\ MaxTransit \in Nat

VARIABLES
    tasks,     \* the active tasks of the ledger
    channel,   \* events sent and not yet taken by the connection task
    socket,    \* messages written and not yet read
    request,   \* the request sent and not yet answered
    pending,   \* Client.pending_events
    todo,      \* requests the action at hand has still to make
    attached,  \* attached to an agent: this connection is not read
    rows,      \* App.tasks: the state shown of each task's agent
    doubtful   \* names the stream of messages has not told the truth about

daemon == <<agents, channel>>
wire == <<socket, request>>
client == <<pending, todo, attached>>
vars == <<tasks, agents, channel, socket, request, pending, todo, attached,
          rows, doubtful>>

-----------------------------------------------------------------------------
(* The types *)

Event == [type : {"spawned", "state"}, name : Names, state : States]
            \cup [type : {"exited"}, name : Names]

Reply == [type : {"ok", "error"}]
            \cup [type : {"agents"}, agents : [Names -> States \cup {None}]]

IsReply(m) == m.type \in {"ok", "error", "agents"}
Concerns(m, n) == ~IsReply(m) /\ m.name = n

\* A request; a list carries the tasks its answer will be shown with.  An action
\* plans a request, or to reload, which loads the ledger when its turn comes.
Request == [op : {"list"}, tasks : SUBSET Names]
             \cup [op : {"spawn", "kill", "drop", "touch"}, name : Names]
Reload == [op |-> "reload"]

-----------------------------------------------------------------------------
(* The daemon: the steps of AgentTable, and what is told of them *)

\* The names of which events say all there is to know.
Turned(events) == {events[i].name : i \in {j \in DOMAIN events : events[j].type # "state"}}

\* Mutant of Enqueue: the channel keeps whatever is sent.
EnqueueUnbounded(events) ==
    /\ channel' = channel \o events
    /\ doubtful' = doubtful \ Turned(events)

\* Events are sent to the channel, which forgets the oldest when it is full.  A
\* launch or an exit tells everything about its agent; a lost event leaves what
\* the stream tells of it open, unless one of them is still to come.
Enqueue(events) ==
    LET all == channel \o events
        lost == IF Len(all) > Capacity THEN Len(all) - Capacity ELSE 0
        kept == SubSeq(all, lost + 1, Len(all))
    IN /\ channel' = kept
       /\ doubtful' = (doubtful \ Turned(events))
                         \cup ({all[i].name : i \in 1..lost} \ Turned(kept))

\* The table is iterated over in any order, for the exits first.
Orders(told) ==
    {q \in SetToSeqs(told) :
        \A i, j \in DOMAIN q : i < j /\ q[j].type = "exited" => q[i].type = "exited"}

Emit(told) == \E order \in Orders(told) : Enqueue(order)

\* Bound: what sends an event begins only while few others are under way.
Calm == Len(channel) + Len(socket) + Len(pending) < MaxTransit

\* Another client's spawn, and another client's kill.
OtherSpawn(n) ==
    /\ Calm /\ Launch(n)
    /\ Emit({Spawned(n)})
    /\ UNCHANGED <<tasks, wire, client, rows>>

OtherKill(n) ==
    /\ Calm /\ n \in Live /\ Vacate({n})
    /\ Emit({Exited(n)})
    /\ UNCHANGED <<tasks, wire, client, rows>>

\* Another client's list, or shutdown, removes agents behind this client's back.
OtherList(gone) ==
    /\ Vacate(gone)
    /\ doubtful' = doubtful \cup gone
    /\ UNCHANGED <<tasks, channel, wire, client, rows>>

Monitor(gone, now) ==
    /\ Calm /\ Tick(gone, now)
    /\ Emit(TickTells(gone, now))
    /\ UNCHANGED <<tasks, wire, client, rows>>

-----------------------------------------------------------------------------
(* The connection task: events and answers to the socket *)

Forward ==
    /\ channel # <<>> /\ Len(socket) < SocketMax
    /\ socket' = Append(socket, Head(channel))
    /\ channel' = Tail(channel)
    /\ UNCHANGED <<tasks, agents, request, client, rows, doubtful>>

Answer(answer) == socket' = Append(socket, answer)
Ok == [type |-> "ok"]
Error == [type |-> "error"]

\* An event of n is on its way to the row.
UnderWay(n) ==
    \E q \in {channel, socket, pending} : \E i \in DOMAIN q : Concerns(q[i], n)

\* A list removes the agents it finds gone and answers with the states it finds the
\* others in, which are not always the ones reported: of those, and of a name whose
\* events are still under way, it may say something else than they.
ServeList ==
    \E gone \in SUBSET Live : \E seen \in [Live \ gone -> States] :
      LET snapshot == [n \in Names |-> IF n \in Live \ gone THEN seen[n] ELSE None]
      IN /\ Vacate(gone)
         /\ Answer([type |-> "agents", agents |-> snapshot])
         /\ doubtful' = {n \in doubtful \cup gone : UnderWay(n)}
                           \cup {n \in Live \ gone : seen[n] # agents[n]}
         /\ UNCHANGED channel

\* A spawn can fail on a free name, too.
ServeSpawn(n) ==
    \/ Launch(n) /\ Emit({Spawned(n)}) /\ Answer(Ok)
    \/ Answer(Error) /\ UNCHANGED <<daemon, doubtful>>

ServeKill(n) ==
    \/ n \in Live /\ Vacate({n}) /\ Emit({Exited(n)}) /\ Answer(Ok)
    \/ n \notin Live /\ Answer(Error) /\ UNCHANGED <<daemon, doubtful>>

ServeTouch(n) ==
    /\ Answer(IF n \in Live THEN Ok ELSE Error)
    /\ UNCHANGED <<daemon, doubtful>>

\* A request is handled and answered; what it changes is sent as an event.
Serve ==
    /\ request # None /\ Len(socket) < SocketMax
    /\ request' = None
    /\ \/ request.op = "list" /\ ServeList
       \/ request.op = "spawn" /\ ServeSpawn(request.name)
       \/ request.op \in {"kill", "drop"} /\ ServeKill(request.name)
       \/ request.op = "touch" /\ ServeTouch(request.name)
    /\ UNCHANGED <<tasks, client, rows>>

-----------------------------------------------------------------------------
(* The client: requests, answers and events *)

\* Client::send has written a request and not read its answer.
Waiting == request # None \/ \E i \in DOMAIN socket : IsReply(socket[i])

\* Mutant of MaySend: a request does not wait for the answer to the last one.
MaySendAhead == todo # <<>> /\ request = None

MaySend == todo # <<>> /\ ~Waiting

\* The next request of an action is written.  build_task_list loads the ledger
\* just before it asks for the agents.
Send ==
    /\ MaySend
    /\ LET next == IF Head(todo) = Reload THEN [op |-> "list", tasks |-> tasks] ELSE Head(todo)
       IN request' = next /\ todo' = <<next>> \o Tail(todo)
    /\ UNCHANGED <<tasks, daemon, socket, pending, attached, rows, doubtful>>

\* Mutant of SetAside: inside send, events are left where they are.
SetAsideNothing == FALSE /\ UNCHANGED vars

\* Client::send sets aside an event that arrives before its answer.  Two of one
\* name will be handed out in the wrong order.
SetAside ==
    /\ todo # <<>> /\ Waiting /\ socket # <<>> /\ ~IsReply(Head(socket))
    /\ socket' = Tail(socket)
    /\ pending' = Append(pending, Head(socket))
    /\ doubtful' = IF \E i \in DOMAIN pending : pending[i].name = Head(socket).name
                   THEN doubtful \cup {Head(socket).name} ELSE doubtful
    /\ UNCHANGED <<tasks, daemon, request, todo, attached, rows>>

\* The rows made of a list: the tasks the ledger had, with the agents there are.
Rows(ns, snapshot) == [n \in ns |-> snapshot[n]]

\* The answer.  Of a list it makes the rows; of a drop, the end of the task.
Receive ==
    /\ todo # <<>> /\ socket # <<>> /\ IsReply(Head(socket))
    /\ socket' = Tail(socket)
    /\ todo' = Tail(todo)
    /\ rows' = IF Head(todo).op = "list" THEN Rows(Head(todo).tasks, Head(socket).agents)
                                         ELSE rows
    /\ tasks' = IF Head(todo).op = "drop" THEN tasks \ {Head(todo).name} ELSE tasks
    /\ UNCHANGED <<daemon, request, pending, attached, doubtful>>

\* Between two actions the loop takes what comes first.
Looping == todo = <<>> /\ ~attached

\* Mutant of Applied: an event changes only rows that show an agent.
AppliedToRunning(e) ==
    IF e.name \notin DOMAIN rows \/ rows[e.name] = None THEN rows
    ELSE [rows EXCEPT ![e.name] = IF e.type = "exited" THEN None ELSE e.state]

\* apply_event, on the row of the event's agent if there is one.
Applied(e) ==
    IF e.name \notin DOMAIN rows \/ (e.type = "state" /\ rows[e.name] = None) THEN rows
    ELSE [rows EXCEPT ![e.name] = IF e.type = "exited" THEN None ELSE e.state]

\* read_message: what was set aside comes first, the latest of it before the
\* others; then the socket.  An answer nobody waits for is dropped.
ReadMessage ==
    /\ Looping
    /\ \/ /\ pending # <<>>
          /\ rows' = Applied(Last(pending))
          /\ pending' = Front(pending)
          /\ UNCHANGED socket
       \/ /\ pending = <<>> /\ socket # <<>>
          /\ rows' = IF IsReply(Head(socket)) THEN rows ELSE Applied(Head(socket))
          /\ socket' = Tail(socket)
          /\ UNCHANGED pending
    /\ UNCHANGED <<tasks, daemon, request, todo, attached, doubtful>>

-----------------------------------------------------------------------------
(* What the interface does: TuiApp has the keys that make it do it *)

Plan(plan) == todo' = plan /\ UNCHANGED <<wire, daemon, pending, rows, doubtful>>
Ask(op, n) == [op |-> op, name |-> n]

\* stop_agent, toggle_notify and drop_task of a row that is shown, do_run of one
\* that shows no agent.
Act(n) ==
    /\ Looping /\ Calm /\ n \in DOMAIN rows
    /\ \/ rows[n] # None /\ \E op \in {"kill", "touch"} : Plan(<<Ask(op, n), Reload>>)
       \/ rows[n] = None /\ Plan(<<Ask("spawn", n), Reload>>)
       \/ Plan(<<Ask("drop", n), Reload>>)
    /\ UNCHANGED <<tasks, attached>>

\* refresh_peek, by its timer or after a move, asks for the output of an agent.
RefreshPeek(n) ==
    /\ Looping /\ Calm /\ n \in DOMAIN rows /\ rows[n] # None
    /\ Plan(<<Ask("touch", n)>>)
    /\ UNCHANGED <<tasks, attached>>

\* do_new_task: the task is in the ledger before its agent is launched.
NewTask(n) ==
    /\ Looping /\ Calm /\ n \notin tasks
    /\ tasks' = tasks \cup {n}
    /\ Plan(<<Ask("spawn", n), Reload>>)
    /\ UNCHANGED attached

\* attach_agent works over a connection of its own.
Attach ==
    /\ Looping /\ \E n \in DOMAIN rows : rows[n] # None
    /\ attached' = TRUE
    /\ UNCHANGED <<tasks, daemon, wire, pending, todo, rows, doubtful>>

Detach ==
    /\ attached
    /\ attached' = FALSE
    /\ Plan(<<Reload>>)
    /\ UNCHANGED tasks

\* Another process creates or drops a task; its event says nothing to this one.
OtherTask(n) ==
    /\ tasks' = IF n \in tasks THEN tasks \ {n} ELSE tasks \cup {n}
    /\ UNCHANGED <<daemon, wire, client, rows, doubtful>>

-----------------------------------------------------------------------------
(* The specification *)

Init ==
    /\ tasks \in SUBSET Names
    /\ agents = [n \in Names |-> None]
    /\ channel = <<>> /\ socket = <<>> /\ request = None
    /\ pending = <<>> /\ todo = <<Reload>> /\ attached = FALSE
    /\ rows = [n \in {} |-> None]
    /\ doubtful = {}

World ==
    \/ \E n \in Names : OtherSpawn(n) \/ OtherKill(n) \/ OtherTask(n)
    \/ \E gone \in SUBSET Live :
         OtherList(gone) \/ \E now \in [Live \ gone -> States] : Monitor(gone, now)

Reads == SetAside \/ Receive \/ ReadMessage

Interface ==
    \/ Send \/ Reads \/ Attach \/ Detach
    \/ \E n \in Names : Act(n) \/ RefreshPeek(n) \/ NewTask(n)

Next == World \/ Forward \/ Serve \/ Interface

\* The interface goes on with what it is doing; the connection task's select
\* picks at random among what is ready, so neither events nor requests starve.
Spec == Init /\ [][Next]_vars
             /\ WF_vars(Send) /\ WF_vars(Reads) /\ WF_vars(Forward) /\ SF_vars(Serve)

-----------------------------------------------------------------------------
(* Properties *)

\* The variables have their types; the channel and the socket keep to their size.
TypeOK ==
    /\ tasks \subseteq Names
    /\ agents \in [Names -> States \cup {None}]
    /\ channel \in Seq(Event) /\ Len(channel) <= Capacity
    /\ socket \in Seq(Event \cup Reply) /\ Len(socket) <= SocketMax
    /\ request \in Request \cup {None}
    /\ pending \in Seq(Event)
    /\ todo \in Seq(Request \cup {Reload})
    /\ attached \in BOOLEAN
    /\ DOMAIN rows \subseteq Names /\ \A n \in DOMAIN rows : rows[n] \in States \cup {None}
    /\ doubtful \subseteq Names

\* An answer is read by the action that asked for it: there is never more than
\* one under way, none while the loop reads events, and it is of the kind the
\* action expects.
AnswersMatch ==
    LET replies == {i \in DOMAIN socket : IsReply(socket[i])}
    IN /\ Cardinality(replies) + (IF request # None THEN 1 ELSE 0) <= 1
       /\ Waiting => todo # <<>>
       /\ \A i \in replies : (socket[i].type = "agents") <=> (Head(todo).op = "list")

\* When nothing is under way, each row shows the state its agent was last
\* reported in, or that there is none: of a name none of whose events were lost
\* or handed out in the wrong order, that was not listed between a change and its
\* report, and that no list removed behind the back of this client.
ViewSettles ==
    (channel = <<>> /\ socket = <<>> /\ pending = <<>> /\ todo = <<>>) =>
        \A n \in DOMAIN rows \ doubtful : rows[n] = agents[n]

\* Every action gets its answers: the interface waits for the daemon inside
\* Client::send, the daemon for room in the socket, and never both for ever.
ActionsEnd == todo # <<>> ~> todo = <<>>
===============================================================================
