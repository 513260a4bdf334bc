-------------------------- MODULE ClientStreamProofs ---------------------------
(***************************************************************************)
(* Proofs about ClientStream: for any number of names and states, and      *)
(* channels and sockets of any size, an answer is read by the action that  *)
(* asked for it, and the rows settle to what the daemon last reported.     *)
(* The types need the first of these, too: what is made of an answer is    *)
(* well formed only because it is the answer to what was asked.            *)
(*                                                                         *)
(* The second is about sequences of events: After says what one makes of a *)
(* row, by its last launch or exit and by the last event of all.  Reading  *)
(* the events set aside, then the socket, then the channel, leads from     *)
(* the row to the truth, from whatever side the queues change.             *)
(***************************************************************************)
EXTENDS ClientStream, SequenceTheorems, FiniteSetTheorems, WellFoundedInduction, TLAPS

Message == Event \cup Reply
Plans == Request \cup {Reload}
Unanswered == \A i \in DOMAIN socket : ~IsReply(socket[i])

\* At most one answer is under way, the one that Head(todo) waits for; an attached
\* interface waits for none.
AnswerInv ==
    /\ request # None => todo # <<>> /\ Head(todo) = request /\ Unanswered
    /\ \A i, j \in DOMAIN socket : IsReply(socket[i]) /\ IsReply(socket[j]) => i = j
    /\ \A i \in DOMAIN socket :
          IsReply(socket[i]) => /\ todo # <<>>
                                /\ (socket[i].type = "agents") <=> (Head(todo).op = "list")
    /\ attached => todo = <<>>

StreamInv == TypeOK /\ AnswerInv

-----------------------------------------------------------------------------
(* Messages and sequences of them *)

LEMMA EventKinds ==
    ASSUME NEW e \in Event
    PROVE  /\ e.name \in Names
           /\ e.type \in {"spawned", "state", "exited"}
           /\ e.type # "exited" => e.state \in States
           /\ ~IsReply(e)
BY DEF Event, IsReply

LEMMA ReplyKinds ==
    ASSUME NEW m \in Message, IsReply(m)
    PROVE  m.type = "agents" => m.agents \in [Names -> States \cup {None}]
BY DEF Message, Event, Reply, IsReply

LEMMA PlanKinds ==
    ASSUME NEW r \in Plans
    PROVE  /\ r.op = "list" => r \in Request /\ r.tasks \subseteq Names
           /\ r.op \notin {"list", "reload"} => r.name \in Names
           /\ r # Reload => r \in Request /\ r.op # "reload"
BY DEF Plans, Request, Reload

\* The answers in a socket without its head, and with one message more.
LEMMA TailAnswers ==
    ASSUME NEW q \in Seq(Message), q # <<>>
    PROVE  /\ \A i \in DOMAIN Tail(q) : i + 1 \in DOMAIN q /\ Tail(q)[i] = q[i + 1]
           /\ 1 \in DOMAIN q /\ q[1] = Head(q)
<1>1. Len(q) \in Nat \ {0} /\ DOMAIN q = 1..Len(q) /\ DOMAIN Tail(q) = 1..Len(q) - 1
  BY EmptySeq, LenProperties, HeadTailProperties
<1>2. \A i \in 1..Len(q) - 1 : Tail(q)[i] = q[i + 1]
  BY HeadTailProperties
<1> QED
  BY <1>1, <1>2

LEMMA AppendAnswers ==
    ASSUME NEW q \in Seq(Message), NEW m \in Message
    PROVE  \A i \in DOMAIN Append(q, m) :
              \/ i \in DOMAIN q /\ Append(q, m)[i] = q[i]
              \/ i = Len(q) + 1 /\ i \notin DOMAIN q /\ Append(q, m)[i] = m
<1>1. Len(q) \in Nat /\ DOMAIN q = 1..Len(q) /\ DOMAIN Append(q, m) = 1..Len(q) + 1
  BY LenProperties, AppendProperties
<1>2. \A i \in 1..Len(q) : Append(q, m)[i] = q[i]
  BY AppendProperties
<1>3. Append(q, m)[Len(q) + 1] = m
  BY AppendProperties
<1> QED
  BY <1>1, <1>2, <1>3

\* What is sent is typed, whatever the channel forgets of it.
LEMMA EnqueueTyped ==
    ASSUME TypeOK, NEW events \in Seq(Event), Enqueue(events)
    PROVE  channel' \in Seq(Event) /\ Len(channel') <= Capacity /\ doubtful' \subseteq Names
<1> DEFINE all == channel \o events
           lost == IF Len(all) > Capacity THEN Len(all) - Capacity ELSE 0
           kept == SubSeq(all, lost + 1, Len(all))
<1>1. all \in Seq(Event) /\ Len(all) \in Nat
  BY ConcatProperties, LenProperties DEF TypeOK
<1>2. lost \in Nat /\ lost <= Len(all) /\ Len(all) - lost <= Capacity
  BY <1>1, StreamAssumption
<1> HIDE DEF all, lost
<1>3. \A i \in 1..Len(all) : all[i] \in Event
  BY <1>1, ElementOfSeq
<1>4. kept \in Seq(Event) /\ Len(kept) <= Capacity
  <2>1. \A i \in lost + 1..Len(all) : all[i] \in Event
    BY <1>1, <1>2, <1>3
  <2>2. kept \in Seq(Event)
        /\ Len(kept) = IF lost + 1 <= Len(all) THEN Len(all) - (lost + 1) + 1 ELSE 0
    BY <1>1, <1>2, <2>1, SubSeqProperties
  <2> QED
    BY <1>1, <1>2, <2>2, StreamAssumption
<1>5. \A i \in 1..lost : all[i].name \in Names
  BY <1>1, <1>2, <1>3, EventKinds
<1>6. channel' = kept
      /\ doubtful' = (doubtful \ Turned(events))
                        \cup ({all[i].name : i \in 1..lost} \ Turned(kept))
  BY DEF Enqueue, all, lost
<1> QED
  BY <1>4, <1>5, <1>6 DEF TypeOK

-----------------------------------------------------------------------------
(* What the daemon says *)

\* What a row can show: the state of an agent, or none.
Values == States \cup {None}

\* What a row shows that an event changes.
Shows(e) == IF e.type = "exited" THEN None ELSE e.state

\* A step says with told what it does: one event, and the truth, of each name of
\* which it changes the state reported.
Says(told) ==
    /\ agents' \in [Names -> Values]
    /\ told \subseteq Event
    /\ \A e, f \in told : e.name = f.name => e = f
    /\ \A e \in told : /\ agents'[e.name] = Shows(e)
                       /\ e.type = "state" => agents[e.name] # None
    /\ \A n \in Names : (\A e \in told : e.name # n) => agents'[n] = agents[n]

LEMMA LaunchSays ==
    ASSUME TypeOK, NEW n \in Names, Launch(n)
    PROVE  Says({Spawned(n)})
<1>1. Spawned(n) \in Event /\ Spawned(n).name = n /\ Spawned(n).type = "spawned"
      /\ Shows(Spawned(n)) = "working"
  BY StreamAssumption DEF Event, Spawned, Shows
<1>2. agents \in [Names -> Values] /\ "working" \in Values
  BY StreamAssumption DEF TypeOK, Values
<1>3. agents' = [agents EXCEPT ![n] = "working"]
  BY DEF Launch
<1> QED
  BY <1>1, <1>2, <1>3 DEF Says

LEMMA KillSays ==
    ASSUME TypeOK, NEW n \in Names, Vacate({n})
    PROVE  Says({Exited(n)})
<1>1. Exited(n) \in Event /\ Exited(n).name = n /\ Exited(n).type = "exited"
      /\ Shows(Exited(n)) = None
  BY DEF Event, Exited, Shows
<1>2. agents \in [Names -> Values] /\ None \in Values
  BY DEF TypeOK, Values
<1>3. agents' = [m \in Names |-> IF m \in {n} THEN None ELSE agents[m]]
  BY DEF Vacate
<1> QED
  BY <1>1, <1>2, <1>3 DEF Says

LEMMA TickSays ==
    ASSUME TypeOK, NEW gone \in SUBSET Live, NEW now \in [Live \ gone -> States],
           Tick(gone, now)
    PROVE  Says(TickTells(gone, now))
<1> DEFINE moved == {m \in Live \ gone : now[m] # agents[m]}
           told == TickTells(gone, now)
<1>1. /\ \A n \in gone : n \in Names /\ n \in Live
      /\ \A n \in Live : n \in Names /\ agents[n] # None
      /\ \A n \in Names \ Live : agents[n] = None
      /\ agents \in [Names -> Values]
  BY DEF Live, TypeOK, Values
<1>2. \A n \in gone : /\ Exited(n) \in Event /\ Exited(n).name = n
                      /\ Exited(n).type = "exited" /\ Shows(Exited(n)) = None
  BY <1>1 DEF Event, Exited, Shows
<1>3. \A n \in moved : LET e == Changed(n, now[n]) IN
         e \in Event /\ e.name = n /\ e.type = "state" /\ Shows(e) = now[n]
  BY <1>1 DEF Event, Changed, Shows
<1>4. \A e : e \in told <=> \/ \E n \in gone : e = Exited(n)
                            \/ \E n \in moved : e = Changed(n, now[n])
  BY DEF TickTells
<1>5. agents' = [n \in Names |-> IF n \in Live \ gone THEN now[n] ELSE None]
  BY DEF Tick
<1> HIDE DEF told
<1>6. \A e \in told : \/ e.name \in gone /\ e = Exited(e.name)
                      \/ e.name \in moved /\ e = Changed(e.name, now[e.name])
  BY <1>2, <1>3, <1>4
<1>7. told \subseteq Event /\ \A e, f \in told : e.name = f.name => e = f
  BY <1>2, <1>3, <1>6
<1>8. \A e \in told : agents'[e.name] = Shows(e) /\ (e.type = "state" => agents[e.name] # None)
  BY <1>1, <1>2, <1>3, <1>5, <1>6
<1>9. \A n \in Names : (\A e \in told : e.name # n) => agents'[n] = agents[n]
  <2> SUFFICES ASSUME NEW n \in Names, \A e \in told : e.name # n
               PROVE  agents'[n] = agents[n]
    OBVIOUS
  <2>1. n \notin gone /\ n \notin moved
    BY <1>2, <1>3, <1>4
  <2> QED
    BY <1>1, <1>5, <2>1
<1>10. agents' \in [Names -> Values]
  BY <1>5 DEF Values
<1> QED
  BY <1>7, <1>8, <1>9, <1>10 DEF Says, told

\* An order of what is said names each event once, and none else.
LEMMA OrderIs ==
    ASSUME NEW told, Says(told), NEW q \in Orders(told)
    PROVE  /\ q \in Seq(Event) /\ \A i \in DOMAIN q : q[i] \in told
           /\ \A e \in told : \E i \in DOMAIN q : q[i] = e
           /\ \A i, j \in DOMAIN q : q[i] = q[j] => i = j
<1> DEFINE k == Cardinality(told)
           who == [e \in told |-> e.name]
<1>1. IsFiniteSet(told) /\ k \in Nat
  <2>1. who \in [told -> Names]
    BY EventKinds DEF Says
  <2>2. who \in Injection(told, Names)
    BY <2>1 DEF Says, Injection, IsInjective
  <2>3. IsFiniteSet(told)
    <3> HIDE DEF who
    <3> QED
      BY <2>2, StreamAssumption, FS_Injection
  <2> QED
    BY <2>3, FS_CardinalityType
<1>2. q \in [1..k -> told] /\ \A i, j \in 1..k : i # j => q[i] # q[j]
  BY DEF Orders, SetToSeqs
<1>3. q \in Injection(1..k, told)
  BY <1>2 DEF Injection, IsInjective
<1>4. IsFiniteSet(1..k) /\ Cardinality(1..k) = k
  <2>1. 1 \in Int /\ k \in Int /\ (1 > k => k = 0) /\ k - 1 + 1 = k
    BY <1>1
  <2> QED
    BY <2>1, FS_Interval
<1>5. q \in Surjection(1..k, told)
  BY <1>1, <1>3, <1>4, FS_Injection
<1>6. \A e \in told : \E i \in 1..k : q[i] = e
  BY <1>5 DEF Surjection
<1>7. DOMAIN q = 1..k /\ q \in [1..k -> Event]
  BY <1>2 DEF Says
<1>8. q \in Seq(Event)
  BY <1>1, <1>7
<1> QED
  BY <1>2, <1>6, <1>7, <1>8

LEMMA EmitTyped ==
    ASSUME TypeOK, NEW told, Says(told), Emit(told)
    PROVE  /\ agents' \in [Names -> States \cup {None}]
           /\ channel' \in Seq(Event) /\ Len(channel') <= Capacity
           /\ doubtful' \subseteq Names
<1>1. PICK order \in Orders(told) : Enqueue(order)
  BY DEF Emit
<1>2. order \in Seq(Event)
  BY OrderIs
<1> QED
  BY <1>1, <1>2, EnqueueTyped DEF Says, Values

-----------------------------------------------------------------------------
(* The daemon's steps *)

LEMMA InitInv == Init => StreamInv
<1> SUFFICES ASSUME Init PROVE StreamInv
  OBVIOUS
<1>1. <<Reload>> \in Seq(Request \cup {Reload})
  <2>1. Reload \in Request \cup {Reload}
    OBVIOUS
  <2> QED
    BY <2>1
<1>1a. <<>> \in Seq(Event) /\ <<>> \in Seq(Event \cup Reply) /\ Len(<<>>) = 0
  BY EmptySeq
<1>2. tasks \subseteq Names /\ agents \in [Names -> States \cup {None}]
      /\ channel = <<>> /\ socket = <<>> /\ pending = <<>> /\ todo = <<Reload>>
      /\ request = None /\ attached = FALSE /\ doubtful = {}
  BY DEF Init
<1>3. DOMAIN rows = {}
  BY DEF Init
<1>4. TypeOK
  <2>1. channel \in Seq(Event) /\ Len(channel) <= Capacity
        /\ socket \in Seq(Event \cup Reply) /\ Len(socket) <= SocketMax
    BY <1>1a, <1>2, StreamAssumption
  <2>2. pending \in Seq(Event) /\ todo \in Seq(Request \cup {Reload})
    BY <1>1, <1>1a, <1>2
  <2>3. request \in Request \cup {None} /\ attached \in BOOLEAN /\ doubtful \subseteq Names
    BY <1>2
  <2> QED
    BY <1>2, <1>3, <2>1, <2>2, <2>3 DEF TypeOK
<1>5. DOMAIN socket = {}
  BY <1>2
<1>6. AnswerInv
  BY <1>2, <1>5 DEF AnswerInv
<1> QED
  BY <1>4, <1>6 DEF StreamInv

LEMMA VacateTyped ==
    ASSUME TypeOK, NEW gone, Vacate(gone)
    PROVE  agents' \in [Names -> States \cup {None}]
BY DEF Vacate, TypeOK

LEMMA WorldKeeps ==
    ASSUME StreamInv, World
    PROVE  StreamInv'
<1>0. TypeOK /\ AnswerInv
  BY DEF StreamInv
<1>1. ASSUME NEW told, Says(told), Emit(told), UNCHANGED <<tasks, wire, client, rows>>
      PROVE  StreamInv'
  <2>1. TypeOK'
    BY <1>0, <1>1, EmitTyped DEF TypeOK, wire, client
  <2> QED
    BY <1>0, <1>1, <2>1 DEF StreamInv, AnswerInv, Unanswered, wire, client
<1>2. ASSUME NEW n \in Names, OtherSpawn(n) PROVE StreamInv'
  BY <1>0, <1>1, <1>2, LaunchSays DEF OtherSpawn
<1>3. ASSUME NEW n \in Names, OtherKill(n) PROVE StreamInv'
  BY <1>0, <1>1, <1>3, KillSays DEF OtherKill
<1>4. ASSUME NEW n \in Names, OtherTask(n) PROVE StreamInv'
  BY <1>0, <1>4 DEF OtherTask, StreamInv, TypeOK, AnswerInv, Unanswered, daemon, wire, client
<1>5. ASSUME NEW gone \in SUBSET Live, OtherList(gone) PROVE StreamInv'
  <2>1. agents' \in [Names -> States \cup {None}] /\ gone \subseteq Names
    BY <1>0, <1>5, VacateTyped DEF OtherList, Live
  <2> QED
    BY <1>0, <1>5, <2>1
    DEF OtherList, StreamInv, TypeOK, AnswerInv, Unanswered, wire, client
<1>6. ASSUME NEW gone \in SUBSET Live, NEW now \in [Live \ gone -> States],
             Monitor(gone, now)
      PROVE  StreamInv'
  BY <1>0, <1>1, <1>6, TickSays DEF Monitor
<1> QED
  BY <1>2, <1>3, <1>4, <1>5, <1>6 DEF World

LEMMA ForwardKeeps ==
    ASSUME StreamInv, Forward
    PROVE  StreamInv'
<1>0. TypeOK /\ AnswerInv
  BY DEF StreamInv
<1>1. Head(channel) \in Event /\ Tail(channel) \in Seq(Event)
      /\ Len(Tail(channel)) = Len(channel) - 1 /\ Len(channel) \in Nat
  BY <1>0, HeadTailProperties, LenProperties DEF Forward, TypeOK
<1>2. socket \in Seq(Message) /\ Head(channel) \in Message /\ Len(socket) \in Nat
  BY <1>0, <1>1, LenProperties DEF TypeOK, Message
<1>3. socket' \in Seq(Message) /\ Len(socket') = Len(socket) + 1
  BY <1>2, AppendProperties DEF Forward
<1>4. \A i \in DOMAIN socket' :
         IsReply(socket'[i]) => i \in DOMAIN socket /\ socket'[i] = socket[i]
  BY <1>1, <1>2, AppendAnswers, EventKinds DEF Forward
<1>5. TypeOK'
  BY <1>0, <1>1, <1>2, <1>3, StreamAssumption DEF Forward, TypeOK, Message, client
<1>6. AnswerInv'
  BY <1>0, <1>4 DEF Forward, AnswerInv, Unanswered, client
<1> QED
  BY <1>5, <1>6 DEF StreamInv

\* What an answer is to a request.
LEMMA ServeAnswers ==
    ASSUME StreamInv, Serve
    PROVE  (\E m \in Reply : /\ socket' = Append(socket, m)
                             /\ ((m.type = "agents") <=> (request.op = "list")))
           /\ agents' \in [Names -> States \cup {None}]
           /\ channel' \in Seq(Event) /\ Len(channel') <= Capacity
           /\ doubtful' \subseteq Names
<1>0. TypeOK /\ request \in Request /\ request \in Plans
  BY DEF StreamInv, TypeOK, Serve, Plans
<1>1. CASE request.op = "list"
  <2>0. PICK gone \in SUBSET Live : \E seen \in [Live \ gone -> States] :
          LET snapshot == [n \in Names |-> IF n \in Live \ gone THEN seen[n] ELSE None]
          IN /\ Vacate(gone)
             /\ Answer([type |-> "agents", agents |-> snapshot])
             /\ doubtful' = {n \in doubtful \cup gone : UnderWay(n)}
                              \cup {n \in Live \ gone : seen[n] # agents[n]}
             /\ UNCHANGED channel
    BY <1>0, <1>1 DEF Serve, ServeList
  <2>1. PICK seen \in [Live \ gone -> States] :
          LET snapshot == [n \in Names |-> IF n \in Live \ gone THEN seen[n] ELSE None]
          IN /\ Vacate(gone)
             /\ Answer([type |-> "agents", agents |-> snapshot])
             /\ doubtful' = {n \in doubtful \cup gone : UnderWay(n)}
                              \cup {n \in Live \ gone : seen[n] # agents[n]}
             /\ UNCHANGED channel
    BY <2>0
  <2> DEFINE snapshot == [n \in Names |-> IF n \in Live \ gone THEN seen[n] ELSE None]
  <2>2. snapshot \in [Names -> States \cup {None}]
    OBVIOUS
  <2>3. [type |-> "agents", agents |-> snapshot] \in Reply
    BY <2>2 DEF Reply
  <2>4. socket' = Append(socket, [type |-> "agents", agents |-> snapshot])
    BY <2>1 DEF Answer
  <2>5. agents' \in [Names -> States \cup {None}]
    BY <1>0, <2>1, VacateTyped
  <2>6. doubtful' \subseteq Names /\ channel' = channel
    BY <1>0, <2>1 DEF TypeOK, Live
  <2> QED
    BY <1>0, <1>1, <2>3, <2>4, <2>5, <2>6 DEF TypeOK
<1>2. CASE request.op # "list"
  <2>1. request.name \in Names
    BY <1>0, <1>2, PlanKinds DEF Request
  <2>2. Ok \in Reply /\ Error \in Reply /\ Ok.type # "agents" /\ Error.type # "agents"
    BY DEF Reply, Ok, Error
  <2>3. \/ ServeSpawn(request.name) \/ ServeKill(request.name) \/ ServeTouch(request.name)
    BY <1>0, <1>2 DEF Serve, Request
  <2>4. socket' = Append(socket, Ok) \/ socket' = Append(socket, Error)
    BY <2>3 DEF ServeSpawn, ServeKill, ServeTouch, Answer
  <2>5. \E m \in Reply : socket' = Append(socket, m) /\ m.type # "agents"
    BY <2>2, <2>4
  <2>6. \/ Launch(request.name) /\ Emit({Spawned(request.name)})
        \/ Vacate({request.name}) /\ Emit({Exited(request.name)})
        \/ UNCHANGED <<daemon, doubtful>>
    BY <2>3 DEF ServeSpawn, ServeKill, ServeTouch
  <2>7. /\ agents' \in [Names -> States \cup {None}]
        /\ channel' \in Seq(Event) /\ Len(channel') <= Capacity
        /\ doubtful' \subseteq Names
    <3>1. CASE UNCHANGED <<daemon, doubtful>>
      BY <1>0, <3>1 DEF TypeOK, daemon
    <3> QED
      BY <1>0, <2>1, <2>6, <3>1, LaunchSays, KillSays, EmitTyped
  <2> QED
    BY <1>2, <2>5, <2>7
<1> QED
  BY <1>1, <1>2

LEMMA ServeKeeps ==
    ASSUME StreamInv, Serve
    PROVE  StreamInv'
<1>0. TypeOK /\ AnswerInv /\ request # None /\ request' = None
      /\ UNCHANGED <<tasks, pending, todo, attached, rows>>
  BY DEF StreamInv, Serve, client
<1>1. PICK m \in Reply : /\ socket' = Append(socket, m)
                         /\ ((m.type = "agents") <=> (request.op = "list"))
  BY ServeAnswers
<1>2. socket \in Seq(Message) /\ m \in Message /\ Len(socket) \in Nat
  BY <1>0, LenProperties DEF TypeOK, Message
<1>3. socket' \in Seq(Message) /\ Len(socket') = Len(socket) + 1 /\ Len(socket) < SocketMax
  BY <1>1, <1>2, AppendProperties DEF Serve
<1>4. TypeOK'
  BY <1>0, <1>2, <1>3, ServeAnswers, StreamAssumption DEF TypeOK, Message
<1>5. Unanswered /\ todo # <<>> /\ Head(todo) = request
  BY <1>0 DEF AnswerInv
<1>6. \A i \in DOMAIN socket' : IsReply(socket'[i]) => i = Len(socket) + 1 /\ socket'[i] = m
  BY <1>1, <1>2, <1>5, AppendAnswers DEF Unanswered
<1>7. AnswerInv'
  BY <1>0, <1>1, <1>5, <1>6 DEF AnswerInv
<1> QED
  BY <1>4, <1>7 DEF StreamInv

-----------------------------------------------------------------------------
(* The client's steps *)

\* Taking a message off the socket, but for what is made of it.
LEMMA Taken ==
    ASSUME TypeOK, socket # <<>>, socket' = Tail(socket)
    PROVE  /\ Head(socket) \in Message
           /\ ~IsReply(Head(socket)) => Head(socket) \in Event
           /\ socket' \in Seq(Event \cup Reply) /\ Len(socket') <= SocketMax
           /\ \A i \in DOMAIN socket' : i + 1 \in DOMAIN socket /\ socket'[i] = socket[i + 1]
           /\ DOMAIN socket' \subseteq Nat \ {0}
           /\ 1 \in DOMAIN socket /\ socket[1] = Head(socket)
<1>1. socket \in Seq(Message) /\ Len(socket) \in Nat /\ Len(socket) <= SocketMax
  BY LenProperties DEF TypeOK, Message
<1>2. /\ Head(socket) \in Message /\ Tail(socket) \in Seq(Message)
      /\ Len(Tail(socket)) = Len(socket) - 1
  BY <1>1, HeadTailProperties
<1>3. DOMAIN socket' = 1..Len(socket')  /\ Len(socket') \in Nat
  BY <1>2, LenProperties
<1>4. Head(socket) \in Reply => IsReply(Head(socket))
  BY DEF Reply, IsReply
<1> QED
  BY <1>1, <1>2, <1>3, <1>4, TailAnswers, StreamAssumption DEF Message

\* No answer in the rest, when there was none in the whole or the head was it.
LEMMA RestUnanswered ==
    ASSUME StreamInv, socket # <<>>, socket' = Tail(socket),
           IsReply(Head(socket)) \/ Unanswered
    PROVE  Unanswered'
<1>1. \A i, j \in DOMAIN socket : IsReply(socket[i]) /\ IsReply(socket[j]) => i = j
  BY DEF StreamInv, AnswerInv
<1>2. ASSUME NEW i \in DOMAIN socket', IsReply(socket'[i]) PROVE FALSE
  <2>1. i + 1 \in DOMAIN socket /\ socket'[i] = socket[i + 1] /\ i + 1 # 1
        /\ 1 \in DOMAIN socket /\ socket[1] = Head(socket)
    BY <1>2, Taken DEF StreamInv
  <2> QED
    BY <1>1, <1>2, <2>1 DEF Unanswered
<1> QED
  BY <1>2 DEF Unanswered

LEMMA SendKeeps ==
    ASSUME StreamInv, Send
    PROVE  StreamInv'
<1>0. TypeOK /\ AnswerInv /\ todo # <<>> /\ request = None /\ Unanswered
  BY DEF StreamInv, Send, MaySend, Waiting, Unanswered
<1> DEFINE next == IF Head(todo) = Reload THEN [op |-> "list", tasks |-> tasks]
                                          ELSE Head(todo)
<1>1. Head(todo) \in Plans /\ Tail(todo) \in Seq(Plans)
  BY <1>0, HeadTailProperties DEF TypeOK, Plans
<1>2. next \in Request
  BY <1>0, <1>1, PlanKinds DEF TypeOK, Request
<1>3. request' = next /\ todo' = <<next>> \o Tail(todo)
  BY DEF Send
<1> HIDE DEF next
<1>4. <<next>> \in Seq(Plans) /\ <<next>> # <<>> /\ Head(<<next>>) = next
  BY <1>2 DEF Plans
<1>5. todo' \in Seq(Plans) /\ todo' # <<>> /\ Head(todo') = next
  BY <1>1, <1>2, <1>3, <1>4, ConcatProperties DEF Plans
<1>6. TypeOK'
  BY <1>0, <1>2, <1>3, <1>5 DEF Send, TypeOK, Plans, daemon
<1>7. AnswerInv'
  BY <1>0, <1>3, <1>5 DEF Send, AnswerInv, Unanswered
<1> QED
  BY <1>6, <1>7 DEF StreamInv

LEMMA SetAsideKeeps ==
    ASSUME StreamInv, SetAside
    PROVE  StreamInv'
<1>0. TypeOK /\ AnswerInv /\ socket # <<>> /\ socket' = Tail(socket) /\ ~IsReply(Head(socket))
      /\ UNCHANGED <<tasks, daemon, request, todo, attached, rows>>
  BY DEF StreamInv, SetAside
<1>1. Head(socket) \in Event
  BY <1>0, Taken
<1>2. pending' \in Seq(Event) /\ doubtful' \subseteq Names
  BY <1>0, <1>1, AppendProperties, EventKinds DEF SetAside, TypeOK
<1>3. TypeOK'
  BY <1>0, <1>2, Taken DEF TypeOK, daemon
<1>4. \A i \in DOMAIN socket' : i \in Nat /\ i + 1 \in DOMAIN socket /\ socket'[i] = socket[i + 1]
  BY <1>0, Taken
<1>5. \A i, j \in DOMAIN socket' : IsReply(socket'[i]) /\ IsReply(socket'[j]) => i = j
  <2> SUFFICES ASSUME NEW i \in DOMAIN socket', NEW j \in DOMAIN socket',
                      IsReply(socket'[i]), IsReply(socket'[j])
               PROVE  i = j
    OBVIOUS
  <2>1. i + 1 = j + 1
    BY <1>0, <1>4 DEF AnswerInv
  <2> QED
    BY <1>4, <2>1
<1>6. \A i \in DOMAIN socket' :
         IsReply(socket'[i]) => /\ todo # <<>>
                                /\ (socket'[i].type = "agents") <=> (Head(todo).op = "list")
  BY <1>0, <1>4 DEF AnswerInv
<1>7. request # None => Unanswered'
  BY <1>0, RestUnanswered DEF AnswerInv
<1>8. AnswerInv'
  BY <1>0, <1>5, <1>6, <1>7 DEF AnswerInv
<1> QED
  BY <1>3, <1>8 DEF StreamInv

LEMMA ReceiveKeeps ==
    ASSUME StreamInv, Receive
    PROVE  StreamInv'
<1>0. /\ TypeOK /\ AnswerInv /\ todo # <<>>
      /\ socket # <<>> /\ socket' = Tail(socket) /\ IsReply(Head(socket))
      /\ UNCHANGED <<daemon, request, pending, attached, doubtful>>
  BY DEF StreamInv, Receive
<1>1. Head(todo) \in Plans /\ todo' \in Seq(Plans)
  BY <1>0, HeadTailProperties DEF Receive, TypeOK, Plans
<1>2. Unanswered'
  BY <1>0, RestUnanswered
<1>3. Head(socket) \in Message /\ 1 \in DOMAIN socket /\ socket[1] = Head(socket)
  BY <1>0, Taken
<1>4. request = None /\ (Head(socket).type = "agents" <=> Head(todo).op = "list")
  BY <1>0, <1>3 DEF AnswerInv, Unanswered
<1>5. DOMAIN rows' \subseteq Names /\ \A n \in DOMAIN rows' : rows'[n] \in States \cup {None}
  <2>1. CASE Head(todo).op = "list"
    <3>1. Head(todo).tasks \subseteq Names
          /\ Head(socket).agents \in [Names -> States \cup {None}]
      BY <1>0, <1>1, <1>3, <1>4, <2>1, PlanKinds, ReplyKinds
    <3> QED
      BY <2>1, <3>1 DEF Receive, Rows
  <2>2. CASE Head(todo).op # "list"
    BY <1>0, <2>2 DEF Receive, TypeOK
  <2> QED
    BY <2>1, <2>2
<1>6. tasks' \subseteq Names
  BY <1>0 DEF Receive, TypeOK
<1>7. TypeOK'
  BY <1>0, <1>1, <1>5, <1>6, Taken DEF TypeOK, Plans, daemon
<1>8. attached = FALSE
  BY <1>0 DEF AnswerInv, TypeOK
<1>9. AnswerInv'
  BY <1>0, <1>2, <1>4, <1>8 DEF AnswerInv, Unanswered
<1> QED
  BY <1>7, <1>9 DEF StreamInv

LEMMA AppliedTyped ==
    ASSUME TypeOK, NEW e \in Event
    PROVE  /\ DOMAIN Applied(e) \subseteq Names
           /\ \A n \in DOMAIN Applied(e) : Applied(e)[n] \in States \cup {None}
BY EventKinds DEF Applied, TypeOK

LEMMA ReadKeeps ==
    ASSUME StreamInv, ReadMessage
    PROVE  StreamInv'
<1>0. /\ TypeOK /\ AnswerInv /\ todo = <<>> /\ request = None /\ Unanswered
      /\ UNCHANGED <<tasks, daemon, request, todo, attached, doubtful>>
  BY DEF StreamInv, ReadMessage, Looping, AnswerInv, Unanswered
<1>1. CASE pending # <<>> /\ rows' = Applied(Last(pending)) /\ pending' = Front(pending)
           /\ UNCHANGED socket
  <2>1. pending \in Seq(Event) /\ Len(pending) \in Nat \ {0}
    BY <1>0, <1>1, EmptySeq DEF TypeOK
  <2>2. Last(pending) \in Event
    BY <2>1, ElementOfSeq DEF Last
  <2>3. \A i \in 1..Len(pending) - 1 : pending[i] \in Event
    BY <2>1, ElementOfSeq
  <2>4. pending' \in Seq(Event)
    BY <1>1, <2>1, <2>3, SubSeqProperties DEF Front
  <2>5. TypeOK'
    BY <1>0, <1>1, <2>2, <2>4, AppliedTyped DEF TypeOK, daemon
  <2> QED
    BY <1>0, <1>1, <2>5 DEF StreamInv, AnswerInv, Unanswered
<1>2. CASE /\ socket # <<>> /\ socket' = Tail(socket)
           /\ rows' = IF IsReply(Head(socket)) THEN rows ELSE Applied(Head(socket))
           /\ UNCHANGED pending
  <2>1. Unanswered'
    BY <1>0, <1>2, RestUnanswered
  <2>2. DOMAIN rows' \subseteq Names /\ \A n \in DOMAIN rows' : rows'[n] \in States \cup {None}
    BY <1>0, <1>2, Taken, AppliedTyped DEF TypeOK
  <2>3. TypeOK'
    BY <1>0, <1>2, <2>2, Taken DEF TypeOK, daemon
  <2> QED
    BY <1>0, <2>1, <2>3 DEF StreamInv, AnswerInv, Unanswered
<1> QED
  BY <1>1, <1>2 DEF ReadMessage

-----------------------------------------------------------------------------
(* What begins an action finds nothing under way *)

LEMMA PlanKeeps ==
    ASSUME StreamInv, todo = <<>>, NEW plan \in Seq(Plans), Plan(plan),
           tasks' \subseteq Names, attached' = FALSE
    PROVE  StreamInv'
<1>0. TypeOK /\ AnswerInv /\ request = None /\ Unanswered
  BY DEF StreamInv, AnswerInv, Unanswered
<1>1. TypeOK'
  BY <1>0 DEF Plan, TypeOK, Plans, wire, daemon
<1> QED
  BY <1>0, <1>1 DEF Plan, StreamInv, AnswerInv, Unanswered, wire

LEMMA InterfaceKeeps ==
    ASSUME StreamInv, Interface
    PROVE  StreamInv'
<1>0. TypeOK /\ (attached => todo = <<>>)
  BY DEF StreamInv, AnswerInv
<1>1. ASSUME NEW n \in Names, NEW op \in {"kill", "spawn", "drop", "touch"}
      PROVE  <<Ask(op, n), Reload>> \in Seq(Plans) /\ <<Ask(op, n)>> \in Seq(Plans)
  BY DEF Ask, Plans, Request
<1>2. CASE Attach
  BY <1>0, <1>2 DEF Attach, Looping, StreamInv, TypeOK, AnswerInv, Unanswered, daemon, wire
<1>3. CASE Detach
  <2>1. <<Reload>> \in Seq(Plans)
    BY DEF Plans
  <2> QED
    BY <1>0, <1>3, <2>1, PlanKeeps DEF Detach, TypeOK
<1>4. ASSUME NEW n \in Names, Act(n) PROVE StreamInv'
  <2>1. \E op \in {"kill", "spawn", "drop", "touch"} : Plan(<<Ask(op, n), Reload>>)
    BY <1>4 DEF Act
  <2> QED
    BY <1>0, <1>1, <1>4, <2>1, PlanKeeps DEF Act, Looping, TypeOK
<1>5. ASSUME NEW n \in Names, RefreshPeek(n) PROVE StreamInv'
  BY <1>0, <1>1, <1>5, PlanKeeps DEF RefreshPeek, Looping, TypeOK
<1>6. ASSUME NEW n \in Names, NewTask(n) PROVE StreamInv'
  BY <1>0, <1>1, <1>6, PlanKeeps DEF NewTask, Looping, TypeOK
<1> QED
  BY <1>2, <1>3, <1>4, <1>5, <1>6, SendKeeps, SetAsideKeeps, ReceiveKeeps, ReadKeeps
  DEF Interface, Reads

LEMMA StreamInvariant == Spec => []StreamInv
<1>1. ASSUME StreamInv, [Next]_vars PROVE StreamInv'
  <2>1. CASE UNCHANGED vars
    BY <1>1, <2>1 DEF StreamInv, TypeOK, AnswerInv, Unanswered, vars
  <2> QED
    BY <1>1, <2>1, WorldKeeps, ForwardKeeps, ServeKeeps, InterfaceKeeps DEF Next
<1> QED
  BY <1>1, InitInv, PTL DEF Spec

-----------------------------------------------------------------------------
(* What the view settles to *)

\* The events of a sequence that are about n, and those of them that tell of a
\* launch or an exit.
Told(q, n) == {i \in DOMAIN q : Concerns(q[i], n)}
Turns(q, n) == {i \in Told(q, n) : q[i].type # "state"}

Latest(S) == CHOOSE i \in S : \A j \in S : j <= i

\* What the row of n shows after a sequence of events when it shows v before: no
\* agent when the last launch or exit is an exit, and otherwise what is last told.
Base(q, n, v) == IF Turns(q, n) = {} THEN v ELSE Shows(q[Latest(Turns(q, n))])
After(q, n, v) ==
    IF Base(q, n, v) = None THEN None
    ELSE IF Told(q, n) = {} THEN v ELSE Shows(q[Latest(Told(q, n))])

\* The pairs of natural numbers of which the first is less.
Less == {pair \in Nat \X Nat : pair[1] < pair[2]}

LEMMA LessIs == \A x, y \in Nat : <<x, y>> \notin Less => y <= x
<1>1. \A x, y \in Nat : <<x, y>> \in Less <=> x < y
  BY DEF Less
<1> QED
  BY <1>1

LEMMA LessIsWellFounded == IsWellFoundedOn(Less, Nat)
BY NatLessThanWellFounded DEF OpToRel, Less

LEMMA MinimalNatural ==
    ASSUME NEW S, S \subseteq Nat, S # {}
    PROVE  \E m \in S : \A n \in S : ~(<<n, m>> \in Less)
BY LessIsWellFounded, WFMin

\* A set of natural numbers that has an element has a smallest one.
LEMMA LeastElement ==
    ASSUME NEW S, S \subseteq Nat, S # {}
    PROVE  \E m \in S : \A n \in S : m <= n
<1>1. \E m \in S : \A n \in S : ~(<<n, m>> \in Less)
  BY MinimalNatural
<1>2. \A n, m \in S : <<n, m>> \notin Less => m <= n
  BY LessIs
<1> QED
  BY <1>1, <1>2

\* The last of some places in a sequence.
LEMMA LastPlace ==
    ASSUME NEW n \in Nat, NEW S, S \subseteq 1..n, S # {}
    PROVE  \E m \in S : \A k \in S : k <= m
<1> DEFINE T == {i \in Nat : n - i \in S}
<1>1. T \subseteq Nat /\ T # {}
  <2>1. PICK k \in S : TRUE
    OBVIOUS
  <2>2. n - k \in Nat /\ n - (n - k) = k
    BY <2>1
  <2> QED
    BY <2>1, <2>2
<1>2. PICK t \in T : \A u \in T : t <= u
  BY <1>1, LeastElement
<1>3. \A k \in S : n - k \in T
  <2> SUFFICES ASSUME NEW k \in S PROVE n - k \in T
    OBVIOUS
  <2>1. n - k \in Nat /\ n - (n - k) = k
    OBVIOUS
  <2> QED
    BY <2>1
<1>4. \A k \in S : k <= n - t
  <2> SUFFICES ASSUME NEW k \in S PROVE k <= n - t
    OBVIOUS
  <2>1. t <= n - k /\ k \in 1..n /\ t \in Nat
    BY <1>2, <1>3
  <2> QED
    BY <2>1
<1> WITNESS n - t \in S
<1> QED
  BY <1>4

\* The element of a set of numbers that no other exceeds.
LEMMA LatestIs ==
    ASSUME NEW k \in Nat, NEW S, S \subseteq 1..k, S # {}
    PROVE  Latest(S) \in S /\ \A j \in S : j <= Latest(S)
<1>1. \E i \in S : \A j \in S : j <= i
  BY LastPlace
<1> QED
  BY <1>1 DEF Latest

\* The latest element is the only one that no other exceeds.
LEMMA LatestOnly ==
    ASSUME NEW k \in Nat, NEW S, S \subseteq 1..k, NEW i \in S, \A j \in S : j <= i
    PROVE  Latest(S) = i
<1>1. Latest(S) \in S /\ i <= Latest(S) /\ Latest(S) <= i
  BY LatestIs
<1>2. \A x, y \in 1..k : x <= y /\ y <= x => x = y
  OBVIOUS
<1> QED
  BY <1>1, <1>2

LEMMA ToldPlaces ==
    ASSUME NEW q \in Seq(Message), NEW n
    PROVE  /\ Len(q) \in Nat /\ DOMAIN q = 1..Len(q)
           /\ Told(q, n) \subseteq 1..Len(q) /\ Turns(q, n) \subseteq Told(q, n)
           /\ \A i \in Told(q, n) : q[i] \in Event /\ q[i].name = n
<1>1. Len(q) \in Nat /\ DOMAIN q = 1..Len(q)
  BY LenProperties
<1>2. \A i \in 1..Len(q) : q[i] \in Message
  BY ElementOfSeq
<1>3. \A m \in Message : ~IsReply(m) => m \in Event
  BY DEF Message, Reply, IsReply
<1> QED
  BY <1>1, <1>2, <1>3 DEF Told, Turns, Concerns

LEMMA ShowsIs ==
    ASSUME NEW e \in Event
    PROVE  /\ Shows(e) \in Values
           /\ Shows(e) = None <=> e.type = "exited"
BY EventKinds, StreamAssumption DEF Shows, Values

LEMMA BaseIs ==
    ASSUME NEW q \in Seq(Message), NEW n, NEW v \in Values
    PROVE  Base(q, n, v) \in Values /\ After(q, n, v) \in Values
<1>1. Turns(q, n) # {} => q[Latest(Turns(q, n))] \in Event
  BY ToldPlaces, LatestIs
<1>2. Told(q, n) # {} => q[Latest(Told(q, n))] \in Event
  BY ToldPlaces, LatestIs
<1> QED
  BY <1>1, <1>2, ShowsIs DEF Base, After, Values

\* A row shows an agent in the end unless the last launch or exit is an exit.
LEMMA AfterNone ==
    ASSUME NEW q \in Seq(Message), NEW n, NEW v \in Values
    PROVE  After(q, n, v) = None <=> Base(q, n, v) = None
<1> SUFFICES ASSUME Base(q, n, v) # None
             PROVE  After(q, n, v) # None
  BY DEF After
<1>1. CASE Told(q, n) = {}
  <2>1. Turns(q, n) = {}
    BY <1>1, ToldPlaces
  <2> QED
    BY <1>1, <2>1 DEF After, Base
<1>2. CASE Told(q, n) # {}
  <2> DEFINE l == Latest(Told(q, n))
  <2>1. l \in Told(q, n) /\ \A j \in Told(q, n) : j <= l
    BY <1>2, ToldPlaces, LatestIs
  <2>2. q[l] \in Event
    BY <2>1, ToldPlaces
  <2>3. q[l].type # "exited"
    <3> SUFFICES ASSUME q[l].type = "exited"
                 PROVE  FALSE
      OBVIOUS
    <3>1. l \in Turns(q, n) /\ \A j \in Turns(q, n) : j <= l
      BY <2>1, ToldPlaces DEF Turns
    <3>2. Latest(Turns(q, n)) = l
      <4> HIDE DEF l
      <4> QED
        BY <3>1, ToldPlaces, LatestOnly
    <3> QED
      BY <3>1, <3>2 DEF Base, Shows
  <2> QED
    BY <1>2, <2>2, <2>3, ShowsIs DEF After
<1> QED
  BY <1>1, <1>2

\* The places of a sequence put together of two.
LEMMA ToldConcat ==
    ASSUME NEW q \in Seq(Message), NEW r \in Seq(Message), NEW n
    PROVE  /\ q \o r \in Seq(Message) /\ Len(q \o r) = Len(q) + Len(r)
           /\ \A i \in 1..Len(q) : (q \o r)[i] = q[i]
           /\ \A i \in 1..Len(r) : (q \o r)[Len(q) + i] = r[i]
           /\ \A i : i \in Told(q \o r, n) <=>
                 i \in Told(q, n) \/ \E j \in Told(r, n) : i = Len(q) + j
           /\ \A i : i \in Turns(q \o r, n) <=>
                 i \in Turns(q, n) \/ \E j \in Turns(r, n) : i = Len(q) + j
<1>1. /\ q \o r \in Seq(Message) /\ Len(q \o r) = Len(q) + Len(r)
      /\ Len(q) \in Nat /\ Len(r) \in Nat
      /\ DOMAIN q = 1..Len(q) /\ DOMAIN r = 1..Len(r) /\ DOMAIN (q \o r) = 1..Len(q) + Len(r)
  BY ConcatProperties, LenProperties
<1>2. \A i \in 1..Len(q) : (q \o r)[i] = q[i]
  <2>1. \A i \in 1..Len(q) : i \in 1..Len(q) + Len(r) /\ i <= Len(q)
    BY <1>1
  <2> QED
    BY <2>1, ConcatProperties
<1>3. \A i \in 1..Len(r) : (q \o r)[Len(q) + i] = r[i]
  <2>1. \A i \in 1..Len(r) : /\ Len(q) + i \in 1..Len(q) + Len(r) /\ ~(Len(q) + i <= Len(q))
                             /\ (Len(q) + i) - Len(q) = i
    BY <1>1
  <2> QED
    BY <2>1, ConcatProperties
<1>4. \A i : i \in 1..Len(q) + Len(r) <=>
                i \in 1..Len(q) \/ \E j \in 1..Len(r) : i = Len(q) + j
  <2> TAKE i
  <2>1. ASSUME i \in 1..Len(q) + Len(r), i \notin 1..Len(q)
        PROVE  i - Len(q) \in 1..Len(r) /\ i = Len(q) + (i - Len(q))
    BY <1>1, <2>1
  <2>2. \A j \in 1..Len(r) : Len(q) + j \in 1..Len(q) + Len(r)
    BY <1>1
  <2>3. i \in 1..Len(q) => i \in 1..Len(q) + Len(r)
    BY <1>1
  <2> QED
    BY <2>1, <2>2, <2>3
<1>5. \A i : i \in Told(q \o r, n) <=>
         i \in Told(q, n) \/ \E j \in Told(r, n) : i = Len(q) + j
  BY <1>1, <1>2, <1>3, <1>4 DEF Told
<1>6. \A j \in Told(r, n) : (q \o r)[Len(q) + j] = r[j]
  BY <1>1, <1>3 DEF Told
<1>7. \A i \in Told(q, n) : (q \o r)[i] = q[i]
  BY <1>1, <1>2 DEF Told
<1>8. \A i : i \in Turns(q \o r, n) <=>
         i \in Turns(q, n) \/ \E j \in Turns(r, n) : i = Len(q) + j
  <2> TAKE i
  <2>1. i \in Turns(q \o r, n) <=> i \in Told(q \o r, n) /\ (q \o r)[i].type # "state"
    BY DEF Turns
  <2>2. i \in Turns(q, n) <=> i \in Told(q, n) /\ (q \o r)[i].type # "state"
    BY <1>7 DEF Turns
  <2>3. \A j : j \in Turns(r, n) <=>
                 j \in Told(r, n) /\ (q \o r)[Len(q) + j].type # "state"
    BY <1>6 DEF Turns
  <2> QED
    BY <1>5, <2>1, <2>2, <2>3
<1> QED
  BY <1>1, <1>2, <1>3, <1>5, <1>8

\* Places of a sequence of k and of one that follows it.
Joined(S, k, T) == S \cup {k + j : j \in T}

\* The latest of places some of which are in the second of two sequences.
LEMMA LatestConcat ==
    ASSUME NEW k \in Nat, NEW m \in Nat, NEW S, NEW T,
           S \in SUBSET (1..k), T \in SUBSET (1..m)
    PROVE  /\ T # {} => Latest(Joined(S, k, T)) = k + Latest(T)
           /\ T = {} => Joined(S, k, T) = S
           /\ Joined(S, k, T) = {} <=> S = {} /\ T = {}
<1> DEFINE U == Joined(S, k, T)
<1>0. \A i : i \in U <=> i \in S \/ \E j \in T : i = k + j
  BY DEF Joined
<1> HIDE DEF U
<1>1. ASSUME T # {}
      PROVE  Latest(U) = k + Latest(T)
  <2>1. Latest(T) \in T /\ \A j \in T : j <= Latest(T)
    BY <1>1, LatestIs
  <2> DEFINE l == Latest(T)
  <2>2. l \in 1..m /\ k + l \in U
    BY <1>0, <2>1
  <2> HIDE DEF l
  <2>3. \A i \in U : i <= k + l
    <3> SUFFICES ASSUME NEW i \in U PROVE i <= k + l
      OBVIOUS
    <3>1. CASE i \in S
      <4>1. i \in 1..k
        BY <3>1
      <4> QED
        BY <2>2, <4>1
    <3>2. CASE \E j \in T : i = k + j
      <4>1. PICK j \in T : i = k + j
        BY <3>2
      <4>2. j \in 1..m /\ j <= l
        BY <2>1 DEF l
      <4> QED
        BY <2>2, <4>1, <4>2
    <3> QED
      BY <1>0, <3>1, <3>2
  <2>4. U \subseteq 1..k + m
    <3>1. \A i \in 1..k : i \in 1..k + m
      OBVIOUS
    <3>2. \A j \in 1..m : k + j \in 1..k + m
      OBVIOUS
    <3> QED
      BY <1>0, <3>1, <3>2
  <2>5. k + m \in Nat
    OBVIOUS
  <2> QED
    BY <2>2, <2>3, <2>4, <2>5, LatestOnly DEF l
<1>2. (T = {} => U = S) /\ (U = {} <=> S = {} /\ T = {})
  BY <1>0
<1> QED
  BY <1>1, <1>2 DEF U

\* One sequence of events after another.
LEMMA AfterConcat ==
    ASSUME NEW q \in Seq(Message), NEW r \in Seq(Message), NEW n, NEW v \in Values
    PROVE  After(q \o r, n, v) = After(r, n, After(q, n, v))
<1> DEFINE w == After(q, n, v)
<1>1. /\ Len(q) \in Nat /\ Len(r) \in Nat
      /\ Told(q, n) \subseteq 1..Len(q) /\ Turns(q, n) \subseteq 1..Len(q)
      /\ Told(r, n) \subseteq 1..Len(r) /\ Turns(r, n) \subseteq 1..Len(r)
      /\ Turns(q, n) \subseteq Told(q, n) /\ Turns(r, n) \subseteq Told(r, n)
  BY ToldPlaces
<1>2. /\ Told(r, n) # {} => Latest(Told(q \o r, n)) = Len(q) + Latest(Told(r, n))
      /\ Told(r, n) = {} => Told(q \o r, n) = Told(q, n)
      /\ Told(q \o r, n) = {} <=> Told(q, n) = {} /\ Told(r, n) = {}
  <2>1. Told(q \o r, n) = Joined(Told(q, n), Len(q), Told(r, n))
    BY ToldConcat DEF Joined
  <2>2. Told(q, n) \in SUBSET (1..Len(q)) /\ Told(r, n) \in SUBSET (1..Len(r))
    BY <1>1
  <2>3. /\ Told(r, n) # {} =>
              Latest(Joined(Told(q, n), Len(q), Told(r, n))) = Len(q) + Latest(Told(r, n))
        /\ Told(r, n) = {} => Joined(Told(q, n), Len(q), Told(r, n)) = Told(q, n)
        /\ Joined(Told(q, n), Len(q), Told(r, n)) = {} <=> Told(q, n) = {} /\ Told(r, n) = {}
    BY <1>1, <2>2, LatestConcat
  <2> QED
    BY <2>1, <2>3
<1>3. /\ Turns(r, n) # {} => Latest(Turns(q \o r, n)) = Len(q) + Latest(Turns(r, n))
      /\ Turns(r, n) = {} => Turns(q \o r, n) = Turns(q, n)
      /\ Turns(q \o r, n) = {} <=> Turns(q, n) = {} /\ Turns(r, n) = {}
  <2>1. Turns(q \o r, n) = Joined(Turns(q, n), Len(q), Turns(r, n))
    BY ToldConcat DEF Joined
  <2>2. Turns(q, n) \in SUBSET (1..Len(q)) /\ Turns(r, n) \in SUBSET (1..Len(r))
    BY <1>1
  <2>3. /\ Turns(r, n) # {} =>
              Latest(Joined(Turns(q, n), Len(q), Turns(r, n))) = Len(q) + Latest(Turns(r, n))
        /\ Turns(r, n) = {} => Joined(Turns(q, n), Len(q), Turns(r, n)) = Turns(q, n)
        /\ Joined(Turns(q, n), Len(q), Turns(r, n)) = {} <=> Turns(q, n) = {} /\ Turns(r, n) = {}
    BY <1>1, <2>2, LatestConcat
  <2> QED
    BY <2>1, <2>3
<1>4. /\ Told(r, n) # {} => (q \o r)[Len(q) + Latest(Told(r, n))] = r[Latest(Told(r, n))]
      /\ Turns(r, n) # {} => (q \o r)[Len(q) + Latest(Turns(r, n))] = r[Latest(Turns(r, n))]
      /\ Told(q, n) # {} => (q \o r)[Latest(Told(q, n))] = q[Latest(Told(q, n))]
      /\ Turns(q, n) # {} => (q \o r)[Latest(Turns(q, n))] = q[Latest(Turns(q, n))]
  <2>1. Told(r, n) # {} => Latest(Told(r, n)) \in 1..Len(r)
    BY <1>1, LatestIs
  <2>2. Turns(r, n) # {} => Latest(Turns(r, n)) \in 1..Len(r)
    BY <1>1, LatestIs
  <2>3. Told(q, n) # {} => Latest(Told(q, n)) \in 1..Len(q)
    BY <1>1, LatestIs
  <2>4. Turns(q, n) # {} => Latest(Turns(q, n)) \in 1..Len(q)
    BY <1>1, LatestIs
  <2> QED
    BY <2>1, <2>2, <2>3, <2>4, ToldConcat
<1>5. Turns(r, n) # {} => /\ Base(q \o r, n, v) = Shows(r[Latest(Turns(r, n))])
                          /\ Base(r, n, w) = Shows(r[Latest(Turns(r, n))])
  BY <1>3, <1>4 DEF Base
<1>6. Turns(r, n) = {} => Base(q \o r, n, v) = Base(q, n, v) /\ Base(r, n, w) = w
  BY <1>3, <1>4 DEF Base
<1>7. w = None <=> Base(q, n, v) = None
  BY AfterNone
<1>8. Base(q \o r, n, v) = None <=> Base(r, n, w) = None
  BY <1>5, <1>6, <1>7
<1>9. CASE Base(r, n, w) = None
  BY <1>8, <1>9 DEF After
<1>10. CASE Base(r, n, w) # None /\ Told(r, n) # {}
  BY <1>2, <1>4, <1>8, <1>10 DEF After
<1>11. CASE Base(r, n, w) # None /\ Told(r, n) = {}
  <2>1. Turns(r, n) = {} /\ Base(q, n, v) # None
    BY <1>1, <1>6, <1>7, <1>11
  <2>2. After(r, n, w) = w
    BY <1>11 DEF After
  <2>3. After(q \o r, n, v) = IF Told(q, n) = {} THEN v ELSE Shows(q[Latest(Told(q, n))])
    BY <1>2, <1>4, <1>8, <1>11 DEF After
  <2> QED
    BY <2>1, <2>2, <2>3 DEF After
<1> QED
  BY <1>9, <1>10, <1>11

\* A launch or an exit among the events makes what was before it irrelevant; so does
\* any event of an agent that is there before and after.
LEMMA AfterTurns ==
    ASSUME NEW q \in Seq(Message), NEW n, NEW v \in Values, NEW w \in Values,
           Turns(q, n) # {}
    PROVE  After(q, n, v) = After(q, n, w)
<1>1. Told(q, n) # {}
  BY ToldPlaces
<1> QED
  BY <1>1 DEF After, Base

LEMMA AfterNothing ==
    ASSUME NEW q, NEW n, NEW v, Told(q, n) = {}
    PROVE  After(q, n, v) = v
BY DEF After, Base, Turns

\* Without a launch or an exit, whether there is an agent stays.
LEMMA AfterStates ==
    ASSUME NEW q \in Seq(Message), NEW n, NEW v \in Values, Turns(q, n) = {}
    PROVE  /\ After(q, n, v) = None <=> v = None
           /\ \A w \in Values : v # None /\ w # None /\ Told(q, n) # {} =>
                 After(q, n, v) = After(q, n, w)
BY AfterNone DEF After, Base

\* What events make of a row, they make of it again.
LEMMA AfterAgain ==
    ASSUME NEW q \in Seq(Message), NEW n, NEW v \in Values
    PROVE  After(q, n, After(q, n, v)) = After(q, n, v)
<1>1. After(q, n, v) \in Values
  BY BaseIs
<1>2. CASE Turns(q, n) # {}
  BY <1>1, <1>2, AfterTurns
<1>3. CASE Told(q, n) = {}
  BY <1>3, AfterNothing
<1>4. CASE Turns(q, n) = {} /\ Told(q, n) # {}
  <2>1. CASE v = None
    BY <1>1, <1>4, <2>1, AfterStates
  <2>2. CASE v # None
    BY <1>1, <1>4, <2>2, AfterStates
  <2> QED
    BY <2>1, <2>2
<1> QED
  BY <1>2, <1>3, <1>4

-----------------------------------------------------------------------------
(* One event, and sequences taken apart *)

LEMMA EventIsMessage ==
    /\ Event \subseteq Message /\ Reply \subseteq Message
    /\ \A q \in Seq(Event) : q \in Seq(Message)
    /\ \A m \in Reply : IsReply(m)
BY DEF Message, Reply, IsReply

LEMMA QueuesTyped ==
    ASSUME TypeOK
    PROVE  /\ channel \in Seq(Message) /\ socket \in Seq(Message)
           /\ pending \in Seq(Message)
BY EventIsMessage DEF TypeOK, Message

LEMMA ToldOne ==
    ASSUME NEW m \in Message, NEW n
    PROVE  /\ <<m>> \in Seq(Message)
           /\ Concerns(m, n) => Told(<<m>>, n) = {1}
           /\ ~Concerns(m, n) => Told(<<m>>, n) = {} /\ Turns(<<m>>, n) = {}
           /\ Turns(<<m>>, n) # {} <=> Concerns(m, n) /\ m.type # "state"
<1>1. <<m>> \in Seq(Message) /\ DOMAIN <<m>> = {1} /\ <<m>>[1] = m
  OBVIOUS
<1> HIDE DEF Message
<1>2. Told(<<m>>, n) = IF Concerns(m, n) THEN {1} ELSE {}
  BY <1>1 DEF Told
<1> QED
  BY <1>1, <1>2 DEF Turns

\* What one message makes of a row.
LEMMA AfterOne ==
    ASSUME NEW m \in Message, NEW n, NEW v \in Values
    PROVE  After(<<m>>, n, v) =
              IF ~Concerns(m, n) \/ (m.type = "state" /\ v = None) THEN v ELSE Shows(m)
<1>1. CASE ~Concerns(m, n)
  BY <1>1, ToldOne, AfterNothing
<1>2. CASE Concerns(m, n)
  <2>1. Told(<<m>>, n) = {1} /\ Latest({1}) = 1 /\ <<m>>[1] = m
    <3>1. Latest({1}) = 1
      BY DEF Latest
    <3> QED
      BY <1>2, <3>1, ToldOne
  <2>2. CASE m.type = "state"
    <3>1. Turns(<<m>>, n) = {}
      BY <2>2, ToldOne
    <3> QED
      BY <1>2, <2>1, <2>2, <3>1 DEF After, Base
  <2>3. CASE m.type # "state"
    <3>1. Turns(<<m>>, n) = {1}
      BY <2>1, <2>3 DEF Turns
    <3> QED
      BY <1>2, <2>1, <2>3, <3>1 DEF After, Base
  <2> QED
    BY <2>2, <2>3
<1> QED
  BY <1>1, <1>2

\* A queue with a message more.
LEMMA AfterAppend ==
    ASSUME NEW q \in Seq(Message), NEW m \in Message, NEW n
    PROVE  /\ \A v \in Values : After(Append(q, m), n, v) = After(<<m>>, n, After(q, n, v))
           /\ Turns(Append(q, m), n) # {} <=> Turns(q, n) # {} \/ Turns(<<m>>, n) # {}
<1> DEFINE r == <<m>>
<1>1. Append(q, m) = q \o r /\ r \in Seq(Message)
  BY AppendIsConcat
<1> HIDE DEF r
<1>2. \A i : i \in Turns(q \o r, n) <=>
                i \in Turns(q, n) \/ \E j \in Turns(r, n) : i = Len(q) + j
  BY <1>1, ToldConcat
<1>3. Turns(q \o r, n) # {} <=> Turns(q, n) # {} \/ Turns(r, n) # {}
  BY <1>2
<1>4. \A v \in Values : After(q \o r, n, v) = After(r, n, After(q, n, v))
  BY <1>1, AfterConcat
<1> QED
  BY <1>1, <1>3, <1>4 DEF r

\* A queue without its first message.
LEMMA AfterTail ==
    ASSUME NEW q \in Seq(Message), q # <<>>, NEW n
    PROVE  /\ Head(q) \in Message /\ Tail(q) \in Seq(Message)
           /\ \A v \in Values : After(q, n, v) = After(Tail(q), n, After(<<Head(q)>>, n, v))
           /\ Turns(q, n) # {} <=> Turns(<<Head(q)>>, n) # {} \/ Turns(Tail(q), n) # {}
<1>1. Head(q) \in Message /\ Tail(q) \in Seq(Message) /\ Len(q) \in Nat \ {0}
  BY HeadTailProperties, EmptySeq
<1>2. q = <<Head(q)>> \o Tail(q) /\ <<Head(q)>> \in Seq(Message)
  <2>1. 1 \in 1..Len(q) /\ Len(q) \in 1..Len(q)
    BY <1>1
  <2>2. SubSeq(q, 1, Len(q)) = <<q[1]>> \o SubSeq(q, 2, Len(q))
    BY <2>1, SubSeqRecursiveFirst
  <2>3. SubSeq(q, 1, Len(q)) = q /\ SubSeq(q, 2, Len(q)) = Tail(q) /\ q[1] = Head(q)
    BY SubSeqFull, TailIsSubSeq, TailAnswers
  <2> QED
    BY <1>1, <2>2, <2>3
<1> DEFINE h == <<Head(q)>>
           t == Tail(q)
<1>3. h \in Seq(Message) /\ t \in Seq(Message) /\ q = h \o t
  BY <1>1, <1>2
<1> HIDE DEF h, t
<1>4. \A v \in Values : After(h \o t, n, v) = After(t, n, After(h, n, v))
  BY <1>3, AfterConcat
<1>5. \A i : i \in Turns(h \o t, n) <=>
                i \in Turns(h, n) \/ \E j \in Turns(t, n) : i = Len(h) + j
  BY <1>3, ToldConcat
<1>6. Turns(h \o t, n) # {} <=> Turns(h, n) # {} \/ Turns(t, n) # {}
  BY <1>5
<1> QED
  BY <1>1, <1>3, <1>4, <1>6 DEF h, t

\* A queue without its last message.
LEMMA AfterFront ==
    ASSUME NEW q \in Seq(Message), q # <<>>, NEW n
    PROVE  /\ Last(q) \in Message /\ Front(q) \in Seq(Message)
           /\ \A v \in Values : After(q, n, v) = After(<<Last(q)>>, n, After(Front(q), n, v))
           /\ Told(Front(q), n) \subseteq Told(q, n) \ {Len(q)}
           /\ Concerns(Last(q), n) => Len(q) \in Told(q, n)
<1>1. Len(q) \in Nat \ {0} /\ DOMAIN q = 1..Len(q)
  BY EmptySeq, LenProperties
<1>2. Last(q) \in Message /\ Last(q) = q[Len(q)]
  BY <1>1, ElementOfSeq DEF Last
<1>3. Front(q) \in Seq(Message) /\ Len(Front(q)) = Len(q) - 1
      /\ \A i \in 1..Len(q) - 1 : Front(q)[i] = q[i]
  <2>1. \A i \in 1..Len(q) - 1 : q[i] \in Message
    BY <1>1, ElementOfSeq
  <2>2. 1 \in Int /\ Len(q) - 1 \in Int
    BY <1>1
  <2>3. /\ SubSeq(q, 1, Len(q) - 1) \in Seq(Message)
        /\ Len(SubSeq(q, 1, Len(q) - 1)) = IF 1 <= Len(q) - 1 THEN (Len(q) - 1) - 1 + 1 ELSE 0
        /\ \A i \in 1..(Len(q) - 1) - 1 + 1 : SubSeq(q, 1, Len(q) - 1)[i] = q[1 + i - 1]
    BY <2>1, <2>2, SubSeqProperties
  <2> QED
    BY <1>1, <2>3 DEF Front
<1>4. q = Append(Front(q), Last(q))
  <2>1. Append(Front(q), Last(q)) \in Seq(Message) /\ Len(Append(Front(q), Last(q))) = Len(q)
        /\ \A i \in 1..Len(q) : Append(Front(q), Last(q))[i] = q[i]
    <3>1. /\ Append(Front(q), Last(q)) \in Seq(Message)
          /\ Len(Append(Front(q), Last(q))) = Len(Front(q)) + 1
          /\ \A i \in 1..Len(Front(q)) : Append(Front(q), Last(q))[i] = Front(q)[i]
          /\ Append(Front(q), Last(q))[Len(Front(q)) + 1] = Last(q)
      BY <1>2, <1>3, AppendProperties
    <3> QED
      BY <1>1, <1>2, <1>3, <3>1
  <2> QED
    BY <2>1, SeqEqual
<1>5. DOMAIN Front(q) = 1..Len(q) - 1
  BY <1>3, LenProperties
<1>6. Told(Front(q), n) \subseteq Told(q, n) \ {Len(q)}
  <2>1. \A i \in 1..Len(q) - 1 : i \in 1..Len(q) /\ i # Len(q)
    <3>1. \A l \in Nat \ {0} : \A i \in 1..l - 1 : i \in 1..l /\ i # l
      OBVIOUS
    <3> QED
      BY <1>1, <3>1
  <2> QED
    BY <1>1, <1>3, <1>5, <2>1 DEF Told
<1>7. Concerns(Last(q), n) => Len(q) \in Told(q, n)
  BY <1>1, <1>2 DEF Told
<1>8. \A v \in Values : After(q, n, v) = After(<<Last(q)>>, n, After(Front(q), n, v))
  <2>1. \A v \in Values : After(Append(Front(q), Last(q)), n, v)
                             = After(<<Last(q)>>, n, After(Front(q), n, v))
    BY <1>2, <1>3, AfterAppend
  <2> QED
    BY <1>4, <2>1
<1> QED
  BY <1>2, <1>3, <1>6, <1>7, <1>8

-----------------------------------------------------------------------------
(* The invariant of the view *)

\* What an agent was last reported in.
Truth(n) == agents[n]

\* A row of n that shows v will show the truth when all that is under way is read.
Leads(n, v) ==
    After(channel, n, After(socket, n, After(pending, n, v))) = Truth(n)

\* Two events of n are set aside: they are handed out in the wrong order.
Several(n) == \E i, j \in Told(pending, n) : i # j

\* The rows are still to be made of a list.
Rebuilt == \E i \in DOMAIN todo : todo[i].op \in {"list", "reload"}

\* A launch or an exit in the channel comes with all that was told since.
ChannelTells(n) ==
    Turns(channel, n) # {} => \A v \in Values : After(channel, n, v) = Truth(n)

\* Of a name that is not doubtful, what is under way leads to the truth from the
\* truth itself, from a list that is still to be read and from the row there is.
NameInv(n) ==
    /\ ChannelTells(n)
    /\ Leads(n, Truth(n))
    /\ Several(n) => Turns(socket, n) # {} \/ Turns(channel, n) # {}
    /\ \A i \in DOMAIN socket : socket[i].type = "agents" => Leads(n, socket[i].agents[n])
    /\ ~Rebuilt /\ n \in DOMAIN rows => Leads(n, rows[n])

ViewInv ==
    /\ \A n \in Names \ doubtful : NameInv(n)
    /\ \A i \in DOMAIN socket : IsReply(socket[i]) => Head(todo) # Reload

LEMMA TruthTyped ==
    ASSUME TypeOK, NEW n \in Names
    PROVE  Truth(n) \in Values
BY DEF Truth, Values, TypeOK

\* Three queues one after the other lead again where they lead to.
LEMMA LeadsAgain ==
    ASSUME NEW p \in Seq(Message), NEW q \in Seq(Message), NEW r \in Seq(Message),
           NEW n, NEW v \in Values
    PROVE  LET t == After(r, n, After(q, n, After(p, n, v)))
           IN  After(r, n, After(q, n, After(p, n, t))) = t
<1> DEFINE both == p \o q
           all == both \o r
           t == After(r, n, After(q, n, After(p, n, v)))
<1>1. both \in Seq(Message) /\ all \in Seq(Message)
  BY ConcatProperties
<1>2. ASSUME NEW w \in Values
      PROVE  After(all, n, w) = After(r, n, After(q, n, After(p, n, w)))
  <2>1. After(all, n, w) = After(r, n, After(both, n, w))
    <3> HIDE DEF both
    <3> QED
      BY <1>1, AfterConcat
  <2>2. After(both, n, w) = After(q, n, After(p, n, w))
    BY AfterConcat
  <2> QED
    BY <2>1, <2>2
<1>3. t = After(all, n, v) /\ t \in Values
  BY <1>1, <1>2, BaseIs
<1> HIDE DEF all, t
<1>4. After(all, n, t) = t
  BY <1>1, <1>3, AfterAgain
<1>5. After(r, n, After(q, n, After(p, n, t))) = t
  BY <1>2, <1>3, <1>4
<1> QED
  BY <1>5 DEF t

-----------------------------------------------------------------------------
(* What is sent *)

\* The channel is parted into what it forgets and what it keeps.  A name that is not
\* doubtful then had its last launch or exit told just now and kept; or it was not
\* before, and what is forgotten of it is made up for by what is kept.
LEMMA EnqueueParts ==
    ASSUME TypeOK, NEW events \in Seq(Event), Enqueue(events)
    PROVE  \E lost \in Seq(Message) :
              /\ channel' \in Seq(Message)
              /\ channel \o events = lost \o channel'
              /\ \A n : n \notin doubtful' =>
                           /\ Turns(events, n) # {} \/ n \notin doubtful
                           /\ Turns(channel', n) # {} \/ Told(lost, n) = {}
<1> DEFINE all == channel \o events
           lost == IF Len(all) > Capacity THEN Len(all) - Capacity ELSE 0
           kept == SubSeq(all, lost + 1, Len(all))
           gone == SubSeq(all, 1, lost)
<1>1. all \in Seq(Event) /\ Len(all) \in Nat
  BY ConcatProperties, LenProperties DEF TypeOK
<1>2. lost \in Nat /\ lost <= Len(all)
  BY <1>1, StreamAssumption
<1>3. channel' = kept
      /\ doubtful' = (doubtful \ Turned(events))
                        \cup ({all[i].name : i \in 1..lost} \ Turned(kept))
  BY DEF Enqueue
<1> HIDE DEF all, lost
<1>4. \A i \in 1..Len(all) : all[i] \in Event
  BY <1>1, ElementOfSeq
<1>5. gone \in Seq(Event) /\ Len(gone) = lost /\ \A i \in 1..lost : gone[i] = all[i]
  <2>1. \A i \in 1..lost : all[i] \in Event
    BY <1>1, <1>2, <1>4
  <2>2. 1 \in Int /\ lost \in Int /\ (lost - 1) + 1 = lost
        /\ \A i \in 1..lost : (1 + i) - 1 = i
    BY <1>2
  <2>3. /\ SubSeq(all, 1, lost) \in Seq(Event)
        /\ Len(SubSeq(all, 1, lost)) = IF 1 <= lost THEN lost - 1 + 1 ELSE 0
        /\ \A i \in 1..lost - 1 + 1 : SubSeq(all, 1, lost)[i] = all[1 + i - 1]
    BY <2>1, <2>2, SubSeqProperties
  <2> QED
    BY <1>2, <2>2, <2>3
<1>6. kept \in Seq(Event)
  <2>1. \A i \in lost + 1..Len(all) : all[i] \in Event
    BY <1>1, <1>2, <1>4
  <2> QED
    BY <1>1, <1>2, <2>1, SubSeqProperties
<1>7. all = gone \o kept
  <2>1. 1 \in 1..Len(all) + 1 /\ lost \in 1 - 1..Len(all) /\ Len(all) \in lost..Len(all)
    BY <1>1, <1>2
  <2>2. gone \o kept = SubSeq(all, 1, Len(all))
    BY <1>1, <2>1, ConcatAdjacentSubSeq
  <2> QED
    BY <1>1, <2>2, SubSeqFull
<1> HIDE DEF gone, kept
<1>8. ASSUME NEW q \in Seq(Event)
      PROVE  \A n : Turns(q, n) # {} <=> n \in Turned(q)
  <2>1. \A i \in DOMAIN q : q[i] \in Event
    BY ElementOfSeq, LenProperties
  <2>2. \A i \in DOMAIN q : ~IsReply(q[i])
    BY <2>1, EventKinds
  <2> QED
    BY <2>2 DEF Turned, Turns, Told, Concerns
<1>9. \A n : Told(gone, n) # {} => n \in {all[i].name : i \in 1..lost}
  BY <1>5, LenProperties DEF Told, Concerns
<1>10. kept \in Seq(Message) /\ gone \in Seq(Message)
  BY <1>5, <1>6, EventIsMessage
<1>11. /\ \A n : Turns(kept, n) # {} <=> n \in Turned(kept)
       /\ \A n : Turns(events, n) # {} <=> n \in Turned(events)
  BY <1>6, <1>8
<1> QED
  BY <1>3, <1>7, <1>9, <1>10, <1>11 DEF all

\* What a list in the socket says of an agent.
LEMMA AgentsTyped ==
    ASSUME NEW q \in Seq(Message), NEW i \in DOMAIN q, q[i].type = "agents", NEW n \in Names
    PROVE  q[i].agents[n] \in Values
<1>1. q[i] \in Message
  BY ElementOfSeq, LenProperties
<1>2. q[i].agents \in [Names -> States \cup {None}]
  BY <1>1, ReplyKinds DEF IsReply
<1> QED
  BY <1>2 DEF Values

\* What is sent tells the truth: whatever the channel forgets of it, a launch or an
\* exit that it keeps comes with all that was told since, and what led to the truth
\* still does, of every name that is not doubtful.
LEMMA EnqueueLeads ==
    ASSUME TypeOK, NEW events \in Seq(Event), Enqueue(events), NEW n \in Names,
           n \notin doubtful => ChannelTells(n), NEW u \in Values,
           After(events, n, Truth(n)) = u, n \notin doubtful'
    PROVE  /\ Turns(channel', n) # {} => \A v \in Values : After(channel', n, v) = u
           /\ \A v \in Values :
                 (n \notin doubtful => After(channel, n, v) = Truth(n))
                    => After(channel', n, v) = u
           /\ Turns(channel', n) = {} => n \notin doubtful /\ Turns(channel, n) = {}
<1>1. PICK lost \in Seq(Message) :
              /\ channel' \in Seq(Message)
              /\ channel \o events = lost \o channel'
              /\ Turns(events, n) # {} \/ n \notin doubtful
              /\ Turns(channel', n) # {} \/ Told(lost, n) = {}
  BY EnqueueParts
<1>2. channel \in Seq(Message) /\ events \in Seq(Message) /\ Truth(n) \in Values
  BY QueuesTyped, EventIsMessage, TruthTyped
<1>3. \A v \in Values : /\ After(lost, n, v) \in Values /\ After(channel, n, v) \in Values
                         /\ After(channel', n, After(lost, n, v))
                               = After(events, n, After(channel, n, v))
  <2> TAKE v \in Values
  <2>1. After(channel \o events, n, v) = After(events, n, After(channel, n, v))
    BY <1>2, AfterConcat
  <2>2. After(lost \o channel', n, v) = After(channel', n, After(lost, n, v))
    BY <1>1, AfterConcat
  <2> QED
    BY <1>1, <1>2, <2>1, <2>2, BaseIs
<1>4. Turns(channel', n) # {} \/ Turns(lost, n) # {} <=>
         Turns(channel, n) # {} \/ Turns(events, n) # {}
  <2>1. \A i : i \in Turns(channel \o events, n) <=>
           i \in Turns(channel, n) \/ \E j \in Turns(events, n) : i = Len(channel) + j
    BY <1>2, ToldConcat
  <2>2. \A i : i \in Turns(lost \o channel', n) <=>
           i \in Turns(lost, n) \/ \E j \in Turns(channel', n) : i = Len(lost) + j
    BY <1>1, ToldConcat
  <2>3. Turns(channel \o events, n) # {} <=> Turns(channel, n) # {} \/ Turns(events, n) # {}
    BY <2>1
  <2>4. Turns(lost \o channel', n) # {} <=> Turns(lost, n) # {} \/ Turns(channel', n) # {}
    BY <2>2
  <2> QED
    BY <1>1, <2>3, <2>4
<1>5. \A v \in Values : After(channel', n, v) = After(events, n, After(channel, n, v))
  <2> TAKE v \in Values
  <2>1. CASE Turns(channel', n) # {}
    <3>1. After(channel', n, v) = After(channel', n, After(lost, n, v))
      BY <1>1, <1>3, <2>1, AfterTurns
    <3> QED
      BY <1>3, <3>1
  <2>2. CASE Told(lost, n) = {}
    <3>1. After(lost, n, v) = v
      BY <2>2, AfterNothing
    <3> QED
      BY <1>3, <3>1
  <2> QED
    BY <1>1, <2>1, <2>2
<1>6. ASSUME Turns(events, n) # {}, NEW v \in Values
      PROVE  After(channel', n, v) = u
  <2>1. After(events, n, After(channel, n, v)) = After(events, n, Truth(n))
    BY <1>2, <1>3, <1>6, AfterTurns
  <2> QED
    BY <1>5, <2>1
<1>7. ASSUME Turns(channel', n) # {}, NEW v \in Values
      PROVE  After(channel', n, v) = u
  <2>1. CASE Turns(events, n) = {}
    <3>1. Turns(channel, n) # {} /\ n \notin doubtful
      BY <1>1, <1>4, <1>7, <2>1
    <3>2. After(channel, n, v) = Truth(n)
      BY <3>1 DEF ChannelTells
    <3> QED
      BY <1>5, <3>2
  <2> QED
    BY <1>6, <2>1
<1>8. ASSUME NEW v \in Values, n \notin doubtful => After(channel, n, v) = Truth(n)
      PROVE  After(channel', n, v) = u
  BY <1>1, <1>5, <1>6, <1>8
<1>9. ASSUME Turns(channel', n) = {}
      PROVE  n \notin doubtful /\ Turns(channel, n) = {}
  <2>1. Turns(lost, n) = {}
    BY <1>1, <1>9 DEF Turns
  <2> QED
    BY <1>1, <1>4, <1>9, <2>1
<1> QED
  BY <1>7, <1>8, <1>9

\* What is said makes of the truth what it will be, in any order.
LEMMA EmitTells ==
    ASSUME TypeOK, NEW told, Says(told), Emit(told)
    PROVE  \E events \in Seq(Event) :
              /\ Enqueue(events)
              /\ \A n \in Names : After(events, n, Truth(n)) = Truth(n)'
<1>1. PICK q \in Orders(told) : Enqueue(q)
  BY DEF Emit
<1>2. /\ q \in Seq(Event) /\ q \in Seq(Message) /\ \A i \in DOMAIN q : q[i] \in told
      /\ \A e \in told : \E i \in DOMAIN q : q[i] = e
      /\ \A i, j \in DOMAIN q : q[i] = q[j] => i = j
  BY OrderIs, EventIsMessage
<1>3. \A e \in told : e \in Event /\ ~IsReply(e)
  BY EventKinds DEF Says
<1>4. ASSUME NEW n \in Names
      PROVE  After(q, n, Truth(n)) = Truth(n)'
  <2>1. CASE \A e \in told : e.name # n
    <3>1. Told(q, n) = {}
      BY <1>2, <2>1 DEF Told, Concerns
    <3>2. agents'[n] = agents[n]
      BY <2>1 DEF Says
    <3> QED
      BY <3>1, <3>2, AfterNothing DEF Truth
  <2>2. ASSUME NEW e \in told, e.name = n
        PROVE  After(q, n, Truth(n)) = Truth(n)'
    <3>1. PICK i \in DOMAIN q : q[i] = e
      BY <1>2
    <3>2. Told(q, n) = {i}
      BY <1>2, <1>3, <2>2, <3>1 DEF Told, Concerns, Says
    <3>3. Latest({i}) = i
      <4>1. i \in Nat
        BY <1>2, LenProperties
      <4> QED
        BY <4>1 DEF Latest
    <3>4. agents'[n] = Shows(e) /\ (e.type = "state" => agents[n] # None)
      BY <2>2 DEF Says
    <3>5. Shows(e) = None <=> e.type = "exited"
      BY <1>3, ShowsIs
    <3>6. CASE e.type = "state"
      <4>1. Turns(q, n) = {}
        BY <3>1, <3>2, <3>6 DEF Turns
      <4>2. Base(q, n, Truth(n)) # None
        BY <3>4, <3>6, <4>1 DEF Base, Truth
      <4> QED
        BY <3>1, <3>2, <3>3, <3>4, <4>2 DEF After, Truth
    <3>7. CASE e.type # "state"
      <4>1. Turns(q, n) = {i}
        BY <3>1, <3>2, <3>7 DEF Turns
      <4>2. Base(q, n, Truth(n)) = Shows(e)
        BY <3>1, <3>3, <4>1 DEF Base
      <4> QED
        BY <3>1, <3>2, <3>3, <3>4, <4>2 DEF After, Truth
    <3> QED
      BY <3>6, <3>7
  <2> QED
    BY <2>1, <2>2
<1> QED
  BY <1>1, <1>2, <1>4

\* A step that says what it does, and may add an answer to the socket that is no list.
LEMMA EmitView ==
    ASSUME StreamInv, ViewInv, StreamInv', NEW told, Says(told), Emit(told),
           UNCHANGED <<pending, todo, rows>>,
           \A n : \A v \in Values : After(socket', n, v) = After(socket, n, v),
           \A n : Turns(socket', n) = {} <=> Turns(socket, n) = {},
           \A i \in DOMAIN socket' : socket'[i].type = "agents" =>
                                        i \in DOMAIN socket /\ socket[i] = socket'[i],
           \A i \in DOMAIN socket' : IsReply(socket'[i]) => Head(todo) # Reload
    PROVE  ViewInv'
<1>1. TypeOK /\ TypeOK'
  BY DEF StreamInv
<1>2. PICK events \in Seq(Event) :
         /\ Enqueue(events)
         /\ \A n \in Names : After(events, n, Truth(n)) = Truth(n)'
  BY <1>1, EmitTells
<1>3. ASSUME NEW n \in Names, n \notin doubtful'
      PROVE  NameInv(n)'
  <2>0. n \notin doubtful => NameInv(n)
    BY DEF ViewInv
  <2>a. Truth(n) \in Values /\ Truth(n)' \in Values
    BY <1>1, TruthTyped DEF TypeOK, Values, Truth
  <2>b. \A v \in Values : /\ After(pending, n, v) \in Values
                           /\ After(socket, n, After(pending, n, v)) \in Values
    BY <1>1, QueuesTyped, BaseIs
  <2> DEFINE w == Truth(n)'
  <2>c. /\ Turns(channel', n) # {} => \A v \in Values : After(channel', n, v) = w
        /\ \A v \in Values : (n \notin doubtful => After(channel, n, v) = Truth(n))
                                => After(channel', n, v) = w
        /\ Turns(channel', n) = {} => n \notin doubtful /\ Turns(channel, n) = {}
    <3>1. After(events, n, Truth(n)) = w /\ w \in Values
      BY <1>2, <2>a
    <3>2. n \notin doubtful => ChannelTells(n)
      BY <2>0 DEF NameInv
    <3> HIDE DEF w
    <3> QED
      BY <1>1, <1>2, <1>3, <3>1, <3>2, EnqueueLeads
  <2>d. ChannelTells(n)'
    BY <2>c DEF ChannelTells
  <2>1. ASSUME NEW v \in Values, n \notin doubtful => Leads(n, v)
        PROVE  After(channel', n, After(socket', n, After(pending', n, v))) = Truth(n)'
    <3> DEFINE x == After(socket, n, After(pending, n, v))
    <3>1. After(socket', n, After(pending', n, v)) = x /\ x \in Values
      BY <2>b
    <3>2. n \notin doubtful => After(channel, n, x) = Truth(n)
      BY <2>1 DEF Leads
    <3> HIDE DEF x, w
    <3>3. After(channel', n, x) = w
      BY <2>c, <3>1, <3>2
    <3> QED
      BY <3>1, <3>3 DEF w
  <2>2. Leads(n, Truth(n))'
    <3> DEFINE t == Truth(n)
               u == Truth(n)'
    <3>1. n \notin doubtful => Leads(n, t)
      BY <2>0 DEF NameInv
    <3>2. t \in Values /\ u \in Values
      BY <2>a
    <3>3. channel' \in Seq(Message) /\ socket' \in Seq(Message) /\ pending' \in Seq(Message)
      BY <1>1, EventIsMessage DEF TypeOK, Message
    <3>4. After(channel', n, After(socket', n, After(pending', n, t))) = u
      BY <2>1, <3>1, <3>2
    <3>5. After(channel', n, After(socket', n, After(pending', n, u))) = u
      <4> HIDE DEF t, u
      <4> QED
        BY <3>2, <3>3, <3>4, LeadsAgain
    <3> QED
      BY <3>5 DEF Leads
  <2>3. Several(n)' => Turns(socket', n) # {} \/ Turns(channel', n) # {}
    <3>1. Several(n)' <=> Several(n)
      BY DEF Several
    <3> QED
      BY <2>0, <2>c, <3>1 DEF NameInv
  <2>4. ASSUME NEW i \in DOMAIN socket', socket'[i].type = "agents"
        PROVE  After(channel', n, After(socket', n, After(pending', n, socket'[i].agents[n])))
                  = Truth(n)'
    <3>1. i \in DOMAIN socket /\ socket[i] = socket'[i] /\ socket[i].type = "agents"
      BY <2>4
    <3>2. socket[i].agents[n] \in Values
      <4>1. socket[i] \in Message
        BY <1>1, <3>1, QueuesTyped, ElementOfSeq, LenProperties
      <4>2. socket[i].agents \in [Names -> States \cup {None}]
        BY <3>1, <4>1, ReplyKinds DEF IsReply
      <4> QED
        BY <4>2 DEF Values
    <3>3. n \notin doubtful => Leads(n, socket[i].agents[n])
      BY <2>0, <3>1 DEF NameInv
    <3>4. After(channel', n, After(socket', n, After(pending', n, socket[i].agents[n])))
             = Truth(n)'
      BY <2>1, <3>2, <3>3
    <3> QED
      BY <3>1, <3>4
  <2>5. ASSUME ~Rebuilt', n \in DOMAIN rows'
        PROVE  After(channel', n, After(socket', n, After(pending', n, rows'[n]))) = Truth(n)'
    <3>1. rows' = rows /\ todo' = todo
      OBVIOUS
    <3>2. ~Rebuilt /\ n \in DOMAIN rows
      BY <2>5, <3>1 DEF Rebuilt
    <3>3. rows[n] \in Values
      BY <1>1, <3>2 DEF TypeOK, Values
    <3>4. n \notin doubtful => Leads(n, rows[n])
      BY <2>0, <3>2 DEF NameInv
    <3>5. After(channel', n, After(socket', n, After(pending', n, rows[n]))) = Truth(n)'
      BY <2>1, <3>3, <3>4
    <3> QED
      BY <3>1, <3>5
  <2> QED
    BY <2>d, <2>2, <2>3, <2>4, <2>5 DEF NameInv, Leads
<1> QED
  BY <1>3 DEF ViewInv

-----------------------------------------------------------------------------
(* The steps of the daemon keep the invariant *)

\* Steps that leave what is under way as it leads.
LEMMA SameLeads ==
    ASSUME TypeOK, NEW n \in Names, NameInv(n), Truth(n)' = Truth(n), ChannelTells(n)',
           \A v \in Values : After(channel', n, After(socket', n, After(pending', n, v)))
                             = After(channel, n, After(socket, n, After(pending, n, v))),
           Several(n)' => Turns(socket', n) # {} \/ Turns(channel', n) # {},
           \A i \in DOMAIN socket' : socket'[i].type = "agents" =>
               socket'[i].agents[n] \in Values /\ Leads(n, socket'[i].agents[n]),
           ~Rebuilt' /\ n \in DOMAIN rows' => rows'[n] \in Values /\ Leads(n, rows'[n])
    PROVE  NameInv(n)'
<1>1. Truth(n) \in Values
  BY TruthTyped
<1>2. \A v \in Values : Leads(n, v) =>
         After(channel', n, After(socket', n, After(pending', n, v))) = Truth(n)'
  BY DEF Leads
<1>3. Leads(n, Truth(n))'
  BY <1>1, <1>2 DEF NameInv, Leads
<1>4. \A i \in DOMAIN socket' : socket'[i].type = "agents" =>
         After(channel', n, After(socket', n, After(pending', n, socket'[i].agents[n])))
            = Truth(n)'
  BY <1>2
<1>5. ~Rebuilt' /\ n \in DOMAIN rows' =>
         After(channel', n, After(socket', n, After(pending', n, rows'[n]))) = Truth(n)'
  BY <1>2
<1> QED
  BY <1>3, <1>4, <1>5 DEF NameInv, Leads

LEMMA InitView == Init => ViewInv
<1> SUFFICES ASSUME Init PROVE ViewInv
  OBVIOUS
<1>1. /\ channel = <<>> /\ socket = <<>> /\ pending = <<>> /\ todo = <<Reload>>
      /\ DOMAIN rows = {}
  BY DEF Init
<1>2. \A n, v : /\ Told(<<>>, n) = {} /\ Turns(<<>>, n) = {} /\ After(<<>>, n, v) = v
  BY DEF Told, Turns, After, Base
<1> QED
  BY <1>1, <1>2 DEF ViewInv, ChannelTells, NameInv, Leads, Several

LEMMA WorldView ==
    ASSUME StreamInv, ViewInv, StreamInv', World
    PROVE  ViewInv'
<1>1. TypeOK
  BY DEF StreamInv
<1>2. ASSUME NEW told, Says(told), Emit(told), UNCHANGED <<wire, client, rows>>
      PROVE  ViewInv'
  BY <1>2, EmitView DEF wire, client, ViewInv
<1>3. ASSUME NEW n \in Names, OtherSpawn(n) PROVE ViewInv'
  BY <1>1, <1>2, <1>3, LaunchSays DEF OtherSpawn
<1>4. ASSUME NEW n \in Names, OtherKill(n) PROVE ViewInv'
  BY <1>1, <1>2, <1>4, KillSays DEF OtherKill
<1>5. ASSUME NEW n \in Names, OtherTask(n) PROVE ViewInv'
  BY <1>5 DEF OtherTask, daemon, wire, client, ViewInv, ChannelTells, NameInv, Leads,
     Several, Truth, Rebuilt
<1>6. ASSUME NEW gone \in SUBSET Live, OtherList(gone) PROVE ViewInv'
  <2>1. \A n \in Names \ doubtful' : n \in Names \ doubtful /\ Truth(n)' = Truth(n)
    BY <1>6 DEF OtherList, Vacate, Truth
  <2> QED
    BY <1>6, <2>1 DEF OtherList, wire, client, ViewInv, ChannelTells, NameInv, Leads,
       Several, Rebuilt
<1>7. ASSUME NEW gone \in SUBSET Live, NEW now \in [Live \ gone -> States],
             Monitor(gone, now)
      PROVE  ViewInv'
  BY <1>1, <1>2, <1>7, TickSays DEF Monitor
<1> QED
  BY <1>3, <1>4, <1>5, <1>6, <1>7 DEF World

LEMMA ForwardView ==
    ASSUME StreamInv, ViewInv, Forward
    PROVE  ViewInv'
<1> DEFINE h == Head(channel)
<1>1. /\ channel \in Seq(Message) /\ socket \in Seq(Message) /\ pending \in Seq(Message)
      /\ channel # <<>> /\ h \in Event /\ h \in Message
      /\ socket' = Append(socket, h) /\ channel' = Tail(channel)
      /\ UNCHANGED <<agents, pending, todo, rows, doubtful>>
  <2>1. channel \in Seq(Event) /\ channel # <<>>
    BY DEF StreamInv, TypeOK, Forward
  <2>2. h \in Event
    BY <2>1, HeadTailProperties
  <2> QED
    BY <2>1, <2>2, QueuesTyped, EventIsMessage DEF StreamInv, Forward, client
<1>2. ASSUME NEW n \in Names
      PROVE  /\ \A v \in Values : After(channel', n, After(socket', n, v))
                                   = After(channel, n, After(socket, n, v))
             /\ \A v \in Values : /\ After(pending, n, v) \in Values
                                   /\ After(socket, n, v) \in Values
                                   /\ After(<<h>>, n, v) \in Values
             /\ Turns(channel, n) # {} <=> Turns(<<h>>, n) # {} \/ Turns(channel', n) # {}
             /\ Turns(socket', n) # {} <=> Turns(socket, n) # {} \/ Turns(<<h>>, n) # {}
             /\ channel' \in Seq(Message)
  <2>1. /\ \A v \in Values : After(channel, n, v) = After(channel', n, After(<<h>>, n, v))
        /\ Turns(channel, n) # {} <=> Turns(<<h>>, n) # {} \/ Turns(channel', n) # {}
        /\ channel' \in Seq(Message)
    BY <1>1, AfterTail
  <2>2. /\ \A v \in Values : After(socket', n, v) = After(<<h>>, n, After(socket, n, v))
        /\ Turns(socket', n) # {} <=> Turns(socket, n) # {} \/ Turns(<<h>>, n) # {}
    BY <1>1, AfterAppend
  <2>3. <<h>> \in Seq(Message)
    BY <1>1, ToldOne
  <2>4. \A v \in Values : /\ After(pending, n, v) \in Values /\ After(socket, n, v) \in Values
                           /\ After(<<h>>, n, v) \in Values
    <3> HIDE DEF h
    <3> QED
      BY <1>1, <2>3, BaseIs
  <2> QED
    BY <2>1, <2>2, <2>4
<1>3. ASSUME NEW n \in Names, ChannelTells(n)
      PROVE  ChannelTells(n)'
  <2> SUFFICES ASSUME Turns(channel', n) # {}, NEW v \in Values
               PROVE  After(channel', n, v) = Truth(n)'
    BY DEF ChannelTells
  <2>1. After(channel, n, v) = Truth(n)
    BY <1>2, <1>3 DEF ChannelTells
  <2>2. After(channel', n, v) = After(channel', n, After(<<h>>, n, v))
    <3>1. After(<<h>>, n, v) \in Values /\ channel' \in Seq(Message)
      BY <1>2
    <3> HIDE DEF h
    <3> QED
      BY <3>1, AfterTurns
  <2>3. After(channel, n, v) = After(channel', n, After(<<h>>, n, v))
    BY <1>1, AfterTail
  <2> QED
    BY <1>1, <2>1, <2>2, <2>3 DEF Truth
<1>4. \A i \in DOMAIN socket' :
         \/ i \in DOMAIN socket /\ socket'[i] = socket[i]
         \/ ~IsReply(socket'[i]) /\ socket'[i].type # "agents"
  BY <1>1, AppendAnswers, EventKinds DEF IsReply
<1>5. ASSUME NEW n \in Names \ doubtful'
      PROVE  NameInv(n)'
  <2>1. NameInv(n) /\ n \in Names /\ Truth(n)' = Truth(n)
    BY <1>1, <1>5 DEF ViewInv, Truth
  <2>2. \A v \in Values : After(channel', n, After(socket', n, After(pending', n, v)))
                           = After(channel, n, After(socket, n, After(pending, n, v)))
    BY <1>1, <1>2
  <2>3. Several(n)' => Turns(socket', n) # {} \/ Turns(channel', n) # {}
    BY <1>1, <1>2, <2>1 DEF NameInv, Several
  <2>4. \A i \in DOMAIN socket' : socket'[i].type = "agents" =>
            socket'[i].agents[n] \in Values /\ Leads(n, socket'[i].agents[n])
    BY <1>1, <1>4, <2>1, AgentsTyped DEF NameInv
  <2>5. ~Rebuilt' /\ n \in DOMAIN rows' => rows'[n] \in Values /\ Leads(n, rows'[n])
    BY <1>1, <2>1 DEF NameInv, Rebuilt, StreamInv, TypeOK, Values
  <2>6. ChannelTells(n)'
    BY <1>3, <2>1 DEF NameInv
  <2> QED
    BY <2>1, <2>2, <2>3, <2>4, <2>5, <2>6, SameLeads DEF StreamInv
<1>6. \A i \in DOMAIN socket' : IsReply(socket'[i]) => Head(todo') # Reload
  BY <1>1, <1>4 DEF ViewInv
<1> QED
  BY <1>5, <1>6 DEF ViewInv

\* A message more in the socket that is no event.
LEMMA AnswerAdds ==
    ASSUME TypeOK, NEW m \in Message, IsReply(m), NEW n
    PROVE  /\ \A v \in Values : After(Append(socket, m), n, v) = After(socket, n, v)
           /\ Turns(Append(socket, m), n) = {} <=> Turns(socket, n) = {}
<1>1. socket \in Seq(Message)
  BY QueuesTyped
<1>2. <<m>> \in Seq(Message) /\ Told(<<m>>, n) = {} /\ Turns(<<m>>, n) = {}
  BY ToldOne DEF Concerns
<1>3. \A v : After(<<m>>, n, v) = v
  BY <1>2, AfterNothing
<1> QED
  BY <1>1, <1>2, <1>3, AfterAppend

\* Of a name of which nothing is under way, a row stays as it is.
LEMMA NothingUnderWay ==
    ASSUME TypeOK, NEW n, ~UnderWay(n)
    PROVE  /\ Told(channel, n) = {} /\ Told(socket, n) = {} /\ Told(pending, n) = {}
           /\ Turns(channel, n) = {} /\ Turns(socket, n) = {} /\ Turns(pending, n) = {}
           /\ \A v : After(channel, n, v) = v /\ After(socket, n, v) = v
                     /\ After(pending, n, v) = v
<1>1. Told(channel, n) = {} /\ Told(socket, n) = {} /\ Told(pending, n) = {}
  BY DEF UnderWay, Told
<1>2. Turns(channel, n) = {} /\ Turns(socket, n) = {} /\ Turns(pending, n) = {}
  BY <1>1 DEF Turns
<1> QED
  BY <1>1, <1>2, AfterNothing

LEMMA ServeListView ==
    ASSUME StreamInv, ViewInv, ServeList, Unanswered, todo # <<>>, Head(todo) = request,
           request.op = "list", Head(todo) # Reload, UNCHANGED <<pending, todo, rows>>
    PROVE  ViewInv'
<1>0. TypeOK /\ socket \in Seq(Message)
  BY QueuesTyped DEF StreamInv
<1>1. PICK gone \in SUBSET Live : \E seen \in [Live \ gone -> States] :
        LET snapshot == [n \in Names |-> IF n \in Live \ gone THEN seen[n] ELSE None]
        IN /\ Vacate(gone)
           /\ Answer([type |-> "agents", agents |-> snapshot])
           /\ doubtful' = {n \in doubtful \cup gone : UnderWay(n)}
                            \cup {n \in Live \ gone : seen[n] # agents[n]}
           /\ UNCHANGED channel
  BY DEF ServeList
<1>2. PICK seen \in [Live \ gone -> States] :
        LET snapshot == [n \in Names |-> IF n \in Live \ gone THEN seen[n] ELSE None]
        IN /\ Vacate(gone)
           /\ Answer([type |-> "agents", agents |-> snapshot])
           /\ doubtful' = {n \in doubtful \cup gone : UnderWay(n)}
                            \cup {n \in Live \ gone : seen[n] # agents[n]}
           /\ UNCHANGED channel
  BY <1>1
<1> DEFINE snapshot == [n \in Names |-> IF n \in Live \ gone THEN seen[n] ELSE None]
           m == [type |-> "agents", agents |-> snapshot]
<1>3. m \in Message /\ IsReply(m) /\ m.agents = snapshot
  <2>1. snapshot \in [Names -> States \cup {None}]
    OBVIOUS
  <2>2. m \in Reply
    BY <2>1 DEF Reply
  <2> QED
    BY <2>2, EventIsMessage
<1>4. socket' = Append(socket, m) /\ channel' = channel
  BY <1>2 DEF Answer
<1>5. \A n \in Names : agents'[n] = IF n \in gone THEN None ELSE agents[n]
  BY <1>2 DEF Vacate
<1>6. \A n \in Names \ doubtful' : snapshot[n] = Truth(n)'
  <2> SUFFICES ASSUME NEW n \in Names \ doubtful' PROVE snapshot[n] = Truth(n)'
    OBVIOUS
  <2>1. CASE n \in Live \ gone
    <3>1. seen[n] = agents[n] /\ n \notin gone
      BY <1>2, <2>1
    <3> QED
      BY <1>5, <2>1, <3>1 DEF Truth
  <2>2. CASE n \notin Live \ gone
    <3>1. n \in gone \/ agents[n] = None
      BY <2>2 DEF Live
    <3> QED
      BY <1>5, <2>2, <3>1 DEF Truth
  <2> QED
    BY <2>1, <2>2
<1> HIDE DEF m, snapshot
<1>7. \A i \in DOMAIN socket' : \/ socket'[i] = m
                                \/ i \in DOMAIN socket /\ socket'[i] = socket[i]
  BY <1>0, <1>3, <1>4, AppendAnswers
<1>8. \A i \in DOMAIN socket' : socket'[i].type = "agents" => socket'[i] = m
  BY <1>7 DEF Unanswered, IsReply
<1>9. Rebuilt'
  <2>1. todo \in Seq(Plans)
    BY <1>0 DEF TypeOK, Plans
  <2>2. 1 \in DOMAIN todo /\ todo[1] = Head(todo)
    BY <2>1, EmptySeq, LenProperties, HeadTailProperties
  <2> QED
    BY <2>2 DEF Rebuilt
<1>10. ASSUME NEW n \in Names \ doubtful'
       PROVE  NameInv(n)'
  <2>1. Truth(n) \in Values /\ n \in Names
    BY <1>0, TruthTyped
  <2>2. \A v \in Values : After(socket', n, v) = After(socket, n, v)
    BY <1>0, <1>3, <1>4, AnswerAdds
  <2>3. Turns(socket', n) = {} <=> Turns(socket, n) = {}
    BY <1>0, <1>3, <1>4, AnswerAdds
  <2>4. CASE n \notin doubtful \cup gone
    <3>1. NameInv(n) /\ Truth(n)' = Truth(n)
      BY <1>5, <2>1, <2>4 DEF ViewInv, Truth
    <3>2. Leads(n, Truth(n))'
      <4>1. After(pending, n, Truth(n)) \in Values
        BY <1>0, <2>1, QueuesTyped, BaseIs
      <4> QED
        BY <1>4, <2>2, <3>1, <4>1 DEF NameInv, Leads
    <3>3. ChannelTells(n)'
      BY <1>4, <3>1 DEF NameInv, ChannelTells
    <3>4. Several(n)' => Turns(socket', n) # {} \/ Turns(channel', n) # {}
      BY <1>4, <2>3, <3>1 DEF NameInv, Several
    <3>5. ASSUME NEW i \in DOMAIN socket', socket'[i].type = "agents"
          PROVE  After(channel', n, After(socket', n, After(pending', n, socket'[i].agents[n])))
                    = Truth(n)'
      <4>1. socket'[i].agents[n] = Truth(n)'
        BY <1>3, <1>6, <1>8, <3>5
      <4> QED
        BY <3>2, <4>1 DEF Leads
    <3> QED
      BY <1>9, <3>2, <3>3, <3>4, <3>5 DEF NameInv, Leads, Leads
  <2>5. CASE n \in doubtful \cup gone
    <3>1. ~UnderWay(n)
      BY <1>2, <2>5
    <3>2. /\ Told(channel, n) = {} /\ Told(pending, n) = {} /\ Turns(channel, n) = {}
          /\ \A v : After(channel, n, v) = v /\ After(socket, n, v) = v
                    /\ After(pending, n, v) = v
      BY <1>0, <3>1, NothingUnderWay
    <3>3. Truth(n)' \in Values
      BY <1>5, <2>1 DEF Truth, Values
    <3>4. Leads(n, Truth(n))'
      BY <1>4, <2>2, <3>2, <3>3 DEF Leads
    <3>5. ChannelTells(n)' /\ ~Several(n)'
      BY <1>4, <3>2 DEF ChannelTells, Several
    <3>6. ASSUME NEW i \in DOMAIN socket', socket'[i].type = "agents"
          PROVE  After(channel', n, After(socket', n, After(pending', n, socket'[i].agents[n])))
                    = Truth(n)'
      <4>1. socket'[i].agents[n] = Truth(n)'
        BY <1>3, <1>6, <1>8, <3>6
      <4> QED
        BY <3>4, <4>1 DEF Leads
    <3> QED
      BY <1>9, <3>4, <3>5, <3>6 DEF NameInv, Leads
  <2> QED
    BY <2>4, <2>5
<1> QED
  BY <1>10 DEF ViewInv

LEMMA ServeView ==
    ASSUME StreamInv, ViewInv, StreamInv', Serve
    PROVE  ViewInv'
<1>1. /\ TypeOK /\ AnswerInv /\ request # None /\ request \in Plans /\ request \in Request
      /\ UNCHANGED <<pending, todo, rows>>
      /\ socket \in Seq(Message) /\ Unanswered /\ Head(todo) = request /\ todo # <<>>
  BY QueuesTyped DEF StreamInv, Serve, client, TypeOK, Plans, AnswerInv
<1>2. Head(todo) # Reload
  BY <1>1, PlanKinds DEF Request, Reload
<1>3. CASE request.op = "list"
  <2>1. ServeList
    BY <1>1, <1>3 DEF Serve
  <2> QED
    BY <1>1, <1>2, <1>3, <2>1, ServeListView
<1>4. CASE request.op # "list"
  <2>1. request.name \in Names
    BY <1>1, <1>4, PlanKinds DEF Request
  <2>2. ServeSpawn(request.name) \/ ServeKill(request.name) \/ ServeTouch(request.name)
    BY <1>1, <1>4 DEF Serve, Request
  <2>3. PICK m \in {Ok, Error} : socket' = Append(socket, m)
    BY <2>2 DEF ServeSpawn, ServeKill, ServeTouch, Answer
  <2>4. m \in Message /\ IsReply(m) /\ m.type # "agents"
    <3>1. m \in Reply /\ m.type # "agents"
      BY <2>3 DEF Reply, Ok, Error
    <3> QED
      BY <3>1, EventIsMessage
  <2>5. \A i \in DOMAIN socket' : socket'[i].type = "agents" =>
                                        i \in DOMAIN socket /\ socket[i] = socket'[i]
    BY <1>1, <2>3, <2>4, AppendAnswers
  <2>6. \A n : /\ \A v \in Values : After(socket', n, v) = After(socket, n, v)
               /\ Turns(socket', n) = {} <=> Turns(socket, n) = {}
    BY <1>1, <2>3, <2>4, AnswerAdds
  <2>7. ASSUME NEW told, Says(told), Emit(told)
        PROVE  ViewInv'
    BY <1>1, <1>2, <2>5, <2>6, <2>7, EmitView
  <2>8. CASE UNCHANGED <<daemon, doubtful>>
    <3>1. channel' = channel /\ agents' = agents /\ doubtful' = doubtful
      BY <2>8 DEF daemon
    <3>2. ASSUME NEW n \in Names \ doubtful'
          PROVE  NameInv(n)'
      <4>1. NameInv(n) /\ n \in Names /\ Truth(n)' = Truth(n) /\ ChannelTells(n)'
        BY <3>1, <3>2 DEF ViewInv, Truth, NameInv, ChannelTells
      <4>2. \A v \in Values : After(channel', n, After(socket', n, After(pending', n, v)))
                               = After(channel, n, After(socket, n, After(pending, n, v)))
        <5>1. \A v \in Values : After(pending, n, v) \in Values
          BY <1>1, QueuesTyped, BaseIs
        <5> QED
          BY <1>1, <2>6, <3>1, <5>1
      <4>3. Several(n)' => Turns(socket', n) # {} \/ Turns(channel', n) # {}
        BY <1>1, <2>6, <3>1, <4>1 DEF NameInv, Several
      <4>4. \A i \in DOMAIN socket' : socket'[i].type = "agents" =>
                socket'[i].agents[n] \in Values /\ Leads(n, socket'[i].agents[n])
        BY <1>1, <2>5, <4>1, AgentsTyped DEF NameInv
      <4>5. ~Rebuilt' /\ n \in DOMAIN rows' => rows'[n] \in Values /\ Leads(n, rows'[n])
        BY <1>1, <4>1 DEF NameInv, Rebuilt, TypeOK, Values
      <4> QED
        BY <1>1, <4>1, <4>2, <4>3, <4>4, <4>5, SameLeads
    <3> QED
      BY <1>1, <1>2, <3>2 DEF ViewInv
  <2>9. \/ Launch(request.name) /\ Emit({Spawned(request.name)})
        \/ Vacate({request.name}) /\ Emit({Exited(request.name)})
        \/ UNCHANGED <<daemon, doubtful>>
    BY <2>2 DEF ServeSpawn, ServeKill, ServeTouch
  <2> QED
    BY <1>1, <2>1, <2>7, <2>8, <2>9, LaunchSays, KillSays
<1> QED
  BY <1>3, <1>4

-----------------------------------------------------------------------------
(* The steps of the interface keep the invariant *)

\* Steps of the interface send nothing: what the channel tells stays.
LEMMA SilentTells ==
    ASSUME channel' = channel, agents' = agents, NEW n, ChannelTells(n)
    PROVE  ChannelTells(n)' /\ Truth(n)' = Truth(n)
BY DEF ChannelTells, Truth

LEMMA SetAsideView ==
    ASSUME StreamInv, ViewInv, SetAside
    PROVE  ViewInv'
<1> DEFINE h == Head(socket)
<1>1. /\ TypeOK /\ channel \in Seq(Message) /\ socket \in Seq(Message)
      /\ pending \in Seq(Message) /\ pending \in Seq(Event)
      /\ socket # <<>> /\ h \in Event /\ h \in Message /\ ~IsReply(h)
      /\ socket' = Tail(socket) /\ pending' = Append(pending, h)
      /\ UNCHANGED <<agents, channel, todo, rows>>
  BY QueuesTyped, Taken, EventIsMessage DEF StreamInv, TypeOK, SetAside, daemon
<1>2. doubtful' = IF \E i \in DOMAIN pending : pending[i].name = h.name
                  THEN doubtful \cup {h.name} ELSE doubtful
  BY DEF SetAside
<1>3. \A i \in DOMAIN socket' : i + 1 \in DOMAIN socket /\ socket'[i] = socket[i + 1]
  BY <1>1, TailAnswers
<1>4. \A n : <<h>> \in Seq(Message) /\ (Turns(<<h>>, n) # {} => h.name = n)
             /\ (Told(<<h>>, n) # {} <=> h.name = n)
  BY <1>1, ToldOne DEF Concerns
<1> HIDE DEF h
<1>5. ASSUME NEW n \in Names \ doubtful'
      PROVE  NameInv(n)'
  <2>1. NameInv(n) /\ n \in Names /\ Truth(n)' = Truth(n) /\ ChannelTells(n)'
    BY <1>1, <1>2, <1>5, SilentTells DEF ViewInv, NameInv
  <2>2. \A v \in Values : After(channel', n, After(socket', n, After(pending', n, v)))
                           = After(channel, n, After(socket, n, After(pending, n, v)))
    <3>1. \A v \in Values : After(socket, n, v) = After(Tail(socket), n, After(<<h>>, n, v))
      BY <1>1, AfterTail DEF h
    <3>2. \A v \in Values : /\ After(pending', n, v) = After(<<h>>, n, After(pending, n, v))
                             /\ After(pending, n, v) \in Values
      BY <1>1, AfterAppend, BaseIs
    <3> QED
      BY <1>1, <3>1, <3>2
  <2>3. Several(n)' => Turns(socket', n) # {} \/ Turns(channel', n) # {}
    <3> SUFFICES ASSUME Several(n)'
                 PROVE  Turns(socket', n) # {} \/ Turns(channel', n) # {}
      OBVIOUS
    <3>1. PICK i \in Told(pending', n), j \in Told(pending', n) : i # j
      BY DEF Several
    <3>2. \A k : k \in Told(pending', n) <=>
                    k \in Told(pending, n) \/ \E l \in Told(<<h>>, n) : k = Len(pending) + l
      <4>1. pending' = pending \o <<h>>
        BY <1>1, AppendIsConcat
      <4> QED
        BY <1>1, <1>4, <4>1, ToldConcat
    <3>3. CASE h.name = n
      <4>1. Told(<<h>>, n) = {1}
        BY <1>1, <3>3, ToldOne DEF Concerns
      <4>2. Told(pending, n) # {}
        BY <3>1, <3>2, <4>1
      <4>3. \E k \in DOMAIN pending : pending[k].name = h.name
        BY <3>3, <4>2 DEF Told, Concerns
      <4> QED
        BY <1>2, <1>5, <3>3, <4>3
    <3>4. CASE h.name # n
      <4>1. Several(n)
        BY <1>4, <3>1, <3>2, <3>4 DEF Several
      <4>2. Turns(socket, n) # {} \/ Turns(channel, n) # {}
        BY <2>1, <4>1 DEF NameInv
      <4>3. Turns(socket, n) # {} <=> Turns(<<h>>, n) # {} \/ Turns(Tail(socket), n) # {}
        BY <1>1, AfterTail DEF h
      <4> QED
        BY <1>1, <1>4, <3>4, <4>2, <4>3
    <3> QED
      BY <3>3, <3>4
  <2>4. \A i \in DOMAIN socket' : socket'[i].type = "agents" =>
            socket'[i].agents[n] \in Values /\ Leads(n, socket'[i].agents[n])
    BY <1>1, <1>3, <2>1, AgentsTyped DEF NameInv
  <2>5. ~Rebuilt' /\ n \in DOMAIN rows' => rows'[n] \in Values /\ Leads(n, rows'[n])
    BY <1>1, <2>1 DEF NameInv, Rebuilt, TypeOK, Values
  <2> QED
    BY <1>1, <2>1, <2>2, <2>3, <2>4, <2>5, SameLeads
<1> QED
  BY <1>1, <1>3, <1>5 DEF ViewInv

LEMMA ReceiveView ==
    ASSUME StreamInv, ViewInv, Receive
    PROVE  ViewInv'
<1> DEFINE h == Head(socket)
<1>1. /\ TypeOK /\ AnswerInv /\ channel \in Seq(Message) /\ socket \in Seq(Message)
      /\ pending \in Seq(Message) /\ socket # <<>> /\ h \in Message /\ IsReply(h)
      /\ 1 \in DOMAIN socket /\ socket[1] = h
      /\ socket' = Tail(socket) /\ todo # <<>> /\ todo' = Tail(todo)
      /\ UNCHANGED <<agents, channel, pending, doubtful>>
  BY QueuesTyped, Taken DEF StreamInv, Receive, daemon
<1>2. Unanswered'
  BY RestUnanswered DEF Receive
<1>3. (h.type = "agents" <=> Head(todo).op = "list") /\ Head(todo) # Reload
  BY <1>1 DEF AnswerInv, ViewInv
<1>4. /\ todo \in Seq(Plans) /\ Head(todo) \in Plans /\ Head(todo).op # "reload"
      /\ 1 \in DOMAIN todo /\ todo[1] = Head(todo)
      /\ \A i \in DOMAIN todo : i = 1 \/ \E j \in DOMAIN todo' : todo'[j] = todo[i]
  <2>1. todo \in Seq(Plans) /\ Head(todo) \in Plans
    BY <1>1, HeadTailProperties DEF TypeOK, Plans
  <2>2. /\ Len(todo) \in Nat \ {0} /\ DOMAIN todo = 1..Len(todo)
        /\ Len(Tail(todo)) = Len(todo) - 1 /\ DOMAIN Tail(todo) = 1..Len(Tail(todo))
        /\ \A j \in 1..Len(Tail(todo)) : Tail(todo)[j] = todo[j + 1]
    BY <1>1, <2>1, EmptySeq, LenProperties, HeadTailProperties
  <2>3. \A i \in 1..Len(todo) : i = 1 \/ (i - 1 \in 1..Len(todo) - 1 /\ (i - 1) + 1 = i)
    BY <2>2
  <2>4. todo[1] = Head(todo) /\ 1 \in 1..Len(todo)
    BY <2>2
  <2>5. Head(todo).op # "reload"
    BY <1>3, <2>1, PlanKinds
  <2> QED
    BY <1>1, <2>1, <2>2, <2>3, <2>4, <2>5
<1> HIDE DEF h
<1>5. ASSUME NEW n \in Names \ doubtful'
      PROVE  NameInv(n)'
  <2>1. NameInv(n) /\ n \in Names /\ Truth(n)' = Truth(n) /\ ChannelTells(n)'
    BY <1>1, <1>5, SilentTells DEF ViewInv, NameInv
  <2>2. <<h>> \in Seq(Message) /\ Told(<<h>>, n) = {} /\ Turns(<<h>>, n) = {}
    BY <1>1, ToldOne DEF Concerns
  <2>3. /\ \A v \in Values : After(socket, n, v) = After(socket', n, v)
        /\ Turns(socket, n) = {} <=> Turns(socket', n) = {}
    <3>1. /\ \A v \in Values : After(socket, n, v) = After(Tail(socket), n, After(<<h>>, n, v))
          /\ Turns(socket, n) # {} <=> Turns(<<h>>, n) # {} \/ Turns(Tail(socket), n) # {}
      BY <1>1, AfterTail DEF h
    <3>2. \A v : After(<<h>>, n, v) = v
      BY <2>2, AfterNothing
    <3> QED
      BY <1>1, <2>2, <3>1, <3>2
  <2>4. \A v \in Values : After(channel', n, After(socket', n, After(pending', n, v)))
                           = After(channel, n, After(socket, n, After(pending, n, v)))
    <3>1. \A v \in Values : After(pending, n, v) \in Values
      BY <1>1, BaseIs
    <3> QED
      BY <1>1, <2>3, <3>1
  <2>5. Several(n)' => Turns(socket', n) # {} \/ Turns(channel', n) # {}
    BY <1>1, <2>1, <2>3 DEF NameInv, Several
  <2>6. \A i \in DOMAIN socket' : socket'[i].type = "agents" =>
            socket'[i].agents[n] \in Values /\ Leads(n, socket'[i].agents[n])
    BY <1>2 DEF Unanswered, IsReply
  <2>7. ASSUME ~Rebuilt', n \in DOMAIN rows'
        PROVE  rows'[n] \in Values /\ Leads(n, rows'[n])
    <3>1. CASE Head(todo).op = "list"
      <4>1. rows' = Rows(Head(todo).tasks, h.agents)
        BY <3>1 DEF Receive, h
      <4>2. rows'[n] = socket[1].agents[n] /\ socket[1].type = "agents"
        BY <1>1, <1>3, <2>7, <3>1, <4>1 DEF Rows
      <4>3. socket[1].agents[n] \in Values
        BY <1>1, <2>1, <4>2, AgentsTyped
      <4> QED
        BY <1>1, <2>1, <4>2, <4>3 DEF NameInv
    <3>2. CASE Head(todo).op # "list"
      <4>1. rows' = rows
        BY <3>2 DEF Receive
      <4>2. ~Rebuilt
        BY <1>4, <2>7, <3>2 DEF Rebuilt
      <4> QED
        BY <1>1, <2>1, <2>7, <4>1, <4>2 DEF NameInv, TypeOK, Values
    <3> QED
      BY <3>1, <3>2
  <2> QED
    BY <1>1, <2>1, <2>4, <2>5, <2>6, <2>7, SameLeads
<1> QED
  BY <1>1, <1>2, <1>5 DEF ViewInv, Unanswered

\* Whatever the client sends, or begins, changes nothing of what is under way.
LEMMA PlanView ==
    ASSUME StreamInv, ViewInv, UNCHANGED <<agents, channel, socket, pending, rows, doubtful>>,
           Unanswered, Rebuilt => Rebuilt'
    PROVE  ViewInv'
<1>1. TypeOK
  BY DEF StreamInv
<1>2. ASSUME NEW n \in Names \ doubtful'
      PROVE  NameInv(n)'
  BY <1>2 DEF ViewInv, NameInv, ChannelTells, Leads, Several, Truth
<1> QED
  BY <1>2 DEF ViewInv, Unanswered

LEMMA SendView ==
    ASSUME StreamInv, ViewInv, StreamInv', Send
    PROVE  ViewInv'
<1> DEFINE next == IF Head(todo) = Reload THEN [op |-> "list", tasks |-> tasks]
                                          ELSE Head(todo)
           rest == Tail(todo)
<1>1. /\ todo # <<>> /\ Unanswered /\ todo' = <<next>> \o rest
      /\ UNCHANGED <<agents, channel, socket, pending, rows, doubtful>>
  BY DEF Send, MaySend, Waiting, Unanswered, daemon
<1>2. /\ todo \in Seq(Plans) /\ rest \in Seq(Plans) /\ Head(todo) \in Plans
      /\ todo' \in Seq(Plans)
  BY <1>1, HeadTailProperties DEF StreamInv, TypeOK, Plans
<1>3. next \in Plans /\ (next.op \in {"list", "reload"} <=> Head(todo).op \in {"list", "reload"})
  BY <1>2 DEF Plans, Request, Reload, StreamInv, TypeOK
<1> HIDE DEF next
<1>4. /\ Len(todo) \in Nat \ {0} /\ DOMAIN todo = 1..Len(todo) /\ todo[1] = Head(todo)
      /\ Len(rest) = Len(todo) - 1 /\ \A i \in 1..Len(rest) : rest[i] = todo[i + 1]
  BY <1>1, <1>2, EmptySeq, LenProperties, HeadTailProperties
<1> HIDE DEF rest
<1>5. /\ <<next>> \in Seq(Plans) /\ Len(<<next>>) = 1 /\ <<next>>[1] = next
  BY <1>3
<1>6. /\ Len(todo') = Len(todo) /\ todo'[1] = next
      /\ \A i \in 1..Len(todo) : i # 1 => todo'[i] = todo[i]
  <2> DEFINE one == <<next>>
  <2>1. one \in Seq(Plans) /\ Len(one) = 1 /\ one[1] = next /\ todo' = one \o rest
    BY <1>1, <1>5
  <2> HIDE DEF one
  <2>5. /\ Len(one \o rest) = Len(one) + Len(rest)
        /\ \A i \in 1..Len(one) + Len(rest) :
              (one \o rest)[i] = IF i <= Len(one) THEN one[i] ELSE rest[i - Len(one)]
    BY <1>2, <2>1, ConcatProperties
  <2>2. /\ Len(one \o rest) = 1 + Len(rest)
        /\ \A i \in 1..1 + Len(rest) : (one \o rest)[i] = IF i <= 1 THEN one[i] ELSE rest[i - 1]
    BY <2>1, <2>5
  <2>3. \A i \in 1..Len(todo) : /\ i \in 1..1 + Len(rest)
                                /\ i # 1 => ~(i <= 1) /\ i - 1 \in 1..Len(rest) /\ (i - 1) + 1 = i
    BY <1>4
  <2>4. 1 \in 1..Len(todo) /\ 1 + Len(rest) = Len(todo)
    BY <1>4
  <2> QED
    BY <1>4, <2>1, <2>2, <2>3, <2>4
<1>7. DOMAIN todo' = DOMAIN todo
  BY <1>2, <1>4, <1>6, LenProperties
<1>8. Rebuilt => Rebuilt'
  <2> SUFFICES ASSUME Rebuilt PROVE Rebuilt'
    OBVIOUS
  <2>1. PICK i \in DOMAIN todo : todo[i].op \in {"list", "reload"}
    BY DEF Rebuilt
  <2>2. todo'[i].op \in {"list", "reload"}
    BY <1>3, <1>4, <1>6, <2>1
  <2> QED
    BY <1>7, <2>1, <2>2 DEF Rebuilt
<1> QED
  BY <1>1, <1>8, PlanView

\* The latest of what was set aside is applied first: to no effect on what the row will
\* show, unless it concerns a name of which something else was set aside.
LEMMA LatestFirst ==
    ASSUME NEW p \in Seq(Message), NEW q \in Seq(Message), NEW r \in Seq(Message),
           p # <<>>, NEW n, NEW v \in Values,
           (\E i, j \in Told(p, n) : i # j) => Turns(q, n) # {} \/ Turns(r, n) # {}
    PROVE  After(r, n, After(q, n, After(Front(p), n, After(<<Last(p)>>, n, v))))
              = After(r, n, After(q, n, After(p, n, v)))
<1> DEFINE one == <<Last(p)>>
           x == After(Front(p), n, After(one, n, v))
           y == After(p, n, v)
<1>1. /\ one \in Seq(Message) /\ Front(p) \in Seq(Message) /\ Last(p) \in Message
      /\ \A w \in Values : After(p, n, w) = After(one, n, After(Front(p), n, w))
      /\ Told(Front(p), n) \subseteq Told(p, n) \ {Len(p)}
      /\ Concerns(Last(p), n) => Len(p) \in Told(p, n)
  BY AfterFront, ToldOne
<1>2. ~Concerns(Last(p), n) => \A w : After(one, n, w) = w
  BY <1>1, ToldOne, AfterNothing
<1> HIDE DEF one
<1>3. x \in Values /\ y \in Values
  BY <1>1, BaseIs
<1>4. After(q, n, x) \in Values /\ After(q, n, y) \in Values
  <2> HIDE DEF x, y
  <2> QED
    BY <1>3, BaseIs
<1>5. CASE Turns(q, n) # {}
  <2> HIDE DEF x, y
  <2>1. After(q, n, x) = After(q, n, y)
    BY <1>3, <1>5, AfterTurns
  <2> QED
    BY <2>1 DEF x, y, one
<1>6. CASE Turns(r, n) # {}
  <2> HIDE DEF x, y
  <2>1. After(r, n, After(q, n, x)) = After(r, n, After(q, n, y))
    BY <1>4, <1>6, AfterTurns
  <2> QED
    BY <2>1 DEF x, y, one
<1>7. CASE Turns(q, n) = {} /\ Turns(r, n) = {}
  <2>1. CASE Concerns(Last(p), n)
    <3>1. Told(Front(p), n) = {}
      BY <1>1, <1>7, <2>1
    <3>2. \A w : After(Front(p), n, w) = w
      BY <3>1, AfterNothing
    <3>3. x = y
      BY <1>1, <3>2
    <3> QED
      BY <3>3 DEF one
  <2>2. CASE ~Concerns(Last(p), n)
    <3>1. x = y
      BY <1>1, <1>2, <1>3, <2>2
    <3> QED
      BY <3>1 DEF one
  <2> QED
    BY <2>1, <2>2
<1> QED
  BY <1>5, <1>6, <1>7

\* An event makes of a row what its definition by sequences says.
LEMMA AppliedIs ==
    ASSUME TypeOK, NEW e \in Event
    PROVE  /\ DOMAIN Applied(e) = DOMAIN rows
           /\ \A n \in DOMAIN rows : Applied(e)[n] = After(<<e>>, n, rows[n])
<1>1. DOMAIN Applied(e) = DOMAIN rows
  BY DEF Applied
<1>2. ASSUME NEW n \in DOMAIN rows
      PROVE  Applied(e)[n] = After(<<e>>, n, rows[n])
  <2>1. e \in Message /\ rows[n] \in Values /\ (Concerns(e, n) <=> e.name = n)
    BY EventKinds, EventIsMessage DEF TypeOK, Values, Concerns
  <2>2. After(<<e>>, n, rows[n]) =
           IF e.name # n \/ (e.type = "state" /\ rows[n] = None) THEN rows[n] ELSE Shows(e)
    BY <2>1, AfterOne
  <2> QED
    BY <2>2 DEF Applied, Shows
<1> QED
  BY <1>1, <1>2

\* A message that is read takes with it what it makes of the row.
LEMMA ReadLeads ==
    ASSUME TypeOK, NEW n \in Names, NameInv(n), Unanswered', TypeOK', Rebuilt' <=> Rebuilt,
           UNCHANGED <<agents, channel>>, NEW e \in Message,
           n \in DOMAIN rows' => n \in DOMAIN rows /\ rows'[n] = After(<<e>>, n, rows[n]),
           \A v \in Values :
              After(channel, n, After(socket', n, After(pending', n, After(<<e>>, n, v))))
                 = After(channel, n, After(socket, n, After(pending, n, v))),
           Several(n)' => Turns(socket', n) # {} \/ Turns(channel', n) # {}
    PROVE  NameInv(n)'
<1>1. /\ channel' \in Seq(Message) /\ socket' \in Seq(Message) /\ pending' \in Seq(Message)
  BY EventIsMessage DEF TypeOK, Message
<1>2. Truth(n)' = Truth(n) /\ Truth(n) \in Values
  BY TruthTyped DEF Truth
<1> DEFINE w == After(<<e>>, n, Truth(n))
<1>3. w \in Values
  BY <1>2, ToldOne, BaseIs
<1>4. After(channel', n, After(socket', n, After(pending', n, w))) = Truth(n)
  BY <1>2 DEF NameInv, Leads
<1> HIDE DEF w
<1>5. After(channel', n, After(socket', n, After(pending', n, Truth(n)))) = Truth(n)
  BY <1>1, <1>3, <1>4, LeadsAgain
<1>6. ~Rebuilt' /\ n \in DOMAIN rows' =>
         After(channel', n, After(socket', n, After(pending', n, rows'[n]))) = Truth(n)
  BY DEF NameInv, Leads, TypeOK, Values
<1>8. ChannelTells(n)'
  BY SilentTells DEF NameInv
<1>7. \A i \in DOMAIN socket' : socket'[i].type # "agents"
  BY DEF Unanswered, IsReply
<1> QED
  BY <1>2, <1>5, <1>6, <1>7, <1>8 DEF NameInv, Leads

LEMMA ReadView ==
    ASSUME StreamInv, ViewInv, StreamInv', ReadMessage
    PROVE  ViewInv'
<1>1. /\ TypeOK /\ TypeOK' /\ Unanswered /\ (Rebuilt' <=> Rebuilt)
      /\ UNCHANGED <<agents, channel, doubtful, todo>>
      /\ channel \in Seq(Message) /\ socket \in Seq(Message) /\ pending \in Seq(Message)
  BY QueuesTyped DEF StreamInv, ReadMessage, Looping, AnswerInv, Unanswered, Rebuilt, daemon
<1>2. CASE pending # <<>> /\ rows' = Applied(Last(pending)) /\ pending' = Front(pending)
           /\ UNCHANGED socket
  <2> DEFINE e == Last(pending)
  <2>1. e \in Event /\ e \in Message
    <3>1. pending \in Seq(Event) /\ Len(pending) \in Nat \ {0}
      BY <1>1, <1>2, EmptySeq DEF TypeOK
    <3>2. e \in Event
      BY <3>1, ElementOfSeq DEF Last
    <3> QED
      BY <3>2, EventIsMessage
  <2>2. Unanswered'
    BY <1>1, <1>2 DEF Unanswered
  <2>3. ASSUME NEW n \in Names \ doubtful'
        PROVE  NameInv(n)'
    <3>1. NameInv(n) /\ n \in Names
      BY <1>1, <2>3 DEF ViewInv
    <3>2. Several(n) => Turns(socket, n) # {} \/ Turns(channel, n) # {}
      BY <3>1 DEF NameInv
    <3>3. \A v \in Values :
             After(channel, n, After(socket', n, After(pending', n, After(<<e>>, n, v))))
                = After(channel, n, After(socket, n, After(pending, n, v)))
      BY <1>1, <1>2, <3>2, LatestFirst DEF Several
    <3>4. Several(n)' => Turns(socket', n) # {} \/ Turns(channel', n) # {}
      <4>1. Told(pending', n) \subseteq Told(pending, n)
        BY <1>1, <1>2, AfterFront
      <4> QED
        BY <1>1, <1>2, <3>2, <4>1 DEF Several
    <3>5. n \in DOMAIN rows' => n \in DOMAIN rows /\ rows'[n] = After(<<e>>, n, rows[n])
      BY <1>1, <1>2, <2>1, AppliedIs
    <3> HIDE DEF e
    <3> QED
      BY <1>1, <2>1, <2>2, <3>1, <3>3, <3>4, <3>5, ReadLeads
  <2> QED
    BY <1>1, <2>2, <2>3 DEF ViewInv, Unanswered
<1>3. CASE /\ pending = <<>> /\ socket # <<>> /\ socket' = Tail(socket)
           /\ rows' = IF IsReply(Head(socket)) THEN rows ELSE Applied(Head(socket))
           /\ UNCHANGED pending
  <2> DEFINE e == Head(socket)
  <2>1. e \in Event /\ e \in Message /\ rows' = Applied(e)
    BY <1>1, <1>3, Taken, EventIsMessage DEF Unanswered
  <2>2. Unanswered'
    BY <1>1, <1>3, RestUnanswered
  <2>3. ASSUME NEW n \in Names \ doubtful'
        PROVE  NameInv(n)'
    <3>1. NameInv(n) /\ n \in Names
      BY <1>1, <2>3 DEF ViewInv
    <3>2. Told(<<>>, n) = {} /\ Told(pending, n) = {} /\ Told(pending', n) = {}
      BY <1>3 DEF Told
    <3>3. \A v : After(pending, n, v) = v /\ After(pending', n, v) = v
      BY <3>2, AfterNothing
    <3>4. \A v \in Values : After(socket, n, v) = After(socket', n, After(<<e>>, n, v))
      BY <1>1, <1>3, AfterTail
    <3>5. \A v \in Values :
             After(channel, n, After(socket', n, After(pending', n, After(<<e>>, n, v))))
                = After(channel, n, After(socket, n, After(pending, n, v)))
      BY <3>3, <3>4
    <3>6. ~Several(n)'
      BY <3>2 DEF Several
    <3>7. n \in DOMAIN rows' => n \in DOMAIN rows /\ rows'[n] = After(<<e>>, n, rows[n])
      BY <1>1, <2>1, AppliedIs
    <3> HIDE DEF e
    <3> QED
      BY <1>1, <2>1, <2>2, <3>1, <3>5, <3>6, <3>7, ReadLeads
  <2> QED
    BY <1>1, <2>2, <2>3 DEF ViewInv, Unanswered
<1> QED
  BY <1>2, <1>3 DEF ReadMessage

LEMMA InterfaceView ==
    ASSUME StreamInv, ViewInv, StreamInv', Interface
    PROVE  ViewInv'
<1>1. AnswerInv
  BY DEF StreamInv
<1>2. todo = <<>> => Unanswered /\ ~Rebuilt
  BY <1>1 DEF AnswerInv, Unanswered, Rebuilt
<1>3. CASE Attach
  BY <1>2, <1>3, PlanView DEF Attach, Looping, daemon, wire
<1>4. CASE Detach
  BY <1>1, <1>2, <1>4, PlanView DEF Detach, Plan, AnswerInv, daemon, wire
<1>5. CASE \E n \in Names : Act(n) \/ RefreshPeek(n) \/ NewTask(n)
  <2>1. todo = <<>> /\ UNCHANGED <<agents, channel, socket, pending, rows, doubtful>>
    BY <1>5 DEF Act, RefreshPeek, NewTask, Looping, Plan, daemon, wire
  <2> QED
    BY <1>2, <2>1, PlanView
<1> QED
  BY <1>3, <1>4, <1>5, SendView, SetAsideView, ReceiveView, ReadView DEF Interface, Reads

LEMMA ViewInvariant == Spec => [](StreamInv /\ ViewInv)
<1>1. ASSUME StreamInv, StreamInv', ViewInv, [Next]_vars
      PROVE  ViewInv'
  <2>1. CASE UNCHANGED vars
    BY <1>1, <2>1 DEF ViewInv, ChannelTells, NameInv, Leads, Several, Rebuilt, Truth, vars
  <2> QED
    BY <1>1, <2>1, WorldView, ForwardView, ServeView, InterfaceView DEF Next
<1> QED
  BY <1>1, InitView, StreamInvariant, PTL DEF Spec

-----------------------------------------------------------------------------
(* The theorems *)

\* The variables keep their types: the channel and the socket keep to their size.
THEOREM StreamTypeCorrect == Spec => []TypeOK
<1>1. StreamInv => TypeOK
  BY DEF StreamInv
<1> QED
  BY <1>1, StreamInvariant, PTL

\* An answer is read by the action that asked for it.
THEOREM AnswersCorrect == Spec => []AnswersMatch
<1>1. ASSUME StreamInv PROVE AnswersMatch
  <2> DEFINE replies == {i \in DOMAIN socket : IsReply(socket[i])}
  <2>0. AnswerInv
    BY <1>1 DEF StreamInv
  <2>1. replies = {} \/ \E i : replies = {i}
    BY <2>0 DEF AnswerInv
  <2>2. request # None => replies = {}
    BY <2>0 DEF AnswerInv, Unanswered
  <2>3. Cardinality(replies) \in {0, 1} /\ (replies = {} => Cardinality(replies) = 0)
    BY <2>1, FS_EmptySet, FS_Singleton
  <2>4. Cardinality(replies) + (IF request # None THEN 1 ELSE 0) <= 1
    BY <2>2, <2>3
  <2>5. Waiting => todo # <<>>
    BY <2>0 DEF AnswerInv, Waiting
  <2>6. \A i \in replies : (socket[i].type = "agents") <=> (Head(todo).op = "list")
    BY <2>0 DEF AnswerInv
  <2> QED
    BY <2>4, <2>5, <2>6 DEF AnswersMatch
<1> QED
  BY <1>1, StreamInvariant, PTL

\* When nothing is under way, each row shows the state its agent was last reported in.
THEOREM ViewIsCorrect == Spec => []ViewSettles
<1>1. ASSUME StreamInv, ViewInv PROVE ViewSettles
  <2> SUFFICES ASSUME channel = <<>>, socket = <<>>, pending = <<>>, todo = <<>>,
                      NEW n \in DOMAIN rows \ doubtful
               PROVE  rows[n] = Truth(n)
    BY DEF ViewSettles, Truth
  <2>1. n \in Names /\ ~Rebuilt
    BY <1>1 DEF StreamInv, TypeOK, Rebuilt
  <2>2. Leads(n, rows[n])
    BY <1>1, <2>1 DEF ViewInv, NameInv
  <2>3. \A v : After(<<>>, n, v) = v
    BY AfterNothing DEF Told
  <2> QED
    BY <2>2, <2>3 DEF Leads
<1> QED
  BY <1>1, ViewInvariant, PTL
===============================================================================
