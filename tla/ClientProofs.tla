----------------------------- MODULE ClientProofs ------------------------------
(***************************************************************************)
(* How clients and daemons come and go round the socket path, for any      *)
(* number of each, and the relay of an attached client, for anything an    *)
(* agent writes and wherever the reads cut it.                             *)
(***************************************************************************)
EXTENDS Lifecycle, Relay, SequenceTheorems, FiniteSetTheorems, TLAPS

\* A daemon that overlaps nothing is alone while it lives, and the path is its own
\* from its bind to its end.
Alone(d) ==
    /\ Alive(d) => \A e \in Daemons \ {d} : ~Alive(e)
    /\ Listening(d) => sock = d
    /\ daemon[d] = "binding" => sock = NoDaemon
    /\ daemon[d] # "failed"

\* Only overlapping daemons can have listened while a client was refused.
Missed(c) == client[c].at = "refused" => client[c].there \subseteq overlaps

LifeInv ==
    /\ LifeTypeOK
    /\ \A d \in Daemons \ overlaps : Alone(d)
    /\ \A c \in Clients : Missed(c)

-----------------------------------------------------------------------------
(* The types *)

\* The record of a client is of the kind its place says.
LEMMA ClientKinds ==
    ASSUME LifeTypeOK, NEW c \in Clients
    PROVE  /\ client[c] \in Client
           /\ client[c].at = "refused" => client[c].there \subseteq Daemons
           /\ client[c].at = "polling" => client[c].left \in 1..MaxAttempts
BY DEF LifeTypeOK, Client

LEMMA InitInv == LifeInit => LifeInv
BY LifecycleAssumption DEF LifeInit, LifeInv, LifeTypeOK, Alone, Missed, Phases, Client,
       Idle, Alive, Listening

LEMMA TypeKept ==
    ASSUME LifeTypeOK, [LifeNext]_world
    PROVE  LifeTypeOK'
<1> USE DEF LifeTypeOK, files
<1>1. ASSUME NEW c \in Clients, Connect(c) \/ TryConnect(c) PROVE LifeTypeOK'
  <2>1. Idle \in Client /\ Refused \in Client
    BY DEF Client, Idle, Refused
  <2>2. Answers => sock \in Daemons /\ [at |-> "connected", to |-> sock] \in Client
    BY DEF Answers, Client
  <2> QED
    BY <1>1, <2>1, <2>2 DEF Connect, TryConnect, Become
<1>2. ASSUME NEW c \in Clients, StartDaemon(c) PROVE LifeTypeOK'
  <2>1. [at |-> "polling", left |-> MaxAttempts] \in Client
    BY LifecycleAssumption DEF Client
  <2>2. daemon' \in [Daemons -> Phases] /\ overlaps' \subseteq Daemons
    BY <1>2 DEF StartDaemon, Launch, Phases
  <2> QED
    BY <1>2, <2>1, <2>2 DEF StartDaemon, Become
<1>3. ASSUME NEW c \in Clients, Poll(c) PROVE LifeTypeOK'
  <2>1. client[c].left \in 1..MaxAttempts
    BY <1>3, ClientKinds DEF Poll
  <2>2. Answers => [at |-> "connected", to |-> sock] \in Client
    BY DEF Answers, Client
  <2>3. [at |-> "failed"] \in Client
    BY DEF Client
  <2>4. client[c].left > 1 => [client[c] EXCEPT !.left = @ - 1] \in Client
    <3>1. PICK l \in 1..MaxAttempts : client[c] = [at |-> "polling", left |-> l]
      BY <1>3, ClientKinds DEF Poll, Client
    <3> QED
      BY <3>1, LifecycleAssumption DEF Client
  <2> QED
    BY <1>3, <2>1, <2>2, <2>3, <2>4, LifecycleAssumption DEF Poll, Become
<1>4. ASSUME NEW c \in Clients, Finish(c) PROVE LifeTypeOK'
  BY <1>4 DEF Finish, Become, Client, Idle
<1>5. ASSUME NEW d \in Daemons,
             RemoveStale(d) \/ Bind(d) \/ LoopEnds(d) \/ CleanUp(d) \/ Crash(d)
      PROVE  LifeTypeOK'
  BY <1>5 DEF RemoveStale, Bind, LoopEnds, CleanUp, Crash, Advance, Phases
<1>6. CASE StartByHand
  BY <1>6 DEF StartByHand, Launch, Phases
<1>7. CASE UNCHANGED world
  BY <1>7 DEF world
<1> QED
  BY <1>1, <1>2, <1>3, <1>4, <1>5, <1>6, <1>7 DEF LifeNext

-----------------------------------------------------------------------------
(* Clients leave the daemons alone, daemons the clients *)

\* Who is refused has met no daemon that overlaps nothing.
LEMMA ClientsKeep ==
    ASSUME LifeInv, NEW c \in Clients,
           Connect(c) \/ TryConnect(c) \/ Poll(c) \/ Finish(c)
    PROVE  LifeInv'
<1>1. UNCHANGED <<files, overlaps>>
  BY DEF Connect, TryConnect, Poll, Finish
<1>2. LifeTypeOK'
  BY TypeKept DEF LifeInv, LifeNext
<1>3. \A d \in Daemons \ overlaps' : Alone(d)'
  BY <1>1 DEF LifeInv, Alone, Alive, Listening, files
<1>4. ASSUME NEW k \in Clients PROVE Missed(k)'
  <2>1. CASE k # c
    BY <1>1, <2>1 DEF LifeInv, LifeTypeOK, Missed, Connect, TryConnect, Poll, Finish, Become
  <2>2. CASE k = c /\ Connect(c) /\ ~Answers
    <3>1. client'[c] = Refused
      BY <2>2 DEF Connect, Become, LifeInv, LifeTypeOK
    <3>2. ASSUME NEW d \in Daemons, Listening(d) PROVE d \in overlaps
      BY <2>2, <3>2, LifecycleAssumption DEF LifeInv, Alone, Answers, Daemons
    <3> QED
      BY <1>1, <2>2, <3>1, <3>2 DEF Missed, Refused
  <2>3. CASE k = c /\ ~(Connect(c) /\ ~Answers)
    <3>1. client'[c].at # "refused"
      BY <2>3, ClientKinds DEF LifeInv, LifeTypeOK, Connect, TryConnect, Poll, Finish, Become, Idle,
         Client
    <3> QED
      BY <2>3, <3>1 DEF Missed
  <2> QED
    BY <2>1, <2>2, <2>3
<1> QED
  BY <1>2, <1>3, <1>4 DEF LifeInv

\* A launch: the new daemon meets nobody, or all it meets overlap from now on.
LEMMA LaunchKeeps ==
    ASSUME LifeInv, NEW there \in SUBSET overlaps, Launch(there), UNCHANGED sock
    PROVE  /\ overlaps \subseteq overlaps'
           /\ \A d \in Daemons \ overlaps' : Alone(d)'
<1>1. PICK n \in Daemons :
         /\ daemon[n] = "unborn"
         /\ daemon' = [daemon EXCEPT ![n] = "starting"]
         /\ LET others == {e \in Daemons : Alive(e)}
            IN overlaps' = IF others = {} THEN overlaps ELSE overlaps \cup {n} \cup others
  BY DEF Launch
<1>2. daemon \in [Daemons -> Phases]
  BY DEF LifeInv, LifeTypeOK
<1>3. ~Alive(n) /\ Alive(n)' /\ \A d \in Daemons \ {n} : daemon'[d] = daemon[d]
  BY <1>1, <1>2 DEF Alive
<1>4. ASSUME NEW d \in Daemons \ overlaps' PROVE Alone(d)'
  <2>1. CASE d = n
    <3>1. \A e \in Daemons : ~Alive(e)
      BY <1>1, <1>4, <2>1
    <3> QED
      BY <1>1, <1>2, <1>3, <2>1, <3>1 DEF Alone, Alive, Listening
  <2>2. CASE d # n
    <3>1. ~Alive(d)
      BY <1>1, <1>4
    <3>2. Alone(d)
      BY <1>1, <1>4 DEF LifeInv
    <3> QED
      BY <1>3, <2>2, <3>1, <3>2 DEF Alone, Alive, Listening
  <2> QED
    BY <2>1, <2>2
<1> QED
  BY <1>1, <1>4

LEMMA StartsKeep ==
    ASSUME LifeInv,
           StartByHand \/ \E c \in Clients : StartDaemon(c)
    PROVE  LifeInv'
<1>1. PICK there \in SUBSET overlaps : Launch(there) /\ UNCHANGED sock
  BY DEF StartByHand, StartDaemon, LifeInv, Missed
<1>2. LifeTypeOK'
  BY TypeKept DEF LifeInv, LifeNext
<1>3. \A c \in Clients : client'[c] = client[c] \/ client'[c].at = "polling"
  BY DEF StartByHand, StartDaemon, Become, LifeInv, LifeTypeOK
<1>4. \A c \in Clients : Missed(c)'
  BY <1>1, <1>3, LaunchKeeps DEF LifeInv, Missed
<1> QED
  BY <1>1, <1>2, <1>4, LaunchKeeps DEF LifeInv

\* A daemon that overlaps nothing has no other to take the path from, or to lose it to.
LEMMA DaemonsKeep ==
    ASSUME LifeInv, NEW d \in Daemons,
           RemoveStale(d) \/ Bind(d) \/ LoopEnds(d) \/ CleanUp(d) \/ Crash(d)
    PROVE  LifeInv'
<1>1. Alive(d) /\ UNCHANGED <<client, overlaps>> /\ daemon \in [Daemons -> Phases]
  BY DEF RemoveStale, Bind, LoopEnds, CleanUp, Crash, Advance, Alive, LifeInv, LifeTypeOK
<1>2. LifeTypeOK'
  BY TypeKept DEF LifeInv, LifeNext
<1>3. \A c \in Clients : Missed(c)'
  BY <1>1 DEF LifeInv, Missed
<1>4. \A e \in Daemons \ {d} : daemon'[e] = daemon[e]
  BY <1>1 DEF RemoveStale, Bind, LoopEnds, CleanUp, Crash, Advance
<1>5. ASSUME NEW e \in Daemons \ overlaps, e # d PROVE Alone(e)'
  BY <1>1, <1>4, <1>5 DEF LifeInv, Alone, Alive, Listening
<1>6. ASSUME d \notin overlaps PROVE Alone(d)'
  <2>1. Alone(d) /\ \A e \in Daemons \ {d} : ~Alive(e)' /\ ~Alive(e)
    BY <1>1, <1>4, <1>6 DEF LifeInv, Alone, Alive
  <2> QED
    BY <1>1, <2>1, LifecycleAssumption
    DEF Alone, Alive, Listening, RemoveStale, Bind, LoopEnds, CleanUp, Crash, Advance, Daemons
<1> QED
  BY <1>1, <1>2, <1>3, <1>5, <1>6 DEF LifeInv

LEMMA NextInv ==
    ASSUME LifeInv, [LifeNext]_world
    PROVE  LifeInv'
<1>1. CASE UNCHANGED world
  BY <1>1, TypeKept DEF LifeInv, world, Alone, Missed, Alive, Listening
<1>2. CASE LifeNext
  BY <1>2, ClientsKeep, StartsKeep, DaemonsKeep DEF LifeNext
<1> QED
  BY <1>1, <1>2

-----------------------------------------------------------------------------
(* The theorems *)

LEMMA LifeInvariant == LifeSpec => []LifeInv
<1> QED
  BY InitInv, NextInv, PTL DEF LifeSpec

\* The variables of the life of daemons keep their types.
THEOREM LifeTypeCorrect == LifeSpec => []LifeTypeOK
<1>1. LifeInv => LifeTypeOK
  BY DEF LifeInv
<1> QED
  BY <1>1, LifeInvariant, PTL

\* A daemon that serves is the one clients reach, but for two starts that overlap.
THEOREM ReachableCorrect == LifeSpec => []ServingIsReachable
<1>1. LifeInv => ServingIsReachable
  BY DEF LifeInv, Alone, Listening, ServingIsReachable
<1> QED
  BY <1>1, LifeInvariant, PTL

\* A daemon that is started binds the path, but for two starts that overlap.
THEOREM StartsCorrect == LifeSpec => []StartsUnlessRaced
<1>1. LifeInv => StartsUnlessRaced
  BY DEF LifeInv, Alone, StartsUnlessRaced
<1> QED
  BY <1>1, LifeInvariant, PTL

-----------------------------------------------------------------------------
(* The relay: sequences and the beginnings of sequences *)

\* The i-th byte goes on the sequence that begins at a.
Fits(a, i) ==
    IF i = a + 1 THEN output[i] = "["
    ELSE IF i = a + 2 THEN output[i] \in Markers
    ELSE output[i] \in Parameters

\* From a to n the agent has written the beginning of a sequence.
Partial(a, n) == output[a] = "esc" /\ \A i \in a + 1..n : Fits(a, i)

\* A sequence is a beginning and a final byte.
LEMMA SequenceIs ==
    ASSUME NEW a \in Nat, NEW b \in Nat
    PROVE  IsKbdSequence(a, b) <=>
              a + 3 <= b /\ Partial(a, b - 1) /\ Final(output[a + 2], output[b])
<1>1. ASSUME a + 3 <= b
      PROVE  (\A i \in a + 1..b - 1 : Fits(a, i)) <=>
                /\ output[a + 1] = "[" /\ output[a + 2] \in Markers
                /\ \A i \in a + 3..b - 1 : output[i] \in Parameters
  <2>1. a + 1..b - 1 = {a + 1, a + 2} \cup (a + 3..b - 1)
    BY <1>1
  <2>2. Fits(a, a + 1) <=> output[a + 1] = "["
    BY DEF Fits
  <2>3. Fits(a, a + 2) <=> output[a + 2] \in Markers
    BY DEF Fits
  <2>4. \A i \in a + 3..b - 1 : Fits(a, i) <=> output[i] \in Parameters
    BY DEF Fits
  <2> QED
    BY <2>1, <2>2, <2>3, <2>4
<1> QED
  BY <1>1 DEF IsKbdSequence, Partial

\* The bytes of a sequence differ: an escape is its first, a final byte its last.
LEMMA BytesOfSequence ==
    ASSUME NEW a \in Nat, NEW i \in Nat, i > a
    PROVE  /\ Fits(a, i) => output[i] # "esc"
           /\ Fits(a, i) /\ i >= a + 3 => \A m : ~Final(m, output[i])
           /\ \A m : Final(m, output[i]) => output[i] # "esc"
BY DEF Fits, Markers, Parameters, Final

\* A beginning that a byte goes on was one before.
LEMMA PartialGrows ==
    ASSUME NEW n \in Nat, NEW a \in 1..n
    PROVE  Partial(a, n + 1) <=> Partial(a, n) /\ Fits(a, n + 1)
<1>1. a + 1..n + 1 = (a + 1..n) \cup {n + 1}
  OBVIOUS
<1> QED
  BY <1>1 DEF Partial

\* The bytes of a beginning that has no final byte yet are no part of a sequence.
LEMMA PartialIsPlain ==
    ASSUME NEW n \in Nat, NEW s \in 1..n, Partial(s, n)
    PROVE  s..n \subseteq Plain(n)
<1> SUFFICES ASSUME NEW i \in s..n, NEW a \in 1..n, NEW b \in 1..n, a <= i, i <= b,
                    IsKbdSequence(a, b)
             PROVE  FALSE
  BY DEF Plain
<1>1. a + 3 <= b /\ Partial(a, b - 1) /\ Final(output[a + 2], output[b])
  BY SequenceIs
<1>2. output[s] = "esc" /\ \A k \in s + 1..n : Fits(s, k)
  BY DEF Partial
<1>3. output[a] = "esc" /\ \A k \in a + 1..b - 1 : Fits(a, k)
  BY <1>1 DEF Partial
<1>4. CASE a < s
  <2>1. s \in a + 1..b - 1 \/ s = b
    BY <1>4
  <2> QED
    BY <1>1, <1>2, <1>3, <1>4, <2>1, BytesOfSequence
<1>5. CASE a = s
  <2>1. b \in s + 1..n /\ b >= s + 3
    BY <1>1, <1>5
  <2> QED
    BY <1>1, <1>2, <2>1, BytesOfSequence
<1>6. CASE a > s
  <2>1. a \in s + 1..n
    BY <1>6
  <2> QED
    BY <1>2, <1>3, <1>6, <2>1, BytesOfSequence
<1> QED
  BY <1>4, <1>5, <1>6

-----------------------------------------------------------------------------
(* The relay: what is left of the output *)

\* Places in the first n bytes are finitely many.
LEMMA PlacesAre ==
    ASSUME NEW n \in Nat, NEW S \in SUBSET (1..n)
    PROVE  IsFiniteSet(S) /\ Cardinality(S) \in Nat
<1>1. IsFiniteSet(1..n)
  BY FS_Interval
<1>2. IsFiniteSet(S)
  BY <1>1, FS_Subset
<1> QED
  BY <1>2, FS_CardinalityType

\* The index of one of the places.
LEMMA IndexIs ==
    ASSUME NEW n \in Nat, NEW S \in SUBSET (1..n), NEW i \in S
    PROVE  Cardinality({j \in S : j <= i}) \in 1..Cardinality(S)
<1> DEFINE T == {j \in S : j <= i}
<1>1. IsFiniteSet(S) /\ Cardinality(S) \in Nat
  BY PlacesAre
<1>2. IsFiniteSet(T) /\ Cardinality(T) <= Cardinality(S) /\ Cardinality(T) \in Nat
  BY <1>1, FS_Subset, FS_CardinalityType
<1>3. T # {}
  BY i \in Nat
<1>4. Cardinality(T) # 0
  BY <1>2, <1>3, FS_EmptySet
<1> QED
  BY <1>1, <1>2, <1>4

\* A byte more that is let through or held back.
LEMMA LeavesGrows ==
    ASSUME NEW n \in Nat, NEW S \in SUBSET (1..n), NEW T, NEW t \in Seq(T), NEW b \in T,
           Leaves(S, t), output[n + 1] = b
    PROVE  Leaves(S \cup {n + 1}, Append(t, b))
<1> DEFINE R == S \cup {n + 1}
<1>1. IsFiniteSet(S) /\ Cardinality(S) \in Nat
  BY PlacesAre
<1>2. Cardinality(R) = Cardinality(S) + 1
  <2>1. n + 1 \notin S
    BY n + 1 \notin 1..n
  <2> QED
    BY <1>1, <2>1, FS_AddElement
<1>3. Len(t) = Cardinality(S) /\ Len(Append(t, b)) = Cardinality(S) + 1
      /\ Append(t, b)[Cardinality(S) + 1] = b
      /\ \A k \in 1..Cardinality(S) : Append(t, b)[k] = t[k]
  BY AppendProperties DEF Leaves
<1>4. ASSUME NEW i \in S
      PROVE  Append(t, b)[Cardinality({j \in R : j <= i})] = output[i]
  <2>1. {j \in R : j <= i} = {j \in S : j <= i}
    OBVIOUS
  <2>2. Cardinality({j \in S : j <= i}) \in 1..Cardinality(S)
    BY IndexIs
  <2> QED
    BY <1>3, <2>1, <2>2 DEF Leaves
<1>5. {j \in R : j <= n + 1} = R
  <2>1. \A j \in R : j \in Nat /\ j <= n + 1
    BY \A j \in 1..n : j \in Nat /\ j <= n + 1
  <2> QED
    BY <2>1
<1> QED
  BY <1>2, <1>3, <1>4, <1>5 DEF Leaves

\* The last places go, and as many bytes.
LEMMA LeavesShrinks ==
    ASSUME NEW n \in Nat, NEW S \in SUBSET (1..n), NEW s \in 1..n, s..n \subseteq S,
           NEW T, NEW t \in Seq(T), NEW u \in Seq(T), Len(u) = n - s + 1,
           Leaves(S, t \o u)
    PROVE  Leaves(S \ (s..n), t)
<1> DEFINE R == S \ (s..n)
<1>1. R \in SUBSET (1..n) /\ IsFiniteSet(S) /\ IsFiniteSet(s..n) /\ IsFiniteSet(R)
      /\ Cardinality(S) \in Nat /\ Cardinality(R) \in Nat /\ Cardinality(s..n) = n - s + 1
  <2>1. R \in SUBSET (1..n)
    OBVIOUS
  <2>2. IsFiniteSet(S) /\ Cardinality(S) \in Nat /\ IsFiniteSet(R) /\ Cardinality(R) \in Nat
    <3> HIDE DEF R
    <3> QED
      BY <2>1, PlacesAre
  <2>3. s \in Int /\ n \in Int /\ s <= n
    OBVIOUS
  <2>4. IsFiniteSet(s..n) /\ Cardinality(s..n) = n - s + 1
    BY <2>3, FS_Interval
  <2> QED
    BY <2>1, <2>2, <2>4
<1>2. Cardinality(S) = Cardinality(R) + (n - s + 1)
  <2>1. S = R \cup (s..n) /\ R \cap (s..n) = {}
    OBVIOUS
  <2>2. Cardinality(R \cup (s..n)) = Cardinality(R) + Cardinality(s..n) - Cardinality(R \cap (s..n))
    <3> HIDE DEF R
    <3> QED
      BY <1>1, FS_Union
  <2>3. Cardinality(R \cap (s..n)) = 0
    BY <2>1, FS_EmptySet
  <2>4. Cardinality(S) = Cardinality(R) + Cardinality(s..n) - 0
    BY <2>1, <2>2, <2>3
  <2> QED
    BY <1>1, <2>4
<1>3. Len(t) \in Nat /\ Len(t \o u) = Len(t) + (n - s + 1)
      /\ \A k \in 1..Len(t) : (t \o u)[k] = t[k]
  <2>1. Len(t) \in Nat /\ Len(u) \in Nat
    BY LenProperties
  <2>2. \A k \in 1..Len(t) : k \in 1..Len(t) + Len(u) /\ k <= Len(t)
    BY <2>1
  <2> QED
    BY <2>1, <2>2, ConcatProperties
<1>4. Len(t) = Cardinality(R)
  BY <1>1, <1>2, <1>3 DEF Leaves
<1>5. ASSUME NEW i \in R
      PROVE  t[Cardinality({j \in R : j <= i})] = output[i]
  <2>1. {j \in R : j <= i} = {j \in S : j <= i}
    OBVIOUS
  <2>2. Cardinality({j \in R : j <= i}) \in 1..Cardinality(R)
    BY <1>1, IndexIs
  <2>3. (t \o u)[Cardinality({j \in S : j <= i})] = output[i]
    BY DEF Leaves
  <2> QED
    BY <1>3, <1>4, <2>1, <2>2, <2>3
<1> QED
  BY <1>4, <1>5 DEF Leaves
-----------------------------------------------------------------------------
(* The relay: its filter *)

\* Where what is held back begins.
Held == consumed - Len(pending) + 1

\* What is held back is the one beginning of a sequence that ends here, and the
\* state says how far it is.
Beginning(n, p, s) ==
    LET h == n - Len(p) + 1 IN
    /\ Len(p) <= n
    /\ Len(p) = 0 <=> s = "normal"
    /\ Len(p) = 1 <=> s = "esc"
    /\ Len(p) = 2 <=> s = "csi"
    /\ Len(p) >= 3 => s = output[h + 2]
    /\ \A a \in 1..n : Partial(a, n) <=> Len(p) > 0 /\ a = h

HoldsBeginning == Beginning(consumed, pending, state)

RelayInv ==
    /\ RelayTypeOK
    /\ HoldsBeginning
    /\ Leaves(Plain(consumed), shown \o pending)
    /\ \A i \in 1..sent : typed[i] # Detach

\* The byte goes on a sequence, ends one, or does neither.
GoesOn(b) ==
    \/ state = "normal" /\ b = "esc"
    \/ state = "esc" /\ b = "["
    \/ state = "csi" /\ b \in Markers
    \/ state \in Markers /\ b \in Parameters

Ends(b) == state \in Markers /\ Final(state, b)

\* The state after a byte that goes on a sequence.
StateAfter(b) ==
    /\ state = "normal" => state' = "esc"
    /\ state = "esc" => state' = "csi"
    /\ state = "csi" => state' = b
    /\ state \in Markers => state' = state

Holds(b) == StateAfter(b) /\ pending' = Append(pending, b) /\ shown' = shown

\* What the filter does with a byte.
LEMMA StepIs ==
    ASSUME RelayTypeOK, NEW b, Step(b)
    PROVE  \/ GoesOn(b) /\ ~Ends(b) /\ Holds(b)
           \/ ~GoesOn(b) /\ Ends(b) /\ Strip
           \/ ~GoesOn(b) /\ ~Ends(b) /\ Emit(b)
<1>1. state \in {"normal", "esc", "csi"} \cup Markers
  BY DEF RelayTypeOK
<1>2. "normal" \notin Markers /\ "esc" \notin Markers /\ "csi" \notin Markers
  BY DEF Markers
<1>3. ~(b \in Parameters /\ Final(state, b))
  BY DEF Final, Parameters
<1>4. CASE state = "normal" /\ b = "esc"
  <2>1. Hold(b, "esc")
    BY <1>2, <1>4 DEF Step
  <2>2. pending' = Append(pending, b) /\ shown' = shown /\ state' = "esc"
    BY <2>1 DEF Hold
  <2>3. Holds(b)
    BY <1>2, <1>4, <2>2 DEF Holds, StateAfter
  <2> QED
    BY <1>2, <1>4, <2>3 DEF GoesOn, Ends
<1>5. CASE state = "esc" /\ b = "["
  <2>1. Hold(b, "csi")
    BY <1>2, <1>5 DEF Step
  <2>2. pending' = Append(pending, b) /\ shown' = shown /\ state' = "csi"
    BY <2>1 DEF Hold
  <2>3. Holds(b)
    BY <1>2, <1>5, <2>2 DEF Holds, StateAfter
  <2> QED
    BY <1>2, <1>5, <2>3 DEF GoesOn, Ends
<1>6. CASE state = "csi" /\ b \in Markers
  <2>1. Hold(b, b)
    BY <1>2, <1>6 DEF Step
  <2>2. pending' = Append(pending, b) /\ shown' = shown /\ state' = b
    BY <2>1 DEF Hold
  <2>3. Holds(b)
    BY <1>2, <1>6, <2>2 DEF Holds, StateAfter
  <2> QED
    BY <1>2, <1>6, <2>3 DEF GoesOn, Ends
<1>7. CASE state \in Markers /\ b \in Parameters
  <2>1. Hold(b, state)
    BY <1>2, <1>3, <1>7 DEF Step
  <2>2. pending' = Append(pending, b) /\ shown' = shown /\ state' = state
    BY <2>1 DEF Hold
  <2>3. Holds(b)
    BY <1>2, <1>7, <2>2 DEF Holds, StateAfter
  <2> QED
    BY <1>3, <1>7, <2>3 DEF GoesOn, Ends
<1>8. CASE Ends(b)
  <2>1. Strip
    BY <1>2, <1>3, <1>8 DEF Step, Ends
  <2>2. ~GoesOn(b)
    BY <1>2, <1>3, <1>8 DEF GoesOn, Ends
  <2> QED
    BY <1>8, <2>1, <2>2
<1>9. CASE ~GoesOn(b) /\ ~Ends(b)
  <2>1. Emit(b)
    BY <1>9 DEF Step, GoesOn, Ends
  <2> QED
    BY <1>9, <2>1
<1> QED
  BY <1>4, <1>5, <1>6, <1>7, <1>8, <1>9 DEF GoesOn

\* The next byte goes on what is held back, as the state says.
LEMMA NextFits ==
    ASSUME RelayTypeOK, HoldsBeginning, Len(pending) > 0
    PROVE  Fits(Held, consumed + 1) <=> GoesOn(output[consumed + 1])
<1>1. consumed \in Nat /\ Len(pending) \in Nat
  BY LenProperties DEF RelayTypeOK
<1>2. /\ state \in {"esc", "csi"} \cup Markers /\ "esc" \notin Markers /\ "csi" \notin Markers
      /\ state = "esc" <=> Len(pending) = 1
      /\ state = "csi" <=> Len(pending) = 2
  BY DEF RelayTypeOK, HoldsBeginning, Beginning, Markers
<1>3. /\ consumed + 1 = Held + 1 <=> Len(pending) = 1
      /\ consumed + 1 = Held + 2 <=> Len(pending) = 2
  <2>1. ASSUME NEW c \in Nat, NEW l \in Nat
        PROVE  /\ c + 1 = (c - l + 1) + 1 <=> l = 1
               /\ c + 1 = (c - l + 1) + 2 <=> l = 2
    OBVIOUS
  <2> QED
    BY <1>1, <2>1 DEF Held
<1>4. "normal" \notin Markers
  BY DEF Markers
<1> QED
  BY <1>1, <1>2, <1>3, <1>4 DEF Fits, GoesOn

\* What is held back is among what is consumed.
LEMMA HeldIs ==
    ASSUME RelayTypeOK, HoldsBeginning, Len(pending) > 0
    PROVE  /\ consumed \in Nat /\ Len(pending) \in Nat
           /\ Held \in 1..consumed /\ Len(pending) = consumed - Held + 1
BY LenProperties DEF RelayTypeOK, HoldsBeginning, Beginning, Held

\* The beginnings of a sequence that end at the next byte.
LEMMA BeginningsNext ==
    ASSUME RelayTypeOK, HoldsBeginning, NEW a \in 1..consumed + 1
    PROVE  Partial(a, consumed + 1) <=>
              \/ Len(pending) > 0 /\ a = Held /\ GoesOn(output[consumed + 1])
              \/ a = consumed + 1 /\ output[consumed + 1] = "esc"
<1>1. consumed \in Nat
  BY DEF RelayTypeOK
<1>2. CASE a = consumed + 1
  <2>1. Partial(a, consumed + 1) <=> output[consumed + 1] = "esc"
    BY <1>1, <1>2 DEF Partial
  <2>2. Len(pending) > 0 => a # Held
    BY <1>2, HeldIs
  <2> QED
    BY <1>2, <2>1, <2>2
<1>3. CASE a \in 1..consumed
  <2>1. Partial(a, consumed + 1) <=> Partial(a, consumed) /\ Fits(a, consumed + 1)
    BY <1>1, <1>3, PartialGrows
  <2>2. Partial(a, consumed) <=> Len(pending) > 0 /\ a = Held
    BY <1>3 DEF HoldsBeginning, Beginning, Held
  <2>3. a # consumed + 1
    BY <1>1, <1>3
  <2> QED
    BY <2>1, <2>2, <2>3, NextFits
<1> QED
  BY <1>1, <1>2, <1>3

\* The sequences that end at the next byte: what is held back and that byte.
LEMMA SequencesNext ==
    ASSUME RelayTypeOK, HoldsBeginning, NEW a \in 1..consumed + 1
    PROVE  IsKbdSequence(a, consumed + 1) <=>
              Len(pending) > 0 /\ a = Held /\ Ends(output[consumed + 1])
<1>1. consumed \in Nat /\ a \in Nat /\ Len(pending) \in Nat
  BY LenProperties DEF RelayTypeOK
<1>2. "normal" \notin Markers /\ "esc" \notin Markers /\ "csi" \notin Markers
  BY DEF Markers
<1>3. ASSUME IsKbdSequence(a, consumed + 1)
      PROVE  Len(pending) > 0 /\ a = Held /\ Ends(output[consumed + 1])
  <2>1. a + 3 <= consumed + 1 /\ Partial(a, consumed)
        /\ Final(output[a + 2], output[consumed + 1])
    <3>1. a + 3 <= consumed + 1 /\ Partial(a, (consumed + 1) - 1)
          /\ Final(output[a + 2], output[consumed + 1])
      BY <1>1, <1>3, SequenceIs
    <3>2. (consumed + 1) - 1 = consumed
      BY <1>1
    <3> QED
      BY <3>1, <3>2
  <2>2. a \in 1..consumed
    BY <1>1, <2>1
  <2>3. Len(pending) > 0 /\ a = Held
    BY <2>1, <2>2 DEF HoldsBeginning, Beginning, Held
  <2>4. Len(pending) >= 3
    BY <1>1, <2>1, <2>3, HeldIs
  <2>5. state = output[a + 2]
    BY <2>3, <2>4 DEF HoldsBeginning, Beginning, Held
  <2>6. output[a + 2] \in Markers
    BY <1>3 DEF IsKbdSequence
  <2> QED
    BY <2>1, <2>3, <2>5, <2>6 DEF Ends
<1>4. ASSUME Len(pending) > 0, a = Held, Ends(output[consumed + 1])
      PROVE  IsKbdSequence(a, consumed + 1)
  <2>1. Len(pending) # 0 /\ Len(pending) # 1 /\ Len(pending) # 2
    BY <1>2, <1>4 DEF Ends, HoldsBeginning, Beginning
  <2>2. Len(pending) >= 3
    BY <1>1, <2>1, \A l \in Nat : l # 0 /\ l # 1 /\ l # 2 => l >= 3
  <2>3. state = output[a + 2] /\ Partial(a, consumed)
    BY <1>4, <2>2, HeldIs DEF HoldsBeginning, Beginning, Held
  <2>4. a + 3 <= consumed + 1
    BY <1>1, <1>4, <2>2, HeldIs
  <2>5. (consumed + 1) - 1 = consumed
    BY <1>1
  <2>6. Final(output[a + 2], output[consumed + 1])
    BY <1>4, <2>3 DEF Ends
  <2> QED
    BY <1>1, <2>3, <2>4, <2>5, <2>6, SequenceIs
<1> QED
  BY <1>3, <1>4

-----------------------------------------------------------------------------
(* The relay: what its filter leaves *)

\* A byte that ends no sequence is plain so far.
LEMMA PlainGrows ==
    ASSUME NEW n \in Nat, \A a \in 1..n + 1 : ~IsKbdSequence(a, n + 1)
    PROVE  Plain(n + 1) = Plain(n) \cup {n + 1}
<1>1. 1..n + 1 = (1..n) \cup {n + 1}
  OBVIOUS
<1>2. ASSUME NEW i \in 1..n
      PROVE  i \in Plain(n + 1) <=> i \in Plain(n)
  <2>1. \A a, b \in 1..n + 1 : a <= i /\ i <= b /\ IsKbdSequence(a, b) => a \in 1..n /\ b \in 1..n
    BY <1>1
  <2> QED
    BY <1>1, <2>1 DEF Plain
<1>3. n + 1 \in Plain(n + 1)
  <2>1. \A b \in 1..n + 1 : n + 1 <= b => b = n + 1
    OBVIOUS
  <2> QED
    BY <2>1 DEF Plain
<1>4. Plain(n) \subseteq 1..n /\ Plain(n + 1) \subseteq 1..n + 1
  BY DEF Plain
<1> QED
  BY <1>1, <1>2, <1>3, <1>4

\* A byte that ends a sequence takes the places of the sequence away.
LEMMA PlainShrinks ==
    ASSUME NEW n \in Nat, NEW s \in 1..n,
           \A a \in 1..n + 1 : IsKbdSequence(a, n + 1) <=> a = s
    PROVE  Plain(n + 1) = Plain(n) \ (s..n)
<1>1. 1..n + 1 = (1..n) \cup {n + 1}
  OBVIOUS
<1>2. ASSUME NEW i \in 1..n, i < s
      PROVE  i \in Plain(n + 1) <=> i \in Plain(n)
  <2>1. \A a, b \in 1..n + 1 : a <= i /\ i <= b /\ IsKbdSequence(a, b) => a \in 1..n /\ b \in 1..n
    BY <1>1, <1>2
  <2> QED
    BY <1>1, <2>1 DEF Plain
<1>3. \A i \in s..n + 1 : i \notin Plain(n + 1)
  <2>1. IsKbdSequence(s, n + 1) /\ s \in 1..n + 1 /\ n + 1 \in 1..n + 1
    OBVIOUS
  <2>2. \A i \in s..n + 1 : s <= i /\ i <= n + 1
    OBVIOUS
  <2> QED
    BY <2>1, <2>2 DEF Plain
<1>4. Plain(n) \subseteq 1..n /\ Plain(n + 1) \subseteq 1..n + 1
  BY DEF Plain
<1>5. \A i \in 1..n + 1 : i \in s..n + 1 <=> ~(i < s)
  OBVIOUS
<1>6. \A i \in 1..n : i \in s..n <=> ~(i < s)
  OBVIOUS
<1>7. \A i \in 1..n + 1 : i < s => i \in 1..n
  OBVIOUS
<1>8. \A i : i \in Plain(n + 1) <=> i \in Plain(n) \ (s..n)
  <2> TAKE i
  <2>1. CASE i \in 1..n
    BY <1>1, <1>2, <1>3, <1>5, <1>6, <2>1
  <2>2. CASE i \notin 1..n
    BY <1>3, <1>4, <1>5, <1>7, <2>2
  <2> QED
    BY <2>1, <2>2
<1> QED
  BY <1>8

\* Sequences put together.
LEMMA Together ==
    ASSUME NEW T, NEW t \in Seq(T), NEW u \in Seq(T), NEW b \in T
    PROVE  /\ t \o u \in Seq(T)
           /\ Append(t, b) \in Seq(T) /\ Len(Append(t, b)) = Len(t) + 1
           /\ <<b>> \in Seq(T) /\ Len(<<b>>) = 1
           /\ t \o Append(u, b) = Append(t \o u, b)
           /\ t \o <<b>> = Append(t, b)
           /\ t \o <<>> = t
OBVIOUS

\* Lengths, by what the state tells apart.
LEMMA Lengths ==
    ASSUME NEW l \in Nat
    PROVE  /\ l >= 3 <=> l # 0 /\ l # 1 /\ l # 2
           /\ l + 1 # 0
           /\ l + 1 = 1 <=> l = 0
           /\ l + 1 = 2 <=> l = 1
           /\ l >= 2 <=> l = 2 \/ l >= 3
OBVIOUS

\* With the same output, what is left of it depends on the variables only.
LEMMA SameOutput ==
    ASSUME output' = output
    PROVE  /\ HoldsBeginning' <=> Beginning(consumed', pending', state')
           /\ Leaves(Plain(consumed), shown \o pending)'
                 <=> Leaves(Plain(consumed'), shown' \o pending')
<1>1. HoldsBeginning' <=> Beginning(consumed', pending', state')
  BY DEF HoldsBeginning, Beginning, Partial, Fits
<1>2. Plain(consumed)' = Plain(consumed')
  BY DEF Plain, IsKbdSequence
<1>3. Leaves(Plain(consumed), shown \o pending)'
                 <=> Leaves(Plain(consumed'), shown' \o pending')
  BY <1>2 DEF Leaves
<1> QED
  BY <1>1, <1>3

\* A byte that goes on a sequence is held back with the rest of it.
LEMMA GoesOnKeeps ==
    ASSUME RelayTypeOK, HoldsBeginning, consumed < Len(output),
           GoesOn(output[consumed + 1]), ~Ends(output[consumed + 1]),
           Holds(output[consumed + 1])
    PROVE  Beginning(consumed + 1, pending', state')
<1> DEFINE n == consumed
           b == output[n + 1]
           h == (n + 1) - Len(pending') + 1
<1>1. /\ n \in Nat /\ Len(pending) \in Nat /\ pending \in Seq(Bytes) /\ Len(pending) <= n
      /\ Len(pending') = Len(pending) + 1
  <2>1. /\ n \in Nat /\ pending \in Seq(Bytes) /\ output \in Seq(Bytes)
        /\ pending' = Append(pending, b)
    BY DEF RelayTypeOK, Holds
  <2>2. n + 1 \in 1..Len(output)
    BY <2>1, LenProperties
  <2>3. b \in Bytes
    BY <2>1, <2>2, ElementOfSeq
  <2>4. Len(Append(pending, b)) = Len(pending) + 1
    BY <2>1, <2>3, Together
  <2> QED
    BY <2>1, <2>4, LenProperties DEF HoldsBeginning, Beginning
<1>2. /\ state \in {"normal", "esc", "csi"} \cup Markers
      /\ "normal" \notin Markers /\ "esc" \notin Markers /\ "csi" \notin Markers
  BY DEF RelayTypeOK, Markers
<1>3. /\ Len(pending) = 0 <=> state = "normal"
      /\ Len(pending) = 1 <=> state = "esc"
      /\ Len(pending) = 2 <=> state = "csi"
      /\ Len(pending) >= 3 <=> state \in Markers
  <2>1. /\ Len(pending) = 0 <=> state = "normal"
        /\ Len(pending) = 1 <=> state = "esc"
        /\ Len(pending) = 2 <=> state = "csi"
    BY DEF HoldsBeginning, Beginning
  <2>2. Len(pending) >= 3 <=> Len(pending) # 0 /\ Len(pending) # 1 /\ Len(pending) # 2
    BY <1>1, Lengths
  <2> QED
    BY <1>2, <2>1, <2>2
<1>4. h = IF Len(pending) = 0 THEN n + 1 ELSE Held
  BY <1>1 DEF Held
<1>5. ASSUME NEW a \in 1..n + 1
      PROVE  Partial(a, n + 1) <=> a = h
  <2>1. Partial(a, n + 1) <=> \/ Len(pending) > 0 /\ a = Held
                              \/ a = n + 1 /\ b = "esc"
    BY BeginningsNext
  <2>2. CASE state = "normal"
    <3>1. b = "esc" /\ Len(pending) = 0
      BY <1>2, <1>3, <2>2 DEF GoesOn
    <3> QED
      BY <1>1, <1>4, <2>1, <3>1
  <2>3. CASE state # "normal"
    <3>1. Len(pending) > 0 /\ Len(pending) # 0
      BY <1>1, <1>3, <2>3
    <3>2. b # "esc"
      BY <2>3 DEF GoesOn, Markers, Parameters
    <3> QED
      BY <1>4, <2>1, <3>1, <3>2
  <2> QED
    BY <2>2, <2>3
<1>6. /\ Len(pending') = 0 <=> state' = "normal"
      /\ Len(pending') = 1 <=> state' = "esc"
      /\ Len(pending') = 2 <=> state' = "csi"
  <2>1. /\ Len(pending') = 1 <=> Len(pending) = 0
        /\ Len(pending') = 2 <=> Len(pending) = 1
        /\ Len(pending') # 0
    BY <1>1, Lengths
  <2>2. StateAfter(b) /\ GoesOn(b)
    BY DEF Holds
  <2>3. state = "csi" => b \in Markers
    BY <1>2, <2>2 DEF GoesOn
  <2>4. /\ state' = "esc" <=> state = "normal"
        /\ state' = "csi" <=> state = "esc"
        /\ state' # "normal"
    BY <1>2, <2>2, <2>3 DEF StateAfter, Markers
  <2> QED
    BY <1>3, <2>1, <2>4
<1>7. ASSUME Len(pending') >= 3
      PROVE  state' = output[h + 2]
  <2>1. StateAfter(b)
    BY DEF Holds
  <2>2. Len(pending) >= 2 /\ h = Held
    BY <1>1, <1>4, <1>7
  <2>3. CASE Len(pending) = 2
    <3>1. Held + 2 = n + 1
      BY <1>1, <2>3 DEF Held
    <3> QED
      BY <1>3, <2>1, <2>2, <2>3, <3>1 DEF StateAfter
  <2>4. CASE Len(pending) >= 3
    <3>1. state = output[Held + 2]
      BY <2>4 DEF HoldsBeginning, Beginning, Held
    <3> QED
      BY <1>3, <2>1, <2>2, <2>4, <3>1 DEF StateAfter
  <2> QED
    BY <1>1, <2>2, <2>3, <2>4, Lengths
<1> QED
  BY <1>1, <1>5, <1>6, <1>7 DEF Beginning

\* After a byte that ends a sequence nothing is held back.
LEMMA EndsKeeps ==
    ASSUME RelayTypeOK, HoldsBeginning, ~GoesOn(output[consumed + 1]),
           Ends(output[consumed + 1]), Strip
    PROVE  Beginning(consumed + 1, pending', state')
<1>1. consumed \in Nat /\ output[consumed + 1] # "esc"
  BY DEF RelayTypeOK, Ends, Final
<1>2. \A a \in 1..consumed + 1 : ~Partial(a, consumed + 1)
  BY <1>1, BeginningsNext
<1>3. pending' = <<>> /\ state' = "normal" /\ Len(pending') = 0
  BY DEF Strip
<1> QED
  BY <1>1, <1>2, <1>3 DEF Beginning

\* Any other byte leaves nothing held back but itself, if it is an escape.
LEMMA EmitKeeps ==
    ASSUME RelayTypeOK, HoldsBeginning, ~GoesOn(output[consumed + 1]),
           Emit(output[consumed + 1])
    PROVE  Beginning(consumed + 1, pending', state')
<1>1. consumed \in Nat
  BY DEF RelayTypeOK
<1>2. \A a \in 1..consumed + 1 : Partial(a, consumed + 1) <=>
              a = consumed + 1 /\ output[consumed + 1] = "esc"
  BY BeginningsNext
<1>3. CASE output[consumed + 1] = "esc"
  <2>1. state' = "esc" /\ pending' = <<"esc">> /\ Len(pending') = 1
    BY <1>3 DEF Emit
  <2>2. (consumed + 1) - Len(pending') + 1 = consumed + 1
    BY <1>1, <2>1
  <2> QED
    BY <1>1, <1>2, <1>3, <2>1, <2>2 DEF Beginning
<1>4. CASE output[consumed + 1] # "esc"
  <2>1. state' = "normal" /\ pending' = <<>> /\ Len(pending') = 0
    BY <1>4 DEF Emit
  <2> QED
    BY <1>1, <1>2, <1>4, <2>1 DEF Beginning
<1> QED
  BY <1>3, <1>4

\* What the filter lets through and holds back is what is plain, and what it holds
\* back is the beginning that ends at the byte it has just taken.
LEMMA FilterKeeps ==
    ASSUME RelayInv, Filter
    PROVE  HoldsBeginning' /\ Leaves(Plain(consumed), shown \o pending)'
<1> DEFINE n == consumed
           b == output[n + 1]
<1>1. /\ n \in Nat /\ n < Len(output) /\ b \in Bytes
      /\ pending \in Seq(Bytes) /\ shown \in Seq(Bytes) /\ Len(pending) \in Nat
      /\ consumed' = n + 1 /\ output' = output
  <2>1. n \in Nat /\ read \in Nat /\ n < read /\ read <= Len(output) /\ output \in Seq(Bytes)
    BY LenProperties DEF RelayInv, RelayTypeOK, Filter
  <2>2. n + 1 \in 1..Len(output)
    BY <2>1, LenProperties
  <2>3. b \in Bytes
    BY <2>1, <2>2, ElementOfSeq
  <2> QED
    BY <2>1, <2>2, <2>3, LenProperties DEF RelayInv, RelayTypeOK, Filter
<1>2. RelayTypeOK /\ HoldsBeginning /\ Leaves(Plain(n), shown \o pending) /\ Step(b)
  BY DEF RelayInv, Filter
<1>3. shown \o pending \in Seq(Bytes) /\ Plain(n) \in SUBSET (1..n)
  BY <1>1, Together DEF Plain
<1>4. \A a \in 1..n + 1 : IsKbdSequence(a, n + 1) <=>
              Len(pending) > 0 /\ a = Held /\ Ends(b)
  BY <1>2, SequencesNext
<1>5. ASSUME ~Ends(b), shown' \o pending' = Append(shown \o pending, b)
      PROVE  Leaves(Plain(n + 1), shown' \o pending')
  <2>1. \A a \in 1..n + 1 : ~IsKbdSequence(a, n + 1)
    BY <1>4, <1>5
  <2>2. Leaves(Plain(n) \cup {n + 1}, Append(shown \o pending, b))
    BY <1>1, <1>2, <1>3, LeavesGrows
  <2> QED
    BY <1>1, <1>5, <2>1, <2>2, PlainGrows
<1>6. CASE GoesOn(b) /\ ~Ends(b) /\ Holds(b)
  <2>1. shown' = shown /\ pending' = Append(pending, b)
    BY <1>6 DEF Holds
  <2>2. shown \o Append(pending, b) = Append(shown \o pending, b)
    BY <1>1, Together
  <2> QED
    BY <1>1, <1>2, <1>5, <1>6, <2>1, <2>2, GoesOnKeeps, SameOutput
<1>7. CASE ~GoesOn(b) /\ Ends(b) /\ Strip
  <2>1. Len(pending) > 0
    <3>1. state # "normal"
      BY <1>7 DEF Ends, Markers
    <3>2. Len(pending) # 0
      BY <1>2, <3>1 DEF HoldsBeginning, Beginning
    <3> QED
      BY <1>1, <3>2
  <2>2. Held \in 1..n /\ Len(pending) = n - Held + 1
    BY <1>2, <2>1, HeldIs
  <2>3. Held..n \subseteq Plain(n)
    <3>1. Partial(Held, n)
      BY <1>2, <2>1, <2>2 DEF HoldsBeginning, Beginning, Held
    <3> QED
      BY <1>1, <2>2, <3>1, PartialIsPlain
  <2>4. Leaves(Plain(n) \ (Held..n), shown)
    BY <1>1, <1>2, <1>3, <2>2, <2>3, LeavesShrinks
  <2>5. Plain(n + 1) = Plain(n) \ (Held..n)
    BY <1>1, <1>4, <1>7, <2>1, <2>2, PlainShrinks
  <2>6. shown' \o pending' = shown
    BY <1>1, <1>7, Together DEF Strip
  <2> QED
    BY <1>1, <1>2, <1>7, <2>4, <2>5, <2>6, EndsKeeps, SameOutput
<1>8. CASE ~GoesOn(b) /\ ~Ends(b) /\ Emit(b)
  <2>1. shown' \o pending' = Append(shown \o pending, b)
    <3>1. CASE b = "esc"
      <4>1. shown' = shown \o pending /\ pending' = <<b>>
        BY <1>8, <3>1 DEF Emit
      <4>2. (shown \o pending) \o <<b>> = Append(shown \o pending, b)
        BY <1>1, <1>3, Together
      <4> QED
        BY <4>1, <4>2
    <3>2. CASE b # "esc"
      <4>1. shown' = Append(shown \o pending, b) /\ pending' = <<>>
        BY <1>8, <3>2 DEF Emit
      <4>2. Append(shown \o pending, b) \in Seq(Bytes)
        BY <1>1, <1>3, Together
      <4>3. Append(shown \o pending, b) \o <<>> = Append(shown \o pending, b)
        BY <1>1, <4>2, Together
      <4> QED
        BY <4>1, <4>3
    <3> QED
      BY <3>1, <3>2
  <2> QED
    BY <1>1, <1>2, <1>5, <1>8, <2>1, EmitKeeps, SameOutput
<1> QED
  BY <1>2, <1>6, <1>7, <1>8, StepIs

-----------------------------------------------------------------------------
(* The relay: its invariant *)

\* Nothing is read yet.
LEMMA RelayBegins == RelayInit => RelayInv
<1> SUFFICES ASSUME RelayInit PROVE RelayInv
  OBVIOUS
<1>1. output \in Seq(Bytes) /\ Len(output) <= MaxOutput
      /\ typed \in Seq({"key", Detach}) /\ Len(output) \in Nat /\ Len(typed) \in Nat
  <2>1. PICK k \in 0..MaxOutput : output \in [1..k -> Bytes]
    BY DEF RelayInit, UpTo
  <2>2. PICK m \in 0..MaxTyped : typed \in [1..m -> {"key", Detach}]
    BY DEF RelayInit, UpTo
  <2> QED
    BY <2>1, <2>2, RelayAssumption
<1>2. RelayTypeOK
  <2>1. <<>> \in Seq(Bytes)
    OBVIOUS
  <2>2. 0 \in 0..Len(output) /\ 0 \in 0..Len(typed) /\ 0 \in 0..0
    BY <1>1
  <2> QED
    BY <1>1, <2>1, <2>2 DEF RelayInit, RelayTypeOK
<1>3. HoldsBeginning
  BY DEF RelayInit, HoldsBeginning, Beginning
<1>4. Leaves(Plain(consumed), shown \o pending)
  <2>1. Plain(0) = {} /\ Cardinality({}) = 0
    BY FS_EmptySet DEF Plain
  <2>2. <<>> \o <<>> = <<>> /\ Len(<<>>) = 0
    OBVIOUS
  <2> QED
    BY <2>1, <2>2 DEF RelayInit, Leaves
<1>5. \A i \in 1..sent : typed[i] # Detach
  BY DEF RelayInit
<1> QED
  BY <1>2, <1>3, <1>4, <1>5 DEF RelayInv

\* Every step keeps the types.
LEMMA RelayTypeKept ==
    ASSUME RelayTypeOK, [RelayNext]_relay
    PROVE  RelayTypeOK'
<1>1. CASE AgentOutput
  BY <1>1 DEF AgentOutput, RelayTypeOK
<1>2. CASE Filter
  <2>1. /\ consumed + 1 \in 1..Len(output) /\ consumed + 1 \in 0..read
        /\ output \in Seq(Bytes) /\ pending \in Seq(Bytes) /\ shown \in Seq(Bytes)
    BY <1>2, LenProperties DEF RelayTypeOK, Filter
  <2>2. output[consumed + 1] \in Bytes
    BY <2>1, ElementOfSeq
  <2>3. /\ pending' \in Seq(Bytes) /\ shown' \in Seq(Bytes)
        /\ state' \in {"normal", "esc", "csi"} \cup Markers
    <3> DEFINE b == output[consumed + 1]
    <3>1. Step(b)
      BY <1>2 DEF Filter
    <3>2. CASE GoesOn(b) /\ ~Ends(b) /\ Holds(b)
      <4>1. state' \in {"normal", "esc", "csi"} \cup Markers
        BY <3>2 DEF GoesOn, Holds, StateAfter, RelayTypeOK, Markers
      <4> QED
        BY <2>1, <2>2, <3>2, <4>1, Together DEF Holds
    <3>3. CASE Strip
      BY <2>1, <3>3 DEF Strip
    <3>4. CASE Emit(b)
      <4>1. shown \o pending \in Seq(Bytes)
        BY <2>1
      <4>2. Append(shown \o pending, b) \in Seq(Bytes) /\ <<b>> \in Seq(Bytes)
        BY <2>2, <4>1, Together
      <4> HIDE DEF b
      <4>3. CASE b = "esc"
        BY <3>4, <4>1, <4>2, <4>3 DEF Emit
      <4>4. CASE b # "esc"
        <5>1. <<>> \in Seq(Bytes)
          OBVIOUS
        <5> QED
          BY <3>4, <4>2, <4>4, <5>1 DEF Emit
      <4> QED
        BY <4>3, <4>4
    <3> QED
      BY <3>1, <3>2, <3>3, <3>4, StepIs
  <2> QED
    BY <1>2, <2>1, <2>3 DEF RelayTypeOK, Filter
<1>3. CASE KeysTyped
  <2>1. sent' \in 0..Len(typed)
    BY <1>3, LenProperties DEF KeysTyped, RelayTypeOK
  <2> QED
    BY <1>3, <2>1 DEF KeysTyped, RelayTypeOK, terminal
<1>4. CASE Closed
  BY <1>4 DEF Closed, RelayTypeOK, terminal
<1>5. CASE UNCHANGED relay
  BY <1>5 DEF relay, terminal, RelayTypeOK
<1> QED
  BY <1>1, <1>2, <1>3, <1>4, <1>5 DEF RelayNext

\* What goes to the agent was typed before the first detach key.
LEMMA SentKept ==
    ASSUME RelayTypeOK, [RelayNext]_relay, \A i \in 1..sent : typed[i] # Detach
    PROVE  \A i \in 1..sent' : typed'[i] # Detach
<1>1. CASE KeysTyped
  <2>1. sent \in Nat /\ typed' = typed
    BY <1>1 DEF KeysTyped, RelayTypeOK
  <2>2. PICK n \in sent + 1..Len(typed) :
            \/ sent' = n /\ \A i \in sent + 1..n : typed[i] # Detach
            \/ \E i \in sent + 1..n : DetachAt(i) /\ sent' = i - 1
    BY <1>1 DEF KeysTyped
  <2>3. \A i \in sent + 1..sent' : typed[i] # Detach
    BY <2>2 DEF DetachAt
  <2>4. \A i \in 1..sent' : i \in 1..sent \/ i \in sent + 1..sent'
    BY <2>1, <2>2
  <2> QED
    BY <2>1, <2>3, <2>4
<1>2. CASE ~KeysTyped
  BY <1>2 DEF RelayNext, AgentOutput, Filter, Closed, relay
<1> QED
  BY <1>1, <1>2

\* Every step keeps the invariant.
LEMMA RelayKept == RelayInv /\ [RelayNext]_relay => RelayInv'
<1> SUFFICES ASSUME RelayInv, [RelayNext]_relay PROVE RelayInv'
  OBVIOUS
<1>1. RelayTypeOK' /\ (\A i \in 1..sent : typed[i] # Detach)'
  BY RelayTypeKept, SentKept DEF RelayInv
<1>2. HoldsBeginning' /\ Leaves(Plain(consumed), shown \o pending)'
  <2>1. CASE Filter
    BY <2>1, FilterKeeps
  <2>2. CASE ~Filter
    <3>1. UNCHANGED <<output, consumed, state, pending, shown>>
      BY <2>2 DEF RelayNext, AgentOutput, KeysTyped, Closed, relay, terminal
    <3> QED
      BY <3>1, SameOutput DEF RelayInv, HoldsBeginning
  <2> QED
    BY <2>1, <2>2
<1> QED
  BY <1>1, <1>2 DEF RelayInv

LEMMA RelayInvariant == RelaySpec => []RelayInv
BY RelayBegins, RelayKept, PTL DEF RelaySpec

\* The relay's variables have their types: its filter takes no more than was read,
\* and no more is read or sent than there is.
THEOREM RelayTypeCorrect == RelaySpec => []RelayTypeOK
<1>1. RelayInv => RelayTypeOK
  BY DEF RelayInv
<1> QED
  BY <1>1, RelayInvariant, PTL

\* For any output, and wherever the reads cut it, the terminal gets it without the
\* sequences that change its keyboard protocol and otherwise byte for byte; the
\* agent gets what is typed before the first detach key.
THEOREM RelayIsCorrect == RelaySpec => []RelayIsExact
<1>1. RelayInv => RelayIsExact
  <2> SUFFICES ASSUME RelayInv PROVE RelayIsExact
    OBVIOUS
  <2>1. pending # <<>> => state # "normal"
    <3>1. pending \in Seq(Bytes) /\ (Len(pending) = 0 <=> state = "normal")
      BY DEF RelayInv, RelayTypeOK, HoldsBeginning, Beginning
    <3> QED
      BY <3>1, EmptySeq
  <2> QED
    BY <2>1 DEF RelayInv, RelayIsExact
<1> QED
  BY <1>1, RelayInvariant, PTL
===============================================================================
