--------------------------- MODULE PtyStreamProofs ---------------------------
(***************************************************************************)
(* What is proved of the PTY stream for every value of its constants.      *)
(***************************************************************************)
EXTENDS PtyStream, SequenceTheorems, FiniteSetTheorems, TLAPS

-----------------------------------------------------------------------------
(* The ring *)

\* The end of a sequence is a sequence of that many of its elements.
LEMMA NewestProperties ==
    ASSUME NEW S, NEW s \in Seq(S), NEW n \in 0..Len(s)
    PROVE  /\ Newest(s, n) \in Seq(S)
           /\ Len(Newest(s, n)) = n
           /\ \A i \in 1..n : Newest(s, n)[i] = s[Len(s) - n + i]
<1>1. Len(s) \in Nat
  BY LenProperties
<1>2. \A i \in (Len(s) - n + 1)..Len(s) : s[i] \in S
  BY <1>1, ElementOfSeq
<1>3. /\ SubSeq(s, Len(s) - n + 1, Len(s)) \in Seq(S)
      /\ Len(SubSeq(s, Len(s) - n + 1, Len(s))) = n
      /\ \A i \in 1..n :
            SubSeq(s, Len(s) - n + 1, Len(s))[i] = s[Len(s) - n + 1 + i - 1]
  <2>1. /\ Len(s) - n + 1 \in Int /\ Len(s) \in Int
        /\ Len(s) - (Len(s) - n + 1) + 1 = n
    BY <1>1
  <2>2. (IF Len(s) - n + 1 <= Len(s) THEN Len(s) - (Len(s) - n + 1) + 1 ELSE 0) = n
    BY <1>1
  <2> QED
    BY <1>2, <2>1, <2>2, SubSeqProperties
<1>4. \A i \in 1..n : Len(s) - n + 1 + i - 1 = Len(s) - n + i
  BY <1>1
<1> QED
  BY <1>3, <1>4 DEF Newest

\* Written to, a buffer that holds the end of what was written before holds the
\* end of all of it: drained by the overflow, or replaced when the data alone
\* fill it (ScrollbackBuffer::write).
THEOREM RingWriteKeepsTail ==
    ASSUME NEW S, NEW all \in Seq(S), NEW d \in Seq(S)
    PROVE  RingWrite(Kept(all), d) = Kept(all \o d)
<1> DEFINE a == Len(all)
           b == Len(d)
           n == IF a < Capacity THEN a ELSE Capacity
           m == IF a + b < Capacity THEN a + b ELSE Capacity
           both == all \o d
           old == Newest(all, n)
           new == Newest(both, m)
<1>0. /\ n = IF a < Capacity THEN a ELSE Capacity
      /\ m = IF a + b < Capacity THEN a + b ELSE Capacity
      /\ Len(all) = a /\ Len(d) = b
  OBVIOUS
<1>1. /\ a \in Nat /\ b \in Nat /\ Capacity \in Nat
      /\ n \in 0..a /\ m \in 0..(a + b)
  BY LenProperties, CapacityAssumption
<1>2. /\ both \in Seq(S)
      /\ Len(both) = a + b
      /\ \A i \in 1..(a + b) :
            both[i] = IF i <= a THEN all[i] ELSE d[i - a]
  BY ConcatProperties
<1> HIDE DEF a, b, n, m, both
<1>3. /\ old \in Seq(S) /\ Len(old) = n
      /\ \A i \in 1..n : old[i] = all[a - n + i]
  BY <1>0, <1>1, NewestProperties
<1>4. /\ new \in Seq(S) /\ Len(new) = m
      /\ \A i \in 1..m : new[i] = both[a + b - m + i]
  <2>1. m \in 0..Len(both)
    BY <1>1, <1>2
  <2>2. /\ new \in Seq(S) /\ Len(new) = m
        /\ \A i \in 1..m : new[i] = both[Len(both) - m + i]
    BY <1>2, <2>1, NewestProperties
  <2> QED
    BY <1>1, <1>2, <2>2
<1>5. Kept(all) = old /\ Kept(all \o d) = new
  BY <1>0, <1>2 DEF Kept, both
<1> HIDE DEF old, new
<1>6. CASE b >= Capacity
  <2>1. RingWrite(old, d) = Newest(d, Capacity)
    BY <1>0, <1>6 DEF RingWrite
  <2>2. Capacity \in 0..b /\ m = Capacity
    BY <1>0, <1>1, <1>6
  <2>3. /\ Newest(d, m) \in Seq(S) /\ Len(Newest(d, m)) = m
        /\ \A i \in 1..m : Newest(d, m)[i] = d[b - m + i]
    <3>1. m \in 0..Len(d)
      BY <1>0, <2>2
    <3>2. /\ Newest(d, m) \in Seq(S) /\ Len(Newest(d, m)) = m
          /\ \A i \in 1..m : Newest(d, m)[i] = d[Len(d) - m + i]
      BY <3>1, NewestProperties
    <3> QED
      BY <1>0, <3>2
  <2>4. \A i \in 1..m : new[i] = d[b - m + i]
    <3> SUFFICES ASSUME NEW i \in 1..m PROVE new[i] = d[b - m + i]
      OBVIOUS
    <3>1. a + b - m + i \in 1..(a + b) /\ ~(a + b - m + i <= a)
      BY <1>1, <1>6, <2>2
    <3>2. \A j \in 1..(a + b) : ~(j <= a) => both[j] = d[j - a]
      BY <1>2
    <3>3. both[a + b - m + i] = d[a + b - m + i - a]
      BY <1>1, <3>1, <3>2
    <3>4. a + b - m + i - a = b - m + i
      BY <1>1
    <3> QED
      BY <1>4, <3>3, <3>4
  <2>5. Newest(d, Capacity) = new
    BY <1>4, <2>2, <2>3, <2>4, SeqEqual
  <2> QED
    BY <1>5, <2>1, <2>5
<1>7. CASE b < Capacity
  <2> DEFINE over == Overflow(old, d)
             rest == SubSeq(old, over + 1, Len(old))
  <2>1. RingWrite(old, d) = rest \o d
    <3>1. ~(Len(d) >= Capacity)
      BY <1>0, <1>1, <1>7
    <3> QED
      BY <3>1 DEF RingWrite
  <2>2. over = n + b - m /\ over \in 0..n
    BY <1>0, <1>1, <1>3, <1>7 DEF Overflow
  <2>3. /\ rest \in Seq(S) /\ Len(rest) = n - over
        /\ \A i \in 1..(n - over) : rest[i] = old[over + i]
    <3>1. rest = Newest(old, n - over)
      BY <1>1, <1>3, <2>2 DEF Newest
    <3>2. n - over \in 0..Len(old) /\ Len(old) - (n - over) = over
      BY <1>1, <1>3, <2>2
    <3> DEFINE k == n - over
    <3> HIDE DEF k
    <3>3. /\ Newest(old, k) \in Seq(S) /\ Len(Newest(old, k)) = k
          /\ \A i \in 1..k : Newest(old, k)[i] = old[Len(old) - k + i]
      BY <1>3, <3>2, NewestProperties DEF k
    <3> QED
      BY <3>1, <3>2, <3>3 DEF k
  <2> HIDE DEF over, rest
  <2>4. /\ rest \o d \in Seq(S)
        /\ Len(rest \o d) = m
        /\ \A i \in 1..m : (rest \o d)[i] =
              IF i <= n - over THEN rest[i] ELSE d[i - (n - over)]
    <3>1. n - over + b = m
      BY <1>1, <2>2
    <3>2. /\ rest \o d \in Seq(S)
          /\ Len(rest \o d) = Len(rest) + Len(d)
          /\ \A i \in 1..(Len(rest) + Len(d)) : (rest \o d)[i] =
                IF i <= Len(rest) THEN rest[i] ELSE d[i - Len(rest)]
      BY <2>3, ConcatProperties
    <3>3. Len(rest) = n - over /\ Len(rest) + Len(d) = m
      BY <1>0, <2>3, <3>1
    <3> QED
      BY <3>2, <3>3
  <2>5. \A i \in 1..m : (rest \o d)[i] = new[i]
    <3> SUFFICES ASSUME NEW i \in 1..m PROVE (rest \o d)[i] = new[i]
      OBVIOUS
    <3>1. new[i] = IF a + b - m + i <= a THEN all[a + b - m + i]
                   ELSE d[a + b - m + i - a]
      <4>1. a + b - m + i \in 1..(a + b)
        BY <1>1
      <4> QED
        BY <1>1, <1>2, <1>4, <4>1
    <3>2. CASE i <= n - over
      <4>0. i \in 1..(n - over) /\ over + i \in 1..n
        BY <1>1, <2>2, <3>2
      <4>1. (rest \o d)[i] = all[a - n + (over + i)]
        BY <1>3, <2>3, <2>4, <3>2, <4>0
      <4>2. a - n + (over + i) = a + b - m + i /\ a + b - m + i <= a
        BY <1>1, <2>2, <3>2
      <4> QED
        BY <3>1, <4>1, <4>2
    <3>3. CASE ~(i <= n - over)
      <4>1. (rest \o d)[i] = d[i - (n - over)]
        BY <2>4, <3>3
      <4>2. i - (n - over) = a + b - m + i - a /\ ~(a + b - m + i <= a)
        BY <1>1, <2>2, <3>3
      <4> QED
        BY <3>1, <4>1, <4>2
    <3> QED
      BY <3>2, <3>3
  <2>6. rest \o d = new
    BY <1>4, <2>4, <2>5, SeqEqual
  <2> QED
    BY <1>5, <2>1, <2>6
<1> QED
  BY <1>1, <1>6, <1>7

\* A write leaves a buffer of the same kind of elements.
LEMMA RingWriteType ==
    ASSUME NEW S, NEW r \in Seq(S), NEW d \in Seq(S)
    PROVE  RingWrite(r, d) \in Seq(S)
<1>1. Len(r) \in Nat /\ Len(d) \in Nat /\ Capacity \in Nat
  BY LenProperties, CapacityAssumption
<1>2. CASE Len(d) >= Capacity
  <2>1. Newest(d, Capacity) \in Seq(S)
    BY <1>1, <1>2, NewestProperties
  <2> QED
    BY <1>2, <2>1 DEF RingWrite
<1>3. CASE ~(Len(d) >= Capacity)
  <2> DEFINE over == Overflow(r, d)
  <2>1. over \in Nat
    BY <1>1 DEF Overflow
  <2> HIDE DEF over
  <2>2. \A i \in (over + 1)..Len(r) : r[i] \in S
    BY <1>1, <2>1, ElementOfSeq
  <2>3. SubSeq(r, over + 1, Len(r)) \in Seq(S)
    BY <1>1, <2>1, <2>2, SubSeqProperties
  <2>4. SubSeq(r, over + 1, Len(r)) \o d \in Seq(S)
    BY <2>3, ConcatProperties
  <2> QED
    BY <1>3, <2>4 DEF RingWrite, over
<1> QED
  BY <1>2, <1>3

-----------------------------------------------------------------------------
(* Type correctness and the count of viewers *)

\* The number of viewers covers the sessions, as ViewersCoverSessions says.
CountInv == TypeOK /\ ViewersCoverSessions

LEMMA SessionsFinite == IsFiniteSet(Sessions) /\ Cardinality(Sessions) \in Nat
<1>1. Sessions \subseteq Clients
  BY DEF Sessions
<1> QED
  BY <1>1, PtyStreamAssumption, FS_Subset, FS_CardinalityType

\* The chunk a read returns.
LEMMA ChunkType ==
    ASSUME TypeOK, NEW n \in 1..ReadMax, consumed + n <= written
    PROVE  /\ [i \in 1..n |-> consumed + i] \in Seq(Bytes)
           /\ Len([i \in 1..n |-> consumed + i]) = n
<1>1. n \in Nat /\ \A i \in 1..n : consumed + i \in Bytes
  BY PtyStreamAssumption DEF TypeOK, Bytes
<1> QED
  BY <1>1

\* Steps that touch neither the count nor a connection keep types and cover.
LEMMA AgentCounts ==
    ASSUME CountInv,
           Write \/ Exit \/ TerminalCloses \/ Sweep \/ Kill \/ KillTaskEnds
             \/ ReaderStore \/ ReaderSend \/ ReaderEnds
    PROVE  CountInv'
<1>1. UNCHANGED <<viewers, session, attaches>>
  BY DEF Write, Exit, TerminalCloses, Sweep, Kill, KillTaskEnds, ReaderStore,
         ReaderSend, ReaderEnds
<1>2. ViewersCoverSessions'
  BY <1>1 DEF CountInv, ViewersCoverSessions, Sessions, session
<1>3. TypeOK'
  <2>1. CASE Write \/ Exit \/ TerminalCloses \/ Sweep \/ Kill \/ KillTaskEnds
               \/ ReaderEnds
    <3>1. UNCHANGED <<data, consumed, ring, sent, viewers, session, attaches>>
      BY <2>1 DEF Write, Exit, TerminalCloses, Sweep, Kill, KillTaskEnds,
                  ReaderEnds, output
    <3>2. /\ written' \in 0..MaxOutput
          /\ terminal' \in BOOLEAN /\ child' \in BOOLEAN
          /\ agent' \in {"table", "killing", "dropped"}
          /\ reader' \in {"read", "send", "done"}
      <4>1. /\ written \in 0..MaxOutput /\ MaxOutput \in Nat
            /\ terminal \in BOOLEAN /\ child \in BOOLEAN
            /\ agent \in {"table", "killing", "dropped"}
            /\ reader \in {"read", "send", "done"}
        BY PtyStreamAssumption DEF CountInv, TypeOK
      <4>2. \/ written' = written
            \/ written < MaxOutput /\ written' = written + 1
        BY <2>1 DEF Write, Exit, TerminalCloses, Sweep, Kill, KillTaskEnds,
                    ReaderEnds, process
      <4>3. /\ terminal' = terminal \/ terminal' = FALSE
            /\ child' = child \/ child' = FALSE
            /\ agent' \in {agent, "killing", "dropped"}
            /\ reader' \in {reader, "done"}
        BY <2>1 DEF Write, Exit, TerminalCloses, Sweep, Kill, KillTaskEnds,
                    ReaderEnds, process, output
      <4>4. written' \in 0..MaxOutput
        BY <4>1, <4>2
      <4> QED
        BY <4>1, <4>3, <4>4, Zenon
    <3> QED
      BY <3>1, <3>2 DEF CountInv, TypeOK, session
  <2>2. CASE ReaderStore
    <3>1. PICK n \in 1..ReadMax :
            /\ consumed + n <= written
            /\ data' = [i \in 1..n |-> consumed + i]
            /\ ring' = RingWrite(ring, [i \in 1..n |-> consumed + i])
            /\ consumed' = consumed + n
      BY <2>2 DEF ReaderStore
    <3>2. data' \in Seq(Bytes) /\ ring' \in Seq(Bytes)
      BY <3>1, ChunkType, RingWriteType DEF CountInv, TypeOK
    <3>3. consumed' \in 0..MaxOutput
      BY <3>1, PtyStreamAssumption DEF CountInv, TypeOK
    <3> QED
      BY <2>2, <3>2, <3>3 DEF CountInv, TypeOK, ReaderStore, process, session
  <2>3. CASE ReaderSend
    <3>1. sent' \in Seq(Seq(Bytes)) /\ data' \in Seq(Bytes)
      BY <2>3, AppendProperties DEF CountInv, TypeOK, ReaderSend
    <3> QED
      BY <2>3, <3>1 DEF CountInv, TypeOK, ReaderSend, process, session
  <2> QED
    BY <2>1, <2>2, <2>3
<1> QED
  BY <1>2, <1>3 DEF CountInv

\* A connection's phase decides whether it is a session; nobody else's changes.
LEMMA SessionsAfter ==
    ASSUME CountInv, NEW c \in Clients, NEW to \in Phase,
           phase' = [phase EXCEPT ![c] = to]
    PROVE  Sessions' = IF to \in {"greeting", "forwarding", "relay"}
                       THEN Sessions \cup {c} ELSE Sessions \ {c}
BY DEF CountInv, TypeOK, Sessions

\* The count after a step that makes c a session, or makes it none, or neither.
LEMMA CountAfter ==
    ASSUME CountInv, NEW c \in Clients, NEW to \in Phase,
           phase' = [phase EXCEPT ![c] = to],
           \/ viewers' = viewers + 1
           \/ viewers' = viewers /\ (to \in {"greeting", "forwarding", "relay"}
                                       => c \in Sessions)
           \/ viewers' = viewers - 1 /\ c \in Sessions /\ to \in {"closed", "ended"}
    PROVE  viewers' \in Nat /\ ViewersCoverSessions'
<1>1. /\ viewers \in Nat /\ viewers >= Cardinality(Sessions)
      /\ IsFiniteSet(Sessions) /\ Cardinality(Sessions) \in Nat
  BY SessionsFinite DEF CountInv, TypeOK, ViewersCoverSessions
<1>2. /\ Cardinality(Sessions \cup {c}) =
            IF c \in Sessions THEN Cardinality(Sessions)
            ELSE Cardinality(Sessions) + 1
      /\ Cardinality(Sessions \ {c}) =
            IF c \in Sessions THEN Cardinality(Sessions) - 1
            ELSE Cardinality(Sessions)
  BY <1>1, FS_AddElement, FS_RemoveElement
<1>3. c \in Sessions => Cardinality(Sessions) >= 1
  BY <1>1, <1>2, FS_RemoveElement, FS_CardinalityType
<1>4. Sessions' = IF to \in {"greeting", "forwarding", "relay"}
                  THEN Sessions \cup {c} ELSE Sessions \ {c}
  BY SessionsAfter
<1>5. viewers' \in Nat
  BY <1>1, <1>3
<1>6. viewers' >= Cardinality(Sessions')
  BY <1>1, <1>2, <1>3, <1>4
<1> QED
  BY <1>5, <1>6 DEF ViewersCoverSessions

LEMMA ConnectionCounts ==
    ASSUME CountInv, NEW c \in Clients, Connection(c) \/ ClientLeaves(c)
    PROVE  CountInv'
<1>1. CASE ClientLeaves(c)
  BY <1>1 DEF CountInv, TypeOK, ViewersCoverSessions, Sessions, ClientLeaves,
              process, output
<1>2. CASE Connection(c)
  <2>0. /\ phase \in [Clients -> Phase] /\ here \in [Clients -> BOOLEAN]
        /\ next \in [Clients -> Nat] /\ copy \in [Clients -> Seq(Bytes)]
        /\ screen \in [Clients -> Seq(Bytes)] /\ lagged \in [Clients -> BOOLEAN]
        /\ ring \in Seq(Bytes) /\ <<>> \in Seq(Bytes) /\ Len(sent) \in Nat
        /\ ChannelCapacity \in Nat
    BY PtyStreamAssumption, LenProperties DEF CountInv, TypeOK
  <2>1. next' \in [Clients -> Nat]
    <3>1. CASE SkipAhead(c)
      <4>1. next[c] \in Nat /\ Len(sent) - ChannelCapacity \in Nat
        BY <2>0, <3>1 DEF SkipAhead, TooSlow
      <4> QED
        BY <2>0, <3>1, <4>1 DEF SkipAhead
    <3>2. CASE Deliver(c)
      BY <2>0, <3>2 DEF Deliver
    <3>3. CASE Subscribe(c)
      BY <2>0, <3>3 DEF Subscribe
    <3>4. CASE ~SkipAhead(c) /\ ~Deliver(c) /\ ~Subscribe(c)
      <4>1. CopyScrollback(c) \/ ChannelCloses(c) \/ RelayStops(c)
              => next' = next \/ next' = [next EXCEPT ![c] = 0]
        BY DEF CopyScrollback, ChannelCloses, RelayStops, Over, Moves
      <4>2. SendAttached(c) \/ SendScrollback(c) \/ ForwardInput(c)
              => next' = next \/ next' = [next EXCEPT ![c] = 0]
        BY DEF SendAttached, SendScrollback, ForwardInput, Over, Moves
      <4>3. next' = next \/ next' = [next EXCEPT ![c] = 0]
        BY <1>2, <3>4, <4>1, <4>2 DEF Connection
      <4>4. next \in [Clients -> Nat]
        BY <2>0
      <4>5. CASE next' = next
        BY <4>4, <4>5
      <4>6. CASE next' = [next EXCEPT ![c] = 0]
        BY <4>4, <4>6
      <4> QED
        BY <4>3, <4>5, <4>6
    <3> QED
      BY <3>1, <3>2, <3>3, <3>4
  <2>2. screen' \in [Clients -> Seq(Bytes)]
    <3>1. CASE Deliver(c)
      <4>1. /\ next[c] \in Nat /\ next[c] < Len(sent)
            /\ sent \in Seq(Seq(Bytes)) /\ screen[c] \in Seq(Bytes)
        BY <3>1 DEF CountInv, TypeOK, Deliver
      <4>2. sent[next[c] + 1] \in Seq(Bytes)
        BY <4>1, ElementOfSeq, LenProperties
      <4>3. screen[c] \o sent[next[c] + 1] \in Seq(Bytes)
        BY <4>1, <4>2, ConcatProperties
      <4> QED
        BY <3>1, <4>3 DEF CountInv, TypeOK, Deliver
    <3>2. CASE ~Deliver(c)
      <4>1. \/ screen' = screen
            \/ screen' = [screen EXCEPT ![c] = <<>>]
            \/ screen' = [screen EXCEPT ![c] = copy[c]]
        BY <1>2, <3>2
        DEF Connection, Subscribe, CopyScrollback, SendAttached, SendScrollback,
            ForwardInput, SkipAhead, ChannelCloses, RelayStops, Over, Moves
      <4> QED
        BY <2>0, <4>1
    <3> QED
      BY <3>1, <3>2
  <2>3. /\ copy' \in [Clients -> Seq(Bytes)]
        /\ lagged' \in [Clients -> BOOLEAN]
        /\ here' \in [Clients -> BOOLEAN]
        /\ attaches' \in 0..MaxAttach
    <3>1. \/ copy' = copy
          \/ copy' = [copy EXCEPT ![c] = <<>>]
          \/ copy' = [copy EXCEPT ![c] = ring]
      BY <1>2 DEF Connection, Subscribe, CopyScrollback, SendAttached,
          SendScrollback, ForwardInput, Deliver, SkipAhead, ChannelCloses,
          RelayStops, Over, Moves
    <3>2. \/ lagged' = lagged
          \/ lagged' = [lagged EXCEPT ![c] = FALSE]
          \/ lagged' = [lagged EXCEPT ![c] = TRUE]
      BY <1>2 DEF Connection, Subscribe, CopyScrollback, SendAttached,
          SendScrollback, ForwardInput, Deliver, SkipAhead, ChannelCloses,
          RelayStops, Over, Moves
    <3>3. \/ here' = here /\ attaches' = attaches
          \/ /\ here' = [here EXCEPT ![c] = TRUE]
             /\ attaches < MaxAttach /\ attaches' = attaches + 1
      BY <1>2 DEF Connection, Subscribe, CopyScrollback, SendAttached,
          SendScrollback, ForwardInput, Deliver, SkipAhead, ChannelCloses,
          RelayStops
    <3>4. attaches' \in 0..MaxAttach
      BY <3>3, PtyStreamAssumption DEF CountInv, TypeOK
    <3> QED
      BY <2>0, <3>1, <3>2, <3>3, <3>4
  <2>4. UNCHANGED <<process, agent, output>>
    BY <1>2 DEF Connection, Subscribe, CopyScrollback, SendAttached,
        SendScrollback, ForwardInput, Deliver, SkipAhead, ChannelCloses,
        RelayStops
  <2>5. /\ phase' \in [Clients -> Phase]
        /\ viewers' \in Nat /\ ViewersCoverSessions'
    <3>1. CASE Deliver(c) \/ SkipAhead(c)
      BY <3>1 DEF CountInv, TypeOK, ViewersCoverSessions, Sessions, Deliver,
                  SkipAhead
    <3>2. CASE ~(Deliver(c) \/ SkipAhead(c))
      <4>1. PICK to \in Phase :
              /\ phase' = [phase EXCEPT ![c] = to]
              /\ \/ viewers' = viewers + 1
                 \/ viewers' = viewers
                      /\ (to \in {"greeting", "forwarding", "relay"}
                            => c \in Sessions)
                 \/ viewers' = viewers - 1 /\ c \in Sessions
                      /\ to \in {"closed", "ended"}
        BY <1>2, <3>2
        DEF Connection, Subscribe, CopyScrollback, SendAttached, SendScrollback,
            ForwardInput, ChannelCloses, RelayStops, Over, Moves, Phase, Sessions
      <4>2. phase' \in [Clients -> Phase]
        BY <4>1 DEF CountInv, TypeOK
      <4> QED
        BY <4>1, <4>2, CountAfter
    <3> QED
      BY <3>1, <3>2
  <2> QED
    BY <2>1, <2>2, <2>3, <2>4, <2>5 DEF CountInv, TypeOK, process, output
<1> QED
  BY <1>1, <1>2

LEMMA InitCounts == Init => CountInv
<1> SUFFICES ASSUME Init PROVE CountInv
  OBVIOUS
<1>1. TypeOK
  BY PtyStreamAssumption DEF Init, TypeOK, Phase
<1>2. Sessions = {} /\ viewers = 0
  BY DEF Init, Sessions
<1> QED
  BY <1>1, <1>2, FS_EmptySet DEF CountInv, ViewersCoverSessions

THEOREM CountCorrect == Spec => []CountInv
<1>1. CountInv /\ [Next]_vars => CountInv'
  <2> SUFFICES ASSUME CountInv, [Next]_vars PROVE CountInv'
    OBVIOUS
  <2>1. CASE UNCHANGED vars
    BY <2>1 DEF CountInv, TypeOK, ViewersCoverSessions, Sessions, vars
  <2>2. CASE Next
    BY <2>2, AgentCounts, ConnectionCounts DEF Next
  <2> QED
    BY <2>1, <2>2
<1> QED
  BY <1>1, InitCounts, PTL DEF Spec

\* The variables of the stream keep their types; the count of viewers never
\* goes below zero.
THEOREM StreamTypeCorrect == Spec => []TypeOK
BY CountCorrect, PTL DEF CountInv

\* The count of viewers covers the sessions that are running.
THEOREM ViewersCover == Spec => []ViewersCoverSessions
BY CountCorrect, PTL DEF CountInv

-----------------------------------------------------------------------------
(* The invariant *)

\* The last byte of a stretch of output, 0 when it is empty.
EndOf(s) == IF s = <<>> THEN 0 ELSE s[Len(s)]

\* The last byte of the first k of the chunks q.
End(q, k) == IF k = 0 THEN 0 ELSE EndOf(q[k])

\* s is the output that follows on byte a.
Follows(a, s) == \A i \in 1..Len(s) : s[i] = a + i

\* The chunks sent, and the one in the reader's hands, are the output cut up.
ChannelInv ==
    /\ consumed <= written
    /\ Len(data) <= consumed
    /\ Follows(consumed - Len(data), data)
    /\ reader = "send" <=> data # <<>>
    /\ \A k \in 1..Len(sent) : sent[k] # <<>> /\ Follows(End(sent, k - 1), sent[k])
    /\ End(sent, Len(sent)) = consumed - Len(data)
    /\ \A j, k \in 0..Len(sent) : j <= k => End(sent, j) <= End(sent, k)
    /\ reader = "done" => ~terminal /\ consumed = written

\* One client's share of JoinedWithoutGap.
Joined(c) ==
    \A i \in 1..(Len(screen[c]) - 1) :
        /\ screen[c][i + 1] > screen[c][i] + 1 => lagged[c]
        /\ screen[c][i + 1] <= screen[c][i] => i = Len(copy[c])

\* A receiver has everything from where it is to the end of the channel before
\* it, unless it was told Lagged and has not caught up.
Settled(c) == ~lagged[c] \/ next[c] = Len(sent)

\* What the screen of a session in its relay ends with.
RelayInv(c) ==
    /\ Len(screen[c]) >= Len(copy[c])
    /\ EndOf(screen[c]) <= consumed
    /\ Len(screen[c]) = Len(copy[c]) /\ Settled(c)
          => EndOf(screen[c]) >= End(sent, next[c])
    /\ Len(screen[c]) > Len(copy[c]) => EndOf(screen[c]) <= End(sent, next[c])
    /\ Len(screen[c]) > Len(copy[c]) /\ Settled(c)
          => EndOf(screen[c]) = End(sent, next[c])

SessionInv(c) ==
    /\ EndOf(copy[c]) <= consumed
    /\ Follows(EndOf(copy[c]) - Len(copy[c]), copy[c])
    /\ next[c] \in 0..Len(sent)
    /\ phase[c] = "subscribed" => copy[c] = <<>>
    /\ phase[c] \in {"subscribed", "copied", "greeting", "forwarding"}
          => ~lagged[c]
    /\ phase[c] \in {"copied", "greeting", "forwarding"}
          => EndOf(copy[c]) >= End(sent, next[c])
    /\ phase[c] \in {"none", "subscribed", "copied", "greeting", "ended"}
          => screen[c] = <<>>
    /\ phase[c] = "forwarding" => screen[c] = copy[c]
    /\ phase[c] \in {"relay", "closed"} => RelayInv(c)
    /\ phase[c] = "closed" => next[c] = Len(sent) /\ reader = "done"
    /\ Joined(c)

StreamInv ==
    /\ TypeOK
    /\ ChannelInv
    /\ RingIsTail
    /\ \A c \in Clients : SessionInv(c)

-----------------------------------------------------------------------------
(* Stretches of output *)

\* What a buffer of the output so far holds ends with the last byte there is.
LEMMA KeptOutput ==
    ASSUME NEW n \in Nat
    PROVE  /\ Kept(Output(n)) \in Seq(Nat)
           /\ EndOf(Kept(Output(n))) = n
           /\ Follows(n - Len(Kept(Output(n))), Kept(Output(n)))
<1> DEFINE all == Output(n)
           m == IF n < Capacity THEN n ELSE Capacity
<1>1. all \in Seq(Nat) /\ Len(all) = n /\ \A i \in 1..n : all[i] = i
  BY DEF Output
<1>2. m \in 0..n /\ (m = 0 <=> n = 0) /\ Kept(all) = Newest(all, m)
  BY <1>1, CapacityAssumption, PtyStreamAssumption DEF Kept
<1> HIDE DEF all, m
<1>3. /\ Newest(all, m) \in Seq(Nat) /\ Len(Newest(all, m)) = m
      /\ \A i \in 1..m : Newest(all, m)[i] = all[n - m + i]
  <2>1. m \in 0..Len(all)
    BY <1>1, <1>2
  <2>2. /\ Newest(all, m) \in Seq(Nat) /\ Len(Newest(all, m)) = m
        /\ \A i \in 1..m : Newest(all, m)[i] = all[Len(all) - m + i]
    BY <1>1, <2>1, NewestProperties
  <2> QED
    BY <1>1, <2>2
<1>4. \A i \in 1..m : Newest(all, m)[i] = n - m + i
  <2> SUFFICES ASSUME NEW i \in 1..m PROVE Newest(all, m)[i] = n - m + i
    OBVIOUS
  <2>1. n - m + i \in 1..n
    BY <1>2
  <2> QED
    BY <1>1, <1>2, <1>3, <2>1
<1>5. Follows(n - m, Newest(all, m))
  BY <1>3, <1>4 DEF Follows
<1>6. EndOf(Newest(all, m)) = n
  <2>1. CASE m = 0
    BY <1>2, <1>3, <2>1, EmptySeq DEF EndOf
  <2>2. CASE m # 0
    <3>1. Newest(all, m) # <<>> /\ m \in 1..m
      BY <1>2, <1>3, <2>2
    <3>2. Newest(all, m)[m] = n - m + m
      BY <1>4, <3>1
    <3> QED
      BY <1>2, <1>3, <3>1, <3>2 DEF EndOf
  <2> QED
    BY <2>1, <2>2
<1> QED
  BY <1>2, <1>3, <1>5, <1>6 DEF all

\* The last of a stretch of bytes is a number.
LEMMA EndOfBytes == ASSUME NEW s \in Seq(Bytes) PROVE EndOf(s) \in Nat
<1>1. s # <<>> => s[Len(s)] \in Bytes
  BY EmptySeq, ElementOfSeq
<1> QED
  BY <1>1, PtyStreamAssumption DEF EndOf, Bytes

LEMMA EndType ==
    ASSUME NEW q \in Seq(Seq(Bytes)), NEW k \in 0..Len(q)
    PROVE  End(q, k) \in Nat
<1>1. k # 0 => q[k] \in Seq(Bytes)
  BY LenProperties, ElementOfSeq
<1> QED
  BY <1>1, EndOfBytes DEF End

\* The output so far and the chunk that follows on it are the output then.
LEMMA OutputGrows ==
    ASSUME NEW n \in Nat, NEW m \in Nat
    PROVE  Output(n) \o [i \in 1..m |-> n + i] = Output(n + m)
<1> DEFINE a == Output(n)
           b == [i \in 1..m |-> n + i]
           t == Output(n + m)
<1>1. /\ a \in Seq(Nat) /\ Len(a) = n /\ \A i \in 1..n : a[i] = i
      /\ b \in Seq(Nat) /\ Len(b) = m /\ \A i \in 1..m : b[i] = n + i
      /\ t \in Seq(Nat) /\ Len(t) = n + m /\ \A i \in 1..(n + m) : t[i] = i
  BY DEF Output
<1> HIDE DEF a, b, t
<1>2. /\ a \o b \in Seq(Nat) /\ Len(a \o b) = Len(a) + Len(b)
      /\ \A i \in 1..(Len(a) + Len(b)) :
            (a \o b)[i] = IF i <= Len(a) THEN a[i] ELSE b[i - Len(a)]
  BY <1>1, ConcatProperties
<1>3. \A i \in 1..(n + m) : (a \o b)[i] = t[i]
  <2> SUFFICES ASSUME NEW i \in 1..(n + m) PROVE (a \o b)[i] = t[i]
    OBVIOUS
  <2>1. (a \o b)[i] = IF i <= n THEN a[i] ELSE b[i - n]
    BY <1>1, <1>2
  <2>2. CASE i <= n
    BY <1>1, <2>1, <2>2
  <2>3. CASE ~(i <= n)
    <3>1. i - n \in 1..m
      BY <2>3
    <3> QED
      BY <1>1, <2>1, <2>3, <3>1
  <2> QED
    BY <2>2, <2>3
<1>4. a \o b = t
  BY <1>1, <1>2, <1>3, SeqEqual
<1> QED
  BY <1>4 DEF a, b, t

-----------------------------------------------------------------------------
(* The invariant holds: the process, the Agent and the reader *)

LEMMA InitStream == Init => StreamInv
<1> SUFFICES ASSUME Init PROVE StreamInv
  OBVIOUS
<1>1. TypeOK
  BY InitCounts DEF CountInv
<1>2. ChannelInv
  <2>1. /\ written = 0 /\ consumed = 0 /\ reader = "read"
        /\ data = <<>> /\ Len(data) = 0 /\ sent = <<>> /\ Len(sent) = 0
    BY DEF Init
  <2>2. End(sent, 0) = 0 /\ Follows(0, data)
    BY <2>1 DEF End, Follows
  <2>3. \A j, k \in 0..0 : j = 0 /\ k = 0
    OBVIOUS
  <2>4. \A j, k \in 0..Len(sent) : j <= k => End(sent, j) <= End(sent, k)
    BY <2>1, <2>2, <2>3
  <2> QED
    BY <2>1, <2>2, <2>4 DEF ChannelInv
<1>3. RingIsTail
  <2>1. Output(0) = <<>>
    BY DEF Output
  <2>2. Kept(Output(0)) = <<>>
    <3>1. Kept(<<>>) = SubSeq(<<>>, 1, 0)
      BY CapacityAssumption, PtyStreamAssumption DEF Kept, Newest
    <3> QED
      BY <2>1, <3>1, SubSeqEmpty
  <2> QED
    BY <2>2 DEF Init, RingIsTail
<1>4. \A c \in Clients : SessionInv(c)
  BY DEF Init, SessionInv, Follows, EndOf, Joined
<1> QED
  BY <1>1, <1>2, <1>3, <1>4 DEF StreamInv

\* Steps that neither read nor send nor touch a connection.
LEMMA ProcessStream ==
    ASSUME StreamInv, TypeOK',
           Write \/ Exit \/ TerminalCloses \/ Sweep \/ Kill \/ KillTaskEnds
    PROVE  StreamInv'
<1>1. UNCHANGED <<output, session>>
  BY DEF Write, Exit, TerminalCloses, Sweep, Kill, KillTaskEnds
<1>2. /\ written' = written \/ (terminal /\ written' = written + 1)
      /\ ~terminal => ~terminal'
  BY DEF Write, Exit, TerminalCloses, Sweep, Kill, KillTaskEnds, process
<1>3. ChannelInv'
  <2>1. consumed' <= written' /\ (reader' = "done" => ~terminal' /\ consumed' = written')
    BY <1>1, <1>2 DEF StreamInv, TypeOK, ChannelInv, output
  <2> QED
    BY <1>1, <2>1 DEF StreamInv, ChannelInv, output
<1>4. RingIsTail'
  BY <1>1 DEF StreamInv, RingIsTail, output
<1>5. \A c \in Clients : SessionInv(c)'
  BY <1>1 DEF StreamInv, SessionInv, RelayInv, Settled, Joined, output, session
<1> QED
  BY <1>3, <1>4, <1>5 DEF StreamInv

LEMMA ReaderEndsStream ==
    ASSUME StreamInv, TypeOK', ReaderEnds
    PROVE  StreamInv'
<1>1. /\ UNCHANGED <<written, terminal, data, consumed, ring, sent, session>>
      /\ reader = "read" /\ reader' = "done" /\ ~terminal /\ consumed = written
  BY DEF ReaderEnds, process
<1>2. ChannelInv'
  BY <1>1 DEF StreamInv, ChannelInv
<1>3. RingIsTail'
  BY <1>1 DEF StreamInv, RingIsTail
<1>4. \A c \in Clients : SessionInv(c)'
  BY <1>1 DEF StreamInv, SessionInv, RelayInv, Settled, Joined, session
<1> QED
  BY <1>2, <1>3, <1>4 DEF StreamInv

LEMMA ReaderStoreStream ==
    ASSUME StreamInv, TypeOK', ReaderStore
    PROVE  StreamInv'
<1>1. PICK n \in 1..ReadMax :
        /\ consumed + n <= written
        /\ data' = [i \in 1..n |-> consumed + i]
        /\ ring' = RingWrite(ring, [i \in 1..n |-> consumed + i])
        /\ consumed' = consumed + n
  BY DEF ReaderStore
<1>2. /\ reader = "read" /\ reader' = "send"
      /\ UNCHANGED <<written, terminal, sent, session>>
  BY DEF ReaderStore, process
<1>3. n \in Nat \ {0} /\ consumed \in Nat /\ written \in Nat
  BY PtyStreamAssumption DEF StreamInv, TypeOK
<1>4. data' # <<>> /\ Len(data') = n /\ \A i \in 1..n : data'[i] = consumed + i
  BY <1>1, <1>3
<1>5. ChannelInv'
  <2>1. Follows(consumed' - Len(data'), data')
    BY <1>1, <1>3, <1>4 DEF Follows
  <2>2. data = <<>>
    BY <1>2 DEF StreamInv, ChannelInv
  <2>3. End(sent, Len(sent)) = consumed
    BY <1>3, <2>2 DEF StreamInv, ChannelInv
  <2>4. consumed' - Len(data') = consumed /\ Len(data') <= consumed'
    BY <1>1, <1>3, <1>4
  <2> QED
    BY <1>1, <1>2, <1>4, <2>1, <2>3, <2>4 DEF StreamInv, ChannelInv
<1>6. RingIsTail'
  <2>1. /\ Output(consumed) \in Seq(Nat)
        /\ [i \in 1..n |-> consumed + i] \in Seq(Nat)
    BY <1>3 DEF Output
  <2>2. ring' = Kept(Output(consumed) \o [i \in 1..n |-> consumed + i])
    BY <1>1, <2>1, RingWriteKeepsTail DEF StreamInv, RingIsTail
  <2> QED
    BY <1>1, <1>3, <2>2, OutputGrows DEF RingIsTail
<1>7. ASSUME NEW c \in Clients PROVE SessionInv(c)'
  <2>1. SessionInv(c)
    BY DEF StreamInv
  <2>2. consumed' >= consumed /\ consumed' \in Nat
    BY <1>1, <1>3
  <2>3. EndOf(copy[c]) \in Nat /\ EndOf(screen[c]) \in Nat
    BY EndOfBytes DEF StreamInv, TypeOK
  <2>4. EndOf(copy[c])' <= consumed'
    BY <1>2, <1>3, <2>1, <2>2, <2>3 DEF SessionInv, session
  <2>5. RelayInv(c) => RelayInv(c)'
    BY <1>2, <1>3, <2>2, <2>3 DEF RelayInv, Settled, session
  <2> QED
    BY <1>2, <2>1, <2>4, <2>5 DEF SessionInv, Joined, session
<1> QED
  BY <1>5, <1>6, <1>7 DEF StreamInv

LEMMA ReaderSendStream ==
    ASSUME StreamInv, TypeOK', ReaderSend
    PROVE  StreamInv'
<1>1. /\ reader = "send" /\ reader' = "read"
      /\ sent' = Append(sent, data) /\ data' = <<>>
      /\ UNCHANGED <<written, terminal, consumed, ring, session>>
  BY DEF ReaderSend, process
<1> DEFINE n == Len(sent)
<1>2. /\ n \in Nat /\ consumed \in Nat
      /\ data \in Seq(Bytes) /\ sent \in Seq(Seq(Bytes))
  BY LenProperties DEF StreamInv, TypeOK
<1>3. /\ Len(sent') = n + 1
      /\ \A k \in 1..n : sent'[k] = sent[k]
      /\ sent'[n + 1] = data
  BY <1>1, <1>2, AppendProperties
<1> HIDE DEF n
<1>4. \A k \in 0..n : End(sent', k) = End(sent, k)
  BY <1>2, <1>3 DEF End
<1>5. data # <<>> /\ Len(data) \in Nat \ {0} /\ Len(data) <= consumed
  BY <1>1, <1>2, EmptySeq, LenProperties DEF StreamInv, ChannelInv
<1>6. End(sent', n + 1) = consumed
  <2>1. End(sent', n + 1) = EndOf(data)
    BY <1>2, <1>3 DEF End
  <2>2. data[Len(data)] = consumed - Len(data) + Len(data)
    BY <1>5 DEF StreamInv, ChannelInv, Follows
  <2>3. consumed - Len(data) + Len(data) = consumed
    BY <1>2, <1>5
  <2> QED
    BY <1>5, <2>1, <2>2, <2>3 DEF EndOf
<1>7. End(sent, n) = consumed - Len(data)
  BY DEF StreamInv, ChannelInv, n
<1>8. ChannelInv'
  <2>1. \A k \in 1..(n + 1) : sent'[k] # <<>> /\ Follows(End(sent', k - 1), sent'[k])
    <3> SUFFICES ASSUME NEW k \in 1..(n + 1)
                 PROVE  sent'[k] # <<>> /\ Follows(End(sent', k - 1), sent'[k])
      OBVIOUS
    <3>1. CASE k \in 1..n
      <4>1. k - 1 \in 0..n
        BY <1>2, <3>1
      <4> QED
        BY <1>3, <1>4, <3>1, <4>1 DEF StreamInv, ChannelInv, n
    <3>2. CASE k = n + 1
      <4>1. k - 1 = n /\ n \in 0..n
        BY <1>2, <3>2
      <4>2. End(sent', k - 1) = consumed - Len(data)
        BY <1>4, <1>7, <4>1
      <4> QED
        BY <1>3, <1>5, <3>2, <4>2 DEF StreamInv, ChannelInv
    <3> QED
      BY <1>2, <3>1, <3>2
  <2>2. \A j, k \in 0..(n + 1) : j <= k => End(sent', j) <= End(sent', k)
    <3>1. \A j \in 0..n : End(sent, j) <= consumed
      <4> SUFFICES ASSUME NEW j \in 0..n PROVE End(sent, j) <= consumed
        OBVIOUS
      <4>1. End(sent, j) <= End(sent, n)
        BY <1>2 DEF StreamInv, ChannelInv, n
      <4>2. End(sent, j) \in Nat
        BY <1>2, EndType DEF n
      <4> QED
        BY <1>2, <1>5, <1>7, <4>1, <4>2
    <3> SUFFICES ASSUME NEW j \in 0..(n + 1), NEW k \in 0..(n + 1), j <= k
                 PROVE  End(sent', j) <= End(sent', k)
      OBVIOUS
    <3>2. CASE k \in 0..n
      <4>1. j \in 0..n
        BY <1>2, <3>2
      <4>2. End(sent, j) <= End(sent, k)
        BY <3>2, <4>1 DEF StreamInv, ChannelInv, n
      <4> QED
        BY <1>4, <3>2, <4>1, <4>2
    <3>3. CASE k = n + 1 /\ j \in 0..n
      BY <1>4, <1>6, <3>1, <3>3
    <3>4. CASE k = n + 1 /\ j = n + 1
      BY <1>2, <1>6, <3>4
    <3> QED
      BY <1>2, <3>2, <3>3, <3>4
  <2>3. /\ Len(data') = 0 /\ consumed' - Len(data') = consumed
        /\ Len(data') <= consumed'
        /\ Follows(consumed' - Len(data'), data')
    BY <1>1, <1>2 DEF Follows
  <2> QED
    BY <1>1, <1>3, <1>6, <2>1, <2>2, <2>3 DEF StreamInv, ChannelInv
<1>9. RingIsTail'
  BY <1>1 DEF StreamInv, RingIsTail
<1>10. ASSUME NEW c \in Clients PROVE SessionInv(c)'
  <2>1. SessionInv(c) /\ UNCHANGED session
    BY <1>1 DEF StreamInv
  <2>2. next[c] \in 0..n /\ next[c] \in 0..(n + 1) /\ next[c] # n + 1
    BY <1>2, <2>1 DEF SessionInv, n
  <2>3. End(sent', next[c]) = End(sent, next[c])
    BY <1>4, <2>2
  <2>4. Settled(c)' => Settled(c)
    BY <1>3, <2>1, <2>2 DEF Settled, session
  <2>5. RelayInv(c) => RelayInv(c)'
    BY <1>1, <2>1, <2>3, <2>4 DEF RelayInv, session
  <2> QED
    BY <1>1, <1>3, <2>1, <2>2, <2>3, <2>5 DEF SessionInv, Joined, session
<1> QED
  BY <1>8, <1>9, <1>10 DEF StreamInv

-----------------------------------------------------------------------------
(* The invariant holds: connections *)

\* The other connections are left as they are.
LEMMA OtherSessions ==
    ASSUME StreamInv, TypeOK', NEW c \in Clients,
           Connection(c) \/ ClientLeaves(c)
    PROVE  /\ UNCHANGED <<process, output>>
           /\ ChannelInv' /\ RingIsTail'
           /\ \A d \in Clients \ {c} : SessionInv(d)'
<1>1. UNCHANGED <<process, output>>
  BY DEF Connection, Subscribe, CopyScrollback, SendAttached, SendScrollback,
         ForwardInput, Deliver, SkipAhead, ChannelCloses, RelayStops,
         ClientLeaves
<1>2. ChannelInv' /\ RingIsTail'
  BY <1>1 DEF StreamInv, ChannelInv, RingIsTail, process, output
<1>3. ASSUME NEW d \in Clients \ {c} PROVE SessionInv(d)'
  <2>1. /\ phase'[d] = phase[d] /\ next'[d] = next[d] /\ copy'[d] = copy[d]
        /\ screen'[d] = screen[d] /\ lagged'[d] = lagged[d]
    <3>1. CASE ClientLeaves(c)
      BY <3>1 DEF ClientLeaves
    <3>2. CASE Subscribe(c) \/ CopyScrollback(c) \/ Deliver(c) \/ SkipAhead(c)
      BY <3>2 DEF StreamInv, TypeOK, Subscribe, CopyScrollback, Deliver,
                  SkipAhead
    <3>3. CASE SendAttached(c) \/ SendScrollback(c) \/ ForwardInput(c)
      BY <3>3 DEF StreamInv, TypeOK, SendAttached, SendScrollback, ForwardInput,
                  Over, Moves
    <3>4. CASE ChannelCloses(c) \/ RelayStops(c)
      BY <3>4 DEF StreamInv, TypeOK, ChannelCloses, RelayStops, Over, Moves
    <3> QED
      BY <3>1, <3>2, <3>3, <3>4 DEF Connection
  <2>2. SessionInv(d)
    BY DEF StreamInv
  <2> QED
    BY <1>1, <2>1, <2>2 DEF SessionInv, RelayInv, Settled, Joined, output
<1> QED
  BY <1>1, <1>2, <1>3

\* A connection that is over holds nothing.
LEMMA OverSession ==
    ASSUME StreamInv, NEW c \in Clients, Over(c), UNCHANGED output
    PROVE  SessionInv(c)'
<1>1. /\ phase'[c] = "ended" /\ next'[c] = 0 /\ copy'[c] = <<>>
      /\ screen'[c] = <<>> /\ lagged'[c] = FALSE
  BY DEF StreamInv, TypeOK, Over
<1>2. /\ Len(sent') \in Nat /\ consumed' \in Nat
      /\ EndOf(<<>>) = 0 /\ Len(<<>>) = 0
  BY LenProperties DEF StreamInv, TypeOK, output, EndOf
<1> QED
  BY <1>1, <1>2 DEF SessionInv, Joined, Follows

LEMMA SubscribeSession ==
    ASSUME StreamInv, NEW c \in Clients, Subscribe(c)
    PROVE  SessionInv(c)'
<1>1. /\ phase'[c] = "subscribed" /\ next'[c] = Len(sent) /\ copy'[c] = <<>>
      /\ screen'[c] = <<>> /\ lagged'[c] = FALSE /\ UNCHANGED output
  BY DEF StreamInv, TypeOK, Subscribe
<1>2. /\ Len(sent') \in Nat /\ consumed' \in Nat /\ sent' = sent
      /\ EndOf(<<>>) = 0 /\ Len(<<>>) = 0
  BY <1>1, LenProperties DEF StreamInv, TypeOK, output, EndOf
<1> QED
  BY <1>1, <1>2 DEF SessionInv, Joined, Follows

\* What has been sent by now is in the ring by now: the copy reaches back to
\* where the receiver starts.
LEMMA CopySession ==
    ASSUME StreamInv, NEW c \in Clients, CopyScrollback(c)
    PROVE  SessionInv(c)'
<1>1. /\ phase[c] = "subscribed" /\ phase'[c] = "copied" /\ copy'[c] = ring
      /\ next'[c] = next[c] /\ screen'[c] = screen[c] /\ lagged'[c] = lagged[c]
      /\ UNCHANGED output
  BY DEF StreamInv, TypeOK, CopyScrollback
<1>2. SessionInv(c) /\ screen[c] = <<>>
  BY <1>1 DEF StreamInv, SessionInv
<1>3. consumed \in Nat /\ Len(sent) \in Nat /\ sent \in Seq(Seq(Bytes))
  BY LenProperties DEF StreamInv, TypeOK
<1>4. EndOf(ring) = consumed /\ Follows(consumed - Len(ring), ring)
  BY <1>3, KeptOutput DEF StreamInv, RingIsTail
<1>5. End(sent, next[c]) <= consumed
  <2>1. next[c] \in 0..Len(sent)
    BY <1>2 DEF SessionInv
  <2>2. End(sent, next[c]) <= End(sent, Len(sent))
    BY <1>3, <2>1 DEF StreamInv, ChannelInv
  <2>3. End(sent, Len(sent)) = consumed - Len(data) /\ Len(data) \in Nat
    BY LenProperties DEF StreamInv, ChannelInv, TypeOK
  <2>4. End(sent, next[c]) \in Nat
    BY <1>3, <2>1, EndType
  <2> QED
    BY <1>3, <2>2, <2>3, <2>4
<1> QED
  BY <1>1, <1>2, <1>3, <1>4, <1>5 DEF SessionInv, Joined, output

LEMMA SendAttachedSession ==
    ASSUME StreamInv, NEW c \in Clients, SendAttached(c)
    PROVE  SessionInv(c)'
<1>1. UNCHANGED output /\ SessionInv(c) /\ phase[c] = "copied"
  BY DEF SendAttached, StreamInv
<1>2. CASE here[c]
  <2>1. /\ phase'[c] = "greeting" /\ copy'[c] = copy[c] /\ next'[c] = next[c]
        /\ screen'[c] = screen[c] /\ lagged'[c] = lagged[c]
    BY <1>2 DEF StreamInv, TypeOK, SendAttached, Moves
  <2> QED
    BY <1>1, <2>1 DEF SessionInv, Joined, output
<1>3. CASE ~here[c]
  BY <1>1, <1>3, OverSession DEF SendAttached
<1> QED
  BY <1>2, <1>3

LEMMA SendScrollbackSession ==
    ASSUME StreamInv, NEW c \in Clients, SendScrollback(c)
    PROVE  SessionInv(c)'
<1>1. UNCHANGED output /\ SessionInv(c) /\ phase[c] = "greeting"
  BY DEF SendScrollback, StreamInv
<1>2. CASE here[c] \/ copy[c] = <<>>
  <2>1. /\ phase'[c] = "forwarding" /\ copy'[c] = copy[c] /\ next'[c] = next[c]
        /\ screen'[c] = copy[c] /\ lagged'[c] = lagged[c]
    BY <1>2 DEF StreamInv, TypeOK, SendScrollback, Moves
  <2>2. /\ copy[c] \in Seq(Bytes) /\ Len(copy[c]) \in Nat
        /\ EndOf(copy[c]) \in Nat
    BY LenProperties, EndOfBytes DEF StreamInv, TypeOK
  <2>3. ASSUME NEW i \in 1..(Len(copy[c]) - 1)
        PROVE  copy[c][i + 1] = copy[c][i] + 1 /\ copy[c][i] \in Nat
    <3> DEFINE a == EndOf(copy[c]) - Len(copy[c])
    <3>1. i \in 1..Len(copy[c]) /\ i + 1 \in 1..Len(copy[c]) /\ a \in Int
      BY <2>2
    <3> HIDE DEF a
    <3>2. copy[c][i] = a + i /\ copy[c][i + 1] = a + (i + 1)
      BY <1>1, <3>1 DEF SessionInv, Follows, a
    <3>3. copy[c][i] \in Nat
      BY <2>2, <3>1, ElementOfSeq, PtyStreamAssumption DEF Bytes
    <3> QED
      BY <3>1, <3>2, <3>3
  <2>4. Joined(c)'
    BY <2>1, <2>3 DEF Joined
  <2> QED
    BY <1>1, <2>1, <2>4 DEF SessionInv, output
<1>3. CASE ~(here[c] \/ copy[c] = <<>>)
  BY <1>1, <1>3, OverSession DEF SendScrollback
<1> QED
  BY <1>2, <1>3

LEMMA ForwardInputSession ==
    ASSUME StreamInv, NEW c \in Clients, ForwardInput(c)
    PROVE  SessionInv(c)'
<1>1. UNCHANGED output /\ SessionInv(c) /\ phase[c] = "forwarding"
  BY DEF ForwardInput, StreamInv
<1>2. CASE Moves(c, "relay") /\ UNCHANGED screen
  <2>1. /\ phase'[c] = "relay" /\ copy'[c] = copy[c] /\ next'[c] = next[c]
        /\ screen'[c] = screen[c] /\ lagged'[c] = lagged[c]
    BY <1>2 DEF StreamInv, TypeOK, Moves
  <2>2. screen[c] = copy[c] /\ EndOf(copy[c]) >= End(sent, next[c])
    BY <1>1 DEF SessionInv
  <2>3. Len(copy[c]) \in Nat
    BY LenProperties DEF StreamInv, TypeOK
  <2>4. RelayInv(c)'
    BY <1>1, <2>1, <2>2, <2>3 DEF SessionInv, RelayInv, output
  <2> QED
    BY <1>1, <2>1, <2>4 DEF SessionInv, Joined, output
<1>3. CASE Over(c)
  BY <1>1, <1>3, OverSession
<1> QED
  BY <1>2, <1>3 DEF ForwardInput

\* The chunk a receiver takes follows on the chunks before it; the step back it
\* may mean for the screen is at the join, the step forward after a Lagged.
LEMMA DeliverSession ==
    ASSUME StreamInv, NEW c \in Clients, Deliver(c)
    PROVE  SessionInv(c)'
<1> DEFINE old == screen[c]
           chunk == sent[next[c] + 1]
           before == End(sent, next[c])
           len == Len(old)
<1>1. /\ UNCHANGED output /\ phase[c] = "relay" /\ phase'[c] = "relay"
      /\ next[c] < Len(sent) /\ next'[c] = next[c] + 1
      /\ screen'[c] = old \o chunk
      /\ copy'[c] = copy[c] /\ lagged'[c] = lagged[c]
  BY DEF StreamInv, TypeOK, Deliver
<1>2. SessionInv(c) /\ RelayInv(c) /\ Joined(c)
  BY <1>1 DEF StreamInv, SessionInv
<1>3. /\ next[c] \in Nat /\ Len(sent) \in Nat /\ next[c] + 1 \in 1..Len(sent)
      /\ sent \in Seq(Seq(Bytes)) /\ consumed \in Nat
      /\ old \in Seq(Bytes) /\ len \in Nat /\ Len(copy[c]) \in Nat
  BY <1>1, LenProperties DEF StreamInv, TypeOK
<1>4. chunk \in Seq(Bytes) /\ Len(chunk) \in Nat \ {0} /\ chunk # <<>>
  <2>1. chunk \in Seq(Bytes)
    BY <1>3, ElementOfSeq
  <2>2. chunk # <<>>
    BY <1>3 DEF StreamInv, ChannelInv
  <2> QED
    BY <2>1, <2>2, EmptySeq
<1>5. before \in Nat /\ \A i \in 1..Len(chunk) : chunk[i] = before + i
  <2>1. next[c] + 1 - 1 = next[c] /\ next[c] \in 0..Len(sent)
    BY <1>3
  <2>2. Follows(End(sent, next[c] + 1 - 1), chunk)
    BY <1>3 DEF StreamInv, ChannelInv
  <2> QED
    BY <1>3, <2>1, <2>2, EndType DEF Follows
<1>6. End(sent, next[c] + 1) = EndOf(chunk)
  BY <1>3 DEF End
<1>7. End(sent, next[c] + 1) <= consumed
  <2>1. End(sent, next[c] + 1) <= End(sent, Len(sent))
    BY <1>3 DEF StreamInv, ChannelInv
  <2>2. End(sent, Len(sent)) = consumed - Len(data) /\ Len(data) \in Nat
    BY LenProperties DEF StreamInv, ChannelInv, TypeOK
  <2>3. End(sent, next[c] + 1) \in Nat
    BY <1>3, EndType
  <2> QED
    BY <1>3, <2>1, <2>2, <2>3
<1> HIDE DEF old, chunk, before, len
<1>8. /\ old \o chunk \in Seq(Bytes)
      /\ Len(old \o chunk) = len + Len(chunk)
      /\ \A i \in 1..(len + Len(chunk)) :
            (old \o chunk)[i] = IF i <= len THEN old[i] ELSE chunk[i - len]
  BY <1>3, <1>4, ConcatProperties DEF len
<1>9. EndOf(old \o chunk) = EndOf(chunk)
  <2>1. /\ len + Len(chunk) \in 1..(len + Len(chunk))
        /\ ~(len + Len(chunk) <= len)
        /\ len + Len(chunk) - len = Len(chunk)
    BY <1>3, <1>4
  <2>2. (old \o chunk)[len + Len(chunk)] = chunk[Len(chunk)]
    BY <1>3, <1>4, <1>8, <2>1
  <2>3. old \o chunk # <<>>
    BY <1>3, <1>4, <1>8
  <2> QED
    BY <1>4, <1>8, <2>2, <2>3 DEF EndOf
<1>10. RelayInv(c)'
  <2>1. /\ Len(screen'[c]) > Len(copy'[c])
        /\ EndOf(screen'[c]) = End(sent', next'[c])
        /\ EndOf(screen'[c]) <= consumed'
    <3>1. len >= Len(copy[c])
      BY <1>2 DEF RelayInv, old, len
    <3>2. Len(old \o chunk) > Len(copy[c])
      BY <1>3, <1>4, <1>8, <3>1
    <3>3. EndOf(screen'[c]) = End(sent', next'[c])
      BY <1>1, <1>6, <1>9 DEF output
    <3>4. EndOf(screen'[c]) <= consumed'
      BY <1>1, <1>6, <1>7, <1>9 DEF output
    <3> QED
      BY <1>1, <3>2, <3>3, <3>4
  <2>2. EndOf(screen'[c]) \in Nat /\ Len(copy'[c]) \in Nat /\ Len(screen'[c]) \in Nat
    <3>1. EndOf(old \o chunk) \in Nat /\ Len(old \o chunk) \in Nat
      BY <1>8, EndOfBytes, LenProperties
    <3> QED
      BY <1>1, <1>3, <3>1
  <2> QED
    BY <2>1, <2>2 DEF RelayInv
<1>11. ASSUME NEW i \in 1..(Len(old \o chunk) - 1)
       PROVE  /\ (old \o chunk)[i + 1] > (old \o chunk)[i] + 1 => lagged[c]
              /\ (old \o chunk)[i + 1] <= (old \o chunk)[i] => i = Len(copy[c])
  <2>1. /\ i \in Nat \ {0} /\ i \in 1..(len + Len(chunk))
        /\ i + 1 \in 1..(len + Len(chunk))
    BY <1>3, <1>4, <1>8
  <2>2. CASE i < len
    <3>1. (old \o chunk)[i] = old[i] /\ (old \o chunk)[i + 1] = old[i + 1]
      BY <1>3, <1>8, <2>1, <2>2
    <3>2. i \in 1..(Len(old) - 1)
      BY <1>3, <2>1, <2>2 DEF len
    <3> QED
      BY <1>2, <3>1, <3>2 DEF Joined, old
  <2>3. CASE i = len
    <3>1. /\ (old \o chunk)[i] = EndOf(old) /\ EndOf(old) \in Nat
      <4>1. old # <<>> /\ (old \o chunk)[i] = old[len]
        BY <1>3, <1>8, <2>1, <2>3, EmptySeq DEF len
      <4> QED
        BY <1>3, <4>1, EndOfBytes DEF EndOf, len
    <3>2. (old \o chunk)[i + 1] = before + 1
      <4>1. ~(i + 1 <= len) /\ i + 1 - len = 1 /\ 1 \in 1..Len(chunk)
        BY <1>3, <1>4, <2>3
      <4>2. (old \o chunk)[i + 1] = chunk[i + 1 - len]
        BY <1>3, <1>4, <1>8, <2>1, <4>1
      <4> QED
        BY <1>5, <4>1, <4>2
    <3>3. CASE len = Len(copy[c])
      <4>1. ~lagged[c] => EndOf(old) >= before
        BY <1>2, <3>3 DEF RelayInv, Settled, old, len, before
      <4> QED
        BY <1>5, <2>3, <3>1, <3>2, <3>3, <4>1
    <3>4. CASE len > Len(copy[c])
      <4>1. EndOf(old) <= before /\ (~lagged[c] => EndOf(old) = before)
        BY <1>2, <3>4 DEF RelayInv, Settled, old, len, before
      <4> QED
        BY <1>5, <3>1, <3>2, <4>1
    <3>5. len >= Len(copy[c])
      BY <1>2 DEF RelayInv, old, len
    <3> QED
      BY <1>3, <3>3, <3>4, <3>5
  <2>4. CASE i > len
    <3>1. /\ ~(i <= len) /\ ~(i + 1 <= len) /\ i + 1 - len = i - len + 1
          /\ i - len \in 1..Len(chunk) /\ i - len + 1 \in 1..Len(chunk)
      BY <1>3, <1>4, <2>1, <2>4
    <3>2. /\ (old \o chunk)[i] = chunk[i - len]
          /\ (old \o chunk)[i + 1] = chunk[i + 1 - len]
      BY <1>3, <1>4, <1>8, <2>1, <3>1
    <3>3. /\ (old \o chunk)[i] = before + (i - len)
          /\ (old \o chunk)[i + 1] = before + (i - len + 1)
      BY <1>3, <1>4, <1>5, <3>1, <3>2
    <3>4. (old \o chunk)[i + 1] = (old \o chunk)[i] + 1
      BY <1>3, <1>5, <2>1, <3>3
    <3>5. (old \o chunk)[i] \in Nat
      BY <1>3, <1>5, <2>1, <2>4, <3>3
    <3> QED
      BY <3>4, <3>5
  <2> QED
    BY <1>3, <2>1, <2>2, <2>3, <2>4
<1>12. Joined(c)'
  BY <1>1, <1>11 DEF Joined
<1>13. next'[c] \in 0..Len(sent')
  BY <1>1, <1>3 DEF output
<1> QED
  BY <1>1, <1>2, <1>10, <1>12, <1>13 DEF SessionInv, output

LEMMA SkipAheadSession ==
    ASSUME StreamInv, NEW c \in Clients, SkipAhead(c)
    PROVE  SessionInv(c)'
<1>1. /\ UNCHANGED output /\ phase[c] = "relay" /\ phase'[c] = "relay"
      /\ next'[c] = Len(sent) - ChannelCapacity /\ lagged'[c] = TRUE
      /\ copy'[c] = copy[c] /\ screen'[c] = screen[c] /\ TooSlow(c)
  BY DEF StreamInv, TypeOK, SkipAhead
<1>2. SessionInv(c) /\ RelayInv(c)
  BY <1>1 DEF StreamInv, SessionInv
<1>3. /\ next[c] \in Nat /\ Len(sent) \in Nat /\ ChannelCapacity \in Nat \ {0}
      /\ sent \in Seq(Seq(Bytes))
  BY PtyStreamAssumption, LenProperties DEF StreamInv, TypeOK
<1>4. /\ next'[c] \in 0..Len(sent) /\ next[c] \in 0..Len(sent)
      /\ next[c] <= next'[c] /\ next'[c] < Len(sent)
  BY <1>1, <1>3 DEF TooSlow
<1>5. End(sent, next[c]) <= End(sent, next'[c])
  BY <1>4 DEF StreamInv, ChannelInv
<1>6. /\ End(sent, next[c]) \in Nat /\ End(sent, next'[c]) \in Nat
      /\ EndOf(screen[c]) \in Nat
  BY <1>3, <1>4, EndType, EndOfBytes DEF StreamInv, TypeOK
<1>7. ~Settled(c)'
  BY <1>1, <1>3, <1>4 DEF Settled, output
<1>8. RelayInv(c)'
  BY <1>1, <1>2, <1>5, <1>6, <1>7 DEF RelayInv, output
<1>9. Joined(c)'
  BY <1>1, <1>2 DEF SessionInv, Joined
<1> QED
  BY <1>1, <1>2, <1>4, <1>8, <1>9 DEF SessionInv, output

LEMMA ChannelClosesSession ==
    ASSUME StreamInv, NEW c \in Clients, ChannelCloses(c)
    PROVE  SessionInv(c)'
<1>1. /\ UNCHANGED output /\ phase[c] = "relay" /\ phase'[c] = "closed"
      /\ next[c] = Len(sent) /\ reader = "done"
      /\ next'[c] = next[c] /\ lagged'[c] = lagged[c]
      /\ copy'[c] = copy[c] /\ screen'[c] = screen[c]
  BY DEF StreamInv, TypeOK, ChannelCloses, SendersGone, Moves
<1>2. SessionInv(c)
  BY DEF StreamInv
<1> QED
  BY <1>1, <1>2 DEF SessionInv, RelayInv, Settled, Joined, output

LEMMA ConnectionStream ==
    ASSUME StreamInv, TypeOK', NEW c \in Clients,
           Connection(c) \/ ClientLeaves(c)
    PROVE  StreamInv'
<1>1. /\ UNCHANGED output /\ ChannelInv' /\ RingIsTail'
      /\ \A d \in Clients \ {c} : SessionInv(d)'
  BY OtherSessions
<1>2. SessionInv(c)'
  <2>1. CASE ClientLeaves(c)
    BY <1>1, <2>1 DEF StreamInv, ClientLeaves, SessionInv, RelayInv, Settled,
                      Joined, output
  <2>2. CASE RelayStops(c)
    BY <1>1, <2>2, OverSession DEF RelayStops
  <2> QED
    BY <2>1, <2>2, SubscribeSession, CopySession, SendAttachedSession,
       SendScrollbackSession, ForwardInputSession, DeliverSession,
       SkipAheadSession, ChannelClosesSession DEF Connection
<1> QED
  BY <1>1, <1>2 DEF StreamInv

-----------------------------------------------------------------------------
(* What is proved of the stream *)

THEOREM StreamCorrect == Spec => []StreamInv
<1>1. StreamInv /\ TypeOK' /\ [Next]_vars => StreamInv'
  <2> SUFFICES ASSUME StreamInv, TypeOK', [Next]_vars PROVE StreamInv'
    OBVIOUS
  <2>1. CASE UNCHANGED vars
    BY <2>1 DEF StreamInv, TypeOK, ChannelInv, RingIsTail, SessionInv, RelayInv,
                Settled, Joined, vars
  <2>2. CASE Next
    BY <2>2, ProcessStream, ReaderStoreStream, ReaderSendStream,
       ReaderEndsStream, ConnectionStream DEF Next
  <2> QED
    BY <2>1, <2>2
<1> QED
  BY <1>1, InitStream, StreamTypeCorrect, PTL DEF Spec

\* The scrollback ring always holds the end of the output read so far.
THEOREM RingCorrect == Spec => []RingIsTail
BY StreamCorrect, PTL DEF StreamInv

\* An attached client that was never told Lagged misses no byte of the output,
\* and no client sees output out of order but for one step back at the join.
THEOREM NoGapAtTheJoin == Spec => []JoinedWithoutGap
<1>1. StreamInv => JoinedWithoutGap
  BY DEF StreamInv, SessionInv, Joined, JoinedWithoutGap
<1> QED
  BY <1>1, StreamCorrect, PTL

\* A session that ends because the agent is gone ends with its last byte.
THEOREM ClosedShowsTheEnd == Spec => []ClosedAtTheEnd
<1>1. StreamInv => ClosedAtTheEnd
  <2> SUFFICES ASSUME StreamInv, NEW c \in Clients, phase[c] = "closed",
                      written > 0
               PROVE  screen[c] # <<>> /\ screen[c][Len(screen[c])] = written
    BY DEF ClosedAtTheEnd
  <2>1. /\ SessionInv(c) /\ RelayInv(c)
        /\ next[c] = Len(sent) /\ reader = "done"
    BY DEF StreamInv, SessionInv
  <2>2. /\ data = <<>> /\ consumed = written /\ Len(data) = 0
    BY <2>1 DEF StreamInv, ChannelInv
  <2>3. /\ written \in Nat /\ Len(screen[c]) \in Nat /\ Len(copy[c]) \in Nat
        /\ EndOf(screen[c]) \in Nat
    BY LenProperties, EndOfBytes DEF StreamInv, TypeOK
  <2>4. End(sent, Len(sent)) = written
    BY <2>2, <2>3 DEF StreamInv, ChannelInv
  <2>5. EndOf(screen[c]) = written
    BY <2>1, <2>2, <2>3, <2>4 DEF RelayInv, Settled
  <2> QED
    BY <2>3, <2>5 DEF EndOf
<1> QED
  BY <1>1, StreamCorrect, PTL
=============================================================================
