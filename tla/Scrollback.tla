----------------------------- MODULE Scrollback ------------------------------
(***************************************************************************)
(* The ring buffer of tam-daemon/src/scrollback.rs, as the pure function   *)
(* its write method is: the buffer after a write, from the buffer before.  *)
(***************************************************************************)
EXTENDS Naturals, Sequences

CONSTANT Capacity       \* ScrollbackBuffer.capacity

ASSUME CapacityAssumption == Capacity \in Nat

\* The last n elements of a sequence that has at least n.
Newest(seq, n) == SubSeq(seq, Len(seq) - n + 1, Len(seq))

\* Mutant of RingWrite: what has to leave is drained after the write, from the
\* length before it.
RingWriteLate(ring, data) ==
    LET overflow == IF Len(ring) > Capacity THEN Len(ring) - Capacity ELSE 0
    IN  Newest(ring \o data, Len(ring) + Len(data) - overflow)

\* saturating_sub of the length there would be and the capacity.
Overflow(ring, data) ==
    IF Len(ring) + Len(data) > Capacity
    THEN Len(ring) + Len(data) - Capacity
    ELSE 0

RingWrite(ring, data) ==
    IF Len(data) >= Capacity
    THEN Newest(data, Capacity)
    ELSE SubSeq(ring, Overflow(ring, data) + 1, Len(ring)) \o data

\* What the buffer is for: of everything ever written to it, the end that fits.
Kept(all) ==
    Newest(all, IF Len(all) < Capacity THEN Len(all) ELSE Capacity)
=============================================================================
