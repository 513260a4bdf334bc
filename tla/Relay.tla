--------------------------------- MODULE Relay ---------------------------------
(***************************************************************************)
(* The relay of an attached client, Client::raw_relay of                   *)
(* tam-cli/src/client.rs: what is typed goes to the agent up to the detach *)
(* key, and what the agent writes goes to the terminal without the         *)
(* sequences that change its keyboard protocol, which KbdProtoFilter       *)
(* strips byte by byte, wherever the reads of the socket cut them.         *)
(***************************************************************************)
EXTENDS Naturals, FiniteSets, Sequences

CONSTANTS
    Bytes,      \* bytes an agent writes
    MaxOutput,  \* bound: bytes an agent writes
    MaxTyped    \* bound: bytes that are typed

\* Escape, bracket, the markers, the finals and the parameters.  Bytes names those
\* that can occur.
Markers == {">", "<", "="}
Parameters == {"1", ";"}
Detach == "ctrl-]"

ASSUME RelayAssumption == MaxOutput \in Nat /\ MaxTyped \in Nat

VARIABLES
    output,    \* what the agent has written
    read,      \* how much of it the relay has read
    consumed,  \* how much of that its filter has taken
    state,     \* FilterState
    pending,   \* KbdProtoFilter.pending
    shown,     \* what the filter has let through to the terminal
    typed,     \* what is typed
    sent,      \* how much of it went to the agent
    over       \* the relay has ended

terminal == <<read, consumed, state, pending, shown>>
relay == <<output, terminal, typed, sent, over>>

UpTo(S, n) == UNION {[1..k -> S] : k \in 0..n}

RelayInit ==
    /\ output \in UpTo(Bytes, MaxOutput)
    /\ read = 0 /\ consumed = 0
    /\ state = "normal" /\ pending = <<>> /\ shown = <<>>
    /\ typed \in UpTo({"key", Detach}, MaxTyped)
    /\ sent = 0 /\ over = FALSE

-----------------------------------------------------------------------------
(* KbdProtoFilter *)

Hold(b, s) ==
    /\ pending' = Append(pending, b)
    /\ state' = s
    /\ UNCHANGED shown

\* A whole sequence is dropped.
Strip ==
    /\ pending' = <<>>
    /\ state' = "normal"
    /\ UNCHANGED shown

\* emit_pending_and_reprocess: what was held back was no such sequence.
Emit(b) ==
    IF b = "esc"
    THEN state' = "esc" /\ pending' = <<b>> /\ shown' = shown \o pending
    ELSE state' = "normal" /\ pending' = <<>> /\ shown' = Append(shown \o pending, b)

\* is_kbd_final_byte.
Final(marker, b) == b = "u" \/ (b = "m" /\ marker = ">")

\* Mutant of Step: an escape inside a sequence does not begin another one.
StepForgetsEscape(b) ==
    CASE state = "normal" /\ b = "esc" -> Hold(b, "esc")
      [] state = "esc" /\ b = "[" -> Hold(b, "csi")
      [] state = "csi" /\ b \in Markers -> Hold(b, b)
      [] state \in Markers /\ Final(state, b) -> Strip
      [] state \in Markers /\ b \in Parameters -> Hold(b, state)
      [] OTHER -> /\ state' = "normal" /\ pending' = <<>>
                  /\ shown' = Append(shown \o pending, b)

\* One byte; the state within a sequence is its marker.
Step(b) ==
    CASE state = "normal" /\ b = "esc" -> Hold(b, "esc")
      [] state = "esc" /\ b = "[" -> Hold(b, "csi")
      [] state = "csi" /\ b \in Markers -> Hold(b, b)
      [] state \in Markers /\ Final(state, b) -> Strip
      [] state \in Markers /\ b \in Parameters -> Hold(b, state)
      [] OTHER -> Emit(b)

-----------------------------------------------------------------------------
(* The relay *)

\* Between two turns of its loop: what was read is through the filter.
AtSelect == ~over /\ consumed = read

\* A read of the socket, of any length.
AgentOutput ==
    /\ AtSelect
    /\ \E n \in 1..Len(output) - read : read' = read + n
    /\ UNCHANGED <<output, consumed, state, pending, shown, typed, sent, over>>

\* The loop of the filter over what was read; it keeps its state for the next read.
Filter ==
    /\ consumed < read
    /\ consumed' = consumed + 1
    /\ Step(output[consumed + 1])
    /\ UNCHANGED <<output, read, typed, sent, over>>

\* scan_detach: the first detach key there is.
DetachAt(i) == typed[i] = Detach /\ \A j \in sent + 1..i - 1 : typed[j] # Detach

\* A read of the keyboard, up to n: what comes before the detach key goes to the
\* agent, and the key ends the relay.
KeysTyped ==
    /\ AtSelect
    /\ \E n \in sent + 1..Len(typed) :
          \/ /\ \A i \in sent + 1..n : typed[i] # Detach
             /\ sent' = n /\ UNCHANGED over
          \/ /\ \E i \in sent + 1..n : DetachAt(i) /\ sent' = i - 1
             /\ over' = TRUE
    /\ UNCHANGED <<output, typed, terminal>>

\* The daemon closes the connection; what the filter holds back is not shown.
Closed ==
    /\ AtSelect /\ read = Len(output)
    /\ over' = TRUE
    /\ UNCHANGED <<output, typed, sent, terminal>>

RelayNext == AgentOutput \/ Filter \/ KeysTyped \/ Closed

RelaySpec == RelayInit /\ [][RelayNext]_relay

-----------------------------------------------------------------------------
(* Properties *)

\* The variables have their types: no more is consumed or sent than there is.
RelayTypeOK ==
    /\ output \in Seq(Bytes) /\ Len(output) <= MaxOutput
    /\ read \in 0..Len(output) /\ consumed \in 0..read
    /\ state \in {"normal", "esc", "csi"} \cup Markers
    /\ pending \in Seq(Bytes) /\ shown \in Seq(Bytes)
    /\ typed \in Seq({"key", Detach}) /\ sent \in 0..Len(typed)
    /\ over \in BOOLEAN

\* What the agent has written from a to b is a sequence that changes the keyboard
\* protocol: CSI > ... u, CSI > ... m and the like.
IsKbdSequence(a, b) ==
    /\ a + 3 <= b
    /\ output[a] = "esc" /\ output[a + 1] = "[" /\ output[a + 2] \in Markers
    /\ \A i \in a + 3..b - 1 : output[i] \in Parameters
    /\ Final(output[a + 2], output[b])

\* Where the first n bytes are none of such a sequence.
Plain(n) ==
    {i \in 1..n : \A a, b \in 1..n : a <= i /\ i <= b => ~IsKbdSequence(a, b)}

\* t is what is left of the output at these places, in order.
Leaves(places, t) ==
    /\ Len(t) = Cardinality(places)
    /\ \A i \in places : t[Cardinality({j \in places : j <= i})] = output[i]

\* However reads cut the output, the terminal gets it without the sequences that
\* change its keyboard protocol and otherwise byte for byte, but for the beginning
\* of what may become such a sequence; the agent gets what is typed before the
\* first detach key and nothing that is typed after.
RelayIsExact ==
    /\ Leaves(Plain(consumed), shown \o pending)
    /\ pending # <<>> => state # "normal"
    /\ \A i \in 1..sent : typed[i] # Detach
===============================================================================
