---------------------------- MODULE DirectBridge ----------------------------
(***************************************************************************)
(* escsim/control/msp_stub_fc.py, class DirectBridge: the serial link wired *)
(* to the signal pad of an ESC.  The client reads back what it sends: the  *)
(* bridge keeps every chunk as a pending echo, releases it bit by bit at   *)
(* the pace it expects of the wire, and all at once when the emulator says *)
(* that the wire is empty, or when an answer comes in.  One thread does    *)
(* all of it; a pass of its loop is a step here, with the clock's verdict  *)
(* on how much is due chosen.                                              *)
(*                                                                         *)
(* Bytes are numbered as the client sends them; the ESC answers a command, *)
(* here the last byte of a chunk, with its negative.                       *)
(***************************************************************************)
EXTENDS Integers, Sequences, SequencesExt

CONSTANTS
    MaxBytes,       \* bound: bytes the client sends
    MaxChunk        \* bound: bytes of one read

VARIABLES
    running,        \* DirectBridge.running
    echoes,         \* DirectBridge.echoes: what is left of each chunk
    sent,           \* external: bytes the client has sent
    inbox,          \* external: of these, not read by the bridge
    wire,           \* external: bytes on the way to the ESC
    txDone,         \* external: the emulator has reported an empty wire since
                    \* the loop looked last
    answers,        \* external: bytes of the ESC not drained
    outbox          \* what the client has been written

vars == <<running, echoes, sent, inbox, wire, txDone, answers, outbox>>

Bytes == 1..MaxBytes

Init ==
    /\ running = TRUE /\ echoes = <<>> /\ sent = 0 /\ inbox = <<>> /\ wire = <<>>
    /\ txDone = FALSE /\ answers = <<>> /\ outbox = <<>>

-----------------------------------------------------------------------------
(* The client and the emulated wire. *)

Send ==
    /\ sent < MaxBytes /\ sent' = sent + 1 /\ inbox' = Append(inbox, sent + 1)
    /\ UNCHANGED <<running, echoes, wire, txDone, answers, outbox>>

\* The first byte of the wire reaches the ESC, which may take it as the end of a
\* command.
Transmit ==
    /\ wire # <<>> /\ wire' = Tail(wire)
    /\ answers' \in {answers, Append(answers, -Head(wire))}
    /\ txDone' = (txDone \/ wire' = <<>>)
    /\ UNCHANGED <<running, echoes, sent, inbox, outbox>>

-----------------------------------------------------------------------------
(* The bridge. *)

Left(pending) == FlattenSeq(pending)

\* Mutant: a chunk that has been echoed to its end stays in the list.
DribbledKeepsEmpty(pending, n) ==
    LET bytes(k) == Len(FlattenSeq(SubSeq(pending, 1, k)))
        whole == {k \in 0..Len(pending) : k = 0 \/ bytes(k) < n}
        k == CHOOSE k \in whole : \A j \in whole : j <= k
    IN  IF k = Len(pending) THEN <<>>
        ELSE <<SubSeq(pending[k + 1], n - bytes(k) + 1, Len(pending[k + 1]))>>
                \o SubSeq(pending, k + 2, Len(pending))

\* _dribble_echoes: the first chunks whole, and a part of the next one.
Dribbled(pending, n) ==
    LET bytes(k) == Len(FlattenSeq(SubSeq(pending, 1, k)))
        whole == {k \in 0..Len(pending) : bytes(k) <= n}
        k == CHOOSE k \in whole : \A j \in whole : j <= k
    IN  IF k = Len(pending) THEN <<>>
        ELSE <<SubSeq(pending[k + 1], n - bytes(k) + 1, Len(pending[k + 1]))>>
                \o SubSeq(pending, k + 2, Len(pending))

\* Mutant: only the first chunk is flushed.
FlushedFirst(pending) == Head(pending \o <<<<>>>>)

\* What _flush_echoes writes.
Flushed(pending) == Left(pending)

\* Mutant: an answer does not wait for the echo.
AnswerFirst(pending, out) == out \o Flushed(pending)

\* An answer goes behind the whole echo that is pending.
BeforeAnswer(pending, out) == Flushed(pending) \o out

\* A pass that reads n bytes: the chunk is put on the wire, then the emulator's
\* marker, the ESC's answers, if it drains them now, and the clock are looked at, in
\* this order.
PassWith(n, held) ==
    LET chunk == SubSeq(inbox, 1, n)
        queued == IF n = 0 THEN echoes ELSE Append(echoes, chunk)
        marked == IF txDone THEN Flushed(queued) ELSE <<>>
        pending == IF txDone THEN <<>> ELSE queued
        out == IF held = 1 THEN <<>> ELSE answers
        after == IF out = <<>> THEN pending ELSE <<>>
    IN  /\ inbox' = SubSeq(inbox, n + 1, Len(inbox)) /\ wire' = wire \o chunk
        /\ answers' = IF held = 1 THEN answers ELSE <<>>
        /\ \E due \in 0..Len(Left(after)) :
            /\ outbox' = outbox \o marked
                    \o (IF out = <<>> THEN <<>> ELSE BeforeAnswer(pending, out))
                    \o SubSeq(Left(after), 1, due)
            /\ echoes' = Dribbled(after, due)

\* One pass of _loop.
Pass ==
    /\ running
    /\ \E n \in 0..Len(inbox) : \E held \in {0, 1} : n <= MaxChunk /\ PassWith(n, held)
    /\ txDone' = FALSE
    /\ UNCHANGED <<running, sent>>

Close ==
    /\ running /\ running' = FALSE
    /\ UNCHANGED <<echoes, sent, inbox, wire, txDone, answers, outbox>>

Next == Send \/ Transmit \/ Pass \/ Close

-----------------------------------------------------------------------------
TypeOK ==
    /\ running \in BOOLEAN /\ txDone \in BOOLEAN /\ sent \in 0..MaxBytes
    /\ echoes \in Seq(Seq(Bytes)) /\ inbox \in Seq(Bytes) /\ wire \in Seq(Bytes)
    /\ \A i \in DOMAIN echoes : echoes[i] # <<>>
    /\ answers \in Seq(-MaxBytes..-1) /\ outbox \in Seq(-MaxBytes..MaxBytes)

\* The echoes in what the client was written.
Echoed(out) ==
    LET heard[n \in 0..Len(out)] ==
            IF n = 0 THEN <<>>
            ELSE IF out[n] > 0 THEN Append(heard[n - 1], out[n]) ELSE heard[n - 1]
    IN heard[Len(out)]

\* The client gets every byte it sent back, once and in order: what it has got and
\* what is pending are what the bridge has read.  A client strips its echo by
\* count, a byte more or less would be taken for the answer.
EchoesAll == Echoed(outbox) \o Left(echoes) = [i \in 1..sent - Len(inbox) |-> i]

\* The answer to a command comes after the echo of its last byte.
EchoBeforeAnswer ==
    \A i \in DOMAIN outbox :
        outbox[i] < 0 => \E j \in 1..i - 1 : outbox[j] = -outbox[i]
=============================================================================
