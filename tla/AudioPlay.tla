----------------------------- MODULE AudioPlay -----------------------------
(***************************************************************************)
(* The sound of a motor: the stream of samples (control/backend.py         *)
(* AudioStream), the player with its adaptive resampler on a thread of its *)
(* own (control/tones.py PhysicsAudio), and the recorder.  A sample is its *)
(* number; gain, fade and interpolation are left out.  Positions in the    *)
(* buffer are in 1/Unit of a sample, and rounded down to it.               *)
(***************************************************************************)
EXTENDS Integers, Sequences, SequencesExt, FiniteSetsExt

CONSTANTS
    Unit,
    Target,         \* samples in the buffer at which one is played per sample
    Kept,           \* maxlen of batches
    Batches,        \* sizes of a batch
    Periods,        \* samples the sink asks for
    MaxSamples      \* bound

VARIABLES
    made,           \* samples the motor has made
    subscribed,
    batches,        \* of AudioStream
    sink,           \* the thread: "none", "building", "playing", "ended"
    waits,          \* the caller waits for ready
    active,
    buf, pos,       \* of PhysDevice
    out,            \* what the last read played, as times of the motor; 0 is silence
    newest          \* of what was played before it

vars == <<made, subscribed, batches, sink, waits, active, buf, pos, out,
          newest>>
device == <<sink, waits, active, buf, pos, out, newest>>

SampleRate == 10 * Target

--------------------------------------------------------------------------
(* AudioStream: a batch that finds no room drops the oldest; a reset of    *)
(* the ESC forgets the subscriber.                                         *)
Motor ==
    /\ \E n \in Batches :
           /\ made + n <= MaxSamples
           /\ made' = made + n
           /\ batches' =
                  IF ~subscribed THEN batches
                  ELSE (IF Len(batches) = Kept THEN Tail(batches) ELSE batches)
                           \o <<[i \in 1..n |-> made + i]>>
    /\ UNCHANGED <<subscribed, device>>

Reset ==
    /\ subscribed /\ made < MaxSamples
    /\ subscribed' = FALSE
    /\ UNCHANGED <<made, batches, device>>

Subscribe ==
    /\ ~subscribed
    /\ subscribed' = TRUE
    /\ UNCHANGED <<made, batches, device>>

--------------------------------------------------------------------------
(* _run_sink_on_thread and PhysicsAudio: the caller waits at most 3 s for  *)
(* the thread to open the device.                                          *)
Start ==
    /\ sink = "none" /\ ~waits
    /\ sink' = "building" /\ waits' = TRUE
    /\ UNCHANGED <<made, subscribed, batches, active, buf, pos, out, newest>>

Built ==
    /\ sink = "building"
    /\ \/ sink' = "playing" /\ active' = (waits \/ active)
       \/ sink' = "ended" /\ UNCHANGED active      \* no device, or an error
    /\ waits' = FALSE
    /\ UNCHANGED <<made, subscribed, batches, buf, pos, out, newest>>

WaitOver ==
    /\ waits /\ sink = "building"
    /\ waits' = FALSE
    /\ UNCHANGED <<made, subscribed, batches, sink, active, buf, pos, out, newest>>

\* stop: the event loop of the thread ends, and with it the sink.
Stop ==
    /\ active
    /\ active' = FALSE /\ sink' = "ended"
    /\ UNCHANGED <<made, subscribed, batches, waits, buf, pos, out, newest>>

(* PhysDevice.readData, and _read_np, which does the same for an array: a  *)
(* position is played when the sample after it is there too.               *)
Ratio(b, p) == Max({0, Min({4 * Unit, (Len(b) * Unit - p) \div Target})})
Valid(b, p) == (p \div Unit) + 1 < Len(b)
When(b, p) == b[(p \div Unit) + 1] * Unit + (p % Unit)

Scalar(b, p, n) ==
    LET r == Ratio(b, p)
        at[k \in 0..n] == IF k = 0 THEN p
                          ELSE IF Valid(b, at[k - 1]) THEN at[k - 1] + r ELSE at[k - 1]
    IN [pos |-> at[n],
        out |-> [k \in 1..n |-> IF Valid(b, at[k - 1]) THEN When(b, at[k - 1]) ELSE 0]]

Vectorized(b, p, n) ==
    LET r == Ratio(b, p)
        at == [k \in 0..(n - 1) |-> p + r * k]
        m == Quantify(0..(n - 1), LAMBDA k : Valid(b, at[k]))
    IN [pos |-> IF m > 0 THEN at[m - 1] + r ELSE p,
        out |-> [k \in 1..n |-> IF k <= m THEN When(b, at[k - 1]) ELSE 0]]

\* More than a second of samples is cut to half of one.
Fill(b) == b \o FlattenSeq(batches)
Late == Len(Fill(buf)) > SampleRate
Cut(b) == IF Late THEN SubSeq(b, Len(b) - SampleRate \div 2 + 1, Len(b)) ELSE b

ReadData ==
    /\ sink = "playing"
    /\ \E n \in Periods :
           LET b == Cut(Fill(buf))
               p == IF Late THEN 0 ELSE pos
               r == Scalar(b, p, n)
               used == r.pos \div Unit
           IN /\ IF n = 0 THEN buf' = b /\ pos' = p
                 ELSE /\ buf' = SubSeq(b, used + 1, Len(b))
                      /\ pos' = r.pos - used * Unit
              /\ out' = r.out /\ newest' = Max({newest} \cup Range(out))
    /\ batches' = <<>>
    /\ UNCHANGED <<made, subscribed, sink, waits, active>>

\* cmd_wav --physics: no player, what the stream holds goes to the file.
Record ==
    /\ sink = "none" /\ batches # <<>>
    /\ out' = [i \in DOMAIN FlattenSeq(batches) |-> FlattenSeq(batches)[i] * Unit]
    /\ batches' = <<>> /\ sink' = "ended"
    /\ UNCHANGED <<made, subscribed, waits, active, buf, pos, newest>>

Init ==
    /\ made = 0 /\ subscribed = FALSE /\ batches = <<>>
    /\ sink = "none" /\ waits = FALSE /\ active = FALSE
    /\ buf = <<>> /\ pos = 0 /\ out = <<>> /\ newest = 0

Next ==
    \/ Motor \/ Reset \/ Subscribe
    \/ Start \/ Built \/ WaitOver \/ Stop \/ ReadData \/ Record

--------------------------------------------------------------------------
TypeOK ==
    /\ made \in 0..MaxSamples /\ Len(batches) <= Kept
    /\ subscribed \in BOOLEAN /\ waits \in BOOLEAN /\ active \in BOOLEAN
    /\ sink \in {"none", "building", "playing", "ended"}
    /\ pos \in Nat

\* The sound never runs backwards: what is played was made after what was
\* played before, over batches that were dropped, cuts and underruns.
InOrder ==
    LET heard == SelectSeq(out, LAMBDA t : t > 0)
    IN \A i \in DOMAIN heard : heard[i] >= IF i = 1 THEN newest ELSE heard[i - 1]

\* No more than a second of sound is behind, however fast the simulation runs,
\* and a position that has left the buffer is less than a sample beyond it.
LatencyBounded == Len(buf) <= SampleRate /\ pos < Unit

\* _read_np plays what the loop over single samples plays.
ReadersAgree ==
    \A n \in Periods \ {0} : Scalar(buf, pos, n) = Vectorized(buf, pos, n)
=============================================================================
