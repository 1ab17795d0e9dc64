----------------------------- MODULE ScopeStream -----------------------------
(***************************************************************************)
(* The samples of the simulation on their way to the graphs and the scope: *)
(* SimStream (control/backend.py), ScopeCapture (control/scope.py) and the *)
(* scope window that arms it (control/scope_ui.py).  A sample is its life  *)
(* of the simulator and its time in that life, in units; what makes a      *)
(* sample a trigger is a free choice.  A restarted simulator has forgotten *)
(* its subscribers, so that a good part of its new life goes unseen.       *)
(***************************************************************************)
EXTENDS Naturals, Sequences

CONSTANTS
    Lives, MaxTime,     \* bounds: lives of the simulator, units of each
    Kept,               \* samples' maxlen
    Span, Post,         \* the scope's window, and its part after the trigger
    MaxSamples,         \* MAX_SAMPLES
    MaxArms             \* bound: arms and stops

VARIABLES
    sim,        \* the simulator: [life, t]
    samples,    \* SimStream.samples
    paced,      \* the life whose pace is the desired one, 0 for none
    pending,    \* speedup_pending
    scope,      \* [enabled, mode, history, capture, trigger, since, last, previous]
    frame,      \* the last complete frame, as its samples and trigger
    shots,      \* frames since the last arm
    arms

vars == <<sim, samples, paced, pending, scope, frame, shots, arms>>

Nobody == [life |-> 0, t |-> 0]
Reset(enabled, mode) ==
    [enabled |-> enabled, mode |-> mode, history |-> <<>>, capture |-> <<>>,
     trigger |-> 0, since |-> MaxTime + 1, last |-> 0, previous |-> Nobody]

Init ==
    /\ sim = [life |-> 1, t |-> 0] /\ samples = <<>> /\ paced = 0 /\ pending = TRUE
    /\ scope = Reset(FALSE, "Normal") /\ frame = [samples |-> <<>>, trigger |-> 0]
    /\ shots = 0 /\ arms = 0

--------------------------------------------------------------------------
\* Mutant: a list instead of a deque with a maxlen.
NewestGrows(q, n) == q
\* What a deque of n keeps of q.
Newest(q, n) == IF Len(q) > n THEN SubSeq(q, Len(q) - n + 1, Len(q)) ELSE q

\* The older samples that interpolation and pretrigger do not need are dropped.
Trimmed(q, cutoff) ==
    LET keep == {i \in 1..Len(q) : i >= Len(q) - 1 \/ q[i + 1].t >= cutoff}
    IN  SubSeq(q, CHOOSE i \in keep : \A j \in keep : i <= j, Len(q))
Cutoff(s) == IF s.t > Span - Post THEN s.t - (Span - Post) ELSE 0

\* A sample of the moment of the one before it passes for its duplicate.
Duplicate(s) == scope.previous # Nobody /\ s.t = scope.previous.t
Backward(s) == scope.previous # Nobody /\ s.t < scope.previous.t
\* Mutant: a reset does not discard what was captured.
SeenKeeps(s) == scope
Seen(s) == IF Backward(s) THEN Reset(TRUE, scope.mode) ELSE scope

\* feed of one sample: hit is whether the trigger's condition holds.
Fed(s, hit) ==
    LET c == Seen(s)
        since == IF c.since > MaxTime THEN s.t ELSE c.since
        step == IF c.previous = Nobody THEN 0 ELSE s.t - c.previous.t
        gap == step # 0 /\ c.last # 0 /\ 2 * step > 3 * c.last
        history == Trimmed(Newest(Append(c.history, s), MaxSamples), Cutoff(s))
        capture == IF c.capture = <<>> THEN <<>> ELSE Append(c.capture, s)
        forced == c.mode = "Auto" /\ s.t - since >= Span
        ready == history[1].t + (Span - Post) <= s.t
        base == [c EXCEPT !.since = since, !.last = step, !.previous = s, !.history = history]
    IN  IF capture # <<>>
        THEN IF Len(capture) >= MaxSamples
             THEN [base EXCEPT !.enabled = FALSE, !.capture = <<>>]
             ELSE IF s.t >= c.trigger + Post
             THEN [base EXCEPT !.enabled = (c.mode # "Single"), !.since = s.t, !.capture = <<>>]
             ELSE [base EXCEPT !.capture = capture]
        ELSE IF ready /\ ((hit /\ ~gap /\ c.previous # Nobody) \/ forced)
        THEN [base EXCEPT !.capture = history, !.trigger = s.t]
        ELSE base

Completes(s) ==
    /\ Seen(s).capture # <<>> /\ Len(Seen(s).capture) + 1 < MaxSamples
    /\ s.t >= Seen(s).trigger + Post

\* The reader thread: a datagram with the sample of this moment, or its loss.
Restarted(s) == samples # <<>> /\ s.t < samples[Len(samples)].t
\* Mutant: a restart is not noticed.
SendsPaceOnce(s) == pending
SendsPace(s) == pending \/ Restarted(s)

Runs ==
    /\ sim.t < MaxTime /\ sim' = [sim EXCEPT !.t = @ + 1]
    /\ \/ UNCHANGED <<samples, paced, pending, scope, frame, shots>>
       \/ /\ samples' = Newest(Append(samples, sim'), Kept)
          /\ paced' = IF SendsPace(sim') THEN sim'.life ELSE paced
          /\ pending' = FALSE
          /\ IF ~scope.enabled \/ Duplicate(sim') THEN UNCHANGED <<scope, frame, shots>>
             ELSE \E hit \in BOOLEAN :
                    /\ scope' = Fed(sim', hit)
                    /\ IF Completes(sim')
                       THEN /\ frame' = [samples |-> Append(Seen(sim').capture, sim'),
                                         trigger |-> Seen(sim').trigger]
                            /\ shots' = shots + 1
                       ELSE UNCHANGED <<frame, shots>>
    /\ UNCHANGED arms

\* A reset re-executes the simulator: time starts again, at its own pace.
Restarts ==
    /\ sim.life < Lives /\ sim' = [life |-> sim.life + 1, t |-> 0]
    /\ UNCHANGED <<samples, paced, pending, scope, frame, shots, arms>>

\* The window: RUN, SINGLE, a new setup, and STOP.
Arm(mode) ==
    /\ arms < MaxArms /\ arms' = arms + 1 /\ scope' = Reset(TRUE, mode) /\ shots' = 0
    /\ UNCHANGED <<sim, samples, paced, pending, frame>>
SetupChanged == scope.enabled /\ \E mode \in {scope.mode, "Normal", "Auto", "Single"} : Arm(mode)
RunStop ==
    \/ ~scope.enabled /\ \E mode \in {"Normal", "Auto", "Single"} : Arm(mode)
    \/ /\ scope.enabled /\ arms < MaxArms /\ arms' = arms + 1
       /\ scope' = [scope EXCEPT !.enabled = FALSE, !.capture = <<>>]
       /\ UNCHANGED <<sim, samples, paced, pending, frame, shots>>
\* set_speedup of the slider: the desired pace, sent at once.
SetSpeedup ==
    /\ arms < MaxArms /\ arms' = arms + 1 /\ pending' = TRUE
    /\ paced' = sim.life
    /\ UNCHANGED <<sim, samples, scope, frame, shots>>

Next == Runs \/ Restarts \/ SetupChanged \/ RunStop \/ SetSpeedup

--------------------------------------------------------------------------
TypeOK ==
    /\ sim \in [life : 1..Lives, t : 0..MaxTime] /\ Len(samples) <= Kept
    /\ scope.mode \in {"Normal", "Auto", "Single"} /\ pending \in BOOLEAN
    /\ Len(scope.history) <= MaxSamples /\ Len(scope.capture) <= MaxSamples

\* A frame is a run of samples, each later in its life than the one before in its own,
\* that reaches from the pretrigger to the end of the window around its trigger: a
\* capture is not joined across a reset that sent time back.
FrameWhole ==
    LET q == frame.samples IN q # <<>> =>
        /\ \A i \in 1..(Len(q) - 1) : q[i].t < q[i + 1].t
        /\ q[1].t + (Span - Post) <= frame.trigger /\ frame.trigger + Post <= q[Len(q)].t

\* What the docstring of ScopeCapture says, that a reset discards the data across it: the
\* samples of a frame are of one life.  The code sees a reset only by a time that goes
\* back, and of a new life the beginning may go unseen.
FrameOfOneLife == \A i, j \in DOMAIN frame.samples : frame.samples[i].life = frame.samples[j].life

\* SINGLE takes one frame and stops.
OneShot == scope.mode = "Single" => shots <= 1 /\ (shots = 1 => ~scope.enabled)

\* A simulator whose samples showed time going back, and one whose first
\* sample has come, runs at the pace asked for.
PaceKept ==
    \A i \in 1..Len(samples) :
        samples[i].life = sim.life /\ (IF i = 1 THEN sim.life = 1 ELSE samples[i].t < samples[i - 1].t)
            => paced = sim.life
==============================================================================
