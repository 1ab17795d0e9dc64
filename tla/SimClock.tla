------------------------------ MODULE SimClock ------------------------------
(***************************************************************************)
(* SITL/scripts/sim_clock.py, class SimClock: the clock of a measurement   *)
(* that runs on simulated time.  A simulator streams its time to           *)
(* subscribers; it restarts from zero, forgets them, and may stop.         *)
(***************************************************************************)
EXTENDS Integers, Sequences

CONSTANTS
    MaxTime,        \* bound: simulated time of one life
    MaxLives        \* bound: lives of the simulator

NoTime == MaxTime + 1

VARIABLES
    sim,            \* the simulator: [life, t, told] - told: it has a subscriber
    net,            \* samples under way: their times
    t,              \* SimClock.t_ns, NoTime for None
    t0,             \* SimClock.t0_ns, NoTime for None
    resetSeen,      \* SimClock.reset_seen
    armed,          \* SimClock.armed
    pc,             \* the tool: "wait", "run", "now" - inside now() -, "over"
    seen,           \* t_ns of now(), NoTime outside of it
    shown,          \* what now() returned last
    rebased,        \* observer: t0_ns was moved since now() read t_ns
    ahead           \* observer: that happened to the value shown

vars == <<sim, net, t, t0, resetSeen, armed, pc, seen, shown, rebased, ahead>>
clock == <<t, t0, resetSeen, armed>>
tool == <<pc, seen, shown, ahead>>

Init ==
    /\ sim = [life |-> 1, t |-> 0, told |-> FALSE] /\ net = <<>>
    /\ t = NoTime /\ t0 = NoTime /\ resetSeen = FALSE /\ armed = FALSE
    /\ pc = "wait" /\ seen = NoTime /\ shown = 0 /\ rebased = FALSE /\ ahead = FALSE

\* The simulator: a step of physics, a restart.  A lost sample is not sent.
Runs ==
    /\ sim.t < MaxTime
    /\ sim' = [sim EXCEPT !.t = @ + 1]
    /\ \/ sim.told /\ Len(net) < 2 /\ net' = Append(net, sim'.t)
       \/ UNCHANGED net
    /\ UNCHANGED <<clock, tool, rebased>>
Restarts ==
    /\ sim.life < MaxLives
    /\ sim' = [life |-> sim.life + 1, t |-> 0, told |-> FALSE]
    /\ UNCHANGED <<net, clock, tool, rebased>>

\* _subscriber, every half second.
Subscribes ==
    /\ pc # "over" /\ ~sim.told
    /\ sim' = [sim EXCEPT !.told = TRUE]
    /\ UNCHANGED <<net, clock, tool, rebased>>

Back(s) == t # NoTime /\ s < t
NotRebased(s) == t0
Rebased(s) == s - (t - t0)

\* _reader.  Time that goes back is a restart: joined on while the tool still
\* connects, and the end of the run when the profile has begun.
Reader ==
    /\ net # <<>> /\ pc # "over"
    /\ net' = Tail(net)
    /\ LET s == Head(net)
           joins == Back(s) /\ ~armed /\ t0 # NoTime
       IN  /\ resetSeen' = (resetSeen \/ (Back(s) /\ armed))
           /\ t0' = IF joins THEN Rebased(s) ELSE t0
           /\ t' = s
           /\ rebased' = (rebased \/ (joins /\ pc = "now"))
    /\ UNCHANGED <<sim, armed, tool>>

\* __init__ waits for the first sample; without one the tool ends.
Starts ==
    /\ pc = "wait"
    /\ \/ t # NoTime /\ t0' = t /\ pc' = "run"
       \/ t = NoTime /\ pc' = "over" /\ UNCHANGED t0
    /\ UNCHANGED <<sim, net, t, resetSeen, armed, seen, shown, rebased, ahead>>

\* wait_ready ends.  The thread that arms is the one that calls now(): only EscMeasure uses
\* this clock; a flight controller's readers stamp with wall time.
Arm ==
    /\ pc = "run" /\ ~armed
    /\ armed' = TRUE
    /\ UNCHANGED <<sim, net, t, t0, resetSeen, tool, rebased>>

\* now() reads the time and the restart under the lock; it raises on a restart, and when
\* the samples have stopped for long.
NowReads ==
    /\ pc = "run"
    /\ \/ ~resetSeen /\ seen' = t /\ pc' = "now"
       \/ pc' = "over" /\ UNCHANGED seen
    /\ UNCHANGED <<sim, net, clock, shown, rebased, ahead>>

\* It reads t0_ns when it has given the lock back.
NowReturns ==
    /\ pc = "now"
    /\ shown' = seen - t0 /\ ahead' = rebased
    /\ pc' = "run" /\ seen' = NoTime /\ rebased' = FALSE
    /\ UNCHANGED <<sim, net, clock>>

Next ==
    \/ Runs \/ Restarts \/ Subscribes
    \/ Reader \/ Starts \/ Arm \/ NowReads \/ NowReturns
-----------------------------------------------------------------------------
TypeOK ==
    /\ sim.life \in 1..MaxLives /\ sim.t \in 0..MaxTime /\ Len(net) <= 2
    /\ t \in 0..NoTime /\ seen \in 0..NoTime /\ shown \in Nat
    /\ pc \in {"wait", "run", "now", "over"}

\* The clock goes back only from a value whose call a rebase overtook, between its two
\* readings: such a value is too large by the time the restart took away.  No value of an
\* armed profile is of that kind, so the time it is paced by never goes back.
ClockContinues ==
    /\ [][shown' < shown => ahead]_vars
    /\ [][armed /\ NowReturns => ~ahead']_vars
=============================================================================
