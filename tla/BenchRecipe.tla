---------------------------- MODULE BenchRecipe ----------------------------
(***************************************************************************)
(* A benchmark of the SITL bench (SITL/sitl_gui.py, start_bench,           *)
(* update_bench): stages of a throttle and a load, timed in the time of    *)
(* the simulation, which arrives in samples that may be lost; the window   *)
(* looks at the newest from time to time.  The scope is armed before the   *)
(* stage that is to be captured.  No waveform is started meanwhile.        *)
(***************************************************************************)
EXTENDS Naturals, Sequences

CONSTANTS
    Stages,         \* of the recipe: [throttle, seconds, load (0: as before), capture]
    FullDuty,       \* the recipe captures at full duty only
    Settle,         \* 0.2 s, for the fine pace of the scope
    MaxTime,        \* bound: simulated time of a life
    MaxActs         \* bound: starts, and what the user does

VARIABLES
    bench,          \* [active, completed, stage, deadline, fine]
    throttle,       \* ds_value
    enabled,        \* ds_enable
    process,        \* a simulator runs
    clock,          \* its time
    load,           \* of the motor model it has
    sample,         \* the newest that arrived: [time, full], or none
    armed,          \* SINGLE captures armed by a benchmark: [at, fine, pace, full]
    pace,           \* when the fine pace was asked for
    manual,         \* the user has taken over
    acts

vars == <<bench, throttle, enabled, process, clock, load, sample, armed, pace, manual, acts>>
machine == <<process, clock, sample>>

Nothing == [time |-> 0, full |-> FALSE, none |-> TRUE]
Arrived(t, f) == [time |-> t, full |-> f, none |-> FALSE]
Ended(completed) == [bench EXCEPT !.active = FALSE, !.completed = completed]
Counted == acts < MaxActs /\ acts' = acts + 1

--------------------------------------------------------------------------
(* The simulator: time passes, the ESC starts over, the process dies.      *)
Simulate ==
    /\ process /\ clock < MaxTime
    /\ clock' = clock + 1
    /\ \/ \E full \in BOOLEAN : sample' = Arrived(clock', full)
       \/ UNCHANGED sample
    /\ UNCHANGED <<bench, throttle, enabled, process, load, armed, pace, manual, acts>>

StartsOver ==
    /\ process /\ clock > 0 /\ Counted
    /\ clock' = 0
    /\ UNCHANGED <<bench, throttle, enabled, process, load, sample, armed, pace, manual>>

Dies ==
    /\ process /\ Counted /\ process' = FALSE
    /\ UNCHANGED <<bench, throttle, enabled, clock, load, sample, armed, pace, manual>>

--------------------------------------------------------------------------
(* start_bench: the window's own outputs first, then files and simulator;  *)
(* with no EEPROM, no model or no simulator it ends early.                 *)
Prepared ==
    /\ ~bench.active /\ Counted
    /\ throttle' = 0 /\ enabled' = TRUE /\ manual' = FALSE

StartFails ==
    /\ Prepared /\ process' = FALSE
    /\ bench' = [bench EXCEPT !.completed = FALSE]
    /\ sample' \in {sample, Nothing}
    /\ UNCHANGED <<clock, load, armed, pace>>

\* A sample of the simulator before may still arrive after the list is cleared.
StartBench ==
    /\ Prepared /\ process' = TRUE /\ clock' = 0
    /\ bench' = [active |-> TRUE, completed |-> FALSE, stage |-> 1,
                 deadline |-> Stages[1].seconds, fine |-> FALSE]
    /\ load' = Stages[1].load /\ sample' \in {sample, Nothing}
    /\ UNCHANGED <<armed, pace>>

StopBench ==
    /\ Counted
    /\ bench' = Ended(FALSE) /\ throttle' = 0 /\ manual' = FALSE
    /\ UNCHANGED <<enabled, machine, load, armed, pace>>

\* manual_bench_override, also when DShot is switched.
Override ==
    /\ Counted
    /\ \/ \E v \in {0, 1} : v # throttle /\ throttle' = v /\ UNCHANGED enabled
       \/ enabled' = ~enabled /\ UNCHANGED throttle
    /\ bench' = IF bench.active THEN Ended(FALSE) ELSE bench
    /\ manual' = TRUE
    /\ UNCHANGED <<machine, load, armed, pace>>

\* sim_start: the simulator is started again with the model that is selected.
Relaunch ==
    /\ Counted /\ process' = TRUE /\ clock' = 0
    /\ UNCHANGED <<bench, throttle, enabled, load, sample, armed, pace, manual>>

--------------------------------------------------------------------------
(* update_bench, while it is active.                                       *)
\* After 120 s, when the simulator is gone, or short of full duty.
Fails ==
    /\ bench' = Ended(FALSE) /\ throttle' = 0
    /\ UNCHANGED <<enabled, load, armed, pace, manual>>

GivesUp ==
    /\ bench.active /\ acts' = acts /\ UNCHANGED machine
    /\ Fails

Due == /\ bench.active /\ process /\ ~sample.none /\ sample.time >= bench.deadline
       /\ acts' = acts /\ UNCHANGED machine
Coming == Stages[bench.stage + 1]

Completes ==
    /\ Due /\ bench.stage = Len(Stages)
    /\ bench' = Ended(TRUE) /\ throttle' = 0
    /\ UNCHANGED <<enabled, load, armed, pace, manual>>

Settles ==
    /\ Due /\ bench.stage < Len(Stages) /\ Coming.capture /\ ~bench.fine
    /\ bench' = [bench EXCEPT !.fine = TRUE, !.deadline = sample.time + Settle]
    /\ pace' = sample.time
    /\ UNCHANGED <<throttle, enabled, load, armed, manual>>

Short == Coming.capture /\ FullDuty /\ ~sample.full
NotFull == Due /\ bench.stage < Len(Stages) /\ bench.fine /\ Short /\ Fails

Advance ==
    /\ Due /\ bench.stage < Len(Stages)
    /\ ~Short /\ (Coming.capture => bench.fine)
    /\ armed' = IF Coming.capture
                THEN Append(armed, [at |-> sample.time, fine |-> bench.fine, pace |-> pace,
                                       full |-> sample.full])
                ELSE armed
    /\ load' = IF Coming.load = 0 THEN load ELSE Coming.load
    /\ bench' = [bench EXCEPT !.stage = @ + 1, !.deadline = sample.time + Coming.seconds]
    /\ throttle' = Coming.throttle
    /\ UNCHANGED <<enabled, pace, manual>>

Init ==
    /\ bench = [active |-> FALSE, completed |-> FALSE, stage |-> 1, deadline |-> 0,
                fine |-> FALSE]
    /\ throttle = 0 /\ enabled = FALSE /\ process = FALSE /\ clock = 0
    /\ load = Stages[1].load /\ sample = Nothing /\ armed = <<>> /\ pace = 0
    /\ manual = FALSE /\ acts = 0

Next ==
    \/ Simulate \/ StartsOver \/ Dies
    \/ StartFails \/ StartBench \/ StopBench \/ Override \/ Relaunch
    \/ GivesUp \/ Completes \/ Settles \/ NotFull \/ Advance

--------------------------------------------------------------------------
TypeOK ==
    /\ bench.stage \in DOMAIN Stages /\ clock \in 0..MaxTime /\ acts \in 0..MaxActs
    /\ throttle \in Nat /\ enabled \in BOOLEAN /\ process \in BOOLEAN /\ manual \in BOOLEAN

\* A benchmark that runs commands the throttle of its stage over DShot, to a motor
\* with the load of its stages so far: what the user does instead ends it, and a
\* simulator that is started again keeps the load.
RecipeKept ==
    bench.active =>
        /\ enabled /\ throttle = Stages[bench.stage].throttle
        /\ \E k \in 1..bench.stage :
              /\ load = Stages[k].load /\ (k > 1 => load > 0)
              /\ \A later \in k + 1..bench.stage : Stages[later].load = 0

\* However it ends, unless the user has taken over, the throttle is zero.
EndsQuiet == ~bench.active /\ ~manual => throttle = 0

\* A capture is armed, and its load applied, when the pace that it needs was asked
\* for and has settled, and at full duty where the recipe wants that.
CaptureSettled ==
    \A i \in DOMAIN armed :
        /\ armed[i].fine /\ armed[i].at >= armed[i].pace + Settle
        /\ FullDuty => armed[i].full
=============================================================================
