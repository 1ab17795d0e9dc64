----------------------------- MODULE SimProcess -----------------------------
(***************************************************************************)
(* The simulator as a child process: SimRunner (control/sim_runner.py), the *)
(* Start and Stop buttons of the control UI and the timer that drains the  *)
(* child's output (control/ui.py).  A launch's pump thread looks up which  *)
(* process it reads from only once it runs.                                *)
(***************************************************************************)
EXTENDS Naturals

CONSTANT MaxLaunches    \* bound

Ids == 1..MaxLaunches

VARIABLES
    procs,      \* per launch: "none", "live", "clean" or "failed" exit, "killed"
    cur,        \* runner.proc, 0 for None
    requested,  \* _requested_stop
    pumps,      \* per launch, its pump thread: "none", "new", "reading", "done"
    reads,      \* the process a pump thread reads
    log,        \* lines wait in sim_out_q
    shown       \* sim_stop_btn is enabled: the panel says running

vars == <<procs, cur, requested, pumps, reads, log, shown>>

Init ==
    /\ procs = [i \in Ids |-> "none"] /\ cur = 0 /\ requested = 0
    /\ pumps = [i \in Ids |-> "none"] /\ reads = [i \in Ids |-> 0] /\ log = FALSE /\ shown = FALSE

Running == cur # 0 /\ procs[cur] = "live"
Unused == {i \in Ids : procs[i] = "none"}

Stopped == IF Running THEN [procs EXCEPT ![cur] = "killed"] ELSE procs
Stop ==
    /\ requested' = IF cur # 0 THEN cur ELSE requested
    /\ procs' = Stopped /\ cur' = 0

\* start stops what runs first, then starts, or fails for want of a file.
Launch ==
    \E i \in Unused :
        /\ \A j \in Unused : i <= j
        /\ procs' = [Stopped EXCEPT ![i] = "live"] /\ cur' = i /\ requested' = 0
        /\ pumps' = [pumps EXCEPT ![i] = "new"] /\ log' = TRUE /\ shown' = TRUE
        /\ UNCHANGED reads
LaunchFails == Unused # {} /\ cur # 0 /\ Stop /\ UNCHANGED <<pumps, reads, log, shown>>

\* Mutant: a stop forgets the process it asked to end.
HaltForgets == cur' = 0 /\ shown' = FALSE /\ UNCHANGED <<procs, requested, pumps, reads, log>>
Halt == Stop /\ shown' = FALSE /\ UNCHANGED <<pumps, reads, log>>

Exits(i) ==
    /\ procs[i] = "live" /\ \E how \in {"clean", "failed"} : procs' = [procs EXCEPT ![i] = how]
    /\ UNCHANGED <<cur, requested, pumps, reads, log, shown>>

PumpStarts(i) ==
    /\ pumps[i] = "new" /\ reads' = [reads EXCEPT ![i] = cur]
    /\ pumps' = [pumps EXCEPT ![i] = IF cur = 0 THEN "done" ELSE "reading"]
    /\ UNCHANGED <<procs, cur, requested, log, shown>>
PumpLine(i) ==
    /\ pumps[i] = "reading" /\ procs[reads[i]] = "live"
    /\ log' = TRUE /\ UNCHANGED <<procs, cur, requested, pumps, reads, shown>>

\* An exit nobody asked for is logged, unless its status is 0.
Unexpected(k) == cur = k /\ requested # k /\ procs[k] = "failed"
PumpEnds(i) ==
    /\ pumps[i] = "reading" /\ procs[reads[i]] # "live"
    /\ pumps' = [pumps EXCEPT ![i] = "done"] /\ log' = (log \/ Unexpected(reads[i]))
    /\ UNCHANGED <<procs, cur, requested, reads, shown>>

Drain ==
    /\ log /\ log' = FALSE
    /\ IF ~Running /\ shown THEN Stop /\ shown' = FALSE
       ELSE UNCHANGED <<procs, cur, requested, shown>>
    /\ UNCHANGED <<pumps, reads>>

Pump(i) == PumpStarts(i) \/ PumpEnds(i)
Next == Launch \/ LaunchFails \/ Halt \/ Drain \/ \E i \in Ids : Exits(i) \/ Pump(i) \/ PumpLine(i)

--------------------------------------------------------------------------
TypeOK ==
    /\ procs \in [Ids -> {"none", "live", "clean", "failed", "killed"}]
    /\ cur \in 0..MaxLaunches /\ requested \in 0..MaxLaunches
    /\ {log, shown} \subseteq BOOLEAN

\* One simulator at most, and none once the panel says stopped.
OneProcess == \A i \in Ids : procs[i] = "live" => i = cur /\ shown

\* The comment in _pump: an unexpected early exit does not stay unseen.
DeathShown == cur # 0 /\ procs[cur] = "failed" ~> ~shown \/ Running \/ cur = 0
=============================================================================
