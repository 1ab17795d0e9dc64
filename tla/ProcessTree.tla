----------------------------- MODULE ProcessTree -----------------------------
(***************************************************************************)
(* escsim/renode/process.py, class ProcessTree, with the thread that pumps  *)
(* its output (ProcRunner of gui.py, RenodeSession): a process and its     *)
(* descendants are started, and ended when the owner stops them, whether   *)
(* they heed a signal or not.  On POSIX they are a process group; on       *)
(* Windows a job object, which a descendant may break away from.           *)
(*                                                                         *)
(* A descendant inherits the output pipe and the private temporary         *)
(* directory.  A descendant that leaves the process group is not modelled. *)
(***************************************************************************)
EXTENDS FiniteSets, TLAPS

CONSTANTS
    Kids            \* processes the first one may start

VARIABLES
    os,             \* "posix" or "nt"
    leader,         \* external: the process that was started: "run" or "dead"
    kids,           \* external: its descendants that run
    away,           \* external: of these, the ones that left the job
    job,            \* ProcessTree.job is open
    temp,           \* ProcessTree._temp_directory exists
    spc,            \* the thread in ProcessTree.stop
    pump,           \* the thread in _pump
    orphaned        \* observer: the leader had ended before stop looked, or
                    \* taskkill failed or missed a process

vars == <<os, leader, kids, away, job, temp, spc, pump, orphaned>>
world == <<leader, kids, away>>

Init ==
    /\ os \in {"posix", "nt"} /\ leader = "run" /\ kids = {} /\ away = {}
    /\ job = (os = "nt") /\ temp = TRUE /\ spc = "running" /\ pump = "reading"
    /\ orphaned = FALSE

-----------------------------------------------------------------------------
(* The processes. *)

\* What a process outside the job starts is outside as well.
SpawnKid ==
    /\ \E k \in Kids \ kids :
        /\ kids' = kids \cup {k}
        /\ \/ (leader = "run" \/ kids \ away # {}) /\ UNCHANGED away
           \/ away # {} /\ away' = away \cup {k}
    /\ UNCHANGED <<os, leader, job, temp, spc, pump, orphaned>>

BreakAway ==
    /\ os = "nt" /\ \E k \in kids \ away : away' = away \cup {k}
    /\ UNCHANGED <<os, leader, kids, job, temp, spc, pump, orphaned>>

LeaderEnds ==
    /\ leader = "run" /\ leader' = "dead" /\ orphaned' = (orphaned \/ spc = "running")
    /\ UNCHANGED <<os, kids, away, job, temp, spc, pump>>

KidEnds ==
    /\ \E k \in kids : kids' = kids \ {k} /\ away' = away \ {k}
    /\ UNCHANGED <<os, leader, job, temp, spc, pump, orphaned>>

\* The job, or the group, ends with everything in it.
KillsGroup == leader' = "dead" /\ kids' = kids \cap away /\ UNCHANGED away

-----------------------------------------------------------------------------
(* stop *)

StopBegins ==
    /\ spc = "running"
    /\ spc' = IF leader = "dead" THEN IF os = "nt" THEN "close" ELSE "sweep"
              ELSE IF os = "nt" THEN "taskkill" ELSE "wait"
    /\ UNCHANGED <<os, world, job, temp, pump, orphaned>>

\* SIGTERM and the wait for the leader: it ends, or the time is over.
GracefulWait ==
    /\ os = "posix" /\ spc = "wait" /\ spc' = "sweep"
    /\ UNCHANGED <<os, world, job, temp, pump, orphaned>>

\* The group is looked at until it is empty, or the time is over.
Sweep ==
    /\ os = "posix" /\ spc = "sweep" /\ spc' = "kill"
    /\ UNCHANGED <<os, world, job, temp, pump, orphaned>>

\* Mutant: only the leader is killed.
KillGroupLeader ==
    /\ os = "posix" /\ spc = "kill" /\ spc' = "clean"
    /\ leader' = "dead" /\ UNCHANGED <<kids, away>>
    /\ UNCHANGED <<os, job, temp, pump, orphaned>>

KillGroup ==
    /\ os = "posix" /\ spc = "kill" /\ spc' = "clean" /\ KillsGroup
    /\ UNCHANGED <<os, job, temp, pump, orphaned>>

\* taskkill /T ends the descendants it finds below a leader that still runs; it may
\* miss one that is just being started, or fail.
Taskkill ==
    /\ os = "nt" /\ spc = "taskkill" /\ spc' = "ntwait"
    /\ \E missed \in IF leader = "run" THEN SUBSET kids ELSE {kids} :
        /\ kids' = missed /\ away' = away \cap missed
        /\ leader' \in IF missed = kids THEN {leader, "dead"} ELSE {"dead"}
        /\ orphaned' = (orphaned \/ missed # {} \/ leader' = "run")
    /\ UNCHANGED <<os, job, temp, pump>>

\* Its wait for the leader, which ends it with the job when the time is over.
WindowsWait ==
    /\ os = "nt" /\ spc = "ntwait" /\ spc' = "close"
    /\ \/ leader = "dead" /\ UNCHANGED world
       \/ leader = "run" /\ KillsGroup
    /\ UNCHANGED <<os, job, temp, pump, orphaned>>

\* The handle is closed, which kills what the job still holds.
CloseJob ==
    /\ os = "nt" /\ spc = "close" /\ spc' = "clean" /\ job' = FALSE /\ KillsGroup
    /\ UNCHANGED <<os, temp, pump, orphaned>>

CleanTemp ==
    /\ spc = "clean" /\ spc' = "done" /\ temp' = FALSE
    /\ UNCHANGED <<os, world, job, pump, orphaned>>

-----------------------------------------------------------------------------
(* _pump: lines until nobody holds the pipe, then the status. *)

OutputEnds ==
    /\ pump = "reading" /\ leader = "dead" /\ kids = {} /\ pump' = "waiting"
    /\ UNCHANGED <<os, world, job, temp, spc, orphaned>>

ExitLine ==
    /\ pump = "waiting" /\ leader = "dead" /\ pump' = "reported"
    /\ UNCHANGED <<os, world, job, temp, spc, orphaned>>

StopStep == \/ GracefulWait \/ Sweep \/ KillGroup \/ Taskkill \/ WindowsWait
            \/ CloseJob \/ CleanTemp
PumpStep == OutputEnds \/ ExitLine

Next == SpawnKid \/ BreakAway \/ LeaderEnds \/ KidEnds \/ StopBegins \/ StopStep
        \/ PumpStep

-----------------------------------------------------------------------------
TypeOK ==
    /\ os \in {"posix", "nt"} /\ leader \in {"run", "dead"}
    /\ away \subseteq kids /\ kids \subseteq Kids
    /\ job \in BOOLEAN /\ temp \in BOOLEAN /\ orphaned \in BOOLEAN
    /\ spc \in {"running", "wait", "sweep", "kill", "taskkill", "ntwait", "close",
                "clean", "done"}
    /\ pump \in {"reading", "waiting", "reported"}

\* When stop returns nothing of the tree is left, but for a descendant that broke
\* away from its job where taskkill could not find it: the reason for which the
\* tree is taken down while its leader still runs (process.py, stop).  Until then
\* the temporary directory stays.
NothingLeft ==
    /\ spc = "done" => leader = "dead" /\ kids \subseteq away
                         /\ (os = "posix" => kids = {})
    /\ ~temp => leader = "dead" /\ kids \subseteq away

\* Where the leader ran and taskkill found everything, nothing is left at all.
OnlyOrphansLeft ==
    [][CleanTemp /\ kids # {} => orphaned]_vars

\* Stop comes to its end whatever the processes do, and where nothing can break
\* away so does the pump, with the exit line.
StopEnds ==
    /\ spc # "running" ~> spc = "done"
    /\ (os = "posix" /\ spc = "done") ~> pump = "reported"

-----------------------------------------------------------------------------
(* stop takes the tree down, whatever its processes do.                    *)

\* Where the thread in stop may be, and what it has ended by then.  On POSIX nothing
\* leaves the group; a process starts another one only while one of its kind runs, so
\* a tree that is down stays down.
IInv ==
    /\ TypeOK
    /\ os = "posix" => away = {}
                       /\ spc \in {"running", "wait", "sweep", "kill", "clean", "done"}
    /\ os = "nt" => spc \in {"running", "taskkill", "ntwait", "close", "clean", "done"}
    /\ spc \in {"clean", "done"} => leader = "dead" /\ kids \subseteq away
    /\ ~temp => spc = "done"

\* On Windows nothing can be left unless the observer says why: the leader had ended
\* before stop looked, or taskkill left something.
OrphanInv ==
    ~orphaned =>
        /\ spc = "running" => leader = "run"
        /\ os = "nt" /\ spc \in {"ntwait", "close", "clean", "done"} =>
             leader = "dead" /\ kids = {}

\* A tree that has just been started satisfies the invariant.
LEMMA InitInv == Init => IInv
  BY DEF Init, IInv, TypeOK

\* The processes of the tree go on while stop works.
LEMMA WorldInv ==
    ASSUME IInv, SpawnKid \/ BreakAway \/ LeaderEnds \/ KidEnds
    PROVE  IInv'
  <1> USE DEF IInv, TypeOK
  <1>1. CASE SpawnKid
    BY <1>1 DEF SpawnKid
  <1>2. CASE BreakAway
    BY <1>2 DEF BreakAway
  <1>3. CASE LeaderEnds
    BY <1>3 DEF LeaderEnds
  <1>4. CASE KidEnds
    BY <1>4 DEF KidEnds
  <1> QED
    BY <1>1, <1>2, <1>3, <1>4

\* So it does while stop waits, kills and cleans up.
LEMMA StopInv ==
    ASSUME IInv, StopBegins \/ StopStep
    PROVE  IInv'
  <1> USE DEF IInv, TypeOK, world
  <1>1. CASE StopBegins
    BY <1>1 DEF StopBegins
  <1>2. CASE GracefulWait \/ Sweep
    BY <1>2 DEF GracefulWait, Sweep
  <1>3. CASE KillGroup
    BY <1>3 DEF KillGroup, KillsGroup
  <1>4. CASE Taskkill
    BY <1>4 DEF Taskkill
  <1>5. CASE WindowsWait
    BY <1>5 DEF WindowsWait, KillsGroup
  <1>6. CASE CloseJob
    BY <1>6 DEF CloseJob, KillsGroup
  <1>7. CASE CleanTemp
    BY <1>7 DEF CleanTemp
  <1> QED
    BY <1>1, <1>2, <1>3, <1>4, <1>5, <1>6, <1>7 DEF StopStep

\* No step of the tree, of stop or of the output pump breaks the invariant.
LEMMA NextInv == IInv /\ [Next]_vars => IInv'
  <1> SUFFICES ASSUME IInv, [Next]_vars PROVE IInv'
    OBVIOUS
  <1>1. CASE PumpStep
    BY <1>1 DEF IInv, TypeOK, world, PumpStep, OutputEnds, ExitLine
  <1>2. CASE UNCHANGED vars
    BY <1>2 DEF IInv, TypeOK, vars
  <1> QED
    BY <1>1, <1>2, WorldInv, StopInv DEF Next

\* The invariant holds in every state of the tree.
THEOREM Invariance == Init /\ [][Next]_vars => []IInv
  BY InitInv, NextInv, PTL

\* When stop returns, nothing of the tree is left but what broke away from its job,
\* and the temporary directory goes only then (process.py, stop).
THEOREM TreeEnds == Init /\ [][Next]_vars => []NothingLeft
  <1>1. IInv => NothingLeft
    BY DEF IInv, NothingLeft
  <1> QED
    BY Invariance, <1>1, PTL

\* No step leaves a process behind that the observer does not account for.
LEMMA OrphanStep == IInv /\ OrphanInv /\ [Next]_vars => OrphanInv'
  <1> SUFFICES ASSUME IInv, OrphanInv, [Next]_vars PROVE OrphanInv'
    OBVIOUS
  <1> USE DEF IInv, TypeOK, OrphanInv, world
  <1>1. CASE SpawnKid
    BY <1>1 DEF SpawnKid
  <1>2. CASE BreakAway \/ LeaderEnds \/ KidEnds
    BY <1>2 DEF BreakAway, LeaderEnds, KidEnds
  <1>3. CASE StopBegins \/ GracefulWait \/ Sweep \/ KillGroup
    BY <1>3 DEF StopBegins, GracefulWait, Sweep, KillGroup, KillsGroup
  <1>4. CASE Taskkill
    BY <1>4 DEF Taskkill
  <1>5. CASE WindowsWait \/ CloseJob \/ CleanTemp
    BY <1>5 DEF WindowsWait, CloseJob, CleanTemp, KillsGroup
  <1>6. CASE PumpStep
    BY <1>6 DEF PumpStep, OutputEnds, ExitLine
  <1>7. CASE UNCHANGED vars
    BY <1>7 DEF vars
  <1> QED
    BY <1>1, <1>2, <1>3, <1>4, <1>5, <1>6, <1>7 DEF Next, StopStep

\* Where the leader still ran when stop looked, and taskkill found everything, nothing
\* at all is left when stop cleans up (process.py, stop on Windows).
THEOREM OrphansOnly == Init /\ [][Next]_vars => OnlyOrphansLeft
  <1>1. Init => OrphanInv
    BY DEF Init, OrphanInv
  <1>2. IInv /\ OrphanInv /\ [Next]_vars => [CleanTemp /\ kids # {} => orphaned]_vars
    BY DEF IInv, TypeOK, OrphanInv, CleanTemp
  <1> QED
    BY <1>1, <1>2, OrphanStep, Invariance, PTL DEF OnlyOrphansLeft
=============================================================================
