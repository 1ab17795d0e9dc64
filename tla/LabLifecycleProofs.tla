------------------------- MODULE LabLifecycleProofs -------------------------
(***************************************************************************)
(* Theorems about LabLifecycle for any number of launches, downloads and   *)
(* upsets.                                                                 *)
(***************************************************************************)
EXTENDS LabLifecycle, TLAPS

Running(n) == group[n] \in {"all", "some"}

\* What the Qt thread is doing follows from where it is; a Start has room for
\* its launch, and no current launch beside it unless it overlaps one.  Before a
\* Stop or an exit takes the endpoint down, it has made the launch void.
QtShape ==
    /\ qtJob = "none" <=> pc[Qt] \in {"idle", "closing", "closed"}
    /\ pc[Qt] = "launched" => qtJob = "start"
    /\ pc[Qt] = "void" => generation = 0
    /\ qtJob = "start" => NextLaunch \in Launches
    /\ qtJob = "start" /\ ~overlapped => generation = 0

\* Launches that have no generation yet have no threads.
Fresh == \A o \in Owners : o[2] > launches => pc[o] = "none"

\* RunningIsCurrent for every place of the Qt thread.
RunShape ==
    /\ \A n \in Launches : Running(n) =>
           \/ qtJob \in {"stop", "exit"}
           \/ qtJob = "none" /\ n = generation
           \/ pc[Qt] = "launched" /\ n = NextLaunch
    /\ fc # 0 =>
           \/ qtJob \in {"stop", "exit"}
           \/ fc \in 1..generation /\ (~overlapped => fc = generation)
           \/ pc[Qt] = "launched" /\ fc = NextLaunch

\* Only a thread on its way through _stop_stub holds an endpoint to close.
HeldShape == \A t \in Threads : held[t] # None => pc[t] \in {"drop", "close"}

\* Where a thread that brings an endpoint up still has it.
Bringing == {"gated", "importing", "remember", "publish", "undo"}

\* Only startups open endpoints; one stays open until its thread is through, or
\* as the published one.
OpenShape ==
    \A o \in open :
        /\ o[1] = "start"
        /\ pc[o] \in Bringing \cup {"release", "raised", "drop", "close", "done"}

\* Who published has left the import behind.
StubShape ==
    stub # None => stub[1] = "start" /\ pc[stub] \in {"release", "raised", "done"}

\* The invariant, by what it speaks of: data, threads, processes, endpoints, leases.
Places == PlacesOK /\ QtShape /\ Fresh

Ends == HeldShape /\ OpenShape /\ StubShape /\ EndpointsOwned /\ PublishedIsCurrent

IInv == DataOK /\ FlagsOK /\ Places /\ RunShape /\ Ends /\ NoLostImport

-----------------------------------------------------------------------------
USE ModeAssumption

(* Owners are pairs of a kind and a launch, different from the Qt thread. *)
LEMMA OwnerParts ==
    /\ \A o \in Owners : /\ o[1] \in {"start", "handoff", "watch"} /\ o[2] \in Launches
                         /\ o # Qt /\ o # None /\ o \in Threads
    /\ Qt \in Threads /\ Qt # None /\ Qt[1] = "qt"
    /\ \A t \in Threads : t = Qt \/ t \in Owners
    /\ \A o, p \in Owners : o[1] = p[1] /\ o[2] = p[2] => o = p
  BY DEF Owners, Kinds, Launches, Qt, None, Threads

(* The owners of launch n, by name. *)
LEMMA NamedOwners ==
    ASSUME NEW n \in Launches
    PROVE  /\ Startup(n) \in Owners /\ Startup(n)[1] = "start" /\ Startup(n)[2] = n
           /\ Handoff(n)[1] = "handoff" /\ Handoff(n)[2] = n
           /\ "handoff" \in Kinds => Handoff(n) \in Owners
           /\ Watch(n)[1] = "watch" /\ Watch(n)[2] = n
           /\ "watch" \in Kinds => Watch(n) \in Owners
  BY DEF Owners, Kinds, Startup, Handoff, Watch

(* The places of each kind of thread. *)
LEMMA LabelsOf ==
    /\ Labels["start"] = StartLabels
    /\ Labels["handoff"] =
           {"none", "manifest", "handoff", "drop", "close", "fcConnect", "usbReady", "gated",
            "importing", "remember", "publish", "undo", "handoffFails", "release", "done"}
    /\ Labels["watch"] = {"none", "watch", "watchLock", "watchGated", "watchImport",
                          "watchTty", "done"}
    /\ Labels["qt"] = {"idle", "void", "drop", "close", "launched", "closing", "closed"}
  BY DEF Labels

\* Thread t goes to l; pc stays a function of the threads.
Moved(t, l) ==
    /\ pc' \in [Threads -> AllLabels]
    /\ pc'[t] = l
    /\ \A u \in Threads : u # t => pc'[u] = pc[u]

(* What Goto does, without EXCEPT. *)
LEMMA Moves ==
    ASSUME PlacesOK, NEW t \in Threads, NEW l \in Labels[t[1]], Goto(t, l)
    PROVE  Moved(t, l)
<1>1. t[1] \in {"start", "handoff", "watch", "qt"}
  BY OwnerParts
<1>2. l \in AllLabels
  BY <1>1 DEF AllLabels, Labels
<1> QED
  BY <1>2 DEF PlacesOK, Goto, Moved

-----------------------------------------------------------------------------
(* What a step of an owner keeps.                                          *)

(* An owner goes to another of its places. *)
LEMMA PlacesKept ==
    ASSUME Places, NEW o \in Owners, NEW l \in Labels[o[1]], Moved(o, l), pc[o] # "none",
           UNCHANGED <<generation, launches, qtJob, overlapped>>
    PROVE  Places'
<1> USE OwnerParts DEF Moved, Places
<1>1. PlacesOK'
  BY DEF PlacesOK
<1>2. QtShape'
  BY DEF QtShape, NextLaunch
<1>3. Fresh'
  BY DEF Fresh
<1> QED
  BY <1>1, <1>2, <1>3

(* No process starts or ends. *)
LEMMA RunsKept ==
    ASSUME RunShape, pc'[Qt] = pc[Qt],
           UNCHANGED <<generation, launches, group, fc, qtJob, overlapped>>
    PROVE  RunShape'
  BY DEF RunShape, Running, NextLaunch

(* A thread moves and no endpoint is opened, taken or closed; the Qt thread may *)
(* make the launch void. *)
LEMMA EndsKept ==
    ASSUME DataOK, Ends, NEW o \in Threads, NEW l, Moved(o, l),
           UNCHANGED <<stub, open, held, overlapped>>,
           \/ o = Qt /\ l = "void"
           \/ UNCHANGED generation /\ (o = Qt => pc[Qt] # "void"),
           pc[o] \in {"drop", "close"} => l \in {"drop", "close"},
           o \in open =>
               /\ l \in Bringing \cup {"release", "raised", "drop", "close", "done"}
               /\ pc[o] \in Bringing => l \in Bringing,
           stub = o => l \in {"raised", "done"}
    PROVE  Ends'
<1> USE OwnerParts DEF Moved, Ends
<1>1. HeldShape'
  BY DEF HeldShape
<1>2. OpenShape'
  BY DEF OpenShape, DataOK
<1>3. StubShape'
  BY DEF StubShape, DataOK
<1>4. EndpointsOwned'
  BY DEF EndpointsOwned, DataOK, Bringing
<1>5. PublishedIsCurrent'
  BY DEF PublishedIsCurrent
<1> QED
  BY <1>1, <1>2, <1>3, <1>4, <1>5

(* A thread moves and no lease changes. *)
LEMMA ImportsKept ==
    ASSUME NoLostImport, NEW o \in Threads, NEW l, Moved(o, l), UNCHANGED <<lease, usbPorts>>,
           pc[o] # "remember"
    PROVE  NoLostImport'
  BY OwnerParts DEF NoLostImport, Moved

(* The published endpoint goes into the hands of a thread. *)
LEMMA TakeStubEnds ==
    ASSUME DataOK, Ends, NEW t \in Threads, NEW l \in {"drop", "close"}, Moved(t, l),
           pc[t] \notin {"drop", "close"} \cup Bringing,
           TakeStub(t), UNCHANGED open, overlapped => overlapped'
    PROVE  Ends'
<1> USE OwnerParts DEF Moved, Ends, TakeStub
<1>1. held[t] = None /\ held'[t] = stub /\ \A u \in Threads : u # t => held'[u] = held[u]
  BY DEF HeldShape, DataOK
<1>2. HeldShape'
  BY <1>1 DEF HeldShape
<1>3. OpenShape'
  BY DEF OpenShape, DataOK
<1>4. StubShape' /\ PublishedIsCurrent'
  BY DEF StubShape, PublishedIsCurrent
<1>5. EndpointsOwned'
  BY <1>1 DEF EndpointsOwned, DataOK, Bringing
<1> QED
  BY <1>2, <1>3, <1>4, <1>5

(* The endpoint that a thread took is closed. *)
LEMMA CloseHeldEnds ==
    ASSUME DataOK, Ends, NEW t \in Threads, NEW l, Moved(t, l), CloseHeld(t),
           pc[t] = "close", t \in open => l = "done",
           UNCHANGED <<stub, generation, overlapped>>
    PROVE  Ends'
<1> USE OwnerParts DEF Moved, Ends, CloseHeld
<1>1. held'[t] = None /\ \A u \in Threads : u # t => held'[u] = held[u]
  BY DEF DataOK
<1>2. HeldShape'
  BY <1>1 DEF HeldShape
<1>3. OpenShape'
  BY DEF OpenShape, DataOK, Bringing
<1>4. StubShape' /\ PublishedIsCurrent'
  BY DEF StubShape, PublishedIsCurrent, DataOK
<1>5. EndpointsOwned'
  BY <1>1 DEF EndpointsOwned, DataOK, Bringing
<1> QED
  BY <1>2, <1>3, <1>4, <1>5

(* A lease that _detach_owned_usb leaves is as it was, and still known. *)
LEMMA DetachKeeps ==
    ASSUME NEW S, NEW refused, DetachOwned(S, refused)
    PROVE  \A o \in Owners : lease'[o] # "none" =>
               lease'[o] = lease[o] /\ (o \in usbPorts => o \in usbPorts')
  BY DEF DetachOwned

(* So a thread that detaches leases loses none. *)
LEMMA DetachImports ==
    ASSUME NoLostImport, NEW t \in Threads, NEW l, Moved(t, l), pc[t] # "remember",
           NEW S, NEW refused, DetachOwned(S, refused)
    PROVE  NoLostImport'
  BY DetachKeeps, OwnerParts DEF NoLostImport, Moved

(* Steps that change nothing of the invariant but where an owner is. *)
LEMMA OnlyMoves ==
    ASSUME IInv, NEW o \in Owners, NEW l \in Labels[o[1]], Goto(o, l),
           UNCHANGED <<generation, launches, group, fc, qtJob, overlapped,
                       stub, open, held, lease, usbPorts>>,
           pc[o] \notin {"none", "remember", "drop", "close"} \cup Bringing,
           o \in open => l \in {"raised", "done"},
           stub = o => l \in {"raised", "done"}
    PROVE  Places' /\ RunShape' /\ Ends' /\ NoLostImport'
<1> USE OwnerParts
<1>1. Moved(o, l)
  BY Moves DEF IInv, Places
<1>2. Places'
  BY <1>1, PlacesKept DEF IInv
<1>3. RunShape'
  BY <1>1, RunsKept DEF IInv, Moved
<1>4. Ends'
  BY <1>1, EndsKept DEF IInv
<1>5. NoLostImport'
  BY <1>1, ImportsKept DEF IInv
<1> QED
  BY <1>2, <1>3, <1>4, <1>5

-----------------------------------------------------------------------------
(* Types.                                                                  *)

(* A flag of a thread is cleared. *)
LEMMA ErrorFlags ==
    ASSUME NEW f \in [Threads -> BOOLEAN], NEW g,
           g = f \/ \E t \in Threads : g = [f EXCEPT ![t] = FALSE]
    PROVE  g \in [Threads -> BOOLEAN]
  OBVIOUS

(* Types of the data: the steps of the Qt thread but Start, *)
LEMMA DataQt ==
    ASSUME IInv, mode' \in Modes, upsets' \in 0..MaxUpsets, overlapped' \in BOOLEAN,
           \/ StartProcesses \/ StartFails \/ NewGeneration \/ Stop \/ StopStub \/ StopProcesses
           \/ ExitProcesses \/ SawBound \/ CloseProgram
           \/ \E line \in lines : SawExit(line) \/ SawUnbound(line)
    PROVE  DataOK' /\ FlagsOK'
<1> USE OwnerParts, NamedOwners
<1> USE DEF IInv, DataOK, FlagsOK, gens, procs, flags, stubs, leases, books, ui, launcher
<1>1. CASE StartProcesses
  <2>1. DataOK'
    <3>1. held' \in [Threads -> Owners \cup {None}] /\ open' \subseteq Owners
      BY <1>1 DEF StartProcesses, CloseHeld
    <3>2. NextLaunch \in Launches
      BY <1>1 DEF StartProcesses, Places, QtShape
    <3>3. /\ \/ UNCHANGED <<group, fc>>
             \/ group' = [group EXCEPT ![NextLaunch] = "all"] /\ fc' \in {NextLaunch, fc}
          /\ qtJob' \in {"none", qtJob}
      BY ONLY <1>1 DEF StartProcesses
    <3>4. group' \in [Launches -> {"out", "all", "some", "dead"}] /\ fc' \in {0} \cup Launches
      BY <3>2, <3>3
    <3> QED
      BY <1>1, <3>1, <3>3, <3>4 DEF StartProcesses
  <2>2. FlagsOK'
    BY <1>1 DEF StartProcesses, CloseHeld, Places, QtShape, Launches, NextLaunch
  <2> QED
    BY <2>1, <2>2
<1>2. CASE StartFails
  <2>1. DataOK'
    <3>1. held' \in [Threads -> Owners \cup {None}] /\ open' \subseteq Owners
      BY <1>2 DEF StartFails, CloseHeld
    <3>2. NextLaunch \in Launches /\ lines' \in {lines, lines \cup {<<"exit", NextLaunch>>}}
      BY <1>2 DEF StartFails, Places, QtShape
    <3>3. lines' \subseteq {"exit", "unbound"} \X ({0} \cup Launches)
      BY <3>2
    <3> QED
      BY <1>2, <3>1, <3>3 DEF StartFails
  <2>2. FlagsOK'
    BY <1>2 DEF StartFails, CloseHeld
  <2> QED
    BY <2>1, <2>2
<1>3. CASE NewGeneration
  BY <1>3 DEF NewGeneration, Places, QtShape, Launches, NextLaunch
<1>4. CASE Stop
  BY <1>4 DEF Stop
<1>11. CASE StopStub
  BY <1>11 DEF StopStub, TakeStub
<1>5. CASE StopProcesses
  <2>1. DataOK'
    BY <1>5 DEF StopProcesses, CloseHeld, StopRunners, ExitLines, FcExitLine
  <2>2. FlagsOK'
    BY <1>5 DEF StopProcesses, CloseHeld, StopRunners, ExitLines, FcExitLine
  <2> QED
    BY <2>1, <2>2
<1>6. CASE ExitProcesses
  <2>1. DataOK'
    BY <1>6 DEF ExitProcesses, CloseHeld, StopRunners, ExitLines, FcExitLine
  <2>2. FlagsOK'
    BY <1>6 DEF ExitProcesses, CloseHeld, StopRunners, ExitLines, FcExitLine
  <2> QED
    BY <2>1, <2>2
<1>7. CASE SawBound
  BY <1>7 DEF SawBound
<1>8. CASE CloseProgram
  BY <1>8 DEF CloseProgram, Lease!End
<1>9. CASE \E line \in lines : SawExit(line)
  <2>1. DataOK'
    BY <1>9 DEF SawExit
  <2>2. FlagsOK'
    <3>1. /\ fcRequired' \in BOOLEAN /\ startFailed' \in BOOLEAN /\ ready' \in BOOLEAN
          /\ stopped' \in BOOLEAN /\ ended' \in BOOLEAN /\ overlapped' \in BOOLEAN
      BY <1>9 DEF SawExit
    <3>2. cleanupError' \in [Threads -> BOOLEAN]
      BY <1>9 DEF SawExit
    <3> QED
      BY <3>1, <3>2
  <2> QED
    BY <2>1, <2>2
<1>10. CASE \E line \in lines : SawUnbound(line)
  <2>1. DataOK'
    BY <1>10 DEF SawUnbound
  <2>2. FlagsOK'
    <3>1. /\ fcRequired' \in BOOLEAN /\ startFailed' \in BOOLEAN /\ ready' \in BOOLEAN
          /\ stopped' \in BOOLEAN /\ ended' \in BOOLEAN /\ overlapped' \in BOOLEAN
      BY <1>10 DEF SawUnbound
    <3>2. cleanupError' \in [Threads -> BOOLEAN]
      BY <1>10 DEF SawUnbound
    <3> QED
      BY <3>1, <3>2
  <2> QED
    BY <2>1, <2>2
<1> QED
  BY <1>1, <1>2, <1>3, <1>4, <1>5, <1>6, <1>7, <1>8, <1>9, <1>10, <1>11

(* Start, *)
LEMMA DataStart ==
    ASSUME IInv, mode' \in Modes, upsets' \in 0..MaxUpsets, overlapped' \in BOOLEAN,
           Start
    PROVE  DataOK' /\ FlagsOK'
<1> USE OwnerParts, NamedOwners
<1> USE DEF IInv, DataOK, FlagsOK, gens, procs, flags, stubs, leases, books, ui, launcher
<1>1. CASE Start
  <2>1. DataOK'
    BY <1>1 DEF Start, TakeStub
  <2>2. FlagsOK'
    <3>1. /\ fcRequired' \in BOOLEAN /\ startFailed' \in BOOLEAN /\ ready' \in BOOLEAN
          /\ stopped' \in BOOLEAN /\ ended' \in BOOLEAN /\ overlapped' \in BOOLEAN
      BY <1>1 DEF Start, TakeStub
    <3>2. cleanupError' \in [Threads -> BOOLEAN]
      <4>1. \/ UNCHANGED cleanupError
            \/ \E t \in Threads : cleanupError' = [cleanupError EXCEPT ![t] = FALSE]
        BY <1>1 DEF Start, TakeStub
      <4> QED
        BY <4>1, ErrorFlags
    <3> QED
      BY <3>1, <3>2
  <2> QED
    BY <2>1, <2>2
<1> QED
  BY <1>1

(* the startup thread up to the USB device, *)
LEMMA DataStartup ==
    ASSUME IInv, NEW n \in Launches,
           mode' \in Modes, upsets' \in 0..MaxUpsets, overlapped' \in BOOLEAN,
           \/ ConnectMonitor(n) \/ ReadGreeting(n) \/ CheckStarted(n) \/ KillFailed(n)
       \/ WaitPorts(n) \/ CheckReady(n) \/ GiveUp(n)
       \/ Begin(n) \/ StartupRaised(n) \/ StartupFailed(n)
    PROVE  DataOK' /\ FlagsOK'
<1> USE OwnerParts, NamedOwners
<1> USE DEF IInv, DataOK, FlagsOK, gens, procs, flags, stubs, leases, books, ui, launcher
<1>1. CASE ConnectMonitor(n)
  BY <1>1 DEF ConnectMonitor
<1>2. CASE ReadGreeting(n)
  BY <1>2 DEF ReadGreeting
<1>3. CASE CheckStarted(n)
  BY <1>3 DEF CheckStarted
<1>4. CASE KillFailed(n)
  BY <1>4 DEF KillFailed, StopRunners, ExitLines, FcExitLine
<1>5. CASE WaitPorts(n)
  BY ZenonT(40), <1>5 DEF WaitPorts
<1>6. CASE CheckReady(n)
  BY <1>6 DEF CheckReady
<1>7. CASE GiveUp(n)
  <2>1. DataOK'
    BY <1>7 DEF GiveUp, StopRunners, ExitLines, FcExitLine
  <2>2. FlagsOK'
    BY <1>7 DEF GiveUp, StopRunners, ExitLines, FcExitLine
  <2> QED
    BY <2>1, <2>2
<1>8. CASE Begin(n)
  BY <1>8 DEF Begin, Raise
<1>9. CASE StartupRaised(n)
  <2>1. DataOK'
    BY <1>9 DEF StartupRaised, TakeStub
  <2>2. FlagsOK'
    <3>1. /\ fcRequired' \in BOOLEAN /\ startFailed' \in BOOLEAN /\ ready' \in BOOLEAN
          /\ stopped' \in BOOLEAN /\ ended' \in BOOLEAN /\ overlapped' \in BOOLEAN
      BY <1>9 DEF StartupRaised, TakeStub
    <3>2. cleanupError' \in [Threads -> BOOLEAN]
      <4>1. \/ UNCHANGED cleanupError
            \/ \E t \in Threads : cleanupError' = [cleanupError EXCEPT ![t] = FALSE]
        BY <1>9 DEF StartupRaised, TakeStub
      <4> QED
        BY <4>1, ErrorFlags
    <3> QED
      BY <3>1, <3>2
  <2> QED
    BY <2>1, <2>2
<1>10. CASE StartupFailed(n)
  BY <1>10 DEF StartupFailed, CloseHeld
<1> QED
  BY <1>1, <1>2, <1>3, <1>4, <1>5, <1>6, <1>7, <1>8, <1>9, <1>10

(* bringing up the USB device, *)
LEMMA DataBringUp ==
    ASSUME IInv, NEW o \in Owners,
           mode' \in Modes, upsets' \in 0..MaxUpsets, overlapped' \in BOOLEAN,
           BringUp(o)
    PROVE  DataOK' /\ FlagsOK'
<1> USE OwnerParts, NamedOwners
<1> USE DEF IInv, DataOK, FlagsOK, gens, procs, flags, stubs, leases, books, ui, launcher
<1>1. CASE WaitFirmware(o)
  BY <1>1 DEF WaitFirmware, Raise
<1>2. CASE Import(o)
  BY <1>2 DEF Import, Raise, Lease!Acquire, Lease!Moves, Lease!LeaseStates
<1>3. CASE Imported(o)
  BY <1>3 DEF Imported, Raise, Lease!Acquired, Lease!Refused, Lease!Moves,
     Lease!LeaseStates
<1>4. CASE Remember(o)
  BY <1>4 DEF Remember, Raise
<1>5. CASE Publish(o)
  <2>1. DataOK'
    BY <1>5 DEF Publish
  <2>2. FlagsOK'
    BY <1>5 DEF Publish
  <2> QED
    BY <2>1, <2>2
<1>6. CASE Undo(o)
  BY <1>6 DEF Undo, DetachOwned, Lease!LeaseStates
<1>7. CASE Release(o)
  BY <1>7 DEF Release
<1> QED
  BY <1>1, <1>2, <1>3, <1>4, <1>5, <1>6, <1>7 DEF BringUp

(* the handoff, *)
LEMMA DataHandoff ==
    ASSUME IInv, NEW n \in Launches,
           mode' \in Modes, upsets' \in 0..MaxUpsets, overlapped' \in BOOLEAN,
           "handoff" \in Kinds,
           \/ CheckHandoff(n) \/ BeginHandoff(n) \/ StartController(n) \/ ConnectController(n)
           \/ HandoffFails(n)
    PROVE  DataOK' /\ FlagsOK'
<1> USE OwnerParts, NamedOwners
<1> USE DEF IInv, DataOK, FlagsOK, gens, procs, flags, stubs, leases, books, ui, launcher
<1>1. CASE CheckHandoff(n)
  BY <1>1 DEF CheckHandoff
<1>2. CASE BeginHandoff(n)
  <2>1. DataOK'
    BY <1>2 DEF BeginHandoff, TakeStub
  <2>2. FlagsOK'
    BY <1>2 DEF BeginHandoff, TakeStub
  <2> QED
    BY <2>1, <2>2
<1>3. CASE StartController(n)
  <2>1. DataOK'
    BY <1>3 DEF StartController, CloseHeld, Raise
  <2>2. FlagsOK'
    BY <1>3 DEF StartController, CloseHeld, Raise
  <2> QED
    BY <2>1, <2>2
<1>4. CASE ConnectController(n)
  BY <1>4 DEF ConnectController, Raise
<1>5. CASE HandoffFails(n)
  <2>1. DataOK'
    BY <1>5 DEF HandoffFails, FcExitLine
  <2>2. FlagsOK'
    BY <1>5 DEF HandoffFails, FcExitLine
  <2> QED
    BY <2>1, <2>2
<1> QED
  BY <1>1, <1>2, <1>3, <1>4, <1>5

(* the watch thread, *)
LEMMA DataWatch ==
    ASSUME IInv, NEW n \in Launches,
           mode' \in Modes, upsets' \in 0..MaxUpsets, overlapped' \in BOOLEAN,
           "watch" \in Kinds,
           \/ WatchReads(n) \/ WatchActs(n) \/ WatchImports(n) \/ WatchImported(n) \/ WatchPublishes(n)
    PROVE  DataOK' /\ FlagsOK'
<1> USE OwnerParts, NamedOwners
<1> USE DEF IInv, DataOK, FlagsOK, gens, procs, flags, stubs, leases, books, ui, launcher
<1>1. CASE WatchReads(n)
  BY <1>1 DEF WatchReads
<1>2. CASE WatchActs(n)
  BY <1>2 DEF WatchActs, WatchKeeps, WatchReimports, DetachOwned, NoLostImport,
     Lease!LeaseStates
<1>3. CASE WatchImports(n)
  BY <1>3 DEF WatchImports, Lease!Acquire, Lease!Moves, Lease!LeaseStates
<1>4. CASE WatchImported(n)
  BY <1>4 DEF WatchImported, Lease!Acquired, Lease!Refused, Lease!Moves, Lease!LeaseStates
<1>5. CASE WatchPublishes(n)
  BY <1>5 DEF WatchPublishes
<1> QED
  BY <1>1, <1>2, <1>3, <1>4, <1>5

(* sleeps and devices that leave, *)
LEMMA DataSleep ==
    ASSUME IInv, mode' \in Modes, upsets' \in 0..MaxUpsets, overlapped' \in BOOLEAN,
           \/ SleepEnds \/ SleepBegins
           \/ \E o \in Owners : Suspended(o) \/ SleepForgets(o) \/ Reconnected(o) \/ DeviceGone(o)
    PROVE  DataOK' /\ FlagsOK'
<1> USE OwnerParts, NamedOwners
<1> USE DEF IInv, DataOK, FlagsOK, gens, procs, flags, stubs, leases, books, ui, launcher
<1>1. CASE SleepEnds
  BY <1>1 DEF SleepEnds, Lease!Reopen
<1>2. CASE SleepBegins
  BY <1>2 DEF SleepBegins, Lease!Shut
<1>3. CASE \E o \in Owners : Suspended(o)
  BY <1>3 DEF Suspended, Lease!Suspend, Lease!Moves, Lease!LeaseStates
<1>4. CASE \E o \in Owners : SleepForgets(o)
  BY <1>4 DEF SleepForgets, Lease!Drop, Lease!Moves, Lease!LeaseStates
<1>5. CASE \E o \in Owners : Reconnected(o)
  <2>1. DataOK'
    BY <1>5 DEF Reconnected, Lease!Restore, Lease!Drop, Lease!Moves, Lease!LeaseStates
  <2>2. FlagsOK'
    <3>1. /\ fcRequired' \in BOOLEAN /\ startFailed' \in BOOLEAN /\ ready' \in BOOLEAN
          /\ stopped' \in BOOLEAN /\ ended' \in BOOLEAN /\ overlapped' \in BOOLEAN
      BY <1>5 DEF Reconnected, Lease!Restore, Lease!Drop, Lease!Moves, Lease!LeaseStates
    <3>2. cleanupError' \in [Threads -> BOOLEAN]
      BY <1>5 DEF Reconnected, Lease!Restore, Lease!Drop, Lease!Moves, Lease!LeaseStates
    <3> QED
      BY <3>1, <3>2
  <2> QED
    BY <2>1, <2>2
<1>6. CASE \E o \in Owners : DeviceGone(o)
  BY <1>6 DEF DeviceGone
<1> QED
  BY <1>1, <1>2, <1>3, <1>4, <1>5, <1>6

(* processes that exit, *)
LEMMA DataOther ==
    ASSUME IInv, mode' \in Modes, upsets' \in 0..MaxUpsets, overlapped' \in BOOLEAN,
           \/ FcExits \/ \E n \in Launches : EscExits(n) \/ EscUnbound(n)
    PROVE  DataOK' /\ FlagsOK'
<1> USE OwnerParts, NamedOwners
<1> USE DEF IInv, DataOK, FlagsOK, gens, procs, flags, stubs, leases, books, ui, launcher
<1>1. CASE FcExits
  BY <1>1 DEF FcExits, FcExitLine
<1>2. CASE \E n \in Launches : EscExits(n)
  BY <1>2 DEF EscExits
<1>3. CASE \E n \in Launches : EscUnbound(n)
  BY <1>3 DEF EscUnbound
<1> QED
  BY <1>1, <1>2, <1>3

(* and the detach of the leases known. *)
LEMMA DataDrop ==
    ASSUME IInv, NEW t \in Threads,
           mode' \in Modes, upsets' \in 0..MaxUpsets, overlapped' \in BOOLEAN,
           DropLeases(t)
    PROVE  DataOK' /\ FlagsOK'
<1> USE OwnerParts, NamedOwners
<1> USE DEF IInv, DataOK, FlagsOK, gens, procs, flags, stubs, leases, books, ui, launcher
<1> QED
  BY DEF DropLeases, DetachOwned, Lease!LeaseStates

-----------------------------------------------------------------------------
(* Most steps of _wait_ready only move its thread. *)
LEMMA StartupMoves ==
    ASSUME IInv, UNCHANGED kept, NEW n \in Launches,
           ConnectMonitor(n) \/ ReadGreeting(n) \/ CheckStarted(n) \/ WaitPorts(n)
           \/ CheckReady(n)
    PROVE  Places' /\ RunShape' /\ Ends' /\ NoLostImport'
<1> USE OwnerParts, LabelsOf, NamedOwners
<1> USE DEF gens, procs, flags, stubs, leases, books, ui, launcher, kept
<1>1. CASE ConnectMonitor(n)
  <2>1. PICK l \in {"check", "connected"} : Goto(Startup(n), l)
    BY <1>1 DEF ConnectMonitor
  <2>2. UNCHANGED <<generation, launches, group, fc, qtJob, overlapped,
                    stub, open, held, lease, usbPorts>>
    BY <1>1 DEF ConnectMonitor
  <2>3. /\ l \in Labels[Startup(n)[1]]
        /\ pc[Startup(n)] \notin {"none", "remember", "drop", "close"} \cup Bringing
    BY <1>1, <2>1 DEF ConnectMonitor, Bringing, StartLabels
  <2>4. Startup(n) \notin open /\ stub # Startup(n)
    BY <1>1 DEF ConnectMonitor, IInv, Ends, OpenShape, StubShape, Bringing
  <2> QED
    BY <2>1, <2>2, <2>3, <2>4, OnlyMoves
<1>2. CASE ReadGreeting(n)
  <2>1. PICK l \in {"check"} : Goto(Startup(n), l)
    BY <1>2 DEF ReadGreeting
  <2>2. UNCHANGED <<generation, launches, group, fc, qtJob, overlapped,
                    stub, open, held, lease, usbPorts>>
    BY <1>2 DEF ReadGreeting
  <2>3. /\ l \in Labels[Startup(n)[1]]
        /\ pc[Startup(n)] \notin {"none", "remember", "drop", "close"} \cup Bringing
    BY <1>2, <2>1 DEF ReadGreeting, Bringing, StartLabels
  <2>4. Startup(n) \notin open /\ stub # Startup(n)
    BY <1>2 DEF ReadGreeting, IInv, Ends, OpenShape, StubShape, Bringing
  <2> QED
    BY <2>1, <2>2, <2>3, <2>4, OnlyMoves
<1>3. CASE CheckStarted(n)
  <2>1. PICK l \in {"done", "kill", "bind"} : Goto(Startup(n), l)
    BY <1>3 DEF CheckStarted
  <2>2. UNCHANGED <<generation, launches, group, fc, qtJob, overlapped,
                    stub, open, held, lease, usbPorts>>
    BY <1>3 DEF CheckStarted
  <2>3. /\ l \in Labels[Startup(n)[1]]
        /\ pc[Startup(n)] \notin {"none", "remember", "drop", "close"} \cup Bringing
    BY <1>3, <2>1 DEF CheckStarted, Bringing, StartLabels
  <2>4. Startup(n) \notin open /\ stub # Startup(n)
    BY <1>3 DEF CheckStarted, IInv, Ends, OpenShape, StubShape, Bringing
  <2> QED
    BY <2>1, <2>2, <2>3, <2>4, OnlyMoves
<1>4. CASE WaitPorts(n)
  <2>1. PICK l \in {"settle", "unready"} : Goto(Startup(n), l)
    BY <1>4 DEF WaitPorts
  <2>2. UNCHANGED <<generation, launches, group, fc, qtJob, overlapped,
                    stub, open, held, lease, usbPorts>>
    BY <1>4 DEF WaitPorts
  <2>3. /\ l \in Labels[Startup(n)[1]]
        /\ pc[Startup(n)] \notin {"none", "remember", "drop", "close"} \cup Bringing
    BY <1>4, <2>1 DEF WaitPorts, Bringing, StartLabels
  <2>4. Startup(n) \notin open /\ stub # Startup(n)
    BY <1>4 DEF WaitPorts, IInv, Ends, OpenShape, StubShape, Bringing
  <2> QED
    BY <2>1, <2>2, <2>3, <2>4, OnlyMoves
<1>5. CASE CheckReady(n)
  <2>1. PICK l \in {"done", "begin", "giveUp"} : Goto(Startup(n), l)
    BY <1>5 DEF CheckReady
  <2>2. UNCHANGED <<generation, launches, group, fc, qtJob, overlapped,
                    stub, open, held, lease, usbPorts>>
    BY <1>5 DEF CheckReady
  <2>3. /\ l \in Labels[Startup(n)[1]]
        /\ pc[Startup(n)] \notin {"none", "remember", "drop", "close"} \cup Bringing
    BY <1>5, <2>1 DEF CheckReady, Bringing, StartLabels
  <2>4. Startup(n) \notin open /\ stub # Startup(n)
    BY <1>5 DEF CheckReady, IInv, Ends, OpenShape, StubShape, Bringing
  <2> QED
    BY <2>1, <2>2, <2>3, <2>4, OnlyMoves
<1> QED
  BY <1>1, <1>2, <1>3, <1>4, <1>5

(* So do these steps of the handoff. *)
LEMMA HandoffMoves ==
    ASSUME IInv, UNCHANGED kept, NEW n \in Launches, "handoff" \in Kinds,
           CheckHandoff(n) \/ ConnectController(n)
    PROVE  Places' /\ RunShape' /\ Ends' /\ NoLostImport'
<1> USE OwnerParts, LabelsOf, NamedOwners
<1> USE DEF gens, procs, flags, stubs, leases, books, ui, launcher, kept
<1>1. CASE CheckHandoff(n)
  <2>1. PICK l \in {"handoff", "done"} : Goto(Handoff(n), l)
    BY <1>1 DEF CheckHandoff
  <2>2. UNCHANGED <<generation, launches, group, fc, qtJob, overlapped,
                    stub, open, held, lease, usbPorts>>
    BY <1>1 DEF CheckHandoff
  <2>3. /\ l \in Labels[Handoff(n)[1]]
        /\ pc[Handoff(n)] \notin {"none", "remember", "drop", "close"} \cup Bringing
    BY <1>1, <2>1 DEF CheckHandoff, Bringing, StartLabels
  <2>4. Handoff(n) \notin open /\ stub # Handoff(n)
    BY <1>1 DEF CheckHandoff, IInv, Ends, OpenShape, StubShape, Bringing
  <2> QED
    BY <2>1, <2>2, <2>3, <2>4, OnlyMoves
<1>2. CASE ConnectController(n)
  <2>1. PICK l \in {"usbReady", "handoffFails"} : Goto(Handoff(n), l)
    BY <1>2 DEF ConnectController, Raise
  <2>2. UNCHANGED <<generation, launches, group, fc, qtJob, overlapped,
                    stub, open, held, lease, usbPorts>>
    BY <1>2 DEF ConnectController, Raise
  <2>3. /\ l \in Labels[Handoff(n)[1]]
        /\ pc[Handoff(n)] \notin {"none", "remember", "drop", "close"} \cup Bringing
    BY <1>2, <2>1 DEF ConnectController, Raise, Bringing, StartLabels
  <2>4. Handoff(n) \notin open /\ stub # Handoff(n)
    BY <1>2 DEF ConnectController, Raise, IInv, Ends, OpenShape, StubShape, Bringing
  <2> QED
    BY <2>1, <2>2, <2>3, <2>4, OnlyMoves
<1> QED
  BY <1>1, <1>2

(* And these of the watch thread. *)
LEMMA WatchMoves ==
    ASSUME IInv, UNCHANGED kept, NEW n \in Launches, "watch" \in Kinds,
           WatchReads(n) \/ WatchPublishes(n)
    PROVE  Places' /\ RunShape' /\ Ends' /\ NoLostImport'
<1> USE OwnerParts, LabelsOf, NamedOwners
<1> USE DEF gens, procs, flags, stubs, leases, books, ui, launcher, kept
<1>1. CASE WatchReads(n)
  <2>1. PICK l \in {"watchLock", "done"} : Goto(Watch(n), l)
    BY <1>1 DEF WatchReads
  <2>2. UNCHANGED <<generation, launches, group, fc, qtJob, overlapped,
                    stub, open, held, lease, usbPorts>>
    BY <1>1 DEF WatchReads
  <2>3. /\ l \in Labels[Watch(n)[1]]
        /\ pc[Watch(n)] \notin {"none", "remember", "drop", "close"} \cup Bringing
    BY <1>1, <2>1 DEF WatchReads, Bringing, StartLabels
  <2>4. Watch(n) \notin open /\ stub # Watch(n)
    BY <1>1 DEF WatchReads, IInv, Ends, OpenShape, StubShape, Bringing
  <2> QED
    BY <2>1, <2>2, <2>3, <2>4, OnlyMoves
<1>2. CASE WatchPublishes(n)
  <2>1. PICK l \in {"watch"} : Goto(Watch(n), l)
    BY <1>2 DEF WatchPublishes
  <2>2. UNCHANGED <<generation, launches, group, fc, qtJob, overlapped,
                    stub, open, held, lease, usbPorts>>
    BY <1>2 DEF WatchPublishes
  <2>3. /\ l \in Labels[Watch(n)[1]]
        /\ pc[Watch(n)] \notin {"none", "remember", "drop", "close"} \cup Bringing
    BY <1>2, <2>1 DEF WatchPublishes, Bringing, StartLabels
  <2>4. Watch(n) \notin open /\ stub # Watch(n)
    BY <1>2 DEF WatchPublishes, IInv, Ends, OpenShape, StubShape, Bringing
  <2> QED
    BY <2>1, <2>2, <2>3, <2>4, OnlyMoves
<1> QED
  BY <1>1, <1>2

(* The steps of _wait_ready that end processes or close an endpoint. *)
LEMMA StartupEnds ==
    ASSUME IInv, UNCHANGED kept, NEW n \in Launches,
           KillFailed(n) \/ GiveUp(n) \/ StartupRaised(n) \/ StartupFailed(n)
    PROVE  Places' /\ RunShape' /\ Ends' /\ NoLostImport'
<1> USE OwnerParts, LabelsOf, NamedOwners
<1> USE DEF gens, procs, flags, stubs, leases, books, ui, launcher, kept
<1>1. CASE KillFailed(n)
  <2>1. PICK l \in {"done"} : l \in Labels[Startup(n)[1]] /\ Moved(Startup(n), l)
    BY <1>1, Moves DEF KillFailed, IInv, Places, PlacesOK, StartLabels
  <2>2. Places'
    BY <1>1, <2>1, PlacesKept DEF KillFailed, IInv
  <2>3. RunShape'
    BY <1>1, <2>1 DEF KillFailed, RunShape, Running, StopRunners
  <2>4. Ends'
    BY <1>1, <2>1, EndsKept DEF KillFailed, IInv, Ends, OpenShape, StubShape, Bringing
  <2>5. NoLostImport'
    BY <1>1, <2>1, ImportsKept DEF KillFailed, IInv
  <2> QED
    BY <2>2, <2>3, <2>4, <2>5
<1>2. CASE GiveUp(n)
  <2>1. PICK l \in {"done"} : l \in Labels[Startup(n)[1]] /\ Moved(Startup(n), l)
    BY <1>2, Moves DEF GiveUp, IInv, Places, PlacesOK, StartLabels
  <2>2. Places'
    BY <1>2, <2>1, PlacesKept DEF GiveUp, IInv
  <2>3. RunShape'
    BY <1>2, <2>1 DEF GiveUp, RunShape, Running, StopRunners
  <2>4. Ends'
    BY <1>2, <2>1, EndsKept DEF GiveUp, IInv, Ends, OpenShape, StubShape, Bringing
  <2>5. NoLostImport'
    BY <1>2, <2>1, ImportsKept DEF GiveUp, IInv
  <2> QED
    BY <2>2, <2>3, <2>4, <2>5
<1>3. CASE StartupRaised(n) /\ Current(Startup(n))
  <2>1. PICK l \in {"drop", "close"} : l \in Labels[Startup(n)[1]] /\ Moved(Startup(n), l)
    BY <1>3, Moves DEF StartupRaised, TakeStub, IInv, Places, PlacesOK, StartLabels
  <2>2. Places'
    BY <1>3, <2>1, PlacesKept DEF StartupRaised, TakeStub, IInv
  <2>3. RunShape'
    BY <1>3, <2>1, RunsKept DEF StartupRaised, TakeStub, IInv, Moved
  <2>4. Ends'
    BY <1>3, <2>1, TakeStubEnds DEF StartupRaised, IInv, Bringing
  <2>5. NoLostImport'
    BY <1>3, <2>1, ImportsKept DEF StartupRaised, TakeStub, IInv
  <2> QED
    BY <2>2, <2>3, <2>4, <2>5
<1>4. CASE StartupRaised(n) /\ ~Current(Startup(n))
  <2>1. PICK l \in {"done"} : l \in Labels[Startup(n)[1]] /\ Moved(Startup(n), l)
    BY <1>4, Moves DEF StartupRaised, IInv, Places, PlacesOK, StartLabels
  <2>2. Places'
    BY <1>4, <2>1, PlacesKept DEF StartupRaised, IInv
  <2>3. RunShape'
    BY <1>4, <2>1, RunsKept DEF StartupRaised, IInv, Moved
  <2>4. Ends'
    BY <1>4, <2>1, EndsKept DEF StartupRaised, IInv, Ends, OpenShape, StubShape, Bringing
  <2>5. NoLostImport'
    BY <1>4, <2>1, ImportsKept DEF StartupRaised, IInv
  <2> QED
    BY <2>2, <2>3, <2>4, <2>5
<1>5. CASE StartupFailed(n)
  <2>1. PICK l \in {"done"} : l \in Labels[Startup(n)[1]] /\ Moved(Startup(n), l)
    BY <1>5, Moves DEF StartupFailed, IInv, Places, PlacesOK, StartLabels
  <2>2. Places'
    BY <1>5, <2>1, PlacesKept DEF StartupFailed, IInv
  <2>3. RunShape'
    BY <1>5, <2>1, RunsKept DEF StartupFailed, IInv, Moved
  <2>4. Ends'
    BY <1>5, <2>1, CloseHeldEnds DEF StartupFailed, IInv
  <2>5. NoLostImport'
    BY <1>5, <2>1, ImportsKept DEF StartupFailed, IInv
  <2> QED
    BY <2>2, <2>3, <2>4, <2>5
<1> QED
  BY <1>1, <1>2, <1>3, <1>4, <1>5

(* The steps of the handoff between two devices. *)
LEMMA HandoffEnds ==
    ASSUME IInv, UNCHANGED kept, NEW n \in Launches, "handoff" \in Kinds,
           BeginHandoff(n) \/ StartController(n) \/ HandoffFails(n)
    PROVE  Places' /\ RunShape' /\ Ends' /\ NoLostImport'
<1> USE OwnerParts, LabelsOf, NamedOwners
<1> USE DEF gens, procs, flags, stubs, leases, books, ui, launcher, kept
<1>1. CASE BeginHandoff(n)
  <2>1. PICK l \in {"drop", "close"} : l \in Labels[Handoff(n)[1]] /\ Moved(Handoff(n), l)
    BY <1>1, Moves DEF BeginHandoff, TakeStub, IInv, Places, PlacesOK, StartLabels
  <2>2. Places'
    BY <1>1, <2>1, PlacesKept DEF BeginHandoff, TakeStub, IInv
  <2>3. RunShape'
    BY <1>1, <2>1, RunsKept DEF BeginHandoff, TakeStub, IInv, Moved
  <2>4. Ends'
    <3>1. TakeStub(Handoff(n)) /\ UNCHANGED <<open, overlapped>> /\ pc[Handoff(n)] = "handoff"
      BY <1>1 DEF BeginHandoff
    <3>2. pc[Handoff(n)] \notin {"drop", "close"} \cup Bringing /\ Handoff(n) \in Threads
      BY <3>1 DEF Bringing
    <3>3. DataOK /\ Ends
      BY DEF IInv
    <3> QED
      BY ONLY <2>1, <3>1, <3>2, <3>3, TakeStubEnds
  <2>5. NoLostImport'
    BY <1>1, <2>1, ImportsKept DEF BeginHandoff, TakeStub, IInv
  <2> QED
    BY <2>2, <2>3, <2>4, <2>5
<1>2. CASE StartController(n)
  <2>1. PICK l \in {"handoffFails", "release", "fcConnect"} :
          l \in Labels[Handoff(n)[1]] /\ Moved(Handoff(n), l)
    BY <1>2, Moves DEF StartController, Raise, IInv, Places, PlacesOK, StartLabels
  <2>2. Places'
    BY <1>2, <2>1, PlacesKept DEF StartController, Raise, IInv
  <2>3. RunShape'
    <3>1. /\ UNCHANGED <<generation, launches, group, qtJob, overlapped>>
          /\ fc' = fc \/ (fc' = n /\ n = generation)
      BY <1>2 DEF StartController, Raise, Current
    <3>2. pc'[Qt] = pc[Qt] /\ generation \in 0..MaxStarts
      BY <2>1 DEF Moved, IInv, DataOK
    <3> QED
      BY <3>1, <3>2 DEF RunShape, Running, IInv, NextLaunch, Launches
  <2>4. Ends'
    BY <1>2, <2>1, CloseHeldEnds DEF StartController, IInv, Ends, OpenShape
  <2>5. NoLostImport'
    BY <1>2, <2>1, ImportsKept DEF StartController, Raise, IInv
  <2> QED
    BY <2>2, <2>3, <2>4, <2>5
<1>3. CASE HandoffFails(n)
  <2>1. PICK l \in {"release"} : l \in Labels[Handoff(n)[1]] /\ Moved(Handoff(n), l)
    BY <1>3, Moves DEF HandoffFails, IInv, Places, PlacesOK, StartLabels
  <2>2. Places'
    BY <1>3, <2>1, PlacesKept DEF HandoffFails, IInv
  <2>3. RunShape'
    BY <1>3, <2>1 DEF HandoffFails, IInv, RunShape, Running, Moved, NextLaunch
  <2>4. Ends'
    BY <1>3, <2>1, EndsKept DEF HandoffFails, IInv, Ends, OpenShape, StubShape, Bringing
  <2>5. NoLostImport'
    BY <1>3, <2>1, ImportsKept DEF HandoffFails, IInv
  <2> QED
    BY <2>2, <2>3, <2>4, <2>5
<1> QED
  BY <1>1, <1>2, <1>3

(* The leases known are dropped, on any thread. *)
LEMMA DropsLeases ==
    ASSUME IInv, UNCHANGED kept, NEW t \in Threads, t[1] \in {"start", "handoff", "qt"}, DropLeases(t)
    PROVE  Places' /\ RunShape' /\ Ends' /\ NoLostImport'
<1> USE OwnerParts, LabelsOf
<1> USE DEF gens, procs, flags, stubs, leases, books, ui, launcher, kept
<1>1. CASE t # Qt
  <2>1. PICK l \in {"close"} : l \in Labels[t[1]] /\ Moved(t, l)
    BY <1>1, Moves DEF DropLeases, IInv, Places, PlacesOK, StartLabels
  <2>2. Places'
    BY <1>1, <2>1, PlacesKept DEF DropLeases, IInv
  <2>3. RunShape'
    BY <1>1, <2>1, RunsKept DEF DropLeases, IInv, Moved
  <2>4. Ends'
    BY <1>1, <2>1, EndsKept DEF DropLeases, IInv, Ends, OpenShape, StubShape, Bringing
  <2>5. NoLostImport'
    BY <1>1, <2>1, DetachImports DEF DropLeases, IInv
  <2> QED
    BY <2>2, <2>3, <2>4, <2>5
<1>2. CASE t = Qt
  <2>1. PICK l \in {"close"} : l \in Labels[t[1]] /\ Moved(t, l)
    BY <1>2, Moves DEF DropLeases, IInv, Places, PlacesOK, StartLabels
  <2>2. Places'
    BY <1>2, <2>1 DEF DropLeases, IInv, Places, PlacesOK, QtShape, Fresh, Moved,
       NextLaunch
  <2>3. RunShape'
    BY <1>2, <2>1 DEF DropLeases, IInv, Places, RunShape, QtShape, Running, NextLaunch,
       Moved
  <2>4. Ends'
    BY <1>2, <2>1, EndsKept DEF DropLeases, IInv, Ends, OpenShape, StubShape, Bringing
  <2>5. NoLostImport'
    BY <1>2, <2>1, DetachImports DEF DropLeases, IInv
  <2> QED
    BY <2>2, <2>3, <2>4, <2>5
<1> QED
  BY <1>1, <1>2

(* A startup takes its token, and opens the endpoint it serves. *)
LEMMA BeginsUsb ==
    ASSUME IInv, UNCHANGED kept, NEW n \in Launches, Begin(n)
    PROVE  Places' /\ RunShape' /\ Ends' /\ NoLostImport'
<1> USE OwnerParts, LabelsOf, NamedOwners
<1> USE DEF gens, procs, flags, stubs, leases, books, ui, launcher, kept
<1>1. CASE open' = open
  <2>1. PICK l \in {"gated", "undo", "usbReady"} :
          l \in Labels[Startup(n)[1]] /\ Moved(Startup(n), l)
    BY <1>1, Moves DEF Begin, Raise, IInv, Places, PlacesOK, StartLabels
  <2>2. Places'
    BY <1>1, <2>1, PlacesKept DEF Begin, Raise, IInv
  <2>3. RunShape'
    BY <1>1, <2>1, RunsKept DEF Begin, Raise, IInv, Moved
  <2>4. Ends'
    BY <1>1, <2>1, EndsKept DEF Begin, Raise, IInv, Ends, OpenShape, StubShape, Bringing
  <2>5. NoLostImport'
    BY <1>1, <2>1, ImportsKept DEF Begin, Raise, IInv
  <2> QED
    BY <2>2, <2>3, <2>4, <2>5
<1>2. CASE open' # open
  <2>1. PICK l \in {"gated"} : l \in Labels[Startup(n)[1]] /\ Moved(Startup(n), l)
    BY <1>2, Moves DEF Begin, Raise, IInv, Places, PlacesOK, StartLabels
  <2>2. Places'
    BY <1>2, <2>1, PlacesKept DEF Begin, Raise, IInv
  <2>3. RunShape'
    BY <1>2, <2>1, RunsKept DEF Begin, Raise, IInv, Moved
  <2>4. Ends'
    <3>1. /\ open' = open \cup {Startup(n)} /\ pc[Startup(n)] = "begin"
          /\ UNCHANGED <<stub, held, generation>>
      BY <1>2 DEF Begin
    <3>2. stub # Startup(n)
      BY <3>1 DEF IInv, Ends, StubShape
    <3>3. HeldShape' /\ OpenShape' /\ StubShape'
      BY <2>1, <3>1, <3>2 DEF IInv, DataOK, Ends, Moved, HeldShape, OpenShape, StubShape,
         Bringing
    <3>4. EndpointsOwned' /\ PublishedIsCurrent'
      BY <2>1, <3>1 DEF IInv, Ends, DataOK, Moved, EndpointsOwned, PublishedIsCurrent,
         Bringing
    <3> QED
      BY <3>3, <3>4 DEF Ends
  <2>5. NoLostImport'
    BY <1>2, <2>1, ImportsKept DEF Begin, Raise, IInv
  <2> QED
    BY <2>2, <2>3, <2>4, <2>5
<1> QED
  BY <1>1, <1>2

(* _start_stub and _start_fc_endpoint up to the import, and its result. *)
LEMMA Imports ==
    ASSUME IInv, UNCHANGED kept, NEW o \in Owners,
           WaitFirmware(o) \/ Import(o) \/ Imported(o) \/ Remember(o) \/ Release(o)
    PROVE  Places' /\ RunShape' /\ Ends' /\ NoLostImport'
<1> USE OwnerParts, LabelsOf
<1> USE DEF gens, procs, flags, stubs, leases, books, ui, launcher, kept
<1>1. CASE WaitFirmware(o)
  <2>1. PICK l \in {"gated", "release", "undo", "handoffFails"} :
          l \in Labels[o[1]] /\ Moved(o, l)
    BY <1>1, Moves DEF WaitFirmware, Raise, IInv, Places, PlacesOK, StartLabels
  <2>2. Places'
    BY <1>1, <2>1, PlacesKept DEF WaitFirmware, Raise, IInv
  <2>3. RunShape'
    BY <1>1, <2>1, RunsKept DEF WaitFirmware, Raise, IInv, Moved
  <2>4. Ends'
    BY <1>1, <2>1, EndsKept DEF WaitFirmware, Raise, IInv, Ends, OpenShape, StubShape,
       Bringing
  <2>5. NoLostImport'
    BY <1>1, <2>1, ImportsKept DEF WaitFirmware, Raise, IInv
  <2> QED
    BY <2>2, <2>3, <2>4, <2>5
<1>2. CASE Import(o)
  <2>1. PICK l \in {"importing", "undo", "handoffFails"} :
          l \in Labels[o[1]] /\ Moved(o, l) /\ (o[1] = "start" => l # "handoffFails")
    BY <1>2, Moves DEF Import, Raise, IInv, Places, PlacesOK, StartLabels
  <2>2. Places'
    BY <1>2, <2>1, PlacesKept DEF Import, Raise, IInv
  <2>3. RunShape'
    BY <1>2, <2>1, RunsKept DEF Import, Raise, IInv, Moved
  <2>4. Ends'
    BY <1>2, <2>1, EndsKept DEF Import, Raise, IInv, Ends, OpenShape, StubShape, Bringing
  <2>5. NoLostImport'
    BY <1>2, <2>1 DEF Import, IInv, DataOK, NoLostImport, Moved, Lease!Acquire,
       Lease!Acquired, Lease!Refused, Lease!Moves, Lease!LeaseStates
  <2> QED
    BY <2>2, <2>3, <2>4, <2>5
<1>3. CASE Imported(o)
  <2>1. PICK l \in {"remember", "undo", "handoffFails"} :
          l \in Labels[o[1]] /\ Moved(o, l) /\ (o[1] = "start" => l # "handoffFails")
    BY <1>3, Moves DEF Imported, Raise, IInv, Places, PlacesOK, StartLabels
  <2>2. Places'
    BY <1>3, <2>1, PlacesKept DEF Imported, Raise, IInv
  <2>3. RunShape'
    BY <1>3, <2>1, RunsKept DEF Imported, Raise, IInv, Moved
  <2>4. Ends'
    BY <1>3, <2>1, EndsKept DEF Imported, Raise, IInv, Ends, OpenShape, StubShape,
       Bringing
  <2>5. NoLostImport'
    <3>1. /\ \A p \in Owners : p # o => lease'[p] = lease[p]
          /\ lease'[o] = "none" \/ pc' = [pc EXCEPT ![o] = "remember"]
          /\ UNCHANGED usbPorts /\ pc[o] # "remember"
      BY <1>3 DEF Imported, Goto, IInv, DataOK, Lease!Acquired, Lease!Refused, Lease!Moves
    <3>2. pc \in [Threads -> AllLabels]
      BY DEF IInv, Places, PlacesOK
    <3> QED
      BY <2>1, <3>1, <3>2 DEF IInv, NoLostImport, Moved
  <2> QED
    BY <2>2, <2>3, <2>4, <2>5
<1>4. CASE Remember(o)
  <2>1. PICK l \in {"publish", "undo", "handoffFails"} :
          l \in Labels[o[1]] /\ Moved(o, l) /\ (o[1] = "start" => l # "handoffFails")
    BY <1>4, Moves DEF Remember, Raise, IInv, Places, PlacesOK, StartLabels
  <2>2. Places'
    BY <1>4, <2>1, PlacesKept DEF Remember, Raise, IInv
  <2>3. RunShape'
    BY <1>4, <2>1, RunsKept DEF Remember, Raise, IInv, Moved
  <2>4. Ends'
    BY <1>4, <2>1, EndsKept DEF Remember, Raise, IInv, Ends, OpenShape, StubShape,
       Bringing
  <2>5. NoLostImport'
    BY <1>4, <2>1 DEF Remember, Raise, IInv, DataOK, NoLostImport, Moved, Lease!Acquire,
       Lease!Acquired, Lease!Refused, Lease!Moves, Lease!LeaseStates
  <2> QED
    BY <2>2, <2>3, <2>4, <2>5
<1>5. CASE Release(o)
  <2>1. PICK l \in {"raised", "done"} : l \in Labels[o[1]] /\ Moved(o, l)
    BY <1>5, Moves DEF Release, IInv, Places, PlacesOK, StartLabels
  <2>2. Places'
    BY <1>5, <2>1, PlacesKept DEF Release, IInv
  <2>3. RunShape'
    BY <1>5, <2>1, RunsKept DEF Release, IInv, Moved
  <2>4. Ends'
    BY <1>5, <2>1, EndsKept DEF Release, IInv, Ends, OpenShape, StubShape, Bringing
  <2>5. NoLostImport'
    BY <1>5, <2>1, ImportsKept DEF Release, IInv
  <2> QED
    BY <2>2, <2>3, <2>4, <2>5
<1> QED
  BY <1>1, <1>2, <1>3, <1>4, <1>5

(* A startup that did not publish drops its lease and its endpoint. *)
LEMMA Undoes ==
    ASSUME IInv, UNCHANGED kept, NEW o \in Owners, Undo(o)
    PROVE  Places' /\ RunShape' /\ Ends' /\ NoLostImport'
<1> USE OwnerParts, LabelsOf
<1> USE DEF gens, procs, flags, stubs, leases, books, ui, launcher, kept
<1>1. CASE Undo(o)
  <2>1. PICK l \in {"release"} : l \in Labels[o[1]] /\ Moved(o, l)
    BY <1>1, Moves DEF Undo, IInv, Places, PlacesOK, StartLabels
  <2>2. Places'
    BY <1>1, <2>1, PlacesKept DEF Undo, IInv
  <2>3. RunShape'
    BY <1>1, <2>1, RunsKept DEF Undo, IInv, Moved
  <2>4. Ends'
    <3>1. open' = open \ {o} /\ pc[o] = "undo" /\ UNCHANGED <<stub, held, generation>>
      BY <1>1 DEF Undo
    <3>2. HeldShape' /\ OpenShape' /\ StubShape'
      BY <2>1, <3>1 DEF IInv, DataOK, Ends, Moved, HeldShape, OpenShape, StubShape,
         Bringing
    <3>3. EndpointsOwned' /\ PublishedIsCurrent'
      BY <2>1, <3>1 DEF IInv, Ends, DataOK, Moved, EndpointsOwned, PublishedIsCurrent,
         Bringing
    <3> QED
      BY <3>2, <3>3 DEF Ends
  <2>5. NoLostImport'
    BY <1>1, <2>1, DetachImports DEF Undo, IInv
  <2> QED
    BY <2>2, <2>3, <2>4, <2>5
<1> QED
  BY <1>1

(* The watch thread detaches, and imports the device of the firmware anew. *)
LEMMA WatchImportsAgain ==
    ASSUME IInv, UNCHANGED kept, NEW n \in Launches, "watch" \in Kinds,
           WatchActs(n) \/ WatchImports(n) \/ WatchImported(n)
    PROVE  Places' /\ RunShape' /\ Ends' /\ NoLostImport'
<1> USE OwnerParts, LabelsOf, NamedOwners
<1> USE DEF gens, procs, flags, stubs, leases, books, ui, launcher, kept
<1>1. CASE WatchActs(n)
  <2>1. PICK l \in {"watch", "watchImport", "watchGated"} :
          l \in Labels[Watch(n)[1]] /\ Moved(Watch(n), l)
    BY <1>1, Moves DEF WatchActs, WatchKeeps, WatchReimports, IInv, Places, PlacesOK,
       StartLabels
  <2>2. Places'
    BY <1>1, <2>1, PlacesKept DEF WatchActs, WatchKeeps, WatchReimports, IInv
  <2>3. RunShape'
    BY <1>1, <2>1, RunsKept DEF WatchActs, WatchKeeps, WatchReimports, IInv, Moved
  <2>4. Ends'
    BY <1>1, <2>1, EndsKept DEF WatchActs, WatchKeeps, WatchReimports, IInv, Ends,
       OpenShape, StubShape, Bringing
  <2>5. NoLostImport'
    BY <1>1, <2>1, DetachKeeps DEF WatchActs, WatchKeeps, WatchReimports, IInv,
       NoLostImport, Moved
  <2> QED
    BY <2>2, <2>3, <2>4, <2>5
<1>2. CASE WatchImports(n)
  <2>1. PICK l \in {"watch", "watchImport"} :
          l \in Labels[Watch(n)[1]] /\ Moved(Watch(n), l)
    BY <1>2, Moves DEF WatchImports, IInv, Places, PlacesOK, StartLabels
  <2>2. Places'
    BY <1>2, <2>1, PlacesKept DEF WatchImports, IInv
  <2>3. RunShape'
    BY <1>2, <2>1, RunsKept DEF WatchImports, IInv, Moved
  <2>4. Ends'
    BY <1>2, <2>1, EndsKept DEF WatchImports, IInv, Ends, OpenShape, StubShape, Bringing
  <2>5. NoLostImport'
    BY <1>2, <2>1 DEF WatchImports, IInv, DataOK, NoLostImport, Moved, Lease!Acquire,
       Lease!Acquired, Lease!Refused, Lease!Moves, Lease!LeaseStates
  <2> QED
    BY <2>2, <2>3, <2>4, <2>5
<1>3. CASE WatchImported(n)
  <2>1. PICK l \in {"watch", "watchTty", "done"} :
          l \in Labels[Watch(n)[1]] /\ Moved(Watch(n), l)
    BY <1>3, Moves DEF WatchImported, IInv, Places, PlacesOK, StartLabels
  <2>2. Places'
    BY <1>3, <2>1, PlacesKept DEF WatchImported, IInv
  <2>3. RunShape'
    BY <1>3, <2>1, RunsKept DEF WatchImported, IInv, Moved
  <2>4. Ends'
    BY <1>3, <2>1, EndsKept DEF WatchImported, IInv, Ends, OpenShape, StubShape, Bringing
  <2>5. NoLostImport'
    BY <1>3, <2>1 DEF WatchImported, IInv, DataOK, NoLostImport, Moved, Lease!Acquire,
       Lease!Acquired, Lease!Refused, Lease!Moves, Lease!LeaseStates
  <2> QED
    BY <2>2, <2>3, <2>4, <2>5
<1> QED
  BY <1>1, <1>2, <1>3

(* The endpoint is published, and the watch thread of the launch begins. *)
LEMMA Publishes ==
    ASSUME IInv, UNCHANGED kept, NEW o \in Owners, Publish(o)
    PROVE  Places' /\ RunShape' /\ Ends' /\ NoLostImport'
<1> USE OwnerParts, LabelsOf
<1> USE DEF gens, procs, flags, stubs, leases, books, ui, launcher, kept
<1>1. CASE ~StillWanted(o)
  <2>1. "undo" \in Labels[o[1]] /\ Goto(o, "undo") /\ UNCHANGED stub
    BY <1>1 DEF Publish, IInv, Places, PlacesOK, StartLabels
  <2>2. Moved(o, "undo")
    BY <2>1, Moves DEF IInv, Places
  <2>3. Places'
    BY <2>1, <2>2, PlacesKept DEF Publish, IInv
  <2>4. RunShape'
    BY <2>2, RunsKept DEF Publish, IInv, Moved
  <2>5. Ends'
    BY <2>1, <2>2, EndsKept DEF Publish, IInv, Ends, StubShape, Bringing
  <2>6. NoLostImport'
    BY <2>2, ImportsKept DEF Publish, IInv
  <2> QED
    BY <2>3, <2>4, <2>5, <2>6
<1>2. CASE StillWanted(o)
  <2>1. /\ pc[o] = "publish" /\ o[2] = generation
        /\ o[1] \in {"start", "handoff"} /\ o # Watch(o[2])
        /\ stub' = IF o \in open THEN o ELSE stub
        /\ UNCHANGED <<generation, launches, group, fc, qtJob, overlapped, open, held,
                       lease, usbPorts>>
    BY <1>2, NamedOwners DEF Publish, StillWanted, Current, IInv, Places, PlacesOK
  <2>2. /\ pc' \in [Threads -> AllLabels]
        /\ pc'[o] = "release" /\ "release" \in Labels[o[1]]
        /\ Watch(o[2]) \in Threads => pc'[Watch(o[2])] \in {"watch", pc[Watch(o[2])]}
        /\ \A t \in Threads : t # o /\ t # Watch(o[2]) => pc'[t] = pc[t]
    <3>1. "watch" \in AllLabels /\ "release" \in AllLabels
      BY DEF AllLabels, Labels, StartLabels
    <3> QED
      BY <1>2, <2>1, <3>1 DEF Publish, StillWanted, IInv, Places, PlacesOK, StartLabels
  <2>3. /\ Watch(o[2])[1] = "watch" /\ Watch(o[2])[2] = o[2]
        /\ \A t \in Threads : t = Watch(o[2]) =>
               pc[t] \in Labels["watch"] /\ pc'[t] \in Labels["watch"]
    BY <2>2, NamedOwners DEF IInv, Places, PlacesOK
  <2>4. Places'
    <3>1. PlacesOK'
      BY <2>1, <2>2, <2>3 DEF IInv, Places, PlacesOK
    <3>2. QtShape'
      BY <2>1, <2>2, <2>3 DEF IInv, Places, QtShape, NextLaunch
    <3>3. Fresh'
      BY <2>1, <2>2, <2>3 DEF IInv, Places, Fresh
    <3> QED
      BY <3>1, <3>2, <3>3 DEF Places
  <2>5. RunShape'
    BY <2>1, <2>2, <2>3, RunsKept DEF IInv
  <2>6. Ends'
    <3>1. HeldShape'
      BY <2>1, <2>2, <2>3 DEF IInv, Ends, HeldShape
    <3>2. OpenShape'
      BY <2>1, <2>2, <2>3 DEF IInv, DataOK, Ends, OpenShape
    <3>3. StubShape'
      BY <2>1, <2>2, <2>3 DEF IInv, DataOK, Ends, OpenShape, StubShape
    <3>4. pc[Qt] # "void"
      BY <2>1 DEF IInv, Places, QtShape, Launches
    <3>5. PublishedIsCurrent'
      BY <2>1, <2>2, <3>4 DEF IInv, DataOK, Ends, PublishedIsCurrent, Launches
    <3>6. ~overlapped /\ stub # None /\ o \in open => stub = o
      BY <2>1, <3>4 DEF IInv, DataOK, Ends, StubShape, OpenShape, PublishedIsCurrent
    <3>7. EndpointsOwned'
      BY <2>1, <2>2, <2>3, <3>6 DEF IInv, DataOK, Ends, StubShape, OpenShape,
         EndpointsOwned, Bringing
    <3> QED
      BY <3>1, <3>2, <3>3, <3>5, <3>7 DEF Ends
  <2>7. NoLostImport'
    BY <2>1, <2>2, <2>3 DEF IInv, NoLostImport
  <2> QED
    BY <2>4, <2>5, <2>6, <2>7
<1> QED
  BY <1>1, <1>2

(* A download ends, and the handoff of its launch begins. *)
LEMMA BeginsHandoff ==
    ASSUME IInv, UNCHANGED kept, NEW n \in Launches, Manifest(n)
    PROVE  Places' /\ RunShape' /\ Ends' /\ NoLostImport'
<1> USE OwnerParts, LabelsOf, NamedOwners
<1> USE DEF gens, procs, flags, stubs, leases, books, ui, launcher, kept
<1>1. PICK l \in {"manifest"} : l \in Labels[Handoff(n)[1]] /\ Goto(Handoff(n), l)
  BY DEF Manifest
<1>2. pc[Startup(n)] # "none" /\ n <= launches /\ mode = "dfu" /\ Handoff(n) \in Owners
  BY DEF Manifest, IInv, DataOK, Ends, OpenShape, Bringing, Places, Fresh, Launches, Kinds
<1>3. Moved(Handoff(n), l)
  BY <1>1, <1>2, Moves DEF IInv, Places
<1>4. Places'
  <2>1. PlacesOK'
    BY <1>1, <1>3 DEF IInv, Places, PlacesOK, Moved
  <2>2. QtShape'
    BY <1>2, <1>3 DEF IInv, Places, QtShape, NextLaunch, Manifest, Moved
  <2>3. Fresh'
    BY <1>2, <1>3 DEF IInv, DataOK, Places, Fresh, Manifest, Moved
  <2> QED
    BY <2>1, <2>2, <2>3 DEF Places
<1>5. RunShape'
  BY <1>2, <1>3, RunsKept DEF IInv, Manifest, Moved
<1>6. Ends'
  BY <1>2, <1>3, EndsKept DEF IInv, Manifest, Ends, OpenShape, StubShape
<1>7. NoLostImport'
  BY <1>2, <1>3, ImportsKept DEF IInv, Manifest
<1> QED
  BY <1>4, <1>5, <1>6, <1>7

(* Sleeps, exits and devices change where no thread is. *)
LEMMA Devices ==
    ASSUME IInv, UNCHANGED <<mode, overlapped>>,
           \/ \E o \in Owners : Suspended(o) \/ SleepForgets(o) \/ Reconnected(o) \/ DeviceGone(o)
           \/ SleepBegins \/ SleepEnds \/ FcExits
           \/ \E n \in Launches : EscExits(n) \/ EscUnbound(n)
    PROVE  Places' /\ RunShape' /\ Ends' /\ NoLostImport'
<1> USE OwnerParts, LabelsOf
<1> USE DEF gens, procs, flags, stubs, leases, books, ui, launcher, kept
<1>1. UNCHANGED <<generation, launches, qtJob, overlapped, pc, stub, open, held>>
  BY DEF Suspended, SleepForgets, Reconnected, DeviceGone, SleepBegins, SleepEnds,
     FcExits,
         EscExits, EscUnbound
<1>2. Places'
  BY <1>1 DEF IInv, Places, PlacesOK, QtShape, Fresh, NextLaunch
<1>3. Ends'
  BY <1>1 DEF IInv, Ends, HeldShape, OpenShape, StubShape, EndpointsOwned,
     PublishedIsCurrent
<1>4. RunShape'
  <2>1. \A n \in Launches : Running(n)' => Running(n)
    BY DEF Running, IInv, DataOK, Suspended, SleepForgets, Reconnected, DeviceGone,
       SleepBegins, SleepEnds,
           FcExits, EscExits, EscUnbound
  <2>2. fc' \in {0, fc}
    BY DEF Suspended, SleepForgets, Reconnected, DeviceGone, SleepBegins, SleepEnds,
       FcExits,
           EscExits, EscUnbound
  <2> QED
    BY <1>1, <2>1, <2>2 DEF IInv, RunShape, NextLaunch
<1>5. NoLostImport'
  <2>1. \A o \in Owners : lease'[o] \in {"live", "suspended"} =>
            lease[o] \in {"live", "suspended"} /\ (o \in usbPorts => o \in usbPorts')
    BY DEF IInv, DataOK, Suspended, SleepForgets, Reconnected, DeviceGone, SleepBegins,
       SleepEnds,
           FcExits, EscExits, EscUnbound, Lease!Suspend, Lease!Restore, Lease!Drop,
           Lease!Shut, Lease!Reopen, Lease!Moves
  <2> QED
    BY <1>1, <2>1 DEF IInv, NoLostImport
<1> QED
  BY <1>2, <1>3, <1>4, <1>5

(* The Qt thread goes to another place; the owners stay where they are. *)
LEMMA QtPlaces ==
    ASSUME PlacesOK, Fresh, NEW l \in Labels["qt"], Moved(Qt, l), UNCHANGED launches
    PROVE  PlacesOK' /\ Fresh'
  BY OwnerParts DEF PlacesOK, Fresh, Moved

(* Stop makes the launch void, and leaves what is published. *)
LEMMA Stops ==
    ASSUME IInv, UNCHANGED <<mode, overlapped>>, Stop
    PROVE  Places' /\ RunShape' /\ Ends' /\ NoLostImport'
<1> USE OwnerParts, LabelsOf
<1> USE DEF gens, procs, flags, stubs, leases, books, ui, launcher, kept
<1>1. PICK l \in {"void"} : l \in Labels["qt"] /\ Moved(Qt, l)
  BY Moves DEF Stop, IInv, Places
<1>2. PlacesOK' /\ Fresh'
  BY <1>1, QtPlaces DEF Stop, IInv, Places
<1>3. QtShape'
  BY <1>1 DEF Stop, QtShape, Moved
<1>4. RunShape'
  BY <1>1 DEF Stop, RunShape, Moved
<1>5. Ends'
  BY <1>1, EndsKept DEF Stop, MayStop, IInv, DataOK, Ends, StubShape
<1>6. NoLostImport'
  BY <1>1, ImportsKept DEF Stop, MayStop, IInv
<1> QED
  BY <1>2, <1>3, <1>4, <1>5, <1>6 DEF Places

(* Only then does the Qt thread take the published endpoint. *)
LEMMA TakesDown ==
    ASSUME IInv, UNCHANGED <<mode, overlapped>>, StopStub
    PROVE  Places' /\ RunShape' /\ Ends' /\ NoLostImport'
<1> USE OwnerParts, LabelsOf
<1> USE DEF gens, procs, flags, stubs, leases, books, ui, launcher, kept
<1>1. PICK l \in {"drop", "close"} : l \in Labels["qt"] /\ Moved(Qt, l)
  BY Moves DEF StopStub, TakeStub, IInv, Places
<1>2. PlacesOK' /\ Fresh'
  BY <1>1, QtPlaces DEF StopStub, IInv, Places
<1>3. QtShape'
  BY <1>1 DEF StopStub, QtShape, IInv, Places, Moved, NextLaunch
<1>4. RunShape'
  BY <1>1 DEF StopStub, IInv, Places, RunShape, QtShape, Running, NextLaunch, Moved
<1>5. Ends'
  <2>1. /\ TakeStub(Qt)
        /\ UNCHANGED <<open, overlapped>>
        /\ pc[Qt] \notin {"drop", "close"} \cup Bringing
    BY DEF StopStub, Bringing
  <2>2. DataOK /\ Ends
    BY DEF IInv
  <2> QED
    BY ONLY <1>1, <2>1, <2>2, TakeStubEnds, OwnerParts
<1>6. NoLostImport'
  BY <1>1, ImportsKept DEF StopStub, IInv
<1> QED
  BY <1>2, <1>3, <1>4, <1>5, <1>6 DEF Places

(* The end of a Stop, or of the handling of an exit: nothing runs any more. *)
LEMMA EndsLaunch ==
    ASSUME IInv, UNCHANGED <<mode, overlapped>>, StopProcesses \/ ExitProcesses
    PROVE  Places' /\ RunShape' /\ Ends' /\ NoLostImport'
<1> USE OwnerParts, LabelsOf
<1> USE DEF gens, procs, flags, stubs, leases, books, ui, launcher, kept
<1>1. PICK l \in {"idle", "closed"} : l \in Labels["qt"] /\ Moved(Qt, l)
  BY Moves DEF StopProcesses, ExitProcesses, IInv, Places
<1>2. PlacesOK' /\ Fresh'
  BY <1>1, QtPlaces DEF StopProcesses, ExitProcesses, IInv, Places
<1>3. QtShape'
  BY <1>1 DEF StopProcesses, ExitProcesses, QtShape, Moved, NextLaunch
<1>4. RunShape'
  BY <1>1 DEF StopProcesses, ExitProcesses, StopRunners, RunShape, Running
<1>5. Ends'
  BY <1>1, CloseHeldEnds DEF StopProcesses, ExitProcesses, IInv, DataOK
<1>6. NoLostImport'
  BY <1>1, ImportsKept DEF StopProcesses, ExitProcesses, IInv
<1> QED
  BY <1>2, <1>3, <1>4, <1>5, <1>6 DEF Places

(* The launch whose processes run becomes the current one. *)
LEMMA NewLaunch ==
    ASSUME IInv, UNCHANGED <<mode, overlapped>>, NewGeneration
    PROVE  Places' /\ RunShape' /\ Ends' /\ NoLostImport'
<1> USE OwnerParts, LabelsOf
<1> USE DEF gens, procs, flags, stubs, leases, books, ui, launcher, kept
<1>1. /\ pc[Qt] = "launched" /\ generation' = NextLaunch /\ launches' = NextLaunch /\ qtJob' = "none"
      /\ UNCHANGED <<group, fc, stub, open, held, lease, usbPorts>>
      /\ qtJob = "start" /\ NextLaunch \in Launches /\ (~overlapped => generation = 0)
  BY DEF NewGeneration, IInv, Places, QtShape
<1>2. /\ Startup(NextLaunch) \in Owners
      /\ Startup(NextLaunch)[1] = "start"
      /\ Startup(NextLaunch)[2] = NextLaunch
  BY <1>1, NamedOwners
<1>3. pc[Startup(NextLaunch)] = "none"
  BY <1>1, <1>2 DEF IInv, DataOK, Places, Fresh, NextLaunch
<1>4. /\ pc' \in [Threads -> AllLabels] /\ pc'[Qt] = "idle" /\ pc'[Startup(NextLaunch)] = "connect"
      /\ \A t \in Threads : t # Qt /\ t # Startup(NextLaunch) => pc'[t] = pc[t]
  <2>1. "idle" \in AllLabels /\ "connect" \in AllLabels
    BY DEF AllLabels, Labels, StartLabels
  <2> QED
    BY <1>2, <2>1 DEF NewGeneration, IInv, Places, PlacesOK
<1>5. Places'
  <2>1. PlacesOK'
    BY <1>2, <1>4 DEF IInv, Places, PlacesOK, StartLabels
  <2>2. QtShape'
    BY <1>1, <1>4 DEF QtShape
  <2>3. Fresh'
    <3>1. launches \in Nat /\ Fresh
      BY DEF IInv, DataOK, Places
    <3>2. \A o \in Owners : o[2] > NextLaunch => o # Startup(NextLaunch) /\ o[2] > launches
      BY <1>2, <3>1 DEF NextLaunch, Launches
    <3> QED
      BY <1>1, <1>4, <3>1, <3>2 DEF Fresh
  <2> QED
    BY <2>1, <2>2, <2>3 DEF Places
<1>6. RunShape'
  BY <1>1, <1>4 DEF IInv, DataOK, RunShape, Running, NextLaunch
<1>7. Ends'
  <2>1. HeldShape'
    BY <1>1, <1>2, <1>3, <1>4 DEF IInv, Ends, HeldShape
  <2>2. OpenShape'
    BY <1>1, <1>3, <1>4 DEF IInv, DataOK, Ends, OpenShape, Bringing
  <2>3. StubShape'
    BY <1>1, <1>3, <1>4 DEF IInv, DataOK, Ends, StubShape
  <2>4. EndpointsOwned'
    BY <1>1, <1>3, <1>4 DEF IInv, DataOK, Ends, EndpointsOwned
  <2>5. PublishedIsCurrent'
    BY <1>1 DEF IInv, DataOK, Ends, PublishedIsCurrent, NextLaunch
  <2> QED
    BY <2>1, <2>2, <2>3, <2>4, <2>5 DEF Ends
<1>8. NoLostImport'
  BY <1>1, <1>2, <1>3, <1>4 DEF IInv, NoLostImport
<1> QED
  BY <1>5, <1>6, <1>7, <1>8

(* The rest of a Start, up to the running processes or the refusal. *)
LEMMA StartsProcesses ==
    ASSUME IInv, UNCHANGED <<mode, overlapped>>, StartProcesses
    PROVE  Places' /\ RunShape' /\ Ends' /\ NoLostImport'
<1> USE OwnerParts, LabelsOf
<1> USE DEF gens, procs, flags, stubs, leases, books, ui, launcher, kept
<1>1. PICK l \in {"idle", "launched"} : l \in Labels["qt"] /\ Moved(Qt, l)
  BY Moves DEF StartProcesses, IInv, Places
<1>2. PlacesOK' /\ Fresh'
  BY <1>1, QtPlaces DEF StartProcesses, IInv, Places
<1>3. QtShape'
  <2>1. /\ qtJob = "start"
        /\ (l = "launched" => qtJob' = qtJob)
        /\ (l = "idle" => qtJob' = "none")
    BY <1>1 DEF StartProcesses, Moved, Goto, IInv, Places, PlacesOK
  <2> QED
    BY <1>1, <2>1 DEF StartProcesses, IInv, Places, QtShape, Moved, NextLaunch
<1>4. RunShape'
  <2>1. /\ qtJob = "start"
        /\ pc[Qt] = "close"
        /\ UNCHANGED <<generation, launches, overlapped>>
    BY DEF StartProcesses
  <2>2. pc' = [pc EXCEPT ![Qt] = "launched"] => qtJob' = "start"
    BY DEF StartProcesses, Goto, IInv, Places, PlacesOK
  <2>3. (~overlapped => generation = 0) /\ (\A n \in Launches : ~Running(n))
        /\ (fc # 0 => overlapped /\ fc \in 1..generation)
    BY <2>1 DEF IInv, Places, QtShape, RunShape, DataOK, Launches
  <2>4. CASE /\ group' = [group EXCEPT ![NextLaunch] = "all"] /\ fc' \in {fc, NextLaunch}
             /\ Goto(Qt, "launched")
    <3>1. pc'[Qt] = "launched"
      BY <1>1, <2>4 DEF Goto, IInv, Places, PlacesOK
    <3> QED
      BY <2>1, <2>3, <2>4, <3>1 DEF RunShape, Running, IInv, DataOK, NextLaunch
  <2>5. CASE UNCHANGED group /\ UNCHANGED fc
    BY <2>1, <2>3, <2>5 DEF RunShape, Running
  <2> QED
    BY <2>4, <2>5 DEF StartProcesses
<1>5. Ends'
  BY <1>1, CloseHeldEnds DEF StartProcesses, IInv, DataOK
<1>6. NoLostImport'
  BY <1>1, ImportsKept DEF StartProcesses, IInv
<1> QED
  BY <1>2, <1>3, <1>4, <1>5, <1>6 DEF Places

(* A process that cannot be started: nothing runs. *)
LEMMA FailsToStart ==
    ASSUME IInv, UNCHANGED <<mode, overlapped>>, StartFails
    PROVE  Places' /\ RunShape' /\ Ends' /\ NoLostImport'
<1> USE OwnerParts, LabelsOf
<1> USE DEF gens, procs, flags, stubs, leases, books, ui, launcher, kept
<1>1. PICK l \in {"idle"} : l \in Labels["qt"] /\ Moved(Qt, l)
  BY Moves DEF StartFails, IInv, Places
<1>2. PlacesOK' /\ Fresh'
  BY <1>1, QtPlaces DEF StartFails, IInv, Places
<1>3. QtShape'
  BY <1>1 DEF StartFails, QtShape, Moved
<1>4. RunShape'
  BY DEF StartFails, RunShape, Running
<1>5. Ends'
  BY <1>1, CloseHeldEnds DEF StartFails, IInv, DataOK
<1>6. NoLostImport'
  BY <1>1, ImportsKept DEF StartFails, IInv
<1> QED
  BY <1>2, <1>3, <1>4, <1>5, <1>6 DEF Places

(* Start up to the close of what an earlier launch left. *)
LEMMA Starts ==
    ASSUME IInv, UNCHANGED mode, Start
    PROVE  Places' /\ RunShape' /\ Ends' /\ NoLostImport'
<1> USE OwnerParts, LabelsOf
<1> USE DEF gens, procs, flags, stubs, leases, books, ui, launcher, kept
<1>1. UNCHANGED <<generation, launches, group, fc, open, lease, usbPorts>> /\ pc[Qt] = "idle"
      /\ NextLaunch \in Launches /\ qtJob = "none"
  BY DEF Start, IInv, Places, QtShape
<1>2. CASE UNCHANGED <<stub, held, pc, qtJob, overlapped>>
  <2>1. Places'
    BY <1>1, <1>2 DEF IInv, Places, PlacesOK, QtShape, Fresh, NextLaunch
  <2>2. RunShape'
    BY <1>1, <1>2 DEF IInv, RunShape, Running, NextLaunch
  <2>3. Ends'
    BY <1>1, <1>2 DEF IInv, Ends, HeldShape, OpenShape, StubShape, EndpointsOwned,
       PublishedIsCurrent
  <2>4. NoLostImport'
    BY <1>1, <1>2 DEF IInv, NoLostImport
  <2> QED
    BY <2>1, <2>2, <2>3, <2>4
<1>3. CASE /\ ~GroupRunning /\ fc = 0
           /\ TakeStub(Qt) /\ qtJob' = "start"
           /\ overlapped' = (overlapped \/ generation # 0)
  <2>1. PICK l \in {"drop", "close"} : l \in Labels["qt"] /\ Moved(Qt, l)
    BY <1>3, Moves DEF TakeStub, IInv, Places
  <2>2. PlacesOK' /\ Fresh'
    BY <1>1, <2>1, QtPlaces DEF IInv, Places
  <2>3. QtShape'
    BY <1>1, <1>3, <2>1 DEF QtShape, NextLaunch, Moved
  <2>4. RunShape'
    <3>1. \A n \in Launches : ~Running(n)
      BY <1>3 DEF GroupRunning, Listed, Running
    <3> QED
      BY <1>1, <1>3, <3>1 DEF RunShape, Running
  <2>5. Ends'
    <3>1. pc[Qt] \notin {"drop", "close"} \cup Bringing /\ DataOK /\ Ends
      BY <1>1 DEF IInv, Bringing
    <3>2. TakeStub(Qt) /\ UNCHANGED open /\ (overlapped => overlapped')
      BY <1>1, <1>3
    <3> QED
      BY ONLY <2>1, <3>1, <3>2, TakeStubEnds, OwnerParts
  <2>6. NoLostImport'
    BY <1>1, <2>1, ImportsKept DEF IInv
  <2> QED
    BY <2>2, <2>3, <2>4, <2>5, <2>6 DEF Places
<1> QED
  BY <1>2, <1>3 DEF Start

(* The lines of the emulators that the Qt thread handles, and the end of the program. *)
LEMMA SeesLines ==
    ASSUME IInv, UNCHANGED <<mode, overlapped>>, 
           SawBound \/ CloseProgram \/ \E line \in lines : SawExit(line) \/ SawUnbound(line)
    PROVE  Places' /\ RunShape' /\ Ends' /\ NoLostImport'
<1> USE OwnerParts, LabelsOf
<1> USE DEF gens, procs, flags, stubs, leases, books, ui, launcher, kept
<1>1. UNCHANGED <<launches, group, fc, open, lease, usbPorts>> /\ pc[Qt] = "idle"
      /\ qtJob = "none"
  BY DEF SawBound, CloseProgram, SawExit, SawUnbound, Lease!End, IInv, Places, QtShape
<1>2. CASE UNCHANGED <<generation, stub, held, pc, qtJob>>
  <2>1. Places'
    BY <1>1, <1>2 DEF IInv, Places, PlacesOK, QtShape, Fresh, NextLaunch
  <2>2. RunShape'
    BY <1>1, <1>2 DEF IInv, RunShape, Running, NextLaunch
  <2>3. Ends'
    BY <1>1, <1>2 DEF IInv, Ends, HeldShape, OpenShape, StubShape, EndpointsOwned,
       PublishedIsCurrent
  <2>4. NoLostImport'
    BY <1>1, <1>2 DEF IInv, NoLostImport
  <2> QED
    BY <2>1, <2>2, <2>3, <2>4
<1>3. CASE UNCHANGED <<stub, held>> /\ Goto(Qt, "void") /\ generation' = 0 /\ qtJob' = "exit"
  <2>1. "void" \in Labels["qt"] /\ Moved(Qt, "void")
    BY <1>3, Moves DEF IInv, Places
  <2>2. PlacesOK' /\ Fresh'
    BY <1>1, <2>1, QtPlaces DEF IInv, Places
  <2>3. QtShape'
    BY <1>1, <1>3, <2>1 DEF QtShape, Moved
  <2>4. RunShape'
    BY <1>3 DEF RunShape
  <2>5. Ends'
    BY <1>1, <1>3, <2>1, EndsKept DEF IInv, DataOK, Ends, StubShape
  <2>6. NoLostImport'
    BY <1>1, <2>1, ImportsKept DEF IInv
  <2> QED
    BY <2>2, <2>3, <2>4, <2>5, <2>6 DEF Places
<1>4. CASE CloseProgram
  <2>1. UNCHANGED <<generation, stub, held, qtJob>> /\ Goto(Qt, "closing")
    BY <1>4 DEF CloseProgram
  <2>2. "closing" \in Labels["qt"] /\ Moved(Qt, "closing")
    BY <2>1, Moves DEF IInv, Places
  <2>3. PlacesOK' /\ Fresh'
    BY <1>1, <2>2, QtPlaces DEF IInv, Places
  <2>4. QtShape'
    BY <1>1, <2>1, <2>2 DEF QtShape, Moved
  <2>5. RunShape'
    BY <1>1, <2>1, <2>2 DEF IInv, RunShape, Running, Moved, NextLaunch
  <2>6. Ends'
    BY <1>1, <2>1, <2>2, EndsKept DEF IInv, DataOK, Ends
  <2>7. NoLostImport'
    BY <1>1, <2>2, ImportsKept DEF IInv
  <2> QED
    BY <2>3, <2>4, <2>5, <2>6, <2>7 DEF Places
<1>5. SawBound => UNCHANGED <<generation, stub, held, pc, qtJob>>
  BY DEF SawBound
<1>6. ASSUME NEW line \in lines, SawUnbound(line)
      PROVE  UNCHANGED <<generation, stub, held, pc, qtJob>>
  BY <1>6 DEF SawUnbound
<1>7. ASSUME NEW line \in lines, SawExit(line)
      PROVE  \/ UNCHANGED <<generation, stub, held, pc, qtJob>>
             \/ UNCHANGED <<stub, held>> /\ Goto(Qt, "void") /\ generation' = 0 /\ qtJob' = "exit"
  BY <1>7 DEF SawExit
<1> QED
  BY <1>2, <1>3, <1>4, <1>5, <1>6, <1>7

-----------------------------------------------------------------------------
(* The invariant holds in the beginning and is kept by every step.         *)

(* The invariant holds in the beginning. *)
LEMMA InitInv == Init => IInv
<1> SUFFICES ASSUME Init PROVE IInv
  OBVIOUS
<1> USE OwnerParts, LabelsOf DEF Init, Lease!LInit
<1>1. DataOK
  BY DEF DataOK, Lease!LeaseStates
<1>2. FlagsOK
  BY DEF FlagsOK
<1>3. Places
  <2>1. PlacesOK
    BY DEF PlacesOK, AllLabels, Labels, StartLabels
  <2>2. QtShape /\ Fresh
    BY DEF QtShape, Fresh
  <2> QED
    BY <2>1, <2>2 DEF Places
<1>4. RunShape
  BY DEF RunShape, Running
<1>5. Ends
  BY DEF Ends, HeldShape, OpenShape, StubShape, EndpointsOwned, PublishedIsCurrent
<1>6. NoLostImport
  BY DEF NoLostImport
<1> QED
  BY <1>1, <1>2, <1>3, <1>4, <1>5, <1>6 DEF IInv

(* The steps of the threads of one launch keep it. *)
LEMMA LaunchStep ==
    ASSUME IInv, NEW n \in Launches, LifecycleStep(n)
    PROVE  IInv'
<1> USE OwnerParts, NamedOwners
<1>1. UNCHANGED kept /\ mode' \in Modes /\ upsets' \in 0..MaxUpsets /\ overlapped' \in BOOLEAN
  BY DEF LifecycleStep, StartStep, HandoffStep, WatchStep, kept, IInv, DataOK, FlagsOK
<1>2. ASSUME NEW o \in Owners, BringUp(o)
      PROVE  IInv'
  <2>1. DataOK' /\ FlagsOK'
    BY <1>1, <1>2, DataBringUp
  <2>2. Places' /\ RunShape' /\ Ends' /\ NoLostImport'
    BY <1>1, <1>2, Imports, Publishes, Undoes DEF BringUp
  <2> QED
    BY <2>1, <2>2 DEF IInv
<1>3. ASSUME NEW t \in Threads, t[1] \in {"start", "handoff"}, DropLeases(t)
      PROVE  IInv'
  BY <1>1, <1>3, DataDrop, DropsLeases DEF IInv
<1>4. CASE StartStep(n)
  <2>1. ASSUME ~BringUp(Startup(n)), ~DropLeases(Startup(n))
        PROVE  DataOK' /\ FlagsOK'
    BY <1>1, <1>4, <2>1, DataStartup DEF StartStep
  <2>2. ASSUME ~BringUp(Startup(n)), ~DropLeases(Startup(n))
        PROVE  Places' /\ RunShape' /\ Ends' /\ NoLostImport'
    BY <1>1, <1>4, <2>2, StartupMoves, StartupEnds, BeginsUsb DEF StartStep
  <2> QED
    BY <1>2, <1>3, <2>1, <2>2 DEF IInv
<1>5. CASE "handoff" \in Kinds /\ HandoffStep(n)
  <2>1. ASSUME ~BringUp(Handoff(n)), ~DropLeases(Handoff(n))
        PROVE  DataOK' /\ FlagsOK'
    BY <1>1, <1>5, <2>1, DataHandoff DEF HandoffStep
  <2>2. ASSUME ~BringUp(Handoff(n)), ~DropLeases(Handoff(n))
        PROVE  Places' /\ RunShape' /\ Ends' /\ NoLostImport'
    BY <1>1, <1>5, <2>2, HandoffMoves, HandoffEnds DEF HandoffStep
  <2> QED
    BY <1>2, <1>3, <1>5, <2>1, <2>2 DEF IInv
<1>6. CASE "watch" \in Kinds /\ WatchStep(n)
  <2>1. DataOK' /\ FlagsOK'
    BY <1>1, <1>6, DataWatch DEF WatchStep
  <2>2. Places' /\ RunShape' /\ Ends' /\ NoLostImport'
    BY <1>1, <1>6, WatchMoves, WatchImportsAgain DEF WatchStep
  <2> QED
    BY <2>1, <2>2 DEF IInv
<1> QED
  BY <1>4, <1>5, <1>6 DEF LifecycleStep

(* Every step keeps it. *)
LEMMA NextInv == IInv /\ [Next]_vars => IInv'
<1> SUFFICES ASSUME IInv, [Next]_vars PROVE IInv'
  OBVIOUS
<1> USE OwnerParts
<1>1. CASE UNCHANGED vars
  <2> USE <1>1 DEF vars, launcher, gens, procs, flags, ui, stubs, leases, books, kept
  <2>1. DataOK' /\ FlagsOK'
    BY DEF IInv, DataOK, FlagsOK
  <2>2. Places'
    BY DEF IInv, Places, PlacesOK, QtShape, Fresh, NextLaunch
  <2>3. RunShape' /\ NoLostImport'
    BY DEF IInv, RunShape, Running, NextLaunch, NoLostImport
  <2>4. Ends'
    BY DEF IInv, Ends, HeldShape, OpenShape, StubShape, EndpointsOwned, PublishedIsCurrent
  <2> QED
    BY <2>1, <2>2, <2>3, <2>4 DEF IInv
<1>2. CASE UserStep
  <2>1. UNCHANGED <<mode, upsets>> /\ mode' \in Modes /\ upsets' \in 0..MaxUpsets
    BY <1>2 DEF UserStep, IInv, DataOK
  <2>2. overlapped' \in BOOLEAN
    BY <1>2 DEF UserStep, Start, IInv, FlagsOK
  <2>3. DataOK' /\ FlagsOK'
    BY <1>2, <2>1, <2>2, DataStart, DataQt DEF UserStep
  <2>4. Places' /\ RunShape' /\ Ends' /\ NoLostImport'
    BY <1>2, <2>1, Starts, Stops, SeesLines DEF UserStep
  <2> QED
    BY <2>3, <2>4 DEF IInv
<1>3. CASE QtStep
  <2>1. UNCHANGED kept /\ UNCHANGED <<mode, overlapped>>
        /\ mode' \in Modes /\ upsets' \in 0..MaxUpsets /\ overlapped' \in BOOLEAN
    BY <1>3 DEF QtStep, kept, IInv, DataOK, FlagsOK
  <2>2. DataOK' /\ FlagsOK'
    BY <1>3, <2>1, DataQt, DataDrop DEF QtStep
  <2>3. Places' /\ RunShape' /\ Ends' /\ NoLostImport'
    BY <1>3, <2>1, Stops, TakesDown, DropsLeases, StartsProcesses, NewLaunch, EndsLaunch
       DEF QtStep
  <2> QED
    BY <2>2, <2>3 DEF IInv
<1>4. ASSUME NEW n \in Launches, Manifest(n), UNCHANGED kept
      PROVE  IInv'
  <2>1. DataOK' /\ FlagsOK'
    BY <1>4 DEF Manifest, IInv, DataOK, FlagsOK, kept, launcher, gens, procs, flags, ui,
       stubs,
                leases, books
  <2>2. Places' /\ RunShape' /\ Ends' /\ NoLostImport'
    BY <1>4, BeginsHandoff
  <2> QED
    BY <2>1, <2>2 DEF IInv
<1>5. CASE SleepStep
  <2>1. UNCHANGED <<mode, overlapped>>
        /\ mode' \in Modes /\ upsets' \in 0..MaxUpsets /\ overlapped' \in BOOLEAN
    BY <1>5 DEF SleepStep, kept, IInv, DataOK, FlagsOK
  <2>2. DataOK' /\ FlagsOK'
    BY <1>5, <2>1, DataSleep DEF SleepStep
  <2>3. Places' /\ RunShape' /\ Ends' /\ NoLostImport'
    BY <1>5, <2>1, Devices DEF SleepStep
  <2> QED
    BY <2>2, <2>3 DEF IInv
<1>6. CASE UpsetStep
  <2>1. UNCHANGED <<mode, overlapped>>
        /\ mode' \in Modes /\ upsets' \in 0..MaxUpsets /\ overlapped' \in BOOLEAN
    BY <1>6 DEF UpsetStep, UpsetsUpTo, IInv, DataOK, FlagsOK
  <2>2. DataOK' /\ FlagsOK'
    BY <1>6, <2>1, DataSleep, DataOther, DataQt DEF UpsetStep
  <2>3. Places' /\ RunShape' /\ Ends' /\ NoLostImport'
    BY <1>6, <2>1, Devices, SeesLines, FailsToStart DEF UpsetStep
  <2> QED
    BY <2>2, <2>3 DEF IInv
<1> QED
  BY <1>1, <1>2, <1>3, <1>4, <1>5, <1>6, LaunchStep DEF Next

(* So it holds in every state of every behaviour. *)
LEMMA Invariance == Spec => []IInv
  BY InitInv, NextInv, PTL DEF Spec

-----------------------------------------------------------------------------
(* Every state of the launcher is well typed: a thread is only at places of *)
(* its kind, and only live leases have left their ports.                    *)
THEOREM LabTypes == Spec => []TypeOK
<1>1. IInv => TypeOK
  BY DEF IInv, Places, TypeOK
<1> QED
  BY <1>1, Invariance, PTL

(* However Starts, Stops, exits, sleeps and refused detaches interleave, a  *)
(* lease that UsbSleep holds is known to the launcher, or in the hands of   *)
(* the thread that has just taken it (gui.py:1114-1140).                    *)
THEOREM ImportsKnown == Spec => []NoLostImport
<1>1. IInv => NoLostImport
  BY DEF IInv
<1> QED
  BY <1>1, Invariance, PTL

(* Unless a Start overlapped another launch, every endpoint that listens is *)
(* published, held by the thread that closes it, or still being brought up. *)
THEOREM EndpointsHaveOwners == Spec => []EndpointsOwned
<1>1. IInv => EndpointsOwned
  BY DEF IInv, Ends
<1> QED
  BY <1>1, Invariance, PTL

(* The endpoint published is one of a launch made void only between the two *)
(* steps of the Stop or the exit that made it so (gui.py:1441-1442 and      *)
(* 1415-1418): no thread that was late publishes one.  It is the current    *)
(* launch's unless a Start overlapped another.                              *)
THEOREM EndpointCurrent == Spec => []PublishedIsCurrent
<1>1. IInv => PublishedIsCurrent
  BY DEF IInv, Ends
<1> QED
  BY <1>1, Invariance, PTL

(* While the Qt thread is idle no emulator of a void launch runs, and no    *)
(* flight controller that a late handoff started after a Stop.              *)
THEOREM ProcessesCurrent == Spec => []RunningIsCurrent
<1>1. IInv => RunningIsCurrent
  <2> SUFFICES ASSUME IInv, pc[Qt] = "idle" PROVE RunningIsCurrent
    BY DEF RunningIsCurrent
  <2>1. qtJob = "none"
    BY DEF IInv, Places, QtShape
  <2> QED
    BY <2>1 DEF IInv, RunShape, Running, RunningIsCurrent
<1> QED
  BY <1>1, Invariance, PTL
=============================================================================
