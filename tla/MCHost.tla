------------------------------- MODULE MCHost --------------------------------
(****************************************************************************)
(* The parts of the launcher that share no state while they run: process    *)
(* trees, the monitor's connection, the caches and stores, the window, its  *)
(* images and its control port, the serial bridge. One behaviour is a       *)
(* behaviour of one of them; the others stay as they begin.                 *)
(****************************************************************************)
EXTENDS Naturals, Sequences, FiniteSets, TLC, TLAPS, FiniteSetTheorems, WellFoundedInduction

CONSTANTS
    Kids, Processes,                        \* of a process tree; that share a store
    ReleaseNames, Channels, Legacy,         \* of the artifact repository
    MaxVersion, MaxSuffix,                  \* of the cache of Renode packages
    Sources, Files, Default, Headers, MaxHad,   \* of targets.h
    MaxAsked, MaxChanges,                   \* of the monitor's connection
    Clients, Targets, Settings, MaxLines,   \* of the control port
    EscCounts, MaxWork,                     \* of the window
    BuiltTargets, Bootloaders, Catalog, MaxChoices, \* of the image boxes
    MaxEscs, DrivenInputs, MaxDevices, MaxReboots,  \* of the SITL bench
    LastChunk, MaxProbes, MaxFaults, MaxRetries \* of the serial linker

ASSUME HostAssumption ==
    /\ "free" \notin Processes /\ Legacy \in ReleaseNames
    /\ "bad" \notin Headers /\ Default \in Sources
    /\ LastChunk \in Nat
    /\ "none" \notin Targets /\ 1 \in EscCounts
    /\ MaxEscs \in Nat \ {0} /\ DrivenInputs \subseteq (1..MaxEscs) \X {"dshot", "can"}
    /\ MaxDevices \in Nat
    /\ IsFiniteSet(Bootloaders) /\ IsFiniteSet(Catalog.bootloader)
    /\ IsFiniteSet(DOMAIN Catalog.firmware)

\* Conditions of a targets.h: || and && and ! in their order, the defined of
\* the C preprocessor, and a chain of comparisons, which is refused.
MacroValues == UNION {[defined -> {0, 1}] : defined \in SUBSET {"M", "T"}}
Expressions ==
    {[tokens |-> <<"!", "defined", "M", "&&", "T", "==", "0">>,
      holds |-> {v \in MacroValues :
                    "M" \notin DOMAIN v /\ ("T" \in DOMAIN v => v["T"] = 0)}],
     [tokens |-> <<"M", "||", "0", "&&", "defined", "(", "T", ")">>,
      holds |-> {v \in MacroValues : "M" \in DOMAIN v /\ v["M"] = 1}],
     [tokens |-> <<"M", "<", "T", "<", "1">>, holds |-> {}]}

\* What a user of the bench turns on.
CanAndDshot == {<<1, "can">>, <<2, "dshot">>}

\* A target with a plain and a sized bootloader, and one with CAN; V9 and V13.
ChosenTargets == {[name |-> "f051", dronecan |-> FALSE], [name |-> "l431", dronecan |-> TRUE]}
BuiltFile(t, v, n, e) == [target |-> t, variant |-> v, version |-> n, elf |-> e, dir |-> 1]
BuiltFiles ==
    {BuiltFile("f051", "plain", <<9>>, FALSE), BuiltFile("f051", "plain", <<9>>, TRUE),
     BuiltFile("f051", "sized", <<1, 3>>, TRUE), BuiltFile("l431", "can", <<1, 3>>, TRUE),
     BuiltFile("l431", "plain", <<1, 3>>, TRUE)}
TwoReleases == [bootloader |-> {1, 2}, stable |-> 2, firmware |-> <<{"f051"}, {"f051", "l431"}>>]

VARIABLES
    part,           \* the component this behaviour is about
    treeOs, treeLeader, treeKids, treeAway, treeJob, treeTemp, treeSpc,
    treePump, treeOrphaned,
    monitorCurrent, monitorFcMonitor, monitorOpen, monitorIo, monitorPc,
    monitorData, monitorAsked, monitorAnswers, monitorNow, monitorPaused,
    monitorNumber, monitorSince, monitorLate, monitorShown, monitorUsed,
    artifactsProject, artifactsFiles, artifactsManifests, artifactsCatalog,
    artifactsStable, artifactsLock, artifactsJob, artifactsCcatalog,
    artifactsCmanifests, artifactsCobjects, artifactsClient, artifactsGot,
    renodeLatest, renodeDirs, renodeSelected, renodeProc, renodeRunning,
    sourceRemote, sourceIndex, sourceObjects, sourceSource, sourceProc,
    sourceReturned, sourceWas, sourceRaced,
    windowWin, windowWork, windowStarted,
    fleetCount, fleetAlive, fleetDrives, fleetLocked, fleetMode, fleetDirect,
    fleetGui, fleetWorker, fleetStart, fleetCancelled, fleetStub,
    fleetTargets, fleetAttachment, fleetDevices, fleetAnswers, fleetTimers,
    fleetReboots, fleetShown,
    linkerAsked, linkerProbes, linkerInbound, linkerBusy, linkerEchoes,
    linkerPending, linkerConnected, linkerResetDone, linkerWindow,
    linkerRetries, linkerWire, linkerEsc, linkerRuns, linkerAnswers,
    linkerWritten, linkerSeen, linkerFaults,
    dshotOut, dshotWire, dshotPackets, dshotBytes, dshotMissing, dshotReplies,
    dshotArrived, dshotSerialRx, dshotRead, dshotTaken,
    macrosMacros, macrosStack, macrosActive, macrosFailed, macrosText,
    imagesFiles, imagesTarget, imagesCatalog, imagesBl, imagesFw, imagesLab,
    imagesPrefs, imagesInstalling, imagesLaunch, imagesPicked, imagesActs,
    portSent, portReplies, portAsked, portPending, portDone, portBusy,
    portSelected, portTarget, portResolving, portSetting, portLaunch,
    portInstalling, portStartable

treeVars ==
    <<treeOs, treeLeader, treeKids, treeAway, treeJob, treeTemp, treeSpc,
      treePump, treeOrphaned>>
monitorVars ==
    <<monitorCurrent, monitorFcMonitor, monitorOpen, monitorIo, monitorPc,
      monitorData, monitorAsked, monitorAnswers, monitorNow, monitorPaused,
      monitorNumber, monitorSince, monitorLate, monitorShown, monitorUsed>>
artifactsVars ==
    <<artifactsProject, artifactsFiles, artifactsManifests,
      artifactsCatalog, artifactsStable, artifactsLock, artifactsJob,
      artifactsCcatalog, artifactsCmanifests, artifactsCobjects,
      artifactsClient, artifactsGot>>
renodeVars ==
    <<renodeLatest, renodeDirs, renodeSelected, renodeProc, renodeRunning>>
sourceVars ==
    <<sourceRemote, sourceIndex, sourceObjects, sourceSource, sourceProc,
      sourceReturned, sourceWas, sourceRaced>>
windowVars ==
    <<windowWin, windowWork, windowStarted>>
fleetVars ==
    <<fleetCount, fleetAlive, fleetDrives, fleetLocked, fleetMode,
      fleetDirect, fleetGui, fleetWorker, fleetStart, fleetCancelled,
      fleetStub, fleetTargets, fleetAttachment, fleetDevices, fleetAnswers,
      fleetTimers, fleetReboots, fleetShown>>
linkerVars ==
    <<linkerAsked, linkerProbes, linkerInbound, linkerBusy, linkerEchoes,
      linkerPending, linkerConnected, linkerResetDone, linkerWindow,
      linkerRetries, linkerWire, linkerEsc, linkerRuns, linkerAnswers,
      linkerWritten, linkerSeen, linkerFaults>>
dshotVars ==
    <<dshotOut, dshotWire, dshotPackets, dshotBytes, dshotMissing,
      dshotReplies, dshotArrived, dshotSerialRx, dshotRead, dshotTaken>>
macrosVars ==
    <<macrosMacros, macrosStack, macrosActive, macrosFailed, macrosText>>
imagesVars ==
    <<imagesFiles, imagesTarget, imagesCatalog, imagesBl, imagesFw,
      imagesLab, imagesPrefs, imagesInstalling, imagesLaunch, imagesPicked,
      imagesActs>>
portVars ==
    <<portSent, portReplies, portAsked, portPending, portDone, portBusy,
      portSelected, portTarget, portResolving, portSetting, portLaunch,
      portInstalling, portStartable>>
vars == <<part, treeVars, monitorVars, artifactsVars, renodeVars, sourceVars, windowVars, fleetVars, linkerVars, dshotVars, macrosVars, imagesVars, portVars>>

Tree == INSTANCE ProcessTree WITH
    os <- treeOs, leader <- treeLeader, kids <- treeKids, away <- treeAway,
    job <- treeJob, temp <- treeTemp, spc <- treeSpc, pump <- treePump,
    orphaned <- treeOrphaned
Monitor == INSTANCE FcMonitor WITH
    current <- monitorCurrent, fcMonitor <- monitorFcMonitor,
    open <- monitorOpen, io <- monitorIo, pc <- monitorPc,
    data <- monitorData, asked <- monitorAsked, answers <- monitorAnswers,
    now <- monitorNow, paused <- monitorPaused, number <- monitorNumber,
    since <- monitorSince, late <- monitorLate, shown <- monitorShown,
    used <- monitorUsed
Artifacts == INSTANCE ArtifactRepository WITH
    Publishers <- Processes, Releases <- ReleaseNames,
    project <- artifactsProject, files <- artifactsFiles,
    manifests <- artifactsManifests, catalog <- artifactsCatalog,
    stable <- artifactsStable, lock <- artifactsLock, job <- artifactsJob,
    ccatalog <- artifactsCcatalog, cmanifests <- artifactsCmanifests,
    cobjects <- artifactsCobjects, client <- artifactsClient,
    got <- artifactsGot
Renode == INSTANCE RenodeCache WITH
    latest <- renodeLatest, dirs <- renodeDirs, selected <- renodeSelected,
    proc <- renodeProc, running <- renodeRunning
Source == INSTANCE TargetsSource WITH
    remote <- sourceRemote, index <- sourceIndex, objects <- sourceObjects,
    source <- sourceSource, proc <- sourceProc, returned <- sourceReturned,
    was <- sourceWas, raced <- sourceRaced
Window == INSTANCE LauncherWindow WITH
    Counts <- EscCounts, win <- windowWin, work <- windowWork,
    started <- windowStarted
Fleet == INSTANCE EscFleet WITH
    Inputs <- DrivenInputs, MaxStarts <- MaxDevices, count <- fleetCount,
    alive <- fleetAlive, drives <- fleetDrives, locked <- fleetLocked,
    mode <- fleetMode, direct <- fleetDirect, gui <- fleetGui,
    worker <- fleetWorker, start <- fleetStart, cancelled <- fleetCancelled,
    stub <- fleetStub, targets <- fleetTargets, attachment <- fleetAttachment,
    devices <- fleetDevices, answers <- fleetAnswers, timers <- fleetTimers,
    reboots <- fleetReboots, shown <- fleetShown
Linker == INSTANCE SerialLinker WITH
    Last <- LastChunk, asked <- linkerAsked, probes <- linkerProbes,
    inbound <- linkerInbound, busy <- linkerBusy, echoes <- linkerEchoes,
    pending <- linkerPending, connected <- linkerConnected,
    resetDone <- linkerResetDone, window <- linkerWindow,
    retries <- linkerRetries, wire <- linkerWire, esc <- linkerEsc,
    runs <- linkerRuns, answers <- linkerAnswers, written <- linkerWritten,
    seen <- linkerSeen, faults <- linkerFaults
Dshot == INSTANCE DshotPort WITH
    Throttles <- {0, 1046}, Periods <- {0, 171, 513, 65408},
    Telemetry <- {<<2, 40>>, <<14, 3>>},
    Damaged <- {<<<<0, 513>>, 6>>, <<<<2, 40>>, 28672>>}, SerialMax <- 2,
    Keep <- 2, Half <- 1, MaxBytes <- 3, MaxPackets <- 3, out <- dshotOut,
    wire <- dshotWire, packets <- dshotPackets, bytes <- dshotBytes,
    missing <- dshotMissing, replies <- dshotReplies, arrived <- dshotArrived,
    serialRx <- dshotSerialRx, read <- dshotRead, taken <- dshotTaken
Macros == INSTANCE TargetMacros WITH
    Target <- "T", Names <- {"M"}, Conditions <- Expressions, MaxLines <- 4,
    macros <- macrosMacros, stack <- macrosStack, active <- macrosActive,
    failed <- macrosFailed, text <- macrosText
Images == INSTANCE ImageChoice WITH
    Targets <- BuiltTargets, Built <- Bootloaders, Published <- Catalog,
    MaxActs <- MaxChoices, files <- imagesFiles, target <- imagesTarget,
    catalog <- imagesCatalog, bl <- imagesBl, fw <- imagesFw,
    lab <- imagesLab, prefs <- imagesPrefs, installing <- imagesInstalling,
    launch <- imagesLaunch, picked <- imagesPicked, acts <- imagesActs
Port == INSTANCE ControlPort WITH
    sent <- portSent, replies <- portReplies, asked <- portAsked,
    pending <- portPending, done <- portDone, busy <- portBusy,
    selected <- portSelected, target <- portTarget,
    resolving <- portResolving, setting <- portSetting, launch <- portLaunch,
    installing <- portInstalling, startable <- portStartable

Init ==
    /\ part \in {"tree", "monitor", "artifacts", "renode", "source", "window", "fleet", "linker", "dshot", "macros", "images", "port"}
    /\ Tree!Init
    /\ Monitor!Init
    /\ Artifacts!Init
    /\ Renode!Init
    /\ Source!Init
    /\ Window!Init
    /\ Fleet!Init
    /\ Linker!Init
    /\ Dshot!Init
    /\ Macros!Init
    /\ Images!Init
    /\ Port!Init
    /\ part # "tree" => treeOs = "posix" /\ ~treeJob
    /\ part # "artifacts" => artifactsProject = "firmware"
    /\ part # "linker" => linkerEsc = "app"
    /\ part # "images" => imagesFiles = {}
    /\ part # "port" => portSetting = CHOOSE s \in Settings : TRUE

TreeSteps ==
    /\ part = "tree" /\ Tree!Next
    /\ UNCHANGED <<part, monitorVars, artifactsVars, renodeVars, sourceVars, windowVars, fleetVars, linkerVars, dshotVars, macrosVars, imagesVars, portVars>>

MonitorSteps ==
    /\ part = "monitor" /\ Monitor!Next
    /\ UNCHANGED <<part, treeVars, artifactsVars, renodeVars, sourceVars, windowVars, fleetVars, linkerVars, dshotVars, macrosVars, imagesVars, portVars>>

ArtifactsSteps ==
    /\ part = "artifacts" /\ Artifacts!Next
    /\ UNCHANGED <<part, treeVars, monitorVars, renodeVars, sourceVars, windowVars, fleetVars, linkerVars, dshotVars, macrosVars, imagesVars, portVars>>

RenodeSteps ==
    /\ part = "renode" /\ Renode!Next
    /\ UNCHANGED <<part, treeVars, monitorVars, artifactsVars, sourceVars, windowVars, fleetVars, linkerVars, dshotVars, macrosVars, imagesVars, portVars>>

SourceSteps ==
    /\ part = "source" /\ Source!Next
    /\ UNCHANGED <<part, treeVars, monitorVars, artifactsVars, renodeVars, windowVars, fleetVars, linkerVars, dshotVars, macrosVars, imagesVars, portVars>>

WindowSteps ==
    /\ part = "window" /\ Window!Next
    /\ UNCHANGED <<part, treeVars, monitorVars, artifactsVars, renodeVars, sourceVars, fleetVars, linkerVars, dshotVars, macrosVars, imagesVars, portVars>>

FleetSteps ==
    /\ part = "fleet" /\ Fleet!Next
    /\ UNCHANGED <<part, treeVars, monitorVars, artifactsVars, renodeVars, sourceVars, windowVars, linkerVars, dshotVars, macrosVars, imagesVars, portVars>>

LinkerSteps ==
    /\ part = "linker" /\ Linker!Next
    /\ UNCHANGED <<part, treeVars, monitorVars, artifactsVars, renodeVars, sourceVars, windowVars, fleetVars, dshotVars, macrosVars, imagesVars, portVars>>

DshotSteps ==
    /\ part = "dshot" /\ Dshot!Next
    /\ UNCHANGED <<part, treeVars, monitorVars, artifactsVars, renodeVars, sourceVars, windowVars, fleetVars, linkerVars, macrosVars, imagesVars, portVars>>

MacrosSteps ==
    /\ part = "macros" /\ Macros!Next
    /\ UNCHANGED <<part, treeVars, monitorVars, artifactsVars, renodeVars, sourceVars, windowVars, fleetVars, linkerVars, dshotVars, imagesVars, portVars>>

ImagesSteps ==
    /\ part = "images" /\ Images!Next
    /\ UNCHANGED <<part, treeVars, monitorVars, artifactsVars, renodeVars, sourceVars, windowVars, fleetVars, linkerVars, dshotVars, macrosVars, portVars>>

PortSteps ==
    /\ part = "port" /\ Port!Next
    /\ UNCHANGED <<part, treeVars, monitorVars, artifactsVars, renodeVars, sourceVars, windowVars, fleetVars, linkerVars, dshotVars, macrosVars, imagesVars>>

Next == TreeSteps \/ MonitorSteps \/ ArtifactsSteps \/ RenodeSteps \/ SourceSteps \/ WindowSteps \/ FleetSteps \/ LinkerSteps \/ DshotSteps \/ MacrosSteps \/ ImagesSteps \/ PortSteps

Spec ==
    /\ Init /\ [][Next]_vars

------------------------------------------------------------------------------
\* The types of the parts, of which a few say more: a reader holds the lock,
\* a stream keeps within its bounds.
TypesOK ==
    /\ (part = "tree" => Tree!TypeOK)
    /\ (part = "monitor" => Monitor!TypeOK)
    /\ (part = "artifacts" => Artifacts!TypeOK)
    /\ (part = "renode" => Renode!TypeOK)
    /\ (part = "source" => Source!TypeOK)
    /\ (part = "window" => Window!TypeOK)
    /\ (part = "fleet" => Fleet!TypeOK)
    /\ (part = "linker" => Linker!TypeOK)
    /\ (part = "dshot" => Dshot!TypeOK)
    /\ (part = "macros" => Macros!TypeOK)
    /\ (part = "images" => Images!TypeOK)
    /\ (part = "port" => Port!TypeOK)

\* What a process reads from a store that others write, crash over and
\* publish to fits together: an installed release is of one build, a cached
\* targets.h is what its validators stand for and is read as a C compiler
\* reads it.
StoresWhole ==
    /\ (part = "artifacts" => Artifacts!RepositoryWhole /\ Artifacts!InstallsOneBuild)
    /\ (part = "source" => Source!IndexHonest /\ Source!DocumentsHonest)
    /\ (part = "macros" => Macros!LikeC)

\* No step takes from a store what others may have begun to use, selects what
\* is not whole, or ends the stop of a process tree with more than orphans
\* left.
StepsKeep ==
    /\ Artifacts!Unlost
    /\ Renode!NeverReplaced
    /\ Renode!SelectsWhole
    /\ Tree!OnlyOrphansLeft

\* What runs is what was shown, picked and started, with panels that fit; the
\* window is never without a button that works; and a USB device owns the
\* signal wires, is the only one, and goes first.
WindowWhole ==
    /\ (part = "window" => Window!LaunchWhole /\ Window!NeverDead)
    /\ (part = "images" => Images!ShownIsUsed /\ Images!PickKept /\ Images!AutoFits)
    /\ (part = "port" => Port!RunSettled)
    /\ (part = "fleet" => Fleet!WireOwned /\ Fleet!DeviceKnown /\ Fleet!ShutdownComplete)

\* When the stop of a process tree returns, nothing of it is left.
TreeDown ==
    /\ Tree!NothingLeft

\* Each user of the monitor's connection, each client of the control port,
\* and the bridge on its one wire, acts on the answer to its own question; no
\* block is programmed twice. What goes through the input port of an ESC
\* comes out as what it was.
AnswersOwn ==
    /\ (part = "monitor" => Monitor!AnswersOwn)
    /\ (part = "port" => Port!RepliesOwn)
    /\ (part = "linker" => Linker!WritesOnce /\ Linker!EchoFirst)
    /\ (part = "dshot" => 
        /\ Dshot!FrameSound
        /\ Dshot!PayloadWhole
        /\ Dshot!DecodesTrue
        /\ Dshot!NoneTwice)

\* The comment in target_changed (gui.py:1796): a target selection replaces
\* the emulated ESC.
TargetReplaced ==
    /\ Window!TargetReplaced

------------------------------------------------------------------------------
(* Every behaviour, seen through the variables of one part, is one of that    *)
(* part's; what is proved of the part holds here.                             *)

\* What happens to the process tree is what ProcessTree says.
LEMMA TreeBehaves == Spec => Tree!Init /\ [][Tree!Next]_(Tree!vars)
  <1>1. Init => Tree!Init
    BY DEF Init
  <1>2. [Next]_vars => [Tree!Next]_(Tree!vars)
    BY DEF Next, TreeSteps, MonitorSteps, ArtifactsSteps, RenodeSteps, SourceSteps,
           WindowSteps, FleetSteps, LinkerSteps, DshotSteps, MacrosSteps, ImagesSteps,
           PortSteps, vars, treeVars, Tree!vars
  <1> QED
    BY <1>1, <1>2, PTL DEF Spec

\* When stop returns, nothing of the tree is left but what broke away from its job
\* (process.py, stop).
THEOREM TreeEnds == Spec => []TreeDown
  <1>1. Spec => []Tree!NothingLeft
    BY TreeBehaves, Tree!TreeEnds, PTL
  <1>2. Tree!NothingLeft => TreeDown
    BY DEF TreeDown
  <1> QED
    BY <1>1, <1>2, PTL

------------------------------------------------------------------------------
(* The cache of Renode packages.                                              *)

\* What happens to the cache is what RenodeCache says.
LEMMA RenodeBehaves == Spec => Renode!Init /\ [][Renode!Next]_(Renode!vars)
  <1>1. Init => Renode!Init
    BY DEF Init
  <1>2. [Next]_vars => [Renode!Next]_(Renode!vars)
    BY DEF Next, TreeSteps, MonitorSteps, ArtifactsSteps, RenodeSteps, SourceSteps,
           WindowSteps, FleetSteps, LinkerSteps, DshotSteps, MacrosSteps, ImagesSteps,
           PortSteps, vars, renodeVars, Renode!vars
  <1> QED
    BY <1>1, <1>2, PTL DEF Spec

\* A process that has put a package under a name, or found it there, selects what is
\* still whole, unless it was damaged since: no other install touches it.
RenodeStates ==
    [pc : {"out"}] \cup [pc : {"download"}, version : Nat]
    \cup [pc : {"rename", "select"}, version : Nat, name : Nat \X Nat, hurt : BOOLEAN]
RenodeInv ==
    /\ renodeLatest \in Nat /\ renodeProc \in [Processes -> RenodeStates]
    /\ \A p \in Processes :
        renodeProc[p].pc = "select" /\ ~renodeProc[p].hurt =>
            Renode!Verified(renodeProc[p].name, renodeProc[p].version)

\* An empty cache satisfies the invariant.
LEMMA RenodeInit == Renode!Init => RenodeInv
  BY DEF Renode!Init, Renode!Out, RenodeInv, RenodeStates

\* No step of an install, and no damage, breaks it.
LEMMA RenodeKeeps == RenodeInv /\ [Renode!Next]_(Renode!vars) => RenodeInv'
  <1> SUFFICES ASSUME RenodeInv, [Renode!Next]_(Renode!vars) PROVE RenodeInv'
    OBVIOUS
  <1> USE DEF RenodeInv, RenodeStates, Renode!Verified, Renode!Out
  <1>1. CASE Renode!Published
    BY <1>1 DEF Renode!Published
  <1>2. CASE Renode!Damaged
    <2>1. PICK n \in DOMAIN renodeDirs :
            /\ renodeDirs' = [renodeDirs EXCEPT ![n].whole = FALSE]
            /\ renodeProc' = [p \in Processes |->
                 IF renodeProc[p].pc = "select" /\ renodeProc[p].name = n
                 THEN [renodeProc[p] EXCEPT !.hurt = TRUE] ELSE renodeProc[p]]
      BY <1>2 DEF Renode!Damaged
    <2>2. renodeProc' \in [Processes -> RenodeStates] /\ renodeLatest' \in Nat
      <3>1. ASSUME NEW call \in RenodeStates, call.pc = "select"
            PROVE  [call EXCEPT !.hurt = TRUE] \in RenodeStates
        BY <3>1
      <3> QED
        BY <1>2, <2>1, <3>1 DEF Renode!Damaged
    <2>3. ASSUME NEW q \in Processes, renodeProc'[q].pc = "select", ~renodeProc'[q].hurt
          PROVE  renodeProc'[q] = renodeProc[q] /\ renodeProc[q].name # n
      BY <2>1, <2>3
    <2> QED
      BY <2>1, <2>2, <2>3
  <1>3. ASSUME NEW p \in Processes, Renode!Launch(p) \/ Renode!Query(p) PROVE RenodeInv'
    BY <1>3 DEF Renode!Launch, Renode!Query
  <1>4. ASSUME NEW p \in Processes, Renode!Extracted(p) PROVE RenodeInv'
    BY <1>4 DEF Renode!Extracted
  <1>5. ASSUME NEW p \in Processes, Renode!Gone(p) PROVE RenodeInv'
    BY <1>5 DEF Renode!Gone
  <1>6. ASSUME NEW p \in Processes, Renode!Rename(p) PROVE RenodeInv'
    <2> DEFINE n == renodeProc[p].name
               v == renodeProc[p].version
    <2>1. CASE n \notin DOMAIN renodeDirs
      <3>1. /\ renodeDirs' = [d \in DOMAIN renodeDirs \cup {n} |->
                    IF d = n THEN [version |-> v, whole |-> TRUE] ELSE renodeDirs[d]]
            /\ renodeProc' = [renodeProc EXCEPT ![p].pc = "select"]
        BY <1>6, <2>1 DEF Renode!Rename
      <3>2. renodeProc'[p] = [pc |-> "select", version |-> v, name |-> n,
                              hurt |-> renodeProc[p].hurt]
        BY <1>6, <3>1 DEF Renode!Rename
      <3>3. renodeProc' \in [Processes -> RenodeStates] /\ renodeLatest' \in Nat
        BY <1>6, <3>1, <3>2 DEF Renode!Rename
      <3>4. ASSUME NEW q \in Processes, renodeProc'[q].pc = "select", ~renodeProc'[q].hurt
            PROVE  Renode!Verified(renodeProc[q].name, renodeProc[q].version)'
        <4>1. CASE q = p
          BY <3>1, <4>1
        <4>2. CASE q # p
          BY <2>1, <3>1, <3>4, <4>2
        <4> QED
          BY <4>1, <4>2
      <3> QED
        BY <3>3, <3>4
    <2>2. CASE n \in DOMAIN renodeDirs
      <3>1. CASE Renode!Accepts(n, v)
        <4>1. /\ renodeProc' = [renodeProc EXCEPT ![p].pc = "select"]
              /\ UNCHANGED <<renodeDirs, renodeLatest>>
          BY <1>6, <2>2, <3>1 DEF Renode!Rename
        <4> QED
          BY <1>6, <3>1, <4>1 DEF Renode!Rename, Renode!Accepts
      <3>2. CASE ~Renode!Accepts(n, v)
        BY <1>6, <2>2, <3>2 DEF Renode!Rename
      <3> QED
        BY <3>1, <3>2
    <2> QED
      BY <2>1, <2>2
  <1>7. ASSUME NEW p \in Processes, Renode!Select(p) PROVE RenodeInv'
    BY <1>7 DEF Renode!Select
  <1>8. CASE UNCHANGED Renode!vars
    BY <1>8 DEF Renode!vars
  <1> QED
    BY <1>1, <1>2, <1>3, <1>4, <1>5, <1>6, <1>7, <1>8 DEF Renode!Next

\* No install replaces a directory that somebody may be running from, and what an
\* install selects is a whole package of its version, unless that was damaged since
\* (download.py, install_current).
LEMMA RenodeSafe == Spec => Renode!NeverReplaced /\ Renode!SelectsWhole
  <1>1. [Renode!Next]_(Renode!vars) =>
          [\A n \in DOMAIN renodeDirs : n \in DOMAIN renodeDirs'
              /\ renodeDirs'[n] \in {renodeDirs[n], [renodeDirs[n] EXCEPT !.whole = FALSE]}
          ]_(Renode!vars)
    BY DEF Renode!Next, Renode!Published, Renode!Damaged, Renode!Launch, Renode!Query,
           Renode!Extracted, Renode!Gone, Renode!Rename, Renode!Select
  <1>2. RenodeInv =>
          [\A p \in Processes :
              renodeProc[p].pc = "select" /\ renodeSelected' = {renodeProc[p].name}
                /\ ~renodeProc[p].hurt
              => Renode!Verified(renodeProc[p].name, renodeProc[p].version)]_(Renode!vars)
    BY DEF RenodeInv
  <1>3. Spec => []RenodeInv
    BY RenodeBehaves, RenodeInit, RenodeKeeps, PTL
  <1>4. Spec => Renode!NeverReplaced
    BY <1>1, RenodeBehaves, PTL DEF Renode!NeverReplaced
  <1>5. Spec => Renode!SelectsWhole
    BY <1>2, <1>3, PTL DEF Renode!SelectsWhole
  <1> QED
    BY <1>4, <1>5

------------------------------------------------------------------------------
(* The store of targets.h.                                                    *)

\* What happens to the store is what TargetsSource says.
LEMMA SourceBehaves == Spec => Source!Init /\ [][Source!Next]_(Source!vars)
  <1>1. Init => Source!Init
    BY DEF Init
  <1>2. [Next]_vars => [Source!Next]_(Source!vars)
    BY DEF Next, TreeSteps, MonitorSteps, ArtifactsSteps, RenodeSteps, SourceSteps,
           WindowSteps, FleetSteps, LinkerSteps, DshotSteps, MacrosSteps, ImagesSteps,
           PortSteps, vars, sourceVars, Source!vars, Source!store
  <1> QED
    BY <1>1, <1>2, PTL DEF Spec

\* What a call carries from one of its steps to the next.
Indexes == UNION {[S -> Headers] : S \in SUBSET Sources}
Calls == {"active", "refresh", "select"}
SourceStates ==
    [pc : {"out"}]
    \cup [pc : {"fetch"}, call : Calls, source : Sources, cached : SUBSET Headers]
    \cup [pc : {"store", "load"}, call : Calls, source : Sources, header : Headers]
    \cup [pc : {"save", "persist"}, call : Calls, source : Sources, header : Headers,
          ix : Indexes]
SourceTypes ==
    /\ DOMAIN sourceRemote = Sources /\ DOMAIN sourceWas = Sources
    /\ sourceIndex \in Indexes /\ sourceObjects \in SUBSET Headers
    /\ sourceSource \in Sources
    /\ sourceProc \in [Processes -> SourceStates]
    /\ sourceReturned \subseteq [source : Sources, header : Headers \cup {"bundled"}]

\* Every index, the one in the file and those that are about to replace it, names what
\* is stored and what its source once had; whoever is to persist a source has saved a
\* record of it, which only another's index can have lost since.
Records(ix) == \A s \in DOMAIN ix : ix[s] \in sourceObjects /\ ix[s] \in sourceWas[s]
CallInv(call) ==
    /\ call.pc \in {"store", "load", "save", "persist"} =>
         call.header \in sourceWas[call.source]
    /\ call.pc = "load" => call.header \in sourceObjects
    /\ call.pc = "save" => Records(call.ix) /\ call.source \in DOMAIN call.ix
    /\ call.pc = "persist" => call.source \in DOMAIN sourceIndex \/ sourceRaced
SourceInv ==
    /\ SourceTypes
    /\ \A s \in Sources : sourceRemote[s] \in sourceWas[s]
    /\ Records(sourceIndex)
    /\ sourceSource = Default \/ sourceSource \in DOMAIN sourceIndex \/ sourceRaced
    /\ Source!DocumentsHonest
    /\ \A p \in Processes : CallInv(sourceProc[p])

\* An empty store satisfies the invariant.
LEMMA SourceInit == Source!Init => SourceInv
  <1> SUFFICES ASSUME Source!Init PROVE SourceInv
    OBVIOUS
  <1>1. sourceIndex = <<>> /\ DOMAIN sourceIndex = {} /\ sourceIndex \in Indexes
    <2>1. sourceIndex = <<>>
      BY DEF Source!Init
    <2>2. \A f : f = <<>> => DOMAIN f = {} /\ f \in [{} -> Headers]
      OBVIOUS
    <2> QED
      BY <2>1, <2>2 DEF Indexes
  <1> QED
    BY <1>1, HostAssumption
    DEF Source!Init, Source!Out, SourceInv, SourceTypes, SourceStates, Records, CallInv,
        Source!DocumentsHonest

\* The types go first.
LEMMA SourceTyped == SourceTypes /\ [Source!Next]_(Source!vars) => SourceTypes'
  <1> SUFFICES ASSUME SourceTypes, [Source!Next]_(Source!vars) PROVE SourceTypes'
    OBVIOUS
  <1> USE DEF SourceTypes, SourceStates, Calls, Source!Out, Source!store
  <1>1. CASE Source!Changes
    BY <1>1 DEF Source!Changes
  <1>2. ASSUME NEW s \in Sources PROVE Source!CachedIn(sourceIndex, s) \in SUBSET Headers
    BY DEF Source!CachedIn
  <1> DEFINE Typed == /\ sourceProc \in [Processes -> SourceStates]
                      /\ sourceReturned \subseteq
                           [source : Sources, header : Headers \cup {"bundled"}]
  <1>3. ASSUME NEW p \in Processes, NEW s \in Sources, NEW h \in Headers \cup {"bundled"},
               Source!Returns(p, s, h)
        PROVE  Typed'
    BY <1>3 DEF Source!Returns
  <1>4. ASSUME NEW p \in Processes, Source!Raises(p) PROVE Typed'
    BY <1>4 DEF Source!Raises
  <1>5. ASSUME NEW p \in Processes, Source!Fails(p) PROVE Typed'
    BY <1>3, <1>4, <1>5, HostAssumption DEF Source!Fails
  <1>6. ASSUME NEW p \in Processes, Source!Active(p) PROVE SourceTypes'
    BY <1>2, <1>3, <1>6 DEF Source!Active
  <1>7. ASSUME NEW p \in Processes, Source!Begin(p) PROVE SourceTypes'
    BY <1>2, <1>7 DEF Source!Begin
  <1>8. ASSUME NEW p \in Processes, Source!FetchFails(p) PROVE SourceTypes'
    BY <1>5, <1>8 DEF Source!FetchFails
  <1>9. ASSUME NEW p \in Processes, Source!NotModified(p) PROVE SourceTypes'
    BY <1>5, <1>9 DEF Source!NotModified
  <1>10. ASSUME NEW p \in Processes, Source!Receive(p) PROVE SourceTypes'
    BY <1>5, <1>10 DEF Source!Receive
  <1>11. ASSUME NEW p \in Processes, Source!Store(p) PROVE SourceTypes'
    BY <1>11 DEF Source!Store
  <1>12. ASSUME NEW p \in Processes, Source!Load(p) PROVE SourceTypes'
    <2> DEFINE c == sourceProc[p]
               ix == [s \in DOMAIN sourceIndex \cup {c.source} |->
                        IF s = c.source THEN c.header ELSE sourceIndex[s]]
    <2>1. /\ c \in [pc : {"load"}, call : Calls, source : Sources, header : Headers]
          /\ UNCHANGED <<sourceRemote, sourceWas, sourceIndex, sourceObjects, sourceSource,
                         sourceReturned>>
          /\ sourceProc' = [sourceProc EXCEPT ![p] = [pc |-> "save", call |-> c.call,
                 source |-> c.source, header |-> c.header, ix |-> ix]]
      BY <1>12 DEF Source!Load
    <2>2. ix \in Indexes
      <3>1. DOMAIN sourceIndex \in SUBSET Sources /\ sourceIndex \in [DOMAIN sourceIndex -> Headers]
        BY DEF Indexes
      <3>2. /\ DOMAIN sourceIndex \cup {c.source} \in SUBSET Sources
            /\ ix \in [DOMAIN sourceIndex \cup {c.source} -> Headers]
        BY <2>1, <3>1
      <3> QED
        BY <3>2 DEF Indexes
    <2> QED
      BY <2>1, <2>2
  <1>13. ASSUME NEW p \in Processes, Source!Save(p) PROVE SourceTypes'
    BY <1>3, <1>13 DEF Source!Save
  <1>14. ASSUME NEW p \in Processes, Source!Persist(p) PROVE SourceTypes'
    BY <1>3, <1>14 DEF Source!Persist
  <1>15. ASSUME NEW p \in Processes, Source!Dies(p) PROVE SourceTypes'
    BY <1>4, <1>15 DEF Source!Dies
  <1>16. CASE UNCHANGED Source!vars
    BY <1>16 DEF Source!vars
  <1> QED
    BY <1>1, <1>6, <1>7, <1>8, <1>9, <1>10, <1>11, <1>12, <1>13, <1>14, <1>15, <1>16
    DEF Source!Next

\* What a store has, and what a source once had, stays.
LEMMA SourceGrows ==
    ASSUME SourceTypes, [Source!Next]_(Source!vars)
    PROVE  /\ sourceObjects \subseteq sourceObjects'
           /\ \A s \in Sources : sourceWas[s] \subseteq sourceWas'[s]
           /\ \A s \in DOMAIN sourceIndex :
                s \in DOMAIN sourceIndex' \/ sourceRaced'
           /\ sourceRaced => sourceRaced'
  <1> USE DEF SourceTypes, Source!store, Source!Returns, Source!Raises, Source!Fails
  <1>1. CASE Source!Changes
    BY <1>1 DEF Source!Changes
  <1>2. ASSUME NEW p \in Processes, Source!Save(p)
        PROVE  /\ UNCHANGED <<sourceObjects, sourceWas>>
               /\ sourceRaced => sourceRaced'
               /\ \A s \in DOMAIN sourceIndex :
                    s \in DOMAIN sourceIndex' \/ sourceRaced'
    BY <1>2 DEF Source!Save
  <1>3. ASSUME NEW p \in Processes, Source!Store(p)
        PROVE  /\ UNCHANGED <<sourceIndex, sourceWas, sourceRaced>>
               /\ sourceObjects \subseteq sourceObjects'
    BY <1>3 DEF Source!Store
  <1>4. ASSUME NEW p \in Processes,
               \/ Source!Active(p) \/ Source!Begin(p) \/ Source!FetchFails(p)
               \/ Source!NotModified(p) \/ Source!Receive(p) \/ Source!Load(p)
               \/ Source!Persist(p) \/ Source!Dies(p)
        PROVE  UNCHANGED <<sourceIndex, sourceObjects, sourceWas, sourceRaced>>
    BY <1>4 DEF Source!Active, Source!Begin, Source!FetchFails, Source!NotModified,
                Source!Receive, Source!Load, Source!Persist, Source!Dies
  <1>5. CASE UNCHANGED Source!vars
    BY <1>5 DEF Source!vars
  <1> QED
    BY <1>1, <1>2, <1>3, <1>4, <1>5 DEF Source!Next

\* So what an index says, and what a call knows, stays true, whatever others do.
LEMMA StaysTrue ==
    ASSUME SourceTypes, [Source!Next]_(Source!vars), NEW call \in SourceStates
    PROVE  /\ \A ix \in Indexes : Records(ix) => Records(ix)'
           /\ CallInv(call) => CallInv(call)'
  <1>1. ASSUME NEW ix \in Indexes, Records(ix) PROVE Records(ix)'
    BY <1>1, SourceGrows DEF Records, Indexes
  <1>2. ASSUME CallInv(call) PROVE CallInv(call)'
    <2>1. call.pc = "save" => call.ix \in Indexes
      BY DEF SourceStates
    <2>2. call.pc \in {"store", "load", "save", "persist"} => call.source \in Sources
      BY DEF SourceStates
    <2> QED
      BY <1>1, <1>2, <2>1, <2>2, SourceGrows DEF CallInv
  <1> QED
    BY <1>1, <1>2

\* The call that takes the step knows what it is to know next.
LEMMA CallKeeps ==
    ASSUME SourceInv, SourceTypes', NEW p \in Processes,
           \/ Source!Active(p) \/ Source!Begin(p) \/ Source!FetchFails(p)
           \/ Source!NotModified(p) \/ Source!Receive(p) \/ Source!Store(p)
           \/ Source!Load(p) \/ Source!Save(p) \/ Source!Persist(p) \/ Source!Dies(p)
    PROVE  /\ \E call : sourceProc' = [sourceProc EXCEPT ![p] = call]
           /\ CallInv(sourceProc[p])'
  <1> USE DEF SourceInv, SourceTypes, CallInv, SourceStates, Source!store, Source!Out
  <1>1. ASSUME NEW s, NEW h, Source!Returns(p, s, h)
        PROVE  sourceProc' = [sourceProc EXCEPT ![p] = [pc |-> "out"]]
    BY <1>1 DEF Source!Returns
  <1>2. ASSUME Source!Raises(p)
        PROVE  sourceProc' = [sourceProc EXCEPT ![p] = [pc |-> "out"]]
    BY <1>2 DEF Source!Raises
  <1>3. ASSUME Source!Fails(p)
        PROVE  sourceProc' = [sourceProc EXCEPT ![p] = [pc |-> "out"]]
    BY <1>1, <1>2, <1>3 DEF Source!Fails
  <1>4. ASSUME sourceProc' = [sourceProc EXCEPT ![p] = [pc |-> "out"]]
        PROVE  /\ \E call : sourceProc' = [sourceProc EXCEPT ![p] = call]
               /\ CallInv(sourceProc[p])'
    BY <1>4
  <1>5. CASE Source!Active(p) \/ Source!Dies(p) \/ Source!FetchFails(p) \/ Source!Persist(p)
    BY <1>1, <1>2, <1>3, <1>4, <1>5
    DEF Source!Active, Source!Dies, Source!FetchFails, Source!Persist
  <1>6. CASE Source!Begin(p)
    <2>1. PICK call, s : sourceProc' = [sourceProc EXCEPT ![p] =
                        [pc |-> "fetch", call |-> call, source |-> s,
                         cached |-> Source!CachedIn(sourceIndex, s)]]
      BY <1>6 DEF Source!Begin
    <2>2. sourceProc'[p].pc = "fetch"
      BY <2>1
    <2> QED
      BY <2>1, <2>2
  <1>7. CASE Source!NotModified(p)
    BY <1>3, <1>4, <1>7 DEF Source!NotModified, Records
  <1>8. CASE Source!Receive(p)
    BY <1>3, <1>4, <1>8 DEF Source!Receive
  <1>9. CASE Source!Store(p)
    BY <1>9 DEF Source!Store
  <1>10. CASE Source!Load(p)
    BY <1>10 DEF Source!Load, Records
  <1>11. CASE Source!Save(p)
    BY <1>1, <1>4, <1>11 DEF Source!Save
  <1> QED
    BY <1>5, <1>6, <1>7, <1>8, <1>9, <1>10, <1>11

\* What is returned comes from the source it says, or from the package.
LEMMA DocumentsKeep ==
    ASSUME SourceInv, SourceTypes', [Source!Next]_(Source!vars)
    PROVE  Source!DocumentsHonest'
  <1> USE DEF SourceTypes, Source!store
  <1> DEFINE Known(s, h) ==
                 (h \in sourceWas[s] \ {"bad"}) \/ (h = "bundled" /\ s = Default)
             Honest == \A d \in sourceReturned : Known(d.source, d.header)
  <1>1. (Honest = Source!DocumentsHonest) /\ (Honest = Source!DocumentsHonest)'
    BY DEF Source!DocumentsHonest
  <1>2. ASSUME NEW s \in Sources, NEW h, Known(s, h) PROVE Known(s, h)'
    BY <1>2, SourceGrows DEF SourceInv
  <1>3. ASSUME NEW p, NEW s \in Sources, NEW h, Known(s, h), Source!Returns(p, s, h)
        PROVE  Honest'
    BY <1>2, <1>3 DEF Source!Returns
  <1>4. ASSUME NEW p, Source!Raises(p) PROVE Honest'
    BY <1>4 DEF Source!Raises
  <1>5. ASSUME NEW p, Source!Fails(p) PROVE Honest'
    BY <1>3, <1>4, <1>5, HostAssumption DEF Source!Fails
  <1>6. ASSUME UNCHANGED sourceReturned PROVE Honest'
    <2>1. Honest
      BY <1>1 DEF SourceInv
    <2> QED
      BY <1>2, <1>6, <2>1
  <1>7. ASSUME NEW p \in Processes, Source!Active(p) PROVE Honest'
    <2>1. PICK h \in Source!CachedIn(sourceIndex, sourceSource) :
            Source!Returns(p, sourceSource, h)
      BY <1>7 DEF Source!Active
    <2>2. h \in sourceWas[sourceSource] /\ h \in Headers /\ sourceSource \in Sources
      BY DEF Source!CachedIn, SourceInv, Records
    <2>3. Known(sourceSource, h)
      BY <2>2, HostAssumption
    <2> QED
      BY <1>3, <2>1, <2>2, <2>3
  <1>8. ASSUME NEW p \in Processes, Source!Begin(p) PROVE Honest'
    BY <1>8 DEF Source!Begin
  <1>9. ASSUME NEW p \in Processes,
               Source!FetchFails(p) \/ Source!NotModified(p) \/ Source!Receive(p)
        PROVE  Honest'
    BY <1>5, <1>6, <1>9 DEF Source!FetchFails, Source!NotModified, Source!Receive
  <1>10. ASSUME NEW p \in Processes, Source!Save(p) \/ Source!Persist(p) PROVE Honest'
    <2>1. /\ sourceProc[p].source \in Sources /\ sourceProc[p].header \in Headers
          /\ sourceProc[p].header \in sourceWas[sourceProc[p].source]
      BY <1>10 DEF SourceInv, SourceStates, CallInv, Source!Save, Source!Persist
    <2>2. Known(sourceProc[p].source, sourceProc[p].header)
      BY <2>1, HostAssumption
    <2> QED
      BY <1>3, <1>6, <1>10, <2>1, <2>2 DEF Source!Save, Source!Persist
  <1>11. ASSUME NEW p \in Processes, Source!Dies(p) PROVE Honest'
    BY <1>4, <1>11 DEF Source!Dies
  <1>12. ASSUME NEW p \in Processes, Source!Store(p) \/ Source!Load(p) PROVE Honest'
    BY <1>6, <1>12 DEF Source!Store, Source!Load
  <1>13. CASE Source!Changes \/ UNCHANGED Source!vars
    <2>1. UNCHANGED sourceReturned
      BY <1>13 DEF Source!Changes, Source!vars
    <2> QED
      BY <1>1, <1>6, <2>1
  <1> QED
    BY <1>1, <1>7, <1>8, <1>9, <1>10, <1>11, <1>12, <1>13 DEF Source!Next

\* No step of a call, of another's call, or of a source breaks the invariant.
LEMMA SourceKeeps == SourceInv /\ [Source!Next]_(Source!vars) => SourceInv'
  <1> SUFFICES ASSUME SourceInv, [Source!Next]_(Source!vars) PROVE SourceInv'
    OBVIOUS
  <1> DEFINE Step(p) ==
        \/ Source!Active(p) \/ Source!Begin(p) \/ Source!FetchFails(p)
        \/ Source!NotModified(p) \/ Source!Receive(p) \/ Source!Store(p)
        \/ Source!Load(p) \/ Source!Save(p) \/ Source!Persist(p) \/ Source!Dies(p)
  <1>1. SourceTypes /\ SourceTypes'
    BY SourceTyped DEF SourceInv
  <1>2. \/ \E p \in Processes : Step(p)
        \/ Source!Changes
        \/ UNCHANGED Source!vars
    BY DEF Source!Next
  <1>3. (\A s \in Sources : sourceRemote[s] \in sourceWas[s])'
    <2>1. ASSUME NEW p \in Processes, Step(p)
          PROVE  UNCHANGED <<sourceRemote, sourceWas>>
      BY <2>1 DEF Source!Active, Source!Begin, Source!FetchFails, Source!NotModified,
                  Source!Receive, Source!Store, Source!Load, Source!Save, Source!Persist,
                  Source!Dies
    <2>2. CASE Source!Changes
      BY <1>1, <2>2 DEF SourceInv, SourceTypes, Source!Changes
    <2>3. CASE UNCHANGED <<sourceRemote, sourceWas>>
      BY <2>3 DEF SourceInv
    <2> QED
      BY <1>2, <2>1, <2>2, <2>3 DEF Source!vars
  <1>4. \/ UNCHANGED sourceIndex
        \/ \E p \in Processes : /\ sourceProc[p].pc = "save"
                                /\ sourceIndex' = sourceProc[p].ix
    BY <1>2 DEF Source!Active, Source!Begin, Source!FetchFails, Source!NotModified,
                Source!Receive, Source!Store, Source!Load, Source!Save, Source!Persist,
                Source!Dies, Source!Changes, Source!vars, Source!store
  <1>5. Records(sourceIndex)'
    <2>1. PICK ix : ix = sourceIndex'
      OBVIOUS
    <2>2. Records(ix) /\ ix \in Indexes
      BY <1>1, <1>4, <2>1 DEF SourceInv, SourceTypes, SourceStates, CallInv
    <2>3. Records(ix)'
      BY <1>1, <2>2, StaysTrue, [pc |-> "out"] \in SourceStates DEF SourceStates
    <2> QED
      BY <2>1, <2>3 DEF Records
  <1>6. (sourceSource = Default \/ sourceSource \in DOMAIN sourceIndex \/ sourceRaced)'
    <2>1. \/ UNCHANGED sourceSource
          \/ \E p \in Processes : /\ sourceProc[p].pc = "persist"
                                  /\ sourceSource' = sourceProc[p].source
      BY <1>2 DEF Source!Active, Source!Begin, Source!FetchFails, Source!NotModified,
                  Source!Receive, Source!Store, Source!Load, Source!Save, Source!Persist,
                  Source!Dies, Source!Changes, Source!vars, Source!store
    <2>2. sourceSource' = Default \/ sourceSource' \in DOMAIN sourceIndex \/ sourceRaced
      BY <2>1 DEF SourceInv, CallInv
    <2> QED
      BY <1>1, <2>2, SourceGrows
  <1>7. Source!DocumentsHonest'
    BY <1>1, DocumentsKeep
  <1>8. (\A p \in Processes : CallInv(sourceProc[p]))'
    <2>1. ASSUME NEW q \in Processes, sourceProc'[q] = sourceProc[q]
          PROVE  CallInv(sourceProc[q])'
      <3>1. PICK call : call = sourceProc[q]
        OBVIOUS
      <3>2. call \in SourceStates /\ CallInv(call)
        BY <1>1, <3>1 DEF SourceTypes, SourceInv
      <3>3. CallInv(call)'
        BY <1>1, <3>2, StaysTrue
      <3> QED
        BY <2>1, <3>1, <3>3
    <2>2. ASSUME NEW p \in Processes, Step(p)
          PROVE  \A q \in Processes : CallInv(sourceProc[q])'
      <3>1. /\ \E call : sourceProc' = [sourceProc EXCEPT ![p] = call]
            /\ CallInv(sourceProc[p])'
        BY <1>1, <2>2, CallKeeps
      <3> QED
        BY <1>1, <2>1, <3>1 DEF SourceTypes
    <2>3. CASE Source!Changes \/ UNCHANGED Source!vars
      BY <2>1, <2>3 DEF Source!Changes, Source!vars
    <2> QED
      BY <1>2, <2>2, <2>3
  <1> QED
    BY <1>1, <1>3, <1>5, <1>6, <1>7, <1>8 DEF SourceInv

\* Whoever races and whoever dies, the index names what is stored, and a document
\* comes from the source it says (source.py, TargetSourceManager).
LEMMA SourceHonest == Spec => [](Source!IndexHonest /\ Source!DocumentsHonest)
  <1>1. SourceInv => Source!IndexHonest /\ Source!DocumentsHonest
    BY DEF SourceInv, Records, Source!IndexHonest
  <1> QED
    BY <1>1, SourceBehaves, SourceInit, SourceKeeps, PTL

------------------------------------------------------------------------------
(* The repository of artifacts and its client.                                *)

\* What happens to the repository is what ArtifactRepository says.
LEMMA ArtifactsBehave == Spec => Artifacts!Init /\ [][Artifacts!Next]_(Artifacts!vars)
  <1>1. Init => Artifacts!Init
    BY DEF Init
  <1>2. [Next]_vars => [Artifacts!Next]_(Artifacts!vars)
    BY DEF Next, TreeSteps, MonitorSteps, ArtifactsSteps, RenodeSteps, SourceSteps,
           WindowSteps, FleetSteps, LinkerSteps, DshotSteps, MacrosSteps, ImagesSteps,
           PortSteps, vars, artifactsVars, Artifacts!vars, Artifacts!root, Artifacts!cache
  <1> QED
    BY <1>1, <1>2, PTL DEF Spec

\* Maps from a part of S, of which one entry is put or replaced at a time.
Maps(S, T) == UNION {[D -> T] : D \in SUBSET S}
LEMMA WithMap ==
    ASSUME NEW S, NEW T, NEW map \in Maps(S, T), NEW key \in S, NEW c \in T
    PROVE  Artifacts!With(map, key, c) \in Maps(S, T)
  <1> DEFINE with == Artifacts!With(map, key, c)
  <1>1. PICK D \in SUBSET S : map \in [D -> T]
    BY DEF Maps
  <1>2. with = [k \in D \cup {key} |-> IF k = key THEN c ELSE map[k]]
    BY <1>1 DEF Artifacts!With
  <1>3. with \in [D \cup {key} -> T] /\ D \cup {key} \in SUBSET S
    BY <1>1, <1>2
  <1> HIDE DEF with
  <1> QED
    BY <1>3 DEF Maps, with

\* The empty one.
LEMMA EmptyMap ==
    ASSUME NEW S, NEW T, NEW map, map = <<>>
    PROVE  map \in Maps(S, T) /\ DOMAIN map = {}
  <1>1. DOMAIN map = {} /\ map \in [{} -> T]
    OBVIOUS
  <1> QED
    BY <1>1 DEF Maps

\* The state of the repository, of its publishers and of its client.
PartNames == {"elf", "hex", "header", "sitl"}
Contents == [load : {"x", "y"} \cup PartNames, debug : 0..2]
ManifestMaps == Maps(PartNames, Contents)
FileMaps == Maps(ReleaseNames \X PartNames, Contents)
Todos == {<<"elf", "hex", "header">>, <<"hex", "header">>, <<"header">>, <<"elf", "hex">>,
          <<"verify", "hex">>, <<"hex">>, <<>>}
JobStates ==
    {[kind |-> "none"]}
    \cup [kind : {"build", "augment", "written"}, rel : ReleaseNames, build : Artifacts!Builds,
          todo : Todos, channel : Channels \cup {"nightly"}, man : ManifestMaps,
          cat : Maps(ReleaseNames, SUBSET {"t", "sitl"})]
ClientStates ==
    {[pc |-> "idle"]}
    \cup [pc : {"catalog", "manifest"}, rel : ReleaseNames, format : {"elf", "hex", "refresh"}]
    \cup [pc : {"download"}, rel : ReleaseNames, man : ManifestMaps, todo : Seq(PartNames)]
RepositoryTypes ==
    /\ artifactsProject \in {"firmware", "bootloader"}
    /\ artifactsFiles \in FileMaps /\ artifactsManifests \in Maps(ReleaseNames, ManifestMaps)
    /\ artifactsCatalog \in Maps(ReleaseNames, SUBSET {"t", "sitl"})
    /\ artifactsJob \in [Processes -> JobStates]
ClientTypes ==
    /\ artifactsCmanifests \in Maps(ReleaseNames, ManifestMaps) /\ artifactsCobjects \in FileMaps
    /\ artifactsClient \in ClientStates /\ artifactsGot \in ManifestMaps

\* What a part of a build is.
LEMMA ContentTyped ==
    ASSUME NEW name \in PartNames, NEW b \in Artifacts!Builds
    PROVE  /\ Artifacts!Content(name, b) \in Contents
           /\ Artifacts!Content("elf", b) = b
           /\ Artifacts!Content("hex", b).load = b.load
  BY DEF Artifacts!Content, Artifacts!Hex, Artifacts!Builds, PartNames, Contents

\* A publisher's list gets shorter from the front.
LEMMA TodoTyped ==
    ASSUME NEW todo \in Todos, todo # <<>>
    PROVE  /\ Head(todo) \in {"elf", "hex", "header", "verify"} /\ Tail(todo) \in Todos
           /\ Head(todo) = "elf" <=> todo \in {<<"elf", "hex", "header">>, <<"elf", "hex">>}
           /\ Head(todo) = "verify" <=> todo = <<"verify", "hex">>
           /\ Tail(todo) \notin {<<"elf", "hex", "header">>, <<"elf", "hex">>,
                                 <<"verify", "hex">>}
           /\ todo = <<"verify", "hex">> => Tail(todo) = <<"hex">>
           /\ todo = <<"hex">> => Tail(todo) = <<>>
  <1>1. CASE todo = <<"elf", "hex", "header">>
    BY <1>1 DEF Todos
  <1>2. CASE todo = <<"hex", "header">>
    BY <1>2 DEF Todos
  <1>3. CASE todo = <<"header">>
    BY <1>3 DEF Todos
  <1>4. CASE todo = <<"elf", "hex">>
    BY <1>4 DEF Todos
  <1>5. CASE todo = <<"verify", "hex">>
    BY <1>5 DEF Todos
  <1>6. CASE todo = <<"hex">>
    BY <1>6 DEF Todos
  <1> QED
    BY <1>1, <1>2, <1>3, <1>4, <1>5, <1>6 DEF Todos

\* Whatever a manifest names is there with the content it names; a release with a HEX
\* image has the ELF of the same build.  A publisher has read the catalog as it is, has
\* published what its manifest names so far, the ELF first, and is the only one.
NoJob == [kind |-> "none"]
NewBuild == {<<"elf", "hex", "header">>, <<"elf", "hex">>}
Backed(r, man) ==
    \A name \in DOMAIN man : /\ <<r, name>> \in DOMAIN artifactsFiles
                             /\ artifactsFiles[<<r, name>>] = man[name]
Whole(r, man) == "elf" \in DOMAIN man /\ Backed(r, man)
Paired ==
    \A r \in ReleaseNames : <<r, "hex">> \in DOMAIN artifactsFiles =>
        /\ <<r, "elf">> \in DOMAIN artifactsFiles
        /\ artifactsFiles[<<r, "elf">>].load = artifactsFiles[<<r, "hex">>].load
PublisherInv(j) ==
    j # NoJob =>
      /\ j.cat = artifactsCatalog /\ Backed(j.rel, j.man)
      /\ j.kind = "build" => j.todo # <<"verify", "hex">>
      /\ j.kind = "build" /\ j.todo \notin NewBuild =>
           "elf" \in DOMAIN j.man /\ j.man["elf"].load = j.build.load
      /\ j.kind = "augment" =>
           /\ j.todo \in {<<"verify", "hex">>, <<"hex">>, <<>>} /\ "elf" \in DOMAIN j.man
           /\ j.todo # <<"verify", "hex">> => j.man["elf"].load = j.build.load
      /\ j.kind = "written" => j.todo = <<>> /\ j.rel \in DOMAIN artifactsManifests
RepositoryInv ==
    /\ RepositoryTypes
    /\ Paired
    /\ \A r \in DOMAIN artifactsManifests : Whole(r, artifactsManifests[r])
    /\ DOMAIN artifactsCatalog \subseteq DOMAIN artifactsManifests
    /\ artifactsStable \subseteq DOMAIN artifactsCatalog
    /\ \A p \in Processes : /\ artifactsJob[p] # NoJob => artifactsLock = p
                            /\ PublisherInv(artifactsJob[p])

\* The files of the repository stay, and the releases of its catalog.
FilesStay ==
    \A f \in DOMAIN artifactsFiles : /\ f \in DOMAIN artifactsFiles'
                                     /\ artifactsFiles'[f] = artifactsFiles[f]

\* So what a manifest names stays.
LEMMA BackedStays ==
    ASSUME FilesStay, NEW r, NEW man, Backed(r, man)
    PROVE  Backed(r, man)'
  BY DEF FilesStay, Backed

\* The repository starts with one release that has no HEX image.
LEMMA RepositoryInit == Artifacts!Init => RepositoryInv
  <1> SUFFICES ASSUME Artifacts!Init PROVE RepositoryInv
    OBVIOUS
  <1> DEFINE b == [load |-> "x", debug |-> 1]
             old == IF artifactsProject = "firmware" THEN {"elf", "header"} ELSE {"elf", "sitl"}
             man == [name \in old |-> Artifacts!Content(name, b)]
  <1>1. /\ artifactsProject \in {"firmware", "bootloader"}
        /\ artifactsFiles = [f \in {Legacy} \X old |-> Artifacts!Content(f[2], b)]
        /\ artifactsManifests = [r \in {Legacy} |-> man]
        /\ artifactsCatalog = [r \in {Legacy} |->
                                 IF "sitl" \in old THEN {"t", "sitl"} ELSE {"t"}]
        /\ artifactsStable = {} /\ artifactsJob = [p \in Processes |-> NoJob]
    BY DEF Artifacts!Init, Artifacts!Projects, Artifacts!None, NoJob
  <1>2. old \subseteq PartNames /\ "elf" \in old /\ "hex" \notin old /\ b \in Artifacts!Builds
    BY DEF PartNames, Artifacts!Builds
  <1>3. \A name \in old : Artifacts!Content(name, b) \in Contents
    BY <1>2, ContentTyped
  <1> HIDE DEF b, old
  <1>4. man \in ManifestMaps
    BY <1>2, <1>3 DEF ManifestMaps, Maps
  <1>5. artifactsFiles \in FileMaps
    <2>1. {Legacy} \X old \in SUBSET (ReleaseNames \X PartNames)
      BY <1>2, HostAssumption
    <2>2. artifactsFiles \in [{Legacy} \X old -> Contents]
      BY <1>1, <1>3
    <2> QED
      BY <2>1, <2>2 DEF FileMaps, Maps
  <1>6. artifactsManifests \in Maps(ReleaseNames, ManifestMaps)
    <2>1. artifactsManifests \in [{Legacy} -> ManifestMaps]
      BY <1>1, <1>4
    <2> QED
      BY <2>1, HostAssumption DEF Maps
  <1>7. artifactsCatalog \in Maps(ReleaseNames, SUBSET {"t", "sitl"})
    BY <1>1, HostAssumption DEF Maps
  <1>8. RepositoryTypes
    BY <1>1, <1>5, <1>6, <1>7 DEF RepositoryTypes, JobStates, NoJob
  <1>9. Paired /\ Whole(Legacy, man)
    BY <1>1, <1>2 DEF Paired, Whole, Backed
  <1> QED
    BY <1>1, <1>8, <1>9 DEF RepositoryInv, PublisherInv

\* A publisher that holds the lock, or takes it, is the only one that is at work.
LEMMA OneJob ==
    ASSUME RepositoryInv, NEW p \in Processes, NEW j \in JobStates,
           artifactsLock \in {p, "free"}, artifactsJob' = [artifactsJob EXCEPT ![p] = j],
           j # NoJob => artifactsLock' = p, PublisherInv(j)'
    PROVE  /\ artifactsJob' \in [Processes -> JobStates]
           /\ \A q \in Processes : /\ artifactsJob'[q] # NoJob => artifactsLock' = q
                                   /\ PublisherInv(artifactsJob[q])'
  <1>1. \A q \in Processes : q # p => artifactsJob[q] = NoJob
    BY HostAssumption DEF RepositoryInv
  <1>2. \A q \in Processes : q # p => artifactsJob'[q] = NoJob
    BY <1>1 DEF RepositoryInv, RepositoryTypes
  <1>3. artifactsJob'[p] = j
    BY DEF RepositoryInv, RepositoryTypes
  <1>4. artifactsJob' \in [Processes -> JobStates]
    BY DEF RepositoryInv, RepositoryTypes
  <1>5. ASSUME NEW q \in Processes, q # p PROVE PublisherInv(artifactsJob[q])'
    BY <1>2, <1>5 DEF PublisherInv
  <1>6. PublisherInv(artifactsJob[p])'
    BY <1>3 DEF PublisherInv
  <1> QED
    BY <1>2, <1>3, <1>4, <1>5, <1>6

\* A publisher begins, under the lock.
LEMMA BeginKeeps ==
    ASSUME RepositoryInv, NEW p \in Processes,
           Artifacts!BeginBuild(p) \/ Artifacts!BeginAugment(p)
    PROVE  RepositoryInv' /\ FilesStay
  <1> USE DEF Artifacts!root, Artifacts!None, NoJob, Artifacts!Locks
  <1>1. /\ UNCHANGED <<artifactsProject, artifactsFiles, artifactsManifests,
                       artifactsCatalog, artifactsStable>>
        /\ artifactsLock = "free" /\ artifactsLock' = p
    BY DEF Artifacts!BeginBuild, Artifacts!BeginAugment
  <1>2. ASSUME NEW j \in JobStates, artifactsJob' = [artifactsJob EXCEPT ![p] = j],
               PublisherInv(j)
        PROVE  RepositoryInv'
    <2>1. PublisherInv(j)'
      BY <1>1, <1>2 DEF PublisherInv, Backed
    <2>2. /\ artifactsJob' \in [Processes -> JobStates]
          /\ \A q \in Processes : /\ artifactsJob'[q] # NoJob => artifactsLock' = q
                                  /\ PublisherInv(artifactsJob[q])'
      BY <1>1, <1>2, <2>1, OneJob
    <2> QED
      BY <1>1, <2>2 DEF RepositoryInv, RepositoryTypes, Paired, Whole, Backed
  <1>3. CASE Artifacts!BeginBuild(p)
    <2>1. PICK r \in ReleaseNames, b \in Artifacts!Builds, c \in Channels :
            artifactsJob' = [artifactsJob EXCEPT ![p] =
                [kind |-> "build", rel |-> r, build |-> b, todo |-> Artifacts!Parts,
                 channel |-> c, man |-> <<>>, cat |-> artifactsCatalog]]
      BY <1>3 DEF Artifacts!BeginBuild
    <2>2. Artifacts!Parts \in Todos /\ Artifacts!Parts \in NewBuild
      BY DEF Artifacts!Parts, Todos, NewBuild
    <2>3. PICK none : none = <<>> /\ none \in ManifestMaps /\ DOMAIN none = {}
      BY EmptyMap DEF ManifestMaps
    <2> DEFINE j == [kind |-> "build", rel |-> r, build |-> b, todo |-> Artifacts!Parts,
                     channel |-> c, man |-> none, cat |-> artifactsCatalog]
    <2>4. j \in JobStates
      BY <2>2, <2>3 DEF JobStates, RepositoryInv, RepositoryTypes
    <2>5. PublisherInv(j)
      BY <2>2, <2>3 DEF PublisherInv, Backed, NewBuild
    <2>6. artifactsJob' = [artifactsJob EXCEPT ![p] = j]
      BY <2>1, <2>3
    <2> HIDE DEF j
    <2> QED
      BY <1>1, <1>2, <2>4, <2>5, <2>6 DEF FilesStay
  <1>4. CASE Artifacts!BeginAugment(p)
    <2>1. PICK r \in DOMAIN artifactsCatalog, b \in Artifacts!Builds :
            artifactsJob' = [artifactsJob EXCEPT ![p] =
                [kind |-> "augment", rel |-> r, build |-> b, todo |-> <<"verify", "hex">>,
                 channel |-> "nightly",
                 man |-> [name \in DOMAIN artifactsManifests[r] \ {"sitl"} |->
                            artifactsManifests[r][name]],
                 cat |-> artifactsCatalog]]
      BY <1>4 DEF Artifacts!BeginAugment
    <2>2. PICK man : man = [name \in DOMAIN artifactsManifests[r] \ {"sitl"} |->
                              artifactsManifests[r][name]]
      OBVIOUS
    <2>3. /\ r \in ReleaseNames /\ Whole(r, artifactsManifests[r])
          /\ artifactsManifests[r] \in ManifestMaps
      BY DEF RepositoryInv, RepositoryTypes, Maps
    <2>4. man \in ManifestMaps
      BY <2>2, <2>3 DEF ManifestMaps, Maps
    <2>5. Backed(r, man) /\ "elf" \in DOMAIN man
      BY <2>2, <2>3 DEF Whole, Backed
    <2> DEFINE j == [kind |-> "augment", rel |-> r, build |-> b,
                     todo |-> <<"verify", "hex">>, channel |-> "nightly", man |-> man,
                     cat |-> artifactsCatalog]
    <2>6. j \in JobStates
      BY <2>3, <2>4 DEF JobStates, Todos, RepositoryInv, RepositoryTypes
    <2>7. PublisherInv(j)
      BY <2>5 DEF PublisherInv
    <2>8. artifactsJob' = [artifactsJob EXCEPT ![p] = j]
      BY <2>1, <2>2
    <2> HIDE DEF j
    <2> QED
      BY <1>1, <1>2, <2>6, <2>7, <2>8 DEF FilesStay
  <1> QED
    BY <1>1, <1>3, <1>4 DEF FilesStay

\* It ends, or dies, and gives up the lock.
LEMMA EndKeeps ==
    ASSUME RepositoryInv, NEW p \in Processes, artifactsJob[p] # NoJob, Artifacts!Ends(p),
           UNCHANGED <<artifactsProject, artifactsFiles, artifactsManifests>>,
           DOMAIN artifactsCatalog' \subseteq DOMAIN artifactsManifests,
           artifactsStable' \subseteq DOMAIN artifactsCatalog',
           artifactsCatalog' \in Maps(ReleaseNames, SUBSET {"t", "sitl"})
    PROVE  RepositoryInv' /\ FilesStay
  <1>1. /\ artifactsJob' \in [Processes -> JobStates]
        /\ \A q \in Processes : /\ artifactsJob'[q] # NoJob => artifactsLock' = q
                                /\ PublisherInv(artifactsJob[q])'
    <2>1. artifactsLock = p
      BY DEF RepositoryInv
    <2>2. PublisherInv(NoJob)'
      BY DEF PublisherInv
    <2> QED
      BY <2>1, <2>2, OneJob DEF Artifacts!Ends, Artifacts!None, NoJob, JobStates
  <1> QED
    BY <1>1 DEF RepositoryInv, RepositoryTypes, Paired, Whole, Backed, FilesStay

\* It publishes a part, or finds that it is there.
LEMMA PublishKeeps ==
    ASSUME RepositoryInv, NEW p \in Processes, Artifacts!Publish(p)
    PROVE  RepositoryInv' /\ FilesStay
  <1> USE DEF Artifacts!None, NoJob
  <1>1. PICK j, name, rest :
          j = artifactsJob[p] /\ name = Head(j.todo) /\ rest = Tail(j.todo)
    OBVIOUS
  <1> DEFINE file == <<j.rel, name>>
             c == Artifacts!Content(name, j.build)
             took == [j EXCEPT !.todo = rest, !.man = Artifacts!With(@, name, c)]
             verified == [j EXCEPT !.todo = rest]
  <1>2. /\ j \in JobStates /\ j # NoJob /\ j.todo # <<>> /\ artifactsLock = p
        /\ UNCHANGED <<artifactsProject, artifactsManifests, artifactsCatalog,
                       artifactsStable>>
        /\ PublisherInv(j)
    BY <1>1 DEF Artifacts!Publish, RepositoryInv, RepositoryTypes
  <1>3. /\ j.todo \in Todos /\ j.rel \in ReleaseNames /\ j.build \in Artifacts!Builds
        /\ j.man \in ManifestMaps /\ j.kind \in {"build", "augment"}
        /\ j.channel \in Channels \cup {"nightly"}
        /\ j.cat \in Maps(ReleaseNames, SUBSET {"t", "sitl"})
        /\ j \in [kind : {"build", "augment"}, rel : ReleaseNames, build : Artifacts!Builds,
                  todo : Todos, channel : Channels \cup {"nightly"}, man : ManifestMaps,
                  cat : Maps(ReleaseNames, SUBSET {"t", "sitl"})]
    BY <1>2 DEF JobStates, PublisherInv
  <1>4. \/ /\ name = "verify" /\ artifactsFiles[<<j.rel, "elf">>].load = j.build.load
           /\ artifactsJob' = [artifactsJob EXCEPT ![p] = verified]
           /\ UNCHANGED <<artifactsLock, artifactsFiles>>
        \/ Artifacts!Ends(p) /\ UNCHANGED artifactsFiles
        \/ /\ name # "verify" /\ file \notin DOMAIN artifactsFiles
           /\ artifactsFiles' = Artifacts!With(artifactsFiles, file, c)
           /\ artifactsJob' = [artifactsJob EXCEPT ![p] = took] /\ UNCHANGED artifactsLock
        \/ /\ name # "verify" /\ file \in DOMAIN artifactsFiles /\ artifactsFiles[file] = c
           /\ artifactsJob' = [artifactsJob EXCEPT ![p] = took]
           /\ UNCHANGED <<artifactsLock, artifactsFiles>>
    BY <1>1 DEF Artifacts!Publish, Artifacts!Copy
  <1>5. /\ name \in {"elf", "hex", "header", "verify"} /\ rest \in Todos
        /\ name = "elf" <=> j.todo \in NewBuild
        /\ name = "verify" <=> j.todo = <<"verify", "hex">>
        /\ rest \notin NewBuild /\ rest # <<"verify", "hex">>
        /\ j.todo = <<"verify", "hex">> => rest = <<"hex">>
        /\ j.todo = <<"hex">> => rest = <<>>
    BY <1>1, <1>2, <1>3, TodoTyped DEF NewBuild
  <1>6. ASSUME NEW new \in JobStates, new # NoJob, PublisherInv(new)', RepositoryTypes',
               artifactsJob' = [artifactsJob EXCEPT ![p] = new], UNCHANGED artifactsLock,
               Paired', FilesStay
        PROVE  RepositoryInv' /\ FilesStay
    <2>1. /\ artifactsJob' \in [Processes -> JobStates]
          /\ \A q \in Processes : /\ artifactsJob'[q] # NoJob => artifactsLock' = q
                                  /\ PublisherInv(artifactsJob[q])'
      BY <1>2, <1>6, OneJob
    <2>2. (\A r \in DOMAIN artifactsManifests : Whole(r, artifactsManifests[r]))'
      BY <1>2, <1>6 DEF RepositoryInv, Whole, Backed, FilesStay
    <2> QED
      BY <1>2, <1>6, <2>1, <2>2 DEF RepositoryInv
  <1>7. CASE /\ name = "verify" /\ artifactsFiles[<<j.rel, "elf">>].load = j.build.load
             /\ artifactsJob' = [artifactsJob EXCEPT ![p] = verified]
             /\ UNCHANGED <<artifactsLock, artifactsFiles>>
    <2>1. verified = [kind |-> j.kind, rel |-> j.rel, build |-> j.build,
                      todo |-> rest, channel |-> j.channel, man |-> j.man,
                      cat |-> j.cat]
      BY <1>3
    <2>2. verified \in JobStates /\ verified # NoJob
      BY <1>3, <1>5, <2>1 DEF JobStates
    <2>3. j.kind = "augment" /\ "elf" \in DOMAIN j.man /\ rest = <<"hex">>
      BY <1>2, <1>3, <1>5, <1>7 DEF PublisherInv
    <2>4. j.man["elf"].load = j.build.load
      BY <1>2, <1>7, <2>3 DEF PublisherInv, Backed
    <2>5. PublisherInv(verified)'
      BY <1>2, <1>7, <2>1, <2>3, <2>4 DEF PublisherInv, Backed
    <2>6. Paired' /\ FilesStay /\ RepositoryTypes'
      BY <1>2, <1>7, <2>2 DEF RepositoryInv, RepositoryTypes, Paired, FilesStay
    <2> HIDE DEF verified
    <2> QED
      BY <1>6, <1>7, <2>2, <2>5, <2>6
  <1>8. CASE Artifacts!Ends(p) /\ UNCHANGED artifactsFiles
    BY <1>1, <1>2, <1>8, EndKeeps DEF RepositoryInv, RepositoryTypes
  <1>9. ASSUME name # "verify", FilesStay, artifactsFiles' \in FileMaps,
               file \in DOMAIN artifactsFiles', artifactsFiles'[file] = c,
               artifactsJob' = [artifactsJob EXCEPT ![p] = took], UNCHANGED artifactsLock,
               Paired'
        PROVE  RepositoryInv' /\ FilesStay
    <2>1. name \in PartNames /\ c \in Contents
      BY <1>3, <1>5, <1>9, ContentTyped DEF PartNames
    <2>2. PICK man : man = Artifacts!With(j.man, name, c)
      OBVIOUS
    <2>3. /\ man \in ManifestMaps /\ DOMAIN man = DOMAIN j.man \cup {name}
          /\ man[name] = c
          /\ \A k \in DOMAIN j.man : k # name => man[k] = j.man[k]
      <3>1. man \in ManifestMaps
        BY <1>3, <2>1, <2>2, WithMap DEF ManifestMaps
      <3> HIDE DEF c
      <3> QED
        BY <2>2, <3>1 DEF Artifacts!With
    <2>4. took = [kind |-> j.kind, rel |-> j.rel, build |-> j.build,
                  todo |-> rest, channel |-> j.channel, man |-> man, cat |-> j.cat]
      <3>1. took = [j EXCEPT !.todo = rest, !.man = man]
        BY <2>2
      <3> HIDE DEF took
      <3> QED
        BY <1>3, <3>1
    <2>5. took \in JobStates /\ took # NoJob
      BY <1>3, <1>5, <2>3, <2>4 DEF JobStates
    <2>6. Backed(j.rel, man)'
      <3>1. Backed(j.rel, j.man)'
        BY <1>2, <1>9, BackedStays DEF PublisherInv
      <3> QED
        BY <1>9, <2>3, <3>1 DEF Backed
    <2>7. "elf" \in DOMAIN man /\ man["elf"].load = j.build.load
      <3>1. CASE name = "elf"
        <4>1. c = j.build
          BY <1>3, <2>1, <3>1, ContentTyped
        <4> QED
          BY <2>3, <3>1, <4>1
      <3>2. CASE name # "elf"
        BY <1>2, <1>3, <1>5, <1>9, <2>3, <3>2 DEF PublisherInv
      <3> QED
        BY <3>1, <3>2
    <2>8. j.kind = "augment" => rest = <<>>
      BY <1>2, <1>5, <1>9 DEF PublisherInv
    <2>9. PublisherInv(took)'
      BY <1>2, <1>3, <1>5, <2>4, <2>6, <2>7, <2>8 DEF PublisherInv
    <2>10. RepositoryTypes'
      BY <1>2, <1>9, <2>5 DEF RepositoryInv, RepositoryTypes
    <2> HIDE DEF took
    <2> QED
      BY <1>6, <1>9, <2>5, <2>9, <2>10
  <1>10. CASE /\ name # "verify" /\ file \notin DOMAIN artifactsFiles
              /\ artifactsFiles' = Artifacts!With(artifactsFiles, file, c)
              /\ artifactsJob' = [artifactsJob EXCEPT ![p] = took] /\ UNCHANGED artifactsLock
    <2>1. name \in PartNames /\ c \in Contents
      BY <1>3, <1>5, <1>10, ContentTyped DEF PartNames
    <2>2. file \in ReleaseNames \X PartNames
      BY <1>3, <2>1
    <2> HIDE DEF c, file
    <2>3. /\ artifactsFiles' \in FileMaps
          /\ DOMAIN artifactsFiles' = DOMAIN artifactsFiles \cup {file}
          /\ artifactsFiles'[file] = c
          /\ \A k \in DOMAIN artifactsFiles : k # file => artifactsFiles'[k] = artifactsFiles[k]
      <3>1. artifactsFiles' \in FileMaps
        BY <1>10, <2>1, <2>2, WithMap DEF FileMaps, RepositoryInv, RepositoryTypes
      <3> QED
        BY <1>10, <3>1 DEF Artifacts!With
    <2>4. FilesStay
      BY <1>10, <2>3 DEF FilesStay
    <2>5. Paired'
      <3> SUFFICES ASSUME NEW r \in ReleaseNames, <<r, "hex">> \in DOMAIN artifactsFiles'
                   PROVE  /\ <<r, "elf">> \in DOMAIN artifactsFiles'
                          /\ artifactsFiles'[<<r, "elf">>].load =
                               artifactsFiles'[<<r, "hex">>].load
        BY DEF Paired
      <3>1. CASE <<r, "hex">> \in DOMAIN artifactsFiles
        BY <2>4, <3>1 DEF RepositoryInv, Paired, FilesStay
      <3>2. CASE <<r, "hex">> \notin DOMAIN artifactsFiles
        <4>1. <<r, "hex">> = file
          BY <2>3, <3>2
        <4>2. r = j.rel /\ name = "hex"
          BY <4>1 DEF file
        <4>3. "elf" \in DOMAIN j.man /\ j.man["elf"].load = j.build.load
          BY <1>2, <1>3, <1>5, <4>2 DEF PublisherInv
        <4>4. /\ <<r, "elf">> \in DOMAIN artifactsFiles
              /\ artifactsFiles[<<r, "elf">>].load = j.build.load
          BY <1>2, <4>2, <4>3 DEF PublisherInv, Backed
        <4>5. c.load = j.build.load
          BY <1>3, <2>1, <4>2, ContentTyped DEF c
        <4> QED
          BY <2>3, <2>4, <4>1, <4>4, <4>5 DEF FilesStay
      <3> QED
        BY <3>1, <3>2
    <2> QED
      BY <1>9, <1>10, <2>3, <2>4, <2>5
  <1>11. CASE /\ name # "verify" /\ file \in DOMAIN artifactsFiles
              /\ artifactsFiles[file] = c
              /\ artifactsJob' = [artifactsJob EXCEPT ![p] = took]
              /\ UNCHANGED <<artifactsLock, artifactsFiles>>
    <2>1. FilesStay /\ Paired' /\ artifactsFiles' \in FileMaps
      BY <1>11 DEF FilesStay, Paired, RepositoryInv, RepositoryTypes
    <2> QED
      BY <1>9, <1>11, <2>1
  <1> QED
    BY <1>4, <1>7, <1>8, <1>10, <1>11

\* It writes the manifest, and then the catalog.
LEMMA WriteKeeps ==
    ASSUME RepositoryInv, NEW p \in Processes, Artifacts!WriteManifest(p)
    PROVE  RepositoryInv' /\ FilesStay
  <1> USE DEF Artifacts!None, NoJob
  <1>1. PICK j : j = artifactsJob[p]
    OBVIOUS
  <1> DEFINE written == [j EXCEPT !.kind = "written"]
  <1>2. /\ j \in JobStates /\ j # NoJob /\ j.todo = <<>> /\ j.kind # "written"
        /\ artifactsLock = p /\ PublisherInv(j)
        /\ artifactsManifests' = Artifacts!With(artifactsManifests, j.rel, j.man)
        /\ artifactsJob' = [artifactsJob EXCEPT ![p] = written]
        /\ UNCHANGED <<artifactsProject, artifactsFiles, artifactsCatalog, artifactsStable,
                       artifactsLock>>
    BY <1>1 DEF Artifacts!WriteManifest, RepositoryInv, RepositoryTypes
  <1>3. /\ j.rel \in ReleaseNames /\ j.man \in ManifestMaps
        /\ written = [kind |-> "written", rel |-> j.rel, build |-> j.build, todo |-> j.todo,
                      channel |-> j.channel, man |-> j.man, cat |-> j.cat]
        /\ written \in JobStates /\ written # NoJob
    BY <1>2 DEF JobStates
  <1>4. Whole(j.rel, j.man)
    BY <1>2 DEF PublisherInv, Whole, JobStates, NewBuild
  <1>5. /\ artifactsManifests' \in Maps(ReleaseNames, ManifestMaps)
        /\ DOMAIN artifactsManifests' = DOMAIN artifactsManifests \cup {j.rel}
        /\ artifactsManifests'[j.rel] = j.man
        /\ \A r \in DOMAIN artifactsManifests :
             r # j.rel => artifactsManifests'[r] = artifactsManifests[r]
    <2>1. artifactsManifests \in Maps(ReleaseNames, ManifestMaps)
      BY DEF RepositoryInv, RepositoryTypes
    <2>2. artifactsManifests' \in Maps(ReleaseNames, ManifestMaps)
      BY <1>2, <1>3, <2>1, WithMap
    <2> QED
      BY <1>2, <2>2 DEF Artifacts!With
  <1>6. PublisherInv(written)'
    BY <1>2, <1>3, <1>5 DEF PublisherInv, Backed
  <1> HIDE DEF written
  <1>7. /\ artifactsJob' \in [Processes -> JobStates]
        /\ \A q \in Processes : /\ artifactsJob'[q] # NoJob => artifactsLock' = q
                                /\ PublisherInv(artifactsJob[q])'
    BY <1>2, <1>3, <1>6, OneJob
  <1>8. (\A r \in DOMAIN artifactsManifests : Whole(r, artifactsManifests[r]))'
    BY <1>2, <1>4, <1>5 DEF RepositoryInv, Whole, Backed
  <1> QED
    BY <1>2, <1>5, <1>7, <1>8 DEF RepositoryInv, RepositoryTypes, Paired, FilesStay

\* The catalog is the one it has read, with its release.
LEMMA FinishKeeps ==
    ASSUME RepositoryInv, NEW p \in Processes, Artifacts!Finish(p)
    PROVE  /\ RepositoryInv' /\ FilesStay
           /\ DOMAIN artifactsCatalog \subseteq DOMAIN artifactsCatalog'
  <1>1. PICK j : j = artifactsJob[p]
    OBVIOUS
  <1>2. /\ j \in JobStates /\ j.kind = "written" /\ PublisherInv(j) /\ Artifacts!Ends(p)
        /\ artifactsCatalog' = Artifacts!With(j.cat, j.rel, {"t"})
        /\ artifactsStable' = IF j.channel = "stable" THEN {j.rel} ELSE artifactsStable
        /\ UNCHANGED <<artifactsProject, artifactsFiles, artifactsManifests>>
    BY <1>1 DEF Artifacts!Finish, RepositoryInv, RepositoryTypes
  <1>3. /\ j # NoJob /\ j.rel \in ReleaseNames /\ j.cat = artifactsCatalog
        /\ j.rel \in DOMAIN artifactsManifests
    BY <1>2 DEF JobStates, NoJob, PublisherInv
  <1>4. /\ artifactsCatalog' \in Maps(ReleaseNames, SUBSET {"t", "sitl"})
        /\ DOMAIN artifactsCatalog' = DOMAIN artifactsCatalog \cup {j.rel}
    <2>1. artifactsCatalog' \in Maps(ReleaseNames, SUBSET {"t", "sitl"})
      BY <1>2, <1>3, WithMap DEF RepositoryInv, RepositoryTypes
    <2> QED
      BY <1>2, <1>3, <2>1 DEF Artifacts!With
  <1>5. /\ DOMAIN artifactsCatalog' \subseteq DOMAIN artifactsManifests
        /\ artifactsStable' \subseteq DOMAIN artifactsCatalog'
    BY <1>2, <1>3, <1>4 DEF RepositoryInv
  <1> QED
    BY <1>1, <1>2, <1>3, <1>4, <1>5, EndKeeps

\* No step of a publisher breaks the repository, takes a file or a release out of it,
\* or changes what a file holds; the client does not touch it.
LEMMA RepositoryKeeps ==
    ASSUME RepositoryInv, [Artifacts!Next]_(Artifacts!vars)
    PROVE  /\ RepositoryInv' /\ FilesStay
           /\ DOMAIN artifactsCatalog \subseteq DOMAIN artifactsCatalog'
  <1> DEFINE Goal == /\ RepositoryInv' /\ FilesStay
                     /\ DOMAIN artifactsCatalog \subseteq DOMAIN artifactsCatalog'
  <1> USE DEF Artifacts!root, Artifacts!cache
  <1>1. ASSUME NEW p \in Processes, Artifacts!BeginBuild(p) \/ Artifacts!BeginAugment(p)
        PROVE  Goal
    BY <1>1, BeginKeeps DEF Artifacts!BeginBuild, Artifacts!BeginAugment
  <1>2. ASSUME NEW p \in Processes, Artifacts!Publish(p) PROVE Goal
    BY <1>2, PublishKeeps DEF Artifacts!Publish
  <1>3. ASSUME NEW p \in Processes, Artifacts!WriteManifest(p) PROVE Goal
    BY <1>3, WriteKeeps DEF Artifacts!WriteManifest
  <1>4. ASSUME NEW p \in Processes, Artifacts!Finish(p) PROVE Goal
    BY <1>4, FinishKeeps
  <1>5. ASSUME NEW p \in Processes, Artifacts!Dies(p) PROVE Goal
    BY <1>5, EndKeeps
    DEF Artifacts!Dies, Artifacts!None, NoJob, RepositoryInv, RepositoryTypes
  <1>6. CASE \/ Artifacts!Asks \/ Artifacts!ReadCatalog \/ Artifacts!ReadManifest
             \/ Artifacts!Download \/ UNCHANGED Artifacts!vars
    <2>1. UNCHANGED <<artifactsProject, artifactsFiles, artifactsManifests,
                      artifactsCatalog, artifactsStable, artifactsLock, artifactsJob>>
      BY <1>6 DEF Artifacts!Asks, Artifacts!ReadCatalog, Artifacts!ReadManifest,
                  Artifacts!Download, Artifacts!vars
    <2> QED
      BY <2>1 DEF RepositoryInv, RepositoryTypes, Paired, Whole, Backed, PublisherInv,
                  FilesStay
  <1> QED
    BY <1>1, <1>2, <1>3, <1>4, <1>5, <1>6 DEF Artifacts!Next

\* What the client keeps is what the repository has, however old; what an install has
\* fetched so far is of the release it is about.
OneBuild ==
    \A name \in {"elf", "hex"} \cap DOMAIN artifactsGot,
       other \in {"elf", "hex"} \cap DOMAIN artifactsGot :
        artifactsGot[name].load = artifactsGot[other].load
ClientInv ==
    /\ ClientTypes /\ OneBuild
    /\ \A r \in DOMAIN artifactsCmanifests : Whole(r, artifactsCmanifests[r])
    /\ \A f \in DOMAIN artifactsCobjects :
        f \in DOMAIN artifactsFiles /\ artifactsFiles[f] = artifactsCobjects[f]
    /\ artifactsClient.pc \in {"catalog", "manifest"} => DOMAIN artifactsGot = {}
    /\ artifactsClient.pc = "download" =>
        /\ Whole(artifactsClient.rel, artifactsClient.man)
        /\ artifactsClient.todo \in Seq(DOMAIN artifactsClient.man)
        /\ artifactsClient.todo # <<>>
        /\ Backed(artifactsClient.rel, artifactsGot)

\* The client begins with an empty cache.
LEMMA ClientInit == Artifacts!Init => ClientInv
  <1> SUFFICES ASSUME Artifacts!Init PROVE ClientInv
    OBVIOUS
  <1>1. /\ artifactsCmanifests = <<>> /\ artifactsCobjects = <<>> /\ artifactsGot = <<>>
        /\ artifactsClient = [pc |-> "idle"]
    BY DEF Artifacts!Init, Artifacts!Idle
  <1>2. /\ artifactsCmanifests \in Maps(ReleaseNames, ManifestMaps) /\ DOMAIN artifactsCmanifests = {}
        /\ artifactsCobjects \in FileMaps /\ DOMAIN artifactsCobjects = {}
        /\ artifactsGot \in ManifestMaps /\ DOMAIN artifactsGot = {}
    BY <1>1, EmptyMap DEF FileMaps, ManifestMaps
  <1> QED
    BY <1>1, <1>2 DEF ClientInv, ClientTypes, ClientStates, OneBuild

\* What an install asks for is in the manifest.
LEMMA WantedNamed ==
    ASSUME NEW man, NEW format \in {"elf", "hex"}, format \in DOMAIN man, "elf" \in DOMAIN man
    PROVE  /\ Artifacts!Wanted(man, format) \in Seq(DOMAIN man)
           /\ Artifacts!Wanted(man, format) # <<>>
  <1> DEFINE S == DOMAIN man
             first == IF format = "hex" THEN <<"hex", "elf">> ELSE <<"elf">>
             then == IF "header" \in DOMAIN man THEN <<"header">> ELSE <<>>
  <1>1. /\ "elf" \in S /\ (format = "hex" => "hex" \in S)
        /\ ("header" \in DOMAIN man => "header" \in S)
        /\ Artifacts!Wanted(man, format) = first \o then
    BY DEF Artifacts!Wanted
  <1> HIDE DEF S
  <1>2. first \in Seq(S) /\ Len(first) > 0
    BY <1>1
  <1>3. then \in Seq(S)
    BY <1>1
  <1> HIDE DEF first, then
  <1>4. first \o then \in Seq(S) /\ first \o then # <<>>
    BY <1>2, <1>3
  <1> QED
    BY <1>1, <1>4 DEF S

\* A client asks, and reads the catalog.
LEMMA AskKeeps ==
    ASSUME ClientInv, Artifacts!Asks \/ Artifacts!ReadCatalog
    PROVE  ClientInv'
  <1> USE DEF Artifacts!root, Artifacts!cache
  <1>1. UNCHANGED <<artifactsFiles, artifactsCmanifests, artifactsCobjects>>
    BY DEF Artifacts!Asks, Artifacts!ReadCatalog
  <1>2. ASSUME artifactsGot' = <<>> \/ UNCHANGED artifactsGot,
               artifactsClient' \in ClientStates,
               artifactsClient'.pc # "download",
               artifactsClient'.pc \in {"catalog", "manifest"} => DOMAIN artifactsGot' = {}
        PROVE  ClientInv'
    <2>1. artifactsGot' \in ManifestMaps /\ OneBuild'
      <3>1. CASE artifactsGot' = <<>>
        BY <3>1, EmptyMap DEF ManifestMaps, OneBuild
      <3>2. CASE UNCHANGED artifactsGot
        BY <3>2 DEF ClientInv, ClientTypes, OneBuild
      <3> QED
        BY <1>2, <3>1, <3>2
    <2> QED
      BY <1>1, <1>2, <2>1 DEF ClientInv, ClientTypes, Whole, Backed
  <1>3. CASE Artifacts!Asks
    <2>1. artifactsGot' = <<>> /\ DOMAIN artifactsGot' = {}
      BY <1>3, EmptyMap DEF Artifacts!Asks
    <2>2. artifactsClient' \in [pc : {"catalog"}, rel : ReleaseNames,
                                format : {"elf", "hex", "refresh"}]
      BY <1>3 DEF Artifacts!Asks
    <2> QED
      BY <1>2, <2>1, <2>2 DEF ClientStates
  <1>4. CASE Artifacts!ReadCatalog
    <2>1. /\ artifactsClient \in [pc : {"catalog", "manifest"}, rel : ReleaseNames,
                                  format : {"elf", "hex", "refresh"}]
          /\ DOMAIN artifactsGot = {} /\ UNCHANGED artifactsGot
      BY <1>4 DEF Artifacts!ReadCatalog, ClientInv, ClientTypes, ClientStates
    <2>2. \/ artifactsClient' = [pc |-> "idle"]
          \/ artifactsClient' = [artifactsClient EXCEPT !.pc = "manifest"]
      BY <1>4 DEF Artifacts!ReadCatalog, Artifacts!Idle
    <2> QED
      BY <1>2, <2>1, <2>2 DEF ClientStates
  <1> QED
    BY <1>3, <1>4

\* It reads the manifest.
LEMMA ReadKeeps ==
    ASSUME RepositoryInv, ClientInv, Artifacts!ReadManifest
    PROVE  ClientInv'
  <1> USE DEF Artifacts!root, Artifacts!cache
  <1>1. /\ artifactsClient \in [pc : {"catalog", "manifest"}, rel : ReleaseNames,
                                format : {"elf", "hex", "refresh"}]
        /\ artifactsClient.pc = "manifest" /\ DOMAIN artifactsGot = {}
        /\ UNCHANGED <<artifactsFiles, artifactsGot, artifactsCobjects>>
    BY DEF Artifacts!ReadManifest, ClientInv, ClientTypes, ClientStates
  <1>2. CASE artifactsClient' = [pc |-> "idle"] /\ UNCHANGED artifactsCmanifests
    BY <1>1, <1>2 DEF ClientInv, ClientTypes, ClientStates, OneBuild, Whole, Backed
  <1>3. CASE \E m \in Artifacts!Reads(Artifacts!At(artifactsCmanifests, artifactsClient.rel),
                                      Artifacts!At(artifactsManifests, artifactsClient.rel)) :
               /\ artifactsCmanifests' = Artifacts!With(artifactsCmanifests,
                                                        artifactsClient.rel, m)
               /\ artifactsClient' = IF artifactsClient.format \in DOMAIN m
                     THEN [pc |-> "download", rel |-> artifactsClient.rel, man |-> m,
                           todo |-> Artifacts!Wanted(m, artifactsClient.format)]
                     ELSE [pc |-> "idle"]
    <2>1. PICK m, r, format :
            /\ r = artifactsClient.rel /\ format = artifactsClient.format
            /\ m \in Artifacts!At(artifactsCmanifests, r) \cup Artifacts!At(artifactsManifests, r)
            /\ artifactsCmanifests' = Artifacts!With(artifactsCmanifests, r, m)
            /\ artifactsClient' = IF format \in DOMAIN m
                     THEN [pc |-> "download", rel |-> r, man |-> m,
                           todo |-> Artifacts!Wanted(m, format)]
                     ELSE [pc |-> "idle"]
      BY <1>3 DEF Artifacts!Reads
    <2>2. r \in ReleaseNames /\ format \in {"elf", "hex", "refresh"}
      BY <1>1, <2>1
    <2>3. m \in ManifestMaps /\ Whole(r, m)
      BY <2>1 DEF Artifacts!At, Maps, ClientInv, ClientTypes, RepositoryInv, RepositoryTypes
    <2>4. artifactsCmanifests' \in Maps(ReleaseNames, ManifestMaps)
      BY <2>1, <2>2, <2>3, WithMap DEF ClientInv, ClientTypes
    <2>5. (\A s \in DOMAIN artifactsCmanifests : Whole(s, artifactsCmanifests[s]))'
      BY <1>1, <2>1, <2>3 DEF Artifacts!With, ClientInv, Whole, Backed
    <2>6. Backed(r, artifactsGot)' /\ OneBuild' /\ artifactsGot' \in ManifestMaps
      BY <1>1 DEF Backed, OneBuild, ClientInv, ClientTypes
    <2>7. CASE format \in DOMAIN m
      <3>1. DOMAIN m \subseteq PartNames /\ format # "refresh"
        BY <2>3, <2>7 DEF ManifestMaps, Maps, PartNames
      <3>2. PICK todo : todo = Artifacts!Wanted(m, format)
        OBVIOUS
      <3>3. todo \in Seq(DOMAIN m) /\ todo # <<>>
        BY <2>2, <2>3, <2>7, <3>1, <3>2, WantedNamed DEF Whole
      <3>4. todo \in Seq(PartNames)
        BY <3>1, <3>3
      <3>5. artifactsClient' = [pc |-> "download", rel |-> r, man |-> m, todo |-> todo]
        BY <2>1, <2>7, <3>2
      <3>6. artifactsClient' \in ClientStates
        BY <2>2, <2>3, <3>4, <3>5 DEF ClientStates
      <3>7. Whole(r, m)'
        BY <1>1, <2>3 DEF Whole, Backed
      <3> QED
        BY <1>1, <2>4, <2>5, <2>6, <3>3, <3>5, <3>6, <3>7 DEF ClientInv, ClientTypes
    <2>8. CASE format \notin DOMAIN m
      <3>1. artifactsClient' = [pc |-> "idle"] /\ artifactsClient' \in ClientStates
        BY <2>1, <2>8 DEF ClientStates
      <3> QED
        BY <1>1, <2>4, <2>5, <2>6, <3>1 DEF ClientInv, ClientTypes
    <2> QED
      BY <2>7, <2>8
  <1> QED
    BY <1>2, <1>3 DEF Artifacts!ReadManifest, Artifacts!Idle

\* It downloads a part, takes it from the cache, or gives up.
LEMMA DownloadKeeps ==
    ASSUME RepositoryInv, ClientInv, Artifacts!Download
    PROVE  ClientInv'
  <1> USE DEF Artifacts!root, Artifacts!cache
  <1>1. PICK rel, man, todo, name :
          /\ rel = artifactsClient.rel /\ man = artifactsClient.man
          /\ todo = artifactsClient.todo /\ name = Head(todo)
    OBVIOUS
  <1>2. /\ artifactsClient \in [pc : {"download"}, rel : ReleaseNames, man : ManifestMaps,
                                todo : Seq(PartNames)]
        /\ todo \in Seq(DOMAIN man) /\ todo # <<>> /\ Whole(rel, man)
        /\ Backed(rel, artifactsGot)
        /\ UNCHANGED <<artifactsFiles, artifactsCmanifests>>
    BY <1>1 DEF Artifacts!Download, ClientInv, ClientTypes, ClientStates
  <1>3. /\ rel \in ReleaseNames /\ man \in ManifestMaps /\ todo \in Seq(PartNames)
        /\ name \in DOMAIN man /\ name \in PartNames
    BY <1>1, <1>2
  <1>4. /\ <<rel, name>> \in DOMAIN artifactsFiles
        /\ artifactsFiles[<<rel, name>>] = man[name] /\ man[name] \in Contents
    BY <1>2, <1>3 DEF Whole, Backed, ManifestMaps, Maps
  <1>5. CASE /\ artifactsClient' = [pc |-> "idle"] /\ artifactsGot' = <<>>
             /\ UNCHANGED artifactsCobjects
    <2>1. artifactsGot' \in ManifestMaps /\ DOMAIN artifactsGot' = {}
      BY <1>5, EmptyMap DEF ManifestMaps
    <2> QED
      BY <1>2, <1>5, <2>1
      DEF ClientInv, ClientTypes, ClientStates, OneBuild, Whole, Backed
  <1>6. ASSUME artifactsCobjects' = Artifacts!With(artifactsCobjects, <<rel, name>>, man[name]),
               artifactsGot' = Artifacts!With(artifactsGot, name, man[name]),
               artifactsClient' = IF Len(todo) = 1 THEN [pc |-> "idle"]
                                  ELSE [artifactsClient EXCEPT !.todo = Tail(todo)]
        PROVE  ClientInv'
    <2>1. artifactsCobjects' \in FileMaps
      BY <1>3, <1>4, <1>6, WithMap DEF FileMaps, ClientInv, ClientTypes
    <2>2. (\A f \in DOMAIN artifactsCobjects :
            f \in DOMAIN artifactsFiles /\ artifactsFiles[f] = artifactsCobjects[f])'
      BY <1>2, <1>4, <1>6 DEF Artifacts!With, ClientInv
    <2>3. artifactsGot' \in ManifestMaps
      BY <1>3, <1>4, <1>6, WithMap DEF ManifestMaps, ClientInv, ClientTypes
    <2>4. Backed(rel, artifactsGot)'
      BY <1>2, <1>4, <1>6 DEF Artifacts!With, Backed
    <2>5. OneBuild'
      <3>1. \A key \in DOMAIN artifactsGot' :
              /\ <<rel, key>> \in DOMAIN artifactsFiles
              /\ artifactsGot'[key] = artifactsFiles[<<rel, key>>]
        BY <1>2, <2>4 DEF Backed
      <3>2. "hex" \in DOMAIN artifactsGot' =>
              artifactsFiles[<<rel, "elf">>].load = artifactsFiles[<<rel, "hex">>].load
        BY <1>3, <3>1 DEF RepositoryInv, Paired
      <3> QED
        BY <3>1, <3>2 DEF OneBuild
    <2>6. (\A r \in DOMAIN artifactsCmanifests : Whole(r, artifactsCmanifests[r]))'
      BY <1>2 DEF ClientInv, Whole, Backed
    <2>7. CASE Len(todo) = 1
      BY <1>2, <1>6, <2>1, <2>2, <2>3, <2>5, <2>6, <2>7
      DEF ClientInv, ClientTypes, ClientStates
    <2>8. CASE Len(todo) # 1
      <3>1. PICK rest : rest = Tail(todo)
        OBVIOUS
      <3>2. rest \in Seq(DOMAIN man) /\ rest \in Seq(PartNames) /\ rest # <<>>
        <4>1. ASSUME NEW S, NEW q \in Seq(S), q # <<>>, Len(q) # 1
              PROVE  Tail(q) \in Seq(S) /\ Tail(q) # <<>>
          <5>1. Len(q) \in Nat /\ Len(q) # 0
            BY <4>1
          <5>2. Tail(q) \in Seq(S) /\ Len(Tail(q)) = Len(q) - 1
            BY <4>1
          <5>3. Len(Tail(q)) # 0
            BY <4>1, <5>1, <5>2
          <5>4. \A t : t = <<>> => Len(t) = 0
            OBVIOUS
          <5> QED
            BY <5>2, <5>3, <5>4
        <4> QED
          BY <1>2, <1>3, <2>8, <3>1, <4>1
      <3>3. artifactsClient' = [artifactsClient EXCEPT !.todo = rest]
        BY <1>6, <2>8, <3>1
      <3>4. artifactsClient' = [pc |-> "download", rel |-> rel, man |-> man, todo |-> rest]
        BY <1>1, <1>2, <3>3
      <3>5. artifactsClient' \in ClientStates
        BY <1>3, <3>2, <3>4 DEF ClientStates
      <3>6. Whole(rel, man)'
        BY <1>2 DEF Whole, Backed
      <3> QED
        BY <1>2, <2>1, <2>2, <2>3, <2>4, <2>5, <2>6, <3>2, <3>4, <3>5, <3>6
        DEF ClientInv, ClientTypes
    <2> QED
      BY <2>7, <2>8
  <1>7. \/ /\ artifactsClient' = [pc |-> "idle"] /\ artifactsGot' = <<>>
           /\ UNCHANGED artifactsCobjects
        \/ \E c : /\ c = man[name]
                  /\ artifactsCobjects' =
                       Artifacts!With(artifactsCobjects, <<rel, name>>, c)
                  /\ artifactsGot' = Artifacts!With(artifactsGot, name, c)
                  /\ artifactsClient' = IF Len(todo) = 1 THEN [pc |-> "idle"]
                                        ELSE [artifactsClient EXCEPT !.todo = Tail(todo)]
    BY <1>1 DEF Artifacts!Download, Artifacts!Holds, Artifacts!Idle
  <1> QED
    BY <1>5, <1>6, <1>7

\* The client's invariant stays, whatever is published meanwhile: no file changes.
LEMMA ClientKeeps ==
    ASSUME RepositoryInv, ClientInv, [Artifacts!Next]_(Artifacts!vars)
    PROVE  ClientInv'
  <1> USE DEF Artifacts!root, Artifacts!cache
  <1>1. ASSUME UNCHANGED <<artifactsCmanifests, artifactsCobjects, artifactsClient,
                           artifactsGot>>
        PROVE  ClientInv'
    <2>1. FilesStay
      BY RepositoryKeeps
    <2> QED
      BY <1>1, <2>1 DEF FilesStay, ClientInv, ClientTypes, OneBuild, Whole, Backed
  <1>2. ASSUME NEW p \in Processes,
               \/ Artifacts!BeginBuild(p) \/ Artifacts!BeginAugment(p) \/ Artifacts!Publish(p)
               \/ Artifacts!WriteManifest(p) \/ Artifacts!Finish(p) \/ Artifacts!Dies(p)
        PROVE  ClientInv'
    BY <1>1, <1>2 DEF Artifacts!BeginBuild, Artifacts!BeginAugment, Artifacts!Publish,
                      Artifacts!WriteManifest, Artifacts!Finish, Artifacts!Dies
  <1>3. CASE UNCHANGED Artifacts!vars
    BY <1>1, <1>3 DEF Artifacts!vars
  <1>4. CASE Artifacts!Asks \/ Artifacts!ReadCatalog \/ Artifacts!ReadManifest
             \/ Artifacts!Download
    BY <1>4, AskKeeps, ReadKeeps, DownloadKeeps
  <1> QED
    BY <1>2, <1>3, <1>4 DEF Artifacts!Next

\* Both hold in every state.
LEMMA ArtifactsInvariant == Spec => [](RepositoryInv /\ ClientInv)
  <1>1. Artifacts!Init => RepositoryInv /\ ClientInv
    BY RepositoryInit, ClientInit
  <1>2. RepositoryInv /\ ClientInv /\ [Artifacts!Next]_(Artifacts!vars)
          => (RepositoryInv /\ ClientInv)'
    BY RepositoryKeeps, ClientKeeps
  <1> QED
    BY <1>1, <1>2, ArtifactsBehave, PTL

\* Wherever a publisher dies, what the catalog lists is there; an install returns parts
\* of one build (publisher.py, catalog.py).
LEMMA ArtifactsWhole ==
    Spec => [](Artifacts!RepositoryWhole /\ Artifacts!InstallsOneBuild)
  <1>1. RepositoryInv => Artifacts!RepositoryWhole
    <2> SUFFICES ASSUME RepositoryInv, NEW r \in DOMAIN artifactsCatalog
                 PROVE  /\ artifactsStable \subseteq DOMAIN artifactsCatalog
                        /\ r \in DOMAIN artifactsManifests
                        /\ "elf" \in DOMAIN artifactsManifests[r]
                        /\ \A name \in DOMAIN artifactsManifests[r] :
                             Artifacts!At(artifactsFiles, <<r, name>>) =
                               {artifactsManifests[r][name]}
      BY DEF RepositoryInv, Artifacts!RepositoryWhole
    <2>1. r \in DOMAIN artifactsManifests /\ Whole(r, artifactsManifests[r])
      BY DEF RepositoryInv
    <2> QED
      BY <2>1 DEF RepositoryInv, Whole, Backed, Artifacts!At
  <1>2. ClientInv => Artifacts!InstallsOneBuild
    BY DEF ClientInv, OneBuild, Artifacts!InstallsOneBuild, Artifacts!At
  <1> QED
    BY <1>1, <1>2, ArtifactsInvariant, PTL

\* No release and no file is lost or changed.
LEMMA ArtifactsUnlost == Spec => Artifacts!Unlost
  <1>1. RepositoryInv /\ [Artifacts!Next]_(Artifacts!vars) =>
          [/\ DOMAIN artifactsCatalog \subseteq DOMAIN artifactsCatalog'
           /\ \A f \in DOMAIN artifactsFiles :
                f \in DOMAIN artifactsFiles' /\ artifactsFiles'[f] = artifactsFiles[f]
          ]_(Artifacts!vars)
    BY RepositoryKeeps DEF FilesStay
  <1> QED
    BY <1>1, ArtifactsInvariant, ArtifactsBehave, PTL DEF Artifacts!Unlost

------------------------------------------------------------------------------
(* The users of the flight controller's monitor.                              *)

\* What happens to the monitor's connection is what FcMonitor says.
LEMMA MonitorBehaves == Spec => Monitor!Init /\ [][Monitor!Next]_(Monitor!vars)
  <1>1. Init => Monitor!Init
    BY DEF Init
  <1>2. [Next]_vars => [Monitor!Next]_(Monitor!vars)
    BY DEF Next, TreeSteps, MonitorSteps, ArtifactsSteps, RenodeSteps, SourceSteps,
           WindowSteps, FleetSteps, LinkerSteps, DshotSteps, MacrosSteps, ImagesSteps,
           PortSteps, vars, monitorVars, Monitor!vars, Monitor!socket, Monitor!obs
  <1> QED
    BY <1>1, <1>2, PTL DEF Spec

\* Sequences of records that name who asked.
LEMMA Appended ==
    ASSUME NEW S, NEW s \in Seq(S), NEW e \in S
    PROVE  /\ Append(s, e) \in Seq(S) /\ Len(Append(s, e)) = Len(s) + 1
           /\ DOMAIN Append(s, e) = 1..(Len(s) + 1) /\ DOMAIN s = 1..Len(s)
           /\ Append(s, e)[Len(s) + 1] = e
           /\ \A i \in DOMAIN s : Append(s, e)[i] = s[i]
  OBVIOUS

\* The same of what is left when the first is taken.
LEMMA Taken ==
    ASSUME NEW S, NEW s \in Seq(S), s # <<>>
    PROVE  /\ Head(s) \in S /\ Head(s) = s[1] /\ 1 \in DOMAIN s /\ Tail(s) \in Seq(S)
           /\ \A i \in DOMAIN Tail(s) : i + 1 \in DOMAIN s /\ Tail(s)[i] = s[i + 1]
           /\ DOMAIN Tail(s) \subseteq Nat
  OBVIOUS

Watch(s) == \E i \in DOMAIN s : s[i].cmd = "watch"
WatchOnce(s) == \A i, j \in DOMAIN s : s[i].cmd = "watch" /\ s[j].cmd = "watch" => i = j
Fresh(s, t) == \A i \in DOMAIN s : s[i].cmd = "watch" => s[i].says >= t

\* A question or an answer more, of the watch only if there was none.
LEMMA WatchAppended ==
    ASSUME NEW S, NEW s \in Seq(S), NEW e \in S, NEW t \in Nat
    PROVE  /\ Watch(Append(s, e)) <=> Watch(s) \/ e.cmd = "watch"
           /\ WatchOnce(s) /\ ~(Watch(s) /\ e.cmd = "watch") => WatchOnce(Append(s, e))
           /\ Fresh(s, t) /\ (e.cmd = "watch" => e.says >= t) => Fresh(Append(s, e), t)
  <1> DEFINE a == Append(s, e)
  <1>1. /\ DOMAIN a = 1..(Len(s) + 1) /\ DOMAIN s = 1..Len(s) /\ Len(s) \in Nat
        /\ a[Len(s) + 1] = e /\ \A i \in DOMAIN s : a[i] = s[i]
    BY Appended
  <1>2. \A i \in DOMAIN a : i \in DOMAIN s \/ i = Len(s) + 1
    BY <1>1
  <1>3. Len(s) + 1 \in DOMAIN a /\ DOMAIN s \subseteq DOMAIN a
    BY <1>1
  <1> HIDE DEF a
  <1> QED
    BY <1>1, <1>2, <1>3 DEF Watch, WatchOnce, Fresh, a

\* One less: if the watch had one, and that was the first, none is left.
LEMMA WatchTaken ==
    ASSUME NEW S, NEW s \in Seq(S), s # <<>>, NEW t \in Nat
    PROVE  /\ Watch(Tail(s)) \/ Head(s).cmd = "watch" <=> Watch(s)
           /\ WatchOnce(s) => WatchOnce(Tail(s)) /\ (Head(s).cmd = "watch" => ~Watch(Tail(s)))
           /\ Fresh(s, t) => Fresh(Tail(s), t) /\ (Head(s).cmd = "watch" => Head(s).says >= t)
  <1> DEFINE b == Tail(s)
  <1>1. /\ Head(s) = s[1] /\ 1 \in DOMAIN s /\ DOMAIN b \subseteq Nat \ {0}
        /\ \A i \in DOMAIN b : i + 1 \in DOMAIN s /\ b[i] = s[i + 1]
        /\ \A i \in DOMAIN s : i = 1 \/ (i - 1 \in DOMAIN b /\ b[i - 1] = s[i])
    OBVIOUS
  <1> HIDE DEF b
  <1>2. Watch(b) \/ Head(s).cmd = "watch" <=> Watch(s)
    BY <1>1 DEF Watch
  <1>3. WatchOnce(s) => WatchOnce(b)
    BY <1>1 DEF WatchOnce
  <1>4. WatchOnce(s) /\ Head(s).cmd = "watch" => ~Watch(b)
    BY <1>1 DEF WatchOnce, Watch
  <1>5. Fresh(s, t) => Fresh(b, t) /\ (Head(s).cmd = "watch" => Head(s).says >= t)
    BY <1>1 DEF Fresh
  <1> QED
    BY <1>2, <1>3, <1>4, <1>5 DEF b

\* While the watch has given no answer up and the connection is open, nothing it asked
\* is under way but the question it waits for; that question is in one place, and if it
\* has been answered, then after it was asked.
Questions == [cmd : Monitor!Users, no : Nat]
Replies == [cmd : Monitor!Users, no : Nat, says : Nat]
Places == {"idle", "take", "read", "used", "ended"}
MonitorTypes ==
    /\ monitorOpen \in BOOLEAN /\ monitorLate \in BOOLEAN
    /\ monitorNow \in Nat /\ monitorNumber \in Nat /\ monitorUsed \in Nat
    /\ monitorSince \in Nat /\ monitorSince <= monitorNow
    /\ monitorPc \in [Monitor!Users -> Places]
    /\ monitorAsked \in Seq(Questions)
    /\ monitorAnswers \in Seq(Replies) /\ monitorData \in Seq(Replies)
OneReader == \A u \in Monitor!Users : monitorPc[u] = "read" => monitorIo = u
AnswerRead ==
    monitorPc["watch"] = "read" =>
        /\ \A i \in DOMAIN monitorData : monitorData[i].cmd = "watch" => i = Len(monitorData)
        /\ ~monitorLate => Fresh(monitorData, monitorSince)
NothingOld ==
    /\ WatchOnce(monitorAsked) /\ WatchOnce(monitorAnswers)
    /\ Watch(monitorAnswers) => ~Watch(monitorAsked)
    /\ Watch(monitorAsked) \/ Watch(monitorAnswers) =>
         monitorPc["watch"] = "read" /\ ~Watch(monitorData)
    /\ Fresh(monitorAnswers, monitorSince)
MonitorInv ==
    /\ MonitorTypes /\ OneReader /\ AnswerRead
    /\ monitorOpen /\ ~monitorLate => NothingOld
    /\ Monitor!AnswersOwn

\* Nothing was asked when the connection is made.
LEMMA MonitorInit == Monitor!Init => MonitorInv
  <1> SUFFICES ASSUME Monitor!Init PROVE MonitorInv
    OBVIOUS
  <1>1. MonitorTypes
    <2>1. monitorPc \in [Monitor!Users -> Places]
      BY DEF Monitor!Init, Places
    <2>2. /\ monitorAsked \in Seq(Questions) /\ monitorAnswers \in Seq(Replies)
          /\ monitorData \in Seq(Replies)
      BY DEF Monitor!Init
    <2>3. monitorOpen \in BOOLEAN /\ monitorLate \in BOOLEAN
      BY Zenon DEF Monitor!Init
    <2>4. /\ monitorNow \in Nat /\ monitorNumber \in Nat /\ monitorUsed \in Nat
          /\ monitorSince \in Nat /\ monitorSince <= monitorNow
      BY DEF Monitor!Init
    <2> QED
      BY <2>1, <2>2, <2>3, <2>4 DEF MonitorTypes
  <1>2. OneReader /\ AnswerRead /\ Monitor!AnswersOwn
    BY DEF Monitor!Init, OneReader, AnswerRead, Monitor!AnswersOwn, Monitor!Users
  <1>3. NothingOld
    BY DEF Monitor!Init, NothingOld, Watch, WatchOnce, Fresh
  <1> QED
    BY <1>1, <1>2, <1>3 DEF MonitorInv

\* What is asked and answered stays typed.
LEMMA MonitorTyped == MonitorTypes /\ [Monitor!Next]_(Monitor!vars) => MonitorTypes'
  <1> SUFFICES ASSUME MonitorTypes, [Monitor!Next]_(Monitor!vars) PROVE MonitorTypes'
    OBVIOUS
  <1> USE DEF MonitorTypes, Monitor!Users, Places, Monitor!socket, Monitor!obs
  <1>e. <<>> \in Seq(Replies) /\ <<>> \in Seq(Questions)
    OBVIOUS
  <1>1. CASE Monitor!Change
    BY <1>1 DEF Monitor!Change
  <1>2. CASE Monitor!Answer
    <2> DEFINE q == Head(monitorAsked)
               a == [cmd |-> q.cmd, no |-> q.no, says |-> monitorNow]
    <2>1. q \in Questions /\ monitorAsked' \in Seq(Questions)
      BY <1>2, Taken DEF Monitor!Answer
    <2>2. a \in Replies
      BY <2>1 DEF Questions, Replies
    <2>3. Append(monitorAnswers, a) \in Seq(Replies)
      BY <2>2, Appended
    <2> HIDE DEF q
    <2>4. monitorAnswers' \in Seq(Replies)
      BY <1>2, <2>3, <1>e DEF Monitor!Answer, q
    <2> QED
      BY <1>2, <2>1, <2>4 DEF Monitor!Answer
  <1>3. CASE Monitor!Sample
    BY <1>3, <1>e DEF Monitor!Sample, Monitor!Fails
  <1>4. CASE Monitor!UseState
    <2>1. PICK i \in DOMAIN monitorData : TRUE
      BY <1>4 DEF Monitor!UseState, Monitor!Complete
    <2>2. monitorData[Len(monitorData)] \in Replies
      BY <2>1
    <2>3. monitorUsed' \in Nat
      BY <1>4, <2>2 DEF Monitor!UseState, Monitor!Last, Replies
    <2> QED
      BY <1>4, <2>3 DEF Monitor!UseState
  <1>5. CASE Monitor!Acted
    BY <1>5 DEF Monitor!Acted
  <1>6. CASE Monitor!Interrupt
    BY <1>6, <1>e DEF Monitor!Interrupt
  <1>7. CASE Monitor!Pause
    BY <1>7 DEF Monitor!Pause
  <1>8. ASSUME NEW u \in Monitor!Users, Monitor!Take(u) PROVE MonitorTypes'
    BY <1>8 DEF Monitor!Take
  <1>9. ASSUME NEW u \in Monitor!Users, Monitor!Ends(u) PROVE MonitorTypes'
    BY <1>9, <1>e DEF Monitor!Ends
  <1>10. ASSUME NEW u \in Monitor!Users, Monitor!Send(u) PROVE MonitorTypes'
    <2>1. [cmd |-> u, no |-> monitorNumber + 1] \in Questions
      BY DEF Questions
    <2>2. monitorAsked' \in Seq(Questions)
      BY <1>10, <2>1, Appended DEF Monitor!Send
    <2> QED
      BY <1>10, <2>2, <1>e DEF Monitor!Send
  <1>11. ASSUME NEW u \in Monitor!Users, Monitor!Recv(u) PROVE MonitorTypes'
    <2>1. Head(monitorAnswers) \in Replies /\ monitorAnswers' \in Seq(Replies)
      BY <1>11, Taken DEF Monitor!Recv
    <2>2. monitorData' \in Seq(Replies)
      BY <1>11, <2>1, Appended DEF Monitor!Recv
    <2> QED
      BY <1>11, <2>1, <2>2 DEF Monitor!Recv
  <1>12. ASSUME NEW u \in Monitor!Users, Monitor!Broken(u) PROVE MonitorTypes'
    BY <1>12, <1>e DEF Monitor!Broken, Monitor!Fails
  <1>13. ASSUME NEW u \in Monitor!Users, Monitor!Timeout(u) PROVE MonitorTypes'
    BY <1>13, <1>e DEF Monitor!Timeout, Monitor!Fails
  <1>14. CASE UNCHANGED Monitor!vars
    BY <1>14 DEF Monitor!vars
  <1> QED
    BY <1>1, <1>2, <1>3, <1>4, <1>5, <1>6, <1>7, <1>8, <1>9, <1>10, <1>11, <1>12, <1>13,
       <1>14 DEF Monitor!Next, Monitor!UserStep

\* One user reads at a time.
LEMMA MonitorLocked ==
    MonitorTypes /\ OneReader /\ [Monitor!Next]_(Monitor!vars) => OneReader'
  <1> SUFFICES ASSUME MonitorTypes, OneReader, [Monitor!Next]_(Monitor!vars)
               PROVE OneReader'
    OBVIOUS
  <1> USE DEF OneReader, MonitorTypes, Monitor!Users, Places
  <1>1. CASE Monitor!Change \/ Monitor!Answer \/ Monitor!Interrupt \/ Monitor!Pause
    BY <1>1 DEF Monitor!Change, Monitor!Answer, Monitor!Interrupt, Monitor!Pause
  <1>2. CASE Monitor!Sample
    BY <1>2 DEF Monitor!Sample, Monitor!Fails
  <1>3. CASE Monitor!UseState
    BY <1>3 DEF Monitor!UseState
  <1>4. CASE Monitor!Acted
    BY <1>4 DEF Monitor!Acted
  <1>5. ASSUME NEW u \in Monitor!Users,
               Monitor!Take(u) \/ Monitor!Ends(u) \/ Monitor!Send(u) \/ Monitor!Recv(u)
        PROVE  OneReader'
    BY <1>5 DEF Monitor!Take, Monitor!Ends, Monitor!Send, Monitor!Recv
  <1>6. ASSUME NEW u \in Monitor!Users, Monitor!Broken(u) \/ Monitor!Timeout(u)
        PROVE  OneReader'
    BY <1>6 DEF Monitor!Broken, Monitor!Timeout, Monitor!Fails
  <1>7. CASE UNCHANGED Monitor!vars
    BY <1>7 DEF Monitor!vars
  <1> QED
    BY <1>1, <1>2, <1>3, <1>4, <1>5, <1>6, <1>7 DEF Monitor!Next, Monitor!UserStep

\* The watch stops reading at its answer, which was made after it asked.
LEMMA AnswerReadKeeps == MonitorInv /\ [Monitor!Next]_(Monitor!vars) => AnswerRead'
  <1> SUFFICES ASSUME MonitorInv, [Monitor!Next]_(Monitor!vars) PROVE AnswerRead'
    OBVIOUS
  <1> USE DEF MonitorInv, OneReader, MonitorTypes, Monitor!Users, Places, AnswerRead,
              Monitor!obs
  <1>1. CASE monitorPc["watch"] = "read" /\ monitorData' = monitorData
    <2>1. monitorPc'["watch"] = "read" => monitorSince' = monitorSince
      BY <1>1 DEF Monitor!Next, Monitor!UserStep, Monitor!Change, Monitor!Answer,
           Monitor!Sample, Monitor!UseState, Monitor!Acted, Monitor!Interrupt,
           Monitor!Pause, Monitor!Take, Monitor!Send, Monitor!Recv, Monitor!Broken,
           Monitor!Ends, Monitor!Timeout, Monitor!Fails, Monitor!vars
    <2>2. ~monitorLate' => ~monitorLate
      BY DEF Monitor!Next, Monitor!UserStep, Monitor!Change, Monitor!Answer,
           Monitor!Sample, Monitor!UseState, Monitor!Acted, Monitor!Interrupt,
           Monitor!Pause, Monitor!Take, Monitor!Send, Monitor!Recv, Monitor!Broken,
           Monitor!Ends, Monitor!Timeout, Monitor!Fails, Monitor!vars
    <2> QED
      BY <1>1, <2>1, <2>2 DEF Fresh
  <1>2. ASSUME NEW u \in Monitor!Users, Monitor!Send(u) PROVE AnswerRead'
    BY <1>2 DEF Monitor!Send, Fresh
  <1>3. ASSUME NEW u \in Monitor!Users, Monitor!Recv(u) PROVE AnswerRead'
    <2>1. CASE monitorPc["watch"] = "read"
      <3>1. u = "watch"
        BY <1>3, <2>1 DEF Monitor!Recv
      <3>2. ~Watch(monitorData)
        BY <1>3, <3>1 DEF Monitor!Recv, Monitor!Complete, Watch
      <3>3. /\ Head(monitorAnswers) \in Replies /\ monitorOpen
            /\ monitorData' = Append(monitorData, Head(monitorAnswers))
            /\ monitorLate' = monitorLate /\ monitorSince' = monitorSince
        BY <1>3, Taken DEF Monitor!Recv
      <3>4. \A i \in DOMAIN monitorData' :
              monitorData'[i].cmd = "watch" => i = Len(monitorData')
        BY <3>2, <3>3, Appended DEF Watch
      <3>5. ~monitorLate => Fresh(monitorData', monitorSince)
        <4> SUFFICES ASSUME ~monitorLate PROVE Fresh(monitorData', monitorSince)
          OBVIOUS
        <4>1. Fresh(monitorAnswers, monitorSince) /\ Fresh(monitorData, monitorSince)
          BY <2>1, <3>3 DEF NothingOld
        <4>2. Head(monitorAnswers).cmd = "watch" => Head(monitorAnswers).says >= monitorSince
          BY <1>3, <4>1, WatchTaken DEF Monitor!Recv
        <4> QED
          BY <3>3, <4>1, <4>2, WatchAppended
      <3> QED
        BY <3>3, <3>4, <3>5
    <2>2. CASE monitorPc["watch"] # "read"
      BY <1>3, <2>2 DEF Monitor!Recv
    <2> QED
      BY <2>1, <2>2
  <1>4. CASE monitorPc["watch"] # "read" /\ monitorPc'["watch"] # "read"
    BY <1>4
  <1>5. \/ \E u \in Monitor!Users : Monitor!Send(u) \/ Monitor!Recv(u)
        \/ monitorPc["watch"] = "read" /\ monitorData' = monitorData
        \/ monitorPc["watch"] # "read" /\ monitorPc'["watch"] # "read"
    BY DEF Monitor!Next, Monitor!UserStep, Monitor!Change, Monitor!Answer,
           Monitor!Sample, Monitor!UseState, Monitor!Acted, Monitor!Interrupt,
           Monitor!Pause, Monitor!Take, Monitor!Broken, Monitor!Ends, Monitor!Timeout,
           Monitor!Fails, Monitor!vars
  <1> QED
    BY <1>1, <1>2, <1>3, <1>4, <1>5

\* Nothing the watch asked before is under way.
LEMMA NothingOldKeeps ==
    MonitorInv /\ [Monitor!Next]_(Monitor!vars) =>
        (monitorOpen' /\ ~monitorLate' => NothingOld')
  <1> SUFFICES ASSUME MonitorInv, [Monitor!Next]_(Monitor!vars), monitorOpen', ~monitorLate'
               PROVE  NothingOld'
    OBVIOUS
  <1> USE DEF MonitorInv, OneReader, MonitorTypes, Monitor!Users, Places, AnswerRead,
              Monitor!obs, Monitor!socket
  <1>1. monitorOpen /\ ~monitorLate
    BY DEF Monitor!Next, Monitor!UserStep, Monitor!Change, Monitor!Answer,
           Monitor!Sample, Monitor!UseState, Monitor!Acted, Monitor!Interrupt,
           Monitor!Pause, Monitor!Take, Monitor!Send, Monitor!Recv, Monitor!Broken,
           Monitor!Ends, Monitor!Timeout, Monitor!Fails, Monitor!vars
  <1>2. NothingOld
    BY <1>1
  <1>3. CASE Monitor!Change \/ UNCHANGED Monitor!vars \/ Monitor!Pause
    BY <1>2, <1>3 DEF Monitor!Change, Monitor!Pause, Monitor!vars, NothingOld
  <1>4. CASE Monitor!Answer
    <2> DEFINE q == Head(monitorAsked)
               a == [cmd |-> q.cmd, no |-> q.no, says |-> monitorNow]
    <2>1. q \in Questions /\ monitorAsked # <<>> /\ monitorAsked' = Tail(monitorAsked)
      BY <1>4, Taken DEF Monitor!Answer
    <2>2. a \in Replies /\ a.cmd = q.cmd /\ a.says = monitorNow
      BY <2>1 DEF Questions, Replies
    <2>3. /\ monitorAnswers' = Append(monitorAnswers, a)
          /\ UNCHANGED <<monitorPc, monitorData, monitorSince>>
      BY <1>1, <1>4 DEF Monitor!Answer
    <2> HIDE DEF q, a
    <2>4. /\ Watch(monitorAsked') \/ q.cmd = "watch" <=> Watch(monitorAsked)
          /\ WatchOnce(monitorAsked') /\ (q.cmd = "watch" => ~Watch(monitorAsked'))
      BY <1>2, <2>1, WatchTaken DEF q, NothingOld
    <2>5. Watch(monitorAnswers') <=> Watch(monitorAnswers) \/ q.cmd = "watch"
      BY <2>2, <2>3, WatchAppended
    <2>6. WatchOnce(monitorAnswers') /\ Fresh(monitorAnswers', monitorSince)
      BY <1>2, <2>2, <2>3, <2>4, WatchAppended DEF NothingOld
    <2>7. monitorPc'["watch"] = monitorPc["watch"] /\ Watch(monitorData') = Watch(monitorData)
      BY <2>3
    <2> QED
      BY <1>2, <2>3, <2>4, <2>5, <2>6, <2>7 DEF NothingOld
  <1>5. ASSUME NEW u \in Monitor!Users, Monitor!Send(u) PROVE NothingOld'
    <2> DEFINE q == [cmd |-> u, no |-> monitorNumber + 1]
    <2>1. q \in Questions /\ q.cmd = u
      BY DEF Questions
    <2>2. /\ monitorAsked' = Append(monitorAsked, q) /\ monitorAnswers' = monitorAnswers
          /\ monitorData' = <<>> /\ monitorPc' = [monitorPc EXCEPT ![u] = "read"]
          /\ monitorPc[u] = "take" /\ monitorIo = "free"
          /\ u # "watch" => monitorSince' = monitorSince
      BY <1>5 DEF Monitor!Send
    <2>3. ~Watch(monitorAsked) /\ ~Watch(monitorAnswers)
      BY <1>2, <2>2 DEF NothingOld
    <2> HIDE DEF q
    <2>4. Watch(monitorAsked') <=> u = "watch"
      BY <2>1, <2>2, <2>3, WatchAppended
    <2>5. WatchOnce(monitorAsked')
      BY <1>2, <2>1, <2>2, <2>3, WatchAppended DEF NothingOld
    <2>6. ~Watch(monitorData') /\ ~Watch(monitorAnswers')
      BY <2>2, <2>3 DEF Watch
    <2>7. Fresh(monitorAnswers', monitorSince') /\ WatchOnce(monitorAnswers')
      BY <2>6 DEF Fresh, Watch, WatchOnce
    <2>8. u = "watch" => monitorPc'["watch"] = "read"
      BY <2>2
    <2> QED
      BY <2>4, <2>5, <2>6, <2>7, <2>8 DEF NothingOld
  <1>6. ASSUME NEW u \in Monitor!Users, Monitor!Recv(u) PROVE NothingOld'
    <2> DEFINE a == Head(monitorAnswers)
    <2>1. a \in Replies /\ monitorAnswers # <<>> /\ monitorAnswers' = Tail(monitorAnswers)
      BY <1>6, Taken DEF Monitor!Recv
    <2>2. /\ monitorData' = Append(monitorData, a)
          /\ UNCHANGED <<monitorPc, monitorAsked, monitorSince>>
      BY <1>6 DEF Monitor!Recv
    <2> HIDE DEF a
    <2>3. /\ Watch(monitorAnswers') \/ a.cmd = "watch" <=> Watch(monitorAnswers)
          /\ WatchOnce(monitorAnswers') /\ (a.cmd = "watch" => ~Watch(monitorAnswers'))
          /\ Fresh(monitorAnswers', monitorSince)
      BY <1>2, <2>1, WatchTaken DEF a, NothingOld
    <2>4. Watch(monitorData') <=> Watch(monitorData) \/ a.cmd = "watch"
      BY <2>1, <2>2, WatchAppended
    <2>5. monitorPc'["watch"] = monitorPc["watch"] /\ Watch(monitorAsked') = Watch(monitorAsked)
      BY <2>2
    <2> QED
      BY <1>2, <2>2, <2>3, <2>4, <2>5 DEF NothingOld
  <1>7. CASE /\ UNCHANGED <<monitorAsked, monitorAnswers, monitorSince, monitorData>>
             /\ monitorPc["watch"] = "read" => monitorPc'["watch"] = "read"
    BY <1>2, <1>7 DEF NothingOld
  <1>8. CASE Monitor!UseState
    <2>1. Watch(monitorData) /\ UNCHANGED <<monitorAsked, monitorAnswers, monitorSince>>
      BY <1>8 DEF Monitor!UseState, Monitor!Complete, Watch
    <2>2. ~Watch(monitorAsked) /\ ~Watch(monitorAnswers)
      BY <1>2, <2>1 DEF NothingOld
    <2> QED
      BY <1>2, <2>1, <2>2 DEF NothingOld
  <1>9. ASSUME NEW u \in Monitor!Users, \/ Monitor!Take(u) \/ Monitor!Ends(u)
                                       \/ Monitor!Timeout(u) \/ Monitor!Broken(u)
        PROVE  /\ UNCHANGED <<monitorAsked, monitorAnswers, monitorSince, monitorData>>
               /\ monitorPc["watch"] = "read" => monitorPc'["watch"] = "read"
    <2>1. CASE Monitor!Take(u)
      BY <2>1 DEF Monitor!Take
    <2>2. CASE Monitor!Ends(u)
      BY <2>2 DEF Monitor!Ends
    <2>3. CASE Monitor!Timeout(u)
      BY <2>3 DEF Monitor!Timeout, Monitor!Fails
    <2>4. CASE Monitor!Broken(u)
      BY <2>4, <1>1 DEF Monitor!Broken
    <2> QED
      BY <1>9, <2>1, <2>2, <2>3, <2>4
  <1>10. CASE Monitor!Sample \/ Monitor!Acted \/ Monitor!Interrupt
    <2>1. /\ UNCHANGED <<monitorAsked, monitorAnswers, monitorSince, monitorData>>
          /\ monitorPc["watch"] = "read" => monitorPc'["watch"] = "read"
      BY <1>10 DEF Monitor!Sample, Monitor!Acted, Monitor!Interrupt, Monitor!Fails
    <2> QED
      BY <1>7, <2>1
  <1> QED
    BY <1>3, <1>4, <1>5, <1>6, <1>7, <1>8, <1>9, <1>10 DEF Monitor!Next, Monitor!UserStep

\* A sample is an answer to the metrics thread, and what the watch acts on was true
\* after it asked.
LEMMA OwnKeeps == MonitorInv /\ [Monitor!Next]_(Monitor!vars) => Monitor!AnswersOwn'
  <1> SUFFICES ASSUME MonitorInv, [Monitor!Next]_(Monitor!vars) PROVE Monitor!AnswersOwn'
    OBVIOUS
  <1> USE DEF MonitorInv, OneReader, MonitorTypes, Monitor!Users, Places, AnswerRead,
              Monitor!obs, Monitor!AnswersOwn
  <1>1. CASE Monitor!Sample
    <2>1. CASE Monitor!Parses(monitorData)
      BY <1>1, <2>1 DEF Monitor!Sample, Monitor!Parses, Monitor!Complete
    <2>2. CASE ~Monitor!Parses(monitorData)
      BY <1>1, <2>2 DEF Monitor!Sample, Monitor!Fails
    <2> QED
      BY <2>1, <2>2
  <1>2. CASE Monitor!UseState
    <2>1. PICK i \in DOMAIN monitorData : monitorData[i].cmd = "watch"
      BY <1>2 DEF Monitor!UseState, Monitor!Complete
    <2>2. i = Len(monitorData) /\ (~monitorLate => monitorData[i].says >= monitorSince)
      BY <1>2, <2>1 DEF Monitor!UseState, Fresh
    <2>3. monitorUsed' = monitorData[i].says
      BY <1>2, <2>2 DEF Monitor!UseState, Monitor!Last
    <2>4. UNCHANGED <<monitorLate, monitorSince, monitorShown>>
      BY <1>2 DEF Monitor!UseState
    <2> QED
      BY <2>2, <2>3, <2>4
  <1>3. ASSUME NEW u \in Monitor!Users, Monitor!Send(u) PROVE Monitor!AnswersOwn'
    BY <1>3 DEF Monitor!Send
  <1>4. CASE /\ UNCHANGED <<monitorShown, monitorUsed, monitorSince>>
             /\ monitorPc'["watch"] = "used" => monitorPc["watch"] = "used"
             /\ monitorLate => monitorLate'
    BY <1>4
  <1>5. \/ Monitor!Sample \/ Monitor!UseState \/ \E u \in Monitor!Users : Monitor!Send(u)
        \/ /\ UNCHANGED <<monitorShown, monitorUsed, monitorSince>>
           /\ monitorPc'["watch"] = "used" => monitorPc["watch"] = "used"
           /\ monitorLate => monitorLate'
    BY DEF Monitor!Next, Monitor!UserStep, Monitor!Change, Monitor!Answer,
           Monitor!Acted, Monitor!Interrupt, Monitor!Pause, Monitor!Take, Monitor!Recv,
           Monitor!Broken, Monitor!Ends, Monitor!Timeout, Monitor!Fails, Monitor!vars
  <1> QED
    BY <1>1, <1>2, <1>3, <1>4, <1>5

\* Each user of the connection acts on the answer to its own question.
LEMMA MonitorOwn == Spec => []Monitor!AnswersOwn
  <1>1. MonitorInv /\ [Monitor!Next]_(Monitor!vars) => MonitorInv'
    BY MonitorTyped, MonitorLocked, AnswerReadKeeps, NothingOldKeeps, OwnKeeps
       DEF MonitorInv
  <1>2. MonitorInv => Monitor!AnswersOwn
    BY DEF MonitorInv
  <1> QED
    BY <1>1, <1>2, MonitorInit, MonitorBehaves, PTL

------------------------------------------------------------------------------
(* The control port.                                                          *)

\* What happens at the control port is what ControlPort says.
LEMMA PortBehaves == Spec => Port!Init /\ [][Port!Next]_(Port!vars)
  <1>1. Init => Port!Init
    BY DEF Init
  <1>2. [Next]_vars => [Port!Next]_(Port!vars)
    BY DEF Next, TreeSteps, MonitorSteps, ArtifactsSteps, RenodeSteps, SourceSteps,
           WindowSteps, FleetSteps, LinkerSteps, DshotSteps, MacrosSteps, ImagesSteps,
           PortSteps, vars, portVars, Port!vars, Port!port, Port!window
  <1> QED
    BY <1>1, <1>2, PTL DEF Spec

\* Every command and every answer that is under way carries the number of its line, and
\* the verb of that line; a client waits for the answer to its last line.
Verbs == {"target", "set", "start", "stop", "other"}
Commands == [client : Clients, n : Nat, verb : {"target"}, arg : Targets]
            \cup [client : Clients, n : Nat, verb : {"set"}, arg : Settings]
            \cup [client : Clients, n : Nat, verb : {"start", "stop", "other"}, arg : {"-"}]
Given == {"OK", "ERR", "timeout"}
Answers == [client : Clients, n : Nat, verb : Verbs, answer : Given,
            target : Targets \cup {"none"}]
Answered == [verb : Verbs, answer : Given, target : Targets \cup {"none"}]
PortTypes ==
    /\ portSent \in [Clients -> Seq(Verbs)] /\ portReplies \in [Clients -> Seq(Answered)]
    /\ portAsked \in [Clients -> Commands \cup {Port!None}]
    /\ portPending \in Seq(Commands) /\ portDone \subseteq Answers
    /\ portBusy \in Commands \cup {Port!None}
    /\ portTarget \in Targets \cup {"none"} /\ portResolving \subseteq Targets
OfLine(m) == m.n \in DOMAIN portSent[m.client] /\ portSent[m.client][m.n] = m.verb
Waits(c) ==
    portAsked[c] # Port!None =>
        /\ portAsked[c].client = c /\ portAsked[c].n = Len(portSent[c])
        /\ OfLine(portAsked[c])
UnderWay ==
    /\ \A i \in DOMAIN portPending : OfLine(portPending[i])
    /\ \A d \in portDone : OfLine(d)
    /\ portBusy # Port!None => OfLine(portBusy)
PortInv ==
    /\ PortTypes /\ UnderWay /\ Port!RepliesOwn
    /\ \A c \in Clients : Waits(c)

\* No client has sent a line.
LEMMA PortInit == Port!Init => PortInv
  <1> SUFFICES ASSUME Port!Init PROVE PortInv
    OBVIOUS
  <1>1. PortTypes
    <2>1. /\ portSent \in [Clients -> Seq(Verbs)] /\ portReplies \in [Clients -> Seq(Answered)]
          /\ portAsked \in [Clients -> Commands \cup {Port!None}]
      BY DEF Port!Init
    <2>2. portPending \in Seq(Commands)
      BY DEF Port!Init
    <2>3. /\ portDone \subseteq Answers /\ portBusy \in Commands \cup {Port!None}
          /\ portTarget \in Targets \cup {"none"} /\ portResolving \subseteq Targets
      BY DEF Port!Init
    <2> QED
      BY <2>1, <2>2, <2>3 DEF PortTypes
  <1>2. UnderWay /\ \A c \in Clients : Waits(c)
    BY DEF Port!Init, UnderWay, Waits
  <1>3. Port!RepliesOwn
    BY DEF Port!Init, Port!RepliesOwn
  <1> QED
    BY <1>1, <1>2, <1>3 DEF PortInv

\* A command is not the absence of one.
LEMMA SomeCommand == \A m \in Commands : m # Port!None /\ m.verb \in Verbs /\ m.client \in Clients
  BY DEF Commands, Port!None, Verbs

\* A line more leaves those before it what they were.
LEMMA SendKeeps ==
    ASSUME PortInv, NEW c \in Clients, Port!Send(c) PROVE PortInv'
  <1> USE DEF PortInv, PortTypes
  <1>1. PICK m \in Commands :
          /\ m.client = c /\ m.n = Len(portSent[c]) + 1
          /\ portSent' = [portSent EXCEPT ![c] = Append(portSent[c], m.verb)]
          /\ portAsked' = [portAsked EXCEPT ![c] = m] /\ portPending' = Append(portPending, m)
    <2>1. PICK l \in Port!Lines :
            LET m == [client |-> c, n |-> Len(portSent[c]) + 1, verb |-> l.verb, arg |-> l.arg]
            IN /\ portSent' = [portSent EXCEPT ![c] = Append(@, l.verb)]
               /\ portAsked' = [portAsked EXCEPT ![c] = m]
               /\ portPending' = Append(portPending, m)
      BY DEF Port!Send
    <2> DEFINE q == [client |-> c, n |-> Len(portSent[c]) + 1, verb |-> l.verb, arg |-> l.arg]
    <2>2. q \in Commands /\ q.verb = l.verb /\ q.client = c /\ q.n = Len(portSent[c]) + 1
      BY DEF Port!Lines, Commands
    <2> QED
      BY <2>1, <2>2
  <1>2. portAsked[c] = Port!None /\ UNCHANGED <<portReplies, portDone, portBusy, Port!window>>
    BY DEF Port!Send
  <1>3. m.verb \in Verbs /\ m # Port!None /\ m.n \in Nat
    BY SomeCommand DEF Commands
  <1>4. /\ Append(portSent[c], m.verb) \in Seq(Verbs)
        /\ Len(Append(portSent[c], m.verb)) = m.n /\ m.n \in DOMAIN Append(portSent[c], m.verb)
        /\ Append(portSent[c], m.verb)[m.n] = m.verb
        /\ \A k \in DOMAIN portSent[c] :
             /\ k \in DOMAIN Append(portSent[c], m.verb)
             /\ Append(portSent[c], m.verb)[k] = portSent[c][k]
    BY <1>1, <1>3, Appended
  <1>6. PortTypes'
    <2>1. portSent' \in [Clients -> Seq(Verbs)]
      BY <1>1, <1>4
    <2>2. portPending' \in Seq(Commands)
      BY <1>1, Appended
    <2>3. portAsked' \in [Clients -> Commands \cup {Port!None}]
      BY <1>1
    <2> QED
      BY <1>2, <2>1, <2>2, <2>3 DEF Port!window
  <1>7. /\ portSent'[c] = Append(portSent[c], m.verb)
        /\ \A d \in Clients \ {c} : portSent'[d] = portSent[d]
    BY <1>1
  <1>8. \A d \in Clients : \A k \in DOMAIN portSent[d] :
          k \in DOMAIN portSent'[d] /\ portSent'[d][k] = portSent[d][k]
    BY <1>4, <1>7
  <1>9. Len(portSent'[c]) = m.n
    BY <1>4, <1>7
  <1> DEFINE After(x) == x.n \in DOMAIN portSent'[x.client] /\ portSent'[x.client][x.n] = x.verb
  <1>10. \A x : x.client \in Clients /\ OfLine(x) => After(x)
    BY <1>8 DEF OfLine
  <1>11. After(m)
    BY <1>1, <1>4, <1>7
  <1>12. UnderWay'
    <2>1. ASSUME NEW i \in DOMAIN portPending' PROVE After(portPending'[i])
      <3>1. \/ i \in DOMAIN portPending /\ portPending'[i] = portPending[i]
            \/ portPending'[i] = m
        BY <1>1, Appended
      <3>2. i \in DOMAIN portPending => portPending[i].client \in Clients /\ OfLine(portPending[i])
        BY SomeCommand DEF UnderWay
      <3> QED
        BY <1>10, <1>11, <3>1, <3>2
    <2>2. ASSUME NEW d \in portDone PROVE After(d)
      BY <1>10 DEF UnderWay, Answers
    <2>3. portBusy # Port!None => After(portBusy)
      BY <1>10, SomeCommand DEF UnderWay
    <2> QED
      BY <1>2, <2>1, <2>2, <2>3 DEF UnderWay, OfLine
  <1>13. \A d \in Clients : Waits(d)'
    <2>1. Waits(c)'
      BY <1>1, <1>9, <1>11 DEF Waits, OfLine
    <2>2. ASSUME NEW d \in Clients \ {c} PROVE Waits(d)'
      BY <1>1, <1>7 DEF Waits, OfLine
    <2> QED
      BY <2>1, <2>2
  <1>14. Port!RepliesOwn'
    <2>1. Len(portSent'[c]) = Len(portReplies'[c]) + 1 /\ portAsked'[c] # Port!None
      BY <1>1, <1>2, <1>3, <1>9 DEF Port!RepliesOwn
    <2>2. \A d \in Clients : \A k \in DOMAIN portReplies'[d] :
            portReplies'[d][k].verb = portSent'[d][k]
      <3> SUFFICES ASSUME NEW d \in Clients, NEW k \in DOMAIN portReplies[d]
                   PROVE  portReplies[d][k].verb = portSent'[d][k]
        BY <1>2
      <3>1. portReplies[d][k].verb = portSent[d][k] /\ Len(portReplies[d]) <= Len(portSent[d])
        BY DEF Port!RepliesOwn
      <3>2. k \in Nat /\ k \in DOMAIN portSent[d]
        BY <3>1
      <3> QED
        BY <3>1, <3>2, <1>8
    <2> QED
      BY <1>1, <1>2, <1>7, <2>1, <2>2 DEF Port!RepliesOwn
  <1> QED
    BY <1>6, <1>12, <1>13, <1>14

\* A reply, whether the window's or that of the clock, is to the last line.
LEMMA ReplyKeeps ==
    ASSUME PortInv, NEW c \in Clients, Port!Answered(c) \/ Port!TimesOut(c) PROVE PortInv'
  <1> USE DEF PortInv, PortTypes
  <1>1. PICK a \in Answered :
          /\ portAsked[c] # Port!None /\ a.verb = portAsked[c].verb
          /\ Port!Reply(c, a) /\ portDone' \subseteq portDone
          /\ UNCHANGED <<portSent, portPending, portBusy, Port!window>>
    <2>1. CASE Port!Answered(c)
      <3>1. PICK d \in portDone :
              /\ d.client = c /\ portAsked[c] # Port!None /\ d.n = portAsked[c].n
              /\ Port!Reply(c, [verb |-> d.verb, answer |-> d.answer, target |-> d.target])
              /\ portDone' = portDone \ {d}
        BY <2>1 DEF Port!Answered
      <3>2. d.verb = portAsked[c].verb
        BY <3>1 DEF UnderWay, Waits, OfLine
      <3>3. [verb |-> d.verb, answer |-> d.answer, target |-> d.target] \in Answered
        BY DEF Answers, Answered
      <3>4. UNCHANGED <<portSent, portPending, portBusy, Port!window>>
        BY <2>1 DEF Port!Answered
      <3> QED
        BY <3>1, <3>2, <3>3, <3>4
    <2>2. CASE Port!TimesOut(c)
      <3>1. [verb |-> portAsked[c].verb, answer |-> "timeout", target |-> portTarget] \in Answered
        BY <2>2, SomeCommand DEF Port!TimesOut, Answered, Given
      <3> QED
        BY <2>2, <3>1 DEF Port!TimesOut
    <2> QED
      BY <2>1, <2>2
  <1>2. /\ portReplies' = [portReplies EXCEPT ![c] = Append(portReplies[c], a)]
        /\ portAsked' = [portAsked EXCEPT ![c] = Port!None]
    BY <1>1 DEF Port!Reply
  <1>3. /\ Append(portReplies[c], a) \in Seq(Answered)
        /\ Len(Append(portReplies[c], a)) = Len(portReplies[c]) + 1
    BY <1>1, Appended
  <1>4. PortTypes'
    <2>1. portReplies' \in [Clients -> Seq(Answered)]
      BY <1>2, <1>3
    <2>2. portAsked' \in [Clients -> Commands \cup {Port!None}]
      BY <1>2
    <2> QED
      BY <1>1, <2>1, <2>2 DEF Port!window
  <1>5. UnderWay'
    BY <1>1 DEF UnderWay, OfLine
  <1>6. \A d \in Clients : Waits(d)'
    BY <1>1, <1>2 DEF Waits, OfLine
  <1>7. Port!RepliesOwn'
    <2>1. ASSUME NEW d \in Clients, d # c
          PROVE  portReplies'[d] = portReplies[d] /\ portAsked'[d] = portAsked[d]
      BY <1>2, <2>1
    <2>2. /\ portReplies'[c] = Append(portReplies[c], a) /\ portAsked'[c] = Port!None
          /\ Len(portSent[c]) = Len(portReplies[c]) + 1
          /\ \A k \in DOMAIN portReplies[c] : portReplies[c][k].verb = portSent[c][k]
      BY <1>1, <1>2 DEF Port!RepliesOwn
    <2>3. portSent[c][Len(portReplies[c]) + 1] = a.verb
      BY <1>1, <2>2 DEF Waits, OfLine
    <2>4. \A k \in DOMAIN portReplies'[c] : portReplies'[c][k].verb = portSent[c][k]
      BY <1>1, <2>2, <2>3, Appended
    <2>5. Len(portSent[c]) = Len(portReplies'[c])
      BY <1>3, <2>2
    <2>6. portSent' = portSent
      BY <1>1
    <2>7. ASSUME NEW d \in Clients
          PROVE  /\ Len(portSent[d]) = Len(portReplies'[d])
                                      + IF portAsked'[d] = Port!None THEN 0 ELSE 1
                 /\ \A k \in DOMAIN portReplies'[d] : portReplies'[d][k].verb = portSent[d][k]
      <3>1. CASE d = c
        BY <2>2, <2>4, <2>5, <3>1
      <3>2. CASE d # c
        <4>1. portReplies'[d] = portReplies[d] /\ portAsked'[d] = portAsked[d]
          BY <2>1, <3>2
        <4> QED
          BY <4>1 DEF Port!RepliesOwn
      <3> QED
        BY <3>1, <3>2
    <2> QED
      BY <2>6, <2>7 DEF Port!RepliesOwn
  <1> QED
    BY <1>4, <1>5, <1>6, <1>7

\* The window answers the lines it was given.
LEMMA WindowKeeps ==
    ASSUME PortInv, [Port!Next]_(Port!vars),
           \A c \in Clients : ~Port!Send(c) /\ ~Port!Answered(c) /\ ~Port!TimesOut(c)
    PROVE  PortInv'
  <1> USE DEF PortInv, PortTypes
  <1>1. UNCHANGED <<portSent, portReplies, portAsked>>
    BY DEF Port!Next, Port!vars, Port!port, Port!CmdTarget, Port!Resolved,
           Port!TargetReached, Port!TargetGivenUp, Port!CmdSet, Port!CmdStart,
           Port!ArtifactsReady, Port!CmdStop, Port!CmdOther, Port!Take
  <1>2. /\ \A c \in Clients : Waits(c)'
        /\ Port!RepliesOwn'
    BY <1>1 DEF Waits, Port!RepliesOwn, OfLine
  <1>3. \A x : OfLine(x) => OfLine(x)'
    BY <1>1 DEF OfLine
  <1>4. ASSUME portPending # <<>>
        PROVE  Port!Took \in Commands /\ OfLine(Port!Took)
    BY <1>4, Taken DEF Port!Took, UnderWay
  <1>5. portPending' \in Seq(Commands) /\ \A i \in DOMAIN portPending' : OfLine(portPending'[i])
    <2>1. portPending' = portPending \/ (portPending # <<>> /\ portPending' = Tail(portPending))
      BY DEF Port!Next, Port!vars, Port!port, Port!CmdTarget, Port!Resolved,
             Port!TargetReached, Port!TargetGivenUp, Port!CmdSet, Port!CmdStart,
             Port!ArtifactsReady, Port!CmdStop, Port!CmdOther, Port!Take
    <2>2. ASSUME portPending # <<>>, NEW i \in DOMAIN Tail(portPending)
          PROVE  OfLine(Tail(portPending)[i])
      BY <2>2, Taken DEF UnderWay
    <2>3. portPending # <<>> => Tail(portPending) \in Seq(Commands)
      BY Taken
    <2> QED
      BY <2>1, <2>2, <2>3 DEF UnderWay
  <1>6. portTarget' \in Targets \cup {"none"} /\ portResolving' \subseteq Targets
    <2>1. CASE Port!CmdTarget
      <3>1. Port!Took.arg \in Targets
        BY <2>1, <1>4 DEF Port!CmdTarget, Port!Take, Port!Took, Commands
      <3> QED
        BY <2>1, <3>1 DEF Port!CmdTarget, Port!Chosen
    <2>2. CASE Port!Resolved
      BY <2>2 DEF Port!Resolved
    <2> QED
      BY <2>1, <2>2 DEF Port!Next, Port!vars, Port!window, Port!TargetReached,
         Port!TargetGivenUp, Port!CmdSet, Port!CmdStart, Port!ArtifactsReady, Port!CmdStop,
         Port!CmdOther
  <1>7. ASSUME NEW m \in Commands, OfLine(m), NEW a \in Given, Port!Done(m, a)
        PROVE  portDone' \subseteq Answers /\ \A d \in portDone' : OfLine(d)
    <2> DEFINE d == [client |-> m.client, n |-> m.n, verb |-> m.verb, answer |-> a,
                     target |-> portTarget']
    <2>1. d \in Answers
      BY <1>6, SomeCommand DEF Answers, Commands
    <2>2. OfLine(d)
      BY <1>7 DEF OfLine
    <2>3. portDone' = portDone \cup {d}
      BY <1>7 DEF Port!Done
    <2> QED
      BY <2>1, <2>2, <2>3 DEF UnderWay
  <1>8. portDone' \subseteq Answers /\ \A d \in portDone' : OfLine(d)
    <2>1. CASE Port!TargetReached \/ Port!TargetGivenUp
      <3>1. portBusy \in Commands /\ OfLine(portBusy)
        BY <2>1 DEF Port!TargetReached, Port!TargetGivenUp, UnderWay
      <3> QED
        BY <2>1, <3>1, <1>7 DEF Port!TargetReached, Port!TargetGivenUp, Given
    <2>2. CASE Port!CmdSet \/ Port!CmdStart \/ Port!CmdStop
      <3>1. portPending # <<>> /\ \E a \in Given : Port!Done(Port!Took, a)
        BY <2>2 DEF Port!CmdSet, Port!CmdStart, Port!CmdStop, Port!Take, Given
      <3> QED
        BY <3>1, <1>4, <1>7
    <2>3. CASE Port!CmdOther
      <3>1. portPending # <<>> /\ (Port!Done(Port!Took, "OK") \/ portDone' = portDone)
        BY <2>3 DEF Port!CmdOther, Port!Take
      <3> QED
        BY <3>1, <1>4, <1>7 DEF Given, UnderWay
    <2>4. portDone' = portDone \/ Port!TargetReached \/ Port!TargetGivenUp \/ Port!CmdSet
          \/ Port!CmdStart \/ Port!CmdStop \/ Port!CmdOther
      BY DEF Port!Next, Port!vars, Port!CmdTarget, Port!Resolved, Port!ArtifactsReady
    <2> QED
      BY <2>1, <2>2, <2>3, <2>4 DEF UnderWay
  <1>9. portBusy' \in Commands \cup {Port!None} /\ (portBusy' # Port!None => OfLine(portBusy'))
    <2>1. CASE Port!CmdTarget
      BY <2>1, <1>4 DEF Port!CmdTarget, Port!Take
    <2>2. portBusy' = portBusy \/ portBusy' = Port!None \/ Port!CmdTarget
      BY DEF Port!Next, Port!vars, Port!Resolved, Port!TargetReached, Port!TargetGivenUp,
             Port!CmdSet, Port!CmdStart, Port!ArtifactsReady, Port!CmdStop, Port!CmdOther
    <2> QED
      BY <2>1, <2>2 DEF UnderWay
  <1>10. UnderWay'
    BY <1>3, <1>5, <1>8, <1>9 DEF UnderWay
  <1>11. PortTypes'
    BY <1>1, <1>5, <1>6, <1>8, <1>9
  <1> QED
    BY <1>2, <1>10, <1>11

\* A reply is to the line it follows, however late the window's answers come.
LEMMA PortOwn == Spec => []Port!RepliesOwn
  <1>1. PortInv /\ [Port!Next]_(Port!vars) => PortInv'
    BY SendKeeps, ReplyKeeps, WindowKeeps
  <1>2. PortInv => Port!RepliesOwn
    BY DEF PortInv
  <1> QED
    BY <1>1, <1>2, PortInit, PortBehaves, PTL

\* What runs has the settings that are shown.
LEMMA PortSettled == Spec => []Port!RunSettled
  <1>1. Port!Init => Port!RunSettled
    BY DEF Port!Init, Port!RunSettled, Port!Running
  <1>2. Port!RunSettled /\ [Port!Next]_(Port!vars) => Port!RunSettled'
    <2> SUFFICES ASSUME Port!RunSettled, [Port!Next]_(Port!vars)
                 PROVE  Port!RunSettled'
      OBVIOUS
    <2> USE DEF Port!RunSettled, Port!Running
    <2>1. ASSUME UNCHANGED <<portLaunch, portSetting>> PROVE Port!RunSettled'
      BY <2>1
    <2>2. CASE \E c \in Clients : Port!Send(c) \/ Port!Answered(c) \/ Port!TimesOut(c)
      BY <2>1, <2>2 DEF Port!Send, Port!Answered, Port!TimesOut, Port!window
    <2>3. CASE Port!CmdTarget \/ Port!Resolved
      BY <2>3 DEF Port!CmdTarget, Port!Chosen, Port!Resolved
    <2>4. CASE Port!TargetReached \/ Port!TargetGivenUp \/ Port!CmdOther
      BY <2>1, <2>4 DEF Port!TargetReached, Port!TargetGivenUp, Port!CmdOther, Port!window
    <2>5. CASE Port!CmdSet
      BY <2>5 DEF Port!CmdSet
    <2>6. CASE Port!CmdStart \/ Port!ArtifactsReady
      BY <2>6 DEF Port!CmdStart, Port!ArtifactsReady, Port!Starts
    <2>7. CASE Port!CmdStop
      BY <2>7 DEF Port!CmdStop
    <2>8. CASE UNCHANGED Port!vars
      BY <2>1, <2>8 DEF Port!vars
    <2> QED
      BY <2>2, <2>3, <2>4, <2>5, <2>6, <2>7, <2>8 DEF Port!Next
  <1> QED
    BY <1>1, <1>2, PortBehaves, PTL

------------------------------------------------------------------------------
(* The bridge on the wire of the bench.                                       *)

\* What happens on the bench's serial link is what SerialLinker says.
LEMMA LinkerBehaves == Spec => Linker!Init /\ [][Linker!Next]_(Linker!vars)
  <1>1. Init => Linker!Init
    BY DEF Init
  <1>2. [Next]_vars => [Linker!Next]_(Linker!vars)
    BY DEF Next, TreeSteps, MonitorSteps, ArtifactsSteps, RenodeSteps, SourceSteps,
           WindowSteps, FleetSteps, LinkerSteps, DshotSteps, MacrosSteps, ImagesSteps,
           PortSteps, vars, linkerVars, Linker!vars, Linker!bridgeVars
  <1> QED
    BY <1>1, <1>2, PTL DEF Spec

\* Whether and how often a sequence has something.
In(s, x) == \E i \in DOMAIN s : s[i] = x
OnceIn(s, x) == \A i, j \in DOMAIN s : s[i] = x /\ s[j] = x => i = j

\* One more.
LEMMA InAppended ==
    ASSUME NEW S, NEW s \in Seq(S), NEW e \in S, NEW x
    PROVE  /\ In(Append(s, e), x) <=> In(s, x) \/ e = x
           /\ OnceIn(s, x) /\ ~(In(s, x) /\ e = x) => OnceIn(Append(s, e), x)
  <1> DEFINE a == Append(s, e)
  <1>1. /\ DOMAIN a = 1..(Len(s) + 1) /\ DOMAIN s = 1..Len(s) /\ Len(s) \in Nat
        /\ a[Len(s) + 1] = e /\ \A i \in DOMAIN s : a[i] = s[i]
    BY Appended
  <1>2. \A i \in DOMAIN a : i \in DOMAIN s \/ i = Len(s) + 1
    BY <1>1
  <1>3. Len(s) + 1 \in DOMAIN a /\ DOMAIN s \subseteq DOMAIN a
    BY <1>1
  <1> HIDE DEF a
  <1> QED
    BY <1>1, <1>2, <1>3 DEF In, OnceIn, a

\* One less, the first.
LEMMA InTaken ==
    ASSUME NEW S, NEW s \in Seq(S), s # <<>>, NEW x
    PROVE  /\ In(Tail(s), x) \/ Head(s) = x <=> In(s, x)
           /\ OnceIn(s, x) => OnceIn(Tail(s), x) /\ (Head(s) = x => ~In(Tail(s), x))
  <1> DEFINE b == Tail(s)
  <1>1. /\ Head(s) = s[1] /\ 1 \in DOMAIN s /\ DOMAIN b \subseteq Nat \ {0}
        /\ \A i \in DOMAIN b : i + 1 \in DOMAIN s /\ b[i] = s[i + 1]
        /\ \A i \in DOMAIN s : i = 1 \/ (i - 1 \in DOMAIN b /\ b[i - 1] = s[i])
    OBVIOUS
  <1> HIDE DEF b
  <1>2. In(b, x) \/ Head(s) = x <=> In(s, x)
    BY <1>1 DEF In
  <1>3. OnceIn(s, x) => OnceIn(b, x)
    BY <1>1 DEF OnceIn
  <1>4. OnceIn(s, x) /\ Head(s) = x => ~In(b, x)
    BY <1>1 DEF OnceIn, In
  <1> QED
    BY <1>2, <1>3, <1>4 DEF b

\* Bytes on the link are tuples of chunks that are not empty.  Once the second chunk has
\* been sent, the bridge is connected: only the probe is ever sent again.
Bursts == Seq(Nat) \ {<<>>}
Handed == ({"echo"} \X Bursts) \cup ({"answer"} \X Nat)
LinkerTypes ==
    /\ linkerAsked \in Nat /\ linkerRuns \in [Linker!Chunks -> Nat]
    /\ linkerInbound \in Seq(Bursts) /\ linkerEchoes \in Seq(Bursts)
    /\ linkerWire \in Seq(Bursts) /\ linkerPending \in Seq(Nat)
    /\ linkerAnswers \in Seq(Nat) /\ linkerWritten \in Seq(Handed)
Connects ==
    /\ linkerAsked >= 2 => linkerConnected
    /\ linkerSeen # {} => linkerConnected
Unsent(c) ==
    c > linkerAsked =>
        /\ ~In(linkerInbound, <<c>>) /\ ~In(linkerWire, <<c>>) /\ ~In(linkerEchoes, <<c>>)
        /\ ~In(linkerWritten, <<"echo", <<c>>>>) /\ linkerPending # <<c>>
        /\ linkerRuns[c] = 0
OnWire(c) ==
    /\ OnceIn(linkerInbound, <<c>>) /\ OnceIn(linkerWire, <<c>>)
    /\ ~(In(linkerInbound, <<c>>) /\ In(linkerWire, <<c>>))
    /\ In(linkerInbound, <<c>>) \/ In(linkerWire, <<c>>) => linkerRuns[c] = 0
    /\ linkerRuns[c] <= 1
InEcho(c) ==
    /\ OnceIn(linkerEchoes, <<c>>) /\ OnceIn(linkerWritten, <<"echo", <<c>>>>)
    /\ ~(In(linkerInbound, <<c>>) /\ In(linkerEchoes, <<c>>))
    /\ In(linkerInbound, <<c>>) \/ In(linkerEchoes, <<c>>)
         => ~In(linkerWritten, <<"echo", <<c>>>>)
Written == Linker!Chunks \ {1}
LinkerInv ==
    /\ LinkerTypes /\ Connects
    /\ \A c \in Written : Unsent(c) /\ OnWire(c) /\ InEcho(c)

\* Nothing is on the link.
LEMMA LinkerInit == Linker!Init => LinkerInv
  <1> SUFFICES ASSUME Linker!Init PROVE LinkerInv
    OBVIOUS
  <1>1. LinkerTypes
    <2>1. /\ linkerInbound \in Seq(Bursts) /\ linkerEchoes \in Seq(Bursts)
          /\ linkerWire \in Seq(Bursts) /\ linkerPending \in Seq(Nat)
          /\ linkerAnswers \in Seq(Nat) /\ linkerWritten \in Seq(Handed)
      BY DEF Linker!Init, Linker!None
    <2>2. linkerAsked \in Nat /\ linkerRuns \in [Linker!Chunks -> Nat]
      BY DEF Linker!Init
    <2> QED
      BY <2>1, <2>2 DEF LinkerTypes
  <1>2. Connects
    BY DEF Linker!Init, Connects
  <1>3. ASSUME NEW c \in Written PROVE Unsent(c) /\ OnWire(c) /\ InEcho(c)
    <2>1. <<>> # <<c>>
      OBVIOUS
    <2> QED
      BY <2>1 DEF Linker!Init, Linker!None, Unsent, OnWire, InEcho, In, OnceIn, Written
  <1> QED
    BY <1>1, <1>2, <1>3 DEF LinkerInv

\* What the host sends: the probe, or one chunk more when the last was answered; what
\* arrives of it is the chunk, the chunk twice, something else, or nothing.
LEMMA HostSent ==
    ASSUME LinkerInv, Linker!HostSends
    PROVE  /\ linkerAsked' = 1 \/ (linkerAsked' = linkerAsked + 1 /\ linkerConnected)
           /\ linkerAsked' >= linkerAsked /\ linkerAsked' \in Nat
           /\ \/ linkerInbound' = linkerInbound
              \/ \E g \in {<<linkerAsked'>>, <<linkerAsked', linkerAsked'>>, <<0>>} :
                    linkerInbound' = Append(linkerInbound, g)
           /\ UNCHANGED <<Linker!bridgeVars, linkerWire, linkerEsc, linkerRuns, linkerAnswers,
                          linkerSeen>>
  <1> USE DEF LinkerInv, LinkerTypes, Connects
  <1>1. /\ linkerAsked' = 1 \/ (linkerAsked' = linkerAsked + 1 /\ linkerConnected)
        /\ linkerAsked' >= linkerAsked /\ linkerAsked' \in Nat
    BY DEF Linker!HostSends
  <1>2. PICK f \in Linker!Faulted(linkerAsked') :
          linkerInbound' = IF f[1] = <<>> THEN linkerInbound ELSE Append(linkerInbound, f[1])
    BY DEF Linker!HostSends
  <1>3. f[1] \in {<<linkerAsked'>>, <<linkerAsked', linkerAsked'>>, <<0>>, <<>>}
    BY <1>2 DEF Linker!Faulted
  <1> QED
    BY <1>1, <1>2, <1>3 DEF Linker!HostSends

\* A chunk that the host has not sent before, or has sent for the first time.
LEMMA HostSendsKeeps ==
    ASSUME LinkerInv, Linker!HostSends PROVE LinkerInv'
  <1> USE DEF LinkerInv, LinkerTypes, Connects, Linker!bridgeVars
  <1>1. CASE linkerInbound' = linkerInbound
    <2>1. LinkerTypes' /\ Connects'
      BY <1>1, HostSent
    <2>2. ASSUME NEW c \in Written PROVE Unsent(c)' /\ OnWire(c)' /\ InEcho(c)'
      <3>1. c \in Nat /\ linkerAsked' >= linkerAsked /\ linkerAsked' \in Nat
        BY HostSent, HostAssumption DEF Written, Linker!Chunks
      <3>2. UNCHANGED <<linkerWire, linkerEchoes, linkerWritten, linkerPending, linkerRuns>>
        BY HostSent
      <3>a. c > linkerAsked' => c > linkerAsked
        BY <3>1
      <3>3. Unsent(c)'
        BY <1>1, <3>a, <3>2, Zenon DEF Unsent
      <3>4. OnWire(c)' /\ InEcho(c)'
        BY <1>1, <3>2 DEF OnWire, InEcho
      <3> QED
        BY <3>3, <3>4
    <2> QED
      BY <2>1, <2>2
  <1>2. ASSUME NEW g \in {<<linkerAsked'>>, <<linkerAsked', linkerAsked'>>, <<0>>},
               linkerInbound' = Append(linkerInbound, g)
        PROVE  LinkerInv'
    <2>1. g \in Bursts
      <3>1. \A n, m \in Nat : <<n>> \in Seq(Nat) /\ <<n, m>> \in Seq(Nat)
        OBVIOUS
      <3>2. \A n, m \in Nat : Len(<<n>>) = 1 /\ Len(<<n, m>>) = 2
        OBVIOUS
      <3>3. linkerAsked' \in Nat
        BY HostSent
      <3>4. CASE g = <<linkerAsked'>>
        BY <3>1, <3>2, <3>3, <3>4 DEF Bursts
      <3>5. CASE g = <<linkerAsked', linkerAsked'>>
        BY <3>1, <3>2, <3>3, <3>5 DEF Bursts
      <3>6. CASE g = <<0>>
        BY <3>1, <3>2, <3>6 DEF Bursts
      <3> QED
        BY <1>2, <3>4, <3>5, <3>6
    <2>2. LinkerTypes' /\ Connects'
      <3>1. linkerInbound' \in Seq(Bursts)
        BY <1>2, <2>1, Appended
      <3> QED
        BY <3>1, HostSent
    <2>3. ASSUME NEW c \in Written PROVE Unsent(c)' /\ OnWire(c)' /\ InEcho(c)'
      <3>1. c \in Nat /\ c >= 2
        BY HostAssumption DEF Written, Linker!Chunks
      <3>2. g = <<c>> => c = linkerAsked' /\ c > linkerAsked
        <4>1. <<0>> # <<c>> /\ <<linkerAsked', linkerAsked'>> # <<c>>
          BY <3>1
        <4>2. <<linkerAsked'>> = <<c>> => linkerAsked' = c
          OBVIOUS
        <4> QED
          BY <3>1, <4>1, <4>2, HostSent
      <3>3. /\ In(linkerInbound', <<c>>) <=> In(linkerInbound, <<c>>) \/ g = <<c>>
            /\ OnceIn(linkerInbound, <<c>>) /\ ~(In(linkerInbound, <<c>>) /\ g = <<c>>)
                 => OnceIn(linkerInbound', <<c>>)
        BY <1>2, <2>1, InAppended
      <3>4. UNCHANGED <<linkerWire, linkerEchoes, linkerWritten, linkerPending, linkerRuns>>
            /\ linkerAsked' >= linkerAsked /\ linkerAsked' \in Nat
        BY HostSent
      <3>5. (c > linkerAsked' => c > linkerAsked) /\ ~(c = linkerAsked' /\ c > linkerAsked')
        BY <3>1, <3>4
      <3>6. g = <<c>> => Unsent(c) /\ c > linkerAsked /\ ~(c > linkerAsked')
        BY <3>2, <3>5
      <3>7. Unsent(c)'
        BY <3>3, <3>4, <3>5, <3>6 DEF Unsent
      <3>8. OnWire(c)'
        BY <3>3, <3>4, <3>6 DEF OnWire, Unsent
      <3>9. InEcho(c)'
        BY <3>3, <3>4, <3>6 DEF InEcho, Unsent
      <3> QED
        BY <3>7, <3>8, <3>9
    <2> QED
      BY <2>2, <2>3
  <1> QED
    BY <1>1, <1>2, HostSent

\* Two chunks or more are not one.
LEMMA NotAlone == \A b \in Seq(Nat) : Len(b) >= 2 => \A c : b # <<c>>
  <1> SUFFICES ASSUME NEW b \in Seq(Nat), Len(b) >= 2, NEW c, b = <<c>> PROVE FALSE
    OBVIOUS
  <1>1. Len(b) \in Nat /\ Len(<<c>>) = 1
    OBVIOUS
  <1>2. Len(b) = 1
    BY <1>1, Zenon
  <1> QED
    BY <1>2

\* One chunk is that one.
LEMMA OneAlone == \A b \in Seq(Nat) : Len(b) = 1 => b[1] \in Nat /\ b = <<b[1]>>
  OBVIOUS

\* A chunk goes to the wire, alone or behind what is being sent, and its echo is due.
LEMMA ToEscKeeps ==
    ASSUME LinkerInv, Linker!ToEsc PROVE LinkerInv'
  <1> USE DEF LinkerInv, LinkerTypes, Connects
  <1> DEFINE h == Head(linkerInbound)
  <1>1. /\ h \in Bursts /\ linkerInbound # <<>> /\ linkerInbound' = Tail(linkerInbound)
        /\ linkerEchoes' = Append(linkerEchoes, h)
        /\ UNCHANGED <<linkerAsked, linkerConnected, linkerSeen, linkerWritten, linkerRuns,
                       linkerAnswers>>
    BY Taken DEF Linker!ToEsc
  <1>2. \/ linkerWire' = Append(linkerWire, h)
        \/ /\ linkerWire # <<>>
           /\ linkerWire' = [linkerWire EXCEPT ![Len(linkerWire)] = @ \o h]
    BY DEF Linker!ToEsc
  <1>3. linkerPending' \in {h, linkerPending \o h}
    BY DEF Linker!ToEsc
  <1> HIDE DEF h
  <1>4. h \in Seq(Nat) /\ h # <<>> /\ Len(h) >= 1
    BY <1>1 DEF Bursts
  <1>5. /\ linkerInbound' \in Seq(Bursts) /\ linkerEchoes' \in Seq(Bursts)
        /\ linkerPending' \in Seq(Nat)
    <2>1. linkerInbound' \in Seq(Bursts)
      BY <1>1, Taken
    <2>2. linkerEchoes' \in Seq(Bursts)
      BY <1>1, Appended
    <2>3. linkerPending \o h \in Seq(Nat)
      BY <1>4
    <2> QED
      BY <1>3, <1>4, <2>1, <2>2, <2>3
  <1>6. ASSUME linkerWire # <<>>,
               linkerWire' = [linkerWire EXCEPT ![Len(linkerWire)] = @ \o h]
        PROVE  /\ linkerWire' \in Seq(Bursts) /\ DOMAIN linkerWire' = DOMAIN linkerWire
               /\ Len(linkerWire) \in DOMAIN linkerWire
               /\ linkerWire'[Len(linkerWire)] = linkerWire[Len(linkerWire)] \o h
               /\ \A i \in DOMAIN linkerWire :
                    i # Len(linkerWire) => linkerWire'[i] = linkerWire[i]
               /\ Len(linkerWire[Len(linkerWire)] \o h) >= 2
               /\ linkerWire[Len(linkerWire)] \o h \in Seq(Nat)
    <2>1. Len(linkerWire) \in DOMAIN linkerWire /\ linkerWire[Len(linkerWire)] \in Bursts
      BY <1>6
    <2>2. /\ linkerWire[Len(linkerWire)] \in Seq(Nat)
          /\ Len(linkerWire[Len(linkerWire)]) >= 1
      BY <2>1 DEF Bursts
    <2>3. /\ linkerWire[Len(linkerWire)] \o h \in Seq(Nat)
          /\ Len(linkerWire[Len(linkerWire)] \o h) >= 2
      BY <1>4, <2>2
    <2>4. linkerWire[Len(linkerWire)] \o h \in Bursts
      BY <2>3 DEF Bursts
    <2> QED
      BY <1>6, <2>1, <2>3, <2>4
  <1>7. linkerWire' \in Seq(Bursts)
    <2>1. Append(linkerWire, h) \in Seq(Bursts)
      BY <1>1, Appended
    <2> QED
      BY <1>2, <1>6, <2>1
  <1>8. LinkerTypes' /\ Connects'
    BY <1>1, <1>5, <1>7
  <1>9. ASSUME NEW c \in Written PROVE Unsent(c)' /\ OnWire(c)' /\ InEcho(c)'
    <2>1. /\ In(linkerInbound', <<c>>) \/ h = <<c>> <=> In(linkerInbound, <<c>>)
          /\ OnceIn(linkerInbound', <<c>>) /\ (h = <<c>> => ~In(linkerInbound', <<c>>))
      BY <1>1, InTaken DEF OnWire, h
    <2>2. /\ In(linkerEchoes', <<c>>) <=> In(linkerEchoes, <<c>>) \/ h = <<c>>
          /\ OnceIn(linkerEchoes', <<c>>)
      BY <1>1, <2>1, InAppended DEF InEcho
    <2>3. /\ In(linkerWire', <<c>>) => In(linkerWire, <<c>>) \/ h = <<c>>
          /\ OnceIn(linkerWire', <<c>>)
      <3>1. CASE linkerWire' = Append(linkerWire, h)
        BY <1>1, <2>1, <3>1, InAppended DEF OnWire
      <3>2. CASE /\ linkerWire # <<>>
                 /\ linkerWire' = [linkerWire EXCEPT ![Len(linkerWire)] = @ \o h]
        <4>1. linkerWire'[Len(linkerWire)] # <<c>>
          BY <1>6, <3>2, NotAlone, Zenon
        <4> QED
          BY <1>6, <3>2, <4>1 DEF OnWire, In, OnceIn
      <3> QED
        BY <1>2, <3>1, <3>2
    <2>4. linkerPending' = <<c>> => h = <<c>>
      <3>1. CASE linkerPending' = linkerPending \o h
        <4>1. ASSUME linkerPending \o h = <<c>> PROVE h = <<c>>
          <5>1. Len(linkerPending \o h) = Len(linkerPending) + Len(h) /\ Len(linkerPending) \in Nat
            BY <1>4
          <5>2. Len(linkerPending) = 0
            BY <1>4, <4>1, <5>1
          <5>3. linkerPending = <<>>
            BY <5>2
          <5> QED
            BY <1>4, <4>1, <5>3
        <4> QED
          BY <3>1, <4>1
      <3> QED
        BY <1>3, <3>1
    <2>5. Unsent(c)'
      BY <1>1, <2>1, <2>2, <2>3, <2>4 DEF Unsent
    <2>6. OnWire(c)'
      BY <1>1, <2>1, <2>3 DEF OnWire
    <2>7. InEcho(c)'
      BY <1>1, <2>1, <2>2 DEF InEcho
    <2> QED
      BY <2>5, <2>6, <2>7
  <1> QED
    BY <1>8, <1>9

\* An echo is handed to the host.
LEMMA FlushEchoKeeps ==
    ASSUME LinkerInv, Linker!FlushEcho PROVE LinkerInv'
  <1> USE DEF LinkerInv, LinkerTypes, Connects
  <1> DEFINE h == Head(linkerEchoes)
             w == <<"echo", h>>
  <1>1. /\ h \in Bursts /\ linkerEchoes # <<>> /\ linkerEchoes' = Tail(linkerEchoes)
        /\ linkerWritten' = Append(linkerWritten, w)
        /\ UNCHANGED <<linkerAsked, linkerConnected, linkerSeen, linkerRuns, linkerInbound,
                       linkerAnswers, linkerWire, linkerPending>>
    BY Taken DEF Linker!FlushEcho
  <1> HIDE DEF h
  <1>2. w \in Handed /\ \A c : w = <<"echo", <<c>>>> <=> h = <<c>>
    BY <1>1 DEF Handed
  <1> HIDE DEF w
  <1>3. LinkerTypes' /\ Connects'
    <2>1. linkerEchoes' \in Seq(Bursts) /\ linkerWritten' \in Seq(Handed)
      BY <1>1, <1>2, Taken, Appended
    <2> QED
      BY <1>1, <2>1
  <1>4. ASSUME NEW c \in Written PROVE Unsent(c)' /\ OnWire(c)' /\ InEcho(c)'
    <2>1. /\ In(linkerEchoes', <<c>>) \/ h = <<c>> <=> In(linkerEchoes, <<c>>)
          /\ OnceIn(linkerEchoes', <<c>>) /\ (h = <<c>> => ~In(linkerEchoes', <<c>>))
      BY <1>1, InTaken DEF InEcho, h
    <2>2. /\ In(linkerWritten', <<"echo", <<c>>>>)
               <=> In(linkerWritten, <<"echo", <<c>>>>) \/ h = <<c>>
          /\ OnceIn(linkerWritten', <<"echo", <<c>>>>)
      <3> DEFINE y == <<"echo", <<c>>>>
      <3>1. w = y <=> h = <<c>>
        BY <1>2
      <3> HIDE DEF y
      <3>2. /\ In(linkerWritten', y) <=> In(linkerWritten, y) \/ w = y
            /\ OnceIn(linkerWritten, y) /\ ~(In(linkerWritten, y) /\ w = y)
                 => OnceIn(linkerWritten', y)
        BY <1>1, <1>2, InAppended
      <3>3. OnceIn(linkerWritten, y) /\ (h = <<c>> => ~In(linkerWritten, y))
        BY <2>1 DEF InEcho, y
      <3> QED
        BY <3>1, <3>2, <3>3 DEF y
    <2> QED
      BY <1>1, <2>1, <2>2 DEF Unsent, OnWire, InEcho
  <1> QED
    BY <1>3, <1>4

\* Two sequences that follow one another.
LEMMA Joins ==
    ASSUME NEW S, NEW s \in Seq(S), NEW t \in Seq(S)
    PROVE  /\ s \o t \in Seq(S) /\ Len(s \o t) = Len(s) + Len(t)
           /\ \A i \in 1..Len(s) : (s \o t)[i] = s[i]
           /\ \A i \in 1..Len(t) : (s \o t)[Len(s) + i] = t[i]
  OBVIOUS

\* What the bridge hands over when the ESC has said something: the echoes, then that.
LEMMA Joined ==
    ASSUME LinkerTypes, Linker!FromEsc
    PROVE  LET n == Len(linkerWritten)  m == Len(linkerEchoes) IN
           /\ n \in Nat /\ m \in Nat /\ linkerWritten' \in Seq(Handed)
           /\ DOMAIN linkerWritten' = 1..(n + m + 1)
           /\ DOMAIN linkerWritten = 1..n /\ DOMAIN linkerEchoes = 1..m
           /\ \A i \in 1..n : linkerWritten'[i] = linkerWritten[i]
           /\ \A i \in 1..m : linkerWritten'[n + i] = <<"echo", linkerEchoes[i]>>
           /\ linkerWritten'[n + m + 1] = <<"answer", Head(linkerAnswers)>>
           /\ \A i \in DOMAIN linkerWritten' :
                i \in 1..n \/ (i - n \in 1..m) \/ i = n + m + 1
  <1> USE DEF LinkerTypes
  <1> DEFINE n == Len(linkerWritten)
             m == Len(linkerEchoes)
             t == Linker!Echoed(linkerEchoes)
             e == <<<<"answer", Head(linkerAnswers)>>>>
  <1>1. /\ n \in Nat /\ m \in Nat
        /\ DOMAIN linkerWritten = 1..n /\ DOMAIN linkerEchoes = 1..m
    OBVIOUS
  <1>2. t \in Seq(Handed) /\ Len(t) = m /\ \A i \in 1..m : t[i] = <<"echo", linkerEchoes[i]>>
    BY <1>1 DEF Linker!Echoed, Handed
  <1>3. e \in Seq(Handed) /\ Len(e) = 1 /\ e[1] = <<"answer", Head(linkerAnswers)>>
    BY Taken DEF Linker!FromEsc, Handed
  <1>4. linkerWritten' = (linkerWritten \o t) \o e
    BY DEF Linker!FromEsc
  <1> HIDE DEF t, e, n, m
  <1>5. /\ linkerWritten \o t \in Seq(Handed) /\ Len(linkerWritten \o t) = n + m
        /\ \A i \in 1..n : (linkerWritten \o t)[i] = linkerWritten[i]
        /\ \A i \in 1..m : (linkerWritten \o t)[n + i] = t[i]
    <2>1. linkerWritten \in Seq(Handed) /\ t \in Seq(Handed)
      BY <1>2
    <2>2. /\ linkerWritten \o t \in Seq(Handed)
          /\ Len(linkerWritten \o t) = Len(linkerWritten) + Len(t)
          /\ \A i \in 1..Len(linkerWritten) : (linkerWritten \o t)[i] = linkerWritten[i]
          /\ \A i \in 1..Len(t) : (linkerWritten \o t)[Len(linkerWritten) + i] = t[i]
      BY <2>1, Joins
    <2> QED
      BY <2>2, <1>2 DEF n
  <1>6. /\ linkerWritten' \in Seq(Handed) /\ Len(linkerWritten') = n + m + 1
        /\ \A i \in 1..(n + m) : linkerWritten'[i] = (linkerWritten \o t)[i]
        /\ linkerWritten'[n + m + 1] = e[1]
    <2> DEFINE s == linkerWritten \o t
    <2> HIDE DEF s
    <2>1. s \in Seq(Handed) /\ Len(s) = n + m
      BY <1>5 DEF s
    <2>2. /\ s \o e \in Seq(Handed) /\ Len(s \o e) = Len(s) + Len(e)
          /\ \A i \in 1..Len(s) : (s \o e)[i] = s[i]
          /\ \A i \in 1..Len(e) : (s \o e)[Len(s) + i] = e[i]
      <3>1. s \in Seq(Handed) /\ e \in Seq(Handed)
        BY <1>3, <2>1
      <3> QED
        BY <3>1, Joins
    <2>3. linkerWritten' = s \o e /\ 1 \in 1..Len(e)
      BY <1>3, <1>4 DEF s
    <2> QED
      BY <1>3, <2>1, <2>2, <2>3 DEF s
  <1>7. DOMAIN linkerWritten' = 1..(n + m + 1)
    BY <1>6
  <1>8. \A i \in 1..n : linkerWritten'[i] = linkerWritten[i]
    BY <1>1, <1>5, <1>6
  <1>9. \A i \in 1..m : linkerWritten'[n + i] = <<"echo", linkerEchoes[i]>>
    <2> TAKE i \in 1..m
    <2>1. n + i \in 1..(n + m)
      BY <1>1
    <2> QED
      BY <1>2, <1>5, <1>6, <2>1
  <1>10. \A i \in DOMAIN linkerWritten' : i \in 1..n \/ (i - n \in 1..m) \/ i = n + m + 1
    <2>1. n \in Nat /\ m \in Nat
      BY <1>1
    <2>2. \A i \in 1..(n + m + 1) : i \in 1..n \/ (i - n \in 1..m) \/ i = n + m + 1
      BY <2>1
    <2> QED
      BY <1>7, <2>2
  <1> QED
    BY <1>1, <1>3, <1>6, <1>7, <1>8, <1>9, <1>10 DEF n, m

\* What is handed over has each echo that was due, and every one that was handed before.
LEMMA JoinedEchoes ==
    ASSUME LinkerTypes, Linker!FromEsc, NEW c
    PROVE  LET y == <<"echo", <<c>>>> IN
           /\ In(linkerWritten', y) <=> In(linkerWritten, y) \/ In(linkerEchoes, <<c>>)
           /\ OnceIn(linkerWritten, y) /\ OnceIn(linkerEchoes, <<c>>)
              /\ ~(In(linkerWritten, y) /\ In(linkerEchoes, <<c>>)) => OnceIn(linkerWritten', y)
  <1> DEFINE y == <<"echo", <<c>>>>
             n == Len(linkerWritten)
             m == Len(linkerEchoes)
  <1>1. /\ n \in Nat /\ m \in Nat
        /\ DOMAIN linkerWritten' = 1..(n + m + 1)
        /\ DOMAIN linkerWritten = 1..n /\ DOMAIN linkerEchoes = 1..m
        /\ \A i \in 1..n : linkerWritten'[i] = linkerWritten[i]
        /\ \A i \in 1..m : linkerWritten'[n + i] = <<"echo", linkerEchoes[i]>>
        /\ linkerWritten'[n + m + 1] = <<"answer", Head(linkerAnswers)>>
    BY Joined
  <1>2. linkerWritten'[n + m + 1] # y
    BY <1>1
  <1>3. \A i \in 1..m : linkerWritten'[n + i] = y <=> linkerEchoes[i] = <<c>>
    <2> TAKE i \in 1..m
    <2> DEFINE a == linkerEchoes[i]
    <2>1. linkerWritten'[n + i] = <<"echo", a>>
      BY <1>1
    <2> HIDE DEF a
    <2>2. <<"echo", a>> = <<"echo", <<c>>>> <=> a = <<c>>
      OBVIOUS
    <2> QED
      BY <2>1, <2>2 DEF a
  <1> HIDE DEF n, m, y
  <1>4. \A i \in 1..(n + m + 1) : linkerWritten'[i] = y =>
          \/ i \in 1..n /\ linkerWritten[i] = y
          \/ i - n \in 1..m /\ linkerEchoes[i - n] = <<c>>
    <2> SUFFICES ASSUME NEW i \in 1..(n + m + 1), linkerWritten'[i] = y, i \notin 1..n
                 PROVE  i - n \in 1..m /\ linkerEchoes[i - n] = <<c>>
      BY <1>1
    <2>1. i # n + m + 1
      BY <1>2
    <2>2. i - n \in 1..m /\ n + (i - n) = i
      BY <1>1, <2>1
    <2> QED
      BY <1>3, <2>2
  <1>5. In(linkerWritten', y) <=> In(linkerWritten, y) \/ In(linkerEchoes, <<c>>)
    <2>1. ASSUME NEW i \in 1..n, linkerWritten[i] = y PROVE In(linkerWritten', y)
      <3>1. i \in 1..(n + m + 1)
        BY <1>1
      <3> QED
        BY <1>1, <2>1, <3>1 DEF In
    <2>2. ASSUME NEW i \in 1..m, linkerEchoes[i] = <<c>> PROVE In(linkerWritten', y)
      <3>1. n + i \in 1..(n + m + 1)
        BY <1>1
      <3> QED
        BY <1>1, <1>3, <2>2, <3>1 DEF In
    <2>3. ASSUME In(linkerWritten', y) PROVE In(linkerWritten, y) \/ In(linkerEchoes, <<c>>)
      BY <1>1, <1>4, <2>3 DEF In
    <2> QED
      BY <1>1, <2>1, <2>2, <2>3 DEF In
  <1>6. ASSUME OnceIn(linkerWritten, y), OnceIn(linkerEchoes, <<c>>),
               ~(In(linkerWritten, y) /\ In(linkerEchoes, <<c>>))
        PROVE  OnceIn(linkerWritten', y)
    <2> SUFFICES ASSUME NEW i \in 1..(n + m + 1), NEW j \in 1..(n + m + 1),
                        linkerWritten'[i] = y, linkerWritten'[j] = y
                 PROVE  i = j
      BY <1>1 DEF OnceIn
    <2>1. CASE i \in 1..n /\ linkerWritten[i] = y
      <3>1. j \in 1..n /\ linkerWritten[j] = y
        BY <1>1, <1>4, <1>6, <2>1 DEF In
      <3> QED
        BY <1>1, <1>6, <2>1, <3>1 DEF OnceIn
    <2>2. CASE i - n \in 1..m /\ linkerEchoes[i - n] = <<c>>
      <3>1. j - n \in 1..m /\ linkerEchoes[j - n] = <<c>>
        BY <1>1, <1>4, <1>6, <2>2 DEF In
      <3>2. i - n = j - n
        BY <1>1, <1>6, <2>2, <3>1 DEF OnceIn
      <3> QED
        BY <1>1, <3>2
    <2> QED
      BY <1>4, <2>1, <2>2
  <1> QED
    BY <1>5, <1>6 DEF y

\* An answer goes to the host behind the echoes that are due.
LEMMA FromEscKeeps ==
    ASSUME LinkerInv, Linker!FromEsc PROVE LinkerInv'
  <1> USE DEF LinkerInv, LinkerTypes, Connects
  <1>1. /\ linkerEchoes' = <<>> /\ linkerConnected' /\ linkerPending' = <<>>
        /\ linkerAnswers # <<>> /\ linkerAnswers' = Tail(linkerAnswers)
        /\ UNCHANGED <<linkerAsked, linkerInbound, linkerWire, linkerRuns>>
    BY DEF Linker!FromEsc, Linker!None
  <1>2. LinkerTypes'
    <2>1. /\ linkerWritten' \in Seq(Handed) /\ linkerAnswers' \in Seq(Nat)
          /\ linkerEchoes' \in Seq(Bursts) /\ linkerPending' \in Seq(Nat)
      BY <1>1, Joined, Taken
    <2> QED
      BY <1>1, <2>1
  <1>3. Connects'
    BY <1>1
  <1>4. ASSUME NEW c \in Written PROVE Unsent(c)' /\ OnWire(c)' /\ InEcho(c)'
    <2> DEFINE y == <<"echo", <<c>>>>
    <2>1. /\ In(linkerWritten', y) <=> In(linkerWritten, y) \/ In(linkerEchoes, <<c>>)
          /\ OnceIn(linkerWritten, y) /\ OnceIn(linkerEchoes, <<c>>)
             /\ ~(In(linkerWritten, y) /\ In(linkerEchoes, <<c>>)) => OnceIn(linkerWritten', y)
      BY JoinedEchoes
    <2>2. ~In(linkerEchoes', <<c>>) /\ OnceIn(linkerEchoes', <<c>>) /\ linkerPending' # <<c>>
      BY <1>1 DEF In, OnceIn
    <2> HIDE DEF y
    <2>3. Unsent(c)'
      BY <1>1, <2>1, <2>2 DEF Unsent, y
    <2>4. OnWire(c)'
      BY <1>1 DEF OnWire
    <2>5. InEcho(c)'
      BY <1>1, <2>1, <2>2 DEF InEcho, y
    <2> QED
      BY <2>3, <2>4, <2>5
  <1> QED
    BY <1>2, <1>3, <1>4

\* Only a bridge that has heard nothing yet sends again, and it has only the probe.
LEMMA RetryKeeps ==
    ASSUME LinkerInv, Linker!Retry PROVE LinkerInv'
  <1> USE DEF LinkerInv, LinkerTypes, Connects
  <1>1. /\ ~linkerConnected /\ linkerPending # <<>> /\ linkerAnswers' = <<>>
        /\ linkerWire' = Append(linkerWire, linkerPending)
        /\ UNCHANGED <<linkerAsked, linkerConnected, linkerSeen, linkerWritten, linkerRuns,
                       linkerInbound, linkerEchoes, linkerPending>>
    BY DEF Linker!Retry, Linker!Unanswered, Linker!None
  <1>2. linkerPending \in Bursts
    BY <1>1 DEF Bursts
  <1>3. LinkerTypes' /\ Connects'
    <2>1. linkerWire' \in Seq(Bursts) /\ linkerAnswers' \in Seq(Nat)
      BY <1>1, <1>2, Appended
    <2> QED
      BY <1>1, <2>1
  <1>4. ASSUME NEW c \in Written PROVE Unsent(c)' /\ OnWire(c)' /\ InEcho(c)'
    <2>1. c > linkerAsked
      BY <1>1, HostAssumption DEF Written, Linker!Chunks
    <2>2. linkerPending # <<c>>
      BY <2>1 DEF Unsent
    <2>3. /\ In(linkerWire', <<c>>) <=> In(linkerWire, <<c>>)
          /\ OnceIn(linkerWire, <<c>>) => OnceIn(linkerWire', <<c>>)
      BY <1>1, <1>2, <2>2, InAppended
    <2> QED
      BY <1>1, <2>1, <2>3 DEF Unsent, OnWire, InEcho
  <1> QED
    BY <1>3, <1>4

\* The bootloader runs a chunk that comes alone.
LEMMA HearsKeeps ==
    ASSUME LinkerInv, Linker!Hears PROVE LinkerInv'
  <1> USE DEF LinkerInv, LinkerTypes, Connects, Linker!bridgeVars
  <1> DEFINE f == Head(linkerWire)
  <1>1. /\ f \in Bursts /\ linkerWire # <<>> /\ linkerWire' = Tail(linkerWire)
        /\ UNCHANGED <<linkerAsked, linkerConnected, linkerSeen, linkerWritten,
                       linkerInbound, linkerEchoes, linkerPending>>
    BY Taken DEF Linker!Hears
  <1>2. \/ linkerRuns' = linkerRuns /\ linkerAnswers' = linkerAnswers
        \/ /\ Len(f) = 1 /\ linkerRuns' = [linkerRuns EXCEPT ![f[1]] = @ + 1]
           /\ linkerAnswers' = Append(linkerAnswers, f[1])
    BY DEF Linker!Hears
  <1> HIDE DEF f
  <1>3. Len(f) = 1 => f[1] \in Nat /\ f = <<f[1]>>
    <2>1. f \in Seq(Nat)
      BY <1>1 DEF Bursts
    <2> QED
      BY <2>1, OneAlone
  <1>4. LinkerTypes' /\ Connects'
    <2>1. linkerWire' \in Seq(Bursts)
      BY <1>1, Taken
    <2>2. linkerAnswers' \in Seq(Nat)
      <3>1. Len(f) = 1 => Append(linkerAnswers, f[1]) \in Seq(Nat)
        BY <1>3, Appended
      <3> QED
        BY <1>2, <3>1
    <2>3. linkerRuns' \in [Linker!Chunks -> Nat]
      BY <1>2
    <2> QED
      BY <1>1, <2>1, <2>2, <2>3
  <1>5. ASSUME NEW c \in Written PROVE Unsent(c)' /\ OnWire(c)' /\ InEcho(c)'
    <2>1. /\ In(linkerWire', <<c>>) \/ f = <<c>> <=> In(linkerWire, <<c>>)
          /\ OnceIn(linkerWire', <<c>>) /\ (f = <<c>> => ~In(linkerWire', <<c>>))
      BY <1>1, InTaken DEF OnWire, f
    <2>2. c \in Linker!Chunks /\ linkerRuns[c] \in Nat
      BY DEF Written
    <2>3. linkerRuns'[c] = linkerRuns[c] \/ (f = <<c>> /\ linkerRuns'[c] = linkerRuns[c] + 1)
      <3>1. CASE Len(f) = 1 /\ linkerRuns' = [linkerRuns EXCEPT ![f[1]] = @ + 1]
        <4>1. f[1] = c => f = <<c>>
          BY <1>3, <3>1
        <4> QED
          BY <2>2, <3>1, <4>1
      <3> QED
        BY <1>2, <3>1
    <2>4. Unsent(c)'
      BY <1>1, <2>1, <2>3 DEF Unsent
    <2>5. OnWire(c)'
      BY <1>1, <2>1, <2>2, <2>3 DEF OnWire
    <2>6. InEcho(c)'
      BY <1>1 DEF InEcho
    <2> QED
      BY <2>4, <2>5, <2>6
  <1> QED
    BY <1>4, <1>5

\* The other steps leave what is on the link, or clear the wire.
LEMMA LinkerKeeps == LinkerInv /\ [Linker!Next]_(Linker!vars) => LinkerInv'
  <1> SUFFICES ASSUME LinkerInv, [Linker!Next]_(Linker!vars) PROVE LinkerInv'
    OBVIOUS
  <1>1. CASE \/ Linker!WireIdle \/ Linker!Reset \/ Linker!WindowCloses \/ Linker!Boots
             \/ UNCHANGED Linker!vars
    <2>1. /\ UNCHANGED <<linkerAsked, linkerConnected, linkerSeen, linkerWritten, linkerRuns,
                         linkerInbound, linkerEchoes, linkerPending, linkerAnswers>>
          /\ linkerWire' \in {linkerWire, <<>>}
      BY <1>1 DEF Linker!WireIdle, Linker!Reset, Linker!WindowCloses, Linker!Boots,
                  Linker!vars, Linker!bridgeVars
    <2>2. LinkerTypes' /\ Connects'
      <3>1. <<>> \in Seq(Bursts)
        OBVIOUS
      <3> QED
        BY <2>1, <3>1 DEF LinkerInv, LinkerTypes, Connects
    <2>3. ASSUME NEW c \in Written PROVE Unsent(c)' /\ OnWire(c)' /\ InEcho(c)'
      <3>1. /\ In(linkerWire', <<c>>) => In(linkerWire, <<c>>)
            /\ OnceIn(linkerWire, <<c>>) => OnceIn(linkerWire', <<c>>)
        BY <2>1 DEF In, OnceIn
      <3> QED
        BY <2>1, <3>1 DEF LinkerInv, Unsent, OnWire, InEcho
    <2> QED
      BY <2>2, <2>3 DEF LinkerInv
  <1> QED
    BY <1>1, HostSendsKeeps, ToEscKeeps, FlushEchoKeeps, FromEscKeeps, RetryKeeps, HearsKeeps
       DEF Linker!Next

\* Whatever is on the wire, or was said by the ESC, has its echo due or handed over.
EchoOf(w, e) == w[1] = "echo" /\ In(w[2], e)
Told(e) ==
    \/ \E i \in DOMAIN linkerEchoes : In(linkerEchoes[i], e)
    \/ \E j \in DOMAIN linkerWritten : EchoOf(linkerWritten[j], e)
BurstsTold ==
    /\ \A i \in DOMAIN linkerWire : \A e \in Nat : In(linkerWire[i], e) => Told(e)
    /\ \A e \in Nat : In(linkerPending, e) \/ In(linkerAnswers, e) => Told(e)
AnswersTold ==
    \A i \in DOMAIN linkerWritten : linkerWritten[i][1] = "answer" =>
        \E j \in 1..(i - 1) : EchoOf(linkerWritten[j], linkerWritten[i][2])

\* Two bursts that follow one another have what either has.
LEMMA InJoined ==
    ASSUME NEW S, NEW s \in Seq(S), NEW t \in Seq(S), NEW x
    PROVE  In(s \o t, x) => In(s, x) \/ In(t, x)
  <1> DEFINE n == Len(s)
             m == Len(t)
             r == s \o t
  <1>1. /\ n \in Nat /\ m \in Nat /\ DOMAIN s = 1..n /\ DOMAIN t = 1..m /\ DOMAIN r = 1..(n + m)
        /\ \A i \in 1..n : r[i] = s[i]
        /\ \A i \in 1..m : r[n + i] = t[i]
    OBVIOUS
  <1> HIDE DEF n, m, r
  <1>2. ASSUME NEW i \in DOMAIN r, r[i] = x PROVE In(s, x) \/ In(t, x)
    <2>1. CASE i \in 1..n
      BY <1>1, <1>2, <2>1 DEF In
    <2>2. CASE i \notin 1..n
      <3>1. i - n \in 1..m /\ n + (i - n) = i
        BY <1>1, <2>2
      <3> QED
        BY <1>1, <1>2, <3>1 DEF In
    <2> QED
      BY <2>1, <2>2
  <1> QED
    BY <1>2 DEF In, r

\* What has its echo keeps it.
LEMMA ToldStays ==
    ASSUME LinkerTypes, [Linker!Next]_(Linker!vars), NEW e, Told(e) PROVE Told(e)'
  <1> USE DEF LinkerTypes
  <1>1. CASE Linker!ToEsc
    <2>1. /\ linkerEchoes' = Append(linkerEchoes, Head(linkerInbound))
          /\ Head(linkerInbound) \in Bursts /\ linkerWritten' = linkerWritten
      BY <1>1, Taken DEF Linker!ToEsc
    <2>2. \A i \in DOMAIN linkerEchoes :
            i \in DOMAIN linkerEchoes' /\ linkerEchoes'[i] = linkerEchoes[i]
      BY <2>1, Appended
    <2> QED
      BY <2>1, <2>2 DEF Told
  <1>2. CASE Linker!FlushEcho
    <2> DEFINE h == Head(linkerEchoes)
               w == <<"echo", h>>
    <2>1. /\ h \in Bursts /\ linkerEchoes # <<>> /\ linkerEchoes' = Tail(linkerEchoes)
          /\ linkerWritten' = Append(linkerWritten, w) /\ w \in Handed
      BY <1>2, Taken DEF Linker!FlushEcho, Handed
    <2>2. w[1] = "echo" /\ w[2] = h
      OBVIOUS
    <2> HIDE DEF w
    <2>3. /\ \A j \in DOMAIN linkerWritten :
               j \in DOMAIN linkerWritten' /\ linkerWritten'[j] = linkerWritten[j]
          /\ Len(linkerWritten) + 1 \in DOMAIN linkerWritten'
          /\ linkerWritten'[Len(linkerWritten) + 1] = w
      BY <2>1, Appended
    <2>4. \A i \in DOMAIN linkerEchoes :
            \/ linkerEchoes[i] = h
            \/ i - 1 \in DOMAIN linkerEchoes' /\ linkerEchoes'[i - 1] = linkerEchoes[i]
      BY <2>1
    <2> HIDE DEF h
    <2>5. CASE \E j \in DOMAIN linkerWritten : EchoOf(linkerWritten[j], e)
      BY <2>3, <2>5 DEF Told
    <2>6. CASE \E i \in DOMAIN linkerEchoes : In(linkerEchoes[i], e)
      BY <2>2, <2>3, <2>4, <2>6 DEF Told, EchoOf
    <2> QED
      BY <2>5, <2>6 DEF Told
  <1>3. CASE Linker!FromEsc
    <2> DEFINE n == Len(linkerWritten)
               m == Len(linkerEchoes)
    <2>1. /\ n \in Nat /\ m \in Nat /\ DOMAIN linkerWritten' = 1..(n + m + 1)
          /\ DOMAIN linkerWritten = 1..n /\ DOMAIN linkerEchoes = 1..m
          /\ \A i \in 1..n : linkerWritten'[i] = linkerWritten[i]
          /\ \A i \in 1..m : linkerWritten'[n + i] = <<"echo", linkerEchoes[i]>>
      BY <1>3, Joined
    <2> HIDE DEF n, m
    <2>2. ASSUME NEW j \in 1..n, EchoOf(linkerWritten[j], e) PROVE Told(e)'
      <3>1. j \in DOMAIN linkerWritten'
        BY <2>1
      <3> QED
        BY <2>1, <2>2, <3>1 DEF Told
    <2>3. ASSUME NEW i \in 1..m, In(linkerEchoes[i], e) PROVE Told(e)'
      <3>1. n + i \in DOMAIN linkerWritten'
        BY <2>1
      <3>2. EchoOf(linkerWritten'[n + i], e)
        BY <2>1, <2>3 DEF EchoOf
      <3> QED
        BY <3>1, <3>2 DEF Told
    <2> QED
      BY <2>1, <2>2, <2>3 DEF Told
  <1>4. CASE UNCHANGED <<linkerEchoes, linkerWritten>>
    BY <1>4 DEF Told
  <1> QED
    BY <1>1, <1>2, <1>3, <1>4
       DEF Linker!Next, Linker!vars, Linker!bridgeVars, Linker!HostSends, Linker!WireIdle,
           Linker!Reset, Linker!Retry, Linker!WindowCloses, Linker!Hears, Linker!Boots

\* Nothing goes to the wire without its echo, and nothing comes from the ESC that was
\* not on the wire.
LEMMA BurstsToldKeeps ==
    LinkerTypes /\ LinkerTypes' /\ BurstsTold /\ [Linker!Next]_(Linker!vars) => BurstsTold'
  <1> SUFFICES ASSUME LinkerTypes, LinkerTypes', BurstsTold, [Linker!Next]_(Linker!vars)
               PROVE  BurstsTold'
    OBVIOUS
  <1>1. \A e : Told(e) => Told(e)'
    BY ToldStays
  <1> USE DEF LinkerTypes
  <1> DEFINE New(s) == \A e \in Nat : In(s, e) => Told(e)'
  <1>2. /\ \A i \in DOMAIN linkerWire : New(linkerWire[i])
        /\ New(linkerPending) /\ New(linkerAnswers)
    BY <1>1 DEF BurstsTold
  <1>3. New(<<>>)
    BY DEF In
  <1> HIDE DEF New
  <1>4. CASE Linker!ToEsc
    <2> DEFINE h == Head(linkerInbound)
    <2>1. /\ h \in Bursts /\ linkerEchoes' = Append(linkerEchoes, h)
          /\ linkerAnswers' = linkerAnswers
          /\ linkerPending' \in {h, linkerPending \o h}
          /\ \/ linkerWire' = Append(linkerWire, h)
             \/ /\ linkerWire # <<>>
                /\ linkerWire' = [linkerWire EXCEPT ![Len(linkerWire)] = @ \o h]
      BY <1>4, Taken DEF Linker!ToEsc
    <2> HIDE DEF h
    <2>2. h \in Seq(Nat)
      BY <2>1 DEF Bursts
    <2>3. New(h)
      <3>1. /\ Len(linkerEchoes) + 1 \in DOMAIN linkerEchoes'
            /\ linkerEchoes'[Len(linkerEchoes) + 1] = h
        BY <2>1, Appended
      <3> QED
        BY <3>1 DEF New, Told
    <2>4. New(linkerPending')
      <3>1. New(linkerPending \o h)
        BY <1>2, <2>2, <2>3, InJoined DEF New
      <3> QED
        BY <2>1, <2>3, <3>1
    <2>5. ASSUME NEW i \in DOMAIN linkerWire' PROVE New(linkerWire'[i])
      <3>1. CASE linkerWire' = Append(linkerWire, h)
        <4>1. (i \in DOMAIN linkerWire /\ linkerWire'[i] = linkerWire[i]) \/ linkerWire'[i] = h
          BY <2>1, <3>1, Appended
        <4> QED
          BY <1>2, <2>3, <4>1
      <3>2. CASE /\ linkerWire # <<>>
                 /\ linkerWire' = [linkerWire EXCEPT ![Len(linkerWire)] = @ \o h]
        <4>1. i \in DOMAIN linkerWire /\ linkerWire[i] \in Seq(Nat)
          BY <3>2 DEF Bursts
        <4>2. New(linkerWire[i] \o h)
          BY <1>2, <2>2, <2>3, <4>1, InJoined DEF New
        <4>3. linkerWire'[i] = linkerWire[i] \/ linkerWire'[i] = linkerWire[i] \o h
          BY <3>2, <4>1
        <4> QED
          BY <1>2, <4>1, <4>2, <4>3
      <3> QED
        BY <2>1, <3>1, <3>2
    <2> QED
      BY <1>2, <2>1, <2>4, <2>5 DEF BurstsTold, New
  <1>5. CASE Linker!Retry
    <2>1. /\ linkerPending \in Bursts /\ linkerAnswers' = <<>>
          /\ linkerWire' = Append(linkerWire, linkerPending) /\ linkerPending' = linkerPending
      BY <1>5 DEF Linker!Retry, Linker!Unanswered, Linker!None, Bursts
    <2> DEFINE p == linkerPending
    <2>2. p \in Bursts /\ linkerWire' = Append(linkerWire, p) /\ New(p)
      BY <1>2, <2>1
    <2> HIDE DEF p
    <2>3. /\ \A i \in DOMAIN linkerWire' : i \in DOMAIN linkerWire \/ i = Len(linkerWire) + 1
          /\ \A i \in DOMAIN linkerWire : linkerWire'[i] = linkerWire[i]
          /\ linkerWire'[Len(linkerWire) + 1] = p
      <3>1. /\ Len(linkerWire) \in Nat /\ DOMAIN linkerWire = 1..Len(linkerWire)
            /\ DOMAIN linkerWire' = 1..(Len(linkerWire) + 1)
            /\ \A i \in DOMAIN linkerWire : linkerWire'[i] = linkerWire[i]
            /\ linkerWire'[Len(linkerWire) + 1] = p
        BY <2>2, Appended
      <3> QED
        BY <3>1
    <2>4. ASSUME NEW i \in DOMAIN linkerWire' PROVE New(linkerWire'[i])
      BY <1>2, <2>2, <2>3
    <2> QED
      BY <1>2, <1>3, <2>1, <2>4 DEF BurstsTold, New
  <1>6. CASE Linker!Hears
    <2> DEFINE f == Head(linkerWire)
    <2>1. /\ f \in Bursts /\ linkerWire # <<>> /\ linkerWire' = Tail(linkerWire)
          /\ linkerPending' = linkerPending /\ New(f)
          /\ \/ linkerAnswers' = linkerAnswers
             \/ Len(f) = 1 /\ linkerAnswers' = Append(linkerAnswers, f[1])
      BY <1>2, <1>6, Taken DEF Linker!Hears, Linker!bridgeVars
    <2> HIDE DEF f
    <2>2. New(linkerAnswers')
      <3>1. CASE Len(f) = 1 /\ linkerAnswers' = Append(linkerAnswers, f[1])
        <4>1. f[1] \in Nat /\ In(f, f[1])
          BY <2>1, <3>1 DEF Bursts, In
        <4>2. \A e : In(linkerAnswers', e) => In(linkerAnswers, e) \/ e = f[1]
          BY <3>1, <4>1, InAppended
        <4> QED
          BY <1>2, <2>1, <4>1, <4>2 DEF New
      <3> QED
        BY <1>2, <2>1, <3>1
    <2>3. ASSUME NEW i \in DOMAIN linkerWire' PROVE New(linkerWire'[i])
      BY <1>2, <2>1, Taken
    <2> QED
      BY <1>2, <2>1, <2>2, <2>3 DEF BurstsTold, New
  <1>7. CASE Linker!FromEsc
    <2>1. /\ linkerPending' = <<>> /\ linkerAnswers # <<>> /\ linkerWire' = linkerWire
          /\ linkerAnswers' = Tail(linkerAnswers)
      BY <1>7 DEF Linker!FromEsc, Linker!None
    <2>2. New(linkerAnswers')
      BY <1>2, <2>1, InTaken DEF New
    <2> QED
      BY <1>2, <1>3, <2>1, <2>2 DEF BurstsTold, New
  <1>8. CASE /\ UNCHANGED <<linkerPending, linkerAnswers>>
             /\ linkerWire' \in {linkerWire, <<>>}
    <2>1. \A i \in DOMAIN linkerWire' : New(linkerWire'[i])
      BY <1>2, <1>8
    <2> QED
      BY <1>2, <1>8, <2>1 DEF BurstsTold, New
  <1> QED
    BY <1>4, <1>5, <1>6, <1>7, <1>8
       DEF Linker!Next, Linker!vars, Linker!bridgeVars, Linker!HostSends, Linker!WireIdle,
           Linker!Reset, Linker!FlushEcho, Linker!WindowCloses, Linker!Boots

\* An answer is handed over behind its echo.
LEMMA AnswersToldKeeps ==
    LinkerTypes /\ BurstsTold /\ AnswersTold /\ [Linker!Next]_(Linker!vars) => AnswersTold'
  <1> SUFFICES ASSUME LinkerTypes, BurstsTold, AnswersTold, [Linker!Next]_(Linker!vars)
               PROVE  AnswersTold'
    OBVIOUS
  <1>1. CASE Linker!FromEsc
    <2> DEFINE n == Len(linkerWritten)
               m == Len(linkerEchoes)
               a == Head(linkerAnswers)
    <2>1. /\ n \in Nat /\ m \in Nat /\ DOMAIN linkerWritten' = 1..(n + m + 1)
          /\ DOMAIN linkerWritten = 1..n /\ DOMAIN linkerEchoes = 1..m
          /\ \A i \in 1..n : linkerWritten'[i] = linkerWritten[i]
          /\ \A i \in 1..m : linkerWritten'[n + i] = <<"echo", linkerEchoes[i]>>
          /\ linkerWritten'[n + m + 1] = <<"answer", a>>
          /\ \A i \in DOMAIN linkerWritten' : i \in 1..n \/ (i - n \in 1..m) \/ i = n + m + 1
      BY <1>1, Joined
    <2>2. Told(a)
      <3>1. linkerAnswers # <<>> /\ linkerAnswers \in Seq(Nat)
        BY <1>1 DEF Linker!FromEsc, LinkerTypes
      <3>2. a \in Nat /\ In(linkerAnswers, a)
        BY <3>1, Taken DEF In
      <3> QED
        BY <3>2 DEF BurstsTold
    <2> HIDE DEF n, m, a
    <2>3. ASSUME NEW i \in 1..n, linkerWritten'[i][1] = "answer"
          PROVE  \E j \in 1..(i - 1) : EchoOf(linkerWritten'[j], linkerWritten'[i][2])
      <3>1. PICK j \in 1..(i - 1) : EchoOf(linkerWritten[j], linkerWritten[i][2])
        BY <2>1, <2>3 DEF AnswersTold
      <3>2. j \in 1..n
        BY <2>1
      <3> QED
        BY <2>1, <3>1, <3>2
    <2>4. \E j \in 1..(n + m) : EchoOf(linkerWritten'[j], a)
      <3>1. CASE \E j \in 1..n : EchoOf(linkerWritten[j], a)
        <4>1. PICK j \in 1..n : EchoOf(linkerWritten[j], a)
          BY <3>1
        <4>2. j \in 1..(n + m)
          BY <2>1
        <4> QED
          BY <2>1, <4>1, <4>2
      <3>2. CASE \E i \in 1..m : In(linkerEchoes[i], a)
        <4>1. PICK i \in 1..m : In(linkerEchoes[i], a)
          BY <3>2
        <4>2. n + i \in 1..(n + m)
          BY <2>1
        <4>3. EchoOf(linkerWritten'[n + i], a)
          BY <2>1, <4>1 DEF EchoOf
        <4> QED
          BY <4>2, <4>3
      <3> QED
        BY <2>1, <2>2, <3>1, <3>2 DEF Told
    <2>5. ASSUME NEW i \in 1..m PROVE linkerWritten'[n + i][1] # "answer"
      <3> DEFINE b == linkerEchoes[i]
      <3>1. linkerWritten'[n + i] = <<"echo", b>>
        BY <2>1
      <3> HIDE DEF b
      <3>2. <<"echo", b>>[1] # "answer"
        OBVIOUS
      <3> QED
        BY <3>1, <3>2
    <2>6. linkerWritten'[n + m + 1][2] = a /\ (n + m + 1) - 1 = n + m
      BY <2>1
    <2>7. ASSUME NEW i \in DOMAIN linkerWritten', linkerWritten'[i][1] = "answer"
          PROVE  \E j \in 1..(i - 1) : EchoOf(linkerWritten'[j], linkerWritten'[i][2])
      <3>1. CASE i \in 1..n
        BY <2>3, <2>7, <3>1
      <3>2. CASE i - n \in 1..m
        <4>1. n + (i - n) = i
          BY <2>1
        <4> QED
          BY <2>5, <2>7, <3>2, <4>1
      <3>3. CASE i = n + m + 1
        BY <2>4, <2>6, <3>3
      <3> QED
        BY <2>1, <3>1, <3>2, <3>3
    <2> QED
      BY <2>7 DEF AnswersTold
  <1>2. CASE Linker!FlushEcho
    <2> DEFINE w == <<"echo", Head(linkerEchoes)>>
               n == Len(linkerWritten)
    <2>1. linkerWritten' = Append(linkerWritten, w) /\ w \in Handed /\ linkerWritten \in Seq(Handed)
      BY <1>2, Taken DEF Linker!FlushEcho, Handed, LinkerTypes
    <2>2. w[1] # "answer"
      OBVIOUS
    <2> HIDE DEF w
    <2>3. /\ n \in Nat /\ DOMAIN linkerWritten' = 1..(n + 1) /\ DOMAIN linkerWritten = 1..n
          /\ linkerWritten'[n + 1] = w
          /\ \A i \in 1..n : linkerWritten'[i] = linkerWritten[i]
      BY <2>1, Appended
    <2> HIDE DEF n
    <2>4. ASSUME NEW i \in DOMAIN linkerWritten', linkerWritten'[i][1] = "answer"
          PROVE  \E j \in 1..(i - 1) : EchoOf(linkerWritten'[j], linkerWritten'[i][2])
      <3>1. i \in 1..n
        BY <2>2, <2>3, <2>4
      <3>2. PICK j \in 1..(i - 1) : EchoOf(linkerWritten[j], linkerWritten[i][2])
        BY <2>3, <2>4, <3>1 DEF AnswersTold
      <3>3. j \in 1..n
        BY <2>3, <3>1
      <3> QED
        BY <2>3, <3>1, <3>2, <3>3
    <2> QED
      BY <2>4 DEF AnswersTold
  <1>3. CASE UNCHANGED linkerWritten
    BY <1>3 DEF AnswersTold
  <1> QED
    BY <1>1, <1>2, <1>3
       DEF Linker!Next, Linker!vars, Linker!bridgeVars, Linker!HostSends, Linker!ToEsc,
           Linker!WireIdle, Linker!Reset, Linker!Retry, Linker!WindowCloses, Linker!Hears,
           Linker!Boots

\* A write is executed once, and the host finds the echo of what it sent before the
\* answer, and once.
LEMMA LinkerOwn == Spec => [](Linker!WritesOnce /\ Linker!EchoFirst)
  <1> DEFINE Inv == LinkerInv /\ BurstsTold /\ AnswersTold
  <1>1. Linker!Init => Inv
    <2>1. Linker!Init => BurstsTold /\ AnswersTold
      BY DEF Linker!Init, Linker!None, BurstsTold, AnswersTold, In
    <2> QED
      BY <2>1, LinkerInit
  <1>2. Inv /\ [Linker!Next]_(Linker!vars) => Inv'
    <2>1. LinkerInv => LinkerTypes
      BY DEF LinkerInv
    <2>2. LinkerInv' => LinkerTypes'
      BY DEF LinkerInv
    <2> QED
      BY <2>1, <2>2, LinkerKeeps, BurstsToldKeeps, AnswersToldKeeps
  <1>3. Inv => Linker!WritesOnce
    BY DEF LinkerInv, OnWire, Written, Linker!WritesOnce
  <1>4. Inv => Linker!EchoFirst
    <2> SUFFICES ASSUME Inv PROVE Linker!EchoFirst
      OBVIOUS
    <2>1. ASSUME NEW c \in Linker!Chunks \ {1}, NEW i \in DOMAIN linkerWritten,
                 NEW j \in DOMAIN linkerWritten,
                 linkerWritten[i] = <<"echo", <<c>>>>, linkerWritten[j] = linkerWritten[i]
          PROVE  i = j
      BY <2>1 DEF LinkerInv, InEcho, OnceIn, Written
    <2>2. ASSUME NEW i \in DOMAIN linkerWritten, linkerWritten[i][1] = "answer"
          PROVE  \E j \in 1..(i - 1) :
                   /\ linkerWritten[j][1] = "echo"
                   /\ linkerWritten[i][2] \in {linkerWritten[j][2][k] : k \in DOMAIN linkerWritten[j][2]}
      BY <2>2 DEF AnswersTold, EchoOf, In
    <2> QED
      BY <2>1, <2>2 DEF Linker!EchoFirst
  <1> HIDE DEF Inv
  <1> QED
    BY <1>1, <1>2, <1>3, <1>4, LinkerBehaves, PTL

------------------------------------------------------------------------------
(* The window.                                                                *)

\* What happens in the window is what LauncherWindow says.
LEMMA WindowBehaves == Spec => Window!Init /\ [][Window!Next]_(Window!vars)
  <1>1. Init => Window!Init
    BY DEF Init
  <1>2. [Next]_vars => [Window!Next]_(Window!vars)
    BY DEF Next, TreeSteps, MonitorSteps, ArtifactsSteps, RenodeSteps, SourceSteps,
           WindowSteps, FleetSteps, LinkerSteps, DshotSteps, MacrosSteps, ImagesSteps,
           PortSteps, vars, windowVars, Window!vars
  <1> QED
    BY <1>1, <1>2, PTL DEF Spec

\* The window is a record; the target of what is installed or resolved is a target.
Widgets == {"start", "stop", "fc", "proto", "escs", "choose", "fcfw", "renode"}
Protocols == {"4way", "direct", "flightcontroller"}
PanelSets == (Targets \cup {"none"}) \X (EscCounts \cup {0, 1})
Launches == [target : Targets \cup {"none"},
             firmware : Targets \cup {"none", "local"}, panel : PanelSets, proto : Protocols \cup {"none"}]
Windows ==
    [target : Targets \cup {"none"}, lab : Targets \cup {"none"}, fc : BOOLEAN,
     proto : Protocols, bridge : {"4way", "direct"}, escs : EscCounts,
     firmware : {"local", "catalog"}, catalog : BOOLEAN, on : SUBSET Widgets,
     fcdl : BOOLEAN, dl : BOOLEAN, panel : PanelSets, launch : Launches, drift : BOOLEAN]
Targeted ==
    /\ \A m \in windowWork : m.kind \in {"target", "install"} => m.target \in Targets \cup {"none"}
    /\ \A m \in windowWork : m.kind = "target" => m.target \in Targets

\* The panels are those of lab's target; what runs is of that target, unless it was
\* resolved since, and nothing that changes the panels is enabled.
PanelFits(w) ==
    w.lab # "none" => w.panel = <<w.lab, IF w.proto = "direct" THEN 1 ELSE w.escs>>
RunFits(w) ==
    w.launch # Window!Nothing =>
        /\ w.lab # "none" /\ w.launch.target # "none"
        /\ w.launch.firmware \in {"local", w.launch.target}
        /\ w.launch.proto = w.proto
        /\ w.drift \/ w.panel = w.launch.panel
        /\ "stop" \in w.on
Fits(w) ==
    /\ w.fc <=> w.proto = "flightcontroller"
    /\ PanelFits(w) /\ RunFits(w)
    /\ w.launch # Window!Nothing => {"proto", "escs"} \cap w.on = {}

\* A button works, or a thread is on its way; d is what else will be heard.
Alive(w, kinds) ==
    /\ {"start", "stop"} \cap w.on = {} => {"install", "fc"} \cap kinds # {}
    /\ "choose" \notin w.on => "install" \in kinds
    /\ w.dl \/ "renode" \in w.on
Kinds == {m.kind : m \in windowWork}
WindowInv ==
    /\ windowWin \in Windows /\ Targeted
    /\ Fits(windowWin) /\ Alive(windowWin, Kinds)


\* What rebuild_control_panel makes of a window.
LEMMA RebuiltIs ==
    ASSUME NEW w \in Windows
    PROVE  LET v == Window!Rebuilt(w) IN
           /\ v \in Windows /\ v.proto = w.proto /\ v.on = w.on
           /\ v.target = w.target /\ v.lab = w.lab /\ v.fc = w.fc /\ v.escs = w.escs
           /\ v.launch = w.launch /\ v.drift = w.drift /\ v.dl = w.dl
           /\ v.panel = IF w.lab = "none" THEN w.panel
                        ELSE <<w.lab, IF w.proto = "direct" THEN 1 ELSE w.escs>>
  BY DEF Windows, PanelSets, Window!Rebuilt, Window!None

\* What Protocol makes of a window: the protocol that fits the flight controller, panels
\* that fit it if it is another, and of the widgets only those it sets.
LEMMA ProtocolIs ==
    ASSUME NEW w \in Windows
    PROVE  LET v == Window!Protocol(w)
               p == IF w.fc THEN "flightcontroller"
                    ELSE IF w.proto = "flightcontroller" THEN w.bridge ELSE w.proto
           IN  /\ v \in Windows
               /\ v.target = w.target /\ v.lab = w.lab /\ v.fc = w.fc /\ v.escs = w.escs
               /\ v.launch = w.launch /\ v.drift = w.drift /\ v.dl = w.dl
               /\ v.proto = p
               /\ v.panel = IF p # w.proto /\ w.lab # "none"
                            THEN <<w.lab, IF p = "direct" THEN 1 ELSE w.escs>> ELSE w.panel
               /\ \A x \in {"start", "stop", "fc", "choose", "renode"} : x \in v.on <=> x \in w.on
               /\ w.launch # Window!Nothing => {"proto", "escs"} \cap v.on = {}
  <1> DEFINE p == IF w.fc THEN "flightcontroller"
                  ELSE IF w.proto = "flightcontroller" THEN w.bridge ELSE w.proto
             b == IF w.proto \in Window!Bridges THEN w.proto ELSE w.bridge
             free == ~Window!Running(w)
             v1 == [w EXCEPT !.proto = p, !.bridge = b]
             v2 == Window!Sets(v1, "proto", ~w.fc /\ free)
             v3 == Window!Sets(v2, "escs", free /\ p # "direct")
             v4 == Window!FcControls(v3)
  <1>1. /\ v1 \in Windows /\ v1.proto = p /\ v1.on = w.on
        /\ v1.target = w.target /\ v1.lab = w.lab /\ v1.fc = w.fc /\ v1.escs = w.escs
        /\ v1.launch = w.launch /\ v1.drift = w.drift /\ v1.dl = w.dl /\ v1.panel = w.panel
    BY DEF Windows, Protocols, Window!Bridges
  <1> DEFINE Like(v, u) == /\ v \in Windows /\ v.proto = u.proto
                           /\ v.target = u.target /\ v.lab = u.lab /\ v.fc = u.fc
                           /\ v.escs = u.escs /\ v.launch = u.launch /\ v.drift = u.drift
                           /\ v.dl = u.dl /\ v.panel = u.panel
  <1>2. ASSUME NEW u \in Windows, NEW S \in SUBSET Widgets
        PROVE  Like([u EXCEPT !.on = S], u) /\ [u EXCEPT !.on = S].on = S
    BY <1>2 DEF Windows
  <1>3. \A u \in Windows : u.on \in SUBSET Widgets
    BY DEF Windows
  <1> HIDE DEF v1
  <1>4. /\ Like(v2, v1) /\ v2.on = IF ~w.fc /\ free THEN v1.on \cup {"proto"} ELSE v1.on \ {"proto"}
    <2> DEFINE S == IF ~w.fc /\ free THEN v1.on \cup {"proto"} ELSE v1.on \ {"proto"}
    <2>1. v2 = [v1 EXCEPT !.on = S]
      BY DEF Window!Sets
    <2>2. S \in SUBSET Widgets /\ v1 \in Windows
      BY <1>1, <1>3 DEF Widgets
    <2> HIDE DEF S
    <2>3. Like([v1 EXCEPT !.on = S], v1) /\ [v1 EXCEPT !.on = S].on = S
      BY <1>2, <2>2
    <2> QED
      BY <2>1, <2>3 DEF S
  <1> HIDE DEF v2
  <1>5. /\ Like(v3, v2) /\ v3.on = IF free /\ p # "direct" THEN v2.on \cup {"escs"} ELSE v2.on \ {"escs"}
    <2> DEFINE S == IF free /\ p # "direct" THEN v2.on \cup {"escs"} ELSE v2.on \ {"escs"}
    <2>1. v3 = [v2 EXCEPT !.on = S]
      BY DEF Window!Sets
    <2>2. S \in SUBSET Widgets /\ v2 \in Windows
      BY <1>1, <1>3, <1>4 DEF Widgets
    <2> HIDE DEF S
    <2>3. Like([v2 EXCEPT !.on = S], v2) /\ [v2 EXCEPT !.on = S].on = S
      BY <1>2, <2>2
    <2> QED
      BY <2>1, <2>3 DEF S
  <1> HIDE DEF v3
  <1>6. /\ Like(v4, v3) /\ v4.on = IF v3.fc /\ ~Window!Running(v3) /\ ~v3.fcdl THEN v3.on \cup {"fcfw"} ELSE v3.on \ {"fcfw"}
    <2> DEFINE S == IF v3.fc /\ ~Window!Running(v3) /\ ~v3.fcdl THEN v3.on \cup {"fcfw"} ELSE v3.on \ {"fcfw"}
    <2>1. v4 = [v3 EXCEPT !.on = S]
      BY DEF Window!Sets, Window!FcControls
    <2>2. S \in SUBSET Widgets /\ v3 \in Windows
      BY <1>1, <1>3, <1>5 DEF Widgets
    <2> HIDE DEF S
    <2>3. Like([v3 EXCEPT !.on = S], v3) /\ [v3 EXCEPT !.on = S].on = S
      BY <1>2, <2>2
    <2> QED
      BY <2>1, <2>3 DEF S
  <1> HIDE DEF v4
  <1>7. /\ Like(v4, v1)
        /\ \A x \in {"start", "stop", "fc", "choose", "renode"} : x \in v4.on <=> x \in w.on
        /\ w.launch # Window!Nothing => {"proto", "escs"} \cap v4.on = {}
    <2>1. ~free <=> w.launch # Window!Nothing
      BY DEF Window!Running
    <2>2. \A x \in {"start", "stop", "fc", "choose", "renode"} : x \in v4.on <=> x \in w.on
      BY <1>1, <1>4, <1>5, <1>6 DEF Widgets
    <2>3. w.launch # Window!Nothing => "proto" \notin v4.on /\ "escs" \notin v4.on
      BY <2>1, <1>4, <1>5, <1>6 DEF Widgets
    <2> QED
      BY <1>4, <1>5, <1>6, <2>2, <2>3
  <1>8. v4 \in Windows /\ p \in Protocols
    BY <1>6 DEF Windows, Protocols
  <1>9. LET v == Window!Rebuilt(v4) IN
          /\ v \in Windows /\ v.proto = v4.proto /\ v.on = v4.on
          /\ v.target = v4.target /\ v.lab = v4.lab /\ v.fc = v4.fc /\ v.escs = v4.escs
          /\ v.launch = v4.launch /\ v.drift = v4.drift /\ v.dl = v4.dl
          /\ v.panel = IF v4.lab = "none" THEN v4.panel
                       ELSE <<v4.lab, IF v4.proto = "direct" THEN 1 ELSE v4.escs>>
    BY <1>8, RebuiltIs
  <1>10. Window!Protocol(w) = IF p # w.proto THEN Window!Rebuilt(v4) ELSE v4
    BY DEF Window!Protocol, v1, v2, v3, v4, Window!Bridges, Windows, Protocols
  <1> QED
    BY <1>1, <1>7, <1>8, <1>9, <1>10


LEMMA ProtocolFits ==
    ASSUME NEW w \in Windows, PanelFits(w), RunFits(w),
           w.launch # Window!Nothing => (w.fc <=> w.proto = "flightcontroller")
    PROVE  Fits(Window!Protocol(w))
  <1> DEFINE v == Window!Protocol(w)
             p == IF w.fc THEN "flightcontroller"
                  ELSE IF w.proto = "flightcontroller" THEN w.bridge ELSE w.proto
  <1>1. /\ v \in Windows /\ v.lab = w.lab /\ v.fc = w.fc /\ v.escs = w.escs
        /\ v.launch = w.launch /\ v.drift = w.drift /\ v.proto = p
        /\ v.panel = IF p # w.proto /\ w.lab # "none"
                     THEN <<w.lab, IF p = "direct" THEN 1 ELSE w.escs>> ELSE w.panel
        /\ "stop" \in v.on <=> "stop" \in w.on
        /\ w.launch # Window!Nothing => {"proto", "escs"} \cap v.on = {}
    BY ProtocolIs
  <1>2. v.fc <=> v.proto = "flightcontroller"
    BY <1>1 DEF Windows
  <1>3. PanelFits(v)
    BY <1>1 DEF PanelFits
  <1>4. w.launch # Window!Nothing => p = w.proto
    BY DEF Windows, Protocols
  <1>5. RunFits(v)
    BY <1>1, <1>4 DEF RunFits
  <1> QED
    BY <1>1, <1>2, <1>3, <1>5 DEF Fits

LEMMA StoppedFits ==
    ASSUME NEW w \in Windows, PanelFits(w)
    PROVE  LET v == Window!Stopped(w) IN
           /\ v \in Windows /\ Fits(v) /\ v.launch = Window!Nothing
           /\ v.target = w.target /\ v.lab = w.lab /\ v.fc = w.fc /\ v.dl = w.dl
           /\ "start" \in v.on
           /\ \A x \in {"choose", "renode"} : x \in v.on <=> x \in w.on
  <1> DEFINE u == [w EXCEPT !.launch = Window!Nothing,
                            !.on = (@ \cup {"start", "proto", "fc"}) \ {"stop"}]
  <1>1. Window!Nothing \in Launches
    BY DEF Window!Nothing, Window!None, Launches, PanelSets
  <1>2. /\ u \in Windows /\ u.launch = Window!Nothing /\ u.panel = w.panel
        /\ u.proto = w.proto /\ u.escs = w.escs
        /\ u.target = w.target /\ u.lab = w.lab /\ u.fc = w.fc /\ u.dl = w.dl
        /\ "start" \in u.on
        /\ \A x \in {"choose", "renode"} : x \in u.on <=> x \in w.on
    BY <1>1 DEF Windows, Widgets
  <1>3. PanelFits(u) /\ RunFits(u)
    BY <1>2 DEF PanelFits, RunFits
  <1>4. Window!Stopped(w) = Window!Protocol(u)
    BY DEF Window!Stopped
  <1> HIDE DEF u
  <1>5. Fits(Window!Protocol(u))
    BY <1>2, <1>3, ProtocolFits
  <1> DEFINE v == Window!Protocol(u)
  <1>6. /\ v \in Windows /\ v.launch = u.launch
        /\ v.target = u.target /\ v.lab = u.lab /\ v.fc = u.fc /\ v.dl = u.dl
        /\ \A x \in {"start", "stop", "fc", "choose", "renode"} : x \in v.on <=> x \in u.on
    BY <1>2, ProtocolIs
  <1> HIDE DEF v
  <1>7. "start" \in v.on /\ \A x \in {"choose", "renode"} : x \in v.on <=> x \in w.on
    BY <1>2, <1>6
  <1> QED
    BY <1>2, <1>4, <1>5, <1>6, <1>7 DEF v

\* A window on which only the target, the firmware or the catalog changed.
LEMMA ChosenFits ==
    ASSUME NEW w \in Windows, Fits(w), NEW t \in Targets, NEW K, Alive(w, K)
    PROVE  Window!Chosen(w, t) \in Windows /\ Fits(Window!Chosen(w, t)) /\ Alive(Window!Chosen(w, t), K)
  <1> DEFINE v == [w EXCEPT !.target = t]
  <1>1. /\ v \in Windows /\ v.lab = w.lab /\ v.fc = w.fc /\ v.escs = w.escs
        /\ v.launch = w.launch /\ v.drift = w.drift /\ v.proto = w.proto
        /\ v.panel = w.panel /\ v.on = w.on /\ v.dl = w.dl
    BY DEF Windows
  <1>2. Fits(v) /\ Alive(v, K) /\ PanelFits(v)
    BY <1>1 DEF Fits, PanelFits, RunFits, Alive
  <1>3. Window!Chosen(w, t) = IF t # w.lab /\ Window!Running(w) THEN Window!Stopped(v) ELSE v
    BY <1>1 DEF Window!Chosen, Window!Running
  <1> HIDE DEF v
  <1>4. Window!Stopped(v) \in Windows /\ Fits(Window!Stopped(v)) /\ Alive(Window!Stopped(v), K)
    BY <1>1, <1>2, StoppedFits DEF Alive
  <1> QED
    BY <1>1, <1>2, <1>3, <1>4

\* What starts is of lab's target, with the panels there are.
LEMMA LaunchedFits ==
    ASSUME NEW w \in Windows, Fits(w), NEW f, f \in {"local", w.lab}, NEW K, Alive(w, K),
           NEW v \in Window!Launched(w, f)
    PROVE  v \in Windows /\ Fits(v) /\ Alive(v, K)
  <1>1. CASE v = w
    BY <1>1
  <1>2. CASE v # w
    <2> DEFINE l == [target |-> w.lab, firmware |-> f, panel |-> Window!Rebuilt(w).panel,
                     proto |-> w.proto]
    <2>1. /\ w.lab # "none"
          /\ v = [w EXCEPT !.launch = l,
                           !.on = (@ \cup {"stop"}) \ {"start", "proto", "escs", "fc", "fcfw"},
                           !.drift = FALSE]
      BY <1>2 DEF Window!Launched, Window!None
    <2>2. Window!Rebuilt(w).panel = w.panel
      BY <2>1, RebuiltIs DEF Fits, PanelFits
    <2>3. l \in Launches /\ l.target = w.lab /\ l.firmware = f /\ l.panel = w.panel /\ l.proto = w.proto
      BY <2>2 DEF Launches, Windows
    <2> HIDE DEF l
    <2>4. /\ v \in Windows /\ v.lab = w.lab /\ v.fc = w.fc /\ v.escs = w.escs
          /\ v.launch = l /\ v.proto = w.proto /\ v.panel = w.panel /\ v.dl = w.dl
          /\ "stop" \in v.on /\ {"proto", "escs"} \cap v.on = {}
          /\ \A x \in {"choose", "renode"} : x \in v.on <=> x \in w.on
      BY <2>1, <2>3 DEF Windows, Widgets
    <2>5. Fits(v)
      BY <2>1, <2>3, <2>4 DEF Fits, PanelFits, RunFits
    <2>6. Alive(v, K)
      BY <2>4 DEF Alive
    <2> QED
      BY <2>4, <2>5, <2>6
  <1> QED
    BY <1>1, <1>2


LEMMA MoreAlive ==
    ASSUME NEW w, NEW K, NEW L, Alive(w, K), K \subseteq L
    PROVE  Alive(w, L)
  BY DEF Alive

\* A thread that starts, and one that has been heard of.
LEMMA ThreadStarts ==
    ASSUME NEW S, windowWork' = windowWork \cup S
    PROVE  Kinds' = Kinds \cup {m.kind : m \in S}
  BY DEF Kinds

LEMMA ThreadHeard ==
    ASSUME NEW m \in windowWork, windowWork' = windowWork \ {m}
    PROVE  Kinds \ {m.kind} \subseteq Kinds'
  <1> SUFFICES ASSUME NEW n \in windowWork, n.kind # m.kind PROVE n.kind \in Kinds'
    BY DEF Kinds
  <1>1. n \in windowWork'
    OBVIOUS
  <1> QED
    BY <1>1 DEF Kinds

\* While nothing runs, the panels may be made anew.
LEMMA RebuiltFits ==
    ASSUME NEW w \in Windows, w.launch = Window!Nothing,
           w.fc <=> w.proto = "flightcontroller", NEW K, Alive(w, K)
    PROVE  Window!Rebuilt(w) \in Windows /\ Fits(Window!Rebuilt(w)) /\ Alive(Window!Rebuilt(w), K)
  <1> DEFINE v == Window!Rebuilt(w)
  <1>1. /\ v \in Windows /\ v.proto = w.proto /\ v.on = w.on
        /\ v.lab = w.lab /\ v.fc = w.fc /\ v.escs = w.escs
        /\ v.launch = w.launch /\ v.dl = w.dl
        /\ v.panel = IF w.lab = "none" THEN w.panel
                     ELSE <<w.lab, IF w.proto = "direct" THEN 1 ELSE w.escs>>
    BY RebuiltIs
  <1> HIDE DEF v
  <1>2. Fits(v) /\ Alive(v, K)
    BY <1>1 DEF Fits, PanelFits, RunFits, Alive
  <1> QED
    BY <1>1, <1>2 DEF v

\* The protocol may be any while nothing runs: it is made to fit.
LEMMA ProtocolFree ==
    ASSUME NEW w \in Windows, w.launch = Window!Nothing, NEW K, Alive(w, K)
    PROVE  LET v == Window!Protocol(w) IN
           /\ v \in Windows /\ v.launch = Window!Nothing /\ Alive(v, K)
           /\ v.fc <=> v.proto = "flightcontroller"
  <1> DEFINE v == Window!Protocol(w)
  <1>1. /\ v \in Windows /\ v.fc = w.fc /\ v.launch = w.launch /\ v.dl = w.dl
        /\ v.proto = IF w.fc THEN "flightcontroller"
                     ELSE IF w.proto = "flightcontroller" THEN w.bridge ELSE w.proto
        /\ \A x \in {"start", "stop", "fc", "choose", "renode"} : x \in v.on <=> x \in w.on
    BY ProtocolIs
  <1> HIDE DEF v
  <1>2. v.fc <=> v.proto = "flightcontroller"
    BY <1>1 DEF Windows
  <1>3. Alive(v, K)
    BY <1>1 DEF Alive
  <1> QED
    BY <1>1, <1>2, <1>3 DEF v

\* Nothing is chosen, started or installed yet.
LEMMA WindowInit == Window!Init => WindowInv
  <1> SUFFICES ASSUME Window!Init PROVE WindowInv
    OBVIOUS
  <1> USE DEF Window!Init, Window!None
  <1>1. Window!Nothing \in Launches
    BY DEF Window!Nothing, Window!None, Launches, PanelSets
  <1>2. windowWin \in Windows
    BY <1>1, HostAssumption DEF Windows, Widgets, Protocols, PanelSets
  <1>3. Targeted
    BY DEF Targeted
  <1>4. Fits(windowWin) /\ Alive(windowWin, Kinds)
    BY DEF Fits, PanelFits, RunFits, Alive
  <1> QED
    BY <1>2, <1>3, <1>4 DEF WindowInv

\* What the user chooses.
LEMMA ChoicesKeep ==
    ASSUME WindowInv,
           \/ Window!ChooseTarget \/ Window!ChooseSource \/ Window!ChooseFirmware
           \/ Window!ChooseFlightController \/ Window!ChooseProtocol \/ Window!ChooseCount
    PROVE  WindowInv'
  <1> USE DEF WindowInv
  <1>1. CASE Window!ChooseTarget
    <2>1. PICK t \in Targets :
            /\ windowWin' = Window!Chosen(windowWin, t)
            /\ windowWork' = windowWork \cup {[kind |-> "target", target |-> t]}
      BY <1>1 DEF Window!ChooseTarget, Window!Starts
    <2>2. Kinds \subseteq Kinds' /\ Targeted'
      BY <2>1, ThreadStarts DEF Targeted
    <2> QED
      BY <2>1, <2>2, ChosenFits, MoreAlive
  <1>2. CASE Window!ChooseSource
    <2>1. windowWin' = windowWin /\ windowWork' = windowWork \cup {[kind |-> "targets"]}
      BY <1>2 DEF Window!ChooseSource, Window!Starts
    <2>2. Kinds \subseteq Kinds' /\ Targeted'
      BY <2>1, ThreadStarts DEF Targeted
    <2> QED
      BY <2>1, <2>2, MoreAlive
  <1>3. CASE Window!ChooseFirmware
    <2>1. /\ windowWork' = windowWork
          /\ \E f \in {"local", "catalog"} : windowWin' = [windowWin EXCEPT !.firmware = f]
      BY <1>3 DEF Window!ChooseFirmware, Window!Same
    <2>2. /\ windowWin' \in Windows /\ Fits(windowWin') /\ Alive(windowWin', Kinds)
      BY <2>1 DEF Windows, Fits, PanelFits, RunFits, Alive
    <2> QED
      BY <2>1, <2>2 DEF Targeted, Kinds
  <1>4. CASE Window!ChooseFlightController
    <2> DEFINE v == [windowWin EXCEPT !.fc = ~@]
               u == IF Window!Running(windowWin) THEN Window!Stopped(v) ELSE v
               q == Window!Protocol(u)
    <2>1. windowWork' = windowWork /\ windowWin' = Window!Rebuilt(q)
      BY <1>4 DEF Window!ChooseFlightController, Window!Same
    <2>2. /\ v \in Windows /\ PanelFits(v) /\ Alive(v, Kinds) /\ v.launch = windowWin.launch
          /\ windowWin.launch # Window!Nothing <=> Window!Running(windowWin)
      BY DEF Windows, Fits, PanelFits, Alive, Window!Running
    <2> HIDE DEF v
    <2>3. /\ u \in Windows /\ u.launch = Window!Nothing /\ Alive(u, Kinds)
      <3>1. CASE Window!Running(windowWin)
        BY <2>2, <3>1, StoppedFits DEF Alive
      <3>2. CASE ~Window!Running(windowWin)
        BY <2>2, <3>2
      <3> QED
        BY <3>1, <3>2
    <2> HIDE DEF u
    <2>4. /\ q \in Windows /\ q.launch = Window!Nothing /\ Alive(q, Kinds)
          /\ q.fc <=> q.proto = "flightcontroller"
      BY <2>3, ProtocolFree
    <2> HIDE DEF q
    <2>5. windowWin' \in Windows /\ Fits(windowWin') /\ Alive(windowWin', Kinds)
      BY <2>1, <2>4, RebuiltFits
    <2> QED
      BY <2>1, <2>5 DEF Targeted, Kinds
  <1>5. CASE Window!ChooseProtocol
    <2>1. PICK p \in Protocols :
            /\ windowWork' = windowWork
            /\ windowWin' = Window!Rebuilt(Window!Protocol([windowWin EXCEPT !.proto = p]))
      BY <1>5 DEF Window!ChooseProtocol, Window!Same, Protocols, Window!Bridges
    <2>2. windowWin.launch = Window!Nothing
      BY <1>5 DEF Window!ChooseProtocol, Window!Running, Fits
    <2> DEFINE v == [windowWin EXCEPT !.proto = p]
               q == Window!Protocol(v)
    <2>3. /\ v \in Windows /\ Alive(v, Kinds) /\ v.launch = Window!Nothing
      BY <2>2 DEF Windows, Alive
    <2> HIDE DEF v
    <2>4. /\ q \in Windows /\ q.launch = Window!Nothing /\ Alive(q, Kinds)
          /\ q.fc <=> q.proto = "flightcontroller"
      BY <2>3, ProtocolFree
    <2> HIDE DEF q
    <2>5. windowWin' \in Windows /\ Fits(windowWin') /\ Alive(windowWin', Kinds)
      BY <2>1, <2>4, RebuiltFits DEF q, v
    <2> QED
      BY <2>1, <2>5 DEF Targeted, Kinds
  <1>6. CASE Window!ChooseCount
    <2>1. PICK n \in EscCounts :
            windowWork' = windowWork /\ windowWin' = Window!Rebuilt([windowWin EXCEPT !.escs = n])
      BY <1>6 DEF Window!ChooseCount, Window!Same
    <2>2. windowWin.launch = Window!Nothing
      BY <1>6 DEF Window!ChooseCount, Window!Running, Fits
    <2> DEFINE v == [windowWin EXCEPT !.escs = n]
    <2>3. /\ v \in Windows /\ Alive(v, Kinds) /\ v.launch = Window!Nothing
          /\ v.fc <=> v.proto = "flightcontroller"
      BY <2>2 DEF Windows, Alive, Fits
    <2> HIDE DEF v
    <2>4. windowWin' \in Windows /\ Fits(windowWin') /\ Alive(windowWin', Kinds)
      BY <2>1, <2>3, RebuiltFits DEF v
    <2> QED
      BY <2>1, <2>4 DEF Targeted, Kinds
  <1> QED
    BY <1>1, <1>2, <1>3, <1>4, <1>5, <1>6


\* Two windows that differ in widgets and downloads, target or catalog at most.
Same(v, w) ==
    /\ v.proto = w.proto /\ v.lab = w.lab /\ v.fc = w.fc /\ v.escs = w.escs
    /\ v.drift = w.drift /\ v.launch = w.launch /\ v.panel = w.panel

\* What refresh_fc_firmware_controls changes is one widget.
LEMMA FcControlsFit ==
    ASSUME NEW w \in Windows, Fits(w), NEW K, Alive(w, K)
    PROVE  /\ Window!FcControls(w) \in Windows
           /\ Fits(Window!FcControls(w)) /\ Alive(Window!FcControls(w), K)
  <1> DEFINE S == IF w.fc /\ ~Window!Running(w) /\ ~w.fcdl THEN w.on \cup {"fcfw"}
                  ELSE w.on \ {"fcfw"}
             v == [w EXCEPT !.on = S]
  <1>1. Window!FcControls(w) = v
    BY DEF Window!FcControls, Window!Sets
  <1>2. S \in SUBSET Widgets /\ \A x \in Widgets \ {"fcfw"} : x \in S <=> x \in w.on
    BY DEF Windows, Widgets
  <1> HIDE DEF S
  <1>3. /\ v \in Windows /\ v.proto = w.proto /\ v.on = S
        /\ v.lab = w.lab /\ v.fc = w.fc /\ v.escs = w.escs /\ v.drift = w.drift
        /\ v.launch = w.launch /\ v.dl = w.dl /\ v.panel = w.panel
    BY <1>2 DEF Windows
  <1> HIDE DEF v
  <1>4. Fits(v) /\ Alive(v, K)
    BY <1>2, <1>3 DEF Fits, PanelFits, RunFits, Alive, Widgets
  <1> QED
    BY <1>1, <1>3, <1>4

\* What starts and stops.
LEMMA StartsKeep ==
    ASSUME WindowInv,
           \/ Window!Start \/ Window!Stop \/ Window!UpdateFcFirmware
           \/ Window!DownloadRenode \/ Window!EmulatorExits
    PROVE  WindowInv'
  <1> USE DEF WindowInv
  <1>1. CASE Window!Start /\ windowWin.firmware = "local"
    <2>1. windowWork' = windowWork /\ windowWin' \in Window!Launched(windowWin, "local")
      BY <1>1 DEF Window!Start, Window!Same
    <2>2. windowWin' \in Windows /\ Fits(windowWin') /\ Alive(windowWin', Kinds)
      BY <2>1, LaunchedFits
    <2> QED
      BY <2>1, <2>2 DEF Targeted, Kinds
  <1>2. CASE Window!Start /\ windowWin.firmware # "local"
    <2> DEFINE m == [kind |-> "install", no |-> windowStarted, target |-> windowWin.lab]
    <2>1. /\ windowWin' = [windowWin EXCEPT !.on = @ \ {"start", "choose"}]
          /\ windowWork' = windowWork \cup {m}
      BY <1>2 DEF Window!Start, Window!Starts
    <2>2. m.kind = "install" /\ m.target \in Targets \cup {"none"}
      BY DEF Windows
    <2> HIDE DEF m
    <2>3. "install" \in Kinds' /\ Targeted'
      <3>1. Kinds' = Kinds \cup {n.kind : n \in {m}}
        BY <2>1, ThreadStarts
      <3>2. Targeted'
        BY <2>1, <2>2 DEF Targeted
      <3> QED
        BY <3>1, <3>2, <2>2
    <2>4. windowWin' \in Windows /\ Fits(windowWin') /\ Alive(windowWin', Kinds')
      BY <2>1, <2>3 DEF Windows, Fits, PanelFits, RunFits, Alive
    <2> QED
      BY <2>3, <2>4
  <1>3. CASE Window!Stop
    <2>1. windowWork' = windowWork /\ windowWin' = Window!Stopped(windowWin)
      BY <1>3 DEF Window!Stop, Window!Same
    <2>2. windowWin' \in Windows /\ Fits(windowWin') /\ Alive(windowWin', Kinds)
      BY <2>1, StoppedFits DEF Fits, Alive
    <2> QED
      BY <2>1, <2>2 DEF Targeted, Kinds
  <1>4. CASE Window!UpdateFcFirmware
    <2> DEFINE v == [windowWin EXCEPT !.fcdl = TRUE, !.on = @ \ {"start", "fc"}]
    <2>1. /\ windowWin' = Window!FcControls(v) /\ windowWork' = windowWork \cup {[kind |-> "fc"]}
      BY <1>4 DEF Window!UpdateFcFirmware, Window!Starts
    <2>2. Kinds \subseteq Kinds' /\ "fc" \in Kinds' /\ Targeted'
      <3>1. Kinds' = Kinds \cup {n.kind : n \in {[kind |-> "fc"]}}
        BY <2>1, ThreadStarts
      <3>2. "fc" \in Kinds'
        BY <3>1
      <3>3. Targeted'
        BY <2>1 DEF Targeted
      <3> QED
        BY <3>1, <3>2, <3>3
    <2>3. /\ v \in Windows /\ v.on = windowWin.on \ {"start", "fc"}
          /\ Same(v, windowWin) /\ v.dl = windowWin.dl
      BY DEF Windows, Same
    <2> HIDE DEF v
    <2>4. Fits(v) /\ Alive(v, Kinds')
      BY <2>2, <2>3 DEF Same, Fits, PanelFits, RunFits, Alive
    <2> QED
      BY <2>1, <2>2, <2>3, <2>4, FcControlsFit
  <1>5. CASE Window!DownloadRenode
    <2> DEFINE m == [kind |-> "renode", no |-> windowStarted]
    <2>1. /\ windowWin' = [windowWin EXCEPT !.dl = TRUE, !.on = @ \ {"renode"}]
          /\ windowWork' = windowWork \cup {m}
      BY <1>5 DEF Window!DownloadRenode, Window!Starts, Window!Sets, Windows
    <2>2. Kinds \subseteq Kinds' /\ Targeted'
      BY <2>1, ThreadStarts DEF Targeted
    <2>3. windowWin' \in Windows /\ Fits(windowWin') /\ Alive(windowWin', Kinds')
      BY <2>1, <2>2 DEF Windows, Fits, PanelFits, RunFits, Alive
    <2> QED
      BY <2>2, <2>3
  <1>6. CASE Window!EmulatorExits
    <2>1. /\ windowWin' = [windowWin EXCEPT !.launch = Window!Nothing]
          /\ windowWork' = windowWork
      BY <1>6 DEF Window!EmulatorExits, Window!Same
    <2>2. Window!Nothing \in Launches
      BY DEF Window!Nothing, Window!None, Launches, PanelSets
    <2>3. windowWin' \in Windows /\ Fits(windowWin') /\ Alive(windowWin', Kinds)
      BY <2>1, <2>2 DEF Windows, Fits, PanelFits, RunFits, Alive
    <2> QED
      BY <2>1, <2>3 DEF Targeted, Kinds
  <1> QED
    BY <1>1, <1>2, <1>3, <1>4, <1>5, <1>6

\* A thread that was heard of and that enables nothing.
LEMMA Unmissed ==
    ASSUME NEW w, NEW m \in windowWork, Alive(w, Kinds), m.kind \notin {"install", "fc"},
           Kinds \ {m.kind} \subseteq Kinds'
    PROVE  Alive(w, Kinds')
  BY DEF Alive

\* What is heard of lists, targets and the catalog.
LEMMA NewsKeeps ==
    ASSUME WindowInv, Window!TargetsListed \/ Window!TargetResolved \/ Window!CatalogArrives
    PROVE  WindowInv'
  <1> USE DEF WindowInv
  <1>1. CASE Window!TargetsListed
    <2>1. PICK m \in windowWork, t \in Targets :
            /\ m.kind = "targets" /\ windowWin' = Window!Chosen(windowWin, t)
            /\ windowWork' = (windowWork \ {m}) \cup {[kind |-> "target", target |-> t]}
      BY <1>1 DEF Window!TargetsListed
    <2>2. Kinds \ {m.kind} \subseteq Kinds'
      <3> SUFFICES ASSUME NEW n \in windowWork, n.kind # m.kind PROVE n.kind \in Kinds'
        BY DEF Kinds
      <3>1. n \in windowWork'
        BY <2>1
      <3> QED
        BY <3>1 DEF Kinds
    <2>3. Targeted'
      BY <2>1 DEF Targeted
    <2>4. Alive(windowWin, Kinds')
      BY <2>1, <2>2, Unmissed
    <2> QED
      BY <2>1, <2>3, <2>4, ChosenFits
  <1>2. CASE Window!TargetResolved
    <2>1. PICK m \in windowWork :
            /\ m.kind = "target" /\ windowWork' = windowWork \ {m}
            /\ windowWin' = IF m.target # windowWin.target THEN windowWin
                  ELSE Window!Rebuilt(Window!Releases([windowWin EXCEPT !.lab = m.target,
                         !.drift = @ \/ (Window!Running(windowWin) /\ windowWin.lab # m.target)]))
      BY <1>2 DEF Window!TargetResolved
    <2>2. /\ m.target \in Targets /\ m.target # "none" /\ Targeted'
          /\ Alive(windowWin, Kinds')
      BY <2>1, ThreadHeard, Unmissed, HostAssumption DEF Targeted
    <2> DEFINE v == [windowWin EXCEPT !.lab = m.target,
                       !.drift = @ \/ (Window!Running(windowWin) /\ windowWin.lab # m.target)]
               u == Window!Releases(v)
    <2>3. /\ v \in Windows /\ v.proto = windowWin.proto /\ v.on = windowWin.on
          /\ v.lab = m.target /\ v.fc = windowWin.fc /\ v.escs = windowWin.escs
          /\ v.launch = windowWin.launch /\ v.dl = windowWin.dl /\ v.panel = windowWin.panel
      BY <2>2 DEF Windows
    <2>4. v.drift <=> windowWin.drift \/ (windowWin.launch # Window!Nothing /\ windowWin.lab # m.target)
      BY DEF Window!Running, Windows
    <2> HIDE DEF v
    <2>5. /\ u \in Windows /\ u.proto = v.proto /\ u.on = v.on /\ u.drift = v.drift
          /\ u.lab = v.lab /\ u.fc = v.fc /\ u.escs = v.escs
          /\ u.launch = v.launch /\ u.dl = v.dl /\ u.panel = v.panel
      BY <2>3 DEF Windows, Window!Releases
    <2> HIDE DEF u
    <2> DEFINE q == Window!Rebuilt(u)
    <2>6. /\ q \in Windows /\ q.proto = u.proto /\ q.on = u.on /\ q.drift = u.drift
          /\ q.lab = u.lab /\ q.fc = u.fc /\ q.escs = u.escs
          /\ q.launch = u.launch /\ q.dl = u.dl
          /\ q.panel = <<u.lab, IF u.proto = "direct" THEN 1 ELSE u.escs>>
      BY <2>2, <2>3, <2>5, RebuiltIs
    <2> HIDE DEF q
    <2>7. PanelFits(q) /\ (q.fc <=> q.proto = "flightcontroller")
          /\ (q.launch # Window!Nothing => {"proto", "escs"} \cap q.on = {})
      BY <2>3, <2>5, <2>6 DEF PanelFits, Fits
    <2>8. RunFits(q)
      BY <2>2, <2>3, <2>4, <2>5, <2>6 DEF PanelFits, Fits, RunFits
    <2>9. Alive(q, Kinds')
      BY <2>2, <2>3, <2>5, <2>6 DEF Alive
    <2> QED
      BY <2>1, <2>2, <2>6, <2>7, <2>8, <2>9 DEF Fits, q, u, v
  <1>3. CASE Window!CatalogArrives
    <2>1. PICK m \in windowWork :
            /\ m.kind = "catalog" /\ windowWork' = windowWork \ {m}
            /\ \/ windowWin' = windowWin
               \/ windowWin' = Window!Releases([windowWin EXCEPT !.catalog = TRUE])
      BY <1>3 DEF Window!CatalogArrives, Window!Heard
    <2>2. Alive(windowWin, Kinds') /\ Targeted'
      BY <2>1, ThreadHeard, Unmissed DEF Targeted
    <2>3. \/ windowWin' = windowWin
          \/ windowWin' = [windowWin EXCEPT !.catalog = TRUE]
          \/ windowWin' = [windowWin EXCEPT !.catalog = TRUE, !.firmware = "catalog"]
      BY <2>1 DEF Window!Releases
    <2>4. /\ windowWin' \in Windows /\ Same(windowWin', windowWin)
          /\ windowWin'.dl = windowWin.dl /\ windowWin'.on = windowWin.on
      BY <2>3 DEF Windows, Same
    <2> DEFINE v == windowWin'
    <2> HIDE DEF v
    <2>5. ASSUME v \in Windows, Same(v, windowWin), v.dl = windowWin.dl, v.on = windowWin.on
          PROVE  Fits(v) /\ Alive(v, Kinds')
      BY <2>2, <2>5 DEF Same, Fits, PanelFits, RunFits, Alive
    <2> QED
      BY <2>2, <2>4, <2>5 DEF v
  <1> QED
    BY <1>1, <1>2, <1>3

\* What is heard of downloads and installations.
LEMMA ArrivalsKeep ==
    ASSUME WindowInv, Window!ArtifactsArrive \/ Window!FcFirmwareArrives \/ Window!RenodeArrives
    PROVE  WindowInv'
  <1> USE DEF WindowInv
  <1>1. CASE Window!ArtifactsArrive
    <2> DEFINE v == [windowWin EXCEPT !.on = @ \cup {"start", "choose"}]
    <2>1. PICK m \in windowWork :
            /\ windowWork' = windowWork \ {m}
            /\ \/ windowWin' = v
               \/ m.target = windowWin.lab /\ windowWin' \in Window!Launched(v, m.target)
      BY <1>1 DEF Window!ArtifactsArrive, Window!ForThisTarget
    <2>2. Targeted'
      BY <2>1 DEF Targeted
    <2>3. /\ v \in Windows /\ v.on = windowWin.on \cup {"start", "choose"}
          /\ Same(v, windowWin) /\ v.dl = windowWin.dl
      BY DEF Windows, Widgets, Same
    <2> HIDE DEF v
    <2>4. Fits(v) /\ Alive(v, Kinds')
      BY <2>3 DEF Same, Fits, PanelFits, RunFits, Alive
    <2> QED
      BY <2>1, <2>2, <2>3, <2>4, LaunchedFits DEF Same
  <1>2. CASE Window!FcFirmwareArrives
    <2> DEFINE v == [windowWin EXCEPT !.fcdl = FALSE, !.on = @ \cup {"start", "fc"}]
               q == Window!Protocol(v)
    <2>1. PICK m \in windowWork :
            /\ m.kind = "fc" /\ windowWork' = windowWork \ {m}
            /\ windowWin' = Window!FcControls(q)
      BY <1>2 DEF Window!FcFirmwareArrives, Window!Heard
    <2>2. Targeted' /\ Kinds \ {"fc"} \subseteq Kinds'
      BY <2>1, ThreadHeard DEF Targeted
    <2>9. /\ v \in Windows /\ v.on = windowWin.on \cup {"start", "fc"}
          /\ Same(v, windowWin) /\ v.dl = windowWin.dl
      BY DEF Windows, Widgets, Same
    <2> HIDE DEF v
    <2>3. /\ v \in Windows /\ PanelFits(v) /\ RunFits(v) /\ (v.fc <=> v.proto = "flightcontroller")
          /\ Alive(v, Kinds') /\ "start" \in v.on
      BY <2>2, <2>9 DEF Same, Fits, PanelFits, RunFits, Alive
    <2>4. Fits(q)
      BY <2>3, ProtocolFits
    <2>5. /\ q \in Windows /\ q.dl = v.dl
          /\ \A x \in {"start", "stop", "fc", "choose", "renode"} : x \in q.on <=> x \in v.on
      BY <2>3, ProtocolIs
    <2> HIDE DEF q
    <2>6. Alive(q, Kinds')
      BY <2>3, <2>5 DEF Alive
    <2> QED
      BY <2>1, <2>2, <2>4, <2>5, <2>6, FcControlsFit
  <1>3. CASE Window!RenodeArrives
    <2>1. PICK m \in windowWork :
            /\ m.kind \in {"renode", "check"} /\ windowWork' = windowWork \ {m}
            /\ \/ windowWin' = windowWin
               \/ windowWin' = Window!Sets([windowWin EXCEPT !.dl = FALSE], "renode", TRUE)
      BY <1>3 DEF Window!RenodeArrives, Window!Heard
    <2>2. Alive(windowWin, Kinds') /\ Targeted'
      BY <2>1, ThreadHeard, Unmissed DEF Targeted
    <2>3. \/ windowWin' = windowWin
          \/ windowWin' = [windowWin EXCEPT !.dl = FALSE, !.on = @ \cup {"renode"}]
      BY <2>1 DEF Window!Sets, Windows
    <2>4. /\ windowWin' \in Windows /\ Same(windowWin', windowWin)
          /\ \/ windowWin'.dl = windowWin.dl /\ windowWin'.on = windowWin.on
             \/ windowWin'.dl = FALSE /\ windowWin'.on = windowWin.on \cup {"renode"}
      <3>1. CASE windowWin' = windowWin
        BY <3>1 DEF Same
      <3>2. CASE windowWin' = [windowWin EXCEPT !.dl = FALSE, !.on = @ \cup {"renode"}]
        BY <3>2 DEF Windows, Widgets, Same
      <3> QED
        BY <2>3, <3>1, <3>2
    <2> DEFINE v == windowWin'
    <2> HIDE DEF v
    <2>5. ASSUME v \in Windows, Same(v, windowWin),
                 \/ v.dl = windowWin.dl /\ v.on = windowWin.on
                 \/ v.dl = FALSE /\ v.on = windowWin.on \cup {"renode"}
          PROVE  Fits(v) /\ Alive(v, Kinds')
      BY <2>2, <2>5 DEF Same, Fits, PanelFits, RunFits, Alive
    <2> QED
      BY <2>2, <2>4, <2>5 DEF v
  <1> QED
    BY <1>1, <1>2, <1>3

\* What runs is of one piece, and the window is never dead.
LEMMA WindowGood == Spec => [](Window!LaunchWhole /\ Window!NeverDead)
  <1>1. WindowInv /\ [Window!Next]_(Window!vars) => WindowInv'
    <2>1. ASSUME WindowInv, UNCHANGED Window!vars PROVE WindowInv'
      BY <2>1 DEF WindowInv, Window!vars, Targeted, Kinds
    <2> QED
      BY <2>1, ChoicesKeep, StartsKeep, NewsKeeps, ArrivalsKeep DEF Window!Next
  <1>2. WindowInv => Window!LaunchWhole
    BY DEF WindowInv, Fits, RunFits, Window!LaunchWhole, Window!Running
  <1>3. WindowInv => Window!NeverDead
    BY DEF WindowInv, Fits, RunFits, Alive, Kinds, Window!NeverDead, Window!Running
  <1> QED
    BY <1>1, <1>2, <1>3, WindowInit, WindowBehaves, PTL

------------------------------------------------------------------------------
(* The SITL bench of several ESCs.                                            *)

\* What happens on the bench is what EscFleet says.
LEMMA FleetBehaves == Spec => Fleet!Init /\ [][Fleet!Next]_(Fleet!vars)
  <1>1. Init => Fleet!Init
    BY DEF Init
  <1>2. [Next]_vars => [Fleet!Next]_(Fleet!vars)
    BY DEF Next, TreeSteps, MonitorSteps, ArtifactsSteps, RenodeSteps, SourceSteps,
           WindowSteps, FleetSteps, LinkerSteps, DshotSteps, MacrosSteps, ImagesSteps,
           PortSteps, vars, fleetVars, Fleet!vars, Fleet!usbVars
  <1> QED
    BY <1>1, <1>2, PTL DEF Spec

FleetTypes ==
    /\ fleetCount \in 1..MaxEscs /\ fleetDirect \in 1..fleetCount
    /\ fleetAlive \subseteq 1..MaxEscs /\ fleetLocked \subseteq 1..MaxEscs
    /\ fleetDrives \subseteq (1..fleetCount) \X {"dshot", "can"}
    /\ fleetMode \in {"off", "fourway", "serial", "betaflight"}
    /\ fleetGui \in {"free", "change", "close", "closed"}
    /\ fleetWorker \in {"none", "build", "attach", "tty", "cleanup", "up", "failed", "done"}
    /\ fleetStart \in 0..MaxDevices /\ fleetCancelled \in BOOLEAN
    /\ fleetStub \in 0..fleetStart /\ fleetAttachment \in 0..MaxDevices
    /\ fleetAnswers \in Seq([kind : {"up", "failed", "reboot"}, of : 1..MaxDevices])
    /\ fleetShown \in 0..MaxDevices

\* While a device is served, or one is being made, the panels are locked, and nothing is
\* driven that the mode forbids.
Works == fleetWorker \notin {"none", "failed", "done"}
Owns ==
    fleetStub # 0 \/ Works =>
        /\ fleetLocked = 1..fleetCount
        /\ \A e \in 1..MaxEscs : <<e, "dshot">> \notin fleetDrives
        /\ fleetGui = "free" =>
              fleetMode # "off" /\ (fleetMode = "betaflight" => fleetDrives = {})

\* The one device is that of the last start that got so far.
Single ==
    /\ fleetDevices = {fleetAttachment} \ {0}
    /\ fleetWorker \in {"build", "attach"} => fleetAttachment = 0
    /\ fleetWorker # "none" => fleetStart # 0
    /\ fleetWorker \in {"attach", "tty", "up"} => fleetStub = fleetStart
    /\ fleetWorker \in {"tty", "up"} => fleetAttachment = fleetStart
    /\ fleetWorker = "failed" => fleetStub = 0
    /\ fleetStub # 0 => fleetTargets \subseteq 1..fleetCount

\* A tty is shown, or will be once an answer is taken, for a device that is there; an
\* answer that is neither of an old start nor of a cancelled one is true.
Shows ==
    /\ fleetShown # 0 /\ fleetGui # "closed" =>
           fleetStub = fleetShown /\ fleetAttachment = fleetShown
    /\ fleetWorker \notin {"none", "done"} => fleetShown = 0
Reported(a) ==
    /\ a.of <= fleetStart
    /\ a.kind # "reboot" /\ a.of = fleetStart =>
        /\ fleetWorker \in {"none", "done"}
        /\ ~fleetCancelled =>
            /\ fleetWorker = "done"
            /\ IF a.kind = "up" THEN fleetStub = fleetStart /\ fleetAttachment = fleetStart
               ELSE fleetStub = 0
Down ==
    fleetGui = "closed" =>
        fleetAlive = {} /\ fleetStub = 0 /\ fleetWorker = "none" /\ fleetDrives = {} /\ fleetCancelled
Closing == fleetGui \in {"change", "close"} => fleetCancelled = TRUE
FleetInv ==
    /\ FleetTypes /\ Owns /\ Single /\ Shows /\ Down /\ Closing
    /\ \A i \in DOMAIN fleetAnswers : Reported(fleetAnswers[i])

LEMMA FleetInit == Fleet!Init => FleetInv
  <1> SUFFICES ASSUME Fleet!Init PROVE FleetInv
    OBVIOUS
  <1>1. MaxEscs \in 1..MaxEscs /\ 1 \in 1..MaxEscs
    BY HostAssumption
  <1>2. fleetAnswers = <<>> /\ DOMAIN fleetAnswers = {}
    BY DEF Fleet!Init
  <1>3. FleetTypes
    <2>1. fleetAnswers \in Seq([kind : {"up", "failed", "reboot"}, of : 1..MaxDevices])
      BY <1>2
    <2>2. 0 \in 0..MaxDevices /\ 0 \in 0..0
      BY HostAssumption
    <2> QED
      BY <1>1, <2>1, <2>2 DEF Fleet!Init, FleetTypes
  <1> QED
    BY <1>2, <1>3 DEF Fleet!Init, FleetInv, Owns, Works, Single, Shows, Down, Closing

\* What the simulators do is not the device's matter.
LEMMA SimulatorsKeep ==
    ASSUME FleetInv,
           \/ Fleet!StartAll \/ Fleet!StopAll
           \/ \E e \in Fleet!Escs : Fleet!Launch(e) \/ Fleet!Halt(e) \/ Fleet!Dies(e)
    PROVE  FleetInv'
  <1>1. /\ UNCHANGED <<fleetCount, fleetDrives, fleetLocked, Fleet!usbVars>>
        /\ fleetGui # "closed"
    BY DEF Fleet!StartAll, Fleet!StopAll, Fleet!Launch, Fleet!Halt, Fleet!Dies
  <1>2. fleetAlive' \subseteq 1..MaxEscs
    <2>1. CASE Fleet!StopAll \/ \E e \in Fleet!Escs : Fleet!Halt(e) \/ Fleet!Dies(e)
      BY <2>1 DEF Fleet!StopAll, Fleet!Halt, Fleet!Dies, FleetInv, FleetTypes
    <2>2. ASSUME NEW W \in SUBSET (1..MaxEscs), Fleet!Launched(W)
          PROVE  fleetAlive' \subseteq 1..MaxEscs
      BY <2>2 DEF Fleet!Launched, FleetInv, FleetTypes
    <2>3. Fleet!Panels \subseteq 1..MaxEscs
      BY HostAssumption DEF Fleet!Panels, FleetInv, FleetTypes
    <2> QED
      BY <2>1, <2>2, <2>3 DEF Fleet!StartAll, Fleet!Launch
  <1> QED
    BY <1>1, <1>2 DEF Fleet!usbVars, FleetInv, FleetTypes, Owns, Works, Single, Shows, Down, Closing, Reported

\* What a panel drives is what its switch, the mode or no device allows.
LEMMA DrivesKeep ==
    ASSUME FleetInv,
           \/ \E e \in Fleet!Escs : Fleet!StartBench(e)
           \/ \E i \in DrivenInputs : Fleet!Drive(i[1], i[2])
           \/ \E d \in fleetDrives : Fleet!Release(d)
    PROVE  FleetInv'
  <1>1. CASE \E d \in fleetDrives : Fleet!Release(d)
    BY <1>1 DEF Fleet!Release, Fleet!usbVars, FleetInv, FleetTypes, Owns, Works, Single, Shows,
       Down, Closing, Reported
  <1>2. CASE \E e \in Fleet!Escs : Fleet!StartBench(e)
    <2>1. PICK e \in 1..fleetCount :
            /\ fleetGui = "free" /\ fleetMode = "off"
            /\ fleetDrives' = (fleetDrives \cup {<<e, "dshot">>}) \ {<<e, "can">>}
            /\ fleetAlive' \in {fleetAlive \cup {e}, fleetAlive \ {e}}
            /\ UNCHANGED <<fleetCount, fleetLocked, Fleet!usbVars>>
      BY <1>2 DEF Fleet!StartBench, Fleet!Panels
    <2>2. fleetStub = 0 /\ ~Works
      BY <2>1 DEF FleetInv, Owns
    <2>3. e \in 1..MaxEscs
      BY <2>1, HostAssumption DEF FleetInv, FleetTypes
    <2> QED
      BY <2>1, <2>2, <2>3 DEF Fleet!usbVars, FleetInv, FleetTypes, Owns, Works, Single, Shows,
         Down, Closing, Reported
  <1>3. CASE \E i \in DrivenInputs : Fleet!Drive(i[1], i[2])
    <2>1. PICK i \in DrivenInputs : Fleet!Drive(i[1], i[2])
      BY <1>3
    <2>2. i \in (1..MaxEscs) \X {"dshot", "can"}
      BY HostAssumption
    <2>3. PICK e \in 1..MaxEscs, input \in {"dshot", "can"} : Fleet!Drive(e, input)
      BY <2>1, <2>2
    <2>4. /\ fleetGui = "free" /\ e \in 1..fleetCount
          /\ \/ input = "dshot" /\ (fleetMode = "off" \/ e \notin fleetLocked)
             \/ input = "can" /\ fleetMode # "betaflight"
          /\ fleetDrives' = fleetDrives \cup {<<e, input>>}
          /\ UNCHANGED <<fleetCount, fleetAlive, fleetLocked, Fleet!usbVars>>
      BY <2>3 DEF Fleet!Drive, Fleet!Panels
    <2>5. fleetStub # 0 \/ Works => input = "can" /\ fleetMode # "betaflight"
      BY <2>4 DEF FleetInv, Owns
    <2>6. Owns'
      BY <2>4, <2>5 DEF Fleet!usbVars, FleetInv, Owns, Works
    <2>7. FleetTypes'
      BY <2>4 DEF Fleet!usbVars, FleetInv, FleetTypes
    <2> QED
      BY <2>4, <2>6, <2>7 DEF Fleet!usbVars, FleetInv, Works, Single, Shows, Down, Closing, Reported
  <1> QED
    BY <1>1, <1>2, <1>3

\* Tabs are closed and chosen while there is no device.
LEMMA TabsKeep ==
    ASSUME FleetInv, \E e \in Fleet!Escs : Fleet!SetCount(e) \/ Fleet!SetDirect(e)
    PROVE  FleetInv'
  <1>1. PICK e \in 1..MaxEscs : Fleet!SetCount(e) \/ Fleet!SetDirect(e)
    BY DEF Fleet!Escs
  <1>2. fleetStub = 0 /\ ~Works /\ e \in Nat /\ e >= 1
    BY <1>1, HostAssumption DEF Fleet!SetCount, Fleet!SetDirect, FleetInv, Owns
  <1>3. CASE Fleet!SetDirect(e)
    BY <1>2, <1>3 DEF Fleet!SetDirect, Fleet!Panels, FleetInv, FleetTypes, Owns, Works, Single,
       Shows, Down, Closing, Reported
  <1>4. CASE Fleet!SetCount(e)
    <2>1. /\ fleetCount' = e /\ fleetDirect' = IF fleetDirect > e THEN e ELSE fleetDirect
          /\ fleetDrives' = {d \in fleetDrives : d[1] <= e}
          /\ fleetLocked' = {x \in fleetLocked : x <= e}
          /\ UNCHANGED <<fleetAlive, fleetMode, fleetGui, fleetWorker, fleetStart, fleetCancelled,
                         fleetStub, fleetTargets, fleetAttachment, fleetDevices, fleetAnswers,
                         fleetTimers, fleetShown>>
      BY <1>4 DEF Fleet!SetCount
    <2>2. fleetDrives' \subseteq (1..e) \X {"dshot", "can"}
      <3> SUFFICES ASSUME NEW d \in fleetDrives, d[1] <= e PROVE d \in (1..e) \X {"dshot", "can"}
        BY <2>1
      <3>1. d \in (1..fleetCount) \X {"dshot", "can"}
        BY DEF FleetInv, FleetTypes
      <3> QED
        BY <3>1, <1>2
    <2>4. fleetDirect' \in 1..e /\ fleetLocked' \subseteq 1..MaxEscs
      <3>1. fleetDirect \in Nat /\ fleetDirect >= 1
        BY HostAssumption DEF FleetInv, FleetTypes
      <3>2. fleetDirect' \in 1..e
        BY <2>1, <1>2, <3>1
      <3>3. fleetLocked' \subseteq 1..MaxEscs
        BY <2>1 DEF FleetInv, FleetTypes
      <3> QED
        BY <3>2, <3>3
    <2>3. FleetTypes'
      BY <2>1, <2>2, <2>4, <1>1 DEF FleetInv, FleetTypes
    <2> QED
      BY <2>1, <2>3, <1>2 DEF FleetInv, Owns, Works, Single, Shows, Down, Closing, Reported
  <1> QED
    BY <1>1, <1>3, <1>4

LEMMA AnswerIs ==
    ASSUME FleetInv, NEW i \in DOMAIN fleetAnswers
    PROVE  /\ fleetAnswers[i].kind \in {"up", "failed", "reboot"} /\ fleetAnswers[i].of \in 1..MaxDevices
           /\ fleetAnswers[i].of \in Nat /\ Reported(fleetAnswers[i])
  <1> DEFINE S == [kind : {"up", "failed", "reboot"}, of : 1..MaxDevices]
  <1>1. fleetAnswers[i] \in S
    <2>1. fleetAnswers \in Seq(S)
      BY DEF FleetInv, FleetTypes
    <2> HIDE DEF S
    <2> QED
      BY <2>1
  <1> QED
    BY <1>1, HostAssumption DEF FleetInv


\* A device is made in a mode: all panels are locked before its worker starts.
LEMMA MadeKeeps ==
    ASSUME FleetInv, NEW m \in Fleet!Modes, Fleet!Owned(m), fleetMode' = m,
           fleetStart < MaxDevices, fleetStart' = fleetStart + 1, fleetCancelled' = FALSE,
           fleetWorker' = "build", fleetGui' = "free", fleetShown' = 0, fleetStub' = 0,
           fleetAttachment' = 0, fleetDevices' = {},
           UNCHANGED <<fleetCount, fleetAlive, fleetDirect, fleetAnswers>>
    PROVE  FleetInv'
  <1>1. /\ fleetLocked' = 1..fleetCount
        /\ fleetDrives' = {d \in fleetDrives : d[2] = "can" /\ m # "betaflight"}
    BY DEF Fleet!Owned, Fleet!Panels, Fleet!Modes
  <1>2. fleetStart' \in 0..MaxDevices /\ fleetStart' # 0 /\ fleetStart \in Nat /\ 0 \in 0..MaxDevices
        /\ 0 \in 0..fleetStart'
    BY HostAssumption DEF FleetInv, FleetTypes
  <1>3. fleetLocked' \subseteq 1..MaxEscs
    BY <1>1, HostAssumption DEF FleetInv, FleetTypes
  <1>4. FleetTypes'
    BY <1>1, <1>2, <1>3 DEF FleetInv, FleetTypes, Fleet!Modes
  <1>5. Owns'
    BY <1>1 DEF Owns, Fleet!Modes
  <1>6. ASSUME NEW i \in DOMAIN fleetAnswers PROVE Reported(fleetAnswers[i])'
    <2>1. fleetAnswers[i].of \in Nat /\ fleetAnswers[i].of <= fleetStart
      BY <1>6, AnswerIs DEF Reported
    <2> QED
      BY <2>1, <1>2 DEF Reported
  <1> QED
    BY <1>2, <1>4, <1>5, <1>6 DEF FleetInv, Single, Shows, Down, Closing


\* A detach that is refused leaves the device to the kernel, and serves it no longer.
LEMMA RefusedKeeps ==
    ASSUME FleetInv, Fleet!Detach(TRUE), fleetWorker' = "none", fleetCancelled' = TRUE,
           fleetMode' \in Fleet!Modes \cup {"off"}, fleetGui' = "free", fleetShown' = 0,
           UNCHANGED <<fleetCount, fleetAlive, fleetDirect, fleetDrives, fleetLocked, fleetStart,
                       fleetAnswers>>
    PROVE  FleetInv'
  <1>1. fleetStub' = 0 /\ UNCHANGED <<fleetAttachment, fleetDevices>>
    BY DEF Fleet!Detach
  <1>2. fleetMode' \in {"off", "fourway", "serial", "betaflight"}
    BY DEF Fleet!Modes
  <1>3. 0 \in 0..fleetStart /\ 0 \in 0..MaxDevices
    BY HostAssumption DEF FleetInv, FleetTypes
  <1>4. fleetStub' \in 0..fleetStart' /\ fleetShown' \in 0..MaxDevices /\ fleetCancelled' \in BOOLEAN
    BY <1>1, <1>3
  <1>5. FleetTypes'
    BY <1>1, <1>2, <1>4 DEF FleetInv, FleetTypes
  <1> QED
    BY <1>1, <1>5 DEF FleetInv, Owns, Works, Single, Shows, Down, Closing, Reported

\* A device is exchanged for that of another mode, for none, or is left behind refused.
LEMMA ChangedKeeps ==
    ASSUME FleetInv, NEW m \in Fleet!Modes \cup {"off"}, Fleet!Changed(m),
           fleetWorker \in {"none", "done"}, fleetGui \in {"free", "change"}
    PROVE  FleetInv'
  <1>1. /\ fleetGui' = "free" /\ fleetShown' = 0 /\ fleetStub' = 0
        /\ UNCHANGED <<fleetCount, fleetAlive, fleetDirect>>
    BY DEF Fleet!Changed, Fleet!Detach
  <1>2. CASE Fleet!Detach(TRUE) /\ fleetWorker' = "none" /\ fleetCancelled' = TRUE /\ fleetMode' = m
              /\ UNCHANGED <<fleetDrives, fleetLocked, fleetStart, fleetAnswers>>
    BY <1>1, <1>2, RefusedKeeps
  <1>3. CASE Fleet!Detach(FALSE) /\ Fleet!Bring(m)
    <2>1. /\ fleetAttachment' = 0 /\ fleetDevices' = fleetDevices \ {fleetAttachment}
          /\ fleetMode' = m \/ (fleetMode' = "off")
          /\ UNCHANGED fleetAnswers
      BY <1>3 DEF Fleet!Detach, Fleet!Bring
    <2>2. fleetDevices' = {}
      BY <2>1 DEF FleetInv, Single
    <2>3. CASE /\ m # "off" /\ fleetStart < MaxDevices /\ Fleet!Owned(m) /\ fleetMode' = m
               /\ fleetStart' = fleetStart + 1 /\ fleetCancelled' = FALSE /\ fleetWorker' = "build"
      BY <1>1, <2>1, <2>2, <2>3, MadeKeeps
    <2>4. CASE /\ Fleet!Owned("off") /\ fleetMode' = "off" /\ fleetWorker' = "none"
               /\ fleetCancelled' = TRUE /\ UNCHANGED fleetStart
      <3>1. fleetLocked' = {} /\ fleetDrives' \subseteq fleetDrives
        BY <2>4 DEF Fleet!Owned
      <3>2. FleetTypes'
        BY <1>1, <2>1, <2>4, <3>1, HostAssumption DEF FleetInv, FleetTypes
      <3> QED
        BY <1>1, <2>1, <2>2, <2>4, <3>2 DEF FleetInv, Owns, Works, Single, Shows, Down, Closing, Reported
    <2> QED
      BY <1>3, <2>3, <2>4 DEF Fleet!Bring
  <1> QED
    BY <1>2, <1>3 DEF Fleet!Changed

\* The window begins to exchange or to close, and waits for the worker.
LEMMA WaitsKeep ==
    ASSUME FleetInv, fleetGui = "free", fleetGui' \in {"change", "close"}, fleetCancelled' = TRUE,
           fleetMode' \in Fleet!Modes \cup {"off"},
           UNCHANGED <<fleetCount, fleetAlive, fleetDrives, fleetLocked, fleetDirect, fleetWorker,
                       fleetStart, fleetStub, fleetTargets, fleetAttachment, fleetDevices,
                       fleetAnswers, fleetShown>>
    PROVE  FleetInv'
  <1>1. FleetTypes'
    BY DEF FleetInv, FleetTypes, Fleet!Modes
  <1> QED
    BY <1>1 DEF FleetInv, Owns, Works, Single, Shows, Down, Closing, Reported

LEMMA ChoiceKeeps ==
    ASSUME FleetInv,
           \/ \E m \in Fleet!Modes \cup {"off"} : Fleet!Choose(m)
           \/ Fleet!Joined \/ Fleet!Close \/ Fleet!Closed
    PROVE  FleetInv'
  <1>1. CASE \E m \in Fleet!Modes \cup {"off"} : Fleet!Choose(m)
    <2>1. PICK m \in Fleet!Modes \cup {"off"} : Fleet!Choose(m)
      BY <1>1
    <2>2. CASE fleetWorker \in {"none", "done"}
      BY <2>1, <2>2, ChangedKeeps DEF Fleet!Choose
    <2>3. CASE fleetWorker \notin {"none", "done"}
      BY <2>1, <2>3, WaitsKeep DEF Fleet!Choose, Fleet!NoDetach
    <2> QED
      BY <2>2, <2>3
  <1>2. CASE Fleet!Joined
    <2>1. fleetMode \in Fleet!Modes \cup {"off"}
      BY DEF FleetInv, FleetTypes, Fleet!Modes
    <2> QED
      BY <1>2, <2>1, ChangedKeeps DEF Fleet!Joined
  <1>3. CASE Fleet!Close
    <2>1. fleetMode \in Fleet!Modes \cup {"off"}
      BY DEF FleetInv, FleetTypes, Fleet!Modes
    <2> QED
      BY <1>3, <2>1, WaitsKeep DEF Fleet!Close
  <1>4. CASE Fleet!Closed
    <2>1. PICK refused \in BOOLEAN : Fleet!Detach(refused)
      BY <1>4 DEF Fleet!Closed
    <2>2. /\ fleetGui' = "closed" /\ fleetWorker' = "none" /\ fleetAlive' = {} /\ fleetDrives' = {}
          /\ fleetStub' = 0 /\ fleetGui = "close"
          /\ UNCHANGED <<fleetCount, fleetLocked, fleetMode, fleetDirect, fleetStart, fleetCancelled,
                         fleetAnswers, fleetShown>>
          /\ \/ UNCHANGED <<fleetDevices, fleetAttachment>>
             \/ fleetDevices' = fleetDevices \ {fleetAttachment} /\ fleetAttachment' = 0
      BY <1>4, <2>1 DEF Fleet!Closed, Fleet!Detach
    <2>3. 0 \in 0..fleetStart /\ 0 \in 0..MaxDevices
      BY HostAssumption DEF FleetInv, FleetTypes
    <2>4. FleetTypes'
      BY <2>2, <2>3 DEF FleetInv, FleetTypes
    <2>5. fleetDevices' = {fleetAttachment'} \ {0}
      BY <2>2 DEF FleetInv, Single
    <2>6. fleetCancelled = TRUE
      BY <2>2 DEF FleetInv, Closing
    <2> QED
      BY <2>2, <2>4, <2>5, <2>6 DEF FleetInv, Owns, Works, Single, Shows, Down, Closing, Reported
  <1> QED
    BY <1>1, <1>2, <1>3, <1>4


\* The worker makes a device step by step, and takes back what it made when it fails.
LEMMA WorkerKeeps ==
    ASSUME FleetInv,
           Fleet!Build \/ Fleet!Attach \/ Fleet!FindTty \/ Fleet!Cleanup \/ Fleet!Reports
    PROVE  FleetInv'
  <1>1. /\ UNCHANGED <<fleetCount, fleetAlive, fleetDrives, fleetLocked, fleetMode, fleetDirect,
                       fleetGui, fleetStart, fleetCancelled, fleetShown>>
        /\ fleetWorker \notin {"none", "done"}
    BY DEF Fleet!Build, Fleet!Attach, Fleet!FindTty, Fleet!Cleanup, Fleet!Reports, Fleet!Goes
  <1>2. fleetStart \in Nat /\ fleetStart # 0 /\ fleetStart \in 0..MaxDevices /\ fleetGui # "closed"
        /\ fleetStart \in 0..fleetStart /\ 0 \in 0..fleetStart /\ 0 \in 0..MaxDevices
        /\ fleetStart \in 1..MaxDevices
    BY <1>1, HostAssumption DEF FleetInv, FleetTypes, Single, Down
  <1>3. fleetWorker # "failed" => Works
    BY <1>1 DEF Works
  <1>4. \A i \in DOMAIN fleetAnswers :
            fleetAnswers[i].of <= fleetStart /\ (fleetAnswers[i].of = fleetStart => fleetAnswers[i].kind = "reboot")
    BY <1>1, AnswerIs DEF Reported
  <1>5. ASSUME fleetAnswers' = fleetAnswers
        PROVE  \A i \in DOMAIN fleetAnswers' : Reported(fleetAnswers[i])'
    BY <1>1, <1>4, <1>5 DEF Reported
  <1>6. CASE Fleet!Build
    <2>1. fleetWorker = "build" /\ UNCHANGED <<fleetAttachment, fleetDevices, fleetAnswers>>
      BY <1>6 DEF Fleet!Build
    <2>2. CASE fleetWorker' = "cleanup" /\ UNCHANGED <<fleetStub, fleetTargets>>
      <3>1. FleetTypes'
        BY <1>1, <2>1, <2>2 DEF FleetInv, FleetTypes
      <3> QED
        BY <1>1, <1>2, <1>3, <1>5, <2>1, <2>2, <3>1 DEF FleetInv, Owns, Works, Single, Shows, Down, Closing
    <2>3. CASE /\ fleetWorker' = "attach" /\ fleetStub' = fleetStart
               /\ fleetTargets' \in {{fleetDirect}, 1..fleetCount}
      <3>1. FleetTypes'
        BY <1>1, <1>2, <2>1, <2>3 DEF FleetInv, FleetTypes
      <3>2. fleetTargets' \subseteq 1..fleetCount
        BY <2>3 DEF FleetInv, FleetTypes
      <3> QED
        BY <1>1, <1>2, <1>3, <1>5, <2>1, <2>3, <3>1, <3>2 DEF FleetInv, Owns, Works, Single, Shows, Down, Closing
    <2> QED
      BY <1>6, <2>2, <2>3 DEF Fleet!Build, Fleet!Goes, Fleet!Panels
  <1>7. CASE Fleet!Attach
    <2>1. fleetWorker = "attach" /\ UNCHANGED <<fleetStub, fleetTargets, fleetAnswers>>
      BY <1>7 DEF Fleet!Attach
    <2>2. CASE fleetWorker' = "cleanup" /\ UNCHANGED <<fleetAttachment, fleetDevices>>
      <3>1. FleetTypes'
        BY <1>1, <2>1, <2>2 DEF FleetInv, FleetTypes
      <3> QED
        BY <1>1, <1>2, <1>3, <1>5, <2>1, <2>2, <3>1 DEF FleetInv, Owns, Works, Single, Shows, Down, Closing
    <2>3. CASE /\ fleetWorker' \in {"cleanup", "tty"} /\ fleetAttachment' = fleetStart
               /\ fleetDevices' = fleetDevices \cup {fleetStart}
      <3>1. FleetTypes'
        BY <1>1, <1>2, <2>1, <2>3 DEF FleetInv, FleetTypes
      <3>2. fleetDevices' = {fleetStart} \ {0} /\ fleetStub = fleetStart
        BY <1>2, <2>1, <2>3 DEF FleetInv, Single
      <3> QED
        BY <1>1, <1>2, <1>3, <1>5, <2>1, <2>3, <3>1, <3>2 DEF FleetInv, Owns, Works, Single, Shows, Down, Closing
    <2> QED
      BY <1>7, <2>2, <2>3 DEF Fleet!Attach, Fleet!Goes
  <1>8. CASE Fleet!FindTty
    <2>1. /\ fleetWorker = "tty" /\ fleetWorker' \in {"up", "cleanup"}
          /\ UNCHANGED <<fleetAttachment, fleetDevices, fleetStub, fleetTargets, fleetAnswers>>
      BY <1>8 DEF Fleet!FindTty, Fleet!Goes, Fleet!NoDetach
    <2>2. FleetTypes'
      BY <1>1, <2>1 DEF FleetInv, FleetTypes
    <2> QED
      BY <1>1, <1>2, <1>3, <1>5, <2>1, <2>2 DEF FleetInv, Owns, Works, Single, Shows, Down, Closing
  <1>9. CASE Fleet!Cleanup
    <2>1. /\ fleetWorker = "cleanup" /\ fleetWorker' = "failed"
          /\ fleetStub' = 0 /\ UNCHANGED fleetAnswers
          /\ \/ UNCHANGED <<fleetDevices, fleetAttachment>>
             \/ fleetDevices' = fleetDevices \ {fleetAttachment} /\ fleetAttachment' = 0
      BY <1>9 DEF Fleet!Cleanup, Fleet!Goes, Fleet!Detach
    <2>2. FleetTypes'
      BY <1>1, <1>2, <2>1 DEF FleetInv, FleetTypes
    <2>3. fleetDevices' = {fleetAttachment'} \ {0}
      BY <2>1 DEF FleetInv, Single
    <2> QED
      BY <1>1, <1>2, <1>3, <1>5, <2>1, <2>2, <2>3 DEF FleetInv, Owns, Works, Single, Shows, Down, Closing
  <1>10. CASE Fleet!Reports
    <2> DEFINE a == [kind |-> fleetWorker, of |-> fleetStart]
               S == [kind : {"up", "failed", "reboot"}, of : 1..MaxDevices]
    <2>1. /\ fleetWorker \in {"up", "failed"} /\ fleetWorker' = "done"
          /\ fleetAnswers' = Append(fleetAnswers, a)
          /\ UNCHANGED <<fleetAttachment, fleetDevices, fleetStub, fleetTargets>>
      BY <1>10 DEF Fleet!Reports, Fleet!Goes, Fleet!NoDetach
    <2>2. a \in S /\ a.kind = fleetWorker /\ a.of = fleetStart
      BY <1>2, <2>1
    <2>3. fleetAnswers \in Seq(S)
      BY DEF FleetInv, FleetTypes
    <2> HIDE DEF a, S
    <2>4. /\ fleetAnswers' \in Seq(S)
          /\ \A i \in DOMAIN fleetAnswers' :
                \/ i \in DOMAIN fleetAnswers /\ fleetAnswers'[i] = fleetAnswers[i]
                \/ fleetAnswers'[i] = a
      BY <2>1, <2>2, <2>3
    <2>5. FleetTypes'
      BY <1>1, <2>1, <2>4 DEF FleetInv, FleetTypes, S
    <2>6. ASSUME NEW i \in DOMAIN fleetAnswers' PROVE Reported(fleetAnswers[i])'
      <3>1. CASE i \in DOMAIN fleetAnswers /\ fleetAnswers'[i] = fleetAnswers[i]
        BY <3>1, <1>1, <1>4, <2>1 DEF Reported
      <3>2. CASE fleetAnswers'[i] = a
        BY <3>2, <1>1, <1>2, <2>1, <2>2 DEF Reported, FleetInv, Single
      <3> QED
        BY <2>4, <2>6, <3>1, <3>2
    <2>7. Owns' /\ Single' /\ Shows' /\ Down' /\ Closing'
      BY <1>1, <1>2, <2>1 DEF FleetInv, Owns, Works, Single, Shows, Down, Closing
    <2> QED
      BY <2>5, <2>6, <2>7 DEF FleetInv
  <1> QED
    BY <1>6, <1>7, <1>8, <1>9, <1>10


\* The configurator reboots, an answer is taken, and a timer reconnects.
LEMMA RebootKeeps ==
    ASSUME FleetInv, Fleet!Reboot
    PROVE  FleetInv'
  <1> DEFINE a == [kind |-> "reboot", of |-> fleetStub]
             S == [kind : {"up", "failed", "reboot"}, of : 1..MaxDevices]
  <1>1. /\ fleetStub # 0 /\ fleetAnswers' = Append(fleetAnswers, a)
        /\ UNCHANGED <<fleetCount, fleetAlive, fleetDrives, fleetLocked, fleetMode, fleetDirect,
                       fleetGui, fleetWorker, fleetStart, fleetCancelled, fleetStub, fleetTargets,
                       fleetAttachment, fleetDevices, fleetShown>>
    BY DEF Fleet!Reboot
  <1>2. a \in S /\ a.kind = "reboot" /\ a.of <= fleetStart
    BY <1>1, HostAssumption DEF FleetInv, FleetTypes
  <1>3. fleetAnswers \in Seq(S)
    BY DEF FleetInv, FleetTypes
  <1> HIDE DEF a, S
  <1>4. /\ fleetAnswers' \in Seq(S)
        /\ \A i \in DOMAIN fleetAnswers' :
              \/ i \in DOMAIN fleetAnswers /\ fleetAnswers'[i] = fleetAnswers[i]
              \/ fleetAnswers'[i] = a
    BY <1>1, <1>2, <1>3
  <1>5. FleetTypes'
    BY <1>1, <1>4 DEF FleetInv, FleetTypes, S
  <1>6. ASSUME NEW i \in DOMAIN fleetAnswers' PROVE Reported(fleetAnswers[i])'
    <2>1. CASE i \in DOMAIN fleetAnswers /\ fleetAnswers'[i] = fleetAnswers[i]
      BY <2>1, <1>1 DEF Reported, FleetInv
    <2>2. CASE fleetAnswers'[i] = a
      BY <2>2, <1>1, <1>2 DEF Reported
    <2> QED
      BY <1>4, <1>6, <2>1, <2>2
  <1>7. Owns' /\ Single' /\ Shows' /\ Down' /\ Closing'
    BY <1>1 DEF FleetInv, Owns, Works, Single, Shows, Down, Closing
  <1> QED
    BY <1>5, <1>6, <1>7 DEF FleetInv

LEMMA PollKeeps ==
    ASSUME FleetInv, Fleet!Poll
    PROVE  FleetInv'
  <1> DEFINE a == Head(fleetAnswers)
             S == [kind : {"up", "failed", "reboot"}, of : 1..MaxDevices]
  <1>1. /\ fleetGui = "free" /\ fleetAnswers # <<>> /\ fleetAnswers' = Tail(fleetAnswers)
        /\ UNCHANGED <<fleetCount, fleetAlive, fleetDirect, fleetGui, fleetWorker, fleetStart,
                       fleetCancelled, fleetStub, fleetTargets, fleetAttachment, fleetDevices>>
    BY DEF Fleet!Poll
  <1>2. fleetAnswers \in Seq(S)
    BY DEF FleetInv, FleetTypes
  <1> HIDE DEF S
  <1>3. /\ fleetAnswers' \in Seq(S)
        /\ \A i \in DOMAIN fleetAnswers' : i + 1 \in DOMAIN fleetAnswers /\ fleetAnswers'[i] = fleetAnswers[i + 1]
        /\ 1 \in DOMAIN fleetAnswers /\ a = fleetAnswers[1]
    BY <1>1, <1>2
  <1>4. \A i \in DOMAIN fleetAnswers' : Reported(fleetAnswers[i])'
    BY <1>1, <1>3 DEF Reported, FleetInv
  <1>5. a.kind \in {"up", "failed", "reboot"} /\ a.of \in 1..MaxDevices /\ a.of \in Nat /\ Reported(a)
    BY <1>3, AnswerIs
  <1> HIDE DEF a
  <1>6. \/ UNCHANGED <<fleetMode, fleetShown, fleetDrives, fleetLocked>>
        \/ /\ a.kind = "up" /\ a.of = fleetStart /\ ~fleetCancelled /\ fleetShown' = a.of
           /\ UNCHANGED <<fleetMode, fleetDrives, fleetLocked>>
        \/ /\ a.kind = "failed" /\ a.of = fleetStart /\ ~fleetCancelled
           /\ fleetMode' = "off" /\ fleetShown' = 0 /\ Fleet!Owned("off")
    BY <1>5 DEF Fleet!Poll, a
  <1>7. CASE UNCHANGED <<fleetMode, fleetShown, fleetDrives, fleetLocked>>
    <2>1. FleetTypes'
      BY <1>1, <1>3, <1>7 DEF FleetInv, FleetTypes, S
    <2> QED
      BY <1>1, <1>4, <1>7, <2>1 DEF FleetInv, Owns, Works, Single, Shows, Down, Closing
  <1>8. CASE /\ a.kind = "up" /\ a.of = fleetStart /\ ~fleetCancelled /\ fleetShown' = a.of
             /\ UNCHANGED <<fleetMode, fleetDrives, fleetLocked>>
    <2>1. fleetStub = fleetStart /\ fleetAttachment = fleetStart /\ fleetWorker = "done"
      BY <1>5, <1>8 DEF Reported
    <2>2. FleetTypes'
      <3>1. fleetShown' \in 0..MaxDevices
        BY <1>5, <1>8, HostAssumption
      <3> QED
        BY <1>1, <1>3, <1>8, <3>1 DEF FleetInv, FleetTypes, S
    <2> QED
      BY <1>1, <1>4, <1>8, <2>1, <2>2 DEF FleetInv, Owns, Works, Single, Shows, Down, Closing
  <1>9. CASE /\ a.kind = "failed" /\ a.of = fleetStart /\ ~fleetCancelled
             /\ fleetMode' = "off" /\ fleetShown' = 0 /\ Fleet!Owned("off")
    <2>1. fleetStub = 0 /\ fleetWorker = "done"
      BY <1>5, <1>9 DEF Reported
    <2>2. fleetLocked' = {} /\ fleetDrives' \subseteq fleetDrives
      BY <1>9 DEF Fleet!Owned
    <2>3. FleetTypes'
      BY <1>1, <1>3, <1>9, <2>2, HostAssumption DEF FleetInv, FleetTypes, S
    <2> QED
      BY <1>1, <1>4, <1>9, <2>1, <2>2, <2>3 DEF FleetInv, Owns, Works, Single, Shows, Down, Closing
  <1> QED
    BY <1>6, <1>7, <1>8, <1>9

LEMMA ReconnectKeeps ==
    ASSUME FleetInv, NEW s \in fleetTimers, Fleet!Reconnect(s)
    PROVE  FleetInv'
  <1>1. CASE ~(s = fleetStub /\ fleetMode = "betaflight")
    <2>1. UNCHANGED <<fleetCount, fleetAlive, fleetDrives, fleetLocked, fleetMode, fleetDirect,
                      fleetGui, fleetWorker, fleetStart, fleetCancelled, fleetStub, fleetTargets,
                      fleetAttachment, fleetDevices, fleetAnswers, fleetShown>>
      BY <1>1 DEF Fleet!Reconnect, Fleet!NoDetach
    <2> QED
      BY <2>1 DEF FleetInv, FleetTypes, Owns, Works, Single, Shows, Down, Closing, Reported
  <1>2. CASE /\ s = fleetStub /\ fleetMode = "betaflight"
             /\ fleetWorker \notin {"none", "done"}
    BY <1>2, WaitsKeep DEF Fleet!Reconnect, Fleet!NoDetach, Fleet!Modes
  <1>3. CASE /\ s = fleetStub /\ fleetMode = "betaflight"
             /\ fleetWorker \in {"none", "done"}
    <2>1. /\ fleetGui = "free" /\ fleetGui' = "free" /\ fleetShown' = 0
          /\ UNCHANGED <<fleetCount, fleetAlive, fleetDirect>>
          /\ \/ /\ Fleet!Detach(FALSE) /\ Fleet!Owned(fleetMode) /\ fleetStart < MaxDevices
                /\ fleetStart' = fleetStart + 1
                /\ fleetCancelled' = FALSE /\ fleetWorker' = "build"
                /\ UNCHANGED <<fleetMode, fleetAnswers>>
             \/ /\ Fleet!Detach(TRUE) /\ fleetWorker' = "none" /\ fleetCancelled' = TRUE
                /\ UNCHANGED <<fleetMode, fleetDrives, fleetLocked, fleetStart, fleetAnswers>>
      BY <1>3 DEF Fleet!Reconnect
    <2>2. CASE /\ Fleet!Detach(FALSE) /\ Fleet!Owned(fleetMode) /\ fleetStart < MaxDevices
               /\ fleetStart' = fleetStart + 1
               /\ fleetCancelled' = FALSE /\ fleetWorker' = "build"
               /\ UNCHANGED <<fleetMode, fleetAnswers>>
      <3>1. fleetAttachment' = 0 /\ fleetDevices' = {} /\ fleetStub' = 0
        BY <2>2 DEF Fleet!Detach, FleetInv, Single
      <3> QED
        BY <1>3, <2>1, <2>2, <3>1, MadeKeeps DEF Fleet!Modes
    <2>3. CASE /\ Fleet!Detach(TRUE) /\ fleetWorker' = "none" /\ fleetCancelled' = TRUE
               /\ UNCHANGED <<fleetMode, fleetDrives, fleetLocked, fleetStart, fleetAnswers>>
      BY <1>3, <2>1, <2>3, RefusedKeeps DEF Fleet!Modes
    <2> QED
      BY <2>1, <2>2, <2>3
  <1> QED
    BY <1>1, <1>2, <1>3

\* The device owns its wires, is the only one, and goes first.
LEMMA FleetGood == Spec => [](Fleet!WireOwned /\ Fleet!DeviceKnown /\ Fleet!ShutdownComplete)
  <1>1. FleetInv /\ [Fleet!Next]_(Fleet!vars) => FleetInv'
    <2> SUFFICES ASSUME FleetInv, [Fleet!Next]_(Fleet!vars) PROVE FleetInv'
      OBVIOUS
    <2>1. CASE UNCHANGED Fleet!vars
      BY <2>1 DEF Fleet!vars, Fleet!usbVars, FleetInv, FleetTypes, Owns, Works, Single, Shows,
         Down, Closing, Reported
    <2>2. CASE Fleet!Next
      BY <2>2, SimulatorsKeep, DrivesKeep, TabsKeep, ChoiceKeeps, WorkerKeeps, RebootKeeps,
         PollKeeps, ReconnectKeeps DEF Fleet!Next
    <2> QED
      BY <2>1, <2>2
  <1>2. FleetInv => Fleet!WireOwned
    BY DEF FleetInv, Owns, Single, Fleet!WireOwned, Fleet!Escs, Fleet!Panels
  <1>3. FleetInv => Fleet!DeviceKnown
    BY DEF FleetInv, Single, Shows, Fleet!DeviceKnown
  <1>4. FleetInv => Fleet!ShutdownComplete
    BY DEF FleetInv, Down, Fleet!ShutdownComplete
  <1> QED
    BY <1>1, <1>2, <1>3, <1>4, FleetInit, FleetBehaves, PTL

------------------------------------------------------------------------------
(* The image boxes.                                                           *)

\* What happens in the image boxes is what ImageChoice says.
LEMMA ImagesBehave == Spec => Images!Init /\ [][Images!Next]_(Images!vars)
  <1>1. Init => Images!Init
    BY DEF Init
  <1>2. [Next]_vars => [Images!Next]_(Images!vars)
    BY DEF Next, TreeSteps, MonitorSteps, ArtifactsSteps, RenodeSteps, SourceSteps,
           WindowSteps, FleetSteps, LinkerSteps, DshotSteps, MacrosSteps, ImagesSteps,
           PortSteps, vars, imagesVars, Images!vars
  <1> QED
    BY <1>1, <1>2, PTL DEF Spec

\* A nonempty set of naturals has a least.
LEMMA Least ==
    ASSUME NEW S, S \subseteq Nat, S # {}
    PROVE  \E m \in S : \A k \in S : m =< k
  <1>1. PICK m \in S : \A k \in S : <<k, m>> \notin OpToRel(<, Nat)
    BY WFMin, NatLessThanWellFounded
  <1>2. ASSUME NEW k \in S PROVE m =< k
    <2>1. k \in Nat /\ m \in Nat
      OBVIOUS
    <2>2. ~(k < m)
      BY <1>1, <2>1, <1>2 DEF OpToRel
    <2> QED
      BY <2>1, <2>2
  <1> QED
    BY <1>2

\* An image, if any of items, is found where it is.
LEMMA Found ==
    ASSUME NEW S, NEW items \in Seq(S), NEW data
    PROVE  /\ Images!Find(items, data) \in 0..Len(items)
           /\ Images!Find(items, data) > 0 => items[Images!Find(items, data)] = data
           /\ (\E i \in DOMAIN items : items[i] = data) => Images!Find(items, data) > 0
  <1> DEFINE At == {i \in DOMAIN items : items[i] = data}
  <1>1. CASE At = {}
    <2>1. data \notin Images!Range(items)
      BY <1>1 DEF Images!Range
    <2> QED
      BY <1>1, <2>1 DEF Images!Find
  <1>2. CASE At # {}
    <2>1. data \in Images!Range(items)
      BY <1>2 DEF Images!Range
    <2>2. At \subseteq Nat
      OBVIOUS
    <2>3. PICK m \in At : \A k \in At : m =< k
      BY <1>2, <2>2, Least
    <2>4. Images!Min(At) \in At
      BY <2>3 DEF Images!Min
    <2> QED
      BY <2>1, <2>4 DEF Images!Find
  <1> QED
    BY <1>1, <1>2

\* A release is none of what the other items are.
Listed(items) == \E S : items \in Seq(S)
NoRelease(items) == \A i \in DOMAIN items : ~Images!IsRelease(items[i])

\* The items left over are a sequence of items, and no releases.
LEMMA LeftOver ==
    ASSUME NEW S, NEW items \in Seq(S)
    PROVE  /\ Images!WithoutReleases(items) \in Seq(S)
           /\ NoRelease(Images!WithoutReleases(items))
  <1> DEFINE N == Len(items)
             Left(f, n) == IF n = 0 THEN <<>>
                           ELSE IF Images!IsRelease(items[n]) THEN f[n - 1]
                           ELSE Append(f[n - 1], items[n])
             Does(n) == \E f : f = [i \in 0..n |-> Left(f, i)]
             Not == {n \in Nat : ~Does(n)}
  <1>1. N \in Nat
    OBVIOUS
  <1>2. Not = {}
    <2> SUFFICES ASSUME Not # {} PROVE FALSE
      OBVIOUS
    <2>1. PICK m \in Not : \A k \in Not : m =< k
      BY Least
    <2> HIDE DEF Not
    <2>2. m \in Nat /\ ~Does(m)
      BY <2>1 DEF Not
    <2>3. m # 0
      <3>1. [i \in 0..0 |-> <<>>] = [i \in 0..0 |-> Left([j \in 0..0 |-> <<>>], i)]
        OBVIOUS
      <3> QED
        BY <2>2, <3>1
    <2>4. m - 1 \in Nat /\ m - 1 \notin Not
      BY <2>1, <2>2, <2>3
    <2>5. PICK f : f = [i \in 0..(m - 1) |-> Left(f, i)]
      BY <2>4 DEF Not
    <2> DEFINE g == [i \in 0..m |-> IF i = m THEN Left(f, m) ELSE f[i]]
    <2>6. \A i \in 0..m : g[i] = Left(g, i)
      <3> SUFFICES ASSUME NEW i \in 0..m PROVE g[i] = Left(g, i)
        OBVIOUS
      <3>1. i # 0 => i - 1 \in 0..(m - 1) /\ g[i - 1] = f[i - 1]
        BY <2>2, <2>3
      <3>2. i # m => f[i] = Left(f, i)
        <4> HIDE DEF Left
        <4>1. SUFFICES ASSUME i # m PROVE f[i] = Left(f, i)
          OBVIOUS
        <4>2. i \in 0..(m - 1)
          BY <2>2, <2>3, <4>1
        <4> QED
          BY <2>5, <4>2
      <3> QED
        BY <3>1, <3>2
    <2>7. g = [i \in 0..m |-> Left(g, i)]
      BY <2>6
    <2> QED
      BY <2>2, <2>7
  <1>3. Does(N)
    BY SMTT(30), <1>1, <1>2
  <1> DEFINE left == CHOOSE f : f = [i \in 0..N |-> Left(f, i)]
  <1>4. left = [i \in 0..N |-> Left(left, i)]
    BY <1>3
  <1>5. Images!WithoutReleases(items) = left[N]
    BY DEF Images!WithoutReleases
  <1> HIDE DEF left
  <1> DEFINE Good(s) == s \in Seq(S) /\ \A i \in 1..Len(s) : ~Images!IsRelease(s[i])
             Bad == {n \in 0..N : ~Good(left[n])}
  <1>6. Bad = {}
    <2> SUFFICES ASSUME Bad # {} PROVE FALSE
      OBVIOUS
    <2> HIDE DEF Good
    <2>1. Bad \subseteq Nat
      BY <1>1
    <2> HIDE DEF Bad
    <2>2. PICK m \in Bad : \A k \in Bad : m =< k
      BY <2>1, Least
    <2> USE DEF Good, Bad
    <2>3. m \in 0..N /\ ~Good(left[m]) /\ left[m] = Left(left, m)
      BY <1>4
    <2>4. m # 0
      BY <2>3
    <2>5. m - 1 \in 0..N /\ m - 1 \notin Bad
      BY <1>1, <2>2, <2>3, <2>4
    <2>6. Good(left[m - 1])
      BY <2>5
    <2>7. CASE Images!IsRelease(items[m])
      BY <2>3, <2>4, <2>6, <2>7
    <2>8. CASE ~Images!IsRelease(items[m])
      <3>1. left[m] = Append(left[m - 1], items[m]) /\ items[m] \in S
        BY <1>1, <2>3, <2>4, <2>8
      <3>2. Good(left[m])
        BY <2>6, <2>8, <3>1
      <3> QED
        BY <2>3, <3>2
    <2> QED
      BY <2>7, <2>8
  <1>7. Good(left[N])
    BY <1>1, <1>6
  <1> QED
    BY <1>5, <1>7 DEF NoRelease

\* Of a finite set of releases, and of the files there are, there is a list.
LEMMA ReleasesListed ==
    ASSUME NEW c \in BOOLEAN, NEW kind, IsFiniteSet(kind)
    PROVE  Listed(Images!Releases(c, kind)) /\ (~c => Images!Releases(c, kind) = <<>>)
  <1>1. CASE ~c
    <2>1. <<>> \in Seq({})
      OBVIOUS
    <2> QED
      BY <1>1, <2>1 DEF Images!Releases, Listed
  <1>2. CASE c
    <2> DEFINE at(i) == Images!SetToSortSeq(kind, <)[i]
               n == Cardinality(kind)
    <2>1. Images!Cardinality(kind) = n
      BY DEF Images!Cardinality, Cardinality
    <2>2. n \in Nat
      BY FS_CardinalityType
    <2>3. Images!Releases(c, kind) = [i \in 1..n |-> <<"catalog", at(i)>>]
      BY <1>2, <2>1 DEF Images!Releases
    <2> HIDE DEF at, n
    <2> DEFINE S == {<<"catalog", at(i)>> : i \in 1..n}
    <2>4. [i \in 1..n |-> <<"catalog", at(i)>>] \in Seq(S)
      BY <2>2
    <2> QED
      BY <1>2, <2>3, <2>4 DEF Listed
  <1> QED
    BY <1>1, <1>2

LEMMA FilesListed ==
    ASSUME imagesFiles \subseteq Bootloaders, NEW t
    PROVE  \E n \in Nat : DOMAIN Images!Matched(t) = 1..n
  <1>1. ASSUME NEW u PROVE \E n \in Nat : DOMAIN Images!Hits(imagesFiles, u) = 1..n
    <2> DEFINE mine == {f \in imagesFiles : f.target = u.name}
               best == {f \in mine : \A g \in mine :
                            g.variant = f.variant /\ g # f => Images!Later(f, g)}
    <2>1. IsFiniteSet(best)
      BY FS_Subset, HostAssumption
    <2>2. Images!Cardinality(best) = Cardinality(best)
      BY DEF Images!Cardinality, Cardinality
    <2>3. Cardinality(best) \in Nat
      BY <2>1, FS_CardinalityType
    <2>4. DOMAIN Images!Hits(imagesFiles, u) = 1..Images!Cardinality(best)
      BY DEF Images!Hits
    <2> QED
      BY <2>2, <2>3, <2>4
  <1>2. CASE t = "none"
    BY <1>2 DEF Images!Matched
  <1>3. CASE t # "none"
    BY <1>1, <1>3 DEF Images!Matched
  <1> QED
    BY <1>2, <1>3

\* Two lists make a list, of the items of both.
LEMMA ListsJoined ==
    ASSUME NEW s, NEW t, Listed(s), Listed(t)
    PROVE  /\ Listed(s \o t) /\ Len(s \o t) = Len(s) + Len(t)
           /\ Len(s) \in Nat /\ Len(t) \in Nat
           /\ DOMAIN s = 1..Len(s) /\ DOMAIN t = 1..Len(t)
           /\ DOMAIN (s \o t) = 1..(Len(s) + Len(t))
           /\ \A i \in 1..Len(s) : (s \o t)[i] = s[i]
           /\ NoRelease(s) /\ NoRelease(t) => NoRelease(s \o t)
  <1>1. PICK S, T : s \in Seq(S) /\ t \in Seq(T)
    BY DEF Listed
  <1>2. s \in Seq(S \cup T) /\ t \in Seq(S \cup T)
    BY <1>1
  <1>3. /\ s \o t \in Seq(S \cup T) /\ Len(s \o t) = Len(s) + Len(t)
        /\ Len(s) \in Nat /\ Len(t) \in Nat
        /\ DOMAIN s = 1..Len(s) /\ DOMAIN t = 1..Len(t)
        /\ DOMAIN (s \o t) = 1..(Len(s) + Len(t))
        /\ \A i \in 1..(Len(s) + Len(t)) :
               (s \o t)[i] = IF i <= Len(s) THEN s[i] ELSE t[i - Len(s)]
    BY <1>2
  <1>4. ASSUME NoRelease(s), NoRelease(t) PROVE NoRelease(s \o t)
    <2> SUFFICES ASSUME NEW i \in 1..(Len(s) + Len(t))
                 PROVE  ~Images!IsRelease((s \o t)[i])
      BY <1>3 DEF NoRelease
    <2>1. CASE i <= Len(s)
      BY <1>3, <1>4, <2>1 DEF NoRelease
    <2>2. CASE ~(i <= Len(s))
      <3>1. i - Len(s) \in DOMAIN t
        BY <1>3, <2>2
      <3> QED
        BY <1>3, <1>4, <2>2, <3>1 DEF NoRelease
    <2> QED
      BY <2>1, <2>2
  <1> QED
    BY <1>3, <1>4 DEF Listed

LEMMA OneListed ==
    ASSUME NEW x
    PROVE  Listed(<<x>>) /\ Len(<<x>>) = 1 /\ (~Images!IsRelease(x) => NoRelease(<<x>>))
  <1>1. <<x>> \in Seq({x}) /\ Len(<<x>>) = 1 /\ \A i \in DOMAIN <<x>> : <<x>>[i] = x
    OBVIOUS
  <1> QED
    BY <1>1 DEF Listed, NoRelease

\* What is put in is what is shown.
LEMMA InsertedShown ==
    ASSUME NEW b, NEW x, Listed(b.items)
    PROVE  LET c == Images!Inserted(b, x)
           IN /\ Listed(c.items) /\ c.index \in 1..Len(c.items) /\ Images!Current(c) = x
              /\ c = [items |-> c.items, index |-> c.index]
              /\ NoRelease(b.items) /\ ~Images!IsRelease(x) => NoRelease(c.items)
  <1> DEFINE s == <<x>> \o b.items
  <1>1. Images!Inserted(b, x) = [items |-> s, index |-> 1]
    BY DEF Images!Inserted
  <1>2. /\ Listed(s) /\ Len(s) = 1 + Len(b.items) /\ Len(b.items) \in Nat /\ s[1] = x
        /\ NoRelease(b.items) /\ ~Images!IsRelease(x) => NoRelease(s)
    BY OneListed, ListsJoined
  <1> HIDE DEF s
  <1> QED
    BY <1>1, <1>2 DEF Images!Current

\* The bootloaders that are listed, for a target t and a catalog or none: they show
\* what is desired if it is a file, and no release without a catalog.
Boxed(b) == b = [items |-> b.items, index |-> b.index] /\ Listed(b.items)
LEMMA BootloadersShown ==
    ASSUME imagesFiles \subseteq Bootloaders, NEW t, NEW c \in BOOLEAN, NEW desired
    PROVE  LET b == Images!BootloaderBox(t, c, desired)
           IN /\ Boxed(b) /\ b.index \in 1..Len(b.items)
              /\ desired[1] = "file" => Images!Current(b) = desired
              /\ ~c => NoRelease(b.items)
  <1> DEFINE hits == Images!Matched(t)
             releases == Images!Releases(c, Catalog.bootloader)
             listed == [i \in DOMAIN hits |-> <<"file", hits[i]>>]
             items == <<Images!Auto>> \o releases \o listed \o <<Images!None>>
             found == IF desired = Images!Auto /\ c THEN 0 ELSE Images!Find(items, desired)
             stable == Images!Find(items, <<"catalog", Catalog.stable>>)
  <1>1. Listed(releases) /\ (~c => NoRelease(releases))
    BY ReleasesListed, HostAssumption DEF NoRelease
  <1>2. Listed(listed) /\ NoRelease(listed)
    <2>1. PICK n \in Nat : DOMAIN hits = 1..n
      BY FilesListed
    <2> HIDE DEF hits
    <2>2. listed = [i \in 1..n |-> <<"file", hits[i]>>]
      BY <2>1
    <2>3. listed \in Seq({<<"file", hits[i]>> : i \in 1..n})
      BY <2>2
    <2>4. NoRelease(listed)
      BY <2>2 DEF NoRelease, Images!IsRelease
    <2> QED
      BY <2>3, <2>4 DEF Listed
  <1>3. ~Images!IsRelease(Images!Auto) /\ ~Images!IsRelease(Images!None)
    BY DEF Images!IsRelease, Images!Auto, Images!None
  <1>4. Listed(items) /\ Len(items) \in Nat /\ Len(items) >= 1 /\ (~c => NoRelease(items))
    <2> HIDE DEF releases, listed
    <2>1. /\ Listed(<<Images!Auto>> \o releases)
          /\ Len(<<Images!Auto>> \o releases) = 1 + Len(releases) /\ Len(releases) \in Nat
          /\ ~c => NoRelease(<<Images!Auto>> \o releases)
      BY <1>1, <1>3, OneListed, ListsJoined
    <2>2. /\ Listed(<<Images!Auto>> \o releases \o listed)
          /\ Len(<<Images!Auto>> \o releases \o listed) = 1 + Len(releases) + Len(listed)
          /\ Len(listed) \in Nat
          /\ ~c => NoRelease(<<Images!Auto>> \o releases \o listed)
      BY <2>1, <1>2, ListsJoined
    <2>3. Listed(<<Images!None>>) /\ Len(<<Images!None>>) = 1 /\ NoRelease(<<Images!None>>)
      BY <1>3, OneListed
    <2> QED
      BY <2>1, <2>2, <2>3, ListsJoined
  <1> HIDE DEF hits, items
  <1>5. /\ found \in 0..Len(items) /\ (found > 0 => items[found] = desired)
        /\ stable \in 0..Len(items)
    BY <1>4, Found DEF Listed
  <1>6. Images!BootloaderBox(t, c, desired) =
            IF found > 0 THEN [items |-> items, index |-> found]
            ELSE IF desired[1] \in {"file", "installed"}
                 THEN Images!Inserted([items |-> items], desired)
            ELSE [items |-> items, index |-> IF c /\ stable > 0 THEN stable ELSE 1]
    BY DEF Images!BootloaderBox, items, hits
  <1> HIDE DEF found, stable
  <1>7. CASE found > 0
    BY <1>4, <1>5, <1>6, <1>7 DEF Images!Current, Boxed
  <1>8. CASE ~(found > 0) /\ desired[1] \in {"file", "installed"}
    <2>1. [items |-> items].items = items
      OBVIOUS
    <2>2. ~Images!IsRelease(desired)
      BY <1>8 DEF Images!IsRelease
    <2> QED
      BY <1>4, <1>6, <1>8, <2>1, <2>2, InsertedShown DEF Boxed
  <1>9. CASE ~(found > 0) /\ desired[1] \notin {"file", "installed"}
    BY <1>4, <1>5, <1>6, <1>9 DEF Boxed
  <1> QED
    BY <1>7, <1>8, <1>9

\* The firmware that is listed, alike.
LEMMA FirmwareShown ==
    ASSUME Boxed(imagesFw), NEW t, NEW c \in BOOLEAN, Images!RefreshFirmware(t, c)
    PROVE  /\ Boxed(imagesFw') /\ (~c => NoRelease(imagesFw'.items))
           /\ imagesFw'.index \in 0..Len(imagesFw'.items)
  <1> DEFINE kept == Images!WithoutReleases(imagesFw.items)
             mine == {r \in DOMAIN Catalog.firmware : t \in Catalog.firmware[r]}
             releases == IF t = "none" THEN <<>> ELSE Images!Releases(c, mine)
             items == kept \o releases
             desired == IF imagesPrefs.firmware = Images!Auto THEN <<"catalog", Catalog.stable>>
                        ELSE imagesPrefs.firmware
             stays == IF Images!Current(imagesFw) \in Images!Range(kept)
                      THEN Images!Find(kept, Images!Current(imagesFw)) ELSE Len(kept)
  <1>1. /\ imagesFw'.items = items
        /\ imagesFw' = [items |-> imagesFw'.items, index |-> imagesFw'.index]
        /\ imagesFw'.index = IF c /\ t # "none" /\ Images!Find(items, desired) > 0
                             THEN Images!Find(items, desired) ELSE stays
    BY DEF Images!RefreshFirmware
  <1>2. Listed(kept) /\ NoRelease(kept)
    BY LeftOver DEF Boxed, Listed
  <1>3. Listed(releases) /\ (~c => NoRelease(releases))
    <2>1. IsFiniteSet(mine)
      BY FS_Subset, HostAssumption
    <2>2. Listed(<<>>) /\ NoRelease(<<>>)
      <3>1. <<>> \in Seq({}) /\ DOMAIN <<>> = {}
        OBVIOUS
      <3> QED
        BY <3>1 DEF Listed, NoRelease
    <2> QED
      BY <2>1, <2>2, ReleasesListed
  <1> HIDE DEF kept, releases
  <1>4. /\ Listed(items) /\ (~c => NoRelease(items)) /\ Len(items) \in Nat
        /\ Len(kept) \in Nat /\ Len(kept) =< Len(items)
    BY <1>2, <1>3, ListsJoined
  <1>5. Images!Find(items, desired) \in 0..Len(items)
    BY <1>4, Found DEF Listed
  <1>6. stays \in 0..Len(items)
    BY <1>2, <1>4, Found DEF Listed
  <1> HIDE DEF items, desired, stays
  <1> QED
    BY <1>1, <1>4, <1>5, <1>6 DEF Boxed

\* Without a catalog no release is listed; what is shown is what is used, and the
\* file that was picked last; and what is installed is what is shown.
ShownAs(b) == b.items # <<>> => b.index \in 1..Len(b.items)
ImagesInv ==
    /\ imagesFiles \subseteq Bootloaders /\ imagesCatalog \in BOOLEAN
    /\ Boxed(imagesBl) /\ Boxed(imagesFw) /\ ShownAs(imagesBl)
    /\ imagesFw.index \in 0..Len(imagesFw.items)
    /\ ~imagesCatalog => NoRelease(imagesBl.items) /\ NoRelease(imagesFw.items)
    /\ imagesCatalog => imagesBl.items # <<>>
    /\ imagesInstalling # Images!Nothing =>
           imagesCatalog /\ imagesInstalling.bootloader = Images!Current(imagesBl)
    /\ imagesPicked # Images!None => imagesPicked[1] = "file"
    /\ Images!ShownIsUsed /\ Images!PickKept

\* A box of the launcher begins without releases.
LEMMA FirmwareBoxed ==
    ASSUME NEW f
    PROVE  LET b == Images!FirmwareBox(f)
           IN Boxed(b) /\ NoRelease(b.items) /\ b.index \in 0..Len(b.items)
  <1> DEFINE two == <<Images!Auto, Images!None>>
  <1>1. Listed(two) /\ NoRelease(two) /\ Len(two) = 2
    <2>1. two \in Seq({Images!Auto, Images!None}) /\ Len(two) = 2
          /\ \A i \in DOMAIN two : two[i] \in {Images!Auto, Images!None}
      OBVIOUS
    <2>2. ~Images!IsRelease(Images!Auto) /\ ~Images!IsRelease(Images!None)
      BY DEF Images!IsRelease, Images!Auto, Images!None
    <2> HIDE DEF two
    <2> QED
      BY <2>1, <2>2 DEF Listed, NoRelease
  <1> HIDE DEF two
  <1>2. CASE Images!IsRelease(f) \/ f \in {Images!Auto, Images!None}
    <2>1. Images!FirmwareBox(f) = [items |-> two, index |-> IF f = Images!None THEN 2 ELSE 1]
      BY <1>2 DEF Images!FirmwareBox, two
    <2> QED
      BY <1>1, <2>1 DEF Boxed
  <1>3. CASE ~(Images!IsRelease(f) \/ f \in {Images!Auto, Images!None})
    <2>1. Images!FirmwareBox(f) = Images!Inserted([items |-> two], f)
      BY <1>3 DEF Images!FirmwareBox, two
    <2>2. [items |-> two].items = two
      OBVIOUS
    <2>3. LET b == Images!Inserted([items |-> two], f)
          IN /\ Listed(b.items) /\ b.index \in 1..Len(b.items)
             /\ b = [items |-> b.items, index |-> b.index] /\ NoRelease(b.items)
      BY <1>1, <1>3, <2>2, InsertedShown
    <2>4. Len(Images!Inserted([items |-> two], f).items) \in Nat
      BY <2>3 DEF Listed
    <2> QED
      BY <2>1, <2>3, <2>4 DEF Boxed
  <1> QED
    BY <1>2, <1>3

\* A box without items.
LEMMA NoItems ==
    ASSUME NEW b, b = [items |-> <<>>, index |-> 0]
    PROVE  Boxed(b) /\ NoRelease(b.items) /\ b.items = <<>> /\ ShownAs(b)
  <1>1. <<>> \in Seq({}) /\ DOMAIN <<>> = {}
    OBVIOUS
  <1> QED
    BY <1>1 DEF Boxed, Listed, NoRelease, ShownAs

LEMMA ImagesInit == Images!Init => ImagesInv
  <1> SUFFICES ASSUME Images!Init PROVE ImagesInv
    OBVIOUS
  <1>1. Boxed(imagesBl) /\ NoRelease(imagesBl.items) /\ imagesBl.items = <<>> /\ ShownAs(imagesBl)
    BY NoItems DEF Images!Init
  <1>2. Boxed(imagesFw) /\ NoRelease(imagesFw.items) /\ imagesFw.index \in 0..Len(imagesFw.items)
    BY FirmwareBoxed DEF Images!Init
  <1>3. /\ imagesFiles \subseteq Bootloaders /\ imagesCatalog = FALSE
        /\ imagesInstalling = Images!Nothing /\ imagesPicked = Images!None
    BY DEF Images!Init
  <1> QED
    BY <1>1, <1>2, <1>3 DEF ImagesInv, Images!ShownIsUsed, Images!PickKept

\* The boxes are filled anew: a target is resolved, or the catalog arrives.
LEMMA RefreshKeeps ==
    ASSUME ImagesInv, NEW t, NEW c \in BOOLEAN, imagesCatalog => c, imagesCatalog' = c,
           Images!RefreshBootloaders(t, c), Images!RefreshFirmware(t, c),
           imagesInstalling = Images!Nothing \/ imagesCatalog # c,
           UNCHANGED <<imagesFiles, imagesInstalling, imagesPicked>>
    PROVE  ImagesInv'
  <1>1. /\ imagesBl' = Images!BootloaderBox(t, c, imagesLab)
        /\ imagesLab' = IF Images!IsRelease(imagesLab) /\ ~c THEN imagesLab
                        ELSE Images!Current(imagesBl')
    BY DEF Images!RefreshBootloaders
  <1>2. /\ Boxed(imagesBl') /\ imagesBl'.index \in 1..Len(imagesBl'.items)
        /\ imagesLab[1] = "file" => Images!Current(imagesBl') = imagesLab
        /\ ~c => NoRelease(imagesBl'.items)
    BY <1>1, BootloadersShown DEF ImagesInv
  <1>3. /\ Boxed(imagesFw') /\ (~c => NoRelease(imagesFw'.items))
        /\ imagesFw'.index \in 0..Len(imagesFw'.items)
    BY FirmwareShown DEF ImagesInv
  <1>4. imagesInstalling' = Images!Nothing
    BY DEF ImagesInv
  <1>5. imagesBl'.items # <<>> /\ ShownAs(imagesBl')
    BY <1>2 DEF ShownAs, Boxed, Listed
  <1>6. Images!ShownIsUsed'
    BY <1>1 DEF Images!ShownIsUsed
  <1>7. imagesPicked # Images!None =>
            imagesPicked[1] = "file" /\ imagesLab = imagesPicked /\ imagesLab' = imagesPicked
    BY <1>1, <1>2 DEF ImagesInv, Images!PickKept, Images!IsRelease
  <1>8. Images!PickKept'
    BY <1>7 DEF Images!PickKept
  <1>9. /\ imagesFiles' \subseteq Bootloaders /\ imagesCatalog' \in BOOLEAN
        /\ imagesPicked' # Images!None => imagesPicked'[1] = "file"
    BY <1>7 DEF ImagesInv
  <1> QED
    BY <1>2, <1>3, <1>4, <1>5, <1>6, <1>8, <1>9 DEF ImagesInv

\* The user chooses.
LEMMA ChooseKeeps ==
    ASSUME ImagesInv,
           Images!ChooseBootloader \/ Images!BrowseBootloader \/ Images!ChooseFirmware
    PROVE  ImagesInv'
  <1>1. /\ imagesInstalling = Images!Nothing
        /\ UNCHANGED <<imagesFiles, imagesCatalog, imagesInstalling>>
    BY DEF Images!ChooseBootloader, Images!BrowseBootloader, Images!ChooseFirmware, Images!User
  <1>2. CASE Images!ChooseBootloader
    <2>1. PICK i \in DOMAIN imagesBl.items : imagesBl' = [imagesBl EXCEPT !.index = i]
      BY <1>2 DEF Images!ChooseBootloader
    <2>2. imagesBl' = [items |-> imagesBl.items, index |-> i] /\ Listed(imagesBl.items)
      BY <2>1 DEF ImagesInv, Boxed
    <2>3. i \in 1..Len(imagesBl.items)
      BY <2>2 DEF Listed
    <2>4. Boxed(imagesBl') /\ ShownAs(imagesBl') /\ imagesBl'.items = imagesBl.items
      BY <2>2, <2>3 DEF Boxed, ShownAs
    <2>5. /\ imagesFw' = imagesFw /\ imagesLab' = Images!Current(imagesBl')
          /\ imagesPicked' = IF imagesLab'[1] = "file" THEN imagesLab' ELSE Images!None
      BY <1>2 DEF Images!ChooseBootloader
    <2> QED
      BY <1>1, <2>4, <2>5 DEF ImagesInv, Images!ShownIsUsed, Images!PickKept
  <1>3. CASE Images!BrowseBootloader
    <2>1. PICK f \in imagesFiles : imagesBl' = Images!Inserted(imagesBl, <<"file", f>>)
      BY <1>3 DEF Images!BrowseBootloader
    <2>2. ~Images!IsRelease(<<"file", f>>)
      BY DEF Images!IsRelease
    <2>3. /\ Listed(imagesBl'.items) /\ imagesBl'.index \in 1..Len(imagesBl'.items)
          /\ imagesBl' = [items |-> imagesBl'.items, index |-> imagesBl'.index]
          /\ Images!Current(imagesBl') = <<"file", f>>
          /\ NoRelease(imagesBl.items) => NoRelease(imagesBl'.items)
      BY <2>1, <2>2, InsertedShown DEF ImagesInv, Boxed
    <2>4. imagesBl'.items # <<>>
      BY <2>3 DEF Listed
    <2>5. /\ imagesFw' = imagesFw /\ imagesLab' = Images!Current(imagesBl')
          /\ imagesPicked' = imagesLab'
      BY <1>3 DEF Images!BrowseBootloader
    <2> QED
      BY <1>1, <2>3, <2>4, <2>5
         DEF ImagesInv, Boxed, ShownAs, Images!ShownIsUsed, Images!PickKept
  <1>4. CASE Images!ChooseFirmware
    <2>1. UNCHANGED <<imagesBl, imagesLab, imagesPicked>>
      BY <1>4 DEF Images!ChooseFirmware
    <2>2. /\ Boxed(imagesFw') /\ imagesFw'.index \in 0..Len(imagesFw'.items)
          /\ NoRelease(imagesFw.items) => NoRelease(imagesFw'.items)
      <3>1. CASE \E i \in DOMAIN imagesFw.items : imagesFw' = [imagesFw EXCEPT !.index = i]
        <4>1. PICK i \in DOMAIN imagesFw.items : imagesFw' = [imagesFw EXCEPT !.index = i]
          BY <3>1
        <4>2. imagesFw' = [items |-> imagesFw.items, index |-> i] /\ Listed(imagesFw.items)
          BY <4>1 DEF ImagesInv, Boxed
        <4>3. i \in 0..Len(imagesFw.items)
          BY <4>2 DEF Listed
        <4> QED
          BY <4>2, <4>3 DEF Boxed
      <3>2. CASE imagesFw' = Images!Inserted(imagesFw, <<"file", "mine">>)
        <4>1. ~Images!IsRelease(<<"file", "mine">>)
          BY DEF Images!IsRelease
        <4>2. /\ Listed(imagesFw'.items) /\ imagesFw'.index \in 1..Len(imagesFw'.items)
              /\ imagesFw' = [items |-> imagesFw'.items, index |-> imagesFw'.index]
              /\ NoRelease(imagesFw.items) => NoRelease(imagesFw'.items)
          BY <3>2, <4>1, InsertedShown DEF ImagesInv, Boxed
        <4>3. Len(imagesFw'.items) \in Nat
          BY <4>2 DEF Listed
        <4> QED
          BY <4>2, <4>3 DEF Boxed
      <3> QED
        BY <1>4, <3>1, <3>2 DEF Images!ChooseFirmware
    <2> QED
      BY <1>1, <2>1, <2>2 DEF ImagesInv, ShownAs, Images!ShownIsUsed, Images!PickKept
  <1> QED
    BY <1>2, <1>3, <1>4

\* What is started is what is shown, or auto before there is anything to show.
LEMMA StartKeeps ==
    ASSUME ImagesInv, Images!Start
    PROVE  ImagesInv'
  <1> DEFINE f == Images!Current(imagesFw)
             b == IF imagesBl.items = <<>> THEN Images!Auto ELSE Images!Current(imagesBl)
  <1>1. /\ imagesInstalling = Images!Nothing
        /\ UNCHANGED <<imagesFiles, imagesCatalog, imagesBl, imagesFw>>
        /\ imagesPicked' = IF imagesBl.items = <<>> THEN Images!None ELSE imagesPicked
    BY DEF Images!Start
  <1>2. \/ /\ Images!IsRelease(f) \/ Images!IsRelease(b)
           /\ imagesInstalling'.bootloader = b /\ imagesLab' = imagesLab
        \/ imagesInstalling' = imagesInstalling /\ imagesLab' = b
    BY DEF Images!Start, Images!StartLab
  <1>3. ~Images!IsRelease(Images!Auto) /\ ~Images!IsRelease(Images!None)
    BY DEF Images!IsRelease, Images!Auto, Images!None
  <1>4. Images!IsRelease(f) \/ Images!IsRelease(b) => imagesCatalog
    <2> SUFFICES ASSUME ~imagesCatalog PROVE ~Images!IsRelease(f) /\ ~Images!IsRelease(b)
      BY DEF ImagesInv
    <2>1. NoRelease(imagesBl.items) /\ NoRelease(imagesFw.items)
      BY DEF ImagesInv
    <2>2. ~Images!IsRelease(f)
      <3>1. imagesFw.index # 0 => imagesFw.index \in DOMAIN imagesFw.items
        BY DEF ImagesInv, Boxed, Listed
      <3> QED
        BY <1>3, <2>1, <3>1 DEF NoRelease, Images!Current
    <2>3. ~Images!IsRelease(b)
      <3>1. imagesBl.items # <<>> => imagesBl.index \in DOMAIN imagesBl.items
        BY DEF ImagesInv, Boxed, Listed, ShownAs
      <3> QED
        BY <1>3, <2>1, <3>1 DEF NoRelease, Images!Current
    <2> QED
      BY <2>2, <2>3
  <1>5. imagesBl.items # <<>> => b = Images!Current(imagesBl)
    OBVIOUS
  <1>6. imagesPicked # Images!None /\ imagesBl.items # <<>> => imagesLab = b
    BY <1>5 DEF ImagesInv, Images!ShownIsUsed, Images!PickKept, Images!IsRelease
  <1> HIDE DEF f, b
  <1>7. Images!PickKept' /\ (imagesPicked' # Images!None => imagesPicked'[1] = "file")
    BY <1>1, <1>2, <1>6 DEF ImagesInv, Images!PickKept
  <1>8. Images!ShownIsUsed'
    BY <1>1, <1>2, <1>5 DEF ImagesInv, Images!ShownIsUsed
  <1>9. imagesInstalling' # Images!Nothing =>
            imagesCatalog /\ imagesInstalling'.bootloader = Images!Current(imagesBl)
    BY <1>1, <1>2, <1>4, <1>5 DEF ImagesInv
  <1> QED
    BY <1>1, <1>7, <1>8, <1>9 DEF ImagesInv, ShownAs

\* What was to be installed is, or it has failed.
LEMMA ReadyKeeps ==
    ASSUME ImagesInv, Images!ArtifactsReady
    PROVE  ImagesInv'
  <1> DEFINE b == imagesInstalling.bootloader
  <1>1. /\ imagesInstalling # Images!Nothing /\ imagesInstalling' = Images!Nothing
        /\ imagesLab' = imagesLab \/ imagesLab' = Images!InstalledImage(b)
        /\ UNCHANGED <<imagesFiles, imagesCatalog, imagesBl, imagesFw, imagesPicked>>
    BY DEF Images!ArtifactsReady, Images!StartLab
  <1>2. imagesBl.items # <<>> /\ b = Images!Current(imagesBl) /\ imagesCatalog
    BY <1>1 DEF ImagesInv
  <1>3. Images!InstalledImage(b) = b \/ Images!InstalledImage(b)[1] = "installed"
    BY DEF Images!InstalledImage
  <1>4. imagesPicked # Images!None => imagesLab = b /\ Images!InstalledImage(b) = b
    BY <1>2 DEF ImagesInv, Images!ShownIsUsed, Images!PickKept, Images!IsRelease,
       Images!InstalledImage
  <1> HIDE DEF b
  <1>5. Images!ShownIsUsed'
    BY <1>1, <1>2, <1>3 DEF ImagesInv, Images!ShownIsUsed
  <1>6. Images!PickKept'
    BY <1>1, <1>4 DEF ImagesInv, Images!PickKept
  <1> QED
    BY <1>1, <1>5, <1>6 DEF ImagesInv, ShownAs

\* The next program has what was preferred.
LEMMA AgainKeeps ==
    ASSUME ImagesInv, Images!Again
    PROVE  ImagesInv'
  <1>1. /\ imagesInstalling = Images!Nothing /\ imagesCatalog' = FALSE
        /\ UNCHANGED <<imagesFiles, imagesInstalling, imagesPicked, imagesLab>>
    BY DEF Images!Again
  <1>2. Boxed(imagesBl') /\ NoRelease(imagesBl'.items) /\ imagesBl'.items = <<>> /\ ShownAs(imagesBl')
    BY NoItems DEF Images!Again
  <1>3. Boxed(imagesFw') /\ NoRelease(imagesFw'.items) /\ imagesFw'.index \in 0..Len(imagesFw'.items)
    BY FirmwareBoxed DEF Images!Again
  <1> QED
    BY <1>1, <1>2, <1>3 DEF ImagesInv, Images!ShownIsUsed, Images!PickKept

\* The bootloader that is shown is used, and a file that was picked stays picked.
LEMMA ImagesGood == Spec => [](Images!ShownIsUsed /\ Images!PickKept)
  <1>1. ImagesInv /\ [Images!Next]_(Images!vars) => ImagesInv'
    <2> SUFFICES ASSUME ImagesInv, [Images!Next]_(Images!vars) PROVE ImagesInv'
      OBVIOUS
    <2>1. CASE Images!Resolve
      BY <2>1, RefreshKeeps DEF Images!Resolve, ImagesInv
    <2>2. CASE Images!CatalogArrives
      BY <2>2, RefreshKeeps DEF Images!CatalogArrives, ImagesInv
    <2>3. CASE UNCHANGED Images!vars
      BY <2>3 DEF Images!vars, ImagesInv, Boxed, ShownAs, Images!ShownIsUsed, Images!PickKept
    <2> QED
      BY <2>1, <2>2, <2>3, ChooseKeeps, StartKeeps, ReadyKeeps, AgainKeeps DEF Images!Next
  <1>2. ImagesInv => Images!ShownIsUsed /\ Images!PickKept
    BY DEF ImagesInv
  <1> QED
    BY <1>1, <1>2, ImagesInit, ImagesBehave, PTL

------------------------------------------------------------------------------
(* The run's properties.                                                      *)

\* What a process reads from a store that others write, crash over and publish to fits
\* together, for any number of processes, releases and sources; that a targets.h is
\* read as a C compiler reads it is left to the run.
THEOREM StoresHonest == Spec => [](part # "macros" => StoresWhole)
  <1>1. /\ Artifacts!RepositoryWhole /\ Artifacts!InstallsOneBuild
        /\ Source!IndexHonest /\ Source!DocumentsHonest
        => (part # "macros" => StoresWhole)
    BY DEF StoresWhole
  <1> QED
    BY <1>1, ArtifactsWhole, SourceHonest, PTL

\* No step takes from a store what others may have begun to use, selects what is not
\* whole, or ends the stop of a process tree with more than orphans left.
THEOREM StepsKept == Spec => StepsKeep
  <1>1. Spec => Tree!OnlyOrphansLeft
    BY TreeBehaves, Tree!OrphansOnly, PTL
  <1> QED
    BY <1>1, ArtifactsUnlost, RenodeSafe DEF StepsKeep

\* Each user of the monitor's connection and each client of the control port acts on the
\* answer to its own question, and the bridge has no block programmed twice and hands
\* over each answer behind its echo, for any number of commands, lines, chunks and
\* faults; what the input port of an ESC makes of a frame is left to the run.
THEOREM AnswersTheirOwn == Spec => [](part # "dshot" => AnswersOwn)
  <1>1. /\ Monitor!AnswersOwn /\ Port!RepliesOwn /\ Linker!WritesOnce /\ Linker!EchoFirst
        => (part # "dshot" => AnswersOwn)
    BY DEF AnswersOwn
  <1> QED
    BY <1>1, MonitorOwn, PortOwn, LinkerOwn, PTL

\* What runs is what was shown, picked and set, with panels that fit; the window is never
\* without a button that works; and a USB device owns its wires, is the only one and goes
\* first: for any targets, images, ESCs, inputs and numbers of threads, commands, choices
\* and starts. That auto finds the file that fits, which is a matter of the order in which
\* files are sorted, is left to the run.
THEOREM WindowIsWhole == Spec => []((part = "images" => Images!AutoFits) => WindowWhole)
  <1>1. /\ Window!LaunchWhole /\ Window!NeverDead /\ Images!ShownIsUsed /\ Images!PickKept
        /\ Port!RunSettled
        /\ Fleet!WireOwned /\ Fleet!DeviceKnown /\ Fleet!ShutdownComplete
        => ((part = "images" => Images!AutoFits) => WindowWhole)
    BY DEF WindowWhole
  <1> QED
    BY <1>1, WindowGood, ImagesGood, PortSettled, FleetGood, PTL
==============================================================================
