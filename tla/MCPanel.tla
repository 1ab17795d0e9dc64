------------------------------ MODULE MCPanel --------------------------------
(****************************************************************************)
(* The parts of a control panel, of the bench tools, of the USB ports of a  *)
(* machine and of the emulated flash that share no state while they run,    *)
(* and the USB/IP server behind a virtual device. One behaviour is a        *)
(* behaviour of one of them; the others stay as they begin.                 *)
(****************************************************************************)
EXTENDS Integers, Sequences, TLC, TLAPS

CONSTANTS
    Workers, MaxSessions, MaxAsks,          \* of the capture bench
    Stages, FullDuty, Settle,               \* of a benchmark of the simulation
    MaxClock, MaxBenchActs,
    ClockTime, ClockLives,                  \* of a measurement's clock
    Firmwares, FcStarts,                    \* of a flight controller's flash
    BootRuns                                \* of an emulated ESC

\* A stage of a benchmark, and the assumption: every recipe starts at throttle zero, and
\* the backend of a session without a capture is 0, no worker.
StageKinds == [throttle : Nat, seconds : Nat, load : Nat, capture : BOOLEAN]
ASSUME PanelAssumption ==
    /\ 0 \notin Workers
    /\ Stages \in Seq(StageKinds) /\ Len(Stages) > 0 /\ Stages[1].throttle = 0
    /\ FullDuty \in BOOLEAN /\ Settle \in Nat
    /\ ClockTime \in Nat

\* ELF files: load segments in and beyond the flash, sections with and without
\* contents, in a segment and beyond it.
SmallElfs ==
    [segments : SUBSET {[type |-> "load", offset |-> 1, filesz |-> 4, paddr |-> 2],
                        [type |-> "load", offset |-> 5, filesz |-> 2, paddr |-> 9]},
     sections : SUBSET {[offset |-> 2, size |-> 2, kind |-> "progbits", alloc |-> TRUE],
                        [offset |-> 5, size |-> 2, kind |-> "nobits", alloc |-> TRUE],
                        [offset |-> 5, size |-> 1, kind |-> "progbits", alloc |-> TRUE]}]

\* A packaged motor model, what a builder makes, and a benchmark's stages.
HeavyModel == [heavy |-> [kv |-> <<"int", 3600>>, voltage |-> <<"float", 252>>]]
BuiltModel == [kv |-> <<"float", 9200>>, voltage |-> <<"float", 160>>]
ThreeStages ==
    <<[throttle |-> 0, seconds |-> 1, load |-> 1, capture |-> FALSE],
      [throttle |-> 2, seconds |-> 1, load |-> 2, capture |-> TRUE],
      [throttle |-> 2, seconds |-> 1, load |-> 0, capture |-> FALSE]>>

VARIABLES
    part,           \* the component this behaviour is about
    throttleActs, throttleEnabled, throttlePtype, throttleBidir,
    throttleEdtWant, throttleValue, throttleSlider, throttleTyping,
    throttleWave, throttlePend, throttleWaveValue, throttleCmds, throttlePc,
    throttleHeld, throttleBurst, throttleSent, throttleActive, throttleEsc,
    simulatorProcs, simulatorCur, simulatorRequested, simulatorPumps,
    simulatorReads, simulatorLog, simulatorShown,
    usbChecked, usbGreyed, usbStub, usbPort, usbOpen, usbPc, usbHeld,
    usbAnswers, usbVhci, usbRaced, usbClosed,
    streamSim, streamSamples, streamPaced, streamPending, streamScope,
    streamFrame, streamShots, streamArms,
    benchTransport, benchOpen, benchBusy, benchSes, benchCur, benchWork,
    benchFits, benchMotor, benchWarned, benchFcRate, benchOld, benchFailed,
    benchActs,
    logNow, logLock, logStamp, logTelemQ, logPc, logRows, logWriteQ,
    logWriting, logBuffer, logFile, logWriteError, logUnflushed, logLate,
    clockSim, clockNet, clockT, clockT0, clockResetSeen, clockArmed, clockPc,
    clockSeen, clockShown, clockRebased, clockAhead,
    eepromTool, eepromPc, eepromProbes, eepromMode, eepromEsc, eepromSent,
    eepromInp, eepromSaved, eepromFailed, eepromAsked,
    bootOpt, bootTodo, bootFlash, bootEntry, bootMacro, bootHook, bootAt,
    bootVectors, bootState, bootRuns,
    flashFile, flashMem, flashCache, flashRecognizable, flashProfiled,
    flashMode, flashSelected, flashPlan, flashWords, flashState, flashStarts,
    wiringTarget, wiringStage, wiringConf, wiringWires, wiringLines,
    replayHas, replayLive, replayReplica, replayActs, replayStage, replayRead,
    paramsStored, paramsMotor, paramsInbox, paramsReplies, paramsJob,
    paramsImage, paramsModel, paramsSpins, paramsStatus, paramsFetched,
    paramsButton, paramsDue, paramsActs, paramsEvents, paramsChecks,
    paramsKnown, paramsFresh, paramsEdited,
    canSwitch, canThread, canQueue, canResults, canBus, canHad, canActs,
    canAsked, canLately, canCurrent,
    tonesPlayed, tonesSubscribed, tonesWire, tonesEvents, tonesStale,
    tonesTool, tonesHeard,
    audioMade, audioSubscribed, audioBatches, audioSink, audioWaits,
    audioActive, audioBuf, audioPos, audioOut, audioNewest,
    hexUpper, hexEntry, hexRecords, hexState, hexLine, hexElf,
    modelsFiles, modelsProgram, modelsWriting, modelsPaths, modelsSelected,
    modelsDialog, modelsWire, modelsSimulated, modelsKept, modelsEdited,
    modelsActs,
    recipeBench, recipeThrottle, recipeEnabled, recipeProcess, recipeClock,
    recipeLoad, recipeSample, recipeArmed, recipePace, recipeManual,
    recipeActs,
    vhciOs, vhciLoaded, vhciRule, vhciGroup, vhciVhci, vhciUp, vhciConn,
    vhciStep, vhciPort, vhciList, vhciTty, vhciLost, vhciHits, vhciActs,
    usbipRunning, usbipConn, usbipPending, usbipIntr, usbipTxHeld, usbipRx,
    usbipLock, usbipReply, usbipSpc, usbipWpc, usbipData, usbipCpc,
    usbipQueued, usbipLine, usbipInbox, usbipUnread, usbipAsked, usbipGiven,
    usbipDone, usbipGot, usbipNextUrb, usbipNextByte, usbipSessions

throttleVars ==
    <<throttleActs, throttleEnabled, throttlePtype, throttleBidir,
      throttleEdtWant, throttleValue, throttleSlider, throttleTyping,
      throttleWave, throttlePend, throttleWaveValue, throttleCmds,
      throttlePc, throttleHeld, throttleBurst, throttleSent, throttleActive,
      throttleEsc>>
simulatorVars ==
    <<simulatorProcs, simulatorCur, simulatorRequested, simulatorPumps,
      simulatorReads, simulatorLog, simulatorShown>>
usbVars ==
    <<usbChecked, usbGreyed, usbStub, usbPort, usbOpen, usbPc, usbHeld,
      usbAnswers, usbVhci, usbRaced, usbClosed>>
streamVars ==
    <<streamSim, streamSamples, streamPaced, streamPending, streamScope,
      streamFrame, streamShots, streamArms>>
benchVars ==
    <<benchTransport, benchOpen, benchBusy, benchSes, benchCur, benchWork,
      benchFits, benchMotor, benchWarned, benchFcRate, benchOld,
      benchFailed, benchActs>>
logVars ==
    <<logNow, logLock, logStamp, logTelemQ, logPc, logRows, logWriteQ,
      logWriting, logBuffer, logFile, logWriteError, logUnflushed, logLate>>
clockVars ==
    <<clockSim, clockNet, clockT, clockT0, clockResetSeen, clockArmed,
      clockPc, clockSeen, clockShown, clockRebased, clockAhead>>
eepromVars ==
    <<eepromTool, eepromPc, eepromProbes, eepromMode, eepromEsc, eepromSent,
      eepromInp, eepromSaved, eepromFailed, eepromAsked>>
bootVars ==
    <<bootOpt, bootTodo, bootFlash, bootEntry, bootMacro, bootHook, bootAt,
      bootVectors, bootState, bootRuns>>
flashVars ==
    <<flashFile, flashMem, flashCache, flashRecognizable, flashProfiled,
      flashMode, flashSelected, flashPlan, flashWords, flashState,
      flashStarts>>
wiringVars ==
    <<wiringTarget, wiringStage, wiringConf, wiringWires, wiringLines>>
replayVars ==
    <<replayHas, replayLive, replayReplica, replayActs, replayStage,
      replayRead>>
paramsVars ==
    <<paramsStored, paramsMotor, paramsInbox, paramsReplies, paramsJob,
      paramsImage, paramsModel, paramsSpins, paramsStatus, paramsFetched,
      paramsButton, paramsDue, paramsActs, paramsEvents, paramsChecks,
      paramsKnown, paramsFresh, paramsEdited>>
canVars ==
    <<canSwitch, canThread, canQueue, canResults, canBus, canHad, canActs,
      canAsked, canLately, canCurrent>>
tonesVars ==
    <<tonesPlayed, tonesSubscribed, tonesWire, tonesEvents, tonesStale,
      tonesTool, tonesHeard>>
audioVars ==
    <<audioMade, audioSubscribed, audioBatches, audioSink, audioWaits,
      audioActive, audioBuf, audioPos, audioOut, audioNewest>>
hexVars ==
    <<hexUpper, hexEntry, hexRecords, hexState, hexLine, hexElf>>
modelsVars ==
    <<modelsFiles, modelsProgram, modelsWriting, modelsPaths,
      modelsSelected, modelsDialog, modelsWire, modelsSimulated, modelsKept,
      modelsEdited, modelsActs>>
recipeVars ==
    <<recipeBench, recipeThrottle, recipeEnabled, recipeProcess,
      recipeClock, recipeLoad, recipeSample, recipeArmed, recipePace,
      recipeManual, recipeActs>>
vhciVars ==
    <<vhciOs, vhciLoaded, vhciRule, vhciGroup, vhciVhci, vhciUp, vhciConn,
      vhciStep, vhciPort, vhciList, vhciTty, vhciLost, vhciHits, vhciActs>>
usbipVars ==
    <<usbipRunning, usbipConn, usbipPending, usbipIntr, usbipTxHeld,
      usbipRx, usbipLock, usbipReply, usbipSpc, usbipWpc, usbipData,
      usbipCpc, usbipQueued, usbipLine, usbipInbox, usbipUnread, usbipAsked,
      usbipGiven, usbipDone, usbipGot, usbipNextUrb, usbipNextByte,
      usbipSessions>>
vars == <<part, throttleVars, simulatorVars, usbVars, streamVars, benchVars, logVars, clockVars, eepromVars, bootVars, flashVars, wiringVars, replayVars, paramsVars, canVars, tonesVars, audioVars, hexVars, modelsVars, recipeVars, vhciVars, usbipVars>>

Throttle == INSTANCE ThrottlePanel WITH
    Queue <- 3, Burst <- 2, Latch <- 4, MaxActs <- 3, acts <- throttleActs,
    enabled <- throttleEnabled, ptype <- throttlePtype,
    bidir <- throttleBidir, edtWant <- throttleEdtWant,
    value <- throttleValue, slider <- throttleSlider,
    typing <- throttleTyping, wave <- throttleWave, pend <- throttlePend,
    waveValue <- throttleWaveValue, cmds <- throttleCmds, pc <- throttlePc,
    held <- throttleHeld, burst <- throttleBurst, sent <- throttleSent,
    active <- throttleActive, esc <- throttleEsc
Simulator == INSTANCE SimProcess WITH
    MaxLaunches <- 3, procs <- simulatorProcs, cur <- simulatorCur,
    requested <- simulatorRequested, pumps <- simulatorPumps,
    reads <- simulatorReads, log <- simulatorLog, shown <- simulatorShown
Usb == INSTANCE PanelUsb WITH
    Panels <- {"g1", "g2"}, Ports <- {1, 2}, Scripted <- TRUE, MaxStarts <- 2,
    checked <- usbChecked, greyed <- usbGreyed, stub <- usbStub,
    port <- usbPort, open <- usbOpen, pc <- usbPc, held <- usbHeld,
    answers <- usbAnswers, vhci <- usbVhci, raced <- usbRaced,
    closed <- usbClosed
Stream == INSTANCE ScopeStream WITH
    Lives <- 2, MaxTime <- 5, Kept <- 3, Span <- 3, Post <- 2,
    MaxSamples <- 5, MaxArms <- 2, sim <- streamSim, samples <- streamSamples,
    paced <- streamPaced, pending <- streamPending, scope <- streamScope,
    frame <- streamFrame, shots <- streamShots, arms <- streamArms
Bench == INSTANCE CaptureBench WITH
    MaxActs <- MaxAsks, transport <- benchTransport, open <- benchOpen,
    busy <- benchBusy, ses <- benchSes, cur <- benchCur, work <- benchWork,
    fits <- benchFits, motor <- benchMotor, warned <- benchWarned,
    fcRate <- benchFcRate, old <- benchOld, failed <- benchFailed,
    acts <- benchActs
Log == INSTANCE CaptureLog WITH
    MaxTime <- 3, MaxRows <- 2, now <- logNow, lock <- logLock,
    stamp <- logStamp, telemQ <- logTelemQ, pc <- logPc, rows <- logRows,
    writeQ <- logWriteQ, writing <- logWriting, buffer <- logBuffer,
    file <- logFile, writeError <- logWriteError, unflushed <- logUnflushed,
    late <- logLate
Clock == INSTANCE SimClock WITH
    MaxTime <- ClockTime, MaxLives <- ClockLives, sim <- clockSim,
    net <- clockNet, t <- clockT, t0 <- clockT0, resetSeen <- clockResetSeen,
    armed <- clockArmed, pc <- clockPc, seen <- clockSeen,
    shown <- clockShown, rebased <- clockRebased, ahead <- clockAhead
Eeprom == INSTANCE EepromRead WITH
    MaxProbes <- 3, MaxAsked <- 2, tool <- eepromTool, pc <- eepromPc,
    probes <- eepromProbes, mode <- eepromMode, esc <- eepromEsc,
    sent <- eepromSent, inp <- eepromInp, saved <- eepromSaved,
    failed <- eepromFailed, asked <- eepromAsked
Boot == INSTANCE BootPlan WITH
    MaxRuns <- BootRuns, opt <- bootOpt, todo <- bootTodo, flash <- bootFlash,
    entry <- bootEntry, macro <- bootMacro, hook <- bootHook, at <- bootAt,
    vectors <- bootVectors, state <- bootState, runs <- bootRuns
Flash == INSTANCE FcFlash WITH
    Names <- Firmwares, MaxStarts <- FcStarts, file <- flashFile,
    mem <- flashMem, cache <- flashCache, recognizable <- flashRecognizable,
    profiled <- flashProfiled, mode <- flashMode, selected <- flashSelected,
    plan <- flashPlan, words <- flashWords, state <- flashState,
    starts <- flashStarts
Wiring == INSTANCE TargetWiring WITH
    Chosen <- {"f051", "g071", "g431", "l431", "v203", "f031", "g031", "f415", "e230", "f421", "a153"},
    target <- wiringTarget, stage <- wiringStage, conf <- wiringConf,
    wires <- wiringWires, lines <- wiringLines
Replay == INSTANCE PanelReplay WITH
    Switches <- {"ds_bidir"}, Graphs <- {"graph_i"},
    Sounds <- {"motor_audio"}, Machines <- {{}, {"plots", "sound", "can"}},
    MaxActs <- 2, has <- replayHas, live <- replayLive,
    replica <- replayReplica, acts <- replayActs, stage <- replayStage,
    read <- replayRead
Params == INSTANCE ParamEdit WITH
    Values <- {1, 5}, Resends <- 1, Backlog <- 2, MaxActs <- 1,
    MaxEvents <- 1, MaxChecks <- 1, stored <- paramsStored,
    motor <- paramsMotor, inbox <- paramsInbox, replies <- paramsReplies,
    job <- paramsJob, image <- paramsImage, model <- paramsModel,
    spins <- paramsSpins, status <- paramsStatus, fetched <- paramsFetched,
    button <- paramsButton, due <- paramsDue, acts <- paramsActs,
    events <- paramsEvents, checks <- paramsChecks, known <- paramsKnown,
    fresh <- paramsFresh, edited <- paramsEdited
Can == INSTANCE CanPanels WITH
    Panels <- {0, 1}, Throttles <- {1}, MaxActs <- 3, switch <- canSwitch,
    thread <- canThread, queue <- canQueue, results <- canResults,
    bus <- canBus, had <- canHad, acts <- canActs, asked <- canAsked,
    lately <- canLately, current <- canCurrent
Tones == INSTANCE ToneTools WITH
    Notes <- {<<1, 1>>}, Kept <- 3, Expected <- <<<<<<1, 1>>, 1>>>>,
    MaxTime <- 2, MaxLives <- 2, MaxWire <- 1, played <- tonesPlayed,
    subscribed <- tonesSubscribed, wire <- tonesWire, events <- tonesEvents,
    stale <- tonesStale, tool <- tonesTool, heard <- tonesHeard
Audio == INSTANCE AudioPlay WITH
    Unit <- 2, Target <- 1, Kept <- 2, Batches <- {2, 9}, Periods <- {0, 3},
    MaxSamples <- 13, made <- audioMade, subscribed <- audioSubscribed,
    batches <- audioBatches, sink <- audioSink, waits <- audioWaits,
    active <- audioActive, buf <- audioBuf, pos <- audioPos, out <- audioOut,
    newest <- audioNewest
Hex == INSTANCE HexImage WITH
    Bank <- 4, Paragraph <- 2, Header <- 5, Entry <- 3, FlashSize <- 8,
    Elfs <- SmallElfs, MaxLines <- 3, upper <- hexUpper, entry <- hexEntry,
    records <- hexRecords, state <- hexState, line <- hexLine, elf <- hexElf
Models == INSTANCE MotorModels WITH
    Packaged <- HeavyModel, Fresh <- BuiltModel,
    Typed <- {<<"number", 15>>, <<"word", 0>>}, MaxGiven <- 2, MaxActs <- 4,
    files <- modelsFiles, program <- modelsProgram, writing <- modelsWriting,
    paths <- modelsPaths, selected <- modelsSelected, dialog <- modelsDialog,
    wire <- modelsWire, simulated <- modelsSimulated, kept <- modelsKept,
    edited <- modelsEdited, acts <- modelsActs
Recipe == INSTANCE BenchRecipe WITH
    MaxTime <- MaxClock, MaxActs <- MaxBenchActs, bench <- recipeBench,
    throttle <- recipeThrottle, enabled <- recipeEnabled,
    process <- recipeProcess, clock <- recipeClock, load <- recipeLoad,
    sample <- recipeSample, armed <- recipeArmed, pace <- recipePace,
    manual <- recipeManual, acts <- recipeActs
Vhci == INSTANCE VhciPort WITH
    Clients <- {"a", "b"}, Hub <- <<"hs", "ss", "hs">>,
    Groups <- {"dialout", "uucp"}, Member <- {"uucp"}, MaxActs <- 6,
    os <- vhciOs, loaded <- vhciLoaded, rule <- vhciRule, group <- vhciGroup,
    vhci <- vhciVhci, up <- vhciUp, conn <- vhciConn, step <- vhciStep,
    port <- vhciPort, list <- vhciList, tty <- vhciTty, lost <- vhciLost,
    hits <- vhciHits, acts <- vhciActs
Server == INSTANCE UsbipServerProofs WITH
    RxMax <- 0, Buffer <- 1, Lengths <- {1, 2}, MaxUrbs <- 2, MaxBytes <- 2,
    MaxSessions <- 2, running <- usbipRunning, conn <- usbipConn,
    pending <- usbipPending, intr <- usbipIntr, txHeld <- usbipTxHeld,
    rx <- usbipRx, lock <- usbipLock, reply <- usbipReply, spc <- usbipSpc,
    wpc <- usbipWpc, data <- usbipData, cpc <- usbipCpc,
    queued <- usbipQueued, line <- usbipLine, inbox <- usbipInbox,
    unread <- usbipUnread, asked <- usbipAsked, given <- usbipGiven,
    done <- usbipDone, got <- usbipGot, nextUrb <- usbipNextUrb,
    nextByte <- usbipNextByte, sessions <- usbipSessions

Init ==
    /\ part \in {"throttle", "simulator", "usb", "stream", "bench", "log", "clock", "eeprom", "boot", "flash", "wiring", "replay", "params", "can", "tones", "audio", "hex", "models", "recipe", "vhci", "usbip"}
    /\ Throttle!Init
    /\ Simulator!Init
    /\ Usb!Init
    /\ Stream!Init
    /\ Bench!Init
    /\ Log!Init
    /\ Clock!Init
    /\ Eeprom!Init
    /\ Boot!Init
    /\ Flash!Init
    /\ Wiring!Init
    /\ Replay!Init
    /\ Params!Init
    /\ Can!Init
    /\ Tones!Init
    /\ Audio!Init
    /\ Hex!Init
    /\ Models!Init
    /\ Recipe!Init
    /\ Vhci!Init
    /\ Server!Init
    /\ part # "bench" => benchTransport = "dronecan" /\ benchFcRate = "fast"
    /\ part # "eeprom" => eepromTool = "script"
    /\ part # "flash" => flashRecognizable = Flash!Builds /\ flashProfiled = {}
    /\ part # "replay" => replayHas = {}
    /\ part # "tones" => tonesTool.mode = "print"
    /\ part # "vhci" => vhciOs = "linux" /\ vhciLoaded

ThrottleSteps ==
    /\ part = "throttle" /\ Throttle!Next
    /\ UNCHANGED <<part, simulatorVars, usbVars, streamVars, benchVars, logVars, clockVars, eepromVars, bootVars, flashVars, wiringVars, replayVars, paramsVars, canVars, tonesVars, audioVars, hexVars, modelsVars, recipeVars, vhciVars, usbipVars>>

SimulatorSteps ==
    /\ part = "simulator" /\ Simulator!Next
    /\ UNCHANGED <<part, throttleVars, usbVars, streamVars, benchVars, logVars, clockVars, eepromVars, bootVars, flashVars, wiringVars, replayVars, paramsVars, canVars, tonesVars, audioVars, hexVars, modelsVars, recipeVars, vhciVars, usbipVars>>

UsbSteps ==
    /\ part = "usb" /\ Usb!Next
    /\ UNCHANGED <<part, throttleVars, simulatorVars, streamVars, benchVars, logVars, clockVars, eepromVars, bootVars, flashVars, wiringVars, replayVars, paramsVars, canVars, tonesVars, audioVars, hexVars, modelsVars, recipeVars, vhciVars, usbipVars>>

StreamSteps ==
    /\ part = "stream" /\ Stream!Next
    /\ UNCHANGED <<part, throttleVars, simulatorVars, usbVars, benchVars, logVars, clockVars, eepromVars, bootVars, flashVars, wiringVars, replayVars, paramsVars, canVars, tonesVars, audioVars, hexVars, modelsVars, recipeVars, vhciVars, usbipVars>>

BenchSteps ==
    /\ part = "bench" /\ Bench!Next
    /\ UNCHANGED <<part, throttleVars, simulatorVars, usbVars, streamVars, logVars, clockVars, eepromVars, bootVars, flashVars, wiringVars, replayVars, paramsVars, canVars, tonesVars, audioVars, hexVars, modelsVars, recipeVars, vhciVars, usbipVars>>

LogSteps ==
    /\ part = "log" /\ Log!Next
    /\ UNCHANGED <<part, throttleVars, simulatorVars, usbVars, streamVars, benchVars, clockVars, eepromVars, bootVars, flashVars, wiringVars, replayVars, paramsVars, canVars, tonesVars, audioVars, hexVars, modelsVars, recipeVars, vhciVars, usbipVars>>

ClockSteps ==
    /\ part = "clock" /\ Clock!Next
    /\ UNCHANGED <<part, throttleVars, simulatorVars, usbVars, streamVars, benchVars, logVars, eepromVars, bootVars, flashVars, wiringVars, replayVars, paramsVars, canVars, tonesVars, audioVars, hexVars, modelsVars, recipeVars, vhciVars, usbipVars>>

EepromSteps ==
    /\ part = "eeprom" /\ Eeprom!Next
    /\ UNCHANGED <<part, throttleVars, simulatorVars, usbVars, streamVars, benchVars, logVars, clockVars, bootVars, flashVars, wiringVars, replayVars, paramsVars, canVars, tonesVars, audioVars, hexVars, modelsVars, recipeVars, vhciVars, usbipVars>>

BootSteps ==
    /\ part = "boot" /\ Boot!Next
    /\ UNCHANGED <<part, throttleVars, simulatorVars, usbVars, streamVars, benchVars, logVars, clockVars, eepromVars, flashVars, wiringVars, replayVars, paramsVars, canVars, tonesVars, audioVars, hexVars, modelsVars, recipeVars, vhciVars, usbipVars>>

FlashSteps ==
    /\ part = "flash" /\ Flash!Next
    /\ UNCHANGED <<part, throttleVars, simulatorVars, usbVars, streamVars, benchVars, logVars, clockVars, eepromVars, bootVars, wiringVars, replayVars, paramsVars, canVars, tonesVars, audioVars, hexVars, modelsVars, recipeVars, vhciVars, usbipVars>>

WiringSteps ==
    /\ part = "wiring" /\ Wiring!Next
    /\ UNCHANGED <<part, throttleVars, simulatorVars, usbVars, streamVars, benchVars, logVars, clockVars, eepromVars, bootVars, flashVars, replayVars, paramsVars, canVars, tonesVars, audioVars, hexVars, modelsVars, recipeVars, vhciVars, usbipVars>>

ReplaySteps ==
    /\ part = "replay" /\ Replay!Next
    /\ UNCHANGED <<part, throttleVars, simulatorVars, usbVars, streamVars, benchVars, logVars, clockVars, eepromVars, bootVars, flashVars, wiringVars, paramsVars, canVars, tonesVars, audioVars, hexVars, modelsVars, recipeVars, vhciVars, usbipVars>>

ParamsSteps ==
    /\ part = "params" /\ Params!Next
    /\ UNCHANGED <<part, throttleVars, simulatorVars, usbVars, streamVars, benchVars, logVars, clockVars, eepromVars, bootVars, flashVars, wiringVars, replayVars, canVars, tonesVars, audioVars, hexVars, modelsVars, recipeVars, vhciVars, usbipVars>>

CanSteps ==
    /\ part = "can" /\ Can!Next
    /\ UNCHANGED <<part, throttleVars, simulatorVars, usbVars, streamVars, benchVars, logVars, clockVars, eepromVars, bootVars, flashVars, wiringVars, replayVars, paramsVars, tonesVars, audioVars, hexVars, modelsVars, recipeVars, vhciVars, usbipVars>>

TonesSteps ==
    /\ part = "tones" /\ Tones!Next
    /\ UNCHANGED <<part, throttleVars, simulatorVars, usbVars, streamVars, benchVars, logVars, clockVars, eepromVars, bootVars, flashVars, wiringVars, replayVars, paramsVars, canVars, audioVars, hexVars, modelsVars, recipeVars, vhciVars, usbipVars>>

AudioSteps ==
    /\ part = "audio" /\ Audio!Next
    /\ UNCHANGED <<part, throttleVars, simulatorVars, usbVars, streamVars, benchVars, logVars, clockVars, eepromVars, bootVars, flashVars, wiringVars, replayVars, paramsVars, canVars, tonesVars, hexVars, modelsVars, recipeVars, vhciVars, usbipVars>>

HexSteps ==
    /\ part = "hex" /\ Hex!Next
    /\ UNCHANGED <<part, throttleVars, simulatorVars, usbVars, streamVars, benchVars, logVars, clockVars, eepromVars, bootVars, flashVars, wiringVars, replayVars, paramsVars, canVars, tonesVars, audioVars, modelsVars, recipeVars, vhciVars, usbipVars>>

ModelsSteps ==
    /\ part = "models" /\ Models!Next
    /\ UNCHANGED <<part, throttleVars, simulatorVars, usbVars, streamVars, benchVars, logVars, clockVars, eepromVars, bootVars, flashVars, wiringVars, replayVars, paramsVars, canVars, tonesVars, audioVars, hexVars, recipeVars, vhciVars, usbipVars>>

RecipeSteps ==
    /\ part = "recipe" /\ Recipe!Next
    /\ UNCHANGED <<part, throttleVars, simulatorVars, usbVars, streamVars, benchVars, logVars, clockVars, eepromVars, bootVars, flashVars, wiringVars, replayVars, paramsVars, canVars, tonesVars, audioVars, hexVars, modelsVars, vhciVars, usbipVars>>

VhciSteps ==
    /\ part = "vhci" /\ Vhci!Next
    /\ UNCHANGED <<part, throttleVars, simulatorVars, usbVars, streamVars, benchVars, logVars, clockVars, eepromVars, bootVars, flashVars, wiringVars, replayVars, paramsVars, canVars, tonesVars, audioVars, hexVars, modelsVars, recipeVars, usbipVars>>

ServerSteps ==
    /\ part = "usbip" /\ Server!Next
    /\ UNCHANGED <<part, throttleVars, simulatorVars, usbVars, streamVars, benchVars, logVars, clockVars, eepromVars, bootVars, flashVars, wiringVars, replayVars, paramsVars, canVars, tonesVars, audioVars, hexVars, modelsVars, recipeVars, vhciVars>>

Next == ThrottleSteps \/ SimulatorSteps \/ UsbSteps \/ StreamSteps \/ BenchSteps \/ LogSteps \/ ClockSteps \/ EepromSteps \/ BootSteps \/ FlashSteps \/ WiringSteps \/ ReplaySteps \/ ParamsSteps \/ CanSteps \/ TonesSteps \/ AudioSteps \/ HexSteps \/ ModelsSteps \/ RecipeSteps \/ VhciSteps \/ ServerSteps

Spec ==
    /\ Init /\ [][Next]_vars

------------------------------------------------------------------------------
\* The types of the parts, of which a few say more: a reader holds the lock,
\* a stream keeps within its bounds.
TypesOK ==
    /\ (part = "throttle" => Throttle!TypeOK)
    /\ (part = "simulator" => Simulator!TypeOK)
    /\ (part = "usb" => Usb!TypeOK)
    /\ (part = "stream" => Stream!TypeOK)
    /\ (part = "bench" => Bench!TypeOK)
    /\ (part = "log" => Log!TypeOK)
    /\ (part = "clock" => Clock!TypeOK)
    /\ (part = "eeprom" => Eeprom!TypeOK)
    /\ (part = "boot" => Boot!TypeOK)
    /\ (part = "flash" => Flash!TypeOK)
    /\ (part = "wiring" => Wiring!TypeOK)
    /\ (part = "replay" => Replay!TypeOK)
    /\ (part = "params" => Params!TypeOK)
    /\ (part = "can" => Can!TypeOK)
    /\ (part = "tones" => Tones!TypeOK)
    /\ (part = "audio" => Audio!TypeOK)
    /\ (part = "hex" => Hex!TypeOK)
    /\ (part = "models" => Models!TypeOK)
    /\ (part = "recipe" => Recipe!TypeOK)
    /\ (part = "vhci" => Vhci!TypeOK)
    /\ (part = "usbip" => Server!TypeOK)

\* A control panel sends no command that nobody chose, runs one simulator,
\* its USB switch says what is there, its windows and sounds are what is
\* checked, a recorded session replays, its editor changes the bytes that
\* were edited, and the panels of one CAN bus agree. Who attaches a USB
\* device owns the port it is told, and leaves alone what others have
\* attached.
PanelTruthful ==
    /\ (part = "throttle" => Throttle!NoStrayCommand)
    /\ (part = "simulator" => Simulator!OneProcess)
    /\ (part = "usb" => Usb!SwitchTruthful)
    /\ (part = "replay" => Replay!ReplayReproduces /\ Replay!ViewsServed)
    /\ (part = "params" => Params!RowsTrue /\ Params!OnlyEdited /\ Params!FileWhole)
    /\ (part = "can" => Can!CommandsAgree /\ Can!QuietWhenIdle /\ Can!ParamsAnswered)
    /\ (part = "vhci" => 
        /\ Vhci!PortOwned
        /\ Vhci!FailsClean
        /\ Vhci!OthersKept
        /\ Vhci!RuleServes)

\* A captured frame reaches over its whole window and is joined over no time
\* that goes back, SINGLE takes one, and a restarted simulator is given its
\* pace again. Notes that are recorded were played, and sound is in order and
\* late by at most a second.
CaptureWhole ==
    /\ (part = "stream" => Stream!FrameWhole /\ Stream!OneShot /\ Stream!PaceKept)
    /\ (part = "tones" => Tones!NotesPlayed /\ Tones!PrintsAll)
    /\ (part = "audio" => Audio!InOrder /\ Audio!LatencyBounded /\ Audio!ReadersAgree)

\* A capture of a real motor hears every abort, and ends with the motor
\* stopped or the user warned. A benchmark of the simulation commands its
\* recipe as long as it runs, captures when the scope has settled, and ends
\* at zero throttle.
BenchSafe ==
    /\ (part = "bench" => Bench!AbortHeard /\ Bench!AbortStops /\ Bench!MotorStopped)
    /\ (part = "recipe" => Recipe!RecipeKept /\ Recipe!EndsQuiet /\ Recipe!CaptureSettled)

\* What a capture leaves on disk is in order, as complete as its user is told
\* or its last flush, and what it says it is; a motor model is what its user
\* saved, typed and read off a spec sheet.
RecordTrue ==
    /\ (part = "log" => Log!LogOrdered /\ Log!LogComplete)
    /\ (part = "eeprom" => Eeprom!ImageHonest)
    /\ (part = "models" => Models!ModelsKept /\ Models!EditExact /\ Models!SheetUsed)

\* The clock of a measurement goes back only from a value that a rebase
\* overtook, none of which an armed profile is given; and no reset and no
\* start loses what a flash had saved.
SavedKept ==
    /\ Clock!ClockContinues
    /\ Boot!ResetKeeps
    /\ Flash!SettingsKept

\* The docstring of busy_now (esc_capture_gui.py:443): a second capture would
\* command the motor behind the first.
OneDriver ==
    /\ Bench!OneDriver

\* The docstring of ScopeCapture (scope.py:192): a simulator reset discards
\* pretrigger/posttrigger data across the reset.
FrameOfOneLife ==
    /\ Stream!FrameOfOneLife

\* Every URB is answered once, to the host that sent it, and an unlink tells
\* the truth.
UrbsSettled ==
    /\ (part = "usbip" => Server!OnlyThisHosts /\ Server!UrbsSettled)

\* The bytes of a stream stay in order, and none is lost.
StreamKept ==
    /\ Server!StreamKept

\* What an emulated ESC and a flight controller start from is what was asked
\* for, whole, and they start where they should.
FlashWhole ==
    /\ (part = "boot" => Boot!LoadedAsAsked /\ Boot!StartsInBoot)
    /\ (part = "flash" => Flash!RunsSelected)
    /\ (part = "wiring" => Wiring!PlatformWhole)
    /\ (part = "hex" => Hex!ImageWhole /\ Hex!ElfKeeps /\ Hex!FlashTrue)

\* The docstring of recognize_betaflight_hotpatches
\* (flight_controller.py:533): no hook and no patch at a coincidental
\* address.
PatchesFit ==
    /\ Flash!PatchesFit

------------------------------------------------------------------------------
(* Every behaviour, seen through the variables of one part, is one of that    *)
(* part's; what is proved of the part holds here.                             *)

\* The steps of the USB/IP server are UsbipServer's.
LEMMA ServerBehaves == Spec => Server!Spec
  <1>1. Init => Server!Init
    BY DEF Init
  <1>2. [Next]_vars => [Server!Next]_(Server!vars)
    BY DEF Next, ThrottleSteps, SimulatorSteps, UsbSteps, StreamSteps, BenchSteps,
           LogSteps, ClockSteps, EepromSteps, BootSteps, FlashSteps, WiringSteps,
           ReplaySteps, ParamsSteps, CanSteps, TonesSteps, AudioSteps, HexSteps,
           ModelsSteps, RecipeSteps, VhciSteps, ServerSteps, vars, usbipVars,
           Server!vars, Server!device, Server!server, Server!writer, Server!closer,
           Server!host, Server!wire, Server!session
  <1> QED
    BY <1>1, <1>2, PTL DEF Spec, Server!Spec

\* This instance has constants the proofs about the server speak of.
LEMMA ServerConstants == Server!ConstantsOK
  BY DEF Server!ConstantsOK

\* Every URB is answered once, to the host that sent it (usbip.py, _ret_submit and
\* _unlink).
THEOREM UrbsOnce == Spec => []UrbsSettled
  <1>1. Spec => [](Server!OnlyThisHosts /\ Server!UrbsSettled)
    BY ServerBehaves, ServerConstants, Server!HostsApart, Server!Settled, PTL
  <1>2. Server!OnlyThisHosts /\ Server!UrbsSettled => UrbsSettled
    BY DEF UrbsSettled
  <1> QED
    BY <1>1, <1>2, PTL

\* The bytes of a stream stay in order, and none is lost or held while a read waits
\* (usbip.py, _read and write).
THEOREM StreamInOrder == Spec => []StreamKept
  <1>1. Spec => []Server!StreamKept
    BY ServerBehaves, ServerConstants, Server!StreamInOrder, PTL
  <1>2. Server!StreamKept => StreamKept
    BY DEF StreamKept
  <1> QED
    BY <1>1, <1>2, PTL
------------------------------------------------------------------------------
(* The bench of a real motor.                                                 *)

\* What happens on the bench is what CaptureBench says.
LEMMA BenchBehaves == Spec => Bench!Init /\ [][Bench!Next]_(Bench!vars)
  <1>1. Init => Bench!Init
    BY DEF Init
  <1>2. [Next]_vars => [Bench!Next]_(Bench!vars)
    BY DEF Next, ThrottleSteps, SimulatorSteps, UsbSteps, StreamSteps, BenchSteps,
           LogSteps, ClockSteps, EepromSteps, BootSteps, FlashSteps, WiringSteps,
           ReplaySteps, ParamsSteps, CanSteps, TonesSteps, AudioSteps, HexSteps,
           ModelsSteps, RecipeSteps, VhciSteps, ServerSteps, vars, benchVars,
           Bench!vars
  <1> QED
    BY <1>1, <1>2, PTL DEF Spec

\* What a worker may be: only a capture that has passed its preflight gives the motor
\* anything but zero, an abort outlives the backend it was for nowhere, and what goes out
\* late is the last of its capture.
WorkerFields == {"pc", "ses", "keys", "made", "aborted", "throttle", "safe", "ok", "late"}
BenchSessions == [connected : BOOLEAN, aborting : BOOLEAN, backend : Workers \cup {0},
                  restore : BOOLEAN]
Sound(r) ==
    /\ DOMAIN r = WorkerFields /\ r.late \in 0..1
    /\ r.pc # "none" => r.ses \in DOMAIN benchSes
    /\ r.pc \in {"drive", "send", "spin", "poll"} => r.safe
    /\ r.pc \in {"connect", "rate", "back", "check", "step", "wind", "closed", "done"} => r.aborted = "no"
    /\ r.pc \in {"publish", "ready", "drive", "send"} => r.late = 0
    /\ r.pc \in {"spin", "poll"} /\ r.late = 1 => r.aborted # "no"
WorkersSound ==
    /\ benchSes \in Seq(BenchSessions) /\ benchCur = Len(benchSes)
    /\ DOMAIN benchWork = Workers
    /\ \A w \in Workers : Sound(benchWork[w])

\* A backend that a session has is that of a capture of its own, which has heard an
\* abort of the session.
Live == {"ready", "drive", "send", "spin", "poll", "finally"}
Reached ==
    \A s \in DOMAIN benchSes :
        LET b == benchSes[s].backend IN
        b # 0 =>
            /\ benchWork[b].ses = s
            /\ benchWork[b].pc \in Live
            /\ benchSes[s].aborting => benchWork[b].aborted # "no"

\* A motor that turns has somebody who will stop it.
Driving == {"publish", "ready", "drive", "send", "spin", "poll", "finally", "wind"}
Turning ==
    benchOpen => \/ benchMotor = 0 \/ benchWarned
                 \/ \E w \in Workers : benchWork[w].pc \in Driving /\ benchWork[w].safe
BenchInv == WorkersSound /\ Reached /\ Turning

\* What of a worker Sound speaks of, after a step.
Becomes(q, n, p, s, a, l) ==
    /\ DOMAIN q = WorkerFields
    /\ q.ses = n /\ q.pc = p /\ q.safe = s /\ q.aborted = a /\ q.late = l

\* A worker that moves leaves the others sound.
LEMMA SoundMoves ==
    ASSUME NEW w \in Workers, WorkersSound, NEW r, benchWork' = [benchWork EXCEPT ![w] = r],
           Sound(r)', benchSes' \in Seq(BenchSessions), benchCur' = Len(benchSes'),
           DOMAIN benchSes \subseteq DOMAIN benchSes'
    PROVE  WorkersSound'
  <1>1. ASSUME NEW v \in Workers, v # w PROVE Sound(benchWork[v])'
    <2>1. benchWork'[v] = benchWork[v] /\ Sound(benchWork[v])
      BY <1>1 DEF WorkersSound
    <2> QED
      BY <2>1 DEF Sound
  <1>2. benchWork'[w] = r
    BY DEF WorkersSound
  <1> QED
    BY <1>1, <1>2 DEF WorkersSound

\* A backend that moves stays one, and remembers its abort.
StaysLive(r, q) ==
    r.pc \in Live => q.ses = r.ses /\ q.pc \in Live /\ (r.aborted # "no" => q.aborted # "no")
SessionsKept ==
    \A s \in DOMAIN benchSes' :
        /\ s \in DOMAIN benchSes /\ benchSes'[s].backend = benchSes[s].backend
        /\ benchSes'[s].aborting => benchSes[s].aborting
LEMMA LiveMoves ==
    ASSUME NEW w \in Workers, WorkersSound, Reached, NEW q,
           benchWork' = [benchWork EXCEPT ![w] = q], StaysLive(benchWork[w], q), SessionsKept
    PROVE  Reached'
  <1> SUFFICES ASSUME NEW s \in DOMAIN benchSes', benchSes'[s].backend # 0
               PROVE  LET b == benchSes'[s].backend IN
                      /\ benchWork'[b].ses = s /\ benchWork'[b].pc \in Live
                      /\ benchSes'[s].aborting => benchWork'[b].aborted # "no"
    BY DEF Reached
  <1> DEFINE b == benchSes[s].backend
  <1>1. /\ benchSes'[s].backend = b /\ b # 0 /\ s \in DOMAIN benchSes
        /\ benchSes'[s].aborting => benchSes[s].aborting
    BY DEF SessionsKept
  <1>2. /\ benchWork[b].ses = s /\ benchWork[b].pc \in Live
        /\ benchSes[s].aborting => benchWork[b].aborted # "no"
    BY <1>1 DEF Reached
  <1>3. benchSes[s] \in BenchSessions
    BY <1>1 DEF WorkersSound
  <1>4. b \in Workers
    BY <1>1, <1>3 DEF BenchSessions
  <1> HIDE DEF b
  <1>5. CASE b = w
    BY <1>1, <1>2, <1>4, <1>5 DEF StaysLive, WorkersSound
  <1>6. CASE b # w
    BY <1>1, <1>2, <1>4, <1>6 DEF WorkersSound
  <1> QED
    BY <1>5, <1>6

\* A worker that drives the motor and may stop it goes on; who gives it more is one.
StaysSafe(r, q) == r.pc \in Driving /\ r.safe => q.pc \in Driving /\ q.safe
MotorKept(q) ==
    \/ UNCHANGED <<benchMotor, benchWarned>> \/ benchMotor' = 0
    \/ q.pc \in {"spin", "poll"} /\ q.safe
LEMMA SafeMoves ==
    ASSUME NEW w \in Workers, WorkersSound, Turning, NEW q,
           benchWork' = [benchWork EXCEPT ![w] = q], StaysSafe(benchWork[w], q), MotorKept(q),
           benchOpen' = benchOpen
    PROVE  Turning'
  <1>1. benchWork'[w] = q /\ \A v \in Workers : v # w => benchWork'[v] = benchWork[v]
    BY DEF WorkersSound
  <1>2. \A v \in Workers : benchWork[v].pc \in Driving /\ benchWork[v].safe
                           => benchWork'[v].pc \in Driving /\ benchWork'[v].safe
    BY <1>1 DEF StaysSafe
  <1>3. CASE UNCHANGED <<benchMotor, benchWarned>>
    BY <1>2, <1>3, Zenon DEF Turning
  <1>4. CASE benchMotor' = 0
    BY <1>4 DEF Turning
  <1>5. CASE q.pc \in {"spin", "poll"} /\ q.safe
    BY <1>1, <1>5 DEF Turning, Driving
  <1> QED
    BY <1>3, <1>4, <1>5 DEF MotorKept

\* A session that is changed is one still.
LEMMA SessionFields ==
    ASSUME NEW s \in BenchSessions, NEW b \in Workers \cup {0}, NEW t \in BOOLEAN
    PROVE  /\ [s EXCEPT !.connected = t] \in BenchSessions
           /\ [s EXCEPT !.aborting = t] \in BenchSessions
           /\ [s EXCEPT !.restore = t] \in BenchSessions
           /\ [s EXCEPT !.backend = b] \in BenchSessions
  BY DEF BenchSessions

\* Whatever a worker does, the bench is as BenchInv says.
LEMMA WorkerKeepsBench ==
    ASSUME NEW w \in Workers, BenchInv, Bench!Works(w)
    PROVE  BenchInv'
  <1> DEFINE r == benchWork[w]
  <1>0. /\ Sound(r) /\ benchSes \in Seq(BenchSessions)
        /\ benchCur = Len(benchSes) /\ DOMAIN benchWork = Workers
    BY DEF BenchInv, WorkersSound
  <1>i. WorkersSound /\ Reached /\ Turning
    BY DEF BenchInv
  <1>f. DOMAIN r = WorkerFields
    BY <1>0 DEF Sound
  <1>s. Sound(r)
    BY <1>0
  <1>a. ASSUME NEW q, benchWork' = [benchWork EXCEPT ![w] = q], UNCHANGED <<benchSes, benchCur>>, Sound(q)
        PROVE  WorkersSound' /\ SessionsKept
    <2>1. Sound(q)'
      BY <1>a DEF Sound
    <2>2. benchSes' \in Seq(BenchSessions) /\ benchCur' = Len(benchSes')
          /\ DOMAIN benchSes \subseteq DOMAIN benchSes'
      BY <1>0, <1>a
    <2>3. SessionsKept
      BY <1>a DEF SessionsKept
    <2> QED
      BY <1>a, <1>i, <2>1, <2>2, <2>3, SoundMoves, Zenon
  <1>d. r.pc # "none" => r.ses \in 1..Len(benchSes)
    BY <1>0 DEF Sound
  <1>b. ASSUME NEW q, benchWork' = [benchWork EXCEPT ![w] = q], UNCHANGED benchCur, Sound(q),
               r.pc # "none", NEW s \in BenchSessions, benchSes' = [benchSes EXCEPT ![r.ses] = s]
        PROVE  WorkersSound' /\ DOMAIN benchSes' = DOMAIN benchSes
    <2>1. benchSes' \in Seq(BenchSessions) /\ Len(benchSes') = Len(benchSes)
          /\ DOMAIN benchSes' = DOMAIN benchSes
      BY <1>0, <1>b, <1>d
    <2>2. Sound(q)'
      BY <1>b, <2>1 DEF Sound
    <2>3. benchCur' = Len(benchSes') /\ DOMAIN benchSes \subseteq DOMAIN benchSes'
      BY <1>0, <1>b, <2>1
    <2> QED
      BY <1>b, <1>i, <2>1, <2>2, <2>3, SoundMoves, Zenon
  <1>c. ASSUME r.pc # "none" PROVE benchSes[r.ses] \in BenchSessions
    BY <1>0, <1>c, <1>d
  <1>g. ASSUME NEW q, benchWork' = [benchWork EXCEPT ![w] = q], WorkersSound', SessionsKept,
               StaysLive(r, q), StaysSafe(r, q), MotorKept(q), benchOpen' = benchOpen
        PROVE  BenchInv'
    <2>1. Reached'
      BY <1>g, <1>i, LiveMoves, Zenon
    <2>2. Turning'
      BY <1>g, <1>i, SafeMoves, Zenon
    <2> QED
      BY <1>g, <2>1, <2>2 DEF BenchInv
  <1> USE DEF Bench!At, Bench!Set, Bench!To, Bench!Fails, Bench!window
  <1> HIDE DEF r
  <1>r. r = benchWork[w]
    BY DEF r
  <1>1. CASE Bench!Connect(w)
    <2>1. PICK q :
            /\ r.pc = "connect" /\ benchOpen /\ benchOpen' /\ benchWork' = [benchWork EXCEPT ![w] = q]
            /\ UNCHANGED benchCur /\ benchSes' = [benchSes EXCEPT ![r.ses] = [@ EXCEPT !.aborting = FALSE]]
            /\ UNCHANGED <<benchMotor, benchWarned>>
            /\ \/ q = [r EXCEPT !.pc = "rate"]
               \/ q = [r EXCEPT !.pc = "check"]
      BY <1>1, <1>r, Zenon DEF Bench!Connect, Bench!device
    <2>p. q = [r EXCEPT !.pc = "rate"]
          => Becomes(q, r.ses, "rate", r.safe, r.aborted, r.late)
      BY <1>f DEF Becomes, WorkerFields
    <2>q. q = [r EXCEPT !.pc = "check"]
          => Becomes(q, r.ses, "check", r.safe, r.aborted, r.late)
      BY <1>f DEF Becomes, WorkerFields
    <2>3. Sound(q) /\ StaysLive(r, q) /\ StaysSafe(r, q)
      BY <1>s, <2>1, <2>p, <2>q DEF Sound, Becomes, StaysLive, StaysSafe, Live, Driving
    <2>4. MotorKept(q) /\ benchOpen' = benchOpen
      BY <2>1 DEF MotorKept
    <2>5. [benchSes[r.ses] EXCEPT !.aborting = FALSE] \in BenchSessions /\ r.pc # "none"
      BY <1>c, <2>1, SessionFields, Zenon
    <2>6. benchSes' = [benchSes EXCEPT ![r.ses] = [benchSes[r.ses] EXCEPT !.aborting = FALSE]]
      BY <2>1
    <2>7. WorkersSound' /\ DOMAIN benchSes' = DOMAIN benchSes
      BY <1>b, <2>1, <2>3, <2>5, <2>6, Zenon
    <2>8. SessionsKept
      BY <1>c, <2>5, <2>6, <2>7 DEF SessionsKept, BenchSessions
    <2> QED
      BY <1>g, <2>1, <2>3, <2>4, <2>7, <2>8, Zenon
  <1>2. CASE Bench!RaiseRate(w)
    <2>1. PICK q :
            /\ r.pc = "rate" /\ benchOpen /\ benchOpen' /\ benchWork' = [benchWork EXCEPT ![w] = q]
            /\ UNCHANGED <<benchSes, benchCur>>
            /\ UNCHANGED <<benchMotor, benchWarned>> \/ benchMotor' = 0
            /\ \/ q = [r EXCEPT !.pc = "done", !.ok = FALSE]
               \/ q = [r EXCEPT !.pc = "check"]
               \/ q = [r EXCEPT !.pc = "back"]
      BY <1>2, <1>r, Zenon DEF Bench!RaiseRate, Bench!device
    <2>p. q = [r EXCEPT !.pc = "done", !.ok = FALSE]
          => Becomes(q, r.ses, "done", r.safe, r.aborted, r.late)
      BY <1>f DEF Becomes, WorkerFields
    <2>q. q = [r EXCEPT !.pc = "check"]
          => Becomes(q, r.ses, "check", r.safe, r.aborted, r.late)
      BY <1>f DEF Becomes, WorkerFields
    <2>s. q = [r EXCEPT !.pc = "back"]
          => Becomes(q, r.ses, "back", r.safe, r.aborted, r.late)
      BY <1>f DEF Becomes, WorkerFields
    <2>3. Sound(q) /\ StaysLive(r, q) /\ StaysSafe(r, q)
      BY <1>s, <2>1, <2>p, <2>q, <2>s DEF Sound, Becomes, StaysLive, StaysSafe, Live, Driving
    <2>4. MotorKept(q) /\ benchOpen' = benchOpen
      BY <2>1, <2>3, <2>p, <2>q, <2>s DEF MotorKept, Becomes, Sound
    <2>5. WorkersSound' /\ SessionsKept
      BY <1>a, <2>1, <2>3, Zenon
    <2> QED
      BY <1>g, <2>1, <2>3, <2>4, <2>5, Zenon
  <1>3. CASE Bench!RateRaised(w)
    <2>1. PICK q :
            /\ r.pc = "back" /\ benchOpen /\ benchOpen' /\ benchWork' = [benchWork EXCEPT ![w] = q]
            /\ UNCHANGED benchCur /\ benchSes' = [benchSes EXCEPT ![r.ses] = [@ EXCEPT !.restore = TRUE]]
            /\ UNCHANGED <<benchMotor, benchWarned>>
            /\ q = [r EXCEPT !.pc = "check"]
      BY <1>3, <1>r, Zenon DEF Bench!RateRaised, Bench!device
    <2>p. q = [r EXCEPT !.pc = "check"]
          => Becomes(q, r.ses, "check", r.safe, r.aborted, r.late)
      BY <1>f DEF Becomes, WorkerFields
    <2>3. Sound(q) /\ StaysLive(r, q) /\ StaysSafe(r, q)
      BY <1>s, <2>1, <2>p DEF Sound, Becomes, StaysLive, StaysSafe, Live, Driving
    <2>4. MotorKept(q) /\ benchOpen' = benchOpen
      BY <2>1 DEF MotorKept
    <2>5. [benchSes[r.ses] EXCEPT !.restore = TRUE] \in BenchSessions /\ r.pc # "none"
      BY <1>c, <2>1, SessionFields, Zenon
    <2>6. benchSes' = [benchSes EXCEPT ![r.ses] = [benchSes[r.ses] EXCEPT !.restore = TRUE]]
      BY <2>1
    <2>7. WorkersSound' /\ DOMAIN benchSes' = DOMAIN benchSes
      BY <1>b, <2>1, <2>3, <2>5, <2>6, Zenon
    <2>8. SessionsKept
      BY <1>c, <2>5, <2>6, <2>7 DEF SessionsKept, BenchSessions
    <2> QED
      BY <1>g, <2>1, <2>3, <2>4, <2>7, <2>8, Zenon
  <1>4. CASE Bench!Checked(w)
    <2>1. CASE Bench!Fails(w, "done") /\ UNCHANGED benchSes
      <3>1. PICK q :
              /\ r.pc = "check" /\ benchOpen /\ benchOpen' /\ benchWork' = [benchWork EXCEPT ![w] = q]
              /\ UNCHANGED <<benchSes, benchCur>>
              /\ UNCHANGED <<benchMotor, benchWarned>>
              /\ q = [r EXCEPT !.pc = "done", !.ok = FALSE]
        BY <1>4, <1>r, <2>1, Zenon DEF Bench!Checked, Bench!device
      <3>p. q = [r EXCEPT !.pc = "done", !.ok = FALSE]
            => Becomes(q, r.ses, "done", r.safe, r.aborted, r.late)
        BY <1>f DEF Becomes, WorkerFields
      <3>3. Sound(q) /\ StaysLive(r, q) /\ StaysSafe(r, q)
        BY <1>s, <3>1, <3>p DEF Sound, Becomes, StaysLive, StaysSafe, Live, Driving
      <3>4. MotorKept(q) /\ benchOpen' = benchOpen
        BY <3>1 DEF MotorKept
      <3>5. WorkersSound' /\ SessionsKept
        BY <1>a, <3>1, <3>3, Zenon
      <3> QED
        BY <1>g, <3>1, <3>3, <3>4, <3>5, Zenon
    <2>2. CASE /\ Bench!To(w, "done")
               /\ benchSes' = [benchSes EXCEPT ![benchWork[w].ses].connected = TRUE]
      <3>1. PICK q :
              /\ r.pc = "check" /\ benchOpen /\ benchOpen' /\ benchWork' = [benchWork EXCEPT ![w] = q]
              /\ UNCHANGED benchCur /\ benchSes' = [benchSes EXCEPT ![r.ses] = [@ EXCEPT !.connected = TRUE]]
              /\ UNCHANGED <<benchMotor, benchWarned>>
              /\ q = [r EXCEPT !.pc = "done"]
        BY <1>4, <1>r, <2>2, Zenon DEF Bench!Checked, Bench!device
      <3>p. q = [r EXCEPT !.pc = "done"]
            => Becomes(q, r.ses, "done", r.safe, r.aborted, r.late)
        BY <1>f DEF Becomes, WorkerFields
      <3>3. Sound(q) /\ StaysLive(r, q) /\ StaysSafe(r, q)
        BY <1>s, <3>1, <3>p DEF Sound, Becomes, StaysLive, StaysSafe, Live, Driving
      <3>4. MotorKept(q) /\ benchOpen' = benchOpen
        BY <3>1 DEF MotorKept
      <3>5. [benchSes[r.ses] EXCEPT !.connected = TRUE] \in BenchSessions /\ r.pc # "none"
        BY <1>c, <3>1, SessionFields, Zenon
      <3>6. benchSes' = [benchSes EXCEPT ![r.ses] = [benchSes[r.ses] EXCEPT !.connected = TRUE]]
        BY <3>1
      <3>7. WorkersSound' /\ DOMAIN benchSes' = DOMAIN benchSes
        BY <1>b, <3>1, <3>3, <3>5, <3>6, Zenon
      <3>8. SessionsKept
        BY <1>c, <3>5, <3>6, <3>7 DEF SessionsKept, BenchSessions
      <3> QED
        BY <1>g, <3>1, <3>3, <3>4, <3>7, <3>8, Zenon
    <2> QED
      BY <1>4, <2>1, <2>2 DEF Bench!Checked
  <1>5. CASE Bench!Step(w)
    <2>1. PICK d, q :
            /\ r.pc = "step" /\ benchOpen /\ benchOpen' /\ benchWork' = [benchWork EXCEPT ![w] = q]
            /\ UNCHANGED <<benchSes, benchCur>>
            /\ UNCHANGED <<benchMotor, benchWarned>>
            /\ \/ q = [r EXCEPT !.pc = "publish", !.made = TRUE, !.aborted = "no",
                                 !.throttle = 0, !.safe = d, !.late = 0]
               \/ q = [r EXCEPT !.pc = "closed", !.ok = FALSE]
               \/ q = [r EXCEPT !.pc = "closed"]
      BY <1>5, <1>r, Zenon DEF Bench!Step, Bench!device, Bench!ReadSettings
    <2>p. q = [r EXCEPT !.pc = "publish", !.made = TRUE, !.aborted = "no",
                   !.throttle = 0, !.safe = d, !.late = 0]
          => Becomes(q, r.ses, "publish", d, "no", 0)
      BY <1>f DEF Becomes, WorkerFields
    <2>q. q = [r EXCEPT !.pc = "closed", !.ok = FALSE]
          => Becomes(q, r.ses, "closed", r.safe, r.aborted, r.late)
      BY <1>f DEF Becomes, WorkerFields
    <2>s. q = [r EXCEPT !.pc = "closed"]
          => Becomes(q, r.ses, "closed", r.safe, r.aborted, r.late)
      BY <1>f DEF Becomes, WorkerFields
    <2>3. Sound(q) /\ StaysLive(r, q) /\ StaysSafe(r, q)
      BY <1>s, <2>1, <2>p, <2>q, <2>s DEF Sound, Becomes, StaysLive, StaysSafe, Live, Driving
    <2>4. MotorKept(q) /\ benchOpen' = benchOpen
      BY <2>1 DEF MotorKept
    <2>5. WorkersSound' /\ SessionsKept
      BY <1>a, <2>1, <2>3, Zenon
    <2> QED
      BY <1>g, <2>1, <2>3, <2>4, <2>5, Zenon
  <1>6. CASE Bench!Publish(w)
    <2>1. PICK q :
            /\ r.pc = "publish" /\ benchOpen /\ benchOpen' /\ benchWork' = [benchWork EXCEPT ![w] = q]
            /\ UNCHANGED benchCur /\ benchSes' = [benchSes EXCEPT ![r.ses] = [@ EXCEPT !.backend = w]]
            /\ UNCHANGED <<benchMotor, benchWarned>>
            /\ q = [r EXCEPT !.pc = "ready", !.aborted = IF Bench!HearsAbort(w) THEN "user" ELSE r.aborted]
      BY <1>6, <1>r, Zenon DEF Bench!Publish, Bench!device
    <2>p. q = [r EXCEPT !.pc = "ready", !.aborted = IF Bench!HearsAbort(w) THEN "user" ELSE r.aborted]
          => Becomes(q, r.ses, "ready", r.safe, IF Bench!HearsAbort(w) THEN "user" ELSE r.aborted, r.late)
      BY <1>f DEF Becomes, WorkerFields
    <2>3. Sound(q) /\ StaysLive(r, q) /\ StaysSafe(r, q)
      BY <1>s, <2>1, <2>p DEF Sound, Becomes, StaysLive, StaysSafe, Live, Driving
    <2>4. MotorKept(q) /\ benchOpen' = benchOpen
      BY <2>1 DEF MotorKept
    <2>5. [benchSes[r.ses] EXCEPT !.backend = w] \in BenchSessions /\ r.pc # "none"
      BY <1>c, <2>1, SessionFields, Zenon
    <2>6. benchSes' = [benchSes EXCEPT ![r.ses] = [benchSes[r.ses] EXCEPT !.backend = w]]
      BY <2>1
    <2>7. WorkersSound' /\ DOMAIN benchSes' = DOMAIN benchSes
      BY <1>b, <2>1, <2>3, <2>5, <2>6, Zenon
    <2>8. \A s \in DOMAIN benchSes : s # r.ses => benchSes'[s] = benchSes[s]
      BY <2>6, <2>7
    <2>9. benchSes'[r.ses].backend = w /\ benchSes'[r.ses].aborting = benchSes[r.ses].aborting
      BY <1>c, <1>d, <2>5, <2>6 DEF BenchSessions
    <2>10. benchWork'[w] = q /\ \A v \in Workers : v # w => benchWork'[v] = benchWork[v]
      BY <1>0, <2>1
    <2>11. q.ses = r.ses /\ q.pc = "ready" /\ (benchSes[r.ses].aborting => q.aborted # "no")
      BY <1>r, <2>1, <2>p DEF Becomes, Bench!HearsAbort, Bench!Session
    <2>12. ASSUME NEW s \in DOMAIN benchSes', benchSes'[s].backend # 0
           PROVE  LET b == benchSes'[s].backend IN
                  /\ benchWork'[b].ses = s /\ benchWork'[b].pc \in Live
                  /\ benchSes'[s].aborting => benchWork'[b].aborted # "no"
      <3>1. CASE s = r.ses
        BY <2>9, <2>10, <2>11, <3>1 DEF Live
      <3>2. CASE s # r.ses
        <4> DEFINE b == benchSes[s].backend
        <4>1. benchSes'[s] = benchSes[s] /\ s \in DOMAIN benchSes /\ b # 0
          BY <2>7, <2>8, <2>12, <3>2
        <4>2. /\ benchWork[b].ses = s /\ benchWork[b].pc \in Live
              /\ benchSes[s].aborting => benchWork[b].aborted # "no"
          BY <1>i, <4>1 DEF Reached
        <4>3. b # w
          BY <1>r, <2>1, <4>2 DEF Live
        <4>4. b \in Workers
          <5>1. benchSes[s] \in BenchSessions
            BY <1>0, <4>1
          <5> QED
            BY <4>1, <5>1 DEF BenchSessions
        <4> QED
          BY <2>10, <4>1, <4>2, <4>3, <4>4
      <3> QED
        BY <3>1, <3>2
    <2>13. Reached'
      BY <2>12 DEF Reached
    <2>14. Turning'
      BY <1>i, <2>1, <2>3, <2>4, SafeMoves, <1>r, Zenon
    <2> QED
      BY <2>7, <2>13, <2>14 DEF BenchInv
  <1>7. CASE Bench!Ready(w)
    <2>1. PICK q :
            /\ r.pc = "ready" /\ benchOpen /\ benchOpen' /\ benchWork' = [benchWork EXCEPT ![w] = q]
            /\ UNCHANGED <<benchSes, benchCur>>
            /\ UNCHANGED <<benchMotor, benchWarned>>
            /\ \/ q = [r EXCEPT !.pc = "finally", !.ok = FALSE]
               \/ q = [r EXCEPT !.pc = "spin", !.safe = TRUE]
      BY <1>7, <1>r, Zenon DEF Bench!Ready, Bench!device
    <2>p. q = [r EXCEPT !.pc = "finally", !.ok = FALSE]
          => Becomes(q, r.ses, "finally", r.safe, r.aborted, r.late)
      BY <1>f DEF Becomes, WorkerFields
    <2>q. q = [r EXCEPT !.pc = "spin", !.safe = TRUE]
          => Becomes(q, r.ses, "spin", TRUE, r.aborted, r.late)
      BY <1>f DEF Becomes, WorkerFields
    <2>3. Sound(q) /\ StaysLive(r, q) /\ StaysSafe(r, q)
      BY <1>s, <2>1, <2>p, <2>q DEF Sound, Becomes, StaysLive, StaysSafe, Live, Driving
    <2>4. MotorKept(q) /\ benchOpen' = benchOpen
      BY <2>1 DEF MotorKept
    <2>5. WorkersSound' /\ SessionsKept
      BY <1>a, <2>1, <2>3, Zenon
    <2> QED
      BY <1>g, <2>1, <2>3, <2>4, <2>5, Zenon
  <1>8. CASE Bench!SetThrottle(w)
    <2>0. PICK level \in Bench!Levels :
            /\ r.pc = "drive" /\ benchOpen /\ benchOpen' /\ UNCHANGED <<benchSes, benchCur>>
            /\ UNCHANGED <<benchMotor, benchWarned>>
            /\ IF level = r.throttle THEN benchWork' = [benchWork EXCEPT ![w] = [r EXCEPT !.pc = "spin"]]
               ELSE IF benchTransport = "dronecan"
               THEN benchWork' = [benchWork EXCEPT ![w] = [r EXCEPT !.pc = "send", !.throttle = level]]
               ELSE \E found \in Bench!Telemetry(w) :
                    benchWork' = [benchWork EXCEPT ![w] = [r EXCEPT !.aborted = found,
                                   !.throttle = IF found = "no" THEN level ELSE 0,
                                   !.pc = IF found = "no" THEN "send" ELSE "spin"]]
      BY <1>8, <1>r, Zenon DEF Bench!SetThrottle, Bench!device
    <2>1. PICK found, q :
            /\ r.pc = "drive" /\ benchOpen /\ benchOpen' /\ benchWork' = [benchWork EXCEPT ![w] = q]
            /\ UNCHANGED <<benchSes, benchCur>>
            /\ UNCHANGED <<benchMotor, benchWarned>>
            /\ \/ q = [r EXCEPT !.pc = "spin"]
               \/ q = [r EXCEPT !.pc = "send", !.throttle = level]
               \/ /\ q = [r EXCEPT !.aborted = found, !.throttle = IF found = "no" THEN level ELSE 0,
                                 !.pc = IF found = "no" THEN "send" ELSE "spin"]
                  /\ found \in Bench!Telemetry(w)
      BY <2>0, Zenon
    <2>a. found \in Bench!Telemetry(w) /\ r.aborted # "no" => found = r.aborted
      BY <1>r DEF Bench!Telemetry
    <2>p. q = [r EXCEPT !.pc = "spin"]
          => Becomes(q, r.ses, "spin", r.safe, r.aborted, r.late)
      BY <1>f DEF Becomes, WorkerFields
    <2>q. q = [r EXCEPT !.pc = "send", !.throttle = level]
          => Becomes(q, r.ses, "send", r.safe, r.aborted, r.late)
      BY <1>f DEF Becomes, WorkerFields
    <2>s. q = [r EXCEPT !.aborted = found, !.throttle = IF found = "no" THEN level ELSE 0,
                   !.pc = IF found = "no" THEN "send" ELSE "spin"]
          => Becomes(q, r.ses, IF found = "no" THEN "send" ELSE "spin", r.safe, found, r.late)
      BY <1>f DEF Becomes, WorkerFields
    <2>3. Sound(q) /\ StaysLive(r, q) /\ StaysSafe(r, q)
      BY <1>s, <2>1, <2>p, <2>q, <2>s, <2>a DEF Sound, Becomes, StaysLive, StaysSafe, Live, Driving
    <2>4. MotorKept(q) /\ benchOpen' = benchOpen
      BY <2>1 DEF MotorKept
    <2>5. WorkersSound' /\ SessionsKept
      BY <1>a, <2>1, <2>3, Zenon
    <2> QED
      BY <1>g, <2>1, <2>3, <2>4, <2>5, Zenon
  <1>9. CASE Bench!ProfileEnds(w)
    <2>1. PICK q :
            /\ r.pc = "drive" /\ benchOpen /\ benchOpen' /\ benchWork' = [benchWork EXCEPT ![w] = q]
            /\ UNCHANGED <<benchSes, benchCur>>
            /\ UNCHANGED <<benchMotor, benchWarned>>
            /\ q = [r EXCEPT !.pc = "finally"]
      BY <1>9, <1>r, Zenon DEF Bench!ProfileEnds, Bench!device
    <2>p. q = [r EXCEPT !.pc = "finally"]
          => Becomes(q, r.ses, "finally", r.safe, r.aborted, r.late)
      BY <1>f DEF Becomes, WorkerFields
    <2>3. Sound(q) /\ StaysLive(r, q) /\ StaysSafe(r, q)
      BY <1>s, <2>1, <2>p DEF Sound, Becomes, StaysLive, StaysSafe, Live, Driving
    <2>4. MotorKept(q) /\ benchOpen' = benchOpen
      BY <2>1 DEF MotorKept
    <2>5. WorkersSound' /\ SessionsKept
      BY <1>a, <2>1, <2>3, Zenon
    <2> QED
      BY <1>g, <2>1, <2>3, <2>4, <2>5, Zenon
  <1>10. CASE Bench!Send(w)
    <2>1. PICK l, q :
            /\ r.pc = "send" /\ benchOpen /\ benchOpen' /\ benchWork' = [benchWork EXCEPT ![w] = q]
            /\ UNCHANGED <<benchSes, benchCur>>
            /\ \/ /\ q = [r EXCEPT !.pc = "spin", !.late = l]
                  /\ l \in {r.late, IF r.aborted # "no" THEN r.late + 1 ELSE r.late}
               \/ /\ q = [r EXCEPT !.pc = "finally", !.ok = FALSE]
                  /\ UNCHANGED <<benchMotor, benchWarned>>
      BY <1>10, <1>r, Zenon DEF Bench!Send, Bench!device, Bench!LinkFails
    <2>p. q = [r EXCEPT !.pc = "spin", !.late = l]
          => Becomes(q, r.ses, "spin", r.safe, r.aborted, l)
      BY <1>f DEF Becomes, WorkerFields
    <2>q. q = [r EXCEPT !.pc = "finally", !.ok = FALSE]
          => Becomes(q, r.ses, "finally", r.safe, r.aborted, r.late)
      BY <1>f DEF Becomes, WorkerFields
    <2>3. Sound(q) /\ StaysLive(r, q) /\ StaysSafe(r, q)
      BY <1>s, <2>1, <2>p, <2>q DEF Sound, Becomes, StaysLive, StaysSafe, Live, Driving
    <2>4. MotorKept(q) /\ benchOpen' = benchOpen
      BY <2>1, <2>3, <2>p, <2>q DEF MotorKept, Becomes, Sound
    <2>5. WorkersSound' /\ SessionsKept
      BY <1>a, <2>1, <2>3, Zenon
    <2> QED
      BY <1>g, <2>1, <2>3, <2>4, <2>5, Zenon
  <1>11. CASE Bench!Spin(w)
    <2>1. PICK t, q :
            /\ r.pc = "spin" /\ benchOpen /\ benchOpen' /\ benchWork' = [benchWork EXCEPT ![w] = q]
            /\ UNCHANGED <<benchSes, benchCur>>
            /\ \/ q = [r EXCEPT !.pc = "poll", !.throttle = t]
               \/ /\ q = [r EXCEPT !.pc = "finally", !.ok = FALSE]
                  /\ UNCHANGED <<benchMotor, benchWarned>>
      BY <1>11, <1>r, Zenon DEF Bench!Spin, Bench!device, Bench!LinkFails
    <2>p. q = [r EXCEPT !.pc = "poll", !.throttle = t]
          => Becomes(q, r.ses, "poll", r.safe, r.aborted, r.late)
      BY <1>f DEF Becomes, WorkerFields
    <2>q. q = [r EXCEPT !.pc = "finally", !.ok = FALSE]
          => Becomes(q, r.ses, "finally", r.safe, r.aborted, r.late)
      BY <1>f DEF Becomes, WorkerFields
    <2>3. Sound(q) /\ StaysLive(r, q) /\ StaysSafe(r, q)
      BY <1>s, <2>1, <2>p, <2>q DEF Sound, Becomes, StaysLive, StaysSafe, Live, Driving
    <2>4. MotorKept(q) /\ benchOpen' = benchOpen
      BY <2>1, <2>3, <2>p, <2>q DEF MotorKept, Becomes, Sound
    <2>5. WorkersSound' /\ SessionsKept
      BY <1>a, <2>1, <2>3, Zenon
    <2> QED
      BY <1>g, <2>1, <2>3, <2>4, <2>5, Zenon
  <1>12. CASE Bench!Poll(w)
    <2>1. PICK found, q :
            /\ r.pc = "poll" /\ benchOpen /\ benchOpen' /\ benchWork' = [benchWork EXCEPT ![w] = q]
            /\ UNCHANGED <<benchSes, benchCur>>
            /\ UNCHANGED <<benchMotor, benchWarned>>
            /\ \/ /\ q = [r EXCEPT !.pc = "finally", !.aborted = found, !.ok = FALSE]
                  /\ found \in Bench!Telemetry(w) \ {"no"}
               \/ /\ q = [r EXCEPT !.pc = "spin"]
                  /\ "no" \in Bench!Telemetry(w)
               \/ /\ q = [r EXCEPT !.pc = "drive"]
                  /\ "no" \in Bench!Telemetry(w)
      BY <1>12, <1>r, Zenon DEF Bench!Poll, Bench!device
    <2>c. "no" \in Bench!Telemetry(w) => r.aborted = "no"
      BY <1>r DEF Bench!Telemetry
    <2>a. found \in Bench!Telemetry(w) /\ r.aborted # "no" => found = r.aborted
      BY <1>r DEF Bench!Telemetry
    <2>p. q = [r EXCEPT !.pc = "finally", !.aborted = found, !.ok = FALSE]
          => Becomes(q, r.ses, "finally", r.safe, found, r.late)
      BY <1>f DEF Becomes, WorkerFields
    <2>q. q = [r EXCEPT !.pc = "spin"]
          => Becomes(q, r.ses, "spin", r.safe, r.aborted, r.late)
      BY <1>f DEF Becomes, WorkerFields
    <2>s. q = [r EXCEPT !.pc = "drive"]
          => Becomes(q, r.ses, "drive", r.safe, r.aborted, r.late)
      BY <1>f DEF Becomes, WorkerFields
    <2>3. Sound(q) /\ StaysLive(r, q) /\ StaysSafe(r, q)
      BY <1>s, <2>1, <2>p, <2>q, <2>s, <2>a, <2>c DEF Sound, Becomes, StaysLive, StaysSafe, Live, Driving
    <2>4. MotorKept(q) /\ benchOpen' = benchOpen
      BY <2>1 DEF MotorKept
    <2>5. WorkersSound' /\ SessionsKept
      BY <1>a, <2>1, <2>3, Zenon
    <2> QED
      BY <1>g, <2>1, <2>3, <2>4, <2>5, Zenon
  <1>13. CASE Bench!Finally(w)
    <2>1. PICK q :
            /\ r.pc = "finally" /\ benchOpen /\ benchOpen' /\ benchWork' = [benchWork EXCEPT ![w] = q]
            /\ UNCHANGED benchCur /\ benchSes' = [benchSes EXCEPT ![r.ses] = [@ EXCEPT !.backend = 0]]
            /\ UNCHANGED <<benchMotor, benchWarned>>
            /\ q = [r EXCEPT !.pc = "wind", !.aborted = "no", !.throttle = 0]
      BY <1>13, <1>r, Zenon DEF Bench!Finally, Bench!device
    <2>p. q = [r EXCEPT !.pc = "wind", !.aborted = "no", !.throttle = 0]
          => Becomes(q, r.ses, "wind", r.safe, "no", r.late)
      BY <1>f DEF Becomes, WorkerFields
    <2>3. Sound(q) /\ StaysSafe(r, q)
      BY <1>s, <2>1, <2>p DEF Sound, Becomes, StaysLive, StaysSafe, Live, Driving
    <2>4. MotorKept(q) /\ benchOpen' = benchOpen
      BY <2>1 DEF MotorKept
    <2>5. [benchSes[r.ses] EXCEPT !.backend = 0] \in BenchSessions /\ r.pc # "none"
      BY <1>c, <2>1, SessionFields, Zenon
    <2>6. benchSes' = [benchSes EXCEPT ![r.ses] = [benchSes[r.ses] EXCEPT !.backend = 0]]
      BY <2>1
    <2>7. WorkersSound' /\ DOMAIN benchSes' = DOMAIN benchSes
      BY <1>b, <2>1, <2>3, <2>5, <2>6, Zenon
    <2>8. \A s \in DOMAIN benchSes : s # r.ses => benchSes'[s] = benchSes[s]
      BY <2>6, <2>7
    <2>9. benchSes'[r.ses].backend = 0
      BY <1>c, <1>d, <2>5, <2>6 DEF BenchSessions
    <2>10. \A v \in Workers : v # w => benchWork'[v] = benchWork[v]
      BY <1>0, <2>1
    <2>12. ASSUME NEW s \in DOMAIN benchSes', benchSes'[s].backend # 0
           PROVE  LET b == benchSes'[s].backend IN
                  /\ benchWork'[b].ses = s /\ benchWork'[b].pc \in Live
                  /\ benchSes'[s].aborting => benchWork'[b].aborted # "no"
      <3> DEFINE b == benchSes[s].backend
      <3>1. benchSes'[s] = benchSes[s] /\ s \in DOMAIN benchSes /\ b # 0 /\ s # r.ses
        BY <2>7, <2>8, <2>9, <2>12
      <3>2. /\ benchWork[b].ses = s /\ benchWork[b].pc \in Live
            /\ benchSes[s].aborting => benchWork[b].aborted # "no"
        BY <1>i, <3>1 DEF Reached
      <3>3. b # w
        BY <1>r, <3>1, <3>2
      <3>4. b \in Workers
        <4>1. benchSes[s] \in BenchSessions
          BY <1>0, <3>1
        <4> QED
          BY <3>1, <4>1 DEF BenchSessions
      <3> QED
        BY <2>10, <3>1, <3>2, <3>3, <3>4
    <2>13. Reached'
      BY <2>12 DEF Reached
    <2>14. Turning'
      BY <1>i, <2>1, <2>3, <2>4, SafeMoves, <1>r, Zenon
    <2> QED
      BY <2>7, <2>13, <2>14 DEF BenchInv
  <1>14. CASE Bench!WindDown(w)
    <2>1. PICK q :
            /\ r.pc = "wind" /\ benchOpen /\ benchOpen' /\ benchWork' = [benchWork EXCEPT ![w] = q]
            /\ UNCHANGED <<benchSes, benchCur>>
            /\ benchMotor' = 0 \/ benchWarned' \/ (~r.safe /\ UNCHANGED <<benchMotor, benchWarned>>)
            /\ q = [r EXCEPT !.pc = "closed"]
      BY <1>14, <1>r, Zenon DEF Bench!WindDown, Bench!device, Bench!Gives
    <2>p. q = [r EXCEPT !.pc = "closed"]
          => Becomes(q, r.ses, "closed", r.safe, r.aborted, r.late)
      BY <1>f DEF Becomes, WorkerFields
    <2>3. Sound(q) /\ StaysLive(r, q)
      BY <1>s, <2>1, <2>p DEF Sound, Becomes, StaysLive, StaysSafe, Live, Driving
    <2>5. WorkersSound' /\ SessionsKept
      BY <1>a, <2>1, <2>3, Zenon
    <2>6. Reached'
      BY <1>i, <1>r, <2>1, <2>3, <2>5, LiveMoves, Zenon
    <2>7. ASSUME benchMotor' = 0 \/ benchWarned' PROVE Turning'
      BY <2>7 DEF Turning
    <2>8. ASSUME ~r.safe, UNCHANGED <<benchMotor, benchWarned>> PROVE Turning'
      <3>1. \A v \in Workers : v # w => benchWork'[v] = benchWork[v]
        BY <1>0, <2>1
      <3> QED
        BY <1>i, <1>r, <2>1, <2>8, <3>1, Zenon DEF Turning
    <2>9. Turning'
      BY <2>1, <2>7, <2>8, Zenon
    <2> QED
      BY <2>5, <2>6, <2>9 DEF BenchInv
  <1>15. CASE Bench!StepEnds(w)
    <2>1. PICK k, o, q :
            /\ r.pc = "closed" /\ benchOpen /\ benchOpen' /\ benchWork' = [benchWork EXCEPT ![w] = q]
            /\ UNCHANGED <<benchSes, benchCur>>
            /\ UNCHANGED <<benchMotor, benchWarned>>
            /\ \/ q = [r EXCEPT !.pc = "step", !.keys = k, !.made = FALSE, !.ses = benchCur]
               \/ q = [r EXCEPT !.pc = "done", !.ok = o]
      BY <1>15, <1>r, Zenon DEF Bench!StepEnds, Bench!device
    <2>a. benchCur \in DOMAIN benchSes
      BY <1>0, <1>d, <2>1
    <2>p. q = [r EXCEPT !.pc = "step", !.keys = k, !.made = FALSE, !.ses = benchCur]
          => Becomes(q, benchCur, "step", r.safe, r.aborted, r.late)
      BY <1>f DEF Becomes, WorkerFields
    <2>q. q = [r EXCEPT !.pc = "done", !.ok = o]
          => Becomes(q, r.ses, "done", r.safe, r.aborted, r.late)
      BY <1>f DEF Becomes, WorkerFields
    <2>3. Sound(q) /\ StaysLive(r, q) /\ StaysSafe(r, q)
      BY <1>s, <2>1, <2>p, <2>q, <2>a DEF Sound, Becomes, StaysLive, StaysSafe, Live, Driving
    <2>4. MotorKept(q) /\ benchOpen' = benchOpen
      BY <2>1 DEF MotorKept
    <2>5. WorkersSound' /\ SessionsKept
      BY <1>a, <2>1, <2>3, Zenon
    <2> QED
      BY <1>g, <2>1, <2>3, <2>4, <2>5, Zenon
  <1> QED
    BY <1>1, <1>2, <1>3, <1>4, <1>5, <1>6, <1>7, <1>8, <1>9, <1>10, <1>11, <1>12, <1>13, <1>14, <1>15
    DEF Bench!Works, Bench!BfChecked, Bench!CanChecked, Bench!BfReady, Bench!CanReady

\* A worker begins: in a session that there is, and nothing is left of its last capture.
LEMMA BeginSound ==
    ASSUME NEW w \in Workers, NEW pc \in {"connect", "step"}, NEW keys, WorkersSound,
           Bench!Begin(w, pc, keys), benchCur' \in DOMAIN benchSes', benchOpen' = benchOpen,
           UNCHANGED <<benchMotor, benchWarned>>
    PROVE  \E q : /\ benchWork' = [benchWork EXCEPT ![w] = q] /\ Sound(q)' /\ q.ses = benchCur'
                  /\ StaysLive(benchWork[w], q) /\ StaysSafe(benchWork[w], q) /\ MotorKept(q)
  <1> DEFINE q == [Bench!Idle EXCEPT !.pc = pc, !.keys = keys, !.ses = benchCur', !.ok = TRUE]
  <1>1. benchWork[w].pc = "none" /\ benchWork' = [benchWork EXCEPT ![w] = q]
    BY DEF Bench!Begin, Bench!Set
  <1>2. /\ DOMAIN q = WorkerFields /\ q.pc = pc /\ q.ses = benchCur' /\ q.aborted = "no"
        /\ q.late = 0
    BY DEF Bench!Idle, WorkerFields
  <1> HIDE DEF q
  <1>3. PICK r : r = q
    OBVIOUS
  <1>4. Sound(r)'
    BY <1>2, <1>3 DEF Sound
  <1>5. StaysLive(benchWork[w], r) /\ StaysSafe(benchWork[w], r) /\ MotorKept(r)
    BY <1>1 DEF StaysLive, StaysSafe, Live, Driving, MotorKept
  <1>6. benchWork' = [benchWork EXCEPT ![w] = r] /\ r.ses = benchCur'
    BY <1>1, <1>2, <1>3
  <1> QED
    BY <1>4, <1>5, <1>6, Zenon

\* Whatever the user does, too.
LEMMA ConnectKeepsBench ==
    ASSUME NEW w \in Workers, BenchInv, Bench!DoConnect(w)
    PROVE  BenchInv'
  <1>0. /\ WorkersSound /\ Reached /\ Turning /\ benchSes \in Seq(BenchSessions)
        /\ benchCur = Len(benchSes) /\ Len(benchSes) \in Nat
    BY DEF BenchInv, WorkersSound
  <1>1. /\ benchCur' = Len(benchSes) + 1 /\ Bench!Begin(w, "connect", 0)
        /\ benchSes' = [s \in 1..benchCur' |-> IF s = benchCur' THEN Bench!Fresh ELSE benchSes[s]]
        /\ benchOpen' = benchOpen /\ UNCHANGED <<benchMotor, benchWarned>>
    BY DEF Bench!DoConnect, Bench!device
  <1>2. Bench!Fresh \in BenchSessions /\ Bench!Fresh.backend = 0
    BY DEF Bench!Fresh, BenchSessions
  <1>3. \A s \in 1..benchCur' : benchSes'[s] \in BenchSessions
    BY <1>0, <1>1, <1>2
  <1>4. /\ benchSes' \in Seq(BenchSessions) /\ benchCur' = Len(benchSes')
        /\ DOMAIN benchSes' = 1..benchCur' /\ DOMAIN benchSes = 1..Len(benchSes)
        /\ benchCur' \in DOMAIN benchSes' /\ DOMAIN benchSes \subseteq DOMAIN benchSes'
    <2>1. benchCur' \in Nat /\ DOMAIN benchSes' = 1..benchCur'
      BY <1>0, <1>1
    <2>2. benchSes' \in [1..benchCur' -> BenchSessions]
      BY <1>1, <1>3
    <2>3. benchSes' \in Seq(BenchSessions) /\ Len(benchSes') = benchCur'
      BY <2>1, <2>2
    <2>4. DOMAIN benchSes = 1..Len(benchSes) /\ DOMAIN benchSes \subseteq DOMAIN benchSes'
      BY <1>0, <1>1, <2>1
    <2> QED
      BY <1>0, <1>1, <2>1, <2>3, <2>4
  <1>5. PICK q : /\ benchWork' = [benchWork EXCEPT ![w] = q] /\ Sound(q)' /\ q.ses = benchCur'
                 /\ StaysLive(benchWork[w], q) /\ StaysSafe(benchWork[w], q) /\ MotorKept(q)
    BY <1>0, <1>1, <1>4, BeginSound
  <1>6. WorkersSound'
    BY <1>0, <1>4, <1>5, SoundMoves, Zenon
  <1>7. Turning'
    BY <1>0, <1>1, <1>5, SafeMoves, Zenon
  <1>8. ASSUME NEW s \in DOMAIN benchSes', benchSes'[s].backend # 0
        PROVE  LET b == benchSes'[s].backend IN
               /\ benchWork'[b].ses = s /\ benchWork'[b].pc \in Live
               /\ benchSes'[s].aborting => benchWork'[b].aborted # "no"
    <2> DEFINE b == benchSes[s].backend
    <2>1. s \in DOMAIN benchSes /\ benchSes'[s] = benchSes[s] /\ b # 0
      BY <1>0, <1>1, <1>2, <1>4, <1>8
    <2>2. /\ benchWork[b].ses = s /\ benchWork[b].pc \in Live
          /\ benchSes[s].aborting => benchWork[b].aborted # "no"
      BY <1>0, <2>1 DEF Reached
    <2>3. b # w
      BY <1>1, <2>2 DEF Bench!Begin, Live
    <2>4. benchSes[s] \in BenchSessions
      BY <1>0, <2>1
    <2>5. b \in Workers
      BY <2>1, <2>4 DEF BenchSessions
    <2>6. benchWork'[b] = benchWork[b]
      BY <1>0, <1>5, <2>3, <2>5 DEF WorkersSound
    <2> QED
      BY <2>1, <2>2, <2>6
  <1>9. Reached'
    BY <1>8 DEF Reached
  <1> QED
    BY <1>6, <1>7, <1>9 DEF BenchInv

LEMMA RunKeepsBench ==
    ASSUME NEW w \in Workers, BenchInv, Bench!DoRun(w)
    PROVE  BenchInv'
  <1>0. /\ WorkersSound /\ Reached /\ Turning /\ benchSes \in Seq(BenchSessions)
        /\ benchCur = Len(benchSes) /\ Len(benchSes) \in Nat
    BY DEF BenchInv, WorkersSound
  <1>1. PICK keys \in 1..2 :
           /\ benchCur' = benchCur /\ benchCur # 0 /\ Bench!Begin(w, "step", keys)
           /\ benchSes' = [benchSes EXCEPT ![benchCur] = [benchSes[benchCur] EXCEPT !.aborting = FALSE]]
           /\ benchOpen' = benchOpen /\ UNCHANGED <<benchMotor, benchWarned>>
    BY Zenon DEF Bench!DoRun, Bench!device
  <1>2. benchCur \in DOMAIN benchSes /\ benchSes[benchCur] \in BenchSessions
    BY <1>0, <1>1
  <1>3. [benchSes[benchCur] EXCEPT !.aborting = FALSE] \in BenchSessions
    BY <1>2, SessionFields, Zenon
  <1>4. /\ benchSes' \in Seq(BenchSessions) /\ benchCur' = Len(benchSes')
        /\ DOMAIN benchSes' = DOMAIN benchSes /\ benchCur' \in DOMAIN benchSes'
        /\ DOMAIN benchSes \subseteq DOMAIN benchSes'
    BY <1>0, <1>1, <1>2, <1>3
  <1>5. PICK q : /\ benchWork' = [benchWork EXCEPT ![w] = q] /\ Sound(q)' /\ q.ses = benchCur'
                 /\ StaysLive(benchWork[w], q) /\ StaysSafe(benchWork[w], q) /\ MotorKept(q)
    BY <1>0, <1>1, <1>4, BeginSound
  <1>6. WorkersSound'
    BY <1>0, <1>4, <1>5, SoundMoves, Zenon
  <1>7. Turning'
    BY <1>0, <1>1, <1>5, SafeMoves, Zenon
  <1>8. SessionsKept
    BY <1>1, <1>2, <1>4 DEF SessionsKept, BenchSessions
  <1>9. Reached'
    BY <1>0, <1>5, <1>8, LiveMoves, Zenon
  <1> QED
    BY <1>6, <1>7, <1>9 DEF BenchInv

LEMMA AbortKeepsBench ==
    ASSUME BenchInv, Bench!DoAbort
    PROVE  BenchInv'
  <1>0. /\ WorkersSound /\ Reached /\ Turning /\ benchSes \in Seq(BenchSessions)
        /\ benchCur = Len(benchSes) /\ Len(benchSes) \in Nat /\ DOMAIN benchWork = Workers
    BY DEF BenchInv, WorkersSound
  <1> DEFINE b == benchSes[benchCur].backend
  <1>1. /\ benchCur # 0 /\ benchCur' = benchCur /\ benchOpen' = benchOpen
        /\ benchWork' = IF b = 0 THEN benchWork ELSE [benchWork EXCEPT ![b].aborted = "user"]
        /\ benchSes' = [benchSes EXCEPT ![benchCur] = [benchSes[benchCur] EXCEPT !.aborting = TRUE]]
        /\ UNCHANGED <<benchMotor, benchWarned>>
    BY DEF Bench!DoAbort, Bench!device
  <1>2. benchCur \in DOMAIN benchSes /\ benchSes[benchCur] \in BenchSessions
    BY <1>0, <1>1
  <1>3. [benchSes[benchCur] EXCEPT !.aborting = TRUE] \in BenchSessions
    BY <1>2, SessionFields, Zenon
  <1>4. /\ benchSes' \in Seq(BenchSessions) /\ benchCur' = Len(benchSes')
        /\ DOMAIN benchSes' = DOMAIN benchSes
    BY <1>0, <1>1, <1>2, <1>3
  <1>5. b \in Workers \cup {0}
    BY <1>2 DEF BenchSessions
  <1>6. \A s \in DOMAIN benchSes : /\ benchSes'[s].backend = benchSes[s].backend
                                   /\ s # benchCur => benchSes'[s] = benchSes[s]
    BY <1>1, <1>2, <1>4 DEF BenchSessions
  <1>7. \A v \in Workers :
           /\ DOMAIN benchWork'[v] = WorkerFields
           /\ benchWork'[v].ses = benchWork[v].ses /\ benchWork'[v].pc = benchWork[v].pc
           /\ benchWork'[v].safe = benchWork[v].safe /\ benchWork'[v].late = benchWork[v].late
           /\ benchWork[v].aborted # "no" => benchWork'[v].aborted # "no"
           /\ v = b => benchWork'[v].aborted # "no"
           /\ v # b => benchWork'[v].aborted = benchWork[v].aborted
    <2> TAKE v \in Workers
    <2>1. DOMAIN benchWork[v] = WorkerFields /\ b \in Workers \cup {0}
      BY <1>0, <1>5 DEF WorkersSound, Sound
    <2> HIDE DEF b
    <2>2. CASE v # b \/ b = 0
      <3>1. benchWork'[v] = benchWork[v]
        BY <1>0, <1>1, <2>1, <2>2
      <3>2. v # b
        BY <2>2, PanelAssumption
      <3> QED
        BY <2>1, <3>1, <3>2
    <2>3. CASE v = b /\ b # 0
      <3>1. benchWork'[v] = [benchWork[v] EXCEPT !.aborted = "user"]
        BY <1>0, <1>1, <2>1, <2>3
      <3> QED
        BY <2>1, <2>3, <3>1 DEF WorkerFields
    <2> QED
      BY <2>2, <2>3
  <1>8. b # 0 => benchWork[b].pc \in Live
    BY <1>0, <1>2 DEF Reached
  <1>9. WorkersSound'
    <2>1. ASSUME NEW v \in Workers PROVE Sound(benchWork[v])'
      <3>1. Sound(benchWork[v])
        BY <1>0 DEF WorkersSound
      <3>2. v = b => benchWork[v].pc \in Live
        BY <1>8, PanelAssumption
      <3> HIDE DEF b
      <3> QED
        BY <1>4, <1>7, <3>1, <3>2 DEF Sound, Live
    <2>2. DOMAIN benchWork' = Workers
      BY <1>0, <1>1
    <2> QED
      BY <1>4, <2>1, <2>2 DEF WorkersSound
  <1>10. Reached'
    <2> SUFFICES ASSUME NEW s \in DOMAIN benchSes', benchSes'[s].backend # 0
                 PROVE  LET c == benchSes'[s].backend IN
                        /\ benchWork'[c].ses = s /\ benchWork'[c].pc \in Live
                        /\ benchSes'[s].aborting => benchWork'[c].aborted # "no"
      BY DEF Reached
    <2> DEFINE c == benchSes[s].backend
    <2>1. s \in DOMAIN benchSes /\ benchSes'[s].backend = c /\ c # 0
      BY <1>4, <1>6
    <2>2. /\ benchWork[c].ses = s /\ benchWork[c].pc \in Live
          /\ benchSes[s].aborting => benchWork[c].aborted # "no"
      BY <1>0, <2>1 DEF Reached
    <2>3. c \in Workers
      <3>1. benchSes[s] \in BenchSessions
        BY <1>0, <2>1
      <3> QED
        BY <2>1, <3>1 DEF BenchSessions
    <2>4. s = benchCur => c = b
      OBVIOUS
    <2> HIDE DEF b, c
    <2>5. CASE s = benchCur
      BY <1>7, <2>1, <2>2, <2>3, <2>4, <2>5
    <2>6. CASE s # benchCur
      BY <1>6, <1>7, <2>1, <2>2, <2>3, <2>6
    <2> QED
      BY <2>5, <2>6
  <1>11. Turning'
    <2>1. \A v \in Workers : benchWork[v].pc \in Driving /\ benchWork[v].safe
                             => benchWork'[v].pc \in Driving /\ benchWork'[v].safe
      BY <1>7
    <2> QED
      BY <1>0, <1>1, <2>1, Zenon DEF Turning
  <1> QED
    BY <1>9, <1>10, <1>11 DEF BenchInv


\* Who else moves leaves the bench as it is.
LEMMA BenchStands ==
    ASSUME BenchInv,
           UNCHANGED <<benchSes, benchCur, benchWork, benchOpen, benchMotor, benchWarned>>
    PROVE  BenchInv'
  <1>1. WorkersSound'
    BY DEF BenchInv, WorkersSound, Sound
  <1>2. Reached' /\ Turning'
    BY DEF BenchInv, Reached, Turning
  <1> QED
    BY <1>1, <1>2 DEF BenchInv

\* A step that is done, a fit, the window's end.
LEMMA StepDoneKeepsBench ==
    ASSUME BenchInv, Bench!StepDone
    PROVE  BenchInv'
  <1>0. /\ WorkersSound /\ Reached /\ Turning /\ benchSes \in Seq(BenchSessions)
        /\ benchCur = Len(benchSes)
    BY DEF BenchInv, WorkersSound
  <1>1. /\ benchSes' = benchSes /\ benchCur' = benchCur /\ benchOpen' = benchOpen
        /\ UNCHANGED <<benchMotor, benchWarned>>
    BY DEF Bench!StepDone, Bench!device
  <1>2. CASE benchWork' = benchWork
    BY <1>0, <1>1, <1>2, BenchStands
  <1>3. CASE \E w \in Workers : Bench!At(w, "done") /\ Bench!Set(w, Bench!Idle)
    <2>1. PICK w \in Workers : /\ benchWork[w].pc = "done"
                               /\ benchWork' = [benchWork EXCEPT ![w] = Bench!Idle]
      BY <1>3 DEF Bench!At, Bench!Set
    <2>2. PICK q : q = Bench!Idle
      OBVIOUS
    <2>3. DOMAIN q = WorkerFields /\ q.pc = "none" /\ q.aborted = "no" /\ q.late = 0
      BY <2>2 DEF Bench!Idle, WorkerFields
    <2>4. Sound(q)'
      BY <2>3 DEF Sound
    <2>5. StaysLive(benchWork[w], q) /\ StaysSafe(benchWork[w], q) /\ MotorKept(q)
      BY <1>1, <2>1 DEF StaysLive, StaysSafe, Live, Driving, MotorKept
    <2>6. SessionsKept /\ DOMAIN benchSes \subseteq DOMAIN benchSes'
      BY <1>1 DEF SessionsKept
    <2>7. WorkersSound'
      BY <1>0, <1>1, <2>1, <2>2, <2>4, <2>6, SoundMoves, Zenon
    <2>8. Reached' /\ Turning'
      BY <1>0, <1>1, <2>1, <2>2, <2>5, <2>6, LiveMoves, SafeMoves, Zenon
    <2> QED
      BY <2>7, <2>8 DEF BenchInv
  <1> QED
    BY <1>2, <1>3 DEF Bench!StepDone

LEMMA CloseKeepsBench ==
    ASSUME BenchInv, Bench!Close
    PROVE  BenchInv'
  <1>1. /\ UNCHANGED <<benchSes, benchCur, benchWork>> /\ benchOpen' = FALSE
    BY DEF Bench!Close
  <1>2. WorkersSound' /\ Reached'
    BY <1>1, Zenon DEF BenchInv, WorkersSound, Reached, Sound
  <1> QED
    BY <1>1, <1>2 DEF BenchInv, Turning

LEMMA BenchStart == ASSUME Bench!Init PROVE BenchInv
  <1>1. /\ benchSes = <<>> /\ benchCur = 0 /\ benchMotor = 0
        /\ benchWork = [w \in Workers |-> Bench!Idle]
    BY DEF Bench!Init
  <1>2. Sound(Bench!Idle)
    BY DEF Sound, Bench!Idle, WorkerFields
  <1>3. WorkersSound
    <2>1. benchSes \in Seq(BenchSessions) /\ benchCur = Len(benchSes)
      BY <1>1
    <2> QED
      BY <1>1, <1>2, <2>1, Zenon DEF WorkersSound
  <1>4. Reached /\ Turning
    BY <1>1 DEF Reached, Turning
  <1> QED
    BY <1>3, <1>4 DEF BenchInv

LEMMA BenchHolds == BenchInv => Bench!AbortHeard /\ Bench!AbortStops /\ Bench!MotorStopped
  <1> SUFFICES ASSUME BenchInv PROVE Bench!AbortHeard /\ Bench!AbortStops /\ Bench!MotorStopped
    OBVIOUS
  <1>0. WorkersSound /\ Reached /\ Turning
    BY DEF BenchInv
  <1>1. \A w \in Workers : Sound(benchWork[w])
    BY <1>0 DEF WorkersSound
  <1>2. \A w \in Workers : benchWork[w].pc \in {"wind", "closed"} => benchWork[w].aborted = "no"
    BY <1>1 DEF Sound
  <1>3. ASSUME NEW w \in Workers, Bench!Drives(w), Bench!Session(w).backend = w,
               Bench!Session(w).aborting
        PROVE  benchWork[w].aborted # "no"
    <2>1. benchWork[w].ses \in DOMAIN benchSes
      BY <1>1, <1>3 DEF Sound, Bench!Drives
    <2>2. w # 0
      BY PanelAssumption
    <2> QED
      BY <1>0, <1>3, <2>1, <2>2 DEF Reached, Bench!Session
  <1>4. Bench!AbortHeard
    BY <1>2, <1>3 DEF Bench!AbortHeard
  <1>5. Bench!AbortStops
    BY <1>1 DEF Bench!AbortStops, Sound
  <1>6. Bench!MotorStopped
    BY <1>0 DEF Turning, Driving, Bench!MotorStopped, Bench!Drives
  <1> QED
    BY <1>4, <1>5, <1>6

LEMMA BenchKeeps == BenchInv /\ [Bench!Next]_(Bench!vars) => BenchInv'
  <1> SUFFICES ASSUME BenchInv, [Bench!Next]_(Bench!vars) PROVE BenchInv'
    OBVIOUS
  <1>1. CASE \E w \in Workers : Bench!DoConnect(w) \/ Bench!DoRun(w) \/ Bench!Works(w)
    BY <1>1, ConnectKeepsBench, RunKeepsBench, WorkerKeepsBench, Zenon
  <1>2. CASE Bench!DoAbort \/ Bench!StepDone \/ Bench!Close
    BY <1>2, AbortKeepsBench, StepDoneKeepsBench, CloseKeepsBench
  <1>3. CASE Bench!DoFit \/ UNCHANGED Bench!vars
    <2>1. UNCHANGED <<benchSes, benchCur, benchWork, benchOpen, benchMotor, benchWarned>>
      BY <1>3 DEF Bench!DoFit, Bench!vars, Bench!device
    <2> QED
      BY <2>1, BenchStands
  <1> QED
    BY <1>1, <1>2, <1>3 DEF Bench!Next
------------------------------------------------------------------------------
(* The simulation's benchmark.                                                *)

\* What a benchmark does is what BenchRecipe says.
LEMMA RecipeBehaves == Spec => Recipe!Init /\ [][Recipe!Next]_(Recipe!vars)
  <1>1. Init => Recipe!Init
    BY DEF Init
  <1>2. [Next]_vars => [Recipe!Next]_(Recipe!vars)
    BY DEF Next, ThrottleSteps, SimulatorSteps, UsbSteps, StreamSteps, BenchSteps,
           LogSteps, ClockSteps, EepromSteps, BootSteps, FlashSteps, WiringSteps,
           ReplaySteps, ParamsSteps, CanSteps, TonesSteps, AudioSteps, HexSteps,
           ModelsSteps, RecipeSteps, VhciSteps, ServerSteps, vars, recipeVars,
           Recipe!vars
  <1> QED
    BY <1>1, <1>2, PTL DEF Spec

\* What is armed, and when, is told by the newest sample; a stage that waits for the fine
\* pace does not end before it has settled.
Benchmarks == [active : BOOLEAN, completed : BOOLEAN, stage : DOMAIN Stages,
               deadline : Nat, fine : BOOLEAN]
Samples == [time : Nat, full : BOOLEAN, none : BOOLEAN]
Arms == [at : Nat, fine : BOOLEAN, pace : Nat, full : BOOLEAN]
RecipeTypes ==
    /\ recipeBench \in Benchmarks /\ recipeSample \in Samples /\ recipeArmed \in Seq(Arms)
    /\ recipeClock \in Nat /\ recipePace \in Nat
PaceSettles ==
    recipeBench.active /\ recipeBench.fine => recipeBench.deadline >= recipePace + Settle
RecipeInv ==
    /\ RecipeTypes /\ PaceSettles
    /\ Recipe!RecipeKept /\ Recipe!EndsQuiet /\ Recipe!CaptureSettled

\* The fields of a stage, of a benchmark and of a sample.
LEMMA StageFields ==
    ASSUME NEW k \in DOMAIN Stages
    PROVE  /\ Stages[k].throttle \in Nat /\ Stages[k].seconds \in Nat
           /\ Stages[k].load \in Nat /\ Stages[k].capture \in BOOLEAN
  <1>1. Stages[k] \in StageKinds
    BY PanelAssumption
  <1> QED
    BY <1>1 DEF StageKinds

LEMMA BenchmarkFields ==
    ASSUME NEW b \in Benchmarks
    PROVE  /\ b.active \in BOOLEAN /\ b.completed \in BOOLEAN /\ b.stage \in DOMAIN Stages
           /\ b.deadline \in Nat /\ b.fine \in BOOLEAN
           /\ \A c \in BOOLEAN : /\ [b EXCEPT !.completed = c] \in Benchmarks
                                 /\ [b EXCEPT !.active = FALSE, !.completed = c] \in Benchmarks
           /\ \A d \in Nat : [b EXCEPT !.fine = TRUE, !.deadline = d] \in Benchmarks
           /\ \A k \in DOMAIN Stages, d \in Nat :
                 [b EXCEPT !.stage = k, !.deadline = d] \in Benchmarks
  <1>1. /\ b.active \in BOOLEAN /\ b.completed \in BOOLEAN /\ b.stage \in DOMAIN Stages
        /\ b.deadline \in Nat /\ b.fine \in BOOLEAN
    BY DEF Benchmarks
  <1>2. \A c \in BOOLEAN : /\ [b EXCEPT !.completed = c] \in Benchmarks
                           /\ [b EXCEPT !.active = FALSE, !.completed = c] \in Benchmarks
    BY Zenon DEF Benchmarks
  <1>3. \A d \in Nat : [b EXCEPT !.fine = TRUE, !.deadline = d] \in Benchmarks
    BY Zenon DEF Benchmarks
  <1>4. \A k \in DOMAIN Stages, d \in Nat : [b EXCEPT !.stage = k, !.deadline = d] \in Benchmarks
    BY Zenon DEF Benchmarks
  <1> QED
    BY <1>1, <1>2, <1>3, <1>4

LEMMA SampleFields ==
    /\ \A t \in Nat, f \in BOOLEAN : Recipe!Arrived(t, f) \in Samples
    /\ Recipe!Nothing \in Samples
    /\ \A x \in Samples : x.time \in Nat /\ x.full \in BOOLEAN
  BY DEF Samples, Recipe!Arrived, Recipe!Nothing

\* The time of the simulation passes, and it comes and goes, without the benchmark.
LEMMA SimulationAlone ==
    ASSUME RecipeInv,
           \/ Recipe!Simulate \/ Recipe!StartsOver \/ Recipe!Dies \/ Recipe!Relaunch
           \/ UNCHANGED Recipe!vars
    PROVE  RecipeInv'
  <1>1. /\ UNCHANGED <<recipeBench, recipeThrottle, recipeEnabled, recipeLoad, recipeArmed,
                      recipePace, recipeManual>>
        /\ recipeClock' \in {recipeClock, recipeClock + 1, 0}
        /\ \/ recipeSample' = recipeSample
           \/ \E full \in BOOLEAN : recipeSample' = Recipe!Arrived(recipeClock', full)
    BY DEF Recipe!Simulate, Recipe!StartsOver, Recipe!Dies, Recipe!Relaunch, Recipe!vars
  <1>2. recipeClock' \in Nat
    BY <1>1 DEF RecipeInv, RecipeTypes
  <1>3. recipeSample' \in Samples
    BY <1>1, <1>2, SampleFields, Zenon DEF RecipeInv, RecipeTypes
  <1> QED
    BY <1>1, <1>2, <1>3 DEF RecipeInv, RecipeTypes, PaceSettles, Recipe!RecipeKept,
                            Recipe!EndsQuiet, Recipe!CaptureSettled

\* A benchmark starts, and with its first stage.
LEMMA RecipeStarts ==
    ASSUME RecipeInv, Recipe!StartFails \/ Recipe!StartBench
    PROVE  RecipeInv'
  <1>1. CASE Recipe!StartFails
    <2>1. /\ recipeBench' = [recipeBench EXCEPT !.completed = FALSE] /\ ~recipeBench.active
          /\ recipeThrottle' = 0 /\ UNCHANGED <<recipeClock, recipeArmed, recipePace>>
          /\ recipeSample' \in {recipeSample, Recipe!Nothing}
      BY <1>1 DEF Recipe!StartFails, Recipe!Prepared
    <2>2. recipeBench' \in Benchmarks /\ recipeSample' \in Samples
      BY <2>1, SampleFields, BenchmarkFields, Zenon DEF RecipeInv, RecipeTypes
    <2>3. RecipeTypes'
      BY <2>1, <2>2 DEF RecipeInv, RecipeTypes
    <2>4. ~recipeBench'.active
      BY <2>1 DEF RecipeInv, RecipeTypes, Benchmarks
    <2> QED
      BY <2>1, <2>3, <2>4 DEF RecipeInv, PaceSettles, Recipe!RecipeKept, Recipe!EndsQuiet,
                              Recipe!CaptureSettled
  <1>2. CASE Recipe!StartBench
    <2>1. /\ recipeBench' = [active |-> TRUE, completed |-> FALSE, stage |-> 1,
                             deadline |-> Stages[1].seconds, fine |-> FALSE]
          /\ recipeThrottle' = 0 /\ recipeEnabled' = TRUE /\ recipeClock' = 0
          /\ recipeLoad' = Stages[1].load /\ UNCHANGED <<recipeArmed, recipePace>>
          /\ recipeSample' \in {recipeSample, Recipe!Nothing}
      BY <1>2 DEF Recipe!StartBench, Recipe!Prepared
    <2>2. 1 \in DOMAIN Stages /\ Stages[1].seconds \in Nat /\ Stages[1].throttle = 0
      <3>1. 1 \in DOMAIN Stages /\ Stages[1].throttle = 0
        BY PanelAssumption
      <3> QED
        BY <3>1, StageFields
    <2>3. RecipeTypes'
      <3>1. recipeBench' \in Benchmarks
        BY <2>1, <2>2 DEF Benchmarks
      <3>2. recipeSample' \in Samples
        BY <2>1, SampleFields DEF RecipeInv, RecipeTypes
      <3> QED
        BY <2>1, <3>1, <3>2 DEF RecipeInv, RecipeTypes
    <2>4. Recipe!RecipeKept'
      BY <2>1, <2>2 DEF Recipe!RecipeKept
    <2> QED
      BY <2>1, <2>3, <2>4 DEF RecipeInv, PaceSettles, Recipe!EndsQuiet, Recipe!CaptureSettled
  <1> QED
    BY <1>1, <1>2

\* A benchmark ends, of itself or because the user wants the motor.
LEMMA RecipeEnds ==
    ASSUME RecipeInv,
           \/ Recipe!StopBench \/ Recipe!Override \/ Recipe!GivesUp \/ Recipe!Completes
           \/ Recipe!NotFull
    PROVE  RecipeInv'
  <1>1. /\ UNCHANGED <<recipeClock, recipeSample, recipeArmed, recipePace>>
        /\ recipeThrottle' = 0 \/ recipeManual' = TRUE
    BY DEF Recipe!StopBench, Recipe!Override, Recipe!GivesUp, Recipe!Completes,
           Recipe!NotFull, Recipe!Fails, Recipe!Due, Recipe!machine
  <1>2. \/ \E c \in BOOLEAN : recipeBench' = Recipe!Ended(c)
        \/ recipeBench' = recipeBench /\ ~recipeBench.active
    BY DEF Recipe!StopBench, Recipe!Override, Recipe!GivesUp, Recipe!Completes,
           Recipe!NotFull, Recipe!Fails
  <1>3. ~recipeBench'.active /\ RecipeTypes'
    <2>1. CASE \E c \in BOOLEAN : recipeBench' = Recipe!Ended(c)
      <3>1. PICK c \in BOOLEAN :
               recipeBench' = [recipeBench EXCEPT !.active = FALSE, !.completed = c]
        BY <2>1 DEF Recipe!Ended
      <3>2. recipeBench \in Benchmarks
        BY DEF RecipeInv, RecipeTypes
      <3>3. recipeBench' \in Benchmarks
        BY <3>1, <3>2, BenchmarkFields, Zenon
      <3>4. ~recipeBench'.active
        BY <3>1, <3>2 DEF Benchmarks
      <3> QED
        BY <1>1, <3>3, <3>4 DEF RecipeInv, RecipeTypes
    <2>2. CASE recipeBench' = recipeBench /\ ~recipeBench.active
      BY <1>1, <2>2 DEF RecipeInv, RecipeTypes
    <2> QED
      BY <1>2, <2>1, <2>2
  <1> QED
    BY <1>1, <1>3 DEF RecipeInv, PaceSettles, Recipe!RecipeKept, Recipe!EndsQuiet,
                      Recipe!CaptureSettled

\* The fine pace is asked for, and waited for.
LEMMA RecipeSettles ==
    ASSUME RecipeInv, Recipe!Settles
    PROVE  RecipeInv'
  <1>1. /\ recipeBench' = [recipeBench EXCEPT !.fine = TRUE,
                                              !.deadline = recipeSample.time + Settle]
        /\ recipePace' = recipeSample.time /\ recipeSample.time \in Nat /\ Settle \in Nat
        /\ UNCHANGED <<recipeThrottle, recipeEnabled, recipeLoad, recipeArmed, recipeManual,
                       recipeClock, recipeSample>>
    <2>1. recipeSample.time \in Nat /\ Settle \in Nat
      BY PanelAssumption, SampleFields DEF RecipeInv, RecipeTypes
    <2> QED
      BY <2>1 DEF Recipe!Settles, Recipe!Due, Recipe!machine
  <1>2. RecipeTypes' /\ PaceSettles'
    <2>1. recipeSample.time + Settle \in Nat
      BY <1>1
    <2>2. recipeBench' \in Benchmarks
      BY <1>1, <2>1, BenchmarkFields, Zenon DEF RecipeInv, RecipeTypes
    <2>3. recipeBench'.deadline = recipeSample.time + Settle
      BY <1>1 DEF RecipeInv, RecipeTypes, Benchmarks
    <2> QED
      BY <1>1, <2>2, <2>3 DEF RecipeInv, RecipeTypes, PaceSettles
  <1>3. /\ recipeBench'.stage = recipeBench.stage /\ recipeBench'.active = recipeBench.active
    BY <1>1 DEF RecipeInv, RecipeTypes, Benchmarks
  <1> QED
    BY <1>1, <1>2, <1>3 DEF RecipeInv, Recipe!RecipeKept, Recipe!EndsQuiet, Recipe!CaptureSettled

\* The next stage: what is captured in it is armed now.
LEMMA RecipeAdvances ==
    ASSUME RecipeInv, Recipe!Advance
    PROVE  RecipeInv'
  <1> DEFINE next == recipeBench.stage + 1
  <1>1. /\ recipeBench.active /\ recipeBench.stage \in DOMAIN Stages
        /\ recipeBench.stage < Len(Stages) /\ recipeSample.time >= recipeBench.deadline
        /\ UNCHANGED <<recipeClock, recipeSample, recipePace, recipeEnabled, recipeManual>>
    <2>1. recipeBench.stage \in DOMAIN Stages
      BY BenchmarkFields, Zenon DEF RecipeInv, RecipeTypes
    <2> QED
      BY <2>1 DEF Recipe!Advance, Recipe!Due, Recipe!machine
  <1>2. /\ next \in DOMAIN Stages /\ Stages[next].throttle \in Nat
        /\ Stages[next].seconds \in Nat /\ Stages[next].load \in Nat
    <2>1. next \in DOMAIN Stages
      BY <1>1, PanelAssumption
    <2> HIDE DEF next
    <2> QED
      BY <2>1, StageFields
  <1>3. /\ recipeBench' = [recipeBench EXCEPT !.stage = next,
                              !.deadline = recipeSample.time + Stages[next].seconds]
        /\ recipeThrottle' = Stages[next].throttle
        /\ recipeLoad' = IF Stages[next].load = 0 THEN recipeLoad ELSE Stages[next].load
    BY DEF Recipe!Advance, Recipe!Coming
  <1>4. /\ recipeBench'.active /\ recipeBench'.stage = next
        /\ recipeBench'.deadline = recipeSample.time + Stages[next].seconds
        /\ recipeBench'.fine = recipeBench.fine /\ recipeSample.time \in Nat
        /\ recipeBench.deadline \in Nat /\ recipePace \in Nat /\ Settle \in Nat
    BY <1>1, <1>3, PanelAssumption DEF RecipeInv, RecipeTypes, Benchmarks, Samples
  <1>5. \/ recipeArmed' = recipeArmed
        \/ /\ recipeArmed' = Append(recipeArmed, [at |-> recipeSample.time, fine |-> TRUE,
                                        pace |-> recipePace, full |-> recipeSample.full])
           /\ recipeBench.fine /\ (FullDuty => recipeSample.full)
    BY DEF RecipeInv, RecipeTypes, Recipe!Advance, Recipe!Coming, Recipe!Short
  <1>6. PaceSettles'
    BY <1>1, <1>2, <1>4 DEF RecipeInv, PaceSettles
  <1>7. RecipeTypes'
    <2>1. recipeArmed' \in Seq(Arms)
      <3>1. [at |-> recipeSample.time, fine |-> TRUE, pace |-> recipePace,
             full |-> recipeSample.full] \in Arms
        BY <1>4, SampleFields DEF RecipeInv, RecipeTypes, Arms
      <3> QED
        BY <1>5, <3>1 DEF RecipeInv, RecipeTypes
    <2>2. recipeBench' \in Benchmarks
      <3>1. recipeSample.time + Stages[next].seconds \in Nat
        BY <1>2, <1>4
      <3> HIDE DEF next
      <3> QED
        BY <1>2, <1>3, <3>1, BenchmarkFields, Zenon DEF RecipeInv, RecipeTypes
    <2> QED
      BY <1>1, <2>1, <2>2 DEF RecipeInv, RecipeTypes
  <1>8. Recipe!CaptureSettled'
    <2>1. CASE recipeArmed' = recipeArmed
      BY <2>1 DEF RecipeInv, Recipe!CaptureSettled
    <2>2. CASE recipeArmed' # recipeArmed
      <3> DEFINE new == [at |-> recipeSample.time, fine |-> TRUE, pace |-> recipePace,
                         full |-> recipeSample.full]
      <3>1. /\ recipeArmed' = Append(recipeArmed, new) /\ (FullDuty => new.full)
            /\ recipeBench.fine
        BY <1>5, <2>2
      <3>2. new.fine /\ new.at >= new.pace + Settle
        BY <1>1, <1>4, <3>1 DEF RecipeInv, PaceSettles
      <3>3. ASSUME NEW i \in DOMAIN recipeArmed'
            PROVE  recipeArmed'[i] = new \/ (i \in DOMAIN recipeArmed /\ recipeArmed'[i] = recipeArmed[i])
        <4>1. recipeArmed \in Seq(Arms)
          BY DEF RecipeInv, RecipeTypes
        <4> HIDE DEF new
        <4> QED
          BY <3>1, <3>3, <4>1
      <3> QED
        BY <3>1, <3>2, <3>3, Zenon DEF RecipeInv, Recipe!CaptureSettled
    <2> QED
      BY <2>1, <2>2
  <1>9. Recipe!RecipeKept'
    <2>1. PICK k \in 1..recipeBench.stage :
             /\ recipeLoad = Stages[k].load /\ (k > 1 => recipeLoad > 0)
             /\ \A later \in k + 1..recipeBench.stage : Stages[later].load = 0
      BY <1>1 DEF RecipeInv, Recipe!RecipeKept
    <2>2. recipeEnabled'
      BY <1>1 DEF RecipeInv, Recipe!RecipeKept
    <2>3. \E j \in 1..next :
             /\ recipeLoad' = Stages[j].load /\ (j > 1 => recipeLoad' > 0)
             /\ \A later \in j + 1..next : Stages[later].load = 0
      <3>1. CASE Stages[next].load = 0
        <4>1. /\ k \in 1..next /\ recipeLoad' = Stages[k].load /\ (k > 1 => recipeLoad' > 0)
              /\ \A later \in k + 1..next : Stages[later].load = 0
          BY <1>1, <1>3, <2>1, <3>1
        <4> QED
          BY <4>1
      <3>2. CASE Stages[next].load # 0
        <4>1. /\ next \in 1..next /\ recipeLoad' = Stages[next].load /\ recipeLoad' > 0
              /\ \A later \in next + 1..next : Stages[later].load = 0
          BY <1>1, <1>2, <1>3, <3>2
        <4> QED
          BY <4>1
      <3> QED
        BY <3>1, <3>2
    <2> HIDE DEF next
    <2> QED
      BY <1>3, <1>4, <2>2, <2>3 DEF Recipe!RecipeKept
  <1>10. Recipe!EndsQuiet'
    BY <1>4 DEF Recipe!EndsQuiet
  <1> QED
    BY <1>6, <1>7, <1>8, <1>9, <1>10 DEF RecipeInv

LEMMA RecipeHolds == Spec => []RecipeInv
  <1>1. Recipe!Init => RecipeInv
    <2> SUFFICES ASSUME Recipe!Init PROVE RecipeInv
      OBVIOUS
    <2>1. 1 \in DOMAIN Stages
      BY PanelAssumption
    <2>2. /\ recipeBench \in Benchmarks /\ ~recipeBench.active /\ recipeThrottle = 0
          /\ recipeArmed = <<>>
      BY <2>1 DEF Recipe!Init, Benchmarks
    <2>3. RecipeTypes
      <3>1. recipeSample \in Samples
        BY SampleFields DEF Recipe!Init
      <3>2. recipeClock = 0 /\ recipePace = 0
        BY DEF Recipe!Init
      <3> QED
        BY <2>2, <3>1, <3>2 DEF RecipeTypes
    <2> QED
      BY <2>2, <2>3 DEF RecipeInv, PaceSettles, Recipe!RecipeKept, Recipe!EndsQuiet,
                        Recipe!CaptureSettled
  <1>2. RecipeInv /\ [Recipe!Next]_(Recipe!vars) => RecipeInv'
    BY SimulationAlone, RecipeStarts, RecipeEnds, RecipeSettles, RecipeAdvances, Zenon
       DEF Recipe!Next
  <1> QED
    BY <1>1, <1>2, RecipeBehaves, PTL

LEMMA BenchInvHolds == Spec => []BenchInv
  BY BenchStart, BenchKeeps, BenchBehaves, PTL

\* Whatever the worker threads, the user and the links do, a capture of a real motor that
\* its session can reach has heard an abort, sends no more after it than the command on
\* its way, and leaves the motor stopped or the user warned (capture_session.py, abort and
\* run_step); and a benchmark of any recipe commands its stages while it runs, arms at the
\* settled pace, and ends at zero (sitl_gui.py, update_bench and stop_bench).
THEOREM BenchIsSafe == Spec => []BenchSafe
  <1>1. BenchInv /\ RecipeInv => BenchSafe
    BY BenchHolds DEF BenchSafe, RecipeInv
  <1> QED
    BY <1>1, BenchInvHolds, RecipeHolds, PTL
------------------------------------------------------------------------------
(* What a clock and a flash keep.                                             *)

\* A clock, a boot plan and a flight controller's flash do what their modules say.
LEMMA KeepersBehave ==
    Spec => /\ Clock!Init /\ [][Clock!Next]_(Clock!vars)
            /\ Boot!Init /\ [][Boot!Next]_(Boot!vars)
            /\ Flash!Init /\ [][Flash!Next]_(Flash!vars)
  <1>1. Init => Clock!Init /\ Boot!Init /\ Flash!Init
    BY SMTT(30) DEF Init
  <1>2. [Next]_vars => /\ [Clock!Next]_(Clock!vars)
                       /\ [Boot!Next]_(Boot!vars) /\ [Flash!Next]_(Flash!vars)
    BY DEF Next, ThrottleSteps, SimulatorSteps, UsbSteps, StreamSteps, BenchSteps,
           LogSteps, ClockSteps, EepromSteps, BootSteps, FlashSteps, WiringSteps,
           ReplaySteps, ParamsSteps, CanSteps, TonesSteps, AudioSteps, HexSteps,
           ModelsSteps, RecipeSteps, VhciSteps, ServerSteps, vars, clockVars, bootVars,
           flashVars, Clock!vars, Boot!vars, Flash!vars
  <1> QED
    BY <1>1, <1>2, PTL DEF Spec

\* What was shown is not ahead of the clock unless a rebase overtook its call, wherever a
\* restart is joined on; nor is what a call under way has read.
Times == 0..ClockTime
ClockInv ==
    /\ clockSim.t \in Times /\ DOMAIN clockSim = {"life", "t", "told"}
    /\ clockNet \in Seq(Times)
    /\ clockT \in 0..ClockTime + 1 /\ clockT0 \in Int
    /\ clockShown \in Int /\ clockSeen \in Int
    /\ clockPc = "wait" => clockShown = 0 /\ clockT0 = ClockTime + 1
    /\ clockPc \in {"run", "now"} => clockT # ClockTime + 1 /\ clockT0 <= ClockTime
    /\ clockPc # "now" => ~clockRebased
    /\ clockPc = "run" /\ ~clockResetSeen => clockAhead \/ clockShown <= clockT - clockT0
    /\ clockPc = "now" =>
          /\ clockAhead \/ clockShown <= clockSeen - clockT0
          /\ clockRebased \/ clockResetSeen \/ clockSeen <= clockT
          /\ clockArmed => ~clockRebased

\* Time passes, and reaches the clock.
LEMMA ClockTicks ==
    ASSUME ClockInv, Clock!Runs \/ Clock!Restarts \/ Clock!Subscribes \/ Clock!Reader
    PROVE  ClockInv' /\ UNCHANGED <<clockShown, clockAhead>>
  <1>0. ClockTime \in Nat
    BY PanelAssumption
  <1>1. CASE Clock!Runs \/ Clock!Restarts \/ Clock!Subscribes
    <2>2. UNCHANGED <<clockT, clockT0, clockResetSeen, clockArmed, clockPc, clockSeen,
                      clockShown, clockRebased, clockAhead>>
      BY <1>1 DEF Clock!Runs, Clock!Restarts, Clock!Subscribes, Clock!clock, Clock!tool
    <2>3. clockSim'.t \in Times /\ DOMAIN clockSim' = {"life", "t", "told"}
      BY <1>0, <1>1 DEF Times, ClockInv, Clock!Runs, Clock!Restarts, Clock!Subscribes
    <2>4. clockNet' = clockNet \/ clockNet' = Append(clockNet, clockSim'.t)
      BY <1>1 DEF Clock!Runs, Clock!Restarts, Clock!Subscribes
    <2>5. clockNet' \in Seq(Times)
      BY <2>3, <2>4 DEF ClockInv
    <2> QED
      BY <2>2, <2>3, <2>5 DEF ClockInv
  <1>2. CASE Clock!Reader
    <2> DEFINE s == Head(clockNet)
               joins == Clock!Back(s) /\ ~clockArmed /\ clockT0 # ClockTime + 1
    <2>1. s \in Times /\ clockNet' \in Seq(Times)
      BY <1>2 DEF Clock!Reader, ClockInv
    <2> HIDE DEF s
    <2>2. /\ clockT' = s /\ UNCHANGED <<clockSim, clockArmed, clockPc, clockSeen, clockShown, clockAhead>>
          /\ clockResetSeen \/ (Clock!Back(s) /\ clockArmed) <=> clockResetSeen' = TRUE
          /\ clockT0' = IF joins THEN s - (clockT - clockT0) ELSE clockT0
          /\ clockRebased \/ (joins /\ clockPc = "now") <=> clockRebased' = TRUE
      BY <1>2, Zenon DEF Clock!Reader, Clock!NoTime, Clock!Rebased, Clock!tool, s
    <2>3. s \in Int /\ clockT \in Int /\ clockT0 \in Int /\ clockShown \in Int /\ clockSeen \in Int
      BY <2>1, <1>0 DEF ClockInv, Times
    <2>4. clockT' \in 0..ClockTime + 1 /\ clockT' # ClockTime + 1 /\ clockT0' \in Int
      BY <1>0, <2>1, <2>2, <2>3 DEF Times
    <2>5. clockPc = "wait" => clockT0' = ClockTime + 1
      BY <2>2 DEF ClockInv
    <2>6. ASSUME clockPc \in {"run", "now"}
          PROVE  \/ joins /\ clockT0' = s - (clockT - clockT0) /\ s < clockT
                 \/ clockT0' = clockT0 /\ s >= clockT
                 \/ clockT0' = clockT0 /\ clockArmed /\ clockResetSeen'
      <3>1. clockT # ClockTime + 1 /\ clockT0 <= ClockTime
        BY <2>6 DEF ClockInv
      <3> QED
        BY <1>0, <2>2, <2>3, <3>1 DEF Clock!Back, Clock!NoTime
    <2> HIDE DEF joins
    <2>7. clockPc \in {"run", "now"} => clockT0' <= ClockTime
      BY <1>0, <2>3, <2>6 DEF ClockInv
    <2>8. clockPc = "run" /\ ~clockResetSeen' => clockAhead \/ clockShown <= clockT' - clockT0'
      BY <2>2, <2>3, <2>6 DEF ClockInv
    <2>9. clockPc = "now" => clockAhead \/ clockShown <= clockSeen - clockT0'
      BY <2>3, <2>6 DEF ClockInv
    <2>10. clockPc = "now" => clockRebased' \/ clockResetSeen' \/ clockSeen <= clockT'
      BY <2>2, <2>3, <2>6 DEF ClockInv
    <2>11. (clockPc = "now" /\ clockArmed => ~clockRebased') /\ (clockPc # "now" => ~clockRebased')
      BY <2>2 DEF ClockInv, joins
    <2> QED
      BY <2>1, <2>2, <2>4, <2>5, <2>7, <2>8, <2>9, <2>10, <2>11 DEF ClockInv
  <1> QED
    BY <1>1, <1>2

\* The tool begins, arms, and asks for the time.
LEMMA ClockRuns ==
    ASSUME ClockInv, [Clock!Next]_(Clock!vars)
    PROVE  /\ ClockInv' /\ (clockShown' < clockShown => clockAhead)
           /\ clockArmed /\ Clock!NowReturns => ~clockAhead'
  <1>0. ClockTime \in Nat
    BY PanelAssumption
  <1>1. clockShown \in Int
    BY DEF ClockInv
  <1>2. CASE Clock!Runs \/ Clock!Restarts \/ Clock!Subscribes \/ Clock!Reader
    <2>1. ClockInv' /\ UNCHANGED <<clockShown, clockAhead>>
      BY <1>2, ClockTicks
    <2>2. ~Clock!NowReturns \/ (clockArmed => ~clockAhead')
      BY DEF ClockInv, Clock!NowReturns
    <2> QED
      BY <1>1, <2>1, <2>2
  <1>3. CASE Clock!Starts \/ Clock!Arm \/ Clock!NowReads
    BY <1>0, <1>1, <1>3 DEF ClockInv, Clock!Starts, Clock!Arm, Clock!NowReads, Clock!NowReturns,
                            Clock!NoTime, Clock!clock, Clock!tool
  <1>4. CASE Clock!NowReturns
    <2>1. /\ clockPc = "now" /\ clockPc' = "run" /\ clockShown' = clockSeen - clockT0
          /\ clockSeen' = ClockTime + 1 /\ clockAhead' = clockRebased /\ clockRebased' = FALSE
          /\ UNCHANGED <<clockSim, clockNet, clockT, clockT0, clockResetSeen, clockArmed>>
      BY <1>4 DEF Clock!NowReturns, Clock!NoTime, Clock!clock
    <2>2. /\ clockSeen \in Int /\ clockT \in Int /\ clockT0 \in Int
          /\ clockSeen' \in Int /\ clockShown' \in Int
      BY <1>0, <2>1 DEF ClockInv
    <2>3. clockAhead \/ clockShown <= clockShown'
      BY <2>1 DEF ClockInv
    <2>4. ~clockResetSeen => clockAhead' \/ clockShown' <= clockT' - clockT0'
      BY <2>1, <2>2 DEF ClockInv
    <2>5. clockArmed => ~clockAhead'
      BY <2>1 DEF ClockInv
    <2>6. ClockInv'
      BY <2>1, <2>2, <2>4 DEF ClockInv
    <2> QED
      BY <1>1, <2>2, <2>3, <2>5, <2>6
  <1>5. CASE UNCHANGED Clock!vars
    BY <1>1, <1>5 DEF ClockInv, Clock!vars, Clock!NowReturns
  <1> QED
    BY <1>2, <1>3, <1>4, <1>5 DEF Clock!Next

LEMMA ClockKeeps == Spec => Clock!ClockContinues
  <1>1. Clock!Init => ClockInv
    BY PanelAssumption DEF Clock!Init, ClockInv, Times, Clock!NoTime
  <1>2. ClockInv /\ [Clock!Next]_(Clock!vars)
          => /\ ClockInv' /\ [clockShown' < clockShown => clockAhead]_(Clock!vars)
             /\ [clockArmed /\ Clock!NowReturns => ~clockAhead']_(Clock!vars)
    BY ClockRuns
  <1> QED
    BY <1>1, <1>2, KeepersBehave, PTL DEF Clock!ClockContinues

\* A flash, in its file and in a machine, has a code, patches and settings.
FlashInv ==
    \A f \in {flashFile, flashMem} : DOMAIN f = {"code", "patch", "saved", "torn"}

LEMMA FlashStays ==
    ASSUME FlashInv, [Flash!Next]_(Flash!vars)
    PROVE  FlashInv'
  <1>0. /\ DOMAIN flashFile = {"code", "patch", "saved", "torn"}
        /\ DOMAIN flashMem = {"code", "patch", "saved", "torn"}
    BY DEF FlashInv
  <1>1. \/ flashFile' = flashFile \/ flashFile' = flashMem
        \/ DOMAIN flashFile' = {"code", "patch", "saved", "torn"}
    <2>1. ASSUME NEW n \in Firmwares, NEW m \in {"flash", "dfu"},
                 NEW s \in Flash!Builds \cup {Flash!Nowhere}, Flash!Start(n, m, s)
          PROVE  \/ flashFile' = flashFile
                 \/ DOMAIN flashFile' = {"code", "patch", "saved", "torn"}
      BY <2>1 DEF Flash!Start, Flash!select_firmware
    <2>2. ASSUME NEW b, NEW e, NEW s, Flash!DfuDownload(b, e, s)
          PROVE  DOMAIN flashFile' = {"code", "patch", "saved", "torn"}
      BY <2>2 DEF Flash!DfuDownload
    <2>3. ASSUME NEW s, NEW t, Flash!Stop(s, t)
          PROVE  \/ flashFile' = flashFile
                 \/ DOMAIN flashFile' = {"code", "patch", "saved", "torn"}
      BY <1>0, <2>3 DEF Flash!Stop
    <2>4. CASE \/ Flash!DfuManifest \/ Flash!Boot \/ Flash!Write \/ Flash!Run
               \/ Flash!SaveSettings \/ Flash!Save \/ UNCHANGED Flash!vars
               \/ \E n \in Firmwares : Flash!Download(n)
      BY <2>4 DEF Flash!Download, Flash!DfuManifest, Flash!Boot, Flash!Write, Flash!Run,
                  Flash!SaveSettings, Flash!Save, Flash!vars
    <2> QED
      BY <2>1, <2>2, <2>3, <2>4, Zenon DEF Flash!Next
  <1>2. \/ flashMem' = flashMem \/ flashMem' = flashFile
        \/ DOMAIN flashMem' = {"code", "patch", "saved", "torn"}
    <2>1. CASE Flash!Write \/ Flash!SaveSettings
      BY <1>0, <2>1, Zenon DEF Flash!Write, Flash!SaveSettings
    <2>2. CASE ~(Flash!Write \/ Flash!SaveSettings)
      BY <2>2, Zenon DEF Flash!Next, Flash!Start, Flash!Download, Flash!DfuDownload,
         Flash!DfuManifest, Flash!Boot, Flash!Run, Flash!Save, Flash!Stop, Flash!vars
    <2> QED
      BY <2>1, <2>2
  <1> QED
    BY <1>0, <1>1, <1>2 DEF FlashInv

\* The firmware that is there, whole and patched in whole or not, is not written again.
LEMMA SettingsStay ==
    ASSUME FlashInv, Flash!Next, flashStarts' # flashStarts, flashMode' = "flash",
           flashFile.code = flashSelected', ~flashFile.torn,
           \A p \in Flash!Patches : flashFile.patch[p] \in Flash!Whole
    PROVE  flashFile'.saved = flashFile.saved
  <1>1. PICK n \in Firmwares, m \in {"flash", "dfu"}, s \in Flash!Builds \cup {Flash!Nowhere} :
           Flash!Start(n, m, s)
    BY Zenon DEF Flash!Next, Flash!Download, Flash!DfuDownload, Flash!DfuManifest, Flash!Boot,
       Flash!Write, Flash!Run, Flash!SaveSettings, Flash!Save, Flash!Stop
  <1>2. /\ m = "flash" /\ flashFile.code = Flash!Image(n)
        /\ flashFile' = Flash!select_firmware(flashFile, Flash!Image(n))
    BY <1>1 DEF Flash!Start
  <1>3. Flash!Restored(flashFile) = [flashFile EXCEPT !.patch = Flash!Unpatched]
    BY DEF Flash!Restored
  <1>4. /\ Flash!Restored(flashFile).code = flashFile.code
        /\ Flash!Restored(flashFile).patch = Flash!Unpatched
    BY <1>3 DEF FlashInv
  <1>5. Flash!Matches(Flash!Restored(flashFile), Flash!Image(n))
    BY <1>2, <1>4 DEF Flash!Matches, Flash!Unpatched
  <1> QED
    BY <1>2, <1>5 DEF Flash!select_firmware

LEMMA FlashKeeps == Spec => Flash!SettingsKept
  <1>1. Flash!Init => FlashInv
    BY DEF Flash!Init, FlashInv, Flash!Blank
  <1>2. FlashInv /\ [Flash!Next]_(Flash!vars) => FlashInv'
    BY FlashStays
  <1>3. ASSUME FlashInv, [Flash!Next]_(Flash!vars)
        PROVE  [(flashStarts' # flashStarts /\ flashMode' = "flash"
                    /\ flashFile.code = flashSelected' /\ ~flashFile.torn
                    /\ \A p \in Flash!Patches : flashFile.patch[p] \in Flash!Whole)
                  => flashFile'.saved = flashFile.saved]_(Flash!vars)
    BY <1>3, SettingsStay, Zenon
  <1> QED
    BY <1>1, <1>2, <1>3, KeepersBehave, PTL DEF Flash!SettingsKept

\* A reset of a v203 loads an ELF again: what it would load is there, since the script
\* ends with what that depends on - the last four commands, from the end.
BootKept(o) == o.family = "v203" /\ o.firmware # "bin"
LastOf(o) ==
    <<Boot!Do("start"),
      [Boot!Do("macro") EXCEPT !.image = IF o.boot = "none" THEN "app" ELSE "boot"],
      IF o.boot = "none" THEN Boot!Do("eeprom") ELSE Boot!Do("lmas"),
      IF o.boot = "none" THEN Boot!Load("app", "physical") ELSE Boot!Load("boot", "virtual")>>
Earlier(o) ==
    {Boot!Load(Boot!Elf(o), "physical"), Boot!Do("eeprom"), Boot!Do("erase"),
     [Boot!Do("macro") EXCEPT !.image = Boot!Elf(o)]}
Commands(o) == Earlier(o) \cup {LastOf(o)[k] : k \in 1..4}
EndsAsTold(o, s) ==
    /\ s \in Seq(Commands(o)) /\ (o.boot = "none" => Len(s) <= 4)
    /\ \A i \in 1..Len(s) : LET left == Len(s) - i IN
          IF left < 4 THEN s[i] = LastOf(o)[left + 1] ELSE s[i] \in Earlier(o)

LEMMA Scripts ==
    ASSUME NEW o \in Boot!Options, ~Boot!Refused(o), BootKept(o)
    PROVE  EndsAsTold(o, Boot!Setup(o)) /\ Len(Boot!Setup(o)) \geq 4
  <1>1. /\ o.loop = "none" /\ o.boot \in {"none", "elf"} /\ o.family = "v203"
        /\ o.boot = "none" => o.firmware # "none"
    BY DEF Boot!Options, Boot!Choices, Boot!Refused, BootKept
  <1>2. /\ ~Boot!Located(o) /\ o.firmware # "bin"
        /\ o.firmware # "none" => Boot!Elf(o) = "app"
    BY <1>1 DEF Boot!Located, Boot!Elf, BootKept
  <1> DEFINE l == Boot!Load(Boot!Elf(o), "physical")
             m == [Boot!Do("macro") EXCEPT !.image = Boot!Elf(o)]
             ee == Boot!Do("eeprom")
             er == Boot!Do("erase")
             lb == Boot!Load("boot", "virtual")
             lm == Boot!Do("lmas")
             mb == [Boot!Do("macro") EXCEPT !.image = "boot"]
             st == Boot!Do("start")
             C == Commands(o)
             E == Earlier(o)
             L == LastOf(o)
             F == Boot!FamilyScript(o)
             B == Boot!Blank(o)
             S == Boot!bootloader_script(o)
  <1>3. {l, m, ee, er} \subseteq E /\ E \subseteq C
    BY DEF Earlier, Commands
  <1>4. \A k \in 1..4 : L[k] \in C
    BY DEF Commands
  <1>5. CASE o.boot = "none"
    <2>1. L = <<st, m, ee, l>>
      BY <1>1, <1>2, <1>5 DEF LastOf
    <2>2. F = <<l, ee>> \o <<m>>
      BY <1>1 DEF Boot!FamilyScript
    <2>3. B = <<>> /\ S = <<>>
      BY <1>1, <1>5 DEF Boot!Blank, Boot!bootloader_script, Boot!If
    <2>4. Boot!Setup(o) = F \o B \o S \o <<>> \o <<>> \o <<st>>
      BY <1>2 DEF Boot!Setup, Boot!script, Boot!If
    <2> HIDE DEF l, m, ee, er, lb, lm, mb, st, C, E, L, F, B, S
    <2>5. st \in C /\ l \in C /\ m \in C /\ ee \in C
      BY <1>3, <1>4, <2>1
    <2>6. F \in Seq(C) /\ Len(F) = 3 /\ F[1] = l /\ F[2] = ee /\ F[3] = m
      BY <2>2, <2>5
    <2>a. st \in C /\ F \in Seq(C)
      BY <2>5, <2>6
    <2>7. Boot!Setup(o) = Append(F, st)
      BY <2>3, <2>4, <2>a
    <2>9. Append(F, st) \in Seq(C) /\ Len(Append(F, st)) = Len(F) + 1
      BY <2>a
    <2>b. /\ Append(F, st)[Len(F) + 1] = st
          /\ \A k \in 1..Len(F) : Append(F, st)[k] = F[k]
      BY <2>a
    <2> DEFINE T == Append(F, st)
    <2>8. T[1] = l /\ T[2] = ee /\ T[3] = m /\ T[4] = st /\ T \in Seq(C) /\ Len(T) = 4
      BY <2>6, <2>9, <2>b
    <2>c. L[1] = st /\ L[2] = m /\ L[3] = ee /\ L[4] = l
      BY <2>1
    <2> HIDE DEF T
    <2>d. ASSUME NEW i \in 1..4
          PROVE  LET left == 4 - i IN IF left < 4 THEN T[i] = L[left + 1] ELSE T[i] \in E
      BY <2>8, <2>c
    <2> QED
      BY <2>7, <2>8, <2>d DEF EndsAsTold, T, C, E, L
  <1>6. CASE o.boot = "elf"
    <2>1. L = <<st, mb, lm, lb>>
      BY <1>6 DEF LastOf
    <2>2. F = <<l, ee>> \o <<m>>
      BY <1>1 DEF Boot!FamilyScript
    <2>3. /\ B = <<>> \/ B = <<er, ee>>
          /\ S = <<lb>> \o <<lm>> \o <<>> \o <<mb>> \o <<>>
      BY <1>1, <1>6 DEF Boot!Blank, Boot!bootloader_script, Boot!If
    <2>4. Boot!Setup(o) = F \o B \o S \o <<>> \o <<>> \o <<st>>
      BY <1>2 DEF Boot!Setup, Boot!script, Boot!If
    <2> HIDE DEF l, m, ee, er, lb, lm, mb, st, C, E, L, F, B, S
    <2>5. {lb, lm, mb, st} \subseteq C /\ {l, m, ee, er} \subseteq C
      BY <1>3, <1>4, <2>1
    <2>6. F \o B \in Seq(E)
      <3>1. l \in E /\ m \in E /\ ee \in E /\ er \in E
        BY <1>3
      <3>2. F \in Seq(E)
        BY <2>2, <3>1
      <3>3. B \in Seq(E)
        <4>1. CASE B = <<>>
          BY <4>1
        <4>2. CASE B = <<er, ee>>
          BY <3>1, <4>2
        <4> QED
          BY <2>3, <4>1, <4>2
      <3> QED
        BY <3>2, <3>3
    <2>7. S \in Seq(C) /\ Len(S) = 3 /\ S[1] = lb /\ S[2] = lm /\ S[3] = mb
      <3> DEFINE U == <<lb>> \o <<lm>>
      <3>1. lb \in C /\ lm \in C /\ mb \in C
        BY <2>5
      <3>2. U \in Seq(C) /\ Len(U) = 2 /\ U[1] = lb /\ U[2] = lm
        BY <3>1
      <3> HIDE DEF U
      <3>3. S = U \o <<>> \o <<mb>> \o <<>>
        BY <2>3 DEF U
      <3>4. S = Append(U, mb)
        BY <3>1, <3>2, <3>3
      <3>5. /\ S \in Seq(C) /\ Len(S) = Len(U) + 1 /\ S[Len(U) + 1] = mb
            /\ \A i \in 1..Len(U) : S[i] = U[i]
        <4>1. mb \in C /\ U \in Seq(C)
          BY <3>1, <3>2
        <4> QED
          BY <3>4, <4>1
      <3> QED
        BY <3>2, <3>5
    <2> DEFINE X == F \o B
    <2>8. X \in Seq(C) /\ Len(X) \in Nat /\ \A i \in 1..Len(X) : X[i] \in E
      BY <1>3, <2>6
    <2>9. Boot!Setup(o) = Append(X \o S, st)
      BY <2>4, <2>5, <2>7, <2>8
    <2> HIDE DEF X
    <2> DEFINE T == Append(X \o S, st)
    <2>a. st \in C
      BY <2>5
    <2>b. /\ X \o S \in Seq(C) /\ Len(X \o S) = Len(X) + 3
          /\ \A i \in 1..Len(X) : (X \o S)[i] = X[i]
          /\ \A i \in 1..3 : (X \o S)[Len(X) + i] = S[i]
      <3>1. X \in Seq(C) /\ S \in Seq(C) /\ Len(X) \in Nat
        BY <2>7, <2>8
      <3>2. X \o S \in Seq(C) /\ Len(X \o S) = Len(X) + Len(S)
        BY <3>1
      <3>3. \A i \in 1..Len(X) : (X \o S)[i] = X[i]
        BY <3>1
      <3>4. \A i \in 1..Len(S) : (X \o S)[Len(X) + i] = S[i]
        BY <3>1
      <3> QED
        BY <2>7, <3>2, <3>3, <3>4
    <2>c. /\ T \in Seq(C) /\ Len(T) = Len(X \o S) + 1 /\ T[Len(X \o S) + 1] = st
          /\ \A i \in 1..Len(X \o S) : T[i] = (X \o S)[i]
      BY <2>a, <2>b
    <2> HIDE DEF T
    <2>10. T \in Seq(C) /\ Len(T) = Len(X) + 4
      BY <2>8, <2>b, <2>c
    <2>11. ASSUME NEW i \in 1..Len(X) PROVE T[i] \in E
      <3>1. i \in 1..Len(X \o S)
        BY <2>8, <2>b
      <3>2. T[i] = X[i]
        BY <2>b, <2>c, <3>1
      <3> QED
        BY <2>8, <3>2
    <2>12. /\ T[Len(X) + 1] = lb /\ T[Len(X) + 2] = lm /\ T[Len(X) + 3] = mb
           /\ T[Len(X) + 4] = st
      <3>1. /\ Len(X) + 1 \in 1..Len(X \o S) /\ Len(X) + 2 \in 1..Len(X \o S)
            /\ Len(X) + 3 \in 1..Len(X \o S) /\ Len(X) + 4 = Len(X \o S) + 1
        BY <2>8, <2>b
      <3> QED
        BY <2>7, <2>b, <2>c, <3>1
    <2>13. ASSUME NEW i \in 1..Len(T)
           PROVE  LET left == Len(T) - i IN
                  IF left < 4 THEN T[i] = L[left + 1] ELSE T[i] \in E
      <3>1. L[1] = st /\ L[2] = mb /\ L[3] = lm /\ L[4] = lb
        BY <2>1
      <3>2. CASE i \in 1..Len(X)
        <4>1. ~(Len(T) - i < 4)
          BY <2>8, <2>10, <3>2
        <4> QED
          BY <2>11, <3>2, <4>1
      <3>3. CASE i \notin 1..Len(X)
        <4>1. i \in {Len(X) + 1, Len(X) + 2, Len(X) + 3, Len(X) + 4}
          BY <2>8, <2>10, <3>3
        <4> QED
          BY <2>8, <2>10, <2>12, <3>1, <4>1
      <3> QED
        BY <3>2, <3>3
    <2>14. Len(T) \geq 4 /\ o.boot # "none"
      BY <1>6, <2>8, <2>10
    <2>15. EndsAsTold(o, T)
      BY <2>10, <2>13, <2>14 DEF EndsAsTold, C, E, L
    <2> QED
      BY <2>9, <2>14, <2>15 DEF T
  <1> QED
    BY <1>1, <1>5, <1>6

\* What a reset would load: the bootloader's ELF, or the application's.
Reloaded(o) ==
    IF o.boot = "none"
    THEN bootMacro = "app" /\ bootFlash["app"] = "app" /\ bootAt # "boot"
    ELSE /\ bootMacro = "boot" /\ bootFlash["init"] = "boot"
         /\ bootFlash["boot"] = "boot" /\ bootFlash["delay"] = "boot"

\* What the commands that are run already have left.
Loaded(o, left) ==
    /\ left < 4 => IF o.boot = "none" THEN bootFlash["app"] = "app"
                   ELSE bootFlash["boot"] = "boot" /\ bootFlash["delay"] = "boot"
    /\ left < 3 => (o.boot # "none" => bootFlash["init"] = "boot")
    /\ left < 2 => bootMacro = IF o.boot = "none" THEN "app" ELSE "boot"
    /\ o.boot = "none" => bootEntry = "app"
BootInv ==
    /\ bootFlash = [r \in Boot!Regions |-> bootFlash[r]]
    /\ bootState = "plan" => bootEntry = "app"
    /\ bootState = "load" /\ BootKept(bootOpt) =>
          /\ bootOpt \in Boot!Options /\ EndsAsTold(bootOpt, bootTodo)
          /\ bootTodo # <<>> /\ Loaded(bootOpt, Len(bootTodo))
    /\ bootState = "run" /\ BootKept(bootOpt) => Reloaded(bootOpt)

LEMMA CommandFields ==
    ASSUME NEW o
    PROVE  /\ LastOf(o)[1].do = "start"
           /\ LastOf(o)[2].do = "macro"
           /\ LastOf(o)[2].image = IF o.boot = "none" THEN "app" ELSE "boot"
           /\ LastOf(o)[3].do = IF o.boot = "none" THEN "eeprom" ELSE "lmas"
           /\ LastOf(o)[4].do = "load"
           /\ LastOf(o)[4].image = IF o.boot = "none" THEN "app" ELSE "boot"
           /\ LastOf(o)[4].how = IF o.boot = "none" THEN "physical" ELSE "virtual"
           /\ \A c \in Earlier(o) : c.do # "start"
  <1>1. \A c \in Earlier(o) : c.do # "start"
    BY DEF Earlier, Boot!Load, Boot!Do
  <1>2. CASE o.boot = "none"
    BY <1>1, <1>2 DEF LastOf, Boot!Load, Boot!Do
  <1>3. CASE o.boot # "none"
    BY <1>1, <1>3 DEF LastOf, Boot!Load, Boot!Do
  <1> QED
    BY <1>2, <1>3

LEMMA LessToDo ==
    ASSUME NEW o, NEW s, EndsAsTold(o, s), s # <<>>
    PROVE  /\ EndsAsTold(o, Tail(s)) /\ Len(s) \in Nat \ {0} /\ Len(Tail(s)) = Len(s) - 1
           /\ IF Len(s) <= 4 THEN Head(s) = LastOf(o)[Len(s)] ELSE Head(s) \in Earlier(o)
           /\ o.boot = "none" => Len(s) <= 4
  <1> DEFINE C == Commands(o)
             L == LastOf(o)
             E == Earlier(o)
  <1>1. /\ s \in Seq(C) /\ (o.boot = "none" => Len(s) <= 4)
        /\ \A i \in 1..Len(s) : LET left == Len(s) - i IN
              IF left < 4 THEN s[i] = L[left + 1] ELSE s[i] \in E
    BY DEF EndsAsTold
  <1> HIDE DEF C, L, E
  <1>2. Len(s) \in Nat \ {0} /\ Head(s) = s[1]
    BY <1>1
  <1>3. /\ Tail(s) \in Seq(C) /\ Len(Tail(s)) = Len(s) - 1
        /\ \A i \in 1..Len(s) - 1 : Tail(s)[i] = s[i + 1]
    BY <1>1
  <1>4. \A i \in 1..Len(Tail(s)) : LET left == Len(Tail(s)) - i IN
           IF left < 4 THEN Tail(s)[i] = L[left + 1] ELSE Tail(s)[i] \in E
    <2> TAKE i \in 1..Len(Tail(s))
    <2>1. /\ i + 1 \in 1..Len(s) /\ Len(Tail(s)) - i = Len(s) - (i + 1)
          /\ Tail(s)[i] = s[i + 1]
      BY <1>2, <1>3
    <2> QED
      BY <1>1, <2>1
  <1>5. IF Len(s) <= 4 THEN Head(s) = L[Len(s)] ELSE Head(s) \in E
    <2>1. 1 \in 1..Len(s) /\ Len(s) - 1 + 1 = Len(s) /\ (Len(s) - 1 < 4 <=> Len(s) <= 4)
      BY <1>2
    <2> QED
      BY <1>1, <1>2, <2>1
  <1>6. o.boot = "none" => Len(Tail(s)) <= 4
    BY <1>1, <1>2, <1>3
  <1> QED
    BY <1>1, <1>2, <1>3, <1>4, <1>5, <1>6 DEF EndsAsTold, C, L, E

LEMMA CommandsDone ==
    ASSUME BootInv, Boot!Command
    PROVE  BootInv'
  <1> DEFINE n == Len(bootTodo)
             c == Head(bootTodo)
             o == bootOpt
  <1>1. /\ bootState = "load" /\ bootTodo # <<>> /\ bootTodo' = Tail(bootTodo)
        /\ bootOpt' = o
    BY DEF Boot!Command
  <1>2. /\ bootFlash' = CASE c.do = "load" -> Boot!Written(bootFlash, c.image, c.how)
                         [] c.do = "eeprom" -> [bootFlash EXCEPT !["eeprom"] = Boot!Eeprom(o)]
                         [] c.do = "erase" -> [r \in Boot!Regions |-> "erased"]
                         [] c.do = "lmas" -> Boot!Lmas(bootFlash)
                         [] c.do = "patch" -> [bootFlash EXCEPT !["delay"] = "patched"]
                         [] OTHER -> bootFlash
        /\ bootEntry' = CASE c.do = "starts" -> c.image
                          [] c.do = "load" /\ o.family = "v203" /\ c.how # "binary" -> Boot!Side(c.image)
                          [] OTHER -> bootEntry
        /\ bootMacro' = IF c.do = "macro" THEN c.image ELSE bootMacro
        /\ bootState' = IF c.do = "start" THEN "run" ELSE bootState
        /\ bootAt' = IF c.do = "start" THEN bootEntry ELSE bootAt
    BY DEF Boot!Command
  <1>3. bootFlash' = [r \in Boot!Regions |-> bootFlash'[r]]
    <2>1. bootFlash = [r \in Boot!Regions |-> bootFlash[r]]
      BY DEF BootInv
    <2> QED
      BY <1>2, <2>1 DEF Boot!Written, Boot!Lmas
  <1>4. ASSUME BootKept(o)
        PROVE  /\ bootState' = "load" =>
                     /\ bootTodo' # <<>> /\ EndsAsTold(o, bootTodo') /\ Loaded(bootOpt, Len(bootTodo))'
               /\ bootState' = "run" => Reloaded(bootOpt)'
    <2>1. EndsAsTold(o, bootTodo) /\ Loaded(o, n) /\ o.family = "v203"
      BY <1>1, <1>4 DEF BootInv, BootKept
    <2>2. /\ EndsAsTold(o, bootTodo') /\ n \in Nat \ {0} /\ Len(bootTodo') = n - 1
          /\ IF n <= 4 THEN c = LastOf(o)[n] ELSE c \in Earlier(o)
          /\ o.boot = "none" => n <= 4
      BY <1>1, <2>1, LessToDo, Zenon
    <2>3. n > 1 => bootTodo' # <<>>
      BY <2>2
    <2> HIDE DEF n, c
    <2>4. CASE n = 1
      <3>1. c.do = "start"
        BY <2>2, <2>4, CommandFields
      <3>2. /\ bootFlash' = bootFlash /\ bootMacro' = bootMacro /\ bootState' = "run"
            /\ bootAt' = bootEntry
        BY <1>2, <3>1
      <3>3. Reloaded(bootOpt)'
        BY <1>1, <2>1, <2>4, <3>2 DEF Loaded, Reloaded
      <3> QED
        BY <3>2, <3>3
    <2>5. CASE n = 2
      <3>1. c.do = "macro" /\ c.image = IF o.boot = "none" THEN "app" ELSE "boot"
        BY <2>2, <2>5, CommandFields
      <3>2. /\ bootFlash' = bootFlash /\ bootMacro' = c.image /\ bootState' = "load"
            /\ bootEntry' = bootEntry
        BY <1>1, <1>2, <3>1
      <3> QED
        BY <1>1, <2>1, <2>2, <2>3, <2>5, <3>1, <3>2 DEF Loaded
    <2>6. CASE n = 3
      <3>1. c.do = IF o.boot = "none" THEN "eeprom" ELSE "lmas"
        BY <2>2, <2>6, CommandFields
      <3>2. /\ bootMacro' = bootMacro /\ bootState' = "load" /\ bootEntry' = bootEntry
            /\ bootFlash' = IF o.boot = "none" THEN [bootFlash EXCEPT !["eeprom"] = Boot!Eeprom(o)]
                            ELSE [bootFlash EXCEPT !["init"] = "boot"]
        BY <1>1, <1>2, <3>1 DEF Boot!Lmas
      <3>3. /\ Len(bootTodo') = 2 /\ bootFlash'["app"] = bootFlash["app"]
            /\ bootFlash'["boot"] = bootFlash["boot"] /\ bootFlash'["delay"] = bootFlash["delay"]
            /\ o.boot # "none" => bootFlash'["init"] = "boot"
        BY <2>2, <2>6, <3>2 DEF BootInv, Boot!Regions
      <3>a. IF o.boot = "none" THEN bootFlash["app"] = "app" /\ bootEntry = "app"
            ELSE bootFlash["boot"] = "boot" /\ bootFlash["delay"] = "boot"
        BY <2>1, <2>6 DEF Loaded
      <3>b. /\ IF o.boot = "none" THEN bootFlash'["app"] = "app"
               ELSE bootFlash'["boot"] = "boot" /\ bootFlash'["delay"] = "boot"
            /\ o.boot = "none" => bootEntry' = "app"
            /\ o.boot # "none" => bootFlash'["init"] = "boot"
        BY <3>2, <3>3, <3>a
      <3>c. Len(bootTodo') = 2 /\ bootOpt' = o
        BY <1>1, <3>3
      <3>4. Loaded(bootOpt, Len(bootTodo))'
        BY <3>b, <3>c DEF Loaded
      <3> QED
        BY <2>2, <2>3, <2>6, <3>2, <3>4
    <2>7. CASE n = 4
      <3>1. /\ c.do = "load" /\ c.image = IF o.boot = "none" THEN "app" ELSE "boot"
            /\ c.how = IF o.boot = "none" THEN "physical" ELSE "virtual"
        BY <2>2, <2>7, CommandFields
      <3>2. bootState' = "load" /\ bootFlash' = Boot!Written(bootFlash, c.image, c.how)
        BY <1>1, <1>2, <3>1
      <3>3. o.boot = "none" => bootEntry' = "app"
        BY <1>2, <2>1, <3>1 DEF Boot!Side
      <3>4. IF o.boot = "none" THEN bootFlash'["app"] = "app"
            ELSE bootFlash'["boot"] = "boot" /\ bootFlash'["delay"] = "boot"
        BY <3>1, <3>2 DEF Boot!Written, BootInv, Boot!Regions
      <3>5. Len(bootTodo') = 3
        BY <2>2, <2>7
      <3>6. Loaded(bootOpt, Len(bootTodo))'
        BY <1>1, <3>3, <3>4, <3>5 DEF Loaded
      <3> QED
        BY <2>2, <2>3, <2>7, <3>2, <3>6
    <2>8. CASE n > 4
      <3>1. c.do # "start" /\ o.boot # "none"
        BY <2>2, <2>8, CommandFields
      <3>2. bootState' = "load"
        BY <1>1, <1>2, <3>1
      <3> QED
        BY <1>1, <2>2, <2>3, <2>8, <3>1, <3>2 DEF Loaded
    <2> QED
      BY <2>2, <2>4, <2>5, <2>6, <2>7, <2>8
  <1>5. bootOpt \in Boot!Options \/ ~BootKept(o)
    BY <1>1 DEF BootInv
  <1>6. bootState' # "plan"
    BY <1>1, <1>2
  <1> QED
    BY <1>1, <1>3, <1>4, <1>5, <1>6 DEF BootInv

LEMMA ResetFinds ==
    ASSUME BootInv, Boot!Reset, BootKept(bootOpt)
    PROVE  bootFlash' = bootFlash
  <1>1. /\ bootState = "run" /\ Reloaded(bootOpt)
        /\ bootFlash = [r \in Boot!Regions |-> bootFlash[r]]
        /\ bootFlash' = IF bootMacro = "boot" THEN Boot!Lmas(Boot!Written(bootFlash, "boot", "virtual"))
                        ELSE Boot!Written(bootFlash, bootMacro, "physical")
    BY DEF BootInv, Boot!Reset, Boot!Act, BootKept
  <1>2. CASE bootOpt.boot = "none"
    <2>1. bootFlash' = [bootFlash EXCEPT !["app"] = "app"] /\ bootFlash["app"] = "app"
      BY <1>1, <1>2 DEF Reloaded, Boot!Written
    <2> QED
      BY <1>1, <2>1
  <1>3. CASE bootOpt.boot # "none"
    <2>1. /\ bootFlash' = [[bootFlash EXCEPT !["boot"] = "boot", !["delay"] = "boot"]
                              EXCEPT !["init"] = "boot"]
          /\ bootFlash["boot"] = "boot" /\ bootFlash["delay"] = "boot" /\ bootFlash["init"] = "boot"
      BY <1>1, <1>3 DEF Reloaded, Boot!Written, Boot!Lmas
    <2> QED
      BY <1>1, <2>1
  <1> QED
    BY <1>2, <1>3

\* A boot plan is made, run, and what it started runs; a reset finds what it would load.
LEMMA BootGoesOn ==
    ASSUME BootInv, [Boot!Next]_(Boot!vars)
    PROVE  BootInv'
  <1>1. CASE \E o \in Boot!Options : bootState = "plan" /\ Boot!Generate(o)
    <2>1. PICK o \in Boot!Options : bootState = "plan" /\ Boot!Generate(o)
      BY <1>1
    <2>2. /\ bootOpt' = o /\ UNCHANGED <<bootFlash, bootEntry, bootMacro, bootAt>>
          /\ \/ bootState' = "off"
             \/ ~Boot!Refused(o) /\ bootState' = "load" /\ bootTodo' = Boot!Setup(o)
      BY <2>1 DEF Boot!Generate
    <2>3. ASSUME bootState' = "load", BootKept(o)
          PROVE  EndsAsTold(o, bootTodo') /\ bootTodo' # <<>> /\ Loaded(bootOpt, Len(bootTodo))'
      <3>1. bootTodo' = Boot!Setup(o) /\ ~Boot!Refused(o)
        BY <2>2, <2>3
      <3>2. EndsAsTold(o, bootTodo') /\ Len(bootTodo') \geq 4
        BY <2>3, <3>1, Scripts, Zenon
      <3>3. bootTodo' # <<>> /\ Len(bootTodo') \in Nat
        BY <3>2 DEF EndsAsTold
      <3>4. bootEntry' = "app"
        BY <2>1, <2>2 DEF BootInv
      <3> QED
        BY <3>2, <3>3, <3>4 DEF Loaded
    <2> QED
      BY <2>1, <2>2, <2>3 DEF BootInv
  <1>2. CASE Boot!Command
    BY <1>2, CommandsDone
  <1>3. CASE Boot!Jump \/ Boot!Save \/ Boot!Update
    <2>1. /\ bootState = "run" /\ UNCHANGED <<bootOpt, bootMacro, bootState>>
          /\ bootAt' = bootAt \/ bootAt = "boot"
          /\ \/ bootFlash' = bootFlash
             \/ bootFlash' = [bootFlash EXCEPT !["eeprom"] = "saved"]
             \/ bootAt = "boot" /\ bootFlash' = [bootFlash EXCEPT !["app"] = "update"]
      BY <1>3 DEF Boot!Jump, Boot!Save, Boot!Update, Boot!Act
    <2>2. bootFlash' = [r \in Boot!Regions |-> bootFlash'[r]]
      BY <2>1 DEF BootInv
    <2>3. BootKept(bootOpt) => Reloaded(bootOpt)'
      <3>1. \A r \in {"boot", "delay", "init"} : bootFlash'[r] = bootFlash[r]
        BY <2>1 DEF BootInv, Boot!Regions
      <3>2. bootAt # "boot" => bootFlash'["app"] = bootFlash["app"]
        BY <2>1 DEF BootInv, Boot!Regions
      <3> QED
        BY <2>1, <3>1, <3>2 DEF BootInv, Reloaded
    <2> QED
      BY <2>1, <2>2, <2>3 DEF BootInv, Reloaded
  <1>4. CASE Boot!Reset
    <2>1. BootKept(bootOpt) => bootFlash' = bootFlash
      BY <1>4, ResetFinds
    <2>2. /\ bootState = "run" /\ UNCHANGED <<bootOpt, bootMacro, bootState>>
          /\ bootAt' = Boot!Side(bootMacro)
      BY <1>4 DEF Boot!Reset, Boot!Act
    <2>3. bootFlash' = [r \in Boot!Regions |-> bootFlash'[r]]
      BY <1>4, Zenon DEF Boot!Reset, Boot!Lmas, Boot!Written, BootInv
    <2>4. BootKept(bootOpt) => Reloaded(bootOpt)'
      BY <2>1, <2>2 DEF BootInv, Reloaded, Boot!Side
    <2> QED
      BY <2>2, <2>3, <2>4 DEF BootInv, Reloaded
  <1>5. CASE UNCHANGED Boot!vars
    BY <1>5 DEF BootInv, Boot!vars, Loaded, Reloaded
  <1> QED
    BY <1>1, <1>2, <1>3, <1>4, <1>5 DEF Boot!Next

LEMMA BootKeeps == Spec => Boot!ResetKeeps
  <1>1. Boot!Init => BootInv
    BY DEF Boot!Init, BootInv
  <1>2. BootInv /\ [Boot!Next]_(Boot!vars) => BootInv'
    BY BootGoesOn
  <1>3. BootInv => [(Boot!Reset /\ ~(bootOpt.firmware = "bin" /\ bootOpt.family = "v203"))
                       => bootFlash' = bootFlash]_(Boot!vars)
    <2>1. ASSUME BootInv, Boot!Reset, ~(bootOpt.firmware = "bin" /\ bootOpt.family = "v203")
          PROVE  bootFlash' = bootFlash
      <3>1. CASE bootOpt.family = "v203"
        BY <2>1, <3>1, ResetFinds DEF BootKept
      <3>2. CASE bootOpt.family # "v203"
        BY <2>1, <3>2 DEF Boot!Reset
      <3> QED
        BY <3>1, <3>2
    <2> QED
      BY <2>1, Zenon
  <1> QED
    BY <1>1, <1>2, <1>3, KeepersBehave, PTL DEF Boot!ResetKeeps

\* The clock a measurement runs on goes back only from a value that a rebase overtook
\* inside now(), and an armed profile is given none of them, whatever simulators restart
\* (sim_clock.py); a reset loses nothing that firmware or bootloader wrote, except where
\* it loads the sibling of a binary (generator.py); and starting the firmware that is in
\* a flight controller's flash keeps its settings (flight_controller.py,
\* select_firmware): for any clock, any firmwares and any number of starts.
THEOREM SavedIsKept == Spec => SavedKept
  BY ClockKeeps, BootKeeps, FlashKeeps DEF SavedKept
==============================================================================
