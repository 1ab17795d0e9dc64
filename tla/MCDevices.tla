----------------------------- MODULE MCDevices -------------------------------
(****************************************************************************)
(* The devices of the emulated bench that share no state while they run:    *)
(* the DFU loader, the motor outputs of the flight controller, a            *)
(* configurator's 4-way session and the single-wire bridge; and, for what   *)
(* must end in them, the launcher with one launch and the USB/IP server     *)
(* with one host. One behaviour is a behaviour of one of them; the others   *)
(* stay as they begin.                                                      *)
(****************************************************************************)
EXTENDS Integers, Sequences, FiniteSets, TLC, TLAPS, WellFoundedInduction, SequenceTheorems

CONSTANTS
    Escs,
    FlashUnits, FlashSectors, FirmwareImages, DfuHosts,     \* of the DFU loader
    MaxCommands,    \* bound: commands of the motor outputs' host
    MaxSends,       \* bound: frames a configurator sends
    WireBytes, ReadBytes,   \* bounds of the single wire
    Parts           \* the components a run is about

\* A flash has a size, an image a place and a size that is not zero.
ASSUME LoaderAssumption ==
    /\ FlashUnits \in Nat /\ DfuHosts \in Nat
    /\ FirmwareImages \subseteq [base : Nat, len : Nat \ {0}]

\* Bounds are numbers.
ASSUME BoundsAssumption == MaxSends \in Nat /\ WireBytes \in Nat

\* Two sectors of one unit and one of two, as an STM32's grow.
DfuSectors == 0 :> {0} @@ 1 :> {1} @@ 2 :> {2, 3}

\* Images inside a sector, over two of them, at the end of flash and beyond it.
DfuImages == {[base |-> 0, len |-> 2], [base |-> 2, len |-> 1], [base |-> 3, len |-> 1],
              [base |-> 2, len |-> 3], [base |-> 5, len |-> 1]}

\* One launch with the launcher's own USB device.
LabModes == {"stub"}

FrameKinds == {"msp", "pass", "info", "init", "reset", "alive", "data", "exit"}

VARIABLES
    part,           \* the component this behaviour is about
    dfuState, dfuStatus, dfuBusyOnce, dfuAddress, dfuFlash, dfuScheduled,
    dfuTimer, dfuManifested, dfuHost, dfuImage, dfuHpc, dfuNext, dfuBlock,
    fcRunning, fcInFourway, fcEnabled, fcActive, fcValue, fcReady, fcSeen,
    fcWaited, fcMpc, fcDpc, fcOutputs, fcCpc, fcSerial, fcApp, fcArmed,
    fcDriven, fcCommands, fcCommanded, fcFresh, fcLate,
    fourwayInFourway, fourwayPc, fourwayMspBuf, fourwayBuf,
    fourwayLastRequest, fourwayTarget, fourwayConnected, fourwayExited,
    fourwayCur, fourwayOut, fourwayLink, fourwayAnswers, fourwayWant,
    fourwayReq, fourwaySends, fourwayEsc, fourwayGaveUp, fourwayLate,
    fourwayServed, fourwayQueued, fourwayOwed, fourwayInTouch, fourwayUnheard,
    bridgeRunning, bridgeEchoes, bridgeSent, bridgeInbox, bridgeWire,
    bridgeTxDone, bridgeAnswers, bridgeOutbox,
    labMode, labGeneration, labLaunches, labGroup, labFc, labFcRequired,
    labStartFailed, labReady, labStopped, labStub, labOpen, labStarting,
    labUsbPorts, labLease, labGate, labEnded, labGone, labPc, labHeld,
    labCleanupError, labQtJob, labRaised, labLines, labOverlapped, labUpsets,
    usbipRunning, usbipConn, usbipPending, usbipIntr, usbipTxHeld, usbipRx,
    usbipLock, usbipReply, usbipSpc, usbipWpc, usbipData, usbipCpc,
    usbipQueued, usbipLine, usbipInbox, usbipUnread, usbipAsked, usbipGiven,
    usbipDone, usbipGot, usbipNextUrb, usbipNextByte, usbipSessions

dfuVars ==
    <<dfuState, dfuStatus, dfuBusyOnce, dfuAddress, dfuFlash, dfuScheduled,
      dfuTimer, dfuManifested, dfuHost, dfuImage, dfuHpc, dfuNext, dfuBlock>>
fcVars ==
    <<fcRunning, fcInFourway, fcEnabled, fcActive, fcValue, fcReady, fcSeen,
      fcWaited, fcMpc, fcDpc, fcOutputs, fcCpc, fcSerial, fcApp, fcArmed,
      fcDriven, fcCommands, fcCommanded, fcFresh, fcLate>>
fourwayVars ==
    <<fourwayInFourway, fourwayPc, fourwayMspBuf, fourwayBuf,
      fourwayLastRequest, fourwayTarget, fourwayConnected, fourwayExited,
      fourwayCur, fourwayOut, fourwayLink, fourwayAnswers, fourwayWant,
      fourwayReq, fourwaySends, fourwayEsc, fourwayGaveUp, fourwayLate,
      fourwayServed, fourwayQueued, fourwayOwed, fourwayInTouch,
      fourwayUnheard>>
bridgeVars ==
    <<bridgeRunning, bridgeEchoes, bridgeSent, bridgeInbox, bridgeWire,
      bridgeTxDone, bridgeAnswers, bridgeOutbox>>
labVars ==
    <<labMode, labGeneration, labLaunches, labGroup, labFc, labFcRequired,
      labStartFailed, labReady, labStopped, labStub, labOpen, labStarting,
      labUsbPorts, labLease, labGate, labEnded, labGone, labPc, labHeld,
      labCleanupError, labQtJob, labRaised, labLines, labOverlapped,
      labUpsets>>
usbipVars ==
    <<usbipRunning, usbipConn, usbipPending, usbipIntr, usbipTxHeld,
      usbipRx, usbipLock, usbipReply, usbipSpc, usbipWpc, usbipData,
      usbipCpc, usbipQueued, usbipLine, usbipInbox, usbipUnread, usbipAsked,
      usbipGiven, usbipDone, usbipGot, usbipNextUrb, usbipNextByte,
      usbipSessions>>
vars == <<part, dfuVars, fcVars, fourwayVars, bridgeVars, labVars, usbipVars>>

Dfu == INSTANCE DfuDevice WITH
    FlashSize <- FlashUnits, Sectors <- FlashSectors,
    Images <- FirmwareImages, MaxHosts <- DfuHosts, state <- dfuState,
    status <- dfuStatus, busyOnce <- dfuBusyOnce, address <- dfuAddress,
    flash <- dfuFlash, scheduled <- dfuScheduled, timer <- dfuTimer,
    manifested <- dfuManifested, host <- dfuHost, image <- dfuImage,
    hpc <- dfuHpc, next <- dfuNext, block <- dfuBlock
Fc == INSTANCE FcMotors WITH
    running <- fcRunning, inFourway <- fcInFourway, enabled <- fcEnabled,
    active <- fcActive, value <- fcValue, ready <- fcReady, seen <- fcSeen,
    waited <- fcWaited, mpc <- fcMpc, dpc <- fcDpc, outputs <- fcOutputs,
    cpc <- fcCpc, serial <- fcSerial, app <- fcApp, armed <- fcArmed,
    driven <- fcDriven, commands <- fcCommands, commanded <- fcCommanded,
    fresh <- fcFresh, late <- fcLate
Session == INSTANCE FourWaySession WITH
    Kinds <- FrameKinds, inFourway <- fourwayInFourway, pc <- fourwayPc,
    mspBuf <- fourwayMspBuf, buf <- fourwayBuf,
    lastRequest <- fourwayLastRequest, target <- fourwayTarget,
    connected <- fourwayConnected, exited <- fourwayExited, cur <- fourwayCur,
    out <- fourwayOut, link <- fourwayLink, answers <- fourwayAnswers,
    want <- fourwayWant, req <- fourwayReq, sends <- fourwaySends,
    esc <- fourwayEsc, gaveUp <- fourwayGaveUp, late <- fourwayLate,
    served <- fourwayServed, queued <- fourwayQueued, owed <- fourwayOwed,
    inTouch <- fourwayInTouch, unheard <- fourwayUnheard
Bridge == INSTANCE DirectBridge WITH
    MaxBytes <- WireBytes, MaxChunk <- ReadBytes, running <- bridgeRunning,
    echoes <- bridgeEchoes, sent <- bridgeSent, inbox <- bridgeInbox,
    wire <- bridgeWire, txDone <- bridgeTxDone, answers <- bridgeAnswers,
    outbox <- bridgeOutbox
Lab == INSTANCE LabLifecycle WITH
    Modes <- LabModes, MaxStarts <- 1, MaxDownloads <- 1, MaxUpsets <- 2,
    Quiet <- {}, mode <- labMode, generation <- labGeneration,
    launches <- labLaunches, group <- labGroup, fc <- labFc,
    fcRequired <- labFcRequired, startFailed <- labStartFailed,
    ready <- labReady, stopped <- labStopped, stub <- labStub,
    open <- labOpen, starting <- labStarting, usbPorts <- labUsbPorts,
    lease <- labLease, gate <- labGate, ended <- labEnded, gone <- labGone,
    pc <- labPc, held <- labHeld, cleanupError <- labCleanupError,
    qtJob <- labQtJob, raised <- labRaised, lines <- labLines,
    overlapped <- labOverlapped, upsets <- labUpsets
Server == INSTANCE UsbipServer WITH
    RxMax <- 1, Buffer <- 1, Lengths <- {1}, MaxUrbs <- 2, MaxBytes <- 2,
    MaxSessions <- 1, running <- usbipRunning, conn <- usbipConn,
    pending <- usbipPending, intr <- usbipIntr, txHeld <- usbipTxHeld,
    rx <- usbipRx, lock <- usbipLock, reply <- usbipReply, spc <- usbipSpc,
    wpc <- usbipWpc, data <- usbipData, cpc <- usbipCpc,
    queued <- usbipQueued, line <- usbipLine, inbox <- usbipInbox,
    unread <- usbipUnread, asked <- usbipAsked, given <- usbipGiven,
    done <- usbipDone, got <- usbipGot, nextUrb <- usbipNextUrb,
    nextByte <- usbipNextByte, sessions <- usbipSessions

ASSUME PartsAssumption == Parts \subseteq {"dfu", "fc", "fourway", "bridge", "lab", "usbip"}

Init ==
    /\ part \in Parts
    /\ Dfu!Init
    /\ Fc!Init
    /\ Session!Init
    /\ Bridge!Init
    /\ Lab!Init
    /\ Server!Init
    /\ part # "dfu" => dfuImage = CHOOSE image \in FirmwareImages : TRUE
    /\ part # "fc" => fcApp = {}
    /\ part # "fourway" => fourwayEsc = [e \in Escs |-> "app"]

DfuSteps ==
    /\ part = "dfu" /\ Dfu!Next
    /\ UNCHANGED <<part, fcVars, fourwayVars, bridgeVars, labVars, usbipVars>>

FcSteps ==
    /\ part = "fc" /\ Fc!Next
    /\ UNCHANGED <<part, dfuVars, fourwayVars, bridgeVars, labVars, usbipVars>>

SessionSteps ==
    /\ part = "fourway" /\ Session!Next
    /\ UNCHANGED <<part, dfuVars, fcVars, bridgeVars, labVars, usbipVars>>

BridgeSteps ==
    /\ part = "bridge" /\ Bridge!Next
    /\ UNCHANGED <<part, dfuVars, fcVars, fourwayVars, labVars, usbipVars>>

LabSteps ==
    /\ part = "lab" /\ Lab!Next
    /\ UNCHANGED <<part, dfuVars, fcVars, fourwayVars, bridgeVars, usbipVars>>

ServerSteps ==
    /\ part = "usbip" /\ Server!Next
    /\ UNCHANGED <<part, dfuVars, fcVars, fourwayVars, bridgeVars, labVars>>

Next == DfuSteps \/ FcSteps \/ SessionSteps \/ BridgeSteps \/ LabSteps \/ ServerSteps

\* The fairness of every part.  Weak fairness is enough for all but the USB/IP server
\* thread, from which a writer may take send_lock again and again.
Spec ==
    /\ Init /\ [][Next]_vars
    /\ WF_dfuVars(part = "dfu" /\ Dfu!HostStep)
    /\ WF_dfuVars(part = "dfu" /\ Dfu!TimerFires)
    /\ WF_fcVars(part = "fc" /\ Fc!DshotStep)
    /\ WF_fcVars(part = "fc" /\ Fc!LeaveFourway)
    /\ WF_fourwayVars(part = "fourway" /\ Session!ServerStep)
    /\ WF_fourwayVars(part = "fourway" /\ Session!Receive)
    /\ WF_labVars(part = "lab" /\ Lab!QtStep)
    /\ \A n \in 1..1 : WF_labVars(part = "lab" /\ Lab!StartStep(n))
    /\ SF_usbipVars(part = "usbip" /\ Server!ServerStep)
    /\ WF_usbipVars(part = "usbip" /\ Server!WriterStep)
    /\ WF_usbipVars(part = "usbip" /\ Server!CloserStep)
    /\ WF_usbipVars(part = "usbip" /\ Server!HostReads)
    /\ WF_usbipVars(part = "usbip" /\ (Server!Ask \/ (usbipSpc = "op" /\ Server!HangUp)))

------------------------------------------------------------------------------
\* No DShot frame lands in a serial transaction of the 4-way side.
NoDshotInSerial == Fc!NoDshotInSerial

\* Throttle goes to armed ESCs that a host commanded.
ThrottleAfterArming == Fc!ThrottleAfterArming

\* A client that waits for its answers reads the answer of the request it
\* waits for.
InStep == Session!InStep

\* When the interface has been left every ESC in touch that heard RUN runs
\* its application.
ExitReleases == Session!ExitReleases

\* The comment in _fourway (msp_stub_fc.py:693): retries that queued up while
\* a request was worked on are not answered.
RetriesAnsweredOnce == Session!RetriesAnsweredOnce

\* A 4-way request in a session is answered, or the session ends.
GetsAnswer == Session!GetsAnswer

\* The Qt thread comes back from Start, Stop and the handling of an exit.
QtReturns == Lab!QtReturns

\* A startup that was superseded gives up its token, but while a sleep holds
\* its import back.
CancelledStartupEnds == Lab!CancelledStartupEnds

\* Close returns and the server thread ends.
Ends == Server!Ends

\* The types of the devices; with them, that no output is enabled in 4-way
\* mode.
TypesOK ==
    /\ Dfu!TypeOK
    /\ Fc!TypeOK
    /\ Session!TypeOK
    /\ Bridge!TypeOK

\* A client of the single wire gets every byte back, once and in order, and
\* the answer to a command after the command's own echo.
EchoHonest ==
    /\ Bridge!EchoesAll
    /\ Bridge!EchoBeforeAnswer

\* Whatever an earlier host left behind, a host reads back what it wrote; the
\* loader manifests once, a whole image of one host.
DfuLoads ==
    /\ []Dfu!ManifestsOnce
    /\ Dfu!ManifestsWhole
    /\ Dfu!ReadsBack

\* A host of the loader comes to its end; after a passthrough the ESCs get
\* frames again, and once close has returned the DShot thread ends.
DevicesGoOn ==
    /\ Dfu!HostEnds
    /\ Fc!OutputResumes
    /\ Fc!DshotThreadEnds

------------------------------------------------------------------------------
(* Every behaviour, seen through the variables of one part, is one of that    *)
(* part's; what is proved of the part holds here.                             *)

\* The steps of the motor outputs are FcMotors' steps.
LEMMA FcBehaves == Spec => Fc!Spec
  <1>1. Init => Fc!Init
    BY DEF Init
  <1>2. [Next]_vars => [Fc!Next]_(Fc!vars)
    BY DEF Next, DfuSteps, FcSteps, SessionSteps, BridgeSteps, LabSteps, ServerSteps, vars,
           fcVars, Fc!vars, Fc!motor, Fc!escs, Fc!ghosts
  <1> QED
    BY <1>1, <1>2, PTL DEF Spec, Fc!Spec

\* The DShot thread drives no wire on which the 4-way side has bytes
\* (msp_stub_fc.py, _send_motor_cycle), for any number of ESCs.
THEOREM DshotApart == Spec => NoDshotInSerial
  BY FcBehaves, Fc!WiresApart DEF NoDshotInSerial

\* Throttle goes to armed ESCs that a host commanded (msp_stub_fc.py,
\* _motor_snapshot), for any number of ESCs.
THEOREM ThrottleCommanded == Spec => ThrottleAfterArming
  BY FcBehaves, Fc!ThrottleSafe DEF ThrottleAfterArming

------------------------------------------------------------------------------
(* A configurator's 4-way session.                                            *)

\* What happens in a session is what FourWaySession says.
LEMMA SessionBehaves == Spec => Session!Init /\ [][Session!Next]_(Session!vars)
  <1>1. Init => Session!Init
    BY DEF Init
  <1>2. [Next]_vars => [Session!Next]_(Session!vars)
    BY DEF Next, DfuSteps, FcSteps, SessionSteps, BridgeSteps, LabSteps, ServerSteps, vars,
           fourwayVars, Session!vars, Session!server, Session!client
  <1> QED
    BY <1>1, <1>2, PTL DEF Spec

\* While the client has given up nothing and repeated nothing out of time, there is one
\* request under way.  It is in one place: on the link, in a buffer, in work, or answered;
\* only while it is in work, and until its answer is written, the link may hold copies.
Frames == {f \in [req : Nat, no : Nat, kind : FrameKinds, esc : Escs \cup {Session!NoEsc}] :
              f.kind \in Session!Named => f.esc \in Escs}
Waiting == fourwayWant # Session!NoFrame
TheOne(s) == \E f \in Frames : s = <<f>> /\ f.req = fourwayWant.req
Between ==
    \/ fourwayLink = <<>> /\ fourwayAnswers = <<>>
    \/ Waiting /\ TheOne(fourwayLink) /\ fourwayAnswers = <<>>
    \/ Waiting /\ fourwayLink = <<>> /\ fourwayAnswers = <<fourwayWant.req>>
Taken(s) == Waiting /\ TheOne(s) /\ fourwayLink = <<>> /\ fourwayAnswers = <<>>
Working ==
    /\ Waiting /\ fourwayAnswers = <<>> /\ fourwayLastRequest = fourwayWant.req
    /\ fourwayLink \in Seq(Frames)
    /\ \A i \in DOMAIN fourwayLink : fourwayLink[i].req = fourwayWant.req
Places ==
    /\ fourwayPc \in {"read", "msp", "feed", "work", "answer", "leave"}
    /\ fourwayPc # "msp" => fourwayMspBuf = <<>>
    /\ fourwayPc # "feed" => fourwayBuf = <<>>
    /\ fourwayPc \notin {"feed", "answer"} => fourwayOut = <<>>
    /\ fourwayPc \in {"read", "leave"} => Between
    /\ fourwayPc = "msp" => \/ fourwayMspBuf = <<>> /\ Between
                            \/ Taken(fourwayMspBuf)
    /\ fourwayPc = "feed" => \/ fourwayBuf = <<>> /\ fourwayOut = <<>> /\ Between
                             \/ fourwayOut = <<>> /\ Taken(fourwayBuf)
                             \/ fourwayBuf = <<>> /\ TheOne(fourwayOut) /\ Working
    /\ fourwayPc = "work" => /\ fourwayCur \in Frames /\ fourwayCur.req = fourwayWant.req
                             /\ Working
    /\ fourwayPc = "answer" => \/ fourwayOut = <<>> /\ Between
                               \/ TheOne(fourwayOut) /\ Working
SessionTypes == /\ fourwayReq \in Nat /\ fourwaySends \in Nat
                /\ fourwayWant \in Frames \cup {Session!NoFrame}
OneRequest == SessionTypes /\ (Session!InTime => Places)

\* What is numbered is a natural number.
LEMMA SessionTyped == SessionTypes /\ [Session!Next]_(Session!vars) => SessionTypes'
  <1> SUFFICES ASSUME SessionTypes, [Session!Next]_(Session!vars) PROVE SessionTypes'
    OBVIOUS
  <1> USE DEF SessionTypes
  <1>1. CASE Session!Ask
    <2>1. PICK k \in FrameKinds, e \in Escs \cup {Session!NoEsc} :
            /\ k \in Session!Named => e \in Escs
            /\ fourwayWant' = [req |-> fourwayReq + 1, no |-> fourwaySends + 1, kind |-> k, esc |-> e]
            /\ fourwaySends' = fourwaySends + 1
      BY <1>1 DEF Session!Ask, Session!Send, FrameKinds
    <2>2. fourwayWant' \in Frames
      BY <2>1 DEF Frames
    <2> QED
      BY <1>1, <2>1, <2>2 DEF Session!Ask
  <1>2. CASE Session!Retry
    BY <1>2 DEF Session!Retry, Session!Send
  <1>3. CASE Session!GiveUp \/ Session!Receive
    BY <1>3 DEF Session!GiveUp, Session!Receive
  <1>4. CASE Session!ServerStep \/ UNCHANGED Session!vars
    BY <1>4 DEF Session!ServerStep, Session!vars, Session!client, Session!server,
                Session!ReadChunk, Session!SkipInMsp, Session!HandleMsp,
                Session!HandlePassthrough, Session!MspDone, Session!SkipInFourway,
                Session!TakeFrame, Session!NoMoreFrames, Session!Info, Session!InitFlash,
                Session!TestAlive, Session!Data, Session!DeviceReset, Session!InterfaceExit,
                Session!Replies, Session!WriteAnswers, Session!NoAnswers, Session!Leave
  <1> QED
    BY <1>1, <1>2, <1>3, <1>4 DEF Session!Next

\* The client asks, asks again, or has its answer.
LEMMA ClientKeeps ==
    ASSUME SessionTypes, SessionTypes', Places,
           Session!Ask \/ (Session!Retry /\ Session!AtWork) \/ Session!Receive
    PROVE  Places'
  <1> USE DEF SessionTypes
  <1>1. CASE Session!Ask
    <2>1. /\ ~Waiting /\ fourwayLink' = Append(fourwayLink, fourwayWant')
          /\ fourwayWant' # Session!NoFrame
          /\ UNCHANGED <<fourwayPc, fourwayMspBuf, fourwayBuf, fourwayLastRequest, fourwayCur,
                         fourwayOut, fourwayAnswers>>
      BY <1>1 DEF Session!Ask, Session!Send, Session!server, Session!NoFrame, Waiting
    <2>2. fourwayLink = <<>> /\ fourwayAnswers = <<>>
      BY <2>1 DEF Places, Between, Taken, Working
    <2>3. fourwayWant' \in Frames /\ fourwayLink' = <<fourwayWant'>>
      BY <2>1, <2>2
    <2>4. Between'
      BY <2>1, <2>2, <2>3 DEF Between, Waiting, TheOne
    <2> QED
      BY <2>1, <2>2, <2>4 DEF Places, Taken, Working
  <1>2. CASE Session!Retry /\ Session!AtWork
    <2> DEFINE c == [fourwayWant EXCEPT !.no = fourwaySends + 1]
    <2>1. /\ Waiting /\ fourwayLink' = Append(fourwayLink, c)
          /\ UNCHANGED <<fourwayPc, fourwayMspBuf, fourwayBuf, fourwayLastRequest, fourwayCur,
                         fourwayOut, fourwayAnswers, fourwayWant>>
      BY <1>2 DEF Session!Retry, Session!Send, Session!server, Waiting
    <2>2. c \in Frames /\ c.req = fourwayWant.req
      BY <2>1 DEF Waiting, Frames
    <2> HIDE DEF c
    <2>3. Working /\ (fourwayPc = "work" \/ TheOne(fourwayOut))
      BY <1>2, <2>1 DEF Places, Session!AtWork
    <2>6. /\ fourwayPc \in {"feed", "work", "answer"}
          /\ fourwayPc = "feed" => fourwayBuf = <<>>
      BY <1>2, <2>1, <2>3 DEF Places, Session!AtWork
    <2>4. /\ fourwayLink' \in Seq(Frames)
          /\ \A i \in DOMAIN fourwayLink' : fourwayLink'[i].req = fourwayWant.req
      BY <2>1, <2>2, <2>3 DEF Working
    <2>5. Working'
      BY <2>1, <2>3, <2>4 DEF Working, Waiting
    <2>7. TheOne(fourwayOut) => TheOne(fourwayOut)'
      BY <2>1 DEF TheOne
    <2> QED
      BY <2>1, <2>3, <2>5, <2>6, <2>7 DEF Places
  <1>3. CASE Session!Receive
    <2>1. /\ Waiting /\ fourwayAnswers # <<>> /\ fourwayAnswers' = Tail(fourwayAnswers)
          /\ UNCHANGED <<fourwayPc, fourwayMspBuf, fourwayBuf, fourwayLastRequest, fourwayCur,
                         fourwayOut, fourwayLink>>
      BY <1>3 DEF Session!Receive, Session!server, Waiting
    <2>2. fourwayLink = <<>> /\ fourwayAnswers = <<fourwayWant.req>>
          /\ fourwayPc # "work" /\ ~Taken(fourwayMspBuf) /\ ~Taken(fourwayBuf) /\ ~Working
      BY <2>1 DEF Places, Between, Taken, Working
    <2>3. Between'
      BY <2>1, <2>2 DEF Between
    <2> QED
      BY <2>1, <2>2, <2>3 DEF Places
  <1> QED
    BY <1>1, <1>2, <1>3

\* MSP: a frame is answered, opens a session, or is skipped.
LEMMA MspKeeps ==
    ASSUME Places, Session!ReadChunk \/ Session!SkipInMsp \/ Session!HandleMsp
                   \/ Session!HandlePassthrough \/ Session!MspDone
    PROVE  Places'
  <1> USE DEF Session!client, Session!server
  <1>1. CASE Session!ReadChunk
    <2>1. /\ fourwayPc = "read" /\ fourwayLink # <<>> /\ fourwayLink' = <<>>
          /\ UNCHANGED <<fourwayOut, fourwayAnswers, fourwayWant>>
      BY <1>1 DEF Session!ReadChunk
    <2>2. /\ Waiting /\ TheOne(fourwayLink) /\ fourwayAnswers = <<>>
          /\ fourwayBuf = <<>> /\ fourwayMspBuf = <<>> /\ fourwayOut = <<>>
      BY <2>1 DEF Places, Between
    <2>3. <<>> \o fourwayLink = fourwayLink
      BY <2>2 DEF TheOne
    <2>4. \/ fourwayPc' = "feed" /\ fourwayBuf' = fourwayLink /\ fourwayMspBuf' = <<>>
          \/ fourwayPc' = "msp" /\ fourwayMspBuf' = fourwayLink /\ fourwayBuf' = <<>>
      BY <1>1, <2>2, <2>3 DEF Session!ReadChunk
    <2> QED
      BY <2>1, <2>2, <2>4 DEF Places, Taken, TheOne, Waiting
  <1>2. CASE Session!SkipInMsp
    <2>1. /\ fourwayPc = "msp" /\ fourwayMspBuf # <<>> /\ fourwayMspBuf' = Tail(fourwayMspBuf)
          /\ UNCHANGED <<fourwayPc, fourwayBuf, fourwayOut, fourwayLink, fourwayAnswers, fourwayWant>>
      BY <1>2 DEF Session!SkipInMsp
    <2>2. Taken(fourwayMspBuf)
      BY <2>1 DEF Places
    <2>3. fourwayMspBuf' = <<>> /\ Between'
      BY <2>1, <2>2 DEF Taken, TheOne, Between
    <2> QED
      BY <2>1, <2>3 DEF Places
  <1>3. CASE Session!HandleMsp \/ Session!HandlePassthrough
    <2>1. /\ fourwayPc = "msp" /\ fourwayMspBuf # <<>>
          /\ fourwayAnswers' = Append(fourwayAnswers, Head(fourwayMspBuf).req)
          /\ UNCHANGED <<fourwayOut, fourwayLink, fourwayWant>>
      BY <1>3 DEF Session!HandleMsp, Session!HandlePassthrough
    <2>2. /\ Taken(fourwayMspBuf) /\ fourwayBuf = <<>> /\ fourwayOut = <<>>
      BY <2>1 DEF Places
    <2>3. Tail(fourwayMspBuf) = <<>> /\ Head(fourwayMspBuf).req = fourwayWant.req
      BY <2>2 DEF Taken, TheOne
    <2>4. fourwayMspBuf' = <<>> /\ fourwayBuf' = <<>> /\ fourwayPc' \in {"read", "msp"}
      BY <1>3, <2>1, <2>2, <2>3 DEF Session!HandleMsp, Session!HandlePassthrough
    <2>5. fourwayAnswers' = <<fourwayWant'.req>>
      BY <2>1, <2>2, <2>3 DEF Taken
    <2>6. Between'
      BY <2>1, <2>2, <2>5 DEF Between, Taken, Waiting
    <2> QED
      BY <2>1, <2>2, <2>4, <2>6 DEF Places
  <1>4. CASE Session!MspDone
    BY <1>4 DEF Session!MspDone, Places, Between, Taken, TheOne, Waiting
  <1> QED
    BY <1>1, <1>2, <1>3, <1>4

\* feed takes a frame, and answers it.
LEMMA FeedKeeps ==
    ASSUME Places, Session!SkipInFourway \/ Session!TakeFrame \/ Session!NoMoreFrames
                   \/ (\E left \in BOOLEAN : Session!Replies(left))
    PROVE  Places'
  <1> USE DEF Session!client, Session!server
  <1>1. CASE Session!SkipInFourway
    <2>1. /\ fourwayPc = "feed" /\ fourwayBuf # <<>> /\ fourwayBuf' = Tail(fourwayBuf)
          /\ UNCHANGED <<fourwayPc, fourwayMspBuf, fourwayOut, fourwayLink, fourwayAnswers, fourwayWant>>
      BY <1>1 DEF Session!SkipInFourway
    <2>2. Taken(fourwayBuf) /\ fourwayOut = <<>>
      BY <2>1 DEF Places
    <2>3. fourwayBuf' = <<>> /\ Between'
      BY <2>1, <2>2 DEF Taken, TheOne, Between
    <2> QED
      BY <2>1, <2>2, <2>3 DEF Places
  <1>2. CASE Session!TakeFrame
    <2>1. /\ fourwayPc = "feed" /\ fourwayBuf # <<>> /\ fourwayBuf' = Tail(fourwayBuf)
          /\ fourwayCur' = Head(fourwayBuf) /\ fourwayLastRequest' = Head(fourwayBuf).req
          /\ fourwayPc' = "work"
          /\ UNCHANGED <<fourwayMspBuf, fourwayOut, fourwayLink, fourwayAnswers, fourwayWant>>
      BY <1>2 DEF Session!TakeFrame
    <2>2. Taken(fourwayBuf) /\ fourwayOut = <<>> /\ fourwayMspBuf = <<>>
      BY <2>1 DEF Places
    <2>3. /\ fourwayBuf' = <<>> /\ Head(fourwayBuf) \in Frames
          /\ Head(fourwayBuf).req = fourwayWant.req
      BY <2>1, <2>2 DEF Taken, TheOne
    <2>4. Working'
      BY <2>1, <2>2, <2>3 DEF Working, Taken, Waiting
    <2> QED
      BY <2>1, <2>2, <2>3, <2>4 DEF Places
  <1>3. CASE Session!NoMoreFrames
    BY <1>3 DEF Session!NoMoreFrames, Places, Between, Taken, TheOne, Waiting, Working
  <1>4. ASSUME NEW left \in BOOLEAN, Session!Replies(left) PROVE Places'
    <2>1. /\ fourwayPc = "work" /\ fourwayOut' = Append(fourwayOut, fourwayCur)
          /\ fourwayPc' \in {"answer", "feed"}
          /\ UNCHANGED <<fourwayMspBuf, fourwayBuf, fourwayLastRequest, fourwayLink,
                         fourwayAnswers, fourwayWant>>
      BY <1>4 DEF Session!Replies
    <2>2. /\ fourwayOut = <<>> /\ fourwayMspBuf = <<>> /\ fourwayBuf = <<>> /\ Working
          /\ fourwayCur \in Frames /\ fourwayCur.req = fourwayWant.req
      BY <2>1 DEF Places
    <2>3. TheOne(fourwayOut)' /\ Working'
      BY <2>1, <2>2 DEF TheOne, Working, Waiting
    <2> QED
      BY <2>1, <2>2, <2>3 DEF Places
  <1> QED
    BY <1>1, <1>2, <1>3, <1>4

\* The answer is written, and the copies that have arrived meanwhile are dropped.
LEMMA AnswerKeeps ==
    ASSUME Places, Session!WriteAnswers \/ Session!NoAnswers \/ Session!Leave
    PROVE  Places' /\ fourwayPc' \in {"leave", "read"}
  <1> USE DEF Session!client, Session!server
  <1>1. CASE Session!WriteAnswers
    <2> DEFINE pending == SubSeq(fourwayLink, Session!Copies(fourwayLink) + 1, Len(fourwayLink))
    <2>1. /\ fourwayPc = "answer" /\ fourwayOut # <<>> /\ fourwayLink' = <<>> /\ fourwayOut' = <<>>
          /\ fourwayAnswers' = fourwayAnswers \o Session!Requests(fourwayOut)
          /\ fourwayBuf' = fourwayBuf \o pending
          /\ fourwayPc' = IF pending = <<>> THEN "leave" ELSE "feed"
          /\ UNCHANGED <<fourwayMspBuf, fourwayWant>>
      BY <1>1 DEF Session!WriteAnswers
    <2>2. TheOne(fourwayOut) /\ Working /\ fourwayBuf = <<>> /\ fourwayMspBuf = <<>>
      BY <2>1 DEF Places
    <2>3. Session!Copies(fourwayLink) = Len(fourwayLink)
      BY <2>2 DEF Session!Copies, Working
    <2>4. pending = <<>>
      <3>1. fourwayLink \in Seq(Frames)
        BY <2>2 DEF Working
      <3>2. \A s \in Seq(Frames) : SubSeq(s, Len(s) + 1, Len(s)) = <<>>
        OBVIOUS
      <3> QED
        BY <2>3, <3>1, <3>2
    <2>5. Session!Requests(fourwayOut) = <<fourwayWant.req>>
      BY <2>2 DEF Session!Requests, TheOne
    <2>6. fourwayAnswers' = <<fourwayWant'.req>>
      BY <2>1, <2>2, <2>5 DEF Working
    <2>7. fourwayPc' = "leave" /\ fourwayBuf' = <<>>
      BY <2>1, <2>2, <2>4
    <2>8. Between'
      BY <2>1, <2>2, <2>6 DEF Between, Working, Waiting
    <2> QED
      BY <2>1, <2>2, <2>7, <2>8 DEF Places
  <1>2. CASE Session!NoAnswers
    BY <1>2 DEF Session!NoAnswers, Places, Between, TheOne, Waiting
  <1>3. CASE Session!Leave
    BY <1>3 DEF Session!Leave, Places, Between, TheOne, Waiting
  <1> QED
    BY <1>1, <1>2, <1>3

\* Whoever works on a frame replies to it.
LEMMA WorkReplies ==
    ASSUME Session!Info \/ Session!InitFlash \/ Session!TestAlive \/ Session!Data
           \/ Session!DeviceReset \/ Session!InterfaceExit
    PROVE  \E left \in BOOLEAN : Session!Replies(left)
  BY DEF Session!Info, Session!InitFlash, Session!TestAlive, Session!Data,
         Session!DeviceReset, Session!InterfaceExit

\* What a client did out of time stays on the record; a copy that is not on it was sent
\* while its request was in work.
LEMMA InTimeBefore ==
    ASSUME SessionTypes, [Session!Next]_(Session!vars), Session!InTime'
    PROVE  Session!InTime /\ ~Session!GiveUp /\ (Session!Retry => Session!AtWork)
  <1>1. CASE Session!Retry
    BY <1>1 DEF Session!Retry, Session!GiveUp, Session!Send, Session!InTime, SessionTypes
  <1>2. CASE Session!GiveUp
    BY <1>2 DEF Session!GiveUp, Session!InTime
  <1>3. CASE ~Session!Retry /\ ~Session!GiveUp
    BY <1>3 DEF Session!Next, Session!vars, Session!client, Session!Ask, Session!InTime,
           Session!Receive, Session!ServerStep, Session!ReadChunk,
           Session!SkipInMsp, Session!HandleMsp, Session!HandlePassthrough, Session!MspDone,
           Session!SkipInFourway, Session!TakeFrame, Session!NoMoreFrames, Session!Info,
           Session!InitFlash, Session!TestAlive, Session!Data, Session!DeviceReset,
           Session!InterfaceExit, Session!Replies, Session!WriteAnswers, Session!NoAnswers,
           Session!Leave
  <1> QED
    BY <1>1, <1>2, <1>3

\* One request is under way while the client is in time.
LEMMA OneRequestKeeps == OneRequest /\ [Session!Next]_(Session!vars) => OneRequest'
  <1> SUFFICES ASSUME OneRequest, [Session!Next]_(Session!vars), Session!InTime' PROVE Places'
    BY SessionTyped DEF OneRequest
  <1>1. Session!InTime /\ ~Session!GiveUp /\ (Session!Retry => Session!AtWork)
    BY InTimeBefore DEF OneRequest
  <1>2. SessionTypes /\ SessionTypes' /\ Places
    BY <1>1, SessionTyped DEF OneRequest
  <1>3. CASE UNCHANGED Session!vars
    BY <1>2, <1>3 DEF Session!vars, Session!client, Session!server, Places, Between, Taken,
                      TheOne, Working, Waiting
  <1> QED
    BY <1>1, <1>2, <1>3, ClientKeeps, MspKeeps, FeedKeeps, AnswerKeeps, WorkReplies
       DEF Session!Next, Session!ServerStep

\* A client that gives up nothing and repeats a request only while it is in work, reads
\* the answer of the request it waits for (msp_stub_fc.py, _fourway): for any number of
\* ESCs, frames and repetitions.
THEOREM ClientInStep == Spec => []InStep
  <1>1. Session!Init => OneRequest
    BY DEF Session!Init, OneRequest, SessionTypes, Places, Between
  <1>2. OneRequest => InStep
    <2> SUFFICES ASSUME OneRequest, Session!InTime, Waiting, fourwayAnswers # <<>>
                 PROVE  Head(fourwayAnswers) = fourwayWant.req
      BY DEF InStep, Session!InStep, Waiting
    <2>1. fourwayAnswers = <<fourwayWant.req>>
      BY DEF OneRequest, Places, Between, Taken, Working
    <2> QED
      BY <2>1
  <1> QED
    BY <1>1, <1>2, OneRequestKeeps, SessionBehaves, PTL

\* An ESC whose bootloader answered last is connected, until the interface is left; then
\* it runs its application unless the wire lost its RUN, and the thread is on its way out
\* of the session.
Left ==
    /\ fourwayConnected \subseteq Escs /\ fourwayInTouch \subseteq Escs
    /\ DOMAIN fourwayEsc = Escs
    /\ fourwayPc \in {"feed", "work", "answer", "leave"} => fourwayInFourway
    /\ ~fourwayExited => fourwayInTouch \subseteq fourwayConnected
    /\ fourwayExited => /\ \A e \in fourwayInTouch \ fourwayUnheard : fourwayEsc[e] = "app"
                        /\ fourwayPc \notin {"feed", "work"}
                        /\ fourwayInFourway => fourwayPc \in {"answer", "leave"}
Releases == OneRequest /\ (Session!InTime => Left)

\* A frame is worked on in a session that has not been left.
LEMMA WorkKeepsLeft ==
    ASSUME Left, Places, \E left \in BOOLEAN : Session!Replies(left),
           Session!Info \/ Session!InitFlash \/ Session!TestAlive \/ Session!Data
           \/ Session!DeviceReset \/ Session!InterfaceExit
    PROVE  Left'
  <1> USE DEF Session!client
  <1>1. /\ fourwayPc = "work" /\ fourwayPc' \in {"answer", "feed"}
        /\ UNCHANGED fourwayInFourway
    BY DEF Session!Replies
  <1>2. /\ fourwayInFourway /\ ~fourwayExited /\ fourwayInTouch \subseteq fourwayConnected
        /\ fourwayConnected \subseteq Escs /\ DOMAIN fourwayEsc = Escs
    BY <1>1 DEF Left
  <1>3. fourwayCur.kind \in Session!Named => fourwayCur.esc \in Escs
    BY <1>1 DEF Places, Frames
  <1>4. CASE Session!Info
    BY <1>1, <1>2, <1>4 DEF Session!Info, Left
  <1>5. CASE Session!InitFlash
    <2>1. fourwayCur.esc \in Escs
      BY <1>3, <1>5 DEF Session!InitFlash, Session!Named
    <2>2. ~fourwayExited' /\ DOMAIN fourwayEsc' = Escs
      BY <1>2, <1>5 DEF Session!InitFlash
    <2>3. fourwayInTouch' \subseteq fourwayConnected' /\ fourwayConnected' \subseteq Escs
      BY <1>2, <1>5, <2>1 DEF Session!InitFlash
    <2> QED
      BY <1>1, <1>2, <2>2, <2>3 DEF Left
  <1>6. CASE Session!TestAlive
    <2>1. ~fourwayExited' /\ fourwayEsc' = fourwayEsc
      BY <1>2, <1>6 DEF Session!TestAlive
    <2>2. fourwayInTouch' \subseteq fourwayConnected' /\ fourwayConnected' \subseteq Escs
      BY <1>2, <1>6 DEF Session!TestAlive
    <2> QED
      BY <1>1, <1>2, <2>1, <2>2 DEF Left
  <1>9. CASE Session!Data
    <2>1. ~fourwayExited' /\ fourwayEsc' = fourwayEsc
      BY <1>2, <1>9 DEF Session!Data
    <2>2. fourwayInTouch' \subseteq fourwayConnected' /\ fourwayConnected' \subseteq Escs
      BY <1>2, <1>9 DEF Session!Data
    <2> QED
      BY <1>1, <1>2, <2>1, <2>2 DEF Left
  <1>7. CASE Session!DeviceReset
    <2>1. ~fourwayExited' /\ DOMAIN fourwayEsc' = Escs
      BY <1>2, <1>7 DEF Session!DeviceReset
    <2>2. fourwayInTouch' \subseteq fourwayConnected' /\ fourwayConnected' \subseteq Escs
      BY <1>2, <1>7 DEF Session!DeviceReset
    <2> QED
      BY <1>1, <1>2, <2>1, <2>2 DEF Left
  <1>8. CASE Session!InterfaceExit
    <2>1. /\ fourwayExited' /\ fourwayConnected' = {} /\ fourwayInTouch' = fourwayInTouch
          /\ fourwayPc' = "answer"
      BY <1>8 DEF Session!InterfaceExit, Session!Replies
    <2>2. PICK lost \in SUBSET fourwayConnected :
            /\ fourwayEsc' = [e \in Escs |-> IF e \in fourwayConnected \ lost THEN "app" ELSE fourwayEsc[e]]
            /\ fourwayUnheard' = fourwayUnheard \cup lost
      BY <1>8 DEF Session!InterfaceExit
    <2>3. /\ DOMAIN fourwayEsc' = Escs
          /\ \A e \in fourwayInTouch \ fourwayUnheard' : fourwayEsc'[e] = "app"
      BY <1>2, <2>2
    <2> QED
      BY <1>1, <1>2, <2>1, <2>3 DEF Left
  <1> QED
    BY <1>4, <1>5, <1>6, <1>7, <1>8, <1>9

\* What an ESC in touch runs is settled when the interface is left.
LEMMA ReleasesKeep == Releases /\ [Session!Next]_(Session!vars) => Releases'
  <1> SUFFICES ASSUME Releases, [Session!Next]_(Session!vars), Session!InTime' PROVE Left'
    BY OneRequestKeeps DEF Releases
  <1>1. Session!InTime
    BY InTimeBefore DEF Releases, OneRequest
  <1>2. Left /\ Places
    BY <1>1 DEF Releases, OneRequest
  <1> USE DEF Session!server, Session!client
  <1>3. CASE \/ Session!Info \/ Session!InitFlash \/ Session!TestAlive \/ Session!Data
             \/ Session!DeviceReset \/ Session!InterfaceExit
    BY <1>2, <1>3, WorkReplies, WorkKeepsLeft
  <1>4. CASE Session!HandlePassthrough
    BY <1>2, <1>4 DEF Session!HandlePassthrough, Left
  <1>5. CASE Session!Leave
    BY <1>2, <1>5 DEF Session!Leave, Left
  <1>6. CASE \/ Session!ReadChunk \/ Session!SkipInMsp \/ Session!HandleMsp \/ Session!MspDone
             \/ Session!SkipInFourway \/ Session!TakeFrame \/ Session!NoMoreFrames
             \/ Session!NoAnswers
    BY <1>2, <1>6 DEF Session!ReadChunk, Session!SkipInMsp, Session!HandleMsp,
           Session!MspDone, Session!SkipInFourway, Session!TakeFrame, Session!NoMoreFrames,
           Session!NoAnswers, Left
  <1>7. CASE Session!WriteAnswers
    <2>1. fourwayPc' \in {"leave", "read"}
      BY <1>2, <1>7, AnswerKeeps
    <2>2. /\ fourwayPc = "answer" /\ fourwayPc' \in {"leave", "feed"}
          /\ UNCHANGED <<fourwayInFourway, fourwayConnected, fourwayExited, fourwayEsc,
                         fourwayInTouch, fourwayUnheard>>
      BY <1>7 DEF Session!WriteAnswers
    <2> QED
      BY <1>2, <2>1, <2>2 DEF Left
  <1>8. CASE \/ Session!Ask \/ Session!Retry \/ Session!GiveUp \/ Session!Receive
             \/ UNCHANGED Session!vars
    BY <1>2, <1>8 DEF Session!Ask, Session!Retry, Session!GiveUp, Session!Receive,
           Session!vars, Left
  <1> QED
    BY <1>3, <1>4, <1>5, <1>6, <1>7, <1>8 DEF Session!Next, Session!ServerStep

\* When the 4-way interface has been left, every ESC whose bootloader answered last runs
\* its application, unless the wire lost the RUN it was sent (fourway_server.py,
\* cmd_InterfaceExit): for any number of ESCs and frames of a client that is in time.
THEOREM ExitsRelease == Spec => ExitReleases
  <1>1. Session!Init => Releases
    BY DEF Session!Init, Releases, Left, OneRequest, SessionTypes, Places, Between
  <1>2. Releases => (Session!Leave /\ fourwayExited /\ Session!InTime =>
                        \A e \in fourwayInTouch \ fourwayUnheard : fourwayEsc[e] = "app")
    BY DEF Releases, Left
  <1>3. Releases /\ [Session!Next]_(Session!vars)
          => [Session!Leave /\ fourwayExited /\ Session!InTime =>
                \A e \in fourwayInTouch \ fourwayUnheard : fourwayEsc[e] = "app"]_(Session!vars)
    BY <1>2
  <1> QED
    BY <1>1, <1>3, ReleasesKeep, SessionBehaves, PTL DEF ExitReleases, Session!ExitReleases

------------------------------------------------------------------------------
(* The DFU loader.                                                            *)

\* What a loader and its hosts do is what DfuDevice says.
LEMMA DfuBehaves == Spec => Dfu!Init /\ [][Dfu!Next]_(Dfu!vars)
  <1>1. Init => Dfu!Init
    BY DEF Init
  <1>2. [Next]_vars => [Dfu!Next]_(Dfu!vars)
    BY DEF Next, DfuSteps, FcSteps, SessionSteps, BridgeSteps, LabSteps, ServerSteps, vars,
           dfuVars, Dfu!vars, Dfu!device, Dfu!client
  <1> QED
    BY <1>1, <1>2, PTL DEF Spec

\* The loader tells the launcher when it has been asked, and once.
Told ==
    /\ ~dfuScheduled => ~dfuTimer /\ dfuManifested = 0
    /\ dfuTimer => dfuManifested = 0
    /\ dfuManifested <= 1

\* Where a host is, or is about to be if the request it waits for went well; a rejected
\* request shows in the status it asks for next.
At == IF dfuHpc = "poll" /\ dfuStatus = "ok" THEN dfuNext ELSE dfuHpc

\* The first n units of the host's image are in flash.
Holds(n) ==
    \A u \in dfuImage.base .. dfuImage.base + n - 1 : u \in Dfu!Units /\ dfuFlash[u] = dfuHost

\* What has been written is there, and the pointer where the host set it.
Written ==
    /\ At \in {"query", "erase", "address"} => dfuBlock = 0
    /\ At \in {"write", "verify", "read"} => dfuAddress = dfuImage.base
    /\ At = "write" => Holds(dfuBlock)
    /\ At \in {"verify", "read", "leave", "empty", "final"} => Holds(dfuImage.len)

DfuInv ==
    /\ Dfu!TypeOK /\ Told /\ Written
    /\ dfuBlock < dfuImage.len
    /\ dfuHpc # "away" => dfuHost # 0
    /\ dfuHpc = "poll" => /\ dfuState \in {"dnload_sync", "dnbusy", "error"}
                          /\ dfuNext \in {"erase", "address", "write", "verify", "empty"}

LEMMA NextBlock ==
    ASSUME NEW n \in Nat \ {0}, NEW b \in Nat, b < n
    PROVE  (b + 1) % n = IF b + 1 = n THEN 0 ELSE b + 1
  OBVIOUS

\* The image a host has is one of the images.
LEMMA ImageIs ==
    ASSUME DfuInv
    PROVE  /\ dfuImage.base \in Nat /\ dfuImage.len \in Nat \ {0}
           /\ dfuBlock \in Nat /\ dfuHost \in Nat /\ dfuManifested \in Nat
           /\ FlashUnits \in Nat /\ DfuHosts \in Nat
  BY LoaderAssumption DEF DfuInv, Dfu!TypeOK, Dfu!Hosts

\* Who asks for the manifestation starts the timer, unless that was done.
LEMMA Scheduled ==
    ASSUME DfuInv, Dfu!ScheduleManifest, UNCHANGED dfuManifested
    PROVE  Told' /\ dfuScheduled' \in BOOLEAN /\ dfuTimer' \in BOOLEAN
  <1>1. CASE dfuScheduled
    BY <1>1 DEF Dfu!ScheduleManifest, DfuInv, Dfu!TypeOK, Told
  <1>2. CASE ~dfuScheduled
    BY <1>2 DEF Dfu!ScheduleManifest, DfuInv, Dfu!TypeOK, Told
  <1> QED
    BY <1>1, <1>2

\* The status a host is told keeps what is in flash.
LEMMA StatusTells ==
    ASSUME DfuInv, Dfu!GetStatus, UNCHANGED dfuManifested
    PROVE  /\ Told'
           /\ dfuState' \in Dfu!States /\ dfuState' \notin {"dnload_sync", "manifest_sync"}
           /\ dfuBusyOnce' \in BOOLEAN /\ dfuScheduled' \in BOOLEAN /\ dfuTimer' \in BOOLEAN
           /\ UNCHANGED <<dfuStatus, dfuAddress, dfuFlash>>
           /\ dfuState' = "manifest" => dfuState \in {"manifest", "manifest_sync"}
           /\ dfuState = "idle" => dfuState' = "idle"
  <1>1. CASE dfuState = "manifest_sync"
    BY <1>1, Scheduled DEF Dfu!GetStatus, Dfu!device, DfuInv, Dfu!TypeOK, Dfu!States
  <1>2. CASE dfuState \in {"dnload_sync", "dnbusy"}
    <2>1. /\ dfuState' \in {"dnbusy", "dnload_idle"} /\ dfuBusyOnce' \in BOOLEAN
          /\ UNCHANGED <<dfuStatus, dfuAddress, dfuFlash, dfuScheduled, dfuTimer>>
      BY <1>2 DEF Dfu!GetStatus, DfuInv, Dfu!TypeOK
    <2> QED
      BY <1>2, <2>1 DEF DfuInv, Dfu!TypeOK, Told, Dfu!States
  <1>3. CASE dfuState \notin {"dnload_sync", "dnbusy", "manifest_sync"}
    <2>1. UNCHANGED <<dfuState, dfuStatus, dfuBusyOnce, dfuAddress, dfuFlash, dfuScheduled, dfuTimer>>
      BY <1>3 DEF Dfu!GetStatus, Dfu!device
    <2> QED
      BY <1>3, <2>1 DEF DfuInv, Dfu!TypeOK, Told
  <1> QED
    BY <1>1, <1>2, <1>3

\* Between requests: a host that connects, hangs up, or sees the loader go.
LEMMA HostsComeAndGo ==
    ASSUME DfuInv, Dfu!Connect \/ Dfu!HangUp \/ Dfu!TimerFires \/ UNCHANGED Dfu!vars
    PROVE  DfuInv'
  <1>1. CASE Dfu!Connect
    BY <1>1, ImageIs, LoaderAssumption
    DEF Dfu!Connect, DfuInv, Dfu!TypeOK, Told, Written, At, Holds, Dfu!Present, Dfu!device, Dfu!Hosts, Dfu!HostStates
  <1>2. CASE Dfu!HangUp
    BY <1>2, ImageIs
    DEF Dfu!HangUp, Dfu!Goes, DfuInv, Dfu!TypeOK, Told, Written, At, Holds, Dfu!device, Dfu!HostStates
  <1>3. CASE Dfu!TimerFires
    <2>1. /\ dfuTimer /\ dfuTimer' = FALSE /\ dfuManifested' = dfuManifested + 1
          /\ dfuHpc' = IF dfuHpc \in {"done", "failed"} THEN dfuHpc ELSE "away"
          /\ UNCHANGED <<dfuState, dfuStatus, dfuBusyOnce, dfuAddress, dfuFlash, dfuScheduled,
                         dfuHost, dfuImage, dfuNext, dfuBlock>>
      BY <1>3 DEF Dfu!TimerFires, Dfu!device
    <2>2. Told'
      BY <2>1, ImageIs DEF DfuInv, Told
    <2>3. Written'
      BY <2>1 DEF Written, At
    <2>4. dfuManifested' \in Nat /\ dfuHpc' \in Dfu!HostStates
      BY <2>1, ImageIs DEF DfuInv, Dfu!TypeOK, Dfu!HostStates
    <2>5. Dfu!TypeOK'
      BY <2>1, <2>4 DEF DfuInv, Dfu!TypeOK
    <2>6. dfuHpc' # "poll" /\ (dfuHpc' # "away" => dfuHpc # "away")
      BY <2>1
    <2> QED
      BY <2>1, <2>2, <2>3, <2>5, <2>6 DEF DfuInv
  <1>4. CASE UNCHANGED Dfu!vars
    BY <1>4 DEF Dfu!vars, Dfu!device, Dfu!client, DfuInv, Dfu!TypeOK, Told, Written, At, Holds
  <1> QED
    BY <1>1, <1>2, <1>3, <1>4

\* A host that asks for the status of a loader that it has given nothing to do.
LEMMA QueryKeeps ==
    ASSUME DfuInv, Dfu!Query
    PROVE  DfuInv'
  <1>1. /\ dfuHpc = "query" /\ dfuHpc' \in {"query", "erase", "failed"}
        /\ UNCHANGED <<dfuHost, dfuImage, dfuNext, dfuBlock, dfuManifested>>
    BY DEF Dfu!Query, Dfu!Goes
  <1>2. /\ Told' /\ dfuState' \in Dfu!States /\ dfuBusyOnce' \in BOOLEAN
        /\ dfuScheduled' \in BOOLEAN /\ dfuTimer' \in BOOLEAN
        /\ UNCHANGED <<dfuAddress, dfuFlash>> /\ dfuStatus' \in {"ok", "address"}
    <2>1. CASE Dfu!GetStatus
      BY <1>1, <2>1, StatusTells DEF DfuInv, Dfu!TypeOK
    <2>2. CASE Dfu!ClearStatus \/ Dfu!Abort
      BY <1>1, <2>2 DEF Dfu!ClearStatus, Dfu!Abort, DfuInv, Dfu!TypeOK, Told, Dfu!States
    <2>3. CASE Dfu!Detach
      BY <1>1, <2>3, Scheduled DEF Dfu!Detach, DfuInv, Dfu!TypeOK
    <2> QED
      BY <2>1, <2>2, <2>3 DEF Dfu!Query
  <1>3. Dfu!TypeOK'
    BY <1>1, <1>2 DEF DfuInv, Dfu!TypeOK, Dfu!HostStates
  <1>4. Written'
    BY <1>1 DEF Written, At, DfuInv
  <1> QED
    BY <1>1, <1>2, <1>3, <1>4 DEF DfuInv

\* A request that is answered when it was checked only, and told in the next status.
LEMMA Asked ==
    ASSUME DfuInv, Written', dfuHpc # "away", dfuHpc' = "poll",
           dfuNext' \in {"erase", "address", "write", "verify", "empty"},
           dfuState' \in {"dnload_sync", "error"}, dfuStatus' \in {"ok", "address"},
           dfuBusyOnce' \in BOOLEAN, dfuAddress' \in 0..FlashUnits,
           dfuFlash' \in [Dfu!Units -> Dfu!Hosts \cup {0}], dfuBlock' \in 0..dfuImage.len - 1,
           UNCHANGED <<dfuHost, dfuImage, dfuManifested, dfuScheduled, dfuTimer>>
    PROVE  DfuInv'
  <1>1. Dfu!TypeOK'
    BY ImageIs DEF DfuInv, Dfu!TypeOK, Dfu!States, Dfu!HostStates
  <1>2. Told'
    BY DEF DfuInv, Told
  <1> QED
    BY <1>1, <1>2, ImageIs DEF DfuInv

LEMMA EraseKeeps ==
    ASSUME DfuInv, Dfu!Erase
    PROVE  DfuInv'
  <1>0. /\ dfuHpc = "erase" /\ dfuBlock = 0
        /\ UNCHANGED <<dfuHost, dfuImage, dfuBlock, dfuManifested>>
    BY DEF Dfu!Erase, DfuInv, Written, At, Dfu!Waits, Dfu!Goes
  <1>1. ASSUME NEW a, Dfu!ErasePage(a), dfuHpc' = "poll", dfuNext' \in {"erase", "address"}
        PROVE  DfuInv'
    <2>1. /\ UNCHANGED <<dfuAddress, dfuScheduled, dfuTimer>> /\ dfuStatus' \in {"ok", "address"}
          /\ dfuState' \in {"dnload_sync", "error"} /\ dfuBusyOnce' \in BOOLEAN
      BY <1>1 DEF Dfu!ErasePage, Dfu!Accepted, Dfu!Rejected, DfuInv, Dfu!TypeOK
    <2>2. dfuFlash' \in [Dfu!Units -> Dfu!Hosts \cup {0}]
      <3>1. CASE dfuFlash' = [u \in Dfu!Units |-> IF u \in FlashSectors[a] THEN 0 ELSE dfuFlash[u]]
        BY <3>1 DEF DfuInv, Dfu!TypeOK
      <3>2. CASE dfuFlash' = dfuFlash
        BY <3>2 DEF DfuInv, Dfu!TypeOK
      <3> QED
        BY <1>1, <3>1, <3>2 DEF Dfu!ErasePage, Dfu!Rejected
    <2>3. Written'
      BY <1>0, <1>1 DEF Written, At
    <2>4. dfuBlock' \in 0..dfuImage.len - 1 /\ dfuAddress' \in 0..FlashUnits
      BY <1>0, <2>1, ImageIs DEF DfuInv, Dfu!TypeOK
    <2> QED
      BY <1>0, <1>1, <2>1, <2>2, <2>3, <2>4, Asked
  <1>2. CASE Dfu!Goes("address") /\ UNCHANGED <<Dfu!device, dfuTimer>>
    BY <1>0, <1>2 DEF Dfu!Goes, Dfu!device, DfuInv, Dfu!TypeOK, Told, Written, At, Dfu!HostStates
  <1> QED
    BY <1>1, <1>2 DEF Dfu!Erase, Dfu!Waits

\* The address pointer is set for the download, and once more for the empty one.
LEMMA PointKeeps ==
    ASSUME DfuInv, Dfu!Point
    PROVE  DfuInv'
  <1>1. /\ dfuHpc \in {"address", "leave"} /\ dfuHpc' = "poll"
        /\ dfuNext' = IF dfuHpc = "address" THEN "write" ELSE "empty"
        /\ UNCHANGED <<dfuHost, dfuImage, dfuBlock, dfuManifested>>
    BY DEF Dfu!Point, Dfu!Waits
  <1>2. /\ UNCHANGED <<dfuFlash, dfuScheduled, dfuTimer>> /\ dfuBusyOnce' \in BOOLEAN
        /\ \/ dfuState' = "dnload_sync" /\ dfuAddress' = dfuImage.base /\ dfuStatus' = dfuStatus
              /\ dfuImage.base + 0 <= FlashUnits
           \/ dfuState' = "error" /\ dfuAddress' = dfuAddress /\ dfuStatus' = "address"
    BY DEF Dfu!Point, Dfu!SetAddress, Dfu!Valid, Dfu!Accepted, Dfu!Rejected, DfuInv, Dfu!TypeOK
  <1>3. Written'
    BY <1>1, <1>2, ImageIs DEF Written, At, Holds, DfuInv, Dfu!Units
  <1>4. /\ dfuBlock' \in 0..dfuImage.len - 1 /\ dfuAddress' \in 0..FlashUnits
        /\ dfuStatus' \in {"ok", "address"}
    BY <1>1, <1>2, ImageIs DEF DfuInv, Dfu!TypeOK
  <1>5. dfuFlash' \in [Dfu!Units -> Dfu!Hosts \cup {0}]
    BY <1>2 DEF DfuInv, Dfu!TypeOK
  <1> QED
    BY <1>1, <1>2, <1>3, <1>4, <1>5, Asked

\* A block goes behind those that are written; a rejected one ends the download.
LEMMA WriteKeeps ==
    ASSUME DfuInv, Dfu!Write
    PROVE  DfuInv'
  <1>0. /\ dfuImage.base \in Nat /\ dfuImage.len \in Nat \ {0} /\ dfuBlock \in Nat
        /\ dfuBlock < dfuImage.len /\ FlashUnits \in Nat
    BY ImageIs DEF DfuInv
  <1>1. /\ dfuHpc = "write" /\ dfuHpc' = "poll"
        /\ dfuNext' = IF dfuBlock + 1 = dfuImage.len THEN "verify" ELSE "write"
        /\ dfuBlock' = IF dfuBlock + 1 = dfuImage.len THEN 0 ELSE dfuBlock + 1
        /\ UNCHANGED <<dfuHost, dfuImage, dfuManifested>>
    BY <1>0, NextBlock DEF Dfu!Write
  <1>2. dfuAddress = dfuImage.base /\ Holds(dfuBlock) /\ dfuHost \in Dfu!Hosts
    BY <1>1 DEF DfuInv, Written, At, Dfu!TypeOK
  <1> DEFINE t == dfuImage.base + dfuBlock
  <1>3. Dfu!Target(dfuBlock + 2) = t
    BY <1>0, <1>2 DEF Dfu!Target
  <1>4. /\ UNCHANGED <<dfuAddress, dfuScheduled, dfuTimer>> /\ dfuBusyOnce' \in BOOLEAN
        /\ \/ /\ t + 1 <= FlashUnits /\ dfuState' = "dnload_sync" /\ dfuStatus' = dfuStatus
              /\ dfuFlash' = [u \in Dfu!Units |-> IF u = t THEN dfuHost ELSE dfuFlash[u]]
           \/ dfuState' = "error" /\ dfuStatus' = "address" /\ dfuFlash' = dfuFlash
    BY <1>3 DEF Dfu!Write, Dfu!WriteBlock, Dfu!Valid, Dfu!Accepted, Dfu!Rejected, DfuInv, Dfu!TypeOK
  <1>5. Written'
    <2>1. CASE dfuStatus' = "address"
      BY <1>1, <2>1 DEF Written, At
    <2>2. ASSUME dfuStatus' # "address",
                 NEW u \in dfuImage.base .. dfuImage.base + (dfuBlock + 1) - 1
          PROVE  u \in Dfu!Units /\ dfuFlash'[u] = dfuHost
      <3>1. dfuFlash' = [v \in Dfu!Units |-> IF v = t THEN dfuHost ELSE dfuFlash[v]]
        BY <1>4, <2>2
      <3>2. t + 1 <= FlashUnits
        BY <1>4, <2>2
      <3>3. u \in Dfu!Units /\ (u # t => u \in dfuImage.base .. dfuImage.base + dfuBlock - 1)
        BY <1>0, <2>2, <3>2 DEF Dfu!Units
      <3> QED
        BY <1>2, <3>1, <3>3 DEF Holds
    <2>3. ASSUME dfuStatus' # "address"
          PROVE  Written'
      <3> DEFINE n == dfuBlock + 1
      <3>1. \A u \in dfuImage.base .. dfuImage.base + n - 1 :
                u \in Dfu!Units /\ dfuFlash'[u] = dfuHost
        BY <2>2, <2>3
      <3>2. dfuBlock + 1 # dfuImage.len => Holds(dfuBlock)'
        BY <1>1, <3>1 DEF Holds, Dfu!Units
      <3>3. dfuBlock + 1 = dfuImage.len => Holds(dfuImage.len)'
        BY <1>1, <3>1 DEF Holds, Dfu!Units
      <3>4. dfuAddress' = dfuImage'.base
        BY <1>1, <1>2, <1>4
      <3> QED
        BY <1>1, <3>2, <3>3, <3>4 DEF Written, At
    <2> QED
      BY <1>4, <2>1, <2>3
  <1>6. /\ dfuBlock' \in 0..dfuImage.len - 1 /\ dfuAddress' \in 0..FlashUnits
        /\ dfuStatus' \in {"ok", "address"}
    BY <1>0, <1>1, <1>4 DEF DfuInv, Dfu!TypeOK
  <1>7. dfuFlash' \in [Dfu!Units -> Dfu!Hosts \cup {0}]
    <2>1. CASE dfuFlash' = [u \in Dfu!Units |-> IF u = t THEN dfuHost ELSE dfuFlash[u]]
      BY <1>2, <2>1 DEF DfuInv, Dfu!TypeOK
    <2>2. CASE dfuFlash' = dfuFlash
      BY <2>2 DEF DfuInv, Dfu!TypeOK
    <2> QED
      BY <1>4, <2>1, <2>2
  <1> QED
    BY <1>1, <1>4, <1>5, <1>6, <1>7, Asked

\* A host is told how its request went, and goes on if it went well.
LEMMA PollKeeps ==
    ASSUME DfuInv, Dfu!Poll
    PROVE  DfuInv'
  <1>1. /\ dfuHpc = "poll" /\ UNCHANGED <<dfuHost, dfuImage, dfuNext, dfuBlock, dfuManifested>>
        /\ \/ dfuStatus = "ok" /\ dfuState' = "dnload_idle" /\ dfuHpc' = dfuNext
           \/ dfuStatus = "ok" /\ dfuState' = "dnbusy" /\ dfuHpc' = "poll"
           \/ dfuHpc' = "failed"
    BY DEF Dfu!Poll, Dfu!Goes
  <1>2. /\ Told' /\ dfuState' \in Dfu!States /\ dfuBusyOnce' \in BOOLEAN
        /\ dfuScheduled' \in BOOLEAN /\ dfuTimer' \in BOOLEAN
        /\ UNCHANGED <<dfuStatus, dfuAddress, dfuFlash>>
    BY <1>1, StatusTells DEF Dfu!Poll
  <1>3. Dfu!TypeOK'
    BY <1>1, <1>2 DEF DfuInv, Dfu!TypeOK, Dfu!HostStates
  <1>4. Written'
    BY <1>1, <1>2 DEF Written, At, Holds, DfuInv
  <1> QED
    BY <1>1, <1>2, <1>3, <1>4 DEF DfuInv

\* The image is read back, with the pointer that it was written with, and the download
\* is ended: nothing changes what is in flash.
LEMMA ReadKeeps ==
    ASSUME DfuInv, Dfu!Read
    PROVE  DfuInv' /\ dfuState' # "error" /\ dfuFlash[Dfu!Target(dfuBlock + 2)] = dfuHost
  <1>0. /\ dfuImage.base \in Nat /\ dfuImage.len \in Nat \ {0} /\ dfuBlock \in Nat
        /\ dfuBlock < dfuImage.len /\ FlashUnits \in Nat
    BY ImageIs DEF DfuInv
  <1>1. dfuAddress = dfuImage.base /\ Holds(dfuImage.len) /\ dfuHpc = "read"
    BY DEF Dfu!Read, DfuInv, Written, At
  <1>2. Dfu!Target(dfuBlock + 2) = dfuImage.base + dfuBlock
    BY <1>0, <1>1 DEF Dfu!Target
  <1>3. /\ dfuImage.base + dfuBlock \in Dfu!Units
        /\ dfuFlash[dfuImage.base + dfuBlock] = dfuHost
    BY <1>0, <1>1 DEF Holds
  <1>4. Dfu!Valid(Dfu!Target(dfuBlock + 2), 1)
    BY <1>0, <1>2, <1>3 DEF Dfu!Valid, Dfu!Units
  <1>5. /\ dfuState' = "upload_idle"
        /\ UNCHANGED <<dfuStatus, dfuBusyOnce, dfuAddress, dfuFlash, dfuScheduled, dfuTimer>>
    BY <1>4 DEF Dfu!Read, Dfu!Upload
  <1>6. /\ dfuHpc' \in {"failed", "leave", "read"}
        /\ dfuBlock' = IF dfuBlock + 1 = dfuImage.len THEN 0 ELSE dfuBlock + 1
        /\ UNCHANGED <<dfuHost, dfuImage, dfuNext, dfuManifested>>
    BY <1>0, NextBlock DEF Dfu!Read
  <1>7. Written'
    BY <1>1, <1>5, <1>6 DEF Written, At, Holds
  <1>8. dfuBlock' \in Nat /\ dfuBlock' < dfuImage'.len
    BY <1>0, <1>6
  <1>9. Dfu!TypeOK' /\ Told'
    BY <1>5, <1>6, <1>8 DEF DfuInv, Dfu!TypeOK, Dfu!States, Dfu!HostStates, Told
  <1> QED
    BY <1>1, <1>2, <1>3, <1>5, <1>6, <1>7, <1>8, <1>9 DEF DfuInv

LEMMA EndKeeps ==
    ASSUME DfuInv, Dfu!Verify \/ Dfu!Leave \/ Dfu!Final
    PROVE  DfuInv'
  <1>1. /\ dfuHpc \in {"verify", "empty", "final"}
        /\ dfuHpc' = CASE dfuHpc = "verify" -> "read" [] dfuHpc = "empty" -> "final"
                       [] dfuHpc = "final" -> "done"
        /\ UNCHANGED <<dfuHost, dfuImage, dfuNext, dfuBlock, dfuManifested>>
    BY DEF Dfu!Verify, Dfu!Leave, Dfu!Final, Dfu!Goes
  <1>2. /\ Told' /\ dfuState' \in Dfu!States /\ dfuBusyOnce' \in BOOLEAN
        /\ dfuScheduled' \in BOOLEAN /\ dfuTimer' \in BOOLEAN
        /\ UNCHANGED <<dfuStatus, dfuAddress, dfuFlash>>
    <2>1. CASE Dfu!Final
      BY <1>1, <2>1, StatusTells DEF Dfu!Final
    <2>2. CASE Dfu!Verify \/ Dfu!Leave
      <3>1. /\ dfuState' \in {"idle", "manifest_sync"} /\ dfuBusyOnce' \in {FALSE, dfuBusyOnce}
            /\ UNCHANGED <<dfuStatus, dfuAddress, dfuFlash, dfuScheduled, dfuTimer>>
        BY <2>2 DEF Dfu!Verify, Dfu!Leave, Dfu!Abort, Dfu!EmptyDownload
      <3> QED
        BY <1>1, <3>1 DEF DfuInv, Dfu!TypeOK, Dfu!States, Told
    <2> QED
      BY <2>1, <2>2
  <1>3. Dfu!TypeOK'
    BY <1>1, <1>2 DEF DfuInv, Dfu!TypeOK, Dfu!HostStates
  <1>4. Written'
    BY <1>1, <1>2 DEF Written, At, Holds, DfuInv
  <1> QED
    BY <1>1, <1>2, <1>3, <1>4 DEF DfuInv

LEMMA LoaderKeeps == DfuInv /\ [Dfu!Next]_(Dfu!vars) => DfuInv'
  BY HostsComeAndGo, QueryKeeps, EraseKeeps, PointKeeps, WriteKeeps, PollKeeps, ReadKeeps, EndKeeps
  DEF Dfu!Next, Dfu!HostStep

LEMMA LoaderBegins == Dfu!Init => DfuInv
  <1> SUFFICES ASSUME Dfu!Init PROVE DfuInv
    OBVIOUS
  <1>1. dfuImage.base \in Nat /\ dfuImage.len \in Nat \ {0} /\ FlashUnits \in Nat
    BY LoaderAssumption DEF Dfu!Init
  <1>2. dfuFlash \in [Dfu!Units -> Dfu!Hosts \cup {0}]
    BY DEF Dfu!Init
  <1>3. /\ dfuBusyOnce = FALSE /\ dfuScheduled = FALSE /\ dfuTimer = FALSE
        /\ dfuAddress = 0 /\ 0 \in 0..FlashUnits
    BY <1>1 DEF Dfu!Init
  <1>4. Dfu!TypeOK
    BY <1>2, <1>3 DEF Dfu!Init, Dfu!TypeOK, Dfu!States, Dfu!HostStates
  <1> QED
    BY <1>1, <1>4 DEF Dfu!Init, DfuInv, Told, Written, At

\* The loader starts to manifest for a host that has found its whole image in flash.
LEMMA Manifests ==
    ASSUME DfuInv, [Dfu!Next]_(Dfu!vars), dfuState' = "manifest", dfuState # "manifest"
    PROVE  \A u \in Dfu!Span(dfuImage) : u \in Dfu!Units /\ dfuFlash[u] = dfuHost
  <1>1. ~Dfu!Connect /\ ~Dfu!HangUp /\ ~Dfu!TimerFires /\ ~UNCHANGED Dfu!vars
    BY DEF Dfu!Connect, Dfu!HangUp, Dfu!TimerFires, Dfu!vars, Dfu!device
  <1>2. ~Dfu!Erase /\ ~Dfu!Point /\ ~Dfu!Write /\ ~Dfu!Read
    BY DEF Dfu!Erase, Dfu!Point, Dfu!Write, Dfu!Read, Dfu!ErasePage, Dfu!SetAddress,
           Dfu!WriteBlock, Dfu!Upload, Dfu!Accepted, Dfu!Rejected, Dfu!device
  <1>3. ~Dfu!Verify /\ ~Dfu!Leave
    BY DEF Dfu!Verify, Dfu!Leave, Dfu!Abort, Dfu!EmptyDownload
  <1>4. ~Dfu!Query
    BY DEF Dfu!Query, Dfu!GetStatus, Dfu!ClearStatus, Dfu!Abort, Dfu!Detach, Dfu!device
  <1>5. ~Dfu!Poll
    BY StatusTells DEF Dfu!Poll, DfuInv
  <1>6. Dfu!Final
    BY <1>1, <1>2, <1>3, <1>4, <1>5 DEF Dfu!Next, Dfu!HostStep
  <1> QED
    BY <1>6 DEF Dfu!Final, DfuInv, Written, At, Holds, Dfu!Span

\* The loader tells the launcher once, manifests a whole image of the host that asks for
\* it, and gives a host back what it downloaded (dfu.py, _schedule_manifest, _get_status,
\* _upload), for any flash and sectors, any images and any number of hosts.
THEOREM DfuIsSafe == Spec => DfuLoads
  <1>1. DfuInv => Dfu!ManifestsOnce
    BY ImageIs DEF DfuInv, Told, Dfu!ManifestsOnce
  <1>2. DfuInv /\ [Dfu!Next]_(Dfu!vars)
          => [dfuState' = "manifest" /\ dfuState # "manifest" =>
                \A u \in Dfu!Span(dfuImage) : u \in Dfu!Units /\ dfuFlash[u] = dfuHost]_(Dfu!vars)
    BY Manifests
  <1>3. DfuInv /\ [Dfu!Next]_(Dfu!vars)
          => [Dfu!Read => dfuState' # "error" /\ dfuFlash[Dfu!Target(dfuBlock + 2)] = dfuHost]_(Dfu!vars)
    BY ReadKeeps
  <1> QED
    BY <1>1, <1>2, <1>3, LoaderBegins, LoaderKeeps, DfuBehaves, PTL
    DEF DfuLoads, Dfu!ManifestsWhole, Dfu!ReadsBack

------------------------------------------------------------------------------
(* The single wire.                                                           *)

\* What happens on the single wire is what DirectBridge says.
LEMMA BridgeBehaves == Spec => Bridge!Init /\ [][Bridge!Next]_(Bridge!vars)
  <1>1. Init => Bridge!Init
    BY DEF Init
  <1>2. [Next]_vars => [Bridge!Next]_(Bridge!vars)
    BY DEF Next, DfuSteps, FcSteps, SessionSteps, BridgeSteps, LabSteps, ServerSteps, vars,
           bridgeVars, Bridge!vars
  <1> QED
    BY <1>1, <1>2, PTL DEF Spec

\* A nonempty set of naturals has a least.
LEMMA Least ==
    ASSUME NEW S, S \subseteq Nat, S # {}
    PROVE  \E m \in S : \A k \in S : m =< k
  <1>1. PICK m \in S : \A k \in S : <<k, m>> \notin OpToRel(<, Nat)
    BY WFMin, NatLessThanWellFounded
  <1>2. ASSUME NEW k \in S PROVE m =< k
    <2>1. k \in Nat /\ m \in Nat
      OBVIOUS
    <2>2. ~(k < m)
      BY <1>1, <2>1, <1>2 DEF OpToRel
    <2> QED
      BY <2>1, <2>2
  <1> QED
    BY <1>2

\* A sequence that is not empty is one with an element appended.
LEMMA LastOf ==
    ASSUME NEW S, NEW s \in Seq(S), s # <<>>
    PROVE  \E t \in Seq(S), x \in S :
               s = Append(t, x) /\ Len(t) = Len(s) - 1 /\ x = s[Len(s)]
                 /\ \A i \in 1..Len(t) : t[i] = s[i]
  <1> DEFINE n == Len(s)
             t == [i \in 1..(n - 1) |-> s[i]]
  <1>1. n \in Nat \ {0}
    OBVIOUS
  <1>2. t \in Seq(S) /\ Len(t) = n - 1 /\ s[n] \in S
    BY <1>1
  <1>3. s = Append(t, s[n])
    BY <1>1, <1>2
  <1> QED
    BY <1>2, <1>3

\* The echoes in what was written, one write after another.
LEMMA EchoesOneByOne ==
    ASSUME NEW s \in Seq(Int)
    PROVE  \E h : /\ Bridge!Echoed(s) = h[Len(s)] /\ h[0] = <<>>
                  /\ \A n \in 1..Len(s) :
                         h[n] = IF s[n] > 0 THEN Append(h[n - 1], s[n]) ELSE h[n - 1]
  <1> DEFINE N == Len(s)
             Step(f, n) == IF n = 0 THEN <<>>
                           ELSE IF s[n] > 0 THEN Append(f[n - 1], s[n]) ELSE f[n - 1]
             Does(n) == \E f : f = [i \in 0..n |-> Step(f, i)]
             Not == {n \in Nat : ~Does(n)}
  <1>1. N \in Nat
    OBVIOUS
  <1>2. Not = {}
    <2> SUFFICES ASSUME Not # {} PROVE FALSE
      OBVIOUS
    <2>1. PICK m \in Not : \A k \in Not : m =< k
      BY Least
    <2> HIDE DEF Not
    <2>2. m \in Nat /\ ~Does(m)
      BY <2>1 DEF Not
    <2>3. m # 0
      <3>1. [i \in 0..0 |-> <<>>] = [i \in 0..0 |-> Step([j \in 0..0 |-> <<>>], i)]
        OBVIOUS
      <3> QED
        BY <2>2, <3>1
    <2>4. m - 1 \in Nat /\ m - 1 \notin Not
      BY <2>1, <2>2, <2>3
    <2>5. PICK f : f = [i \in 0..(m - 1) |-> Step(f, i)]
      BY <2>4 DEF Not
    <2> DEFINE g == [i \in 0..m |-> IF i = m THEN Step(f, m) ELSE f[i]]
    <2>6. \A i \in 0..m : g[i] = Step(g, i)
      <3> SUFFICES ASSUME NEW i \in 0..m PROVE g[i] = Step(g, i)
        OBVIOUS
      <3>1. i # 0 => i - 1 \in 0..(m - 1) /\ g[i - 1] = f[i - 1]
        BY <2>2, <2>3
      <3>2. ASSUME i # m PROVE f[i] = Step(f, i)
        <4> HIDE DEF Step
        <4>1. i \in 0..(m - 1)
          BY <2>2, <2>3, <3>2
        <4> QED
          BY <2>5, <4>1
      <3> QED
        BY <3>1, <3>2
    <2>7. g = [i \in 0..m |-> Step(g, i)]
      BY <2>6
    <2> QED
      BY <2>2, <2>7
  <1>3. Does(N)
    <2> HIDE DEF Does
    <2> QED
      BY <1>1, <1>2
  <1> DEFINE h == CHOOSE f : f = [i \in 0..N |-> Step(f, i)]
  <1>4. h = [i \in 0..N |-> Step(h, i)]
    BY <1>3
  <1>5. Bridge!Echoed(s) = h[N]
    BY DEF Bridge!Echoed
  <1> HIDE DEF h
  <1>6. ASSUME NEW n \in 0..N PROVE h[n] = Step(h, n)
    <2> HIDE DEF Step
    <2> QED
      BY <1>4
  <1>7. h[0] = <<>>
    BY <1>1, <1>6
  <1>8. ASSUME NEW n \in 1..N
        PROVE  h[n] = IF s[n] > 0 THEN Append(h[n - 1], s[n]) ELSE h[n - 1]
    BY <1>1, <1>6
  <1> QED
    BY <1>5, <1>7, <1>8

\* Where nothing was written, there is no echo.
LEMMA EchoesOfNone == Bridge!Echoed(<<>>) = <<>>
  <1>1. <<>> \in Seq(Int) /\ Len(<<>>) = 0
    OBVIOUS
  <1> QED
    BY <1>1, EchoesOneByOne

\* Of one byte more, there is an echo more if it is one.
LEMMA EchoesOfMore ==
    ASSUME NEW s \in Seq(Int), NEW x \in Int
    PROVE  Bridge!Echoed(Append(s, x)) =
               IF x > 0 THEN Append(Bridge!Echoed(s), x) ELSE Bridge!Echoed(s)
  <1> DEFINE N == Len(s)
             more == Append(s, x)
  <1>1. /\ N \in Nat /\ more \in Seq(Int) /\ Len(more) = N + 1 /\ more[N + 1] = x
        /\ \A n \in 1..N : more[n] = s[n]
    OBVIOUS
  <1> HIDE DEF N, more
  <1>2. PICK h : /\ Bridge!Echoed(s) = h[N] /\ h[0] = <<>>
                 /\ \A n \in 1..N :
                        h[n] = IF s[n] > 0 THEN Append(h[n - 1], s[n]) ELSE h[n - 1]
    BY EchoesOneByOne DEF N
  <1>3. PICK g : /\ Bridge!Echoed(more) = g[Len(more)] /\ g[0] = <<>>
                 /\ \A n \in 1..Len(more) :
                        g[n] = IF more[n] > 0 THEN Append(g[n - 1], more[n]) ELSE g[n - 1]
    BY <1>1, EchoesOneByOne
  <1> DEFINE Differ == {n \in 0..N : g[n] # h[n]}
  <1>4. Differ = {}
    <2> SUFFICES ASSUME Differ # {} PROVE FALSE
      OBVIOUS
    <2>1. Differ \subseteq Nat
      BY <1>1
    <2> HIDE DEF Differ
    <2>2. PICK m \in Differ : \A k \in Differ : m =< k
      BY <2>1, Least
    <2>3. m \in 0..N /\ g[m] # h[m]
      BY DEF Differ
    <2>4. m # 0
      BY <1>2, <1>3, <2>3
    <2>5. m \in 1..N /\ m - 1 \in 0..N /\ ~(m =< m - 1) /\ m \in 1..(N + 1)
      BY <1>1, <2>3, <2>4
    <2>6. m - 1 \notin Differ
      BY <2>2, <2>5
    <2>7. g[m - 1] = h[m - 1] /\ more[m] = s[m]
      BY <1>1, <2>5, <2>6 DEF Differ
    <2>8. h[m] = IF s[m] > 0 THEN Append(h[m - 1], s[m]) ELSE h[m - 1]
      BY <1>2, <2>5
    <2>9. g[m] = IF more[m] > 0 THEN Append(g[m - 1], more[m]) ELSE g[m - 1]
      BY <1>1, <1>3, <2>5
    <2> QED
      BY <2>3, <2>7, <2>8, <2>9
  <1>5. g[N] = h[N]
    BY <1>1, <1>4
  <1>6. g[N + 1] = IF x > 0 THEN Append(g[N], x) ELSE g[N]
    <2>1. N + 1 \in 1..(N + 1) /\ (N + 1) - 1 = N
      BY <1>1
    <2> QED
      BY <1>1, <1>3, <2>1
  <1>7. Bridge!Echoed(s) = h[N] /\ Bridge!Echoed(more) = g[N + 1]
    BY <1>1, <1>2, <1>3
  <1>8. Bridge!Echoed(more) = IF x > 0 THEN Append(Bridge!Echoed(s), x) ELSE Bridge!Echoed(s)
    BY <1>5, <1>6, <1>7
  <1> QED
    BY <1>8 DEF more

\* Echoes are bytes; all of what is echo, and nothing of what is answer, is echo.
LEMMA EchoesOf ==
    ASSUME NEW s \in Seq(Int)
    PROVE  /\ Bridge!Echoed(s) \in Seq(Int)
           /\ (\A i \in 1..Len(s) : s[i] > 0) => Bridge!Echoed(s) = s
           /\ (\A i \in 1..Len(s) : s[i] < 0) => Bridge!Echoed(s) = <<>>
  <1> DEFINE Good(r) == /\ Bridge!Echoed(r) \in Seq(Int)
                        /\ (\A i \in 1..Len(r) : r[i] > 0) => Bridge!Echoed(r) = r
                        /\ (\A i \in 1..Len(r) : r[i] < 0) => Bridge!Echoed(r) = <<>>
             Bad == {n \in Nat : \E r \in Seq(Int) : Len(r) = n /\ ~Good(r)}
  <1>1. Bad = {}
    <2> SUFFICES ASSUME Bad # {} PROVE FALSE
      OBVIOUS
    <2> HIDE DEF Good
    <2>1. PICK m \in Bad : \A k \in Bad : m =< k
      BY Least
    <2>2. PICK r \in Seq(Int) : Len(r) = m /\ ~Good(r)
      BY <2>1
    <2>3. Good(<<>>)
      <3>1. <<>> \in Seq(Int)
        OBVIOUS
      <3> QED
        BY <3>1, EchoesOfNone DEF Good
    <2>4. PICK t \in Seq(Int), x \in Int :
              r = Append(t, x) /\ Len(t) = Len(r) - 1 /\ x = r[Len(r)]
                /\ \A i \in 1..Len(t) : t[i] = r[i]
      BY <2>2, <2>3, LastOf
    <2>5. m \in Nat /\ Len(t) \in Nat /\ Len(t) = m - 1
      BY <2>2, <2>4
    <2>6. Good(t)
      BY <2>1, <2>5
    <2>7. Bridge!Echoed(r) = IF x > 0 THEN Append(Bridge!Echoed(t), x) ELSE Bridge!Echoed(t)
      BY <2>4, EchoesOfMore
    <2>8. Bridge!Echoed(t) \in Seq(Int) /\ Bridge!Echoed(r) \in Seq(Int)
      BY <2>6, <2>7, AppendProperties DEF Good
    <2>9. ASSUME \A i \in 1..Len(r) : r[i] > 0 PROVE Bridge!Echoed(r) = r
      <3>1. x > 0 /\ \A i \in 1..Len(t) : t[i] > 0
        BY <2>2, <2>4, <2>5, <2>9
      <3> QED
        BY <2>4, <2>6, <2>7, <3>1 DEF Good
    <2>10. ASSUME \A i \in 1..Len(r) : r[i] < 0 PROVE Bridge!Echoed(r) = <<>>
      <3>1. x < 0 /\ \A i \in 1..Len(t) : t[i] < 0
        BY <2>2, <2>4, <2>5, <2>10
      <3> QED
        BY <2>4, <2>6, <2>7, <3>1 DEF Good
    <2>11. Good(r)
      BY <2>8, <2>9, <2>10 DEF Good
    <2> QED
      BY <2>2, <2>11
  <1>2. Good(s)
    <2> HIDE DEF Good
    <2>1. Len(s) \in Nat
      OBVIOUS
    <2> QED
      BY <1>1, <2>1
  <1> QED
    BY <1>2

\* A byte more behind two sequences is one behind the second.
LEMMA MoreJoined ==
    ASSUME NEW s \in Seq(Int), NEW t \in Seq(Int), NEW x \in Int
    PROVE  Append(s \o t, x) = s \o Append(t, x)
  <1>1. s \o t \in Seq(Int) /\ <<x>> \in Seq(Int)
    OBVIOUS
  <1>2. Append(s \o t, x) = (s \o t) \o <<x>> /\ Append(t, x) = t \o <<x>>
    BY <1>1, AppendIsConcat
  <1>3. (s \o t) \o <<x>> = s \o (t \o <<x>>)
    BY <1>1, ConcatAssociative
  <1> QED
    BY <1>2, <1>3

\* The echoes in what was written in two parts.
LEMMA EchoesJoined ==
    ASSUME NEW s \in Seq(Int), NEW t \in Seq(Int)
    PROVE  Bridge!Echoed(s \o t) = Bridge!Echoed(s) \o Bridge!Echoed(t)
  <1> DEFINE Good(r) == Bridge!Echoed(s \o r) = Bridge!Echoed(s) \o Bridge!Echoed(r)
             Bad == {n \in Nat : \E r \in Seq(Int) : Len(r) = n /\ ~Good(r)}
  <1>1. Bad = {}
    <2> SUFFICES ASSUME Bad # {} PROVE FALSE
      OBVIOUS
    <2> HIDE DEF Good
    <2>1. PICK m \in Bad : \A k \in Bad : m =< k
      BY Least
    <2>2. PICK r \in Seq(Int) : Len(r) = m /\ ~Good(r)
      BY <2>1
    <2>3. Good(<<>>)
      <3>1. s \o <<>> = s /\ Bridge!Echoed(s) \o <<>> = Bridge!Echoed(s)
        BY EchoesOf
      <3> QED
        BY <3>1, EchoesOfNone DEF Good
    <2>4. PICK u \in Seq(Int), x \in Int :
              r = Append(u, x) /\ Len(u) = Len(r) - 1 /\ x = r[Len(r)]
                /\ \A i \in 1..Len(u) : u[i] = r[i]
      BY <2>2, <2>3, LastOf
    <2>5. m \in Nat /\ Len(u) \in Nat /\ Len(u) = m - 1
      BY <2>2, <2>4
    <2>6. Good(u)
      BY <2>1, <2>5
    <2>7. s \o r = Append(s \o u, x) /\ s \o u \in Seq(Int)
      <3>1. s \o u \in Seq(Int)
        BY ConcatProperties
      <3>2. Append(s \o u, x) = s \o Append(u, x)
        BY MoreJoined
      <3> QED
        BY <2>4, <3>1, <3>2
    <2>8. /\ Bridge!Echoed(r) = IF x > 0 THEN Append(Bridge!Echoed(u), x) ELSE Bridge!Echoed(u)
          /\ Bridge!Echoed(s \o r) =
                 IF x > 0 THEN Append(Bridge!Echoed(s \o u), x) ELSE Bridge!Echoed(s \o u)
      BY <2>4, <2>7, EchoesOfMore
    <2>9. Bridge!Echoed(s) \in Seq(Int) /\ Bridge!Echoed(u) \in Seq(Int)
      BY EchoesOf
    <2>10. Append(Bridge!Echoed(s) \o Bridge!Echoed(u), x) =
               Bridge!Echoed(s) \o Append(Bridge!Echoed(u), x)
      <3> DEFINE a == Bridge!Echoed(s)
                 b == Bridge!Echoed(u)
      <3>1. a \in Seq(Int) /\ b \in Seq(Int)
        BY <2>9
      <3> HIDE DEF a, b
      <3>2. Append(a \o b, x) = a \o Append(b, x)
        BY <3>1, MoreJoined
      <3> QED
        BY <3>2 DEF a, b
    <2>11. Good(r)
      BY <2>6, <2>8, <2>10 DEF Good
    <2> QED
      BY <2>2, <2>11
  <1>2. Good(t)
    <2> HIDE DEF Good
    <2>1. Len(t) \in Nat
      OBVIOUS
    <2> QED
      BY <1>1, <2>1
  <1> QED
    BY <1>2

\* Chunks in a list, one after another.
LEMMA FlattenedOneByOne ==
    ASSUME NEW S, NEW ss \in Seq(Seq(S)), ss # <<>>
    PROVE  \E f : /\ Bridge!FlattenSeq(ss) = f[Len(ss)] /\ f[1] = ss[1]
                  /\ \A n \in 2..Len(ss) : f[n] = f[n - 1] \o ss[n]
  <1> DEFINE N == Len(ss)
             Step(f, n) == IF n = 1 THEN ss[n] ELSE f[n - 1] \o ss[n]
             Does(n) == \E f : f = [i \in 1..n |-> Step(f, i)]
             Not == {n \in Nat : ~Does(n)}
  <1>1. N \in Nat /\ N # 0
    OBVIOUS
  <1>2. Not = {}
    <2> SUFFICES ASSUME Not # {} PROVE FALSE
      OBVIOUS
    <2>1. PICK m \in Not : \A k \in Not : m =< k
      BY Least
    <2> HIDE DEF Not
    <2>2. m \in Nat /\ ~Does(m)
      BY <2>1 DEF Not
    <2>3. m # 0
      <3>1. [i \in 1..0 |-> <<>>] = [i \in 1..0 |-> Step([j \in 1..0 |-> <<>>], i)]
        OBVIOUS
      <3> QED
        BY <2>2, <3>1
    <2>4. m - 1 \in Nat /\ m - 1 \notin Not
      BY <2>1, <2>2, <2>3
    <2>5. PICK f : f = [i \in 1..(m - 1) |-> Step(f, i)]
      BY <2>4 DEF Not
    <2> DEFINE g == [i \in 1..m |-> IF i = m THEN Step(f, m) ELSE f[i]]
    <2>6. \A i \in 1..m : g[i] = Step(g, i)
      <3> SUFFICES ASSUME NEW i \in 1..m PROVE g[i] = Step(g, i)
        OBVIOUS
      <3>1. i # 1 => i - 1 \in 1..(m - 1) /\ g[i - 1] = f[i - 1]
        BY <2>2, <2>3
      <3>2. ASSUME i # m PROVE f[i] = Step(f, i)
        <4> HIDE DEF Step
        <4>1. i \in 1..(m - 1)
          BY <2>2, <2>3, <3>2
        <4> QED
          BY <2>5, <4>1
      <3> QED
        BY <3>1, <3>2
    <2>7. g = [i \in 1..m |-> Step(g, i)]
      BY <2>6
    <2> QED
      BY <2>2, <2>7
  <1>3. Does(N)
    <2> HIDE DEF Does
    <2> QED
      BY <1>1, <1>2
  <1> DEFINE f == CHOOSE f : f = [i \in 1..N |-> Step(f, i)]
  <1>4. f = [i \in 1..N |-> Step(f, i)]
    BY <1>3
  <1>5. Bridge!FlattenSeq(ss) = f[N]
    BY <1>1 DEF Bridge!FlattenSeq
  <1> HIDE DEF f
  <1>6. ASSUME NEW n \in 1..N PROVE f[n] = Step(f, n)
    <2> HIDE DEF Step
    <2> QED
      BY <1>4
  <1>7. f[1] = ss[1]
    BY <1>1, <1>6
  <1>8. ASSUME NEW n \in 2..N PROVE f[n] = f[n - 1] \o ss[n]
    <2>1. n \in 1..N /\ n # 1
      BY <1>1, <1>8
    <2>2. f[n] = Step(f, n)
      BY <1>6, <2>1
    <2> QED
      BY <2>1, <2>2
  <1> QED
    BY <1>5, <1>7, <1>8

\* A chunk more is put behind the others.
LEMMA FlattenedMore ==
    ASSUME NEW S, NEW ss \in Seq(Seq(S)), NEW c \in Seq(S)
    PROVE  /\ Bridge!FlattenSeq(<<>>) = <<>>
           /\ ss # <<>> => Bridge!FlattenSeq(Append(ss, c)) = Bridge!FlattenSeq(ss) \o c
           /\ ss = <<>> => Bridge!FlattenSeq(Append(ss, c)) = c
  <1>1. Bridge!FlattenSeq(<<>>) = <<>>
    BY DEF Bridge!FlattenSeq
  <1> DEFINE N == Len(ss)
             more == Append(ss, c)
  <1>2. /\ N \in Nat /\ more \in Seq(Seq(S)) /\ Len(more) = N + 1 /\ more[N + 1] = c
        /\ more # <<>> /\ \A n \in 1..N : more[n] = ss[n]
    BY AppendProperties
  <1>3. ss = <<>> <=> N = 0
    OBVIOUS
  <1> HIDE DEF N, more
  <1>4. PICK g : /\ Bridge!FlattenSeq(more) = g[Len(more)] /\ g[1] = more[1]
                 /\ \A n \in 2..Len(more) : g[n] = g[n - 1] \o more[n]
    BY <1>2, FlattenedOneByOne
  <1>5. CASE ss = <<>>
    <2>1. Bridge!FlattenSeq(more) = c
      BY <1>2, <1>3, <1>4, <1>5
    <2> QED
      BY <1>1, <1>5, <2>1 DEF more
  <1>6. CASE ss # <<>>
    <2>1. PICK f : /\ Bridge!FlattenSeq(ss) = f[N] /\ f[1] = ss[1]
                   /\ \A n \in 2..N : f[n] = f[n - 1] \o ss[n]
      BY <1>6, FlattenedOneByOne DEF N
    <2> DEFINE Differ == {n \in 1..N : g[n] # f[n]}
    <2>2. Differ = {}
      <3> SUFFICES ASSUME Differ # {} PROVE FALSE
        OBVIOUS
      <3>1. Differ \subseteq Nat
        BY <1>2
      <3> HIDE DEF Differ
      <3>2. PICK m \in Differ : \A k \in Differ : m =< k
        BY <3>1, Least
      <3>3. m \in 1..N /\ g[m] # f[m]
        BY DEF Differ
      <3>4. m # 1
        BY <1>2, <1>4, <2>1, <3>3
      <3>5. m \in 2..N /\ m - 1 \in 1..N /\ ~(m =< m - 1) /\ m \in 2..(N + 1)
        BY <1>2, <3>3, <3>4
      <3>6. m - 1 \notin Differ
        BY <3>2, <3>5
      <3>7. g[m - 1] = f[m - 1] /\ more[m] = ss[m]
        BY <1>2, <3>3, <3>5, <3>6 DEF Differ
      <3>8. f[m] = f[m - 1] \o ss[m]
        BY <2>1, <3>5
      <3>9. g[m] = g[m - 1] \o more[m]
        BY <1>2, <1>4, <3>5
      <3> QED
        BY <3>3, <3>7, <3>8, <3>9
    <2>3. g[N] = f[N]
      <3>1. N \in 1..N
        BY <1>2, <1>3, <1>6
      <3> QED
        BY <2>2, <3>1
    <2>4. g[N + 1] = g[N] \o c
      <3>1. N + 1 \in 2..(N + 1) /\ (N + 1) - 1 = N
        BY <1>2, <1>3, <1>6
      <3> QED
        BY <1>2, <1>4, <3>1
    <2>5. Bridge!FlattenSeq(ss) = f[N] /\ Bridge!FlattenSeq(more) = g[N + 1]
      BY <1>2, <1>4, <2>1
    <2>6. Bridge!FlattenSeq(more) = Bridge!FlattenSeq(ss) \o c
      BY <2>3, <2>4, <2>5
    <2> QED
      BY <1>1, <1>6, <2>6 DEF more
  <1> QED
    BY <1>5, <1>6

\* Sequences of T are joined from either side.
Groups(T) == \A s, t, u \in T : (s \o t) \o u = s \o (t \o u)

\* It does not matter which of two joints is made first.
LEMMA Grouped == \A S : Groups(Seq(S))
  BY ConcatAssociative DEF Groups

\* What chunks of bytes are put together to is bytes.
LEMMA Flattened ==
    ASSUME NEW S, NEW ss \in Seq(Seq(S))
    PROVE  Bridge!FlattenSeq(ss) \in Seq(S)
  <1> DEFINE Good(r) == Bridge!FlattenSeq(r) \in Seq(S)
             Bad == {n \in Nat : \E r \in Seq(Seq(S)) : Len(r) = n /\ ~Good(r)}
  <1>1. Bad = {}
    <2> SUFFICES ASSUME Bad # {} PROVE FALSE
      OBVIOUS
    <2> HIDE DEF Good
    <2>1. PICK m \in Bad : \A k \in Bad : m =< k
      BY Least
    <2>2. PICK r \in Seq(Seq(S)) : Len(r) = m /\ ~Good(r)
      BY <2>1
    <2>3. <<>> \in Seq(S) /\ <<>> \in Seq(Seq(S))
      OBVIOUS
    <2>4. Good(<<>>)
      BY <2>3, FlattenedMore DEF Good
    <2>5. PICK u \in Seq(Seq(S)), x \in Seq(S) : r = Append(u, x) /\ Len(u) = Len(r) - 1
      <3> DEFINE T == Seq(S)
      <3>1. r \in Seq(T) /\ r # <<>>
        BY <2>2, <2>4
      <3> HIDE DEF T
      <3>2. \E u \in Seq(T), x \in T : r = Append(u, x) /\ Len(u) = Len(r) - 1
        BY <3>1, LastOf
      <3> QED
        BY <3>2 DEF T
    <2>6. m \in Nat /\ Len(u) \in Nat /\ Len(u) = m - 1
      BY <2>2, <2>5
    <2>7. Good(u)
      BY <2>1, <2>6
    <2>8. Good(r)
      <3>1. /\ u # <<>> => Bridge!FlattenSeq(Append(u, x)) = Bridge!FlattenSeq(u) \o x
            /\ u = <<>> => Bridge!FlattenSeq(Append(u, x)) = x
        BY FlattenedMore
      <3>2. Bridge!FlattenSeq(u) \in Seq(S)
        BY <2>7 DEF Good
      <3>3. Bridge!FlattenSeq(u) \o x \in Seq(S)
        BY <3>2, ConcatProperties
      <3> QED
        BY <2>5, <3>1, <3>3 DEF Good
    <2> QED
      BY <2>2, <2>8
  <1>2. Good(ss)
    <2> HIDE DEF Good
    <2>1. Len(ss) \in Nat
      OBVIOUS
    <2> QED
      BY <1>1, <2>1
  <1> QED
    BY <1>2

\* Whether or not there were others.
LEMMA FlattenedAppended ==
    ASSUME NEW S, NEW ss \in Seq(Seq(S)), NEW c \in Seq(S)
    PROVE  /\ Bridge!FlattenSeq(Append(ss, c)) = Bridge!FlattenSeq(ss) \o c
           /\ Bridge!FlattenSeq(<<>>) = <<>> /\ Bridge!FlattenSeq(<<c>>) = c
  <1>1. <<>> \o c = c /\ <<c>> = Append(<<>>, c) /\ <<>> \in Seq(Seq(S))
    BY ConcatEmptySeq
  <1>2. Bridge!FlattenSeq(<<>>) = <<>> /\ Bridge!FlattenSeq(Append(<<>>, c)) = c
    BY <1>1, FlattenedMore
  <1>3. CASE ss = <<>>
    BY <1>1, <1>2, <1>3
  <1>4. CASE ss # <<>>
    BY <1>1, <1>2, <1>4, FlattenedMore
  <1> QED
    BY <1>3, <1>4

\* Two lists of chunks, one behind the other.
LEMMA FlattenedJoined ==
    ASSUME NEW S, NEW rr \in Seq(Seq(S)), NEW ss \in Seq(Seq(S))
    PROVE  Bridge!FlattenSeq(rr \o ss) = Bridge!FlattenSeq(rr) \o Bridge!FlattenSeq(ss)
  <1> DEFINE T == Seq(S)
             TT == Seq(Seq(S))
  <1>a. Groups(T) /\ Groups(TT)
    BY Grouped
  <1> DEFINE F(r) == Bridge!FlattenSeq(r)
             Good(r) == F(rr \o r) = F(rr) \o F(r)
             Bad == {n \in Nat : \E r \in Seq(Seq(S)) : Len(r) = n /\ ~Good(r)}
  <1>1. Bad = {}
    <2> SUFFICES ASSUME Bad # {} PROVE FALSE
      OBVIOUS
    <2> HIDE DEF Good
    <2>1. PICK m \in Bad : \A k \in Bad : m =< k
      BY Least
    <2>2. PICK r \in Seq(Seq(S)) : Len(r) = m /\ ~Good(r)
      BY <2>1
    <2>3. Good(<<>>)
      <3>1. rr \o <<>> = rr
        BY ConcatEmptySeq
      <3>2. F(<<>>) = <<>>
        BY DEF Bridge!FlattenSeq
      <3>3. F(rr) \in Seq(S)
        BY Flattened
      <3>4. F(rr) \o <<>> = F(rr)
        BY <3>3, ConcatEmptySeq
      <3> HIDE DEF F
      <3> QED
        BY <3>1, <3>2, <3>4 DEF Good
    <2>4. PICK u \in Seq(Seq(S)), x \in Seq(S) : r = Append(u, x) /\ Len(u) = Len(r) - 1
      <3>1. r \in Seq(T) /\ r # <<>>
        BY <2>2, <2>3
      <3> HIDE DEF T
      <3>2. \E u \in Seq(T), x \in T : r = Append(u, x) /\ Len(u) = Len(r) - 1
        BY <3>1, LastOf
      <3> QED
        BY <3>2 DEF T
    <2>5. m \in Nat /\ Len(u) \in Nat /\ Len(u) = m - 1
      BY <2>2, <2>4
    <2>6. F(rr \o u) = F(rr) \o F(u)
      <3>1. Good(u)
        BY <2>1, <2>5
      <3> QED
        BY <3>1 DEF Good
    <2>7. rr \o u \in Seq(Seq(S)) /\ rr \o r = Append(rr \o u, x)
      <3>1. rr \o u \in Seq(Seq(S))
        BY ConcatProperties
      <3>2. <<x>> \in Seq(Seq(S))
        OBVIOUS
      <3>3. Append(rr \o u, x) = (rr \o u) \o <<x>>
        BY <3>1, AppendIsConcat
      <3>4. Append(u, x) = u \o <<x>>
        BY AppendIsConcat
      <3>5. (rr \o u) \o <<x>> = rr \o (u \o <<x>>)
        <4>1. rr \in TT /\ u \in TT /\ <<x>> \in TT
          BY <3>2
        <4> HIDE DEF TT
        <4> QED
          BY <1>a, <4>1, Zenon DEF Groups
      <3> QED
        BY <2>4, <3>1, <3>3, <3>4, <3>5
    <2>8. F(rr \o r) = F(rr \o u) \o x /\ F(r) = F(u) \o x
      <3>1. F(Append(u, x)) = F(u) \o x
        BY FlattenedAppended
      <3>2. F(Append(rr \o u, x)) = F(rr \o u) \o x
        BY <2>7, FlattenedAppended
      <3> HIDE DEF F
      <3> QED
        BY <2>4, <2>7, <3>1, <3>2
    <2>9. (F(rr) \o F(u)) \o x = F(rr) \o (F(u) \o x)
      <3>2. F(rr) \in T
        BY Flattened
      <3>3. F(u) \in T
        BY Flattened
      <3>4. x \in T
        OBVIOUS
      <3> DEFINE a == F(rr)
                 b == F(u)
      <3>5. a \in T /\ b \in T /\ x \in T
        BY <3>2, <3>3, <3>4
      <3>6. Groups(T)
        BY <1>a
      <3> HIDE DEF F, T, a, b
      <3>7. (a \o b) \o x = a \o (b \o x)
        BY <3>5, <3>6, Zenon DEF Groups
      <3> QED
        BY <3>7 DEF a, b
    <2> HIDE DEF F
    <2>10. Good(r)
      BY <2>6, <2>8, <2>9 DEF Good
    <2> QED
      BY <2>2, <2>10
  <1>2. Good(ss)
    <2> HIDE DEF Good
    <2>1. Len(ss) \in Nat
      OBVIOUS
    <2> QED
      BY <1>1, <2>1
  <1> QED
    BY <1>2

\* The beginning of what is put together, and a cut somewhere in the middle of it.
LEMMA Beginning ==
    ASSUME NEW S, NEW w \in Seq(S), NEW z \in Seq(S)
    PROVE  SubSeq(w \o z, 1, Len(w)) = w
  <1>1. CASE w = <<>>
    <2>1. Len(w) = 0
      BY <1>1
    <2>2. SubSeq(w \o z, 1, Len(w)) = <<>>
      BY <2>1, SubSeqEmpty
    <2> QED
      BY <1>1, <2>2
  <1>2. CASE w # <<>>
    <2>1. 1 \in 1..Len(w) /\ Len(w) \in 1..Len(w)
      BY <1>2, EmptySeq
    <2>2. SubSeq(w \o z, 1, Len(w)) = SubSeq(w, 1, Len(w))
      BY <2>1, SubSeqOfConcat1
    <2> QED
      BY <2>2, SubSeqFull
  <1> QED
    BY <1>1, <1>2

\* A cut inside the second of three.
LEMMA Cut ==
    ASSUME NEW S, NEW p \in Seq(S), NEW c \in Seq(S), NEW r \in Seq(S), NEW d \in 0..Len(c)
    PROVE  SubSeq(p \o (c \o r), 1, Len(p) + d) \o (SubSeq(c, d + 1, Len(c)) \o r) = p \o (c \o r)
  <1> DEFINE u == SubSeq(c, 1, d)
             v == SubSeq(c, d + 1, Len(c))
  <1>1. Len(c) \in Nat /\ Len(p) \in Nat /\ \A i \in 1..Len(c) : c[i] \in S
    BY LenProperties, ElementOfSeq
  <1>2. u \in Seq(S) /\ Len(u) = d
    <2>1. \A i \in 1..d : c[i] \in S
      BY <1>1
    <2>2. 1 \in Int /\ d \in Int
      BY <1>1
    <2>3. /\ u \in Seq(S) /\ Len(u) = IF 1 <= d THEN d - 1 + 1 ELSE 0
      BY <2>1, <2>2, SubSeqProperties
    <2> QED
      BY <2>2, <2>3
  <1>3. v \in Seq(S)
    <2>1. \A i \in (d + 1)..Len(c) : c[i] \in S
      BY <1>1
    <2>2. d + 1 \in Int /\ Len(c) \in Int
      BY <1>1
    <2> QED
      BY <2>1, <2>2, SubSeqProperties
  <1>4. u \o v = c
    <2>1. /\ 1 \in 1..(Len(c) + 1) /\ d \in (1 - 1)..Len(c) /\ Len(c) \in d..Len(c)
      BY <1>1
    <2>2. u \o v = SubSeq(c, 1, Len(c))
      BY <2>1, ConcatAdjacentSubSeq
    <2> QED
      BY <2>2, SubSeqFull
  <1> HIDE DEF u, v
  <1>5. /\ p \o u \in Seq(S) /\ v \o r \in Seq(S) /\ Len(p \o u) = Len(p) + d
    BY <1>2, <1>3, ConcatProperties
  <1>6. p \o (c \o r) = (p \o u) \o (v \o r)
    <2>1. (u \o v) \o r = u \o (v \o r)
      <3> DEFINE T == Seq(S)
      <3>1. Groups(T)
        BY Grouped
      <3>2. u \in T /\ v \in T /\ r \in T
        BY <1>2, <1>3
      <3> HIDE DEF T
      <3> QED
        BY <3>1, <3>2, Zenon DEF Groups
    <2>5. p \o (u \o (v \o r)) = (p \o u) \o (v \o r)
      <3> DEFINE T == Seq(S)
      <3>1. Groups(T)
        BY Grouped
      <3>2. p \in T /\ u \in T /\ v \o r \in T
        BY <1>2, <1>5
      <3> HIDE DEF T
      <3> QED
        BY <3>1, <3>2, Zenon DEF Groups
    <2> QED
      BY <1>4, <2>1, <2>5
  <1>7. SubSeq((p \o u) \o (v \o r), 1, Len(p \o u)) = p \o u
    BY <1>5, Beginning
  <1>8. SubSeq(p \o (c \o r), 1, Len(p) + d) \o (v \o r) = p \o (c \o r)
    BY <1>5, <1>6, <1>7
  <1> QED
    BY <1>8 DEF v

\* What Cut says of any sequences of S.
Cuts(S) ==
    \A p, c, r \in Seq(S) : \A d \in 0..Len(c) :
        SubSeq(p \o (c \o r), 1, Len(p) + d) \o (SubSeq(c, d + 1, Len(c)) \o r) = p \o (c \o r)

\* So it is for all there is.
LEMMA CutAnywhere == \A S : Cuts(S)
  BY Cut DEF Cuts

\* What is put together of a list is that of its beginning, of one chunk and of
\* its end.
LEMMA FlattenedAt ==
    ASSUME NEW S, NEW q \in Seq(Seq(S)), NEW k \in 0..(Len(q) - 1)
    PROVE  /\ SubSeq(q, 1, k) \in Seq(Seq(S)) /\ SubSeq(q, k + 2, Len(q)) \in Seq(Seq(S))
           /\ q[k + 1] \in Seq(S)
           /\ Bridge!FlattenSeq(SubSeq(q, 1, k + 1)) =
                  Bridge!FlattenSeq(SubSeq(q, 1, k)) \o q[k + 1]
           /\ Bridge!FlattenSeq(q) =
                  Bridge!FlattenSeq(SubSeq(q, 1, k))
                    \o (q[k + 1] \o Bridge!FlattenSeq(SubSeq(q, k + 2, Len(q))))
  <1> DEFINE T == Seq(S)
  <1>0. Groups(T)
    BY Grouped
  <1> DEFINE P == SubSeq(q, 1, k)
             R == SubSeq(q, k + 2, Len(q))
             c == q[k + 1]
  <1>1. Len(q) \in Nat /\ k \in Nat /\ k + 1 \in 1..Len(q) /\ \A i \in 1..Len(q) : q[i] \in T
    BY LenProperties, ElementOfSeq
  <1>2. P \in Seq(T)
    <2>1. \A i \in 1..k : q[i] \in T
      BY <1>1
    <2>2. 1 \in Int /\ k \in Int
      BY <1>1
    <2> HIDE DEF T
    <2> QED
      BY <2>1, <2>2, SubSeqProperties
  <1>3. R \in Seq(T)
    <2>1. \A i \in (k + 2)..Len(q) : q[i] \in T
      BY <1>1
    <2>2. k + 2 \in Int /\ Len(q) \in Int
      BY <1>1
    <2> HIDE DEF T
    <2> QED
      BY <2>1, <2>2, SubSeqProperties
  <1>4. c \in T
    BY <1>1
  <1>5. SubSeq(q, 1, k + 1) = Append(P, c)
    <2>1. 1 \in 1..Len(q) /\ k + 1 \in 1..Len(q) /\ (k + 1) - 1 = k
      BY <1>1
    <2>2. SubSeq(q, 1, k + 1) = SubSeq(q, 1, (k + 1) - 1) \o <<q[k + 1]>>
      BY <2>1, SubSeqRecursiveSecond
    <2>3. Append(P, c) = P \o <<c>>
      <3> HIDE DEF P, c, T
      <3> QED
        BY <1>2, <1>4, AppendIsConcat
    <2> QED
      BY <2>1, <2>2, <2>3
  <1>6. q = Append(P, c) \o R
    <2>1. 1 \in 1..(Len(q) + 1) /\ k + 1 \in (1 - 1)..Len(q) /\ Len(q) \in (k + 1)..Len(q)
      BY <1>1
    <2>2. SubSeq(q, 1, k + 1) \o SubSeq(q, (k + 1) + 1, Len(q)) = SubSeq(q, 1, Len(q))
      BY <2>1, ConcatAdjacentSubSeq
    <2>3. SubSeq(q, 1, Len(q)) = q
      BY SubSeqFull
    <2>4. (k + 1) + 1 = k + 2
      BY <1>1
    <2> QED
      BY <1>5, <2>2, <2>3, <2>4
  <1> HIDE DEF P, R, c
  <1>7. Append(P, c) \in Seq(T)
    <2> HIDE DEF T
    <2> QED
      BY <1>2, <1>4, AppendProperties
  <1>8. Bridge!FlattenSeq(Append(P, c)) = Bridge!FlattenSeq(P) \o c
    BY <1>2, <1>4, FlattenedAppended
  <1>9. Bridge!FlattenSeq(Append(P, c) \o R) =
            Bridge!FlattenSeq(Append(P, c)) \o Bridge!FlattenSeq(R)
    BY <1>3, <1>7, FlattenedJoined
  <1>10. Bridge!FlattenSeq(P) \in T /\ Bridge!FlattenSeq(R) \in T
    BY <1>2, <1>3, Flattened
  <1>11. (Bridge!FlattenSeq(P) \o c) \o Bridge!FlattenSeq(R) =
             Bridge!FlattenSeq(P) \o (c \o Bridge!FlattenSeq(R))
    <2> HIDE DEF T
    <2> QED
      BY <1>4, <1>10, <1>0, Zenon DEF Groups
  <1>12. Bridge!FlattenSeq(q) = Bridge!FlattenSeq(P) \o (c \o Bridge!FlattenSeq(R))
    BY <1>6, <1>8, <1>9, <1>11
  <1>13. Bridge!FlattenSeq(SubSeq(q, 1, k + 1)) = Bridge!FlattenSeq(P) \o c
    BY <1>5, <1>8
  <1> QED
    BY <1>2, <1>3, <1>4, <1>12, <1>13 DEF P, R, c

\* A set of naturals up to a bound that is not empty has a greatest.
LEMMA Greatest ==
    ASSUME NEW N \in Nat, NEW S, S \subseteq 0..N, S # {}
    PROVE  \E m \in S : \A k \in S : k =< m
  <1> DEFINE L == {i \in Nat : N - i \in S}
  <1>1. PICK j \in S : TRUE
    OBVIOUS
  <1>2. N - j \in Nat /\ N - (N - j) = j
    BY <1>1
  <1>3. L # {} /\ L \subseteq Nat
    BY <1>1, <1>2
  <1> HIDE DEF L
  <1>4. PICK i \in L : \A k \in L : i =< k
    BY <1>3, Least
  <1>5. i \in Nat /\ N - i \in S
    BY <1>4 DEF L
  <1>6. ASSUME NEW k \in S PROVE k =< N - i
    <2>1. k \in 0..N /\ N - k \in Nat /\ N - (N - k) = k
      OBVIOUS
    <2>2. N - k \in L
      BY <2>1 DEF L
    <2>3. i =< N - k
      BY <1>4, <2>2
    <2> QED
      BY <1>5, <2>1, <2>3
  <1> QED
    BY <1>5, <1>6

\* Of the list q, n bytes have gone: all of it, or the first k chunks and d bytes, not
\* all, of the next.
Gone(q, n, k, d) ==
    /\ k \in 0..(Len(q) - 1) /\ d \in 0..(Len(q[k + 1]) - 1)
    /\ n = Len(Bridge!FlattenSeq(SubSeq(q, 1, k))) + d
    /\ Bridge!Dribbled(q, n) =
           <<SubSeq(q[k + 1], d + 1, Len(q[k + 1]))>> \o SubSeq(q, k + 2, Len(q))

\* What is released by count ends before or inside a chunk.
LEMMA DribblesUpTo ==
    ASSUME NEW S, NEW q \in Seq(Seq(S)), NEW n \in 0..Len(Bridge!FlattenSeq(q))
    PROVE  \/ n = Len(Bridge!FlattenSeq(q)) /\ Bridge!Dribbled(q, n) = <<>>
           \/ \E k, d \in Nat : Gone(q, n, k, d)
  <1> DEFINE bytes(i) == Len(Bridge!FlattenSeq(SubSeq(q, 1, i)))
             whole == {i \in 0..Len(q) : bytes(i) <= n}
             k == CHOOSE i \in whole : \A j \in whole : j <= i
             c == q[k + 1]
             d == n - bytes(k)
  <1>1. /\ Len(q) \in Nat /\ Bridge!FlattenSeq(q) \in Seq(S)
        /\ Len(Bridge!FlattenSeq(q)) \in Nat
    <2>1. Bridge!FlattenSeq(q) \in Seq(S)
      BY Flattened
    <2> QED
      BY <2>1, LenProperties
  <1>2. k \in whole /\ \A j \in whole : j <= k
    <2>1. SubSeq(q, 1, 0) = <<>>
      BY SubSeqEmpty
    <2>2. bytes(0) = 0
      BY <2>1 DEF Bridge!FlattenSeq
    <2>3. 0 \in whole
      BY <1>1, <2>2
    <2>4. whole \subseteq 0..Len(q) /\ whole # {}
      BY <2>3
    <2> HIDE DEF whole
    <2>5. \E i \in whole : \A j \in whole : j <= i
      BY <1>1, <2>4, Greatest
    <2> QED
      BY <2>5
  <1>3. k \in 0..Len(q) /\ bytes(k) <= n /\ \A j \in 0..Len(q) : bytes(j) <= n => j <= k
    <2> HIDE DEF k, bytes
    <2> QED
      BY <1>2
  <1>4. Bridge!Dribbled(q, n) =
            IF k = Len(q) THEN <<>>
            ELSE <<SubSeq(q[k + 1], n - bytes(k) + 1, Len(q[k + 1]))>>
                   \o SubSeq(q, k + 2, Len(q))
    BY DEF Bridge!Dribbled
  <1> HIDE DEF k
  <1>5. CASE k = Len(q)
    <2>1. SubSeq(q, 1, k) = q
      BY <1>5, SubSeqFull
    <2>2. Len(Bridge!FlattenSeq(q)) <= n
      BY <1>3, <2>1
    <2>3. n = Len(Bridge!FlattenSeq(q))
      BY <1>1, <2>2
    <2> QED
      BY <1>4, <1>5, <2>3
  <1>6. CASE k # Len(q)
    <2> DEFINE P == SubSeq(q, 1, k)
    <2>1. k \in 0..(Len(q) - 1) /\ k + 1 \in 0..Len(q) /\ ~(k + 1 <= k)
      BY <1>1, <1>3, <1>6
    <2>2. /\ P \in Seq(Seq(S)) /\ c \in Seq(S)
          /\ Bridge!FlattenSeq(SubSeq(q, 1, k + 1)) = Bridge!FlattenSeq(P) \o c
      BY <2>1, FlattenedAt
    <2>3. ~(bytes(k + 1) <= n)
      <3> HIDE DEF bytes
      <3> QED
        BY <1>3, <2>1
    <2>4. Bridge!FlattenSeq(P) \in Seq(S)
      BY <2>2, Flattened
    <2> HIDE DEF P, c
    <2>5. Len(Bridge!FlattenSeq(P) \o c) = Len(Bridge!FlattenSeq(P)) + Len(c)
      BY <2>2, <2>4, ConcatProperties
    <2>6. Len(Bridge!FlattenSeq(P)) \in Nat /\ Len(c) \in Nat
      BY <2>2, <2>4, LenProperties
    <2>7. bytes(k) = Len(Bridge!FlattenSeq(P)) /\ bytes(k + 1) = bytes(k) + Len(c)
      BY <2>2, <2>5 DEF P
    <2>8. d \in 0..(Len(c) - 1) /\ bytes(k) + d = n
      <3> HIDE DEF bytes
      <3> QED
        BY <1>1, <1>3, <2>3, <2>6, <2>7
    <2>9. Bridge!Dribbled(q, n) =
              <<SubSeq(q[k + 1], d + 1, Len(q[k + 1]))>> \o SubSeq(q, k + 2, Len(q))
      BY <1>4, <1>6
    <2> HIDE DEF d
    <2>10. Gone(q, n, k, d)
      BY <2>1, <2>8, <2>9 DEF Gone, c
    <2>11. k \in Nat /\ d \in Nat
      BY <1>1, <2>1, <2>6, <2>8
    <2> QED
      BY <2>10, <2>11
  <1> QED
    BY <1>5, <1>6

\* What has been released by count and what is left of the chunks is what was there.
LEMMA Dribbles ==
    ASSUME NEW S, NEW q \in Seq(Seq(S)), NEW n \in 0..Len(Bridge!FlattenSeq(q))
    PROVE  /\ Bridge!Dribbled(q, n) \in Seq(Seq(S))
           /\ SubSeq(Bridge!FlattenSeq(q), 1, n) \o Bridge!FlattenSeq(Bridge!Dribbled(q, n)) =
                  Bridge!FlattenSeq(q)
  <1>1. Bridge!FlattenSeq(q) \in Seq(S)
    BY Flattened
  <1>2. CASE n = Len(Bridge!FlattenSeq(q)) /\ Bridge!Dribbled(q, n) = <<>>
    <2>1. SubSeq(Bridge!FlattenSeq(q), 1, n) = Bridge!FlattenSeq(q)
      BY <1>1, <1>2, SubSeqFull
    <2>2. Bridge!FlattenSeq(<<>>) = <<>>
      BY DEF Bridge!FlattenSeq
    <2>3. <<>> \in Seq(Seq(S))
      OBVIOUS
    <2>4. Bridge!FlattenSeq(q) \o <<>> = Bridge!FlattenSeq(q)
      BY <1>1, ConcatEmptySeq
    <2> QED
      BY <1>2, <2>1, <2>2, <2>3, <2>4
  <1>3. ASSUME NEW k \in Nat, NEW d \in Nat, Gone(q, n, k, d)
        PROVE  /\ Bridge!Dribbled(q, n) \in Seq(Seq(S))
               /\ SubSeq(Bridge!FlattenSeq(q), 1, n)
                    \o Bridge!FlattenSeq(Bridge!Dribbled(q, n)) = Bridge!FlattenSeq(q)
    <2> DEFINE T == Seq(S)
               P == SubSeq(q, 1, k)
               c == q[k + 1]
               R == SubSeq(q, k + 2, Len(q))
               part1 == SubSeq(c, d + 1, Len(c))
    <2>1. k \in 0..(Len(q) - 1)
      BY <1>3 DEF Gone
    <2>2. /\ P \in Seq(T) /\ R \in Seq(T) /\ c \in T
          /\ Bridge!FlattenSeq(q) =
                 Bridge!FlattenSeq(P) \o (c \o Bridge!FlattenSeq(R))
      BY <2>1, FlattenedAt
    <2>3. /\ d \in 0..(Len(c) - 1) /\ n = Len(Bridge!FlattenSeq(P)) + d
          /\ Bridge!Dribbled(q, n) = <<part1>> \o R
      BY <1>3 DEF Gone
    <2>4. Bridge!FlattenSeq(P) \in T /\ Bridge!FlattenSeq(R) \in T
      BY <2>2, Flattened
    <2> HIDE DEF P, R, c
    <2>5. Len(c) \in Nat /\ d \in 0..Len(c)
      BY <2>2, <2>3, LenProperties
    <2>6. part1 \in T
      <3>1. \A i \in 1..Len(c) : c[i] \in S
        BY <2>2, ElementOfSeq
      <3>2. d + 1 \in Int /\ Len(c) \in Int /\ \A i \in (d + 1)..Len(c) : c[i] \in S
        BY <2>5, <3>1
      <3> QED
        BY <3>2, SubSeqProperties
    <2> DEFINE fp == Bridge!FlattenSeq(P)
               fr == Bridge!FlattenSeq(R)
    <2>7. SubSeq(fp \o (c \o fr), 1, Len(fp) + d) \o (SubSeq(c, d + 1, Len(c)) \o fr) =
              fp \o (c \o fr)
      <3> HIDE DEF fp, fr
      <3>1. fp \in Seq(S) /\ fr \in Seq(S) /\ c \in Seq(S)
        BY <2>2, <2>4 DEF fp, fr
      <3>2. d \in 0..Len(c)
        BY <2>5
      <3>3. Cuts(S)
        BY CutAnywhere
      <3> QED
        BY <3>1, <3>2, <3>3, Zenon DEF Cuts
    <2>8. SubSeq(Bridge!FlattenSeq(q), 1, n) \o (part1 \o fr) = Bridge!FlattenSeq(q)
      BY <2>2, <2>3, <2>7
    <2> HIDE DEF part1
    <2>9. <<part1>> \in Seq(T) /\ Bridge!FlattenSeq(<<part1>>) = part1
      <3>1. <<>> \in Seq(T) /\ <<part1>> \in Seq(T)
        BY <2>6
      <3>2. Bridge!FlattenSeq(<<part1>>) = part1
        BY <2>6, <3>1, FlattenedAppended
      <3> QED
        BY <3>1, <3>2
    <2>10. <<part1>> \o R \in Seq(T)
      <3> HIDE DEF T
      <3> QED
        BY <2>2, <2>9, ConcatProperties
    <2>11. Bridge!FlattenSeq(<<part1>> \o R) = part1 \o fr
      BY <2>2, <2>9, FlattenedJoined
    <2> HIDE DEF fr
    <2> QED
      BY <2>3, <2>8, <2>10, <2>11
  <1> QED
    BY <1>2, <1>3, DribblesUpTo

\* No chunk is left empty in the list.
LEMMA DribblesPieces ==
    ASSUME NEW S, NEW q \in Seq(Seq(S) \ {<<>>}), NEW n \in 0..Len(Bridge!FlattenSeq(q))
    PROVE  Bridge!Dribbled(q, n) \in Seq(Seq(S) \ {<<>>})
  <1> DEFINE T == Seq(S) \ {<<>>}
  <1>1. q \in Seq(Seq(S))
    BY SeqMonotonic
  <1>2. CASE Bridge!Dribbled(q, n) = <<>>
    BY <1>2
  <1>3. ASSUME NEW k \in Nat, NEW d \in Nat, Gone(q, n, k, d)
        PROVE  Bridge!Dribbled(q, n) \in Seq(T)
    <2> DEFINE c == q[k + 1]
               R == SubSeq(q, k + 2, Len(q))
               part1 == SubSeq(c, d + 1, Len(c))
    <2>1. /\ k \in 0..(Len(q) - 1) /\ d \in 0..(Len(c) - 1)
          /\ Bridge!Dribbled(q, n) = <<part1>> \o R
      BY <1>3 DEF Gone
    <2>2. /\ Len(q) \in Nat /\ k + 1 \in 1..Len(q) /\ k + 2 \in Int
          /\ \A i \in 1..Len(q) : q[i] \in T
      <3>1. Len(q) \in Nat
        BY LenProperties
      <3> HIDE DEF T
      <3>2. q \in Seq(T)
        BY DEF T
      <3>3. \A i \in 1..Len(q) : q[i] \in T
        BY <3>2, ElementOfSeq
      <3> QED
        BY <2>1, <3>1, <3>3
    <2>3. c \in Seq(S)
      BY <2>2
    <2>4. R \in Seq(T)
      <3>1. \A i \in (k + 2)..Len(q) : q[i] \in T
        BY <2>2
      <3> HIDE DEF T
      <3> QED
        BY <2>2, <3>1, SubSeqProperties
    <2> HIDE DEF c, R
    <2>5. part1 \in Seq(S) /\ part1 # <<>>
      <3>1. Len(c) \in Nat /\ \A i \in 1..Len(c) : c[i] \in S
        BY <2>3, LenProperties, ElementOfSeq
      <3>2. d + 1 \in Int /\ Len(c) \in Int /\ d + 1 <= Len(c)
        BY <2>1, <3>1
      <3>3. \A i \in (d + 1)..Len(c) : c[i] \in S
        BY <3>1, <3>2
      <3>4. part1 \in Seq(S) /\ Len(part1) = Len(c) - (d + 1) + 1
        BY <3>2, <3>3, SubSeqProperties
      <3>5. Len(c) - (d + 1) + 1 # 0
        BY <3>2
      <3>6. Len(<<>>) = 0
        OBVIOUS
      <3> HIDE DEF part1
      <3>7. Len(part1) # 0
        BY <3>4, <3>5
      <3> QED
        BY <3>4, <3>6, <3>7
    <2>6. <<part1>> \in Seq(T)
      BY <2>5
    <2> HIDE DEF T
    <2>7. <<part1>> \o R \in Seq(T)
      BY <2>4, <2>6, ConcatProperties
    <2> QED
      BY <2>1, <2>7
  <1> QED
    BY <1>1, <1>2, <1>3, DribblesUpTo

\* What is heard as an echo was written.
LEMMA EchoesHeard ==
    ASSUME NEW s \in Seq(Int)
    PROVE  \A j \in 1..Len(Bridge!Echoed(s)) :
               \E i \in 1..Len(s) : s[i] = Bridge!Echoed(s)[j]
  <1> DEFINE E(r) == Bridge!Echoed(r)
             Good(r) == \A j \in 1..Len(E(r)) : \E i \in 1..Len(r) : r[i] = E(r)[j]
             Bad == {n \in Nat : \E r \in Seq(Int) : Len(r) = n /\ ~Good(r)}
  <1>1. Bad = {}
    <2> SUFFICES ASSUME Bad # {} PROVE FALSE
      OBVIOUS
    <2> HIDE DEF Good
    <2>1. PICK m \in Bad : \A k \in Bad : m =< k
      BY Least
    <2>2. PICK r \in Seq(Int) : Len(r) = m /\ ~Good(r)
      BY <2>1
    <2>3. Good(<<>>)
      BY EchoesOfNone DEF Good
    <2>4. PICK u \in Seq(Int), x \in Int :
              r = Append(u, x) /\ Len(u) = Len(r) - 1 /\ x = r[Len(r)]
                /\ \A i \in 1..Len(u) : u[i] = r[i]
      BY <2>2, <2>3, LastOf
    <2>5. m \in Nat /\ Len(u) \in Nat /\ Len(u) = m - 1
      BY <2>2, <2>4
    <2>6. \A j \in 1..Len(E(u)) : \E i \in 1..Len(u) : u[i] = E(u)[j]
      <3>1. Good(u)
        BY <2>1, <2>5
      <3> QED
        BY <3>1 DEF Good
    <2>7. E(r) = IF x > 0 THEN Append(E(u), x) ELSE E(u)
      BY <2>4, EchoesOfMore
    <2>8. E(u) \in Seq(Int)
      BY EchoesOf
    <2>9. ASSUME NEW j \in 1..Len(E(r)) PROVE \E i \in 1..Len(r) : r[i] = E(r)[j]
      <3> HIDE DEF E
      <3>1. /\ Len(r) \in 1..Len(r) /\ r[Len(r)] = x
            /\ \A i \in 1..Len(u) : i \in 1..Len(r) /\ r[i] = u[i]
        BY <2>2, <2>4, <2>5
      <3>2. CASE j \in 1..Len(E(u)) /\ E(r)[j] = E(u)[j]
        BY <2>6, <3>1, <3>2
      <3>3. CASE E(r)[j] = x
        BY <3>1, <3>3
      <3>4. ASSUME x > 0 PROVE E(r)[j] = x \/ (j \in 1..Len(E(u)) /\ E(r)[j] = E(u)[j])
        <4> DEFINE h == E(r)
                   g == E(u)
        <4>1. g \in Seq(Int) /\ h = Append(g, x) /\ j \in 1..Len(h)
          BY <2>7, <2>8, <3>4
        <4> HIDE DEF h, g
        <4>2. /\ Len(h) = Len(g) + 1 /\ h[Len(g) + 1] = x
              /\ \A i \in 1..Len(g) : h[i] = g[i]
          BY <4>1, AppendProperties
        <4>3. Len(g) \in Nat
          BY <4>1
        <4>4. j = Len(g) + 1 \/ j \in 1..Len(g)
          BY <4>1, <4>2, <4>3
        <4>5. j = Len(g) + 1 => h[j] = x
          BY <4>2
        <4>6. j \in 1..Len(g) => h[j] = g[j]
          BY <4>2
        <4>7. h[j] = x \/ (j \in 1..Len(g) /\ h[j] = g[j])
          BY <4>4, <4>5, <4>6
        <4> QED
          BY <4>7 DEF h, g
      <3>5. ASSUME ~(x > 0) PROVE j \in 1..Len(E(u)) /\ E(r)[j] = E(u)[j]
        BY <2>7, <3>5
      <3> QED
        BY <3>2, <3>3, <3>4, <3>5
    <2>10. Good(r)
      BY <2>9 DEF Good
    <2> QED
      BY <2>2, <2>10
  <1>2. Good(s)
    <2> HIDE DEF Good
    <2>1. Len(s) \in Nat
      OBVIOUS
    <2> QED
      BY <1>1, <2>1
  <1> QED
    BY <1>2

\* Every answer in what was written has the echo of its byte before it.
Behind(o) == \A i \in 1..Len(o) : o[i] < 0 => \E j \in 1..i - 1 : o[j] = -o[i]

\* The first n bytes the client sends.
Counted(n) == [i \in 1..n |-> i]

\* What was written and the echoes left, of so many bytes read.
Honest(o, r, n) == Bridge!Echoed(o) \o r = Counted(n) /\ Behind(o)

\* Writing the first of the echoes that are due, and keeping the rest.
LEMMA EchoesReleased ==
    ASSUME NEW o \in Seq(Int), NEW w \in Seq(Int), NEW r \in Seq(Int), NEW N \in Nat,
           Honest(o, w \o r, N)
    PROVE  Honest(o \o w, r, N)
  <1> DEFINE e == Bridge!Echoed(o)
             T == Seq(Int)
  <1>0. Bridge!Echoed(o) \o (w \o r) = Counted(N) /\ Behind(o)
    BY DEF Honest
  <1>1. e \in Seq(Int)
    BY EchoesOf
  <1>2. Groups(T)
    BY Grouped
  <1>3. Bridge!Echoed(o \o w) = e \o Bridge!Echoed(w)
    BY EchoesJoined
  <1>4. \A i \in 1..Len(w) : w[i] > 0
    <2> HIDE DEF e
    <2>1. e \o (w \o r) = Counted(N)
      BY <1>0 DEF e
    <2> SUFFICES ASSUME NEW i \in 1..Len(w) PROVE w[i] > 0
      OBVIOUS
    <2>2. /\ w \o r \in Seq(Int) /\ Len(w \o r) = Len(w) + Len(r)
          /\ \A j \in 1..Len(w) + Len(r) :
                 (w \o r)[j] = IF j <= Len(w) THEN w[j] ELSE r[j - Len(w)]
      BY ConcatProperties
    <2> DEFINE wr == w \o r
    <2>3. Len(w) \in Nat /\ Len(r) \in Nat /\ Len(e) \in Nat
      BY <1>1
    <2>4. i \in 1..Len(wr) /\ wr[i] = w[i]
      BY <2>2, <2>3
    <2> HIDE DEF wr
    <2>5. /\ wr \in Seq(Int) /\ Len(e \o wr) = Len(e) + Len(wr)
          /\ \A j \in 1..Len(e) + Len(wr) :
                 (e \o wr)[j] = IF j <= Len(e) THEN e[j] ELSE wr[j - Len(e)]
      <3>1. wr \in Seq(Int)
        BY <2>2 DEF wr
      <3> QED
        BY <1>1, <3>1, ConcatProperties
    <2>6. Len(wr) \in Nat
      BY <2>5
    <2>7. Len(e) + i \in 1..Len(e) + Len(wr) /\ ~(Len(e) + i <= Len(e)) /\ Len(e) + i - Len(e) = i
      BY <2>3, <2>4, <2>6
    <2>8. (e \o wr)[Len(e) + i] = wr[i]
      BY <2>5, <2>7
    <2>9. e \o wr = [j \in 1..N |-> j]
      BY <2>1 DEF wr, Counted
    <2>10. Len(e \o wr) = N
      BY <2>9
    <2>11. (e \o wr)[Len(e) + i] = Len(e) + i
      BY <2>5, <2>7, <2>9, <2>10
    <2> QED
      BY <2>3, <2>4, <2>8, <2>11
  <1>5. Bridge!Echoed(w) = w
    BY <1>4, EchoesOf
  <1>6. (e \o w) \o r = e \o (w \o r)
    <2> HIDE DEF e, T
    <2>1. e \in T /\ w \in T /\ r \in T
      BY <1>1 DEF T
    <2> QED
      BY <1>2, <2>1, Zenon DEF Groups
  <1>7. Behind(o \o w)
    <2>1. /\ Len(o \o w) = Len(o) + Len(w)
          /\ \A j \in 1..Len(o) + Len(w) :
                 (o \o w)[j] = IF j <= Len(o) THEN o[j] ELSE w[j - Len(o)]
      BY ConcatProperties
    <2> DEFINE ow == o \o w
    <2> HIDE DEF ow
    <2>2. Len(o) \in Nat /\ Len(w) \in Nat
      OBVIOUS
    <2>3. ASSUME NEW i \in 1..Len(ow), ow[i] < 0 PROVE \E j \in 1..i - 1 : ow[j] = -ow[i]
      <3>1. i <= Len(o)
        <4> SUFFICES ASSUME ~(i <= Len(o)) PROVE FALSE
          OBVIOUS
        <4>1. i - Len(o) \in 1..Len(w) /\ ow[i] = w[i - Len(o)]
          BY <2>1, <2>2 DEF ow
        <4>2. w[i - Len(o)] > 0
          BY <1>4, <4>1
        <4>3. w[i - Len(o)] \in Int
          BY <4>1
        <4> QED
          BY <2>3, <4>1, <4>2, <4>3
      <3>2. i \in 1..Len(o) /\ ow[i] = o[i]
        BY <2>1, <2>2, <3>1 DEF ow
      <3>3. PICK j \in 1..i - 1 : o[j] = -o[i]
        BY <1>0, <2>3, <3>2 DEF Behind
      <3>4. ow[j] = o[j]
        BY <2>1, <2>2, <3>2 DEF ow
      <3> QED
        BY <3>2, <3>3, <3>4
    <2> QED
      BY <2>3 DEF Behind, ow
  <1> QED
    BY <1>0, <1>3, <1>5, <1>6, <1>7 DEF Honest

\* Writing answers when no echo is due.
LEMMA AnswersWritten ==
    ASSUME NEW o \in Seq(Int), NEW a \in Seq(Int), NEW N \in Nat,
           Bridge!Echoed(o) = Counted(N), Behind(o),
           \A i \in 1..Len(a) : -a[i] \in 1..N
    PROVE  Bridge!Echoed(o \o a) = Counted(N) /\ Behind(o \o a)
  <1>1. Len(o) \in Nat /\ Len(a) \in Nat /\ \A i \in 1..Len(a) : a[i] \in Int
    OBVIOUS
  <1>2. \A i \in 1..Len(a) : a[i] < 0
    BY <1>1
  <1>3. Bridge!Echoed(a) = <<>>
    BY <1>2, EchoesOf
  <1>4. Bridge!Echoed(o \o a) = Bridge!Echoed(o) \o <<>>
    BY <1>3, EchoesJoined
  <1>5. Bridge!Echoed(o) \o <<>> = Bridge!Echoed(o)
    <2>1. Bridge!Echoed(o) \in Seq(Int)
      BY EchoesOf
    <2> QED
      BY <2>1, ConcatEmptySeq
  <1>6. ASSUME NEW n \in 1..N PROVE \E j \in 1..Len(o) : o[j] = n
    <2>1. Bridge!Echoed(o) = [i \in 1..N |-> i]
      BY DEF Counted
    <2>2. n \in 1..Len(Bridge!Echoed(o)) /\ Bridge!Echoed(o)[n] = n
      BY <2>1
    <2> QED
      BY <2>2, EchoesHeard
  <1>7. /\ Len(o \o a) = Len(o) + Len(a)
        /\ \A j \in 1..Len(o) + Len(a) :
               (o \o a)[j] = IF j <= Len(o) THEN o[j] ELSE a[j - Len(o)]
    BY ConcatProperties
  <1> DEFINE oa == o \o a
  <1> HIDE DEF oa
  <1>8. ASSUME NEW i \in 1..Len(oa), oa[i] < 0 PROVE \E j \in 1..i - 1 : oa[j] = -oa[i]
    <2>1. CASE i <= Len(o)
      <3>1. i \in 1..Len(o) /\ oa[i] = o[i]
        BY <1>1, <1>7, <2>1 DEF oa
      <3>2. PICK j \in 1..i - 1 : o[j] = -o[i]
        BY <1>8, <3>1 DEF Behind
      <3>3. oa[j] = o[j]
        BY <1>1, <1>7, <3>1 DEF oa
      <3> QED
        BY <3>1, <3>2, <3>3
    <2>2. CASE ~(i <= Len(o))
      <3>1. i - Len(o) \in 1..Len(a) /\ oa[i] = a[i - Len(o)]
        BY <1>1, <1>7, <2>2 DEF oa
      <3>2. -oa[i] \in 1..N
        BY <3>1
      <3>3. PICK j \in 1..Len(o) : o[j] = -oa[i]
        BY <1>6, <3>2
      <3>4. j \in 1..i - 1 /\ j \in 1..Len(o) + Len(a) /\ j <= Len(o)
        BY <1>1, <2>2
      <3>5. oa[j] = o[j]
        BY <1>7, <3>4 DEF oa
      <3> QED
        BY <3>3, <3>4, <3>5
    <2> QED
      BY <2>1, <2>2
  <1>9. Behind(oa)
    BY <1>8 DEF Behind
  <1> QED
    BY <1>4, <1>5, <1>9 DEF oa

\* What the bridge has written, what is pending and what is on the wire, over any
\* number of bytes.
WireKept ==
    LET read == bridgeSent - Len(bridgeInbox)
    IN  /\ bridgeSent \in Nat /\ read \in Nat
        /\ bridgeInbox \in Seq(Int) /\ bridgeWire \in Seq(Int)
        /\ bridgeAnswers \in Seq(Int) /\ bridgeOutbox \in Seq(Int)
        /\ bridgeEchoes \in Seq(Seq(Int))
        /\ \A i \in 1..Len(bridgeInbox) : bridgeInbox[i] = read + i
        /\ \A i \in 1..Len(bridgeWire) : bridgeWire[i] \in 1..read
        /\ \A i \in 1..Len(bridgeAnswers) : -bridgeAnswers[i] \in 1..read
        /\ Honest(bridgeOutbox, Bridge!FlattenSeq(bridgeEchoes), read)

\* It is so when the bridge begins.
LEMMA WireStarts == Bridge!Init => WireKept
  <1> SUFFICES ASSUME Bridge!Init PROVE WireKept
    OBVIOUS
  <1>1. /\ bridgeSent = 0 /\ bridgeInbox = <<>> /\ bridgeWire = <<>> /\ bridgeAnswers = <<>>
        /\ bridgeOutbox = <<>> /\ bridgeEchoes = <<>>
    BY DEF Bridge!Init
  <1>2. Bridge!Echoed(<<>>) = <<>> /\ Bridge!FlattenSeq(<<>>) = <<>>
    BY EchoesOfNone DEF Bridge!FlattenSeq
  <1>3. Counted(0) = <<>> /\ <<>> \o <<>> = <<>>
    BY DEF Counted
  <1>4. bridgeSent - Len(bridgeInbox) = 0
    <2>1. Len(<<>>) = 0
      OBVIOUS
    <2>2. Len(bridgeInbox) = 0
      BY <1>1, <2>1
    <2>3. bridgeSent - Len(bridgeInbox) = 0 - 0
      BY <1>1, <2>2, Zenon
    <2> QED
      BY <2>3
  <1>5. Bridge!Echoed(bridgeOutbox) \o Bridge!FlattenSeq(bridgeEchoes) = Counted(0)
    BY <1>1, <1>2, <1>3
  <1> QED
    BY <1>1, <1>4, <1>5 DEF WireKept, Behind, Honest

\* It stays so when the client sends a byte.
LEMMA WireSends == WireKept /\ Bridge!Send => WireKept'
  <1> SUFFICES ASSUME WireKept, Bridge!Send PROVE WireKept'
    OBVIOUS
  <1> DEFINE read == bridgeSent - Len(bridgeInbox)
  <1>1. /\ bridgeSent' = bridgeSent + 1 /\ bridgeInbox' = Append(bridgeInbox, bridgeSent + 1)
        /\ bridgeWire' = bridgeWire /\ bridgeAnswers' = bridgeAnswers
        /\ bridgeOutbox' = bridgeOutbox /\ bridgeEchoes' = bridgeEchoes
    BY DEF Bridge!Send
  <1>2. bridgeSent \in Nat /\ bridgeInbox \in Seq(Int) /\ Len(bridgeInbox) \in Nat
    BY DEF WireKept
  <1>3. /\ bridgeInbox' \in Seq(Int) /\ Len(bridgeInbox') = Len(bridgeInbox) + 1
        /\ \A i \in 1..Len(bridgeInbox) : bridgeInbox'[i] = bridgeInbox[i]
        /\ bridgeInbox'[Len(bridgeInbox) + 1] = bridgeSent + 1
    BY <1>1, <1>2, AppendProperties
  <1>4. bridgeSent' - Len(bridgeInbox') = read
    BY <1>1, <1>2, <1>3
  <1>5. \A i \in 1..Len(bridgeInbox') : bridgeInbox'[i] = read + i
    <2>1. \A i \in 1..Len(bridgeInbox) : bridgeInbox[i] = read + i
      BY DEF WireKept
    <2>2. read + (Len(bridgeInbox) + 1) = bridgeSent + 1
      BY <1>2
    <2> SUFFICES ASSUME NEW i \in 1..Len(bridgeInbox') PROVE bridgeInbox'[i] = read + i
      OBVIOUS
    <2> HIDE DEF read
    <2>3. i = Len(bridgeInbox) + 1 \/ i \in 1..Len(bridgeInbox)
      BY <1>2, <1>3
    <2>4. CASE i = Len(bridgeInbox) + 1
      BY <1>3, <2>2, <2>4
    <2>5. CASE i \in 1..Len(bridgeInbox)
      BY <1>3, <2>1, <2>5
    <2> QED
      BY <2>3, <2>4, <2>5
  <1> HIDE DEF read
  <1>6. bridgeSent' \in Nat
    BY <1>1, <1>2
  <1>7. /\ read \in Nat /\ bridgeWire' \in Seq(Int)
        /\ bridgeAnswers' \in Seq(Int) /\ bridgeOutbox' \in Seq(Int)
        /\ bridgeEchoes' \in Seq(Seq(Int))
        /\ \A i \in 1..Len(bridgeWire') : bridgeWire'[i] \in 1..read
        /\ \A i \in 1..Len(bridgeAnswers') : -bridgeAnswers'[i] \in 1..read
        /\ Honest(bridgeOutbox', Bridge!FlattenSeq(bridgeEchoes'), read)
    BY <1>1 DEF WireKept, read
  <1> QED
    BY <1>3, <1>4, <1>5, <1>6, <1>7 DEF WireKept

\* When a byte reaches the ESC, its answer is one to a byte that was read.
LEMMA WireTransmits == WireKept /\ Bridge!Transmit => WireKept'
  <1> SUFFICES ASSUME WireKept, Bridge!Transmit PROVE WireKept'
    OBVIOUS
  <1> DEFINE read == bridgeSent - Len(bridgeInbox)
  <1>1. /\ bridgeWire # <<>> /\ bridgeWire' = Tail(bridgeWire)
        /\ \/ bridgeAnswers' = bridgeAnswers
           \/ bridgeAnswers' = Append(bridgeAnswers, -Head(bridgeWire))
        /\ bridgeSent' = bridgeSent /\ bridgeInbox' = bridgeInbox
        /\ bridgeOutbox' = bridgeOutbox /\ bridgeEchoes' = bridgeEchoes
    BY DEF Bridge!Transmit
  <1>2. /\ bridgeWire \in Seq(Int) /\ bridgeAnswers \in Seq(Int)
        /\ \A i \in 1..Len(bridgeWire) : bridgeWire[i] \in 1..read
        /\ \A i \in 1..Len(bridgeAnswers) : -bridgeAnswers[i] \in 1..read
        /\ read \in Nat
    BY DEF WireKept
  <1>3. /\ bridgeSent' - Len(bridgeInbox') = read
        /\ bridgeSent' \in Nat
        /\ bridgeInbox' \in Seq(Int) /\ bridgeOutbox' \in Seq(Int)
        /\ bridgeEchoes' \in Seq(Seq(Int))
        /\ \A i \in 1..Len(bridgeInbox') : bridgeInbox'[i] = read + i
        /\ Honest(bridgeOutbox', Bridge!FlattenSeq(bridgeEchoes'), read)
    BY <1>1 DEF WireKept
  <1> HIDE DEF read
  <1>4. bridgeWire' \in Seq(Int) /\ \A i \in 1..Len(bridgeWire') : bridgeWire'[i] \in 1..read
    <2>1. /\ bridgeWire' \in Seq(Int) /\ Len(bridgeWire') = Len(bridgeWire) - 1
          /\ \A i \in 1..Len(bridgeWire') : bridgeWire'[i] = bridgeWire[i + 1]
      BY <1>1, <1>2, HeadTailProperties
    <2>2. \A i \in 1..Len(bridgeWire') : i + 1 \in 1..Len(bridgeWire)
      BY <1>2, <2>1
    <2> QED
      BY <1>2, <2>1, <2>2
  <1>5. /\ bridgeAnswers' \in Seq(Int)
        /\ \A i \in 1..Len(bridgeAnswers') : -bridgeAnswers'[i] \in 1..read
    <2>1. CASE bridgeAnswers' = bridgeAnswers
      BY <1>2, <2>1
    <2>2. CASE bridgeAnswers' = Append(bridgeAnswers, -Head(bridgeWire))
      <3> DEFINE x == -Head(bridgeWire)
      <3>1. -x \in 1..read /\ x \in Int
        <4>1. Head(bridgeWire) = bridgeWire[1] /\ 1 \in 1..Len(bridgeWire)
          BY <1>1, <1>2
        <4>2. Head(bridgeWire) \in 1..read
          BY <1>2, <4>1
        <4> QED
          BY <1>2, <4>2
      <3> HIDE DEF x
      <3>2. /\ bridgeAnswers' \in Seq(Int) /\ Len(bridgeAnswers') = Len(bridgeAnswers) + 1
            /\ \A i \in 1..Len(bridgeAnswers) : bridgeAnswers'[i] = bridgeAnswers[i]
            /\ bridgeAnswers'[Len(bridgeAnswers) + 1] = x
        <4>1. bridgeAnswers' = Append(bridgeAnswers, x)
          BY <2>2 DEF x
        <4> QED
          BY <1>2, <3>1, <4>1, AppendProperties
      <3>3. ASSUME NEW i \in 1..Len(bridgeAnswers') PROVE -bridgeAnswers'[i] \in 1..read
        <4>1. Len(bridgeAnswers) \in Nat
          BY <1>2
        <4>2. i = Len(bridgeAnswers) + 1 \/ i \in 1..Len(bridgeAnswers)
          BY <3>2, <4>1
        <4>3. CASE i = Len(bridgeAnswers) + 1
          BY <3>1, <3>2, <4>3
        <4>4. CASE i \in 1..Len(bridgeAnswers)
          BY <1>2, <3>2, <4>4
        <4> QED
          BY <4>2, <4>3, <4>4
      <3> QED
        BY <3>2, <3>3
    <2> QED
      BY <1>1, <2>1, <2>2
  <1> QED
    BY <1>2, <1>3, <1>4, <1>5 DEF WireKept

\* Some bytes more, read behind those that were.
LEMMA MoreCounted ==
    ASSUME NEW e \in Seq(Int), NEW c \in Seq(Int), NEW N \in Nat, e = Counted(N),
           \A i \in 1..Len(c) : c[i] = N + i
    PROVE  e \o c = Counted(N + Len(c))
  <1> DEFINE M == N + Len(c)
             z == e \o c
  <1>1. Len(e) = N /\ \A i \in 1..N : e[i] = i
    BY DEF Counted
  <1>2. /\ Len(c) \in Nat /\ M \in Nat
    OBVIOUS
  <1>3. /\ z \in Seq(Int) /\ Len(z) = Len(e) + Len(c)
        /\ \A i \in 1..Len(e) + Len(c) : z[i] = IF i <= Len(e) THEN e[i] ELSE c[i - Len(e)]
    BY ConcatProperties
  <1> HIDE DEF z
  <1>4. ASSUME NEW i \in 1..M PROVE z[i] = i
    <2>1. z[i] = IF i <= N THEN e[i] ELSE c[i - N]
      BY <1>1, <1>3
    <2>2. CASE i <= N
      BY <1>1, <2>1, <2>2
    <2>3. CASE ~(i <= N)
      <3>1. i - N \in 1..Len(c) /\ N + (i - N) = i
        BY <1>2, <2>3
      <3>2. c[i - N] = N + (i - N)
        BY <3>1
      <3> QED
        BY <2>1, <2>3, <3>1, <3>2
    <2> QED
      BY <2>2, <2>3
  <1>5. Len(z) = M
    BY <1>1, <1>3
  <1> HIDE DEF M
  <1>6. z = [i \in 1..M |-> i]
    <2>1. z = [i \in 1..Len(z) |-> z[i]]
      BY <1>3
    <2> QED
      BY <1>4, <1>5, <2>1
  <1> QED
    BY <1>6 DEF Counted, M, z

\* A chunk read from the client, and what is left of what it sent.
LEMMA ChunkRead ==
    ASSUME NEW b \in Seq(Int), NEW N \in Nat, \A i \in 1..Len(b) : b[i] = N + i,
           NEW n \in 0..Len(b)
    PROVE  /\ SubSeq(b, 1, n) \in Seq(Int) /\ Len(SubSeq(b, 1, n)) = n
           /\ \A i \in 1..n : SubSeq(b, 1, n)[i] = N + i
           /\ SubSeq(b, n + 1, Len(b)) \in Seq(Int)
           /\ Len(SubSeq(b, n + 1, Len(b))) = Len(b) - n
           /\ \A i \in 1..Len(b) - n : SubSeq(b, n + 1, Len(b))[i] = N + n + i
  <1>1. Len(b) \in Nat /\ n \in Nat /\ n <= Len(b) /\ \A i \in 1..Len(b) : b[i] \in Int
    BY ElementOfSeq
  <1> DEFINE c == SubSeq(b, 1, n)
             r == SubSeq(b, n + 1, Len(b))
  <1>2. /\ c \in Seq(Int) /\ Len(c) = (IF 1 <= n THEN n - 1 + 1 ELSE 0)
        /\ \A i \in 1..n - 1 + 1 : c[i] = b[1 + i - 1]
    <2>1. 1 \in Int /\ n \in Int /\ \A i \in 1..n : b[i] \in Int
      BY <1>1
    <2> QED
      BY <2>1, SubSeqProperties
  <1>3. /\ r \in Seq(Int) /\ Len(r) = (IF n + 1 <= Len(b) THEN Len(b) - (n + 1) + 1 ELSE 0)
        /\ \A i \in 1..Len(b) - (n + 1) + 1 : r[i] = b[n + 1 + i - 1]
    <2>1. n + 1 \in Int /\ Len(b) \in Int /\ \A i \in n + 1..Len(b) : b[i] \in Int
      BY <1>1
    <2> QED
      BY <2>1, SubSeqProperties
  <1> HIDE DEF c, r
  <1>4. Len(c) = n /\ Len(r) = Len(b) - n
    BY <1>1, <1>2, <1>3
  <1>5. ASSUME NEW i \in 1..n PROVE c[i] = N + i
    <2>1. i \in 1..n - 1 + 1 /\ 1 + i - 1 = i /\ i \in 1..Len(b)
      BY <1>1
    <2>2. c[i] = b[i]
      BY <1>2, <2>1
    <2> QED
      BY <2>1, <2>2
  <1>6. ASSUME NEW i \in 1..Len(b) - n PROVE r[i] = N + n + i
    <2>1. /\ i \in 1..Len(b) - (n + 1) + 1 /\ n + 1 + i - 1 = n + i /\ n + i \in 1..Len(b)
          /\ N + (n + i) = N + n + i
      BY <1>1
    <2>2. r[i] = b[n + i]
      BY <1>3, <2>1
    <2>3. b[n + i] = N + (n + i)
      BY <2>1
    <2> QED
      BY <2>1, <2>2, <2>3
  <1> QED
    BY <1>2, <1>3, <1>4, <1>5, <1>6 DEF c, r

\* What a pass writes: of the list q and the answers a, what the marker releases and
\* what stays, and what goes with the answers and what stays then.
Passes(q, a, marked, pending, more, after) ==
    /\ \/ marked = Bridge!FlattenSeq(q) /\ pending = <<>>
       \/ marked = <<>> /\ pending = q
    /\ \/ a = <<>> /\ more = <<>> /\ after = pending
       \/ more = Bridge!FlattenSeq(pending) \o a /\ after = <<>>

\* Answers to commands among the first n bytes.
Known(a, n) == \A i \in 1..Len(a) : -a[i] \in 1..n

\* A pass of the loop after the client's chunk is in the list: the marker's echoes,
\* the answers behind what is pending, and some of what is left.
LEMMA PassWrites ==
    ASSUME NEW o \in Seq(Int), NEW q \in Seq(Seq(Int)), NEW a \in Seq(Int), NEW N \in Nat,
           Honest(o, Bridge!FlattenSeq(q), N),
           Known(a, N), NEW marked, NEW pending, NEW more, NEW after,
           Passes(q, a, marked, pending, more, after),
           NEW due \in 0..Len(Bridge!FlattenSeq(after))
    PROVE  LET out == o \o marked \o more \o SubSeq(Bridge!FlattenSeq(after), 1, due)
               left == Bridge!Dribbled(after, due)
           IN  /\ out \in Seq(Int) /\ left \in Seq(Seq(Int))
               /\ Honest(out, Bridge!FlattenSeq(left), N)
  <1> DEFINE F(x) == Bridge!FlattenSeq(x)
             Goes(x, l) == x \in Seq(Int) /\ l \in Seq(Seq(Int)) /\ Honest(x, F(l), N)
  <1>0. F(<<>>) = <<>>
    BY DEF Bridge!FlattenSeq
  <1>1. <<>> \in Seq(Int) /\ <<>> \in Seq(Seq(Int)) /\ F(<<>>) = <<>>
    BY <1>0
  <1>2. F(q) \in Seq(Int)
    BY Flattened
  <1>3. ASSUME NEW x \in Seq(Int) PROVE x \o <<>> = x
    BY <1>3, ConcatEmptySeq
  <1>4. ASSUME NEW x, NEW l, Goes(x, l) PROVE Goes(x \o F(l), <<>>)
    <2>1. x \in Seq(Int) /\ F(l) \in Seq(Int)
      BY <1>4, Flattened
    <2> DEFINE w == F(l)
    <2>2. w \o <<>> = w
      BY <2>1, <1>3
    <2>3. Honest(x, w \o <<>>, N)
      BY <1>4, <2>2
    <2>4. w \in Seq(Int) /\ <<>> \in Seq(Int)
      BY <2>1
    <2> HIDE DEF w
    <2>5. Honest(x \o w, <<>>, N)
      BY <2>1, <2>3, <2>4, EchoesReleased
    <2>6. x \o w \in Seq(Int)
      BY <2>1, <2>4, ConcatProperties
    <2> HIDE DEF F
    <2>7. Goes(x \o w, <<>>)
      BY <1>1, <2>5, <2>6
    <2> QED
      BY <2>7 DEF w
  <1>5. Goes(o, q)
    OBVIOUS
  <1> HIDE DEF Goes
  <1>a. /\ \/ marked = F(q) /\ pending = <<>>
           \/ marked = <<>> /\ pending = q
        /\ \/ a = <<>> /\ more = <<>> /\ after = pending
           \/ more = F(pending) \o a /\ after = <<>>
    BY DEF Passes
  <1>b. \A i \in 1..Len(a) : -a[i] \in 1..N
    BY DEF Known
  <1>6. Goes(o \o marked, pending)
    <2>1. CASE marked = F(q) /\ pending = <<>>
      BY <1>4, <1>5, <2>1
    <2>2. CASE marked = <<>> /\ pending = q
      <3>1. o \o marked = o
        BY <1>3, <2>2
      <3> QED
        BY <1>5, <2>2, <3>1
    <2> HIDE DEF F
    <2> QED
      BY <1>a, <2>1, <2>2
  <1> DEFINE o1 == o \o marked
  <1>7. Goes(o1 \o more, after)
    <2> HIDE DEF o1
    <2>1. Goes(o1, pending)
      BY <1>6 DEF o1
    <2>2. o1 \in Seq(Int) /\ pending \in Seq(Seq(Int))
      BY <2>1 DEF Goes
    <2>3. CASE more = <<>> /\ after = pending
      <3>1. o1 \o more = o1
        BY <1>3, <2>2, <2>3
      <3> QED
        BY <2>1, <2>3, <3>1
    <2>4. CASE more = F(pending) \o a /\ after = <<>>
      <3> DEFINE w == F(pending)
                 o2 == o1 \o w
                 T == Seq(Int)
      <3>1. w \in T
        BY <2>2, Flattened
      <3>2. Goes(o2, <<>>)
        BY <1>4, <2>1
      <3>3. Groups(T)
        BY Grouped
      <3>4. o1 \o (w \o a) = o2 \o a
        <4> HIDE DEF w
        <4>1. o1 \in T /\ a \in T
          BY <2>2
        <4> HIDE DEF T
        <4> QED
          BY <3>1, <3>3, <4>1, Zenon DEF Groups
      <3> HIDE DEF o2, w
      <3>5. o2 \in Seq(Int) /\ Bridge!Echoed(o2) \o <<>> = Counted(N) /\ Behind(o2)
        BY <1>1, <3>2 DEF Goes, Honest
      <3>6. Bridge!Echoed(o2) = Counted(N)
        <4>1. Bridge!Echoed(o2) \in Seq(Int)
          BY <3>5, EchoesOf
        <4>2. Bridge!Echoed(o2) \o <<>> = Bridge!Echoed(o2)
          BY <1>3, <4>1
        <4> QED
          BY <3>5, <4>2
      <3>7. Bridge!Echoed(o2 \o a) = Counted(N) /\ Behind(o2 \o a)
        BY <1>b, <3>5, <3>6, AnswersWritten
      <3>8. o2 \o a \in Seq(Int)
        BY <3>5, ConcatProperties
      <3>9. Bridge!Echoed(o2 \o a) \o <<>> = Counted(N)
        <4>1. Bridge!Echoed(o2 \o a) \in Seq(Int)
          BY <3>8, EchoesOf
        <4>2. Bridge!Echoed(o2 \o a) \o <<>> = Bridge!Echoed(o2 \o a)
          BY <1>3, <4>1
        <4> QED
          BY <3>7, <4>2
      <3>10. Goes(o2 \o a, <<>>)
        BY <1>1, <3>7, <3>8, <3>9 DEF Goes, Honest
      <3> QED
        BY <2>4, <3>4, <3>10 DEF w
    <2> HIDE DEF F
    <2> QED
      BY <1>a, <2>3, <2>4
  <1> DEFINE o3 == o1 \o more
             w == SubSeq(F(after), 1, due)
             left == Bridge!Dribbled(after, due)
  <1>8. Goes(o3 \o w, left)
    <2> HIDE DEF o3
    <2>1. o3 \in Seq(Int) /\ after \in Seq(Seq(Int)) /\ Honest(o3, F(after), N)
      BY <1>7 DEF Goes, o3
    <2>2. left \in Seq(Seq(Int)) /\ w \o F(left) = F(after)
      BY <2>1, Dribbles
    <2>3. F(after) \in Seq(Int) /\ F(left) \in Seq(Int)
      BY <2>1, <2>2, Flattened
    <2>4. w \in Seq(Int)
      <3> DEFINE fa == F(after)
      <3>1. fa \in Seq(Int) /\ Len(fa) \in Nat /\ due \in 0..Len(fa)
        BY <2>3, LenProperties
      <3> HIDE DEF fa
      <3>2. \A i \in 1..Len(fa) : fa[i] \in Int
        BY <3>1, ElementOfSeq
      <3>3. 1 \in Int /\ due \in Int /\ \A i \in 1..due : fa[i] \in Int
        BY <3>1, <3>2
      <3>4. SubSeq(fa, 1, due) \in Seq(Int)
        BY <3>3, SubSeqProperties
      <3> QED
        BY <3>4 DEF fa
    <2> DEFINE r == F(left)
    <2>5. Honest(o3, w \o r, N) /\ r \in Seq(Int)
      BY <2>1, <2>2, <2>3
    <2> HIDE DEF w, r, left
    <2>6. Honest(o3 \o w, r, N)
      BY <2>1, <2>4, <2>5, EchoesReleased
    <2>7. o3 \o w \in Seq(Int)
      BY <2>1, <2>4, ConcatProperties
    <2> QED
      BY <2>2, <2>6, <2>7 DEF Goes, r
  <1> HIDE DEF w, left
  <1>9. o3 \o w \in Seq(Int) /\ left \in Seq(Seq(Int)) /\ Honest(o3 \o w, F(left), N)
    BY <1>8 DEF Goes
  <1> QED
    BY <1>9 DEF w, left

\* A pass of the loop keeps it, whatever it reads and whatever is due.
LEMMA WirePasses == WireKept /\ Bridge!Pass => WireKept'
  <1> SUFFICES ASSUME WireKept, Bridge!Pass PROVE WireKept'
    OBVIOUS
  <1> DEFINE read == bridgeSent - Len(bridgeInbox)
  <1>1. PICK n \in 0..Len(bridgeInbox), held \in {0, 1} : Bridge!PassWith(n, held)
    BY DEF Bridge!Pass
  <1> DEFINE chunk == SubSeq(bridgeInbox, 1, n)
             queued == IF n = 0 THEN bridgeEchoes ELSE Append(bridgeEchoes, chunk)
             marked == IF bridgeTxDone THEN Bridge!FlattenSeq(queued) ELSE <<>>
             pending == IF bridgeTxDone THEN <<>> ELSE queued
             out == IF held = 1 THEN <<>> ELSE bridgeAnswers
             after == IF out = <<>> THEN pending ELSE <<>>
             more == IF out = <<>> THEN <<>> ELSE Bridge!FlattenSeq(pending) \o out
  <1>2. /\ bridgeInbox' = SubSeq(bridgeInbox, n + 1, Len(bridgeInbox))
        /\ bridgeWire' = bridgeWire \o chunk
        /\ bridgeAnswers' = IF held = 1 THEN bridgeAnswers ELSE <<>>
    BY <1>1 DEF Bridge!PassWith
  <1>3. PICK due \in 0..Len(Bridge!FlattenSeq(after)) :
            /\ bridgeOutbox' = bridgeOutbox \o marked \o more
                                 \o SubSeq(Bridge!FlattenSeq(after), 1, due)
            /\ bridgeEchoes' = Bridge!Dribbled(after, due)
    BY <1>1 DEF Bridge!PassWith, Bridge!Left, Bridge!Flushed, Bridge!BeforeAnswer
  <1>4. bridgeSent' = bridgeSent
    BY DEF Bridge!Pass
  <1>5. /\ bridgeSent \in Nat /\ read \in Nat
        /\ bridgeInbox \in Seq(Int) /\ bridgeWire \in Seq(Int)
        /\ bridgeAnswers \in Seq(Int) /\ bridgeOutbox \in Seq(Int)
        /\ bridgeEchoes \in Seq(Seq(Int))
        /\ \A i \in 1..Len(bridgeInbox) : bridgeInbox[i] = read + i
        /\ \A i \in 1..Len(bridgeWire) : bridgeWire[i] \in 1..read
        /\ \A i \in 1..Len(bridgeAnswers) : -bridgeAnswers[i] \in 1..read
        /\ Honest(bridgeOutbox, Bridge!FlattenSeq(bridgeEchoes), read)
    BY DEF WireKept
  <1>6. n \in Nat /\ Len(bridgeInbox) \in Nat /\ n <= Len(bridgeInbox)
    BY <1>5
  <1>7. bridgeSent = read + Len(bridgeInbox)
    BY <1>5, <1>6
  <1> HIDE DEF read
  <1>a. read \in Nat /\ n \in Nat
    BY <1>5, <1>6
  <1>8. /\ chunk \in Seq(Int) /\ Len(chunk) = n /\ \A i \in 1..n : chunk[i] = read + i
        /\ bridgeInbox' \in Seq(Int) /\ Len(bridgeInbox') = Len(bridgeInbox) - n
        /\ \A i \in 1..Len(bridgeInbox) - n : bridgeInbox'[i] = read + n + i
    BY <1>2, <1>5, ChunkRead
  <1> HIDE DEF chunk
  <1>9. bridgeSent' - Len(bridgeInbox') = read + n
    BY <1>4, <1>5, <1>6, <1>7, <1>8
  <1>10. queued \in Seq(Seq(Int)) /\ Honest(bridgeOutbox, Bridge!FlattenSeq(queued), read + n)
    <2>1. CASE n = 0
      <3>1. read + n = read
        BY <1>5, <2>1
      <3> QED
        BY <1>5, <2>1, <3>1
    <2>2. CASE n # 0
      <3> DEFINE e == Bridge!Echoed(bridgeOutbox)
                 f == Bridge!FlattenSeq(bridgeEchoes)
                 T == Seq(Int)
      <3>1. e \in T /\ f \in T /\ chunk \in T
        BY <1>5, <1>8, Flattened, EchoesOf
      <3>2. Bridge!FlattenSeq(queued) = f \o chunk
        BY <1>5, <1>8, <2>2, FlattenedAppended
      <3>3. queued \in Seq(Seq(Int))
        <4>1. Append(bridgeEchoes, chunk) \in Seq(T)
          <5> HIDE DEF T
          <5>1. bridgeEchoes \in Seq(T)
            BY <1>5 DEF T
          <5> QED
            BY <3>1, <5>1, AppendProperties
        <4> QED
          BY <2>2, <4>1
      <3>4. Groups(T)
        BY Grouped
      <3>5. e \o f = Counted(read) /\ Behind(bridgeOutbox)
        BY <1>5 DEF Honest
      <3> HIDE DEF e, f
      <3>6. e \o (f \o chunk) = (e \o f) \o chunk
        <4> HIDE DEF T
        <4> QED
          BY <3>1, <3>4, Zenon DEF Groups
      <3> DEFINE ef == e \o f
      <3>7. ef \in Seq(Int)
        BY <3>1, ConcatProperties
      <3>8. ef = Counted(read)
        BY <3>5
      <3> HIDE DEF ef
      <3>9. \A i \in 1..Len(chunk) : chunk[i] = read + i
        BY <1>8
      <3>10. ef \o chunk = Counted(read + Len(chunk))
        BY <1>5, <1>8, <3>7, <3>8, <3>9, MoreCounted
      <3>11. e \o (f \o chunk) = Counted(read + n)
        BY <1>8, <3>6, <3>10 DEF ef
      <3> HIDE DEF queued
      <3> QED
        BY <3>2, <3>3, <3>5, <3>11 DEF Honest, e
    <2> QED
      BY <2>1, <2>2
  <1>11. out \in Seq(Int) /\ Known(out, read + n)
    <2>1. CASE out = <<>>
      <3>1. Len(<<>>) = 0 /\ <<>> \in Seq(Int)
        OBVIOUS
      <3> HIDE DEF out
      <3>2. Len(out) = 0
        BY <2>1, <3>1
      <3> QED
        BY <2>1, <3>1, <3>2 DEF Known
    <2>2. CASE out = bridgeAnswers
      <3>1. \A i \in 1..Len(bridgeAnswers) : -bridgeAnswers[i] \in 1..read + n
        <4>1. \A i \in 1..Len(bridgeAnswers) : -bridgeAnswers[i] \in 1..read
          BY <1>5
        <4> QED
          BY <1>a, <4>1
      <3> HIDE DEF out
      <3> QED
        BY <1>5, <2>2, <3>1 DEF Known
    <2> QED
      BY <2>1, <2>2
  <1>12. Passes(queued, out, marked, pending, more, after)
    <2> HIDE DEF queued, out
    <2> QED
      BY DEF Passes
  <1>13. read + n \in Nat
    BY <1>5, <1>6
  <1> HIDE DEF queued, marked, pending, out, after, more
  <1>14. /\ bridgeOutbox' \in Seq(Int) /\ bridgeEchoes' \in Seq(Seq(Int))
         /\ Honest(bridgeOutbox', Bridge!FlattenSeq(bridgeEchoes'), read + n)
    <2> DEFINE o == bridgeOutbox \o marked \o more \o SubSeq(Bridge!FlattenSeq(after), 1, due)
               left == Bridge!Dribbled(after, due)
    <2>1. o \in Seq(Int) /\ left \in Seq(Seq(Int)) /\ Honest(o, Bridge!FlattenSeq(left), read + n)
      <3> DEFINE N == read + n
      <3> HIDE DEF N
      <3>1. N \in Nat /\ Honest(bridgeOutbox, Bridge!FlattenSeq(queued), N) /\ Known(out, N)
        BY <1>10, <1>11, <1>13 DEF N
      <3>2. queued \in Seq(Seq(Int)) /\ out \in Seq(Int) /\ bridgeOutbox \in Seq(Int)
        BY <1>5, <1>10, <1>11
      <3>3. o \in Seq(Int) /\ left \in Seq(Seq(Int)) /\ Honest(o, Bridge!FlattenSeq(left), N)
        BY <1>12, <3>1, <3>2, PassWrites
      <3> QED
        BY <3>3 DEF N
    <2> HIDE DEF o, left
    <2>2. bridgeOutbox' = o /\ bridgeEchoes' = left
      BY <1>3 DEF o, left
    <2> QED
      BY <2>1, <2>2
  <1>15. bridgeWire' \in Seq(Int) /\ \A i \in 1..Len(bridgeWire') : bridgeWire'[i] \in 1..read + n
    <2>1. /\ bridgeWire' \in Seq(Int) /\ Len(bridgeWire') = Len(bridgeWire) + Len(chunk)
          /\ \A i \in 1..Len(bridgeWire) + Len(chunk) :
                 bridgeWire'[i] = IF i <= Len(bridgeWire) THEN bridgeWire[i]
                                  ELSE chunk[i - Len(bridgeWire)]
      <3>1. bridgeWire \in Seq(Int) /\ chunk \in Seq(Int)
        BY <1>5, <1>8
      <3> QED
        BY <1>2, <3>1, ConcatProperties
    <2>2. ASSUME NEW i \in 1..Len(bridgeWire') PROVE bridgeWire'[i] \in 1..read + n
      <3>1. Len(bridgeWire) \in Nat
        BY <1>5
      <3>2. CASE i <= Len(bridgeWire)
        <4>1. i \in 1..Len(bridgeWire) /\ bridgeWire'[i] = bridgeWire[i]
          BY <1>8, <2>1, <3>1, <3>2, <1>6
        <4>2. bridgeWire[i] \in 1..read
          BY <1>5, <4>1
        <4> QED
          BY <1>a, <4>1, <4>2
      <3>3. CASE ~(i <= Len(bridgeWire))
        <4>1. i - Len(bridgeWire) \in 1..n /\ bridgeWire'[i] = chunk[i - Len(bridgeWire)]
          BY <1>6, <1>8, <2>1, <3>1, <3>3
        <4>2. chunk[i - Len(bridgeWire)] = read + (i - Len(bridgeWire))
          BY <1>8, <4>1
        <4> QED
          BY <1>a, <4>1, <4>2
      <3> QED
        BY <3>2, <3>3
    <2> QED
      BY <2>1, <2>2
  <1>16. bridgeAnswers' \in Seq(Int) /\ \A i \in 1..Len(bridgeAnswers') : -bridgeAnswers'[i] \in 1..read + n
    <2>1. CASE bridgeAnswers' = bridgeAnswers
      <3>1. \A i \in 1..Len(bridgeAnswers) : -bridgeAnswers[i] \in 1..read + n
        <4>1. \A i \in 1..Len(bridgeAnswers) : -bridgeAnswers[i] \in 1..read
          BY <1>5
        <4> QED
          BY <1>a, <4>1
      <3> QED
        BY <1>5, <2>1, <3>1
    <2>2. CASE bridgeAnswers' = <<>>
      <3>1. Len(<<>>) = 0 /\ <<>> \in Seq(Int)
        OBVIOUS
      <3>2. Len(bridgeAnswers') = 0
        BY <2>2, <3>1
      <3> QED
        BY <2>2, <3>1, <3>2
    <2> QED
      BY <1>2, <2>1, <2>2
  <1>17. \A i \in 1..Len(bridgeInbox') : bridgeInbox'[i] = (read + n) + i
    BY <1>5, <1>6, <1>8
  <1>18. bridgeSent' \in Nat
    BY <1>4, <1>5
  <1> DEFINE now == read + n
  <1> HIDE DEF now
  <1>19. /\ bridgeSent' - Len(bridgeInbox') = now /\ now \in Nat
         /\ bridgeInbox' \in Seq(Int) /\ bridgeWire' \in Seq(Int)
         /\ bridgeAnswers' \in Seq(Int) /\ bridgeOutbox' \in Seq(Int)
         /\ bridgeEchoes' \in Seq(Seq(Int))
         /\ \A i \in 1..Len(bridgeInbox') : bridgeInbox'[i] = now + i
         /\ \A i \in 1..Len(bridgeWire') : bridgeWire'[i] \in 1..now
         /\ \A i \in 1..Len(bridgeAnswers') : -bridgeAnswers'[i] \in 1..now
         /\ Honest(bridgeOutbox', Bridge!FlattenSeq(bridgeEchoes'), now)
    BY <1>8, <1>9, <1>13, <1>14, <1>15, <1>16, <1>17 DEF now
  <1> QED
    BY <1>18, <1>19 DEF WireKept

\* The bytes of the single wire are where the bridge says, whatever is sent and read.
LEMMA WireStays == WireKept /\ [Bridge!Next]_(Bridge!vars) => WireKept'
  <1> SUFFICES ASSUME WireKept, [Bridge!Next]_(Bridge!vars) PROVE WireKept'
    OBVIOUS
  <1>1. CASE Bridge!Send
    BY <1>1, WireSends
  <1>2. CASE Bridge!Transmit
    BY <1>2, WireTransmits
  <1>3. CASE Bridge!Pass
    BY <1>3, WirePasses
  <1>4. CASE Bridge!Close
    BY <1>4 DEF Bridge!Close, WireKept
  <1>5. CASE UNCHANGED Bridge!vars
    BY <1>5 DEF Bridge!vars, WireKept
  <1> QED
    BY <1>1, <1>2, <1>3, <1>4, <1>5 DEF Bridge!Next

\* A client of the single wire gets every byte it sent back, once and in order, and
\* an answer only behind the echo of the command, however the bridge's reads, the
\* emulator's markers and the clock fall (_loop, _dribble_echoes, _flush_echoes).
THEOREM EchoIsHonest == Spec => []EchoHonest
  <1>1. WireKept => EchoHonest
    <2> SUFFICES ASSUME WireKept PROVE EchoHonest
      OBVIOUS
    <2> DEFINE read == bridgeSent - Len(bridgeInbox)
    <2>1. /\ Bridge!Echoed(bridgeOutbox) \o Bridge!FlattenSeq(bridgeEchoes) = Counted(read)
          /\ Behind(bridgeOutbox) /\ bridgeOutbox \in Seq(Int)
      BY DEF WireKept, Honest
    <2>2. Bridge!EchoesAll
      BY <2>1 DEF Bridge!EchoesAll, Bridge!Left, Counted
    <2>3. DOMAIN bridgeOutbox = 1..Len(bridgeOutbox)
      BY <2>1, LenProperties
    <2>4. Bridge!EchoBeforeAnswer
      BY <2>1, <2>3 DEF Bridge!EchoBeforeAnswer, Behind
    <2> QED
      BY <2>2, <2>4 DEF EchoHonest
  <1>2. Bridge!Init => WireKept
    BY WireStarts
  <1>3. WireKept /\ [Bridge!Next]_(Bridge!vars) => WireKept'
    BY WireStays
  <1> QED
    BY <1>1, <1>2, <1>3, BridgeBehaves, PTL

------------------------------------------------------------------------------
(* The types of the four.                                                     *)

\* A frame of a kind that names an ESC names one.
GoodFrame == {f \in Session!Frame : f.kind \in Session!Named => f.esc \in Escs}

\* The session's types, with them that nothing is numbered beyond what was sent.
SessionOK ==
    /\ fourwayReq \in Nat /\ fourwaySends \in Nat
    /\ fourwayReq =< fourwaySends /\ fourwaySends =< MaxSends
    /\ fourwayInFourway \in BOOLEAN /\ fourwayExited \in BOOLEAN
    /\ fourwayPc \in {"read", "msp", "feed", "work", "answer", "leave"}
    /\ fourwayMspBuf \in Seq(GoodFrame) /\ fourwayBuf \in Seq(GoodFrame)
    /\ fourwayLink \in Seq(GoodFrame) /\ fourwayOut \in Seq(GoodFrame)
    /\ fourwayCur \in GoodFrame \cup {Session!NoFrame}
    /\ fourwayWant \in GoodFrame \cup {Session!NoFrame}
    /\ fourwayTarget \in Escs \cup {0} /\ fourwayConnected \subseteq Escs
    /\ fourwayInTouch \subseteq Escs /\ fourwayEsc \in [Escs -> {"app", "boot"}]
    /\ fourwayLate \subseteq 1..MaxSends /\ fourwayUnheard \subseteq Escs

\* A session begins in range.
LEMMA SessionStarts == Session!Init => SessionOK
  <1> SUFFICES ASSUME Session!Init PROVE SessionOK
    OBVIOUS
  <1>1. <<>> \in Seq(GoodFrame)
    OBVIOUS
  <1>2. 0 \in Nat /\ 0 =< 0 /\ 0 =< MaxSends
    BY BoundsAssumption
  <1> QED
    BY <1>1, <1>2 DEF Session!Init, SessionOK

\* What is behind the copies at the head of what has arrived.
LEMMA CopiesEnd ==
    ASSUME NEW frames \in Seq(GoodFrame)
    PROVE  SubSeq(frames, Session!Copies(frames) + 1, Len(frames)) \in Seq(GoodFrame)
  <1> DEFINE differs == {i \in DOMAIN frames : frames[i].req # fourwayLastRequest}
             n == Session!Copies(frames)
  <1>1. Len(frames) \in Nat /\ DOMAIN frames = 1..Len(frames)
    BY LenProperties
  <1>2. n = IF differs = {} THEN Len(frames)
            ELSE (CHOOSE i \in differs : \A j \in differs : i <= j) - 1
    BY DEF Session!Copies
  <1>3. n \in Nat
    <2>1. CASE differs = {}
      BY <1>1, <1>2, <2>1
    <2>2. CASE differs # {}
      <3>1. differs \subseteq 1..Len(frames)
        BY <1>1
      <3> HIDE DEF differs
      <3>2. differs \subseteq Nat
        BY <3>1
      <3>3. \E i \in differs : \A j \in differs : i =< j
        BY <2>2, <3>2, Least
      <3> DEFINE m == CHOOSE i \in differs : \A j \in differs : i <= j
      <3>4. m \in differs
        BY <3>3
      <3> HIDE DEF m
      <3>5. m \in 1..Len(frames)
        BY <3>1, <3>4
      <3>6. n = m - 1
        BY <1>2, <2>2 DEF m
      <3> HIDE DEF n
      <3> QED
        BY <1>1, <3>5, <3>6
    <2> QED
      BY <2>1, <2>2
  <1> HIDE DEF n
  <1>4. \A i \in 1..Len(frames) : frames[i] \in GoodFrame
    BY ElementOfSeq
  <1>5. n + 1 \in Int /\ Len(frames) \in Int /\ \A i \in n + 1..Len(frames) : frames[i] \in GoodFrame
    BY <1>1, <1>3, <1>4
  <1>6. SubSeq(frames, n + 1, Len(frames)) \in Seq(GoodFrame)
    BY <1>5, SubSeqProperties
  <1> QED
    BY <1>6 DEF n

\* A frame that is sent is a good one.
LEMMA ClientSends ==
    ASSUME SessionOK, NEW f \in GoodFrame, Session!Send(f)
    PROVE  fourwayLink' \in Seq(GoodFrame) /\ fourwaySends' = fourwaySends + 1
  BY AppendProperties DEF SessionOK, Session!Send

\* The client keeps the session's types.
LEMMA ClientOK ==
    ASSUME SessionOK, Session!Ask \/ Session!Retry \/ Session!GiveUp \/ Session!Receive
    PROVE  SessionOK'
  <1>1. CASE Session!Ask
    <2>1. PICK k \in FrameKinds, e \in Escs \cup {Session!NoEsc} :
            /\ k \in Session!Named => e \in Escs
            /\ LET f == [req |-> fourwayReq + 1, no |-> fourwaySends + 1, kind |-> k, esc |-> e]
               IN  Session!Send(f) /\ fourwayWant' = f
      BY <1>1 DEF Session!Ask, FrameKinds
    <2> DEFINE f == [req |-> fourwayReq + 1, no |-> fourwaySends + 1, kind |-> k, esc |-> e]
    <2>2. fourwayReq + 1 \in 1..MaxSends /\ fourwaySends + 1 \in 1..MaxSends
      BY <2>1, BoundsAssumption DEF Session!Send, SessionOK
    <2>3. f \in GoodFrame
      BY <2>1, <2>2 DEF GoodFrame, Session!Frame, FrameKinds
    <2> HIDE DEF f
    <2>4. Session!Send(f) /\ fourwayWant' = f
      BY <2>1 DEF f
    <2>5. fourwayLink' \in Seq(GoodFrame) /\ fourwaySends' = fourwaySends + 1
      BY <2>3, <2>4, ClientSends
    <2>6. /\ fourwayReq' = fourwayReq + 1
          /\ UNCHANGED <<fourwayInFourway, fourwayPc, fourwayMspBuf, fourwayBuf, fourwayTarget,
                         fourwayConnected, fourwayExited, fourwayCur, fourwayOut, fourwayEsc,
                         fourwayInTouch, fourwayLate, fourwayUnheard>>
      BY <1>1 DEF Session!Ask, Session!server
    <2>7. /\ fourwayReq' \in Nat /\ fourwaySends' \in Nat
          /\ fourwayReq' =< fourwaySends' /\ fourwaySends' =< MaxSends
      BY <2>2, <2>5, <2>6, BoundsAssumption DEF SessionOK
    <2> QED
      BY <2>3, <2>4, <2>5, <2>6, <2>7 DEF SessionOK
  <1>2. CASE Session!Retry
    <2> DEFINE f == [fourwayWant EXCEPT !.no = fourwaySends + 1]
    <2>1. /\ fourwayWant # Session!NoFrame /\ Session!Send(f)
          /\ UNCHANGED <<fourwayInFourway, fourwayPc, fourwayMspBuf, fourwayBuf, fourwayTarget,
                         fourwayConnected, fourwayExited, fourwayCur, fourwayOut, fourwayEsc,
                         fourwayInTouch, fourwayWant, fourwayReq, fourwayUnheard>>
          /\ fourwayLate' \subseteq fourwayLate \cup {fourwaySends + 1}
      BY <1>2 DEF Session!Retry, Session!server
    <2>2. fourwaySends + 1 \in 1..MaxSends /\ fourwayWant \in GoodFrame
      BY <2>1, BoundsAssumption DEF Session!Send, SessionOK
    <2>3. f \in GoodFrame
      BY <2>2 DEF GoodFrame, Session!Frame
    <2> HIDE DEF f
    <2>4. fourwayLink' \in Seq(GoodFrame) /\ fourwaySends' = fourwaySends + 1
      BY <2>1, <2>3, ClientSends
    <2>5. fourwaySends' \in Nat /\ fourwayReq' =< fourwaySends' /\ fourwaySends' =< MaxSends
      BY <2>1, <2>2, <2>4, BoundsAssumption DEF SessionOK
    <2>6. fourwayLate' \subseteq 1..MaxSends
      BY <2>1, <2>2 DEF SessionOK
    <2> QED
      BY <2>1, <2>4, <2>5, <2>6 DEF SessionOK
  <1>3. CASE Session!GiveUp
    BY <1>3 DEF Session!GiveUp, Session!server, SessionOK
  <1>4. CASE Session!Receive
    BY <1>4 DEF Session!Receive, Session!server, SessionOK
  <1> QED
    BY <1>1, <1>2, <1>3, <1>4

\* Reading and splitting frames.
LEMMA ReadingOK ==
    ASSUME SessionOK, \/ Session!ReadChunk \/ Session!SkipInMsp \/ Session!HandleMsp
                      \/ Session!HandlePassthrough \/ Session!MspDone \/ Session!SkipInFourway
                      \/ Session!TakeFrame \/ Session!NoMoreFrames
    PROVE  SessionOK'
  <1>1. ASSUME NEW s \in Seq(GoodFrame), s # <<>>
        PROVE  Head(s) \in GoodFrame /\ Tail(s) \in Seq(GoodFrame)
    BY <1>1, HeadTailProperties
  <1>2. <<>> \in Seq(GoodFrame) /\ fourwayBuf \o fourwayLink \in Seq(GoodFrame)
    BY ConcatProperties DEF SessionOK
  <1>3. CASE Session!ReadChunk
    BY <1>2, <1>3 DEF Session!ReadChunk, Session!client, SessionOK
  <1>4. CASE Session!SkipInMsp \/ Session!HandleMsp
    <2>1. fourwayMspBuf' \in Seq(GoodFrame)
      BY <1>1, <1>4 DEF Session!SkipInMsp, Session!HandleMsp, SessionOK
    <2> QED
      BY <1>4, <2>1 DEF Session!SkipInMsp, Session!HandleMsp, Session!server, Session!client, SessionOK
  <1>5. CASE Session!HandlePassthrough
    <2>1. fourwayBuf' \in Seq(GoodFrame)
      BY <1>1, <1>5 DEF Session!HandlePassthrough, SessionOK
    <2> QED
      BY <1>2, <1>5, <2>1 DEF Session!HandlePassthrough, Session!client, SessionOK
  <1>6. CASE Session!MspDone \/ Session!NoMoreFrames
    BY <1>6 DEF Session!MspDone, Session!NoMoreFrames, Session!server, Session!client, SessionOK
  <1>7. CASE Session!SkipInFourway
    <2>1. fourwayBuf' \in Seq(GoodFrame)
      BY <1>1, <1>7 DEF Session!SkipInFourway, SessionOK
    <2> QED
      BY <1>7, <2>1 DEF Session!SkipInFourway, Session!client, SessionOK
  <1>8. CASE Session!TakeFrame
    <2>1. fourwayBuf' \in Seq(GoodFrame) /\ fourwayCur' \in GoodFrame
      BY <1>1, <1>8 DEF Session!TakeFrame, SessionOK
    <2> QED
      BY <1>8, <2>1 DEF Session!TakeFrame, Session!client, SessionOK
  <1> QED
    BY <1>3, <1>4, <1>5, <1>6, <1>7, <1>8

\* Working a frame off.
LEMMA WorkingOK ==
    ASSUME SessionOK, \/ Session!Info \/ Session!InitFlash \/ Session!TestAlive \/ Session!Data
                      \/ Session!DeviceReset \/ Session!InterfaceExit
    PROVE  SessionOK'
  <1>1. PICK left \in BOOLEAN : Session!Replies(left)
    BY DEF Session!Info, Session!InitFlash, Session!TestAlive, Session!Data,
           Session!DeviceReset, Session!InterfaceExit
  <1>2. fourwayCur.kind \in {"info", "init", "alive", "data", "reset", "exit"}
    BY DEF Session!Info, Session!InitFlash, Session!TestAlive, Session!Data,
           Session!DeviceReset, Session!InterfaceExit
  <1>3. fourwayCur \in GoodFrame
    BY <1>2 DEF SessionOK, Session!NoFrame
  <1>4. fourwayOut' \in Seq(GoodFrame)
    BY <1>1, <1>3, AppendProperties DEF Session!Replies, SessionOK
  <1>5. /\ fourwayCur' = Session!NoFrame /\ fourwayPc' \in {"answer", "feed"}
        /\ UNCHANGED <<fourwayInFourway, fourwayMspBuf, fourwayBuf, fourwayLink, fourwayWant,
                       fourwayReq, fourwaySends, fourwayLate>>
    BY <1>1 DEF Session!Replies, Session!client
  <1>6. fourwayCur.kind \in {"init", "reset"} => fourwayCur.esc \in Escs
    BY <1>3 DEF GoodFrame, Session!Named
  <1>7. /\ fourwayTarget' \in Escs \cup {0} /\ fourwayConnected' \subseteq Escs
        /\ fourwayInTouch' \subseteq Escs /\ fourwayEsc' \in [Escs -> {"app", "boot"}]
        /\ fourwayExited' \in BOOLEAN /\ fourwayUnheard' \subseteq Escs
    <2> USE DEF SessionOK
    <2>1. CASE Session!Info
      BY <2>1 DEF Session!Info
    <2>2. CASE Session!InitFlash
      BY <1>6, <2>2 DEF Session!InitFlash
    <2>3. CASE Session!TestAlive
      BY <2>3 DEF Session!TestAlive
    <2>4. CASE Session!Data
      BY <2>4 DEF Session!Data
    <2>5. CASE Session!DeviceReset
      BY <2>5 DEF Session!DeviceReset
    <2>6. CASE Session!InterfaceExit
      BY <2>6 DEF Session!InterfaceExit
    <2> QED
      BY <2>1, <2>2, <2>3, <2>4, <2>5, <2>6
  <1> QED
    BY <1>4, <1>5, <1>7 DEF SessionOK

\* Answering, and leaving the interface.
LEMMA AnsweringOK ==
    ASSUME SessionOK, \/ Session!WriteAnswers \/ Session!NoAnswers \/ Session!Leave
                      \/ UNCHANGED Session!vars
    PROVE  SessionOK'
  <1>1. CASE Session!WriteAnswers
    <2> DEFINE rest == SubSeq(fourwayLink, Session!Copies(fourwayLink) + 1, Len(fourwayLink))
    <2>1. rest \in Seq(GoodFrame)
      BY CopiesEnd DEF SessionOK
    <2>2. fourwayBuf' = fourwayBuf \o rest /\ fourwayPc' \in {"leave", "feed"}
      BY <1>1 DEF Session!WriteAnswers
    <2> HIDE DEF rest
    <2>3. fourwayBuf' \in Seq(GoodFrame)
      BY <2>1, <2>2, ConcatProperties DEF SessionOK
    <2>4. <<>> \in Seq(GoodFrame)
      OBVIOUS
    <2>5. /\ fourwayLink' = <<>> /\ fourwayOut' = <<>>
          /\ UNCHANGED <<fourwayInFourway, fourwayMspBuf, fourwayTarget, fourwayConnected,
                         fourwayExited, fourwayCur, fourwayWant, fourwayReq, fourwaySends,
                         fourwayEsc, fourwayInTouch, fourwayLate, fourwayUnheard>>
      BY <1>1 DEF Session!WriteAnswers, Session!client
    <2> QED
      BY <2>2, <2>3, <2>4, <2>5 DEF SessionOK
  <1>2. CASE Session!NoAnswers
    BY <1>2 DEF Session!NoAnswers, Session!server, Session!client, SessionOK
  <1>3. CASE Session!Leave
    BY <1>3 DEF Session!Leave, Session!server, Session!client, SessionOK
  <1>4. CASE UNCHANGED Session!vars
    BY <1>4 DEF Session!vars, Session!server, Session!client, SessionOK
  <1> QED
    BY <1>1, <1>2, <1>3, <1>4

\* Whatever happens in a session keeps its types.
LEMMA SessionStaysOK == SessionOK /\ [Session!Next]_(Session!vars) => SessionOK'
  BY ClientOK, ReadingOK, WorkingOK, AnsweringOK DEF Session!Next, Session!ServerStep


\* These are the session's types.
LEMMA SessionIsTyped == SessionOK => Session!TypeOK
  <1> SUFFICES ASSUME SessionOK PROVE Session!TypeOK
    OBVIOUS
  <1>1. GoodFrame \subseteq Session!Frame
    BY DEF GoodFrame
  <1>2. ASSUME NEW s \in Seq(GoodFrame) PROVE s \in Seq(Session!Frame)
    BY <1>1, SeqMonotonic
  <1> QED
    BY <1>1, <1>2 DEF SessionOK, Session!TypeOK

\* The bytes the client sent, and them and the ESC's.
Sent == 1..WireBytes
WireByte == -WireBytes..WireBytes

\* The types of the single wire: no chunk that is pending is empty.
WireTyped ==
    /\ bridgeRunning \in BOOLEAN /\ bridgeTxDone \in BOOLEAN /\ bridgeSent \in 0..WireBytes
    /\ bridgeEchoes \in Seq(Seq(Sent) \ {<<>>})
    /\ bridgeInbox \in Seq(Sent) /\ bridgeWire \in Seq(Sent)
    /\ bridgeAnswers \in Seq(-WireBytes..-1) /\ bridgeOutbox \in Seq(WireByte)

\* It is so when the bridge begins.
LEMMA WireTypedBegins == Bridge!Init => WireTyped
  <1> SUFFICES ASSUME Bridge!Init PROVE WireTyped
    OBVIOUS
  <1>1. 0 \in 0..WireBytes
    BY BoundsAssumption
  <1>2. \A S : <<>> \in Seq(S)
    OBVIOUS
  <1> QED
    BY <1>1, <1>2 DEF Bridge!Init, WireTyped

\* These are the bridge's types.
LEMMA WireTypedEnds == WireTyped => Bridge!TypeOK
  <1> SUFFICES ASSUME WireTyped PROVE Bridge!TypeOK
    OBVIOUS
  <1> DEFINE T == Seq(Sent)
  <1>1. bridgeEchoes \in Seq(T)
    BY SeqMonotonic DEF WireTyped
  <1>2. ASSUME NEW i \in DOMAIN bridgeEchoes PROVE bridgeEchoes[i] # <<>>
    <2> DEFINE U == T \ {<<>>}
    <2>1. bridgeEchoes \in Seq(U)
      BY DEF WireTyped
    <2> HIDE DEF U
    <2>2. i \in 1..Len(bridgeEchoes)
      BY <2>1, LenProperties
    <2>3. bridgeEchoes[i] \in U
      BY <2>1, <2>2, ElementOfSeq
    <2> QED
      BY <2>3 DEF U
  <1> QED
    BY <1>1, <1>2 DEF WireTyped, Bridge!TypeOK, Bridge!Bytes, Sent, WireByte

\* A part of a sequence of S.
LEMMA PartOf ==
    ASSUME NEW S, NEW s \in Seq(S), NEW m \in Nat \ {0}, NEW n \in 0..Len(s)
    PROVE  SubSeq(s, m, n) \in Seq(S)
  <1>1. Len(s) \in Nat /\ m \in Int /\ n \in Int
    BY LenProperties
  <1>2. \A i \in 1..Len(s) : s[i] \in S
    BY ElementOfSeq
  <1>3. \A i \in m..n : s[i] \in S
    BY <1>1, <1>2
  <1> QED
    BY <1>1, <1>3, SubSeqProperties

\* They stay when the client sends a byte.
LEMMA WireTypedSends == WireTyped /\ Bridge!Send => WireTyped'
  <1> SUFFICES ASSUME WireTyped, Bridge!Send PROVE WireTyped'
    OBVIOUS
  <1>1. bridgeSent + 1 \in Sent /\ bridgeSent' \in 0..WireBytes
    BY BoundsAssumption DEF WireTyped, Bridge!Send, Sent
  <1>2. bridgeInbox' \in Seq(Sent)
    BY <1>1, AppendProperties DEF WireTyped, Bridge!Send
  <1> QED
    BY <1>1, <1>2 DEF WireTyped, Bridge!Send

\* A byte of the wire, and its answer, keep their types.
LEMMA WireTypedTransmits == WireTyped /\ Bridge!Transmit => WireTyped'
  <1> SUFFICES ASSUME WireTyped, Bridge!Transmit PROVE WireTyped'
    OBVIOUS
  <1>1. Head(bridgeWire) \in Sent /\ bridgeWire' \in Seq(Sent)
    BY HeadTailProperties DEF WireTyped, Bridge!Transmit
  <1> DEFINE h == Head(bridgeWire)
             Neg == -WireBytes..-1
  <1> HIDE DEF h
  <1>2. -h \in Neg
    BY <1>1, BoundsAssumption DEF Sent, h
  <1>3. bridgeAnswers' \in {bridgeAnswers, Append(bridgeAnswers, -h)} /\ bridgeAnswers \in Seq(Neg)
    BY DEF WireTyped, Bridge!Transmit, h
  <1> DEFINE x == -h
  <1> HIDE DEF Neg, x
  <1>4. Append(bridgeAnswers, x) \in Seq(Neg)
    BY <1>2, <1>3, AppendProperties DEF x
  <1>5. bridgeAnswers' \in Seq(Neg)
    BY <1>3, <1>4 DEF x
  <1>6. bridgeTxDone' \in BOOLEAN
    BY DEF WireTyped, Bridge!Transmit
  <1>7. UNCHANGED <<bridgeRunning, bridgeEchoes, bridgeSent, bridgeInbox, bridgeOutbox>>
    BY DEF Bridge!Transmit
  <1> QED
    BY <1>1, <1>5, <1>6, <1>7 DEF WireTyped, Neg

\* So do the lists a pass takes apart and puts together.
LEMMA WireTypedPasses == WireTyped /\ Bridge!Pass => WireTyped'
  <1> SUFFICES ASSUME WireTyped, Bridge!Pass PROVE WireTyped'
    OBVIOUS
  <1> DEFINE U == Seq(Sent) \ {<<>>}
             Neg == -WireBytes..-1
  <1>1. PICK n \in 0..Len(bridgeInbox), held \in {0, 1} : Bridge!PassWith(n, held)
    BY DEF Bridge!Pass
  <1> DEFINE chunk == SubSeq(bridgeInbox, 1, n)
             queued == IF n = 0 THEN bridgeEchoes ELSE Append(bridgeEchoes, chunk)
             marked == IF bridgeTxDone THEN Bridge!FlattenSeq(queued) ELSE <<>>
             pending == IF bridgeTxDone THEN <<>> ELSE queued
             out == IF held = 1 THEN <<>> ELSE bridgeAnswers
             after == IF out = <<>> THEN pending ELSE <<>>
             more == IF out = <<>> THEN <<>> ELSE Bridge!FlattenSeq(pending) \o out
  <1>2. /\ bridgeInbox' = SubSeq(bridgeInbox, n + 1, Len(bridgeInbox))
        /\ bridgeWire' = bridgeWire \o chunk
        /\ bridgeAnswers' = IF held = 1 THEN bridgeAnswers ELSE <<>>
    BY <1>1 DEF Bridge!PassWith
  <1>3. PICK due \in 0..Len(Bridge!FlattenSeq(after)) :
            /\ bridgeOutbox' = bridgeOutbox \o marked \o more
                                 \o SubSeq(Bridge!FlattenSeq(after), 1, due)
            /\ bridgeEchoes' = Bridge!Dribbled(after, due)
    BY <1>1 DEF Bridge!PassWith, Bridge!Left, Bridge!Flushed, Bridge!BeforeAnswer
  <1>4. /\ bridgeTxDone' \in BOOLEAN /\ bridgeRunning' \in BOOLEAN /\ bridgeSent' \in 0..WireBytes
    BY DEF Bridge!Pass, WireTyped
  <1>5. /\ bridgeInbox \in Seq(Sent) /\ bridgeWire \in Seq(Sent) /\ bridgeEchoes \in Seq(U)
        /\ bridgeAnswers \in Seq(Neg) /\ bridgeOutbox \in Seq(WireByte)
    BY DEF WireTyped
  <1>6. Sent \subseteq WireByte /\ Neg \subseteq WireByte
    BY BoundsAssumption DEF Sent, WireByte
  <1>7. ASSUME NEW q \in Seq(U) PROVE q \in Seq(Seq(Sent)) /\ Bridge!FlattenSeq(q) \in Seq(Sent)
    <2>1. q \in Seq(Seq(Sent))
      BY SeqMonotonic
    <2> QED
      BY <2>1, Flattened
  <1>8. \A S : <<>> \in Seq(S)
    OBVIOUS
  <1>9. Len(bridgeInbox) \in Nat
    BY <1>5, LenProperties
  <1>10. chunk \in Seq(Sent) /\ (n # 0 => chunk # <<>>)
    <2>1. chunk \in Seq(Sent)
      BY <1>5, <1>9, PartOf
    <2>2. Len(chunk) = n
      <3>1. \A i \in 1..n : bridgeInbox[i] \in Sent
        <4>1. \A i \in 1..Len(bridgeInbox) : bridgeInbox[i] \in Sent
          BY <1>5, ElementOfSeq
        <4> QED
          BY <1>9, <4>1
      <3>2. Len(chunk) = IF 1 <= n THEN n - 1 + 1 ELSE 0
        BY <1>9, <3>1, SubSeqProperties
      <3> QED
        BY <1>9, <3>2
    <2> HIDE DEF chunk
    <2>3. Len(<<>>) = 0
      OBVIOUS
    <2> QED
      BY <2>1, <2>2, <2>3
  <1>11. bridgeInbox' \in Seq(Sent)
    <2>1. n + 1 \in Nat \ {0}
      BY <1>9
    <2> QED
      BY <1>2, <1>5, <1>9, <2>1, PartOf
  <1> HIDE DEF chunk, U, Neg
  <1>12. bridgeWire' \in Seq(Sent)
    BY <1>2, <1>5, <1>10, ConcatProperties
  <1>13. bridgeAnswers' \in Seq(Neg) /\ out \in Seq(Neg)
    BY <1>2, <1>5, <1>8
  <1>14. queued \in Seq(U)
    <2>1. CASE n # 0
      <3>1. chunk \in U
        BY <1>10, <2>1 DEF U
      <3> QED
        BY <1>5, <2>1, <3>1, AppendProperties
    <2> QED
      BY <1>5, <2>1
  <1> HIDE DEF queued, out
  <1>15. /\ marked \in Seq(Sent) /\ pending \in Seq(U) /\ after \in Seq(U)
    BY <1>7, <1>8, <1>14
  <1> HIDE DEF marked, pending, after
  <1>16. bridgeEchoes' \in Seq(U)
    <2>1. after \in Seq(Seq(Sent) \ {<<>>})
      BY <1>15 DEF U
    <2>2. Bridge!Dribbled(after, due) \in Seq(Seq(Sent) \ {<<>>})
      BY <2>1, DribblesPieces
    <2> QED
      BY <1>3, <2>2 DEF U
  <1>17. marked \in Seq(WireByte) /\ Bridge!FlattenSeq(pending) \in Seq(WireByte) /\ out \in Seq(WireByte)
    <2>1. ASSUME NEW s \in Seq(Sent) PROVE s \in Seq(WireByte)
      BY <1>6, SeqMonotonic
    <2>2. ASSUME NEW s \in Seq(Neg) PROVE s \in Seq(WireByte)
      BY <1>6, SeqMonotonic
    <2> QED
      BY <1>7, <1>13, <1>15, <2>1, <2>2
  <1>18. more \in Seq(WireByte)
    <2> DEFINE w == Bridge!FlattenSeq(pending)
    <2>1. w \in Seq(WireByte)
      BY <1>17
    <2> HIDE DEF w
    <2>2. w \o out \in Seq(WireByte)
      BY <1>17, <2>1, ConcatProperties
    <2> QED
      BY <1>8, <2>2 DEF w
  <1> HIDE DEF more
  <1> DEFINE w == SubSeq(Bridge!FlattenSeq(after), 1, due)
  <1>19. w \in Seq(WireByte)
    <2> DEFINE f == Bridge!FlattenSeq(after)
    <2>1. f \in Seq(Sent) /\ due \in 0..Len(f)
      BY <1>7, <1>15
    <2> HIDE DEF f
    <2>2. SubSeq(f, 1, due) \in Seq(Sent)
      BY <2>1, PartOf
    <2>3. SubSeq(f, 1, due) \in Seq(WireByte)
      BY <1>6, <2>2, SeqMonotonic
    <2> QED
      BY <2>3 DEF f
  <1> HIDE DEF w
  <1>20. bridgeOutbox' \in Seq(WireByte)
    <2>1. bridgeOutbox' = ((bridgeOutbox \o marked) \o more) \o w
      BY <1>3 DEF w
    <2>2. bridgeOutbox \o marked \in Seq(WireByte)
      BY <1>5, <1>17, ConcatProperties
    <2> DEFINE o1 == bridgeOutbox \o marked
    <2> HIDE DEF o1
    <2>3. o1 \o more \in Seq(WireByte)
      BY <1>18, <2>2, ConcatProperties DEF o1
    <2> DEFINE o2 == o1 \o more
    <2> HIDE DEF o2
    <2>4. o2 \o w \in Seq(WireByte)
      BY <1>19, <2>3, ConcatProperties DEF o2
    <2> QED
      BY <2>1, <2>4 DEF o1, o2
  <1> QED
    BY <1>4, <1>11, <1>12, <1>13, <1>16, <1>20 DEF WireTyped, U, Neg

\* Whatever happens on the wire keeps the types.
LEMMA WireTypedStays == WireTyped /\ [Bridge!Next]_(Bridge!vars) => WireTyped'
  <1> SUFFICES ASSUME WireTyped, [Bridge!Next]_(Bridge!vars) PROVE WireTyped'
    OBVIOUS
  <1>1. CASE Bridge!Close
    BY <1>1 DEF Bridge!Close, WireTyped
  <1>2. CASE UNCHANGED Bridge!vars
    BY <1>2 DEF Bridge!vars, WireTyped
  <1> QED
    BY <1>1, <1>2, WireTypedSends, WireTypedTransmits, WireTypedPasses DEF Bridge!Next

\* Whatever the four do, each is in a state of its types: the loader's block and host
\* are those of a download, no output is enabled in 4-way mode, no frame beyond those
\* sent is in the session, and on the single wire nothing is pending that is empty.
THEOREM DevicesTyped == Spec => []TypesOK
  <1>1. DfuInv => Dfu!TypeOK
    BY DEF DfuInv
  <1>2. Spec => []Dfu!TypeOK
    BY <1>1, LoaderBegins, LoaderKeeps, DfuBehaves, PTL
  <1>3. Fc!IInv => Fc!TypeOK
    BY DEF Fc!IInv
  <1>4. Spec => []Fc!TypeOK
    BY <1>3, FcBehaves, Fc!Invariance, PTL
  <1>5. Spec => []Session!TypeOK
    BY SessionIsTyped, SessionStarts, SessionStaysOK, SessionBehaves, PTL
  <1>6. Spec => []Bridge!TypeOK
    BY WireTypedBegins, WireTypedEnds, WireTypedStays, BridgeBehaves, PTL
  <1> QED
    BY <1>2, <1>4, <1>5, <1>6, PTL DEF TypesOK
==============================================================================
