----------------------------- MODULE FcMotors -----------------------------
(***************************************************************************)
(* escsim/control/msp_stub_fc.py, class MspStubFC: who drives the signal   *)
(* wires.  The MSP thread handles the host's commands: motor values, 4-way *)
(* passthrough and its end.  The DShot thread takes a snapshot of the      *)
(* outputs, gives motor_lock up, and sends it in one or several cycles.    *)
(* Another thread closes the stub.  Every region under motor_lock is one   *)
(* step.                                                                   *)
(*                                                                         *)
(* A throttle is zero or not; the enable bursts of extended telemetry are  *)
(* zero throttle here.  What 4-way requests say, and how they are          *)
(* answered, is FourWaySession's; here a request is bytes on the wires.    *)
(***************************************************************************)
EXTENDS Naturals, FiniteSets, TLAPS

CONSTANTS
    Escs,
    MaxCommands     \* bound: motor commands and passthroughs handled

VARIABLES
    running,        \* MspStubFC.running
    inFourway,      \* MspStubFC.in_fourway
    enabled,        \* MspStubFC.motor_output_enabled
    active,         \* MspStubFC.motor_active
    value,          \* ESCs whose MotorState.value is above zero throttle
    ready,          \* ESCs whose MotorState.output_ready is set
    seen,           \* RenodeArmingProbe.armed: "none", "no" or "yes" for each
    waited,         \* motor_arming_until has passed
    mpc,            \* the MSP thread
    dpc, outputs,   \* the DShot thread, and the throttled ESCs of its snapshot
    cpc,            \* the thread that calls close
    serial,         \* external: bytes of the 4-way side on the wires
    app,            \* external: ESCs that run the application
    armed,          \* external: those that have armed
    driven,         \* observer: a cycle was driven since the last passthrough
    commands,       \* bookkeeping for the bound
    commanded,      \* observer: ESCs given throttle since the motors were zeroed
    fresh,          \* observer: they were not zeroed since the snapshot
    late            \* observer: a RUN command was still on the wire when the
                    \* wait for it ended

motor  == <<enabled, active, value, ready, seen, waited>>
escs   == <<app, armed>>
ghosts == <<commanded, fresh, late>>
vars == <<running, inFourway, motor, mpc, dpc, outputs, cpc, serial, escs,
          driven, commands, ghosts>>

Init ==
    /\ running = TRUE /\ inFourway = FALSE
    /\ enabled = FALSE /\ active = FALSE /\ value = {} /\ ready = {}
    /\ seen = [e \in Escs |-> "none"] /\ waited = TRUE
    /\ mpc = "msp" /\ dpc = "idle" /\ outputs = {} /\ cpc = "open"
    /\ serial = FALSE /\ app \in {{}, Escs} /\ armed = {} /\ driven = FALSE
    /\ commands = 0 /\ commanded = {} /\ fresh = TRUE /\ late = FALSE

\* Every motor back to zero throttle and not ready, which three places do.
Zeroed ==
    /\ value' = {} /\ ready' = {} /\ active' = FALSE
    /\ commanded' = {} /\ fresh' = FALSE

Forgets == seen' = [e \in Escs |-> "none"]

-----------------------------------------------------------------------------
(* The MSP thread. *)

Counts == commands < MaxCommands /\ commands' = commands + 1

\* MSP_SET_MOTOR.  The first one enables the outputs and starts the wait for
\* arming; it may name fewer motors than there are.
SetMotor ==
    /\ mpc = "msp" /\ Counts
    /\ \E named \in SUBSET Escs \ {{}} : \E on \in SUBSET named :
        /\ value' = (value \ named) \cup on
        /\ commanded' = commanded \cup on
    /\ enabled' = TRUE /\ active' = TRUE
    /\ waited' = (waited /\ enabled)
    /\ UNCHANGED <<running, inFourway, ready, seen, mpc, dpc, outputs, cpc, serial,
                   escs, driven, fresh, late>>

\* Mutant: the outputs stay enabled.
SetPassthroughKeepsEnabled ==
    /\ mpc = "msp" /\ Counts
    /\ inFourway' = TRUE /\ UNCHANGED enabled /\ waited' = TRUE
    /\ Zeroed /\ Forgets /\ mpc' = "fourway" /\ driven' = FALSE
    /\ UNCHANGED <<running, dpc, outputs, cpc, serial, escs, late>>

\* MSP_SET_PASSTHROUGH.
SetPassthrough ==
    /\ mpc = "msp" /\ Counts
    /\ inFourway' = TRUE /\ enabled' = FALSE /\ waited' = TRUE
    /\ Zeroed /\ Forgets /\ mpc' = "fourway" /\ driven' = FALSE
    /\ UNCHANGED <<running, dpc, outputs, cpc, serial, escs, late>>

\* A 4-way request puts bytes on a wire and waits for what comes back; it may
\* reset an ESC into its bootloader or let one run its application.
WireBegins ==
    /\ mpc = "fourway" /\ mpc' = "wire" /\ serial' = TRUE
    /\ UNCHANGED <<running, inFourway, motor, dpc, outputs, cpc, escs, driven,
                   commands, ghosts>>

WireEnds ==
    /\ mpc = "wire" /\ mpc' = "fourway" /\ serial' = FALSE
    /\ \E e \in Escs : app' \in {app \cup {e}, app \ {e}}
    /\ armed' = armed \cap app'
    /\ UNCHANGED <<running, inFourway, motor, dpc, outputs, cpc, driven, commands,
                   ghosts>>

\* cmd_InterfaceExit: RUN is sent to the bootloaders.
ExitRuns ==
    /\ mpc = "fourway" /\ mpc' = "exiting" /\ serial' = TRUE
    /\ UNCHANGED <<running, inFourway, motor, dpc, outputs, cpc, escs, driven,
                   commands, ghosts>>

\* Mutant: it never waits, and does not know that it has not.
RunLeavesUnseen ==
    /\ mpc = "exiting" /\ mpc' = "exited"
    /\ UNCHANGED <<running, inFourway, motor, dpc, outputs, cpc, serial, escs, driven,
                   commands, ghosts>>

\* FourWay.run waits until the emulator reports that the bytes have left.
RunLeaves ==
    /\ mpc = "exiting" /\ mpc' = "exited" /\ serial' = FALSE
    /\ app' = Escs
    /\ UNCHANGED <<running, inFourway, motor, dpc, outputs, cpc, armed, driven,
                   commands, ghosts>>

\* ... or until its time is over, or does not wait because the emulator never
\* reported anything.
RunStaysOnWire ==
    /\ mpc = "exiting" /\ mpc' = "exited" /\ late' = TRUE
    /\ UNCHANGED <<running, inFourway, motor, dpc, outputs, cpc, serial, escs, driven,
                   commands, commanded, fresh>>

LateRunLeaves ==
    /\ serial /\ mpc \notin {"wire", "exiting"}
    /\ serial' = FALSE /\ app' = Escs
    /\ UNCHANGED <<running, inFourway, motor, mpc, dpc, outputs, cpc, armed, driven,
                   commands, ghosts>>

\* Mutant: the outputs stay off until the next motor command.
LeaveFourwaySilent ==
    /\ mpc = "exited" /\ mpc' = "msp"
    /\ inFourway' = FALSE /\ enabled' = FALSE /\ waited' = FALSE
    /\ Zeroed /\ Forgets
    /\ UNCHANGED <<running, dpc, outputs, cpc, serial, escs, driven, commands, late>>

\* The end of _fourway: outputs on, at zero throttle, arming from the start.
LeaveFourway ==
    /\ mpc = "exited" /\ mpc' = "msp"
    /\ inFourway' = FALSE /\ enabled' = TRUE /\ waited' = FALSE
    /\ Zeroed /\ Forgets
    /\ UNCHANGED <<running, dpc, outputs, cpc, serial, escs, driven, commands, late>>

MspEnds ==
    /\ ~running /\ mpc \in {"msp", "fourway"} /\ mpc' = "ended"
    /\ UNCHANGED <<running, inFourway, motor, dpc, outputs, cpc, serial, escs, driven,
                   commands, ghosts>>

-----------------------------------------------------------------------------
(* The DShot thread. *)

\* Mutant: the time counts for ESCs that do answer as well.
ReadyByTime(armedNow, rdy) == {e \in Escs : e \in rdy \/ waited}

\* An ESC that was observed armed once stays ready; one that never answers is
\* ready when the time for arming is over.
ReadyWith(armedNow, rdy) ==
    {e \in Escs : e \in rdy \/ (armedNow[e] = "none" /\ waited)}

\* The probe's answers that have arrived, each as the ESC was then.
Answers == [e \in Escs |-> {seen[e], IF e \in armed THEN "yes" ELSE "no"}]

\* _motor_snapshot.  No motor gets throttle while one that should has not armed.
Snapshot ==
    /\ dpc = "idle" /\ running
    /\ \E a \in [Escs -> {"none", "no", "yes"}] :
        /\ \A e \in Escs : a[e] \in Answers[e]
        /\ seen' = a
        /\ ready' = ready \cup {e \in Escs : a[e] = "yes"}
        /\ LET usable == ReadyWith(a, ready')
           IN  IF inFourway \/ ~enabled
               THEN UNCHANGED <<dpc, outputs, fresh>>
               ELSE /\ dpc' = "send" /\ fresh' = TRUE
                    /\ outputs' = IF active /\ value \subseteq usable
                                  THEN value ELSE {}
    /\ UNCHANGED <<running, inFourway, enabled, active, value, waited, mpc, cpc,
                   serial, escs, driven, commands, commanded, late>>

\* Mutant: whether outputs are enabled was looked at in the snapshot.
SendCycleAnyway ==
    /\ dpc = "send" /\ cpc # "closed"
    /\ driven' = TRUE /\ dpc' \in {"send", "idle"}
    /\ \E e \in SUBSET (app \ outputs) : armed' = armed \cup e
    /\ UNCHANGED <<running, inFourway, motor, mpc, outputs, cpc, serial, app,
                   commands, ghosts>>

\* _send_motor_cycle, one of up to ten; the loop ends when it is refused, or
\* when the cycles that were due have been sent.
SendCycle ==
    /\ dpc = "send" /\ cpc # "closed"
    /\ ~inFourway /\ enabled
    /\ driven' = TRUE /\ dpc' \in {"send", "idle"}
    /\ \E e \in SUBSET (app \ outputs) : armed' = armed \cup e
    /\ UNCHANGED <<running, inFourway, motor, mpc, outputs, cpc, serial, app,
                   commands, ghosts>>

\* Mutant: the cycle is tried again until it is sent.
SendRefusedRetries ==
    /\ dpc = "send" /\ (inFourway \/ ~enabled \/ cpc = "closed")
    /\ UNCHANGED vars

SendRefused ==
    /\ dpc = "send" /\ (inFourway \/ ~enabled \/ cpc = "closed")
    /\ dpc' = "idle"
    /\ UNCHANGED <<running, inFourway, motor, mpc, outputs, cpc, serial, escs, driven,
                   commands, ghosts>>

DshotEnds ==
    /\ dpc = "idle" /\ ~running /\ dpc' = "ended"
    /\ UNCHANGED <<running, inFourway, motor, mpc, outputs, cpc, serial, escs, driven,
                   commands, ghosts>>

-----------------------------------------------------------------------------
(* Closing, and time. *)

\* close: running is cleared and the motors are stopped; the joins that follow
\* give up after half a second, whatever the threads are doing.
CloseBegins ==
    /\ cpc = "open" /\ cpc' = "joining"
    /\ running' = FALSE /\ enabled' = FALSE /\ waited' = TRUE /\ Zeroed
    /\ UNCHANGED <<inFourway, seen, mpc, dpc, outputs, serial, escs, driven, commands,
                   late>>

\* A motor command or an exit that the MSP thread was still handling may have
\* enabled the outputs again: they are stopped a second time.
CloseEnds ==
    /\ cpc = "joining" /\ cpc' = "closed"
    /\ enabled' = FALSE /\ waited' = TRUE /\ Zeroed
    /\ UNCHANGED <<running, inFourway, seen, mpc, dpc, outputs, serial, escs, driven,
                   commands, late>>

ArmingTimePasses ==
    /\ ~waited /\ waited' = TRUE
    /\ UNCHANGED <<running, inFourway, enabled, active, value, ready, seen, mpc, dpc,
                   outputs, cpc, serial, escs, driven, commands, ghosts>>

MspStep == \/ SetMotor \/ SetPassthrough \/ WireBegins \/ WireEnds \/ ExitRuns
           \/ RunLeaves \/ RunStaysOnWire \/ LeaveFourway \/ MspEnds
DshotStep == Snapshot \/ SendCycle \/ SendRefused \/ DshotEnds

Next == MspStep \/ DshotStep \/ LateRunLeaves \/ CloseBegins \/ CloseEnds
        \/ ArmingTimePasses

Spec == Init /\ [][Next]_vars

\* The DShot thread runs on, and so does an exit; MSP commands come when a host
\* sends them.
Fair == WF_vars(DshotStep) /\ WF_vars(LeaveFourway)

-----------------------------------------------------------------------------
TypeOK ==
    /\ running \in BOOLEAN /\ inFourway \in BOOLEAN /\ enabled \in BOOLEAN
    /\ active \in BOOLEAN /\ value \subseteq Escs /\ ready \subseteq Escs
    /\ seen \in [Escs -> {"none", "no", "yes"}] /\ waited \in BOOLEAN
    /\ mpc \in {"msp", "fourway", "wire", "exiting", "exited", "ended"}
    /\ dpc \in {"idle", "send", "ended"} /\ outputs \subseteq Escs
    /\ cpc \in {"open", "joining", "closed"}
    /\ serial \in BOOLEAN /\ app \subseteq Escs /\ armed \subseteq app
    /\ commanded \subseteq Escs /\ fresh \in BOOLEAN /\ late \in BOOLEAN
    /\ (inFourway => ~enabled \/ mpc = "ended")

\* No DShot frame lands in a serial transaction of the 4-way side, in none of
\* its bytes, the final RUN command included - as long as that has left the
\* wire within the time FourWay.run allows it.
NoDshotInSerial == [][SendCycle /\ serial => late]_vars

\* A frame with throttle that was taken from the motors as they are - not from a
\* snapshot made before they were zeroed - goes to an ESC that a host has given
\* throttle since, and that has armed, unless its state cannot be observed.
ThrottleAfterArming ==
    [][SendCycle /\ fresh
         => \A e \in outputs :
                e \in commanded /\ (e \in armed \/ seen[e] = "none")]_vars

\* The claim of the comments at msp_stub_fc.py:347 ("keeps sending disarmed
\* (zero-throttle) DShot after leaving 4-way mode") without that exception.
ZeroUntilCommanded ==
    [][SendCycle /\ cpc = "open" => outputs \subseteq commanded]_vars

\* After a passthrough the ESCs get frames again, or they would stay silent
\* until a host commands a motor.
OutputResumes ==
    mpc = "exited" ~> (driven \/ mpc = "fourway" \/ cpc # "open")

\* Once close has returned the DShot thread ends.
DshotThreadEnds == []<>(cpc = "closed" => dpc = "ended")
-----------------------------------------------------------------------------
(* Proofs, for any number of ESCs and of commands.                         *)
(*                                                                         *)
(* The two action properties need what the threads know of each other: the *)
(* DShot thread may be in the middle of a burst while the MSP thread goes  *)
(* in and out of 4-way mode.  A snapshot made before that is no longer     *)
(* fresh; what probes and readiness say of an ESC counts outside 4-way     *)
(* mode only, since a bootloader may disarm one that was seen armed.       *)

Serving == {"fourway", "wire", "exiting", "exited"}

\* in_fourway is set while the MSP thread serves a passthrough.
ModeInv ==
    /\ mpc = "msp" => ~inFourway
    /\ mpc \in Serving => inFourway

\* Bytes on a wire are a request's, an exit's, or a RUN that stayed behind.
WireInv == serial => late \/ mpc \in {"wire", "exiting"}

\* Outside 4-way mode an ESC that was seen armed, or is ready, is armed.
ArmedInv ==
    ~inFourway => \A e \in Escs : seen[e] = "yes" \/ e \in ready => e \in armed

\* Throttle is what a host commanded; a fresh snapshot was made outside 4-way
\* mode, of ESCs that have armed or cannot be observed.
FreshInv ==
    /\ value \subseteq commanded
    /\ dpc = "send" /\ fresh =>
         /\ ~inFourway
         /\ \A e \in outputs : e \in commanded /\ (e \in armed \/ seen[e] = "none")

IInv == TypeOK /\ ModeInv /\ WireInv /\ ArmedInv /\ FreshInv

\* The first states.
LEMMA InitInv == Init => IInv
  <1> SUFFICES ASSUME Init PROVE IInv
    OBVIOUS
  <1>1. seen \in [Escs -> {"none", "no", "yes"}] /\ \A e \in Escs : seen[e] = "none"
    BY DEF Init
  <1>2. TypeOK
    BY <1>1 DEF Init, TypeOK
  <1>3. ModeInv /\ WireInv
    BY DEF Init, ModeInv, WireInv, Serving
  <1>4. ArmedInv /\ FreshInv
    BY <1>1 DEF Init, ArmedInv, FreshInv
  <1> QED
    BY <1>2, <1>3, <1>4 DEF IInv

\* Every step keeps the types, and with them that no output is enabled while a
\* passthrough is served.
LEMMA TypeStep == TypeOK /\ ModeInv /\ [Next]_vars => TypeOK'
  <1> SUFFICES ASSUME TypeOK, ModeInv, [Next]_vars PROVE TypeOK'
    OBVIOUS
  <1> USE DEF TypeOK, motor, escs, ghosts
  <1>1. CASE SetMotor
    BY <1>1 DEF SetMotor, ModeInv
  <1>2. CASE SetPassthrough
    BY <1>2 DEF SetPassthrough, Zeroed, Forgets
  <1>3. CASE WireBegins
    BY <1>3 DEF WireBegins
  <1>4. CASE WireEnds
    BY <1>4 DEF WireEnds
  <1>5. CASE ExitRuns
    BY <1>5 DEF ExitRuns
  <1>6. CASE RunLeaves
    BY <1>6 DEF RunLeaves
  <1>7. CASE RunStaysOnWire
    BY <1>7 DEF RunStaysOnWire
  <1>8. CASE LateRunLeaves
    BY ZenonT(40), <1>8 DEF LateRunLeaves
  <1>9. CASE LeaveFourway
    BY <1>9 DEF LeaveFourway, Zeroed, Forgets
  <1>10. CASE MspEnds
    BY <1>10 DEF MspEnds
  <1>11. CASE Snapshot
    BY ZenonT(40), <1>11 DEF Snapshot
  <1>12. CASE SendCycle
    BY <1>12 DEF SendCycle
  <1>13. CASE SendRefused \/ DshotEnds
    BY <1>13 DEF SendRefused, DshotEnds
  <1>14. CASE CloseBegins
    BY <1>14 DEF CloseBegins, Zeroed
  <1>15. CASE CloseEnds
    BY <1>15 DEF CloseEnds, Zeroed
  <1>16. CASE ArmingTimePasses
    BY <1>16 DEF ArmingTimePasses
  <1>17. CASE UNCHANGED vars
    BY <1>17 DEF vars
  <1> QED
    BY <1>1, <1>2, <1>3, <1>4, <1>5, <1>6, <1>7, <1>8, <1>9, <1>10, <1>11, <1>12,
       <1>13, <1>14, <1>15, <1>16, <1>17 DEF Next, MspStep, DshotStep

\* The MSP thread alone enters and leaves 4-way mode, and a request that ends has
\* taken its bytes off the wire.
LEMMA ModeStep == TypeOK /\ ModeInv /\ WireInv /\ [Next]_vars => ModeInv' /\ WireInv'
  <1> SUFFICES ASSUME TypeOK, ModeInv, WireInv, [Next]_vars PROVE ModeInv' /\ WireInv'
    OBVIOUS
  <1> USE DEF ModeInv, WireInv, Serving, ghosts
  <1>1. CASE SetMotor \/ SetPassthrough
    BY <1>1 DEF SetMotor, SetPassthrough
  <1>2. CASE WireBegins \/ WireEnds
    BY <1>2 DEF WireBegins, WireEnds
  <1>3. CASE ExitRuns \/ RunLeaves \/ RunStaysOnWire
    BY <1>3 DEF ExitRuns, RunLeaves, RunStaysOnWire
  <1>4. CASE LateRunLeaves
    BY <1>4 DEF LateRunLeaves
  <1>5. CASE LeaveFourway \/ MspEnds
    BY <1>5 DEF LeaveFourway, MspEnds
  <1>6. CASE DshotStep
    BY <1>6 DEF DshotStep, Snapshot, SendCycle, SendRefused, DshotEnds
  <1>7. CASE CloseBegins \/ CloseEnds \/ ArmingTimePasses
    BY <1>7 DEF CloseBegins, CloseEnds, ArmingTimePasses
  <1>8. CASE UNCHANGED vars
    BY <1>8 DEF vars
  <1> QED
    BY <1>1, <1>2, <1>3, <1>4, <1>5, <1>6, <1>7, <1>8 DEF Next, MspStep

\* An ESC is disarmed by a request only, and leaving 4-way mode forgets what was
\* known of all of them.
LEMMA ArmedStep ==
    TypeOK /\ ModeInv /\ ArmedInv /\ [Next]_vars => ArmedInv'
  <1> SUFFICES ASSUME TypeOK, ModeInv, ArmedInv, [Next]_vars PROVE ArmedInv'
    OBVIOUS
  <1> USE DEF ArmedInv, motor, escs, ghosts
  <1>1. CASE SetMotor \/ SetPassthrough
    BY <1>1 DEF SetMotor, SetPassthrough
  <1>2. CASE WireBegins \/ WireEnds \/ ExitRuns
    BY <1>2 DEF WireBegins, WireEnds, ExitRuns, ModeInv, Serving
  <1>3. CASE RunLeaves \/ RunStaysOnWire
    BY <1>3 DEF RunLeaves, RunStaysOnWire
  <1>4. CASE LateRunLeaves
    BY <1>4 DEF LateRunLeaves
  <1>5. CASE LeaveFourway
    BY <1>5 DEF LeaveFourway, Zeroed, Forgets
  <1>6. CASE MspEnds
    BY <1>6 DEF MspEnds
  <1>7. CASE Snapshot
    <2> PICK a \in [Escs -> {"none", "no", "yes"}] :
            /\ \A e \in Escs : a[e] \in Answers[e]
            /\ seen' = a
            /\ ready' = ready \cup {e \in Escs : a[e] = "yes"}
      BY <1>7 DEF Snapshot
    <2>1. \A e \in Escs : a[e] = "yes" => seen[e] = "yes" \/ e \in armed
      BY DEF Answers
    <2>2. armed' = armed /\ inFourway' = inFourway
      BY <1>7 DEF Snapshot
    <2> QED
      BY <2>1, <2>2
  <1>8. CASE SendCycle
    BY <1>8 DEF SendCycle
  <1>9. CASE SendRefused \/ DshotEnds
    BY <1>9 DEF SendRefused, DshotEnds
  <1>10. CASE CloseBegins \/ CloseEnds
    BY <1>10 DEF CloseBegins, CloseEnds, Zeroed
  <1>11. CASE ArmingTimePasses
    BY <1>11 DEF ArmingTimePasses
  <1>12. CASE UNCHANGED vars
    BY <1>12 DEF vars
  <1> QED
    BY <1>1, <1>2, <1>3, <1>4, <1>5, <1>6, <1>7, <1>8, <1>9, <1>10, <1>11, <1>12
    DEF Next, MspStep, DshotStep

\* Whatever zeroes the motors makes the snapshot stale, and while it is fresh no ESC
\* is disarmed.
LEMMA FreshStep ==
    TypeOK /\ ModeInv /\ ArmedInv /\ FreshInv /\ [Next]_vars => FreshInv'
  <1> SUFFICES ASSUME TypeOK, ModeInv, ArmedInv, FreshInv, [Next]_vars PROVE FreshInv'
    OBVIOUS
  <1> USE DEF FreshInv, motor, escs, ghosts
  <1>1. CASE SetMotor
    BY <1>1 DEF SetMotor
  <1>2. CASE SetPassthrough
    BY <1>2 DEF SetPassthrough, Zeroed
  <1>3. CASE WireBegins \/ WireEnds \/ ExitRuns
    BY <1>3 DEF WireBegins, WireEnds, ExitRuns, ModeInv, Serving
  <1>4. CASE RunLeaves \/ RunStaysOnWire
    BY <1>4 DEF RunLeaves, RunStaysOnWire
  <1>5. CASE LateRunLeaves
    BY <1>5 DEF LateRunLeaves
  <1>6. CASE LeaveFourway
    BY <1>6 DEF LeaveFourway, Zeroed
  <1>7. CASE MspEnds
    BY <1>7 DEF MspEnds
  <1>8. CASE Snapshot
    <2>1. CASE inFourway \/ ~enabled
      BY <1>8, <2>1 DEF Snapshot
    <2>2. CASE ~(inFourway \/ ~enabled)
      <3> PICK a \in [Escs -> {"none", "no", "yes"}] :
              /\ \A e \in Escs : a[e] \in Answers[e]
              /\ seen' = a
              /\ ready' = ready \cup {e \in Escs : a[e] = "yes"}
              /\ outputs' = IF active /\ value \subseteq ReadyWith(a, ready')
                            THEN value ELSE {}
        BY <1>8, <2>2 DEF Snapshot
      <3>1. \A e \in ready' : e \in armed
        BY <2>2 DEF ArmedInv, Answers, TypeOK
      <3>2. \A e \in outputs' : e \in value /\ (e \in ready' \/ seen'[e] = "none")
        BY DEF ReadyWith
      <3>3. armed' = armed /\ inFourway' = inFourway /\ value' = value
            /\ commanded' = commanded
        BY <1>8 DEF Snapshot
      <3> QED
        BY <2>2, <3>1, <3>2, <3>3
    <2> QED
      BY <2>1, <2>2
  <1>9. CASE SendCycle
    BY <1>9 DEF SendCycle
  <1>10. CASE SendRefused \/ DshotEnds
    BY <1>10 DEF SendRefused, DshotEnds
  <1>11. CASE CloseBegins \/ CloseEnds
    BY <1>11 DEF CloseBegins, CloseEnds, Zeroed
  <1>12. CASE ArmingTimePasses
    BY <1>12 DEF ArmingTimePasses
  <1>13. CASE UNCHANGED vars
    BY <1>13 DEF vars
  <1> QED
    BY <1>1, <1>2, <1>3, <1>4, <1>5, <1>6, <1>7, <1>8, <1>9, <1>10, <1>11, <1>12,
       <1>13 DEF Next, MspStep, DshotStep

\* The invariant holds in every state the stub reaches.
THEOREM Invariance == Spec => []IInv
  <1>1. IInv /\ [Next]_vars => IInv'
    BY TypeStep, ModeStep, ArmedStep, FreshStep DEF IInv
  <1> QED
    BY InitInv, <1>1, PTL DEF Spec

\* The DShot thread drives no wire on which the 4-way side has bytes, but for a RUN
\* command that outlived the wait for it: _send_motor_cycle looks at in_fourway
\* under motor_lock, and in_fourway covers every request.
THEOREM WiresApart == Spec => NoDshotInSerial
  <1>1. IInv => (SendCycle /\ serial => late)
    BY DEF IInv, TypeOK, ModeInv, WireInv, SendCycle, Serving
  <1> QED
    BY Invariance, <1>1, PTL DEF NoDshotInSerial

\* Throttle reaches only an ESC that a host commanded and that has armed, or that
\* cannot be observed: however a passthrough, an exit or close falls between the
\* snapshot and its cycles.
THEOREM ThrottleSafe == Spec => ThrottleAfterArming
  <1>1. IInv => (SendCycle /\ fresh
                   => \A e \in outputs :
                        e \in commanded /\ (e \in armed \/ seen[e] = "none"))
    BY DEF IInv, FreshInv, SendCycle
  <1> QED
    BY Invariance, <1>1, PTL DEF ThrottleAfterArming
=============================================================================
