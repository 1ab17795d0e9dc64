--------------------------- MODULE LauncherWindow ---------------------------
(***************************************************************************)
(* escsim/gui.py, main: the launcher's window over class Lab.  Every       *)
(* handler runs on the Qt thread, for a click or for a line of the control *)
(* port; what is slow (resolving a target, fetching targets.h or the       *)
(* catalog, installing artifacts, the two downloads) runs in a thread that *)
(* ends with a message in log_q, which drain_log handles later, in the     *)
(* order in which the threads end.                                         *)
(*                                                                         *)
(* The window is one record, and a handler is a function of it, so that a  *)
(* handler that calls others, or sets a combo box whose signal does, is    *)
(* their composition.  Lab.start is its outcome.  The command "target"     *)
(* drains the log while it waits; here other handlers may run as well.     *)
(* Only targets that can be emulated are modelled.                         *)
(***************************************************************************)
EXTENDS Naturals, FiniteSets

CONSTANTS
    Targets,
    Counts,         \* numbers of ESCs, 1 among them
    MaxWork         \* bound: threads that are started

None == "none"
Nothing == [target |-> None, firmware |-> None, panel |-> <<None, 0>>, proto |-> None]
Bridges == {"4way", "direct"}

VARIABLES
    win,            \* the window, see TypeOK
    work,           \* threads that have not been heard of
    started         \* counts threads

vars == <<win, work, started>>

Init ==
    /\ win = [target |-> None,      \* target_combo
              lab |-> None,         \* lab.target
              fc |-> FALSE,         \* fc_combo
              proto |-> "4way", bridge |-> "4way",  \* proto_combo, last_bridge_protocol
              escs |-> 1, firmware |-> "local",     \* esc_count_spin; fw_combo, bl_combo
              catalog |-> FALSE,    \* artifact_catalog
              on |-> {"start", "fc", "proto", "escs", "choose", "renode"},
              fcdl |-> FALSE, dl |-> FALSE,  \* fc_download_active, download_active
              panel |-> <<None, 0>>,         \* control_signature
              launch |-> Nothing,      \* what runs
              drift |-> FALSE]      \* observer: lab.target changed over a launch
    /\ work = {[kind |-> "targets"], [kind |-> "catalog"], [kind |-> "check"]}
    /\ started = 0

Running(w) == w.launch # Nothing

\* A widget is enabled or not.
Sets(w, widget, on) == [w EXCEPT !.on = IF on THEN @ \cup {widget} ELSE @ \ {widget}]

-----------------------------------------------------------------------------
(* The handlers, as functions of the window. *)

\* rebuild_control_panel
Rebuilt(w) ==
    IF w.lab = None THEN w
    ELSE [w EXCEPT !.panel = <<w.lab, IF w.proto = "direct" THEN 1 ELSE w.escs>>]

\* refresh_fc_firmware_controls
FcControls(w) == Sets(w, "fcfw", w.fc /\ ~Running(w) /\ ~w.fcdl)

\* Mutant: leaving the flight controller does not bring the bridge's protocol back.
ProtocolKept(w) ==
    Rebuilt(FcControls([w EXCEPT !.proto = IF w.fc THEN "flightcontroller" ELSE @]))

\* protocol_changed, with the signals of the combo box it sets.
Protocol(w) ==
    LET bridge == IF w.proto \in Bridges THEN w.proto ELSE w.bridge
        proto  == IF w.fc THEN "flightcontroller" ELSE bridge
        free   == ~Running(w)
        v == [w EXCEPT !.proto = proto, !.bridge = bridge]
        s == Sets(Sets(v, "proto", ~w.fc /\ free), "escs", free /\ proto # "direct")
    IN  IF proto # w.proto THEN Rebuilt(FcControls(s)) ELSE FcControls(s)

\* do_stop
Stopped(w) ==
    Protocol([w EXCEPT !.launch = Nothing, !.on = (@ \cup {"start", "proto", "fc"}) \ {"stop"}])

\* target_changed; the thread that resolves the target is started besides.
Chosen(w, t) ==
    LET v == [w EXCEPT !.target = t] IN
    IF t # w.lab /\ Running(w) THEN Stopped(v) ELSE v

\* start_lab: the launch, or the window as it was when Lab.start refuses.
Launched(w, for) ==
    IF Running(w) \/ w.lab = None THEN {w}
    ELSE {w} \cup
         {[w EXCEPT !.launch = [target |-> w.lab, firmware |-> for, panel |-> Rebuilt(w).panel,
                                proto |-> w.proto],
                    !.on = (@ \cup {"stop"}) \ {"start", "proto", "escs", "fc", "fcfw"},
                    !.drift = FALSE]}

\* refresh_bootloaders and refresh_firmware_releases, with the preference "auto".
Releases(w) == IF w.catalog /\ w.lab # None THEN [w EXCEPT !.firmware = "catalog"] ELSE w

-----------------------------------------------------------------------------
(* Clicks and commands.  A command does not look whether a widget is enabled; some *)
(* commands are refused while something runs.                                       *)

Starts(kinds) == work' = work \cup kinds /\ started' = started + 1 /\ started < MaxWork
Same == UNCHANGED <<work, started>>

ChooseTarget ==
    /\ \E t \in Targets :
        /\ t # win.target /\ win' = Chosen(win, t)
        /\ Starts({[kind |-> "target", target |-> t]})

ChooseSource ==
    /\ Starts({[kind |-> "targets"]}) /\ UNCHANGED win

ChooseFirmware ==
    /\ \E f \in {"local"} \cup IF win.catalog THEN {"catalog"} ELSE {} :
        win' = [win EXCEPT !.firmware = f]
    /\ Same

\* flight_controller_changed
ChooseFlightController ==
    /\ "fc" \in win.on \/ ~Running(win)
    /\ LET v == [win EXCEPT !.fc = ~@]
       IN  win' = Rebuilt(Protocol(IF Running(win) THEN Stopped(v) ELSE v))
    /\ Same

ChooseProtocol ==
    /\ "proto" \in win.on \/ ~Running(win)
    /\ \E p \in Bridges \cup {"flightcontroller"} :
        win' = Rebuilt(Protocol([win EXCEPT !.proto = p]))
    /\ Same

ChooseCount ==
    /\ "escs" \in win.on \/ ~Running(win)
    /\ \E n \in Counts : win' = Rebuilt([win EXCEPT !.escs = n])
    /\ Same

\* do_start: at once, or when the artifacts have been installed.
Start ==
    IF win.firmware = "local" THEN win' \in Launched(win, "local") /\ Same
    ELSE /\ win' = [win EXCEPT !.on = @ \ {"start", "choose"}]
         /\ Starts({[kind |-> "install", no |-> started, target |-> win.lab]})

Stop == win' = Stopped(win) /\ Same

UpdateFcFirmware ==
    /\ "fcfw" \in win.on /\ ~win.fcdl
    /\ win' = FcControls([win EXCEPT !.fcdl = TRUE, !.on = @ \ {"start", "fc"}])
    /\ Starts({[kind |-> "fc"]})

DownloadRenode ==
    /\ ~win.dl /\ win' = Sets([win EXCEPT !.dl = TRUE], "renode", FALSE)
    /\ Starts({[kind |-> "renode", no |-> started]})

\* The emulator ends by itself; saw_log_line takes the endpoints down, the buttons stay.
EmulatorExits == Running(win) /\ win' = [win EXCEPT !.launch = Nothing] /\ Same

-----------------------------------------------------------------------------
(* drain_log. *)

Heard(kind, w) ==
    \E m \in work : m.kind = kind /\ work' = work \ {m} /\ win' = w /\ UNCHANGED started

\* The first list, and that of another source: apply_filter selects a target.
TargetsListed ==
    \E m \in work, t \in Targets :
        /\ m.kind = "targets" /\ win' = Chosen(win, t) /\ started < MaxWork
        /\ work' = (work \ {m}) \cup {[kind |-> "target", target |-> t]}
        /\ started' = started + 1

TargetResolved ==
    \E m \in work :
        /\ m.kind = "target" /\ work' = work \ {m} /\ UNCHANGED started
        /\ win' = IF m.target # win.target THEN win
                  ELSE Rebuilt(Releases([win EXCEPT !.lab = m.target,
                                !.drift = @ \/ (Running(win) /\ win.lab # m.target)]))

CatalogArrives ==
    \/ Heard("catalog", Releases([win EXCEPT !.catalog = TRUE]))
    \/ Heard("catalog", win)

\* Mutant: the target is not compared.
ForThisTargetAny(m) == TRUE
ForThisTarget(m) == win.lab = m.target

ArtifactsArrive ==
    \E m \in work :
        /\ m.kind = "install" /\ work' = work \ {m} /\ UNCHANGED started
        /\ LET v == [win EXCEPT !.on = @ \cup {"start", "choose"}]
           IN  \/ win' = v
               \/ m.target # None /\ ForThisTarget(m) /\ win' \in Launched(v, m.target)

\* Done and failed enable the same.
FcFirmwareArrives ==
    Heard("fc", FcControls(Protocol([win EXCEPT !.fcdl = FALSE, !.on = @ \cup {"start", "fc"}])))

\* A failed check for a new version reads like a failed download.
RenodeArrives ==
    \/ Heard("renode", Sets([win EXCEPT !.dl = FALSE], "renode", TRUE))
    \/ Heard("check", Sets([win EXCEPT !.dl = FALSE], "renode", TRUE))
    \/ Heard("check", win)

Next ==
    \/ ChooseTarget \/ ChooseSource \/ ChooseFirmware \/ ChooseFlightController
    \/ ChooseProtocol \/ ChooseCount \/ Start \/ Stop \/ UpdateFcFirmware
    \/ DownloadRenode \/ EmulatorExits \/ TargetsListed \/ TargetResolved
    \/ CatalogArrives \/ ArtifactsArrive \/ FcFirmwareArrives \/ RenodeArrives

-----------------------------------------------------------------------------
TypeOK ==
    /\ {win.target, win.lab} \subseteq Targets \cup {None}
    /\ win.proto \in Bridges \cup {"flightcontroller"} /\ win.bridge \in Bridges
    /\ win.escs \in Counts /\ win.firmware \in {"local", "catalog"}
    /\ win.on \subseteq {"start", "stop", "fc", "proto", "escs", "choose", "fcfw", "renode"}
    /\ {win.fc, win.catalog, win.fcdl, win.dl, win.drift} \subseteq BOOLEAN
    /\ started \in 0..MaxWork

\* What runs is of one piece: artifacts of the target that was started, a protocol
\* that fits the flight controller, and panels for its ESCs, also after a selection
\* was changed while artifacts came; but for a target resolved after the start.
LaunchWhole ==
    /\ win.fc <=> win.proto = "flightcontroller"
    /\ Running(win) =>
        /\ win.launch.firmware \in {"local", win.launch.target}
        /\ win.launch.proto = win.proto
        /\ win.drift \/ win.panel = win.launch.panel

\* The window is never dead: Stop is enabled while something runs; with Start and Stop
\* both disabled, or the choices, a thread will be heard of that enables them.
NeverDead ==
    /\ Running(win) => "stop" \in win.on
    /\ {"start", "stop"} \cap win.on = {} => \E m \in work : m.kind \in {"install", "fc"}
    /\ "choose" \notin win.on => \E m \in work : m.kind = "install"
    /\ win.dl \/ "renode" \in win.on

\* The comment in target_changed (gui.py:1796): a target selection replaces the emulated
\* ESC.  When the target that is selected has been resolved, no other runs.
TargetReplaced ==
    Running(win) /\ win.lab = win.target => win.launch.target = win.target
=============================================================================
