------------------------------ MODULE PanelUsb ------------------------------
(***************************************************************************)
(* The virtual USB serial device of the control UI (control/ui.py          *)
(* usb_start, usb_stop, usb_toggled, usb_poll, cleanup) over the client    *)
(* half of USB/IP (control/usbip.py attach, detach) and the machine-wide   *)
(* port table of vhci_hcd, which is external.  Each panel is a process; a  *)
(* start runs in a thread of its own.                                      *)
(***************************************************************************)
EXTENDS Naturals, FiniteSets

CONSTANTS
    Panels, Ports,
    Scripted,       \* the control port may toggle a switch that is greyed out
    MaxStarts       \* bound: starts of a panel, all of them

Starts == 1..MaxStarts
NoPort == 0         \* None; Ports are numbers above it

VARIABLES
    checked, greyed,        \* per panel: usb_check, and that it is disabled
    stub, port,             \* usb["stub"], usb["port"]
    open,                   \* per panel: its stubs that serve
    pc, held,               \* per start: its step, the port attach gave it
    answers,                \* per panel: results in usb["q"]
    vhci,                   \* per port: [panel, start] imported there, or Free
    raced,                  \* per panel: toggled while greyed, or closed then
    closed                  \* panels torn down

vars == <<checked, greyed, stub, port, open, pc, held, answers, vhci, raced, closed>>

Free == [panel |-> "none", start |-> 0]
Init ==
    /\ checked = [p \in Panels |-> FALSE] /\ greyed = [p \in Panels |-> FALSE]
    /\ stub = [p \in Panels |-> 0] /\ port = [p \in Panels |-> NoPort]
    /\ open = [p \in Panels |-> {}]
    /\ pc = [p \in Panels |-> [s \in Starts |-> "none"]]
    /\ held = [p \in Panels |-> [s \in Starts |-> NoPort]]
    /\ answers = [p \in Panels |-> {}] /\ vhci = [n \in Ports |-> Free]
    /\ raced = [p \in Panels |-> FALSE] /\ closed = {}

Goes(p, s, step) == pc' = [pc EXCEPT ![p][s] = step]

\* detach of one port, or of every device that looks like ours: vhci_hcd
\* refuses a port that is free by now.
Detached(n) == IF n = NoPort THEN [m \in Ports |-> Free] ELSE [vhci EXCEPT ![n] = Free]
Refused(n) == n # NoPort /\ vhci[n] = Free

\* usb_stop: when detach is refused usb["port"] stays what it was.
Stop(p) ==
    /\ open' = [open EXCEPT ![p] = open[p] \ {stub[p]}] /\ stub' = [stub EXCEPT ![p] = 0]
    /\ vhci' = Detached(port[p])
    /\ port' = IF Refused(port[p]) THEN port ELSE [port EXCEPT ![p] = NoPort]

--------------------------------------------------------------------------
(* The switch, from Qt's thread.                                           *)
SwitchOn(p) ==
    /\ p \notin closed /\ ~checked[p] /\ (greyed[p] => Scripted)
    /\ \E s \in Starts :
        /\ pc[p][s] = "none" /\ \A r \in 1..(s - 1) : pc[p][r] # "none"
        /\ Cardinality({l \in Panels \X Starts : pc[l[1]][l[2]] # "none"}) < MaxStarts
        /\ Goes(p, s, "new")
    /\ checked' = [checked EXCEPT ![p] = TRUE] /\ greyed' = [greyed EXCEPT ![p] = TRUE]
    /\ raced' = [raced EXCEPT ![p] = @ \/ greyed[p]]
    /\ UNCHANGED <<stub, port, open, held, answers, vhci, closed>>

SwitchOff(p) ==
    /\ p \notin closed /\ checked[p] /\ (greyed[p] => Scripted)
    /\ checked' = [checked EXCEPT ![p] = FALSE] /\ Stop(p)
    /\ raced' = [raced EXCEPT ![p] = @ \/ greyed[p]]
    /\ UNCHANGED <<greyed, pc, held, answers, closed>>

\* Mutant: a failure is shown and the box keeps its tick.
PollShows(p) ==
    /\ p \notin closed /\ \E a \in answers[p] : answers' = [answers EXCEPT ![p] = @ \ {a}]
    /\ greyed' = [greyed EXCEPT ![p] = FALSE]
    /\ UNCHANGED <<checked, stub, port, open, pc, held, vhci, raced, closed>>

\* usb_poll, every 200 ms: a failure unticks the box, which stops once more.
Poll(p) ==
    /\ p \notin closed
    /\ \E a \in answers[p] :
        /\ answers' = [answers EXCEPT ![p] = @ \ {a}]
        /\ IF a.ok \/ ~checked[p] THEN UNCHANGED <<checked, stub, port, open, vhci>>
           ELSE checked' = [checked EXCEPT ![p] = FALSE] /\ Stop(p)
    /\ greyed' = [greyed EXCEPT ![p] = FALSE]
    /\ UNCHANGED <<pc, held, raced, closed>>

\* cleanup: the timers stop, and the device if there is one by now.
Close(p) ==
    /\ p \notin closed /\ closed' = closed \cup {p}
    /\ IF stub[p] # 0 THEN Stop(p) ELSE UNCHANGED <<stub, port, open, vhci>>
    /\ raced' = [raced EXCEPT ![p] = @ \/ \E s \in Starts : pc[p][s] \notin {"none", "done"}]
    /\ UNCHANGED <<checked, greyed, pc, held, answers>>

--------------------------------------------------------------------------
(* The thread of a start.                                                  *)
\* All stubs of a process listen on one path.
Listen(p, s) ==
    /\ pc[p][s] = "new"
    /\ IF open[p] = {}
       THEN /\ open' = [open EXCEPT ![p] = {s}] /\ stub' = [stub EXCEPT ![p] = s]
            /\ Goes(p, s, "attach")
       ELSE Goes(p, s, "fail") /\ UNCHANGED <<open, stub>>
    /\ UNCHANGED <<checked, greyed, port, held, answers, vhci, raced, closed>>

Attach(p, s) ==
    /\ pc[p][s] = "attach"
    /\ \/ Goes(p, s, "fail") /\ UNCHANGED <<held, vhci>>
       \/ /\ s \in open[p] /\ Goes(p, s, "attached")
          /\ \E n \in Ports :
                /\ vhci[n] = Free /\ vhci' = [vhci EXCEPT ![n] = [panel |-> p, start |-> s]]
                /\ held' = [held EXCEPT ![p][s] = n]
    /\ UNCHANGED <<checked, greyed, stub, port, open, answers, raced, closed>>

Record(p, s) ==
    /\ pc[p][s] = "attached" /\ port' = [port EXCEPT ![p] = held[p][s]] /\ Goes(p, s, "tty")
    /\ UNCHANGED <<checked, greyed, stub, open, held, answers, vhci, raced, closed>>

Answer(p, s, ok) == answers' = [answers EXCEPT ![p] = @ \cup {[start |-> s, ok |-> ok]}]
FindsTty(p, s) ==
    /\ pc[p][s] = "tty"
    /\ \/ Goes(p, s, "fail") /\ UNCHANGED answers
       \/ Goes(p, s, "done") /\ Answer(p, s, TRUE)
    /\ UNCHANGED <<checked, greyed, stub, port, open, held, vhci, raced, closed>>

Fails(p, s) ==
    /\ pc[p][s] = "fail" /\ Stop(p) /\ Goes(p, s, "done") /\ Answer(p, s, FALSE)
    /\ UNCHANGED <<checked, greyed, held, raced, closed>>

\* vhci_hcd drops a device whose server has closed the connection.
Drops(n) ==
    /\ vhci[n] # Free /\ vhci[n].start \notin open[vhci[n].panel]
    /\ vhci' = [vhci EXCEPT ![n] = Free]
    /\ UNCHANGED <<checked, greyed, stub, port, open, pc, held, answers, raced, closed>>

Thread(p, s) == Listen(p, s) \/ Attach(p, s) \/ Record(p, s) \/ FindsTty(p, s) \/ Fails(p, s)
Panel(p) == SwitchOn(p) \/ SwitchOff(p) \/ Poll(p) \/ Close(p) \/ \E s \in Starts : Thread(p, s)
Next == \/ \E p \in Panels : Panel(p)
        \/ \E n \in Ports : Drops(n)

--------------------------------------------------------------------------
TypeOK ==
    /\ checked \in [Panels -> BOOLEAN] /\ greyed \in [Panels -> BOOLEAN]
    /\ stub \in [Panels -> 0..MaxStarts] /\ port \in [Panels -> Ports \cup {NoPort}]
    /\ open \in [Panels -> SUBSET Starts] /\ held \in [Panels -> [Starts -> Ports \cup {NoPort}]]
    /\ closed \subseteq Panels

Settled(p) == ~raced[p] /\ answers[p] = {} /\ \A s \in Starts : pc[p][s] \in {"none", "done"}

\* Once its starts have ended a switch tells the truth, however they went: on,
\* its stub and no other serves; off or closed, nothing of the panel does.
SwitchTruthful ==
    \A p \in Panels : Settled(p) =>
        IF checked[p] /\ p \notin closed THEN stub[p] # 0 /\ open[p] = {stub[p]}
        ELSE stub[p] = 0 /\ open[p] = {}
=============================================================================
