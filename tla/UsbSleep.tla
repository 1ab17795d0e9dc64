------------------------------ MODULE UsbSleep ------------------------------
(***************************************************************************)
(* escsim/control/usb_sleep.py: the leases on imported USB/IP devices that *)
(* survive a system sleep (class UsbSleep), and the logind watcher that    *)
(* suspends and restores them (class Watcher in watch_system_sleep).       *)
(*                                                                         *)
(* Threads: one client per exported device (the startup, stop and watch    *)
(* threads of gui.Lab that attach, detach and forget its import), the      *)
(* sleep worker, and the Qt thread that receives logind's signals and the  *)
(* worker's `finished'.  They share UsbSleep.lock, an RLock that is also   *)
(* the monitor of a Condition; `sleeping' is an Event that is set without  *)
(* the lock.                                                               *)
(*                                                                         *)
(* External, modelled from the calls the code makes: the kernel's port     *)
(* table (vhci_hcd, shared machine-wide), the devices behind it, and       *)
(* logind.                                                                 *)
(***************************************************************************)
EXTENDS Naturals, Sequences, FiniteSets

CONSTANTS
    Clients,        \* owners of an import: one exported device each
    Cancellable,    \* the clients that pass a cancel event to attach
    Ports,          \* the ports of the kernel's vhci_hcd table
    MaxSleeps,      \* bound: sleeps logind announces in one behaviour
    NoPort,         \* Python's None in a port
    Free,           \* lock holder: nobody; table entry: VDEV_ST_NULL
    Foreign,        \* table entry: a device another application imported
    Worker          \* lock holder: the sleep worker thread

ASSUME ConstantsAssumption ==
    /\ Cancellable \subseteq Clients
    /\ NoPort \notin Ports
    /\ MaxSleeps \in Nat
    /\ {Free, Foreign, Worker} \cap Clients = {}
    /\ Free # Foreign
    /\ Free # Worker

VARIABLES
    imports,    \* UsbSleep.imports: the leases, each named by its client
    attached,   \* UsbAttachment.attached
    port,       \* UsbAttachment.port
    sleeping,   \* the Event UsbSleep.sleeping
    closed,     \* UsbSleep.closed
    lock,       \* holder of UsbSleep.lock between two steps
    cpc,        \* where each client is in UsbSleep.attach
    cancel,     \* the cancel event of each client's current attach
    wpc,        \* where the worker thread is in prepare or resume
    job,        \* which of the two it runs
    todo,       \* attachments its loop has still to visit
    cur,        \* the attachment whose port it is waiting for, or Free
    error,      \* the job raised
    pending,    \* Watcher.pending_sleep
    fd,         \* Watcher.fd holds logind's delay inhibitor
    qpc,        \* the Qt thread: in its loop, or in Watcher.close
    vhci,       \* external: who owns each port of the kernel's table
    going,      \* external: ports told to detach that are still listed
    sys,        \* external: logind's view of the machine
    bus,        \* external: PrepareForSleep signals not yet delivered
    nSleeps     \* bookkeeping for MaxSleeps

usb     == <<imports, attached, port, closed>>
clients == <<cpc, cancel>>
worker  == <<wpc, job, todo, cur, error>>
watcher == <<pending, fd, qpc>>
host    == <<vhci, going>>
logind  == <<sys, bus, nSleeps>>
vars    == <<usb, sleeping, lock, clients, worker, watcher, host, logind>>

Signals == {"sleep", "wake"}

(* The port of c's lease is in the kernel's table: usbip.port_attached looks *)
(* at the number alone, not at whose device it is.                           *)
Listed(c) == IF port[c] \in Ports THEN vhci[port[c]] # Free ELSE FALSE

Suspended == {c \in imports : ~attached[c]}

Init ==
    /\ imports = {}
    /\ attached = [c \in Clients |-> FALSE]
    /\ port = [c \in Clients |-> NoPort]
    /\ sleeping = FALSE
    /\ closed = FALSE
    /\ lock = Free
    /\ cpc = [c \in Clients |-> "idle"]
    /\ cancel = [c \in Clients |-> FALSE]
    /\ wpc = "none"
    /\ job = "wake"
    /\ todo = {}
    /\ cur = Free
    /\ error = FALSE
    /\ pending = "none"
    /\ fd \in BOOLEAN          \* the first Inhibit may be refused
    /\ qpc = "loop"
    /\ vhci = [p \in Ports |-> Free]
    /\ going = {}
    /\ sys = "awake"
    /\ bus = <<>>
    /\ nSleeps = 0

-----------------------------------------------------------------------------
(* The clients: UsbSleep.attach, detach and forget.                        *)

AttachCall(c) ==
    /\ cpc[c] = "idle"
    /\ c \notin imports
    /\ cpc' = [cpc EXCEPT ![c] = "waiting"]
    /\ cancel' = [cancel EXCEPT ![c] = FALSE]
    /\ UNCHANGED <<usb, sleeping, lock, worker, watcher, host, logind>>

\* Stop sets the event of a startup in flight, without any lock.
Cancel(c) ==
    /\ c \in Cancellable
    /\ cpc[c] # "idle"
    /\ ~cancel[c]
    /\ cancel' = [cancel EXCEPT ![c] = TRUE]
    /\ UNCHANGED <<usb, sleeping, lock, cpc, worker, watcher, host, logind>>

\* Mutant: the event is looked at only after the wait.
AttachRaisesAfterWait(c) ==
    /\ cpc[c] = "waiting"
    /\ lock = Free
    /\ closed \/ (cancel[c] /\ ~sleeping)
    /\ cpc' = [cpc EXCEPT ![c] = "idle"]
    /\ UNCHANGED <<usb, sleeping, lock, cancel, worker, watcher, host, logind>>

\* With the lock, attach raises: closed, or cancelled in or after the wait.
AttachRaises(c) ==
    /\ cpc[c] = "waiting"
    /\ lock = Free
    /\ closed \/ cancel[c]
    /\ cpc' = [cpc EXCEPT ![c] = "idle"]
    /\ UNCHANGED <<usb, sleeping, lock, cancel, worker, watcher, host, logind>>

\* condition.wait(): with a cancel event it polls, without one it blocks
\* until notify_all.
AttachBlocks(c) ==
    /\ cpc[c] = "waiting"
    /\ c \notin Cancellable
    /\ lock = Free
    /\ sleeping /\ ~closed
    /\ cpc' = [cpc EXCEPT ![c] = "blocked"]
    /\ UNCHANGED <<usb, sleeping, lock, cancel, worker, watcher, host, logind>>

\* Mutant: attach does not wait for the end of a sleep.
AttachProceedsAsleep(c) ==
    /\ cpc[c] = "waiting"
    /\ lock = Free
    /\ ~closed /\ ~cancel[c]
    /\ lock' = c
    /\ cpc' = [cpc EXCEPT ![c] = "importing"]
    /\ UNCHANGED <<usb, sleeping, cancel, worker, watcher, host, logind>>

AttachProceeds(c) ==
    /\ cpc[c] = "waiting"
    /\ lock = Free
    /\ ~sleeping /\ ~closed /\ ~cancel[c]
    /\ lock' = c
    /\ cpc' = [cpc EXCEPT ![c] = "importing"]
    /\ UNCHANGED <<usb, sleeping, cancel, worker, watcher, host, logind>>

\* usbip.attach, still under the lock, takes a free port of the table ...
ImportSucceeds(c, p) ==
    /\ lock = c
    /\ vhci[p] = Free
    /\ vhci' = [vhci EXCEPT ![p] = c]
    /\ imports' = imports \cup {c}
    /\ attached' = [attached EXCEPT ![c] = TRUE]
    /\ port' = [port EXCEPT ![c] = p]
    /\ lock' = Free
    /\ cpc' = [cpc EXCEPT ![c] = "idle"]
    /\ UNCHANGED <<closed, sleeping, cancel, worker, watcher, going, logind>>

\* ... or raises: no free port, an exporter that is gone, no permission.
ImportFails(c) ==
    /\ lock = c
    /\ lock' = Free
    /\ cpc' = [cpc EXCEPT ![c] = "idle"]
    /\ UNCHANGED <<usb, sleeping, cancel, worker, watcher, host, logind>>

\* Mutant: forget leaves `attached' set.
ForgottenAttached(c) ==
    /\ imports' = imports \ {c}
    /\ attached' = attached
    /\ port' = [port EXCEPT ![c] = NoPort]

\* UsbSleep.forget
Forgotten(c) ==
    /\ imports' = imports \ {c}
    /\ attached' = [attached EXCEPT ![c] = FALSE]
    /\ port' = [port EXCEPT ![c] = NoPort]

\* Mutant: a lease whose device is still imported is forgotten.
DetachForgetsAny(c) ==
    /\ lock = Free
    /\ c \in imports
    /\ Forgotten(c)
    /\ UNCHANGED <<closed, sleeping, lock, clients, worker, watcher, host, logind>>

\* UsbSleep.detach of a lease that is suspended or whose port is not listed;
\* also the owner's own forget after it saw port_attached false.
DetachForgets(c) ==
    /\ lock = Free
    /\ c \in imports
    /\ ~attached[c] \/ ~Listed(c)
    /\ Forgotten(c)
    /\ UNCHANGED <<closed, sleeping, lock, clients, worker, watcher, host, logind>>

\* UsbSleep.detach of a listed port: the kernel lists it a while longer.
\* (When usbip.detach raises or returns a false result nothing changes and
\* the owner keeps the lease.)
DetachSucceeds(c) ==
    /\ lock = Free
    /\ c \in imports
    /\ attached[c] /\ Listed(c)
    /\ going' = going \cup {port[c]}
    /\ Forgotten(c)
    /\ UNCHANGED <<closed, sleeping, lock, clients, worker, watcher, vhci, logind>>

Client(c) ==
    \/ AttachRaises(c)
    \/ AttachBlocks(c)
    \/ AttachProceeds(c)
    \/ \E p \in Ports : ImportSucceeds(c, p)
    \/ ImportFails(c)

-----------------------------------------------------------------------------
(* The worker thread: UsbSleep.prepare and UsbSleep.resume.                *)

\* prepare sets the event before it waits for the lock.
PrepareBegins ==
    /\ wpc = "prepare"
    /\ sleeping' = TRUE
    /\ wpc' = "prepareLock"
    /\ UNCHANGED <<usb, lock, clients, job, todo, cur, error, watcher, host, logind>>

\* Mutant: prepare does not take the lock.
PrepareLocksNothing ==
    /\ wpc = "prepareLock"
    /\ todo' = {c \in imports : attached[c]}
    /\ wpc' = "detaching"
    /\ UNCHANGED <<usb, sleeping, lock, clients, job, cur, error, watcher, host, logind>>

PrepareLocks ==
    /\ wpc = "prepareLock"
    /\ lock = Free
    /\ lock' = Worker
    /\ todo' = {c \in imports : attached[c]}
    /\ wpc' = "detaching"
    /\ UNCHANGED <<usb, sleeping, clients, job, cur, error, watcher, host, logind>>

PrepareForgets(c) ==
    /\ wpc = "detaching"
    /\ c \in todo
    /\ ~Listed(c)
    /\ Forgotten(c)
    /\ todo' = todo \ {c}
    /\ UNCHANGED <<closed, sleeping, lock, clients, wpc, job, cur, error,
                   watcher, host, logind>>

PrepareDetaches(c) ==
    /\ wpc = "detaching"
    /\ c \in todo
    /\ Listed(c)
    /\ going' = going \cup {port[c]}
    /\ todo' = todo \ {c}
    /\ cur' = c
    /\ wpc' = "vanishing"
    /\ UNCHANGED <<usb, sleeping, lock, clients, job, error, watcher, vhci, logind>>

\* The job raises: the lock is released and `finished' carries the error.
JobRaises ==
    /\ error' = TRUE
    /\ lock' = Free
    /\ todo' = {}
    /\ cur' = Free
    /\ wpc' = "finished"

PrepareRefused(c) ==
    /\ wpc = "detaching"
    /\ c \in todo
    /\ Listed(c)
    /\ JobRaises
    /\ UNCHANGED <<usb, sleeping, clients, job, watcher, host, logind>>

PrepareVanished ==
    /\ wpc = "vanishing"
    /\ ~Listed(cur)
    /\ attached' = [attached EXCEPT ![cur] = FALSE]
    /\ port' = [port EXCEPT ![cur] = NoPort]
    /\ cur' = Free
    /\ wpc' = "detaching"
    /\ UNCHANGED <<imports, closed, sleeping, lock, clients, job, todo, error,
                   watcher, host, logind>>

\* Two seconds later the port is still listed; the lease stays attached.
PrepareTimesOut ==
    /\ wpc = "vanishing"
    /\ Listed(cur)
    /\ JobRaises
    /\ UNCHANGED <<usb, sleeping, clients, job, watcher, host, logind>>

PrepareDone ==
    /\ wpc = "detaching"
    /\ todo = {}
    /\ lock' = Free
    /\ wpc' = "finished"
    /\ UNCHANGED <<usb, sleeping, clients, job, todo, cur, error, watcher, host, logind>>

\* Mutant: the waiters are not notified.
NotifyNobody == cpc' = cpc

NotifyAll ==
    cpc' = [c \in Clients |-> IF cpc[c] = "blocked" THEN "waiting" ELSE cpc[c]]

ResumeLocks ==
    /\ wpc = "resumeLock"
    /\ lock = Free
    /\ lock' = Worker
    /\ todo' = IF closed THEN {} ELSE Suspended
    /\ wpc' = "reattaching"
    /\ UNCHANGED <<usb, sleeping, clients, job, cur, error, watcher, host, logind>>

ResumeAttaches(c, p) ==
    /\ wpc = "reattaching"
    /\ c \in todo
    /\ vhci[p] = Free
    /\ vhci' = [vhci EXCEPT ![p] = c]
    /\ attached' = [attached EXCEPT ![c] = TRUE]
    /\ port' = [port EXCEPT ![c] = p]
    /\ todo' = todo \ {c}
    /\ UNCHANGED <<imports, closed, sleeping, lock, clients, wpc, job, cur, error,
                   watcher, going, logind>>

\* Mutant: a lease that could not be restored is kept.
ResumeKeeps(c) ==
    /\ wpc = "reattaching"
    /\ c \in todo
    /\ todo' = todo \ {c}
    /\ UNCHANGED <<usb, sleeping, lock, clients, wpc, job, cur, error,
                   watcher, host, logind>>

ResumeForgets(c) ==
    /\ wpc = "reattaching"
    /\ c \in todo
    /\ Forgotten(c)
    /\ todo' = todo \ {c}
    /\ UNCHANGED <<closed, sleeping, lock, clients, wpc, job, cur, error,
                   watcher, host, logind>>

\* The finally block, still under the lock.
ResumeDone ==
    /\ wpc = "reattaching"
    /\ todo = {}
    /\ sleeping' = FALSE
    /\ NotifyAll
    /\ lock' = Free
    /\ wpc' = "finished"
    /\ UNCHANGED <<usb, cancel, job, todo, cur, error, watcher, host, logind>>

WorkerStep ==
    \/ PrepareBegins
    \/ PrepareLocks
    \/ \E c \in Clients : PrepareForgets(c) \/ PrepareDetaches(c) \/ PrepareRefused(c)
    \/ PrepareVanished
    \/ PrepareTimesOut
    \/ PrepareDone
    \/ ResumeLocks
    \/ \E c \in Clients : ResumeForgets(c) \/ \E p \in Ports : ResumeAttaches(c, p)
    \/ ResumeDone

-----------------------------------------------------------------------------
(* The Qt thread: Watcher.prepare, complete and close.                     *)

\* Watcher.inhibit: logind refuses while a sleep is already in preparation;
\* on any error reply the descriptor is left as it was.
InhibitResults(held) == IF sys = "awake" THEN {held, TRUE} ELSE {held}

\* The rest of Watcher.prepare once no worker is running; `held' is whether
\* the inhibitor is held at that point.
StartJob(signal, held) ==
    /\ fd' \in IF signal = "wake" THEN InhibitResults(held) ELSE {held}
    /\ job' = signal
    /\ error' = FALSE
    /\ wpc' = IF signal = "sleep" THEN "prepare" ELSE "resumeLock"

\* Watcher.prepare, the slot of logind's PrepareForSleep(bool)
PrepareForSleep ==
    /\ qpc = "loop"
    /\ bus # <<>>
    /\ bus' = Tail(bus)
    /\ sleeping' = (sleeping \/ Head(bus) = "sleep")
    /\ \/ /\ wpc # "none"
          /\ pending' = Head(bus)
          /\ UNCHANGED <<wpc, job, error, fd>>
       \/ /\ wpc = "none"
          /\ StartJob(Head(bus), fd)
          /\ UNCHANGED pending
    /\ UNCHANGED <<usb, lock, clients, todo, cur, qpc, host, sys, nSleeps>>

\* Mutant: the inhibitor is kept after a failed detach.
CompleteKeepsOnError ==
    /\ qpc = "loop"
    /\ wpc = "finished"
    /\ LET held == fd /\ (job # "sleep" \/ error) IN
       \/ /\ pending = "none"
          /\ fd' = held
          /\ wpc' = "none"
          /\ UNCHANGED <<sleeping, job, error, pending>>
       \/ /\ pending # "none"
          /\ sleeping' = (sleeping \/ pending = "sleep")
          /\ StartJob(pending, held)
          /\ pending' = "none"
    /\ UNCHANGED <<usb, lock, clients, todo, cur, qpc, host, logind>>

\* Watcher.complete, the slot of `finished'
Complete ==
    /\ qpc = "loop"
    /\ wpc = "finished"
    /\ LET held == fd /\ job # "sleep" IN
       \/ /\ pending = "none"
          /\ fd' = held
          /\ wpc' = "none"
          /\ UNCHANGED <<sleeping, job, error, pending>>
       \/ /\ pending # "none"
          /\ sleeping' = (sleeping \/ pending = "sleep")
          /\ StartJob(pending, held)
          /\ pending' = "none"
    /\ UNCHANGED <<usb, lock, clients, todo, cur, qpc, host, logind>>

\* Watcher.close, called when the window closes: it blocks the Qt thread
\* for the lock, then for the worker.
CloseBegins ==
    /\ qpc = "loop"
    /\ qpc' = "closing"
    /\ UNCHANGED <<usb, sleeping, lock, clients, worker, pending, fd, host, logind>>

\* UsbSleep.close; the bus is disconnected right after it.
CloseUsb ==
    /\ qpc = "closing"
    /\ lock = Free
    /\ closed' = TRUE
    /\ NotifyAll
    /\ qpc' = "joining"
    /\ UNCHANGED <<imports, attached, port, sleeping, lock, cancel, worker,
                   pending, fd, host, logind>>

CloseJoins ==
    /\ qpc = "joining"
    /\ wpc \in {"none", "finished"}
    /\ fd' = FALSE
    /\ qpc' = "closed"
    /\ UNCHANGED <<usb, sleeping, lock, clients, worker, pending, host, logind>>

-----------------------------------------------------------------------------
(* External: the kernel, the exporters, other applications, logind.        *)

\* A device leaves its port: its exporter closed the connection (firmware
\* reset, emulator exit, unplug by another tool), or a detach took effect.
DeviceGone(p) ==
    /\ vhci[p] # Free
    /\ vhci' = [vhci EXCEPT ![p] = Free]
    /\ going' = going \ {p}
    /\ UNCHANGED <<usb, sleeping, lock, clients, worker, watcher, logind>>

ForeignAttaches(p) ==
    /\ vhci[p] = Free
    /\ vhci' = [vhci EXCEPT ![p] = Foreign]
    /\ UNCHANGED <<usb, sleeping, lock, clients, worker, watcher, going, logind>>

\* logind announces a sleep and holds it back for the delay inhibitors.
SleepAnnounced ==
    /\ sys = "awake"
    /\ nSleeps < MaxSleeps
    /\ sys' = "preparing"
    /\ bus' = Append(bus, "sleep")
    /\ nSleeps' = nSleeps + 1
    /\ UNCHANGED <<usb, sleeping, lock, clients, worker, watcher, host>>

\* The sleep is over: the machine slept and woke, every process frozen in
\* between, or the sleep was cancelled or refused (vhci_hcd refuses while a
\* port is in use).  logind waits for the inhibitor, but not for ever.
SleepOver ==
    /\ sys = "preparing"
    /\ sys' = "awake"
    /\ bus' = Append(bus, "wake")
    /\ UNCHANGED <<usb, sleeping, lock, clients, worker, watcher, host, nSleeps>>

-----------------------------------------------------------------------------
Next ==
    \/ \E c \in Clients : \/ AttachCall(c) \/ Cancel(c)
                          \/ DetachForgets(c) \/ DetachSucceeds(c)
                          \/ Client(c)
    \/ WorkerStep
    \/ PrepareForSleep
    \/ Complete
    \/ CloseBegins
    \/ CloseUsb
    \/ CloseJoins
    \/ \E p \in Ports : DeviceGone(p) \/ ForeignAttaches(p)
    \/ SleepAnnounced
    \/ SleepOver

Spec == Init /\ [][Next]_vars

\* A thread that wants the lock gets it in the end although others take it
\* again and again, hence SF; the kernel completes a detach it accepted.
ThreadsFair ==
    /\ \A c \in Clients : SF_vars(Client(c))
    /\ SF_vars(WorkerStep)
    /\ \A p \in Ports : WF_vars(p \in going /\ DeviceGone(p))

\* The Qt thread dispatches its events; what needs it says so.  Nothing is
\* assumed of logind: a sleep may stay in preparation for as long as the
\* inhibitor is held.
QtFair ==
    /\ WF_vars(PrepareForSleep)
    /\ WF_vars(Complete)

FairSpec == Spec /\ ThreadsFair

-----------------------------------------------------------------------------
\* Types, and the representation of a UsbAttachment: a port is kept exactly
\* while the attachment counts as attached (UsbAttachment.port, .attached).
TypeOK ==
    /\ imports \subseteq Clients
    /\ attached \in [Clients -> BOOLEAN]
    /\ port \in [Clients -> Ports \cup {NoPort}]
    /\ sleeping \in BOOLEAN /\ closed \in BOOLEAN
    /\ lock \in Clients \cup {Free, Worker}
    /\ cpc \in [Clients -> {"idle", "waiting", "blocked", "importing"}]
    /\ cancel \in [Clients -> BOOLEAN]
    /\ wpc \in {"none", "prepare", "prepareLock", "detaching", "vanishing",
                 "resumeLock", "reattaching", "finished"}
    /\ job \in Signals
    /\ todo \subseteq Clients
    /\ cur \in IF wpc = "vanishing" THEN Clients ELSE {Free}
    /\ error \in BOOLEAN
    /\ pending \in Signals \cup {"none"}
    /\ fd \in BOOLEAN
    /\ qpc \in {"loop", "closing", "joining", "closed"}
    /\ vhci \in [Ports -> Clients \cup {Free, Foreign}]
    /\ going \subseteq Ports
    /\ sys \in {"awake", "preparing"}
    /\ bus \in Seq(Signals)
    /\ nSleeps \in 0..MaxSleeps
    /\ \A c \in Clients : attached[c] <=> port[c] \in Ports

\* No import is leaked: a device of ours that the kernel still holds, and has
\* not been told to drop, is reachable through the lease of its owner, so
\* Stop or the next sleep can detach it.
NoLeakedImport ==
    \A p \in Ports : vhci[p] \in Clients /\ p \notin going =>
        /\ vhci[p] \in imports
        /\ attached[vhci[p]]
        /\ port[vhci[p]] = p

\* While the program runs, a suspended lease exists only between a sleep and
\* the end of its resume: no interleaving of sleeps, cancelled sleeps and
\* resumes strands one behind a cleared event.
NoStrandedLease == (Suspended # {} /\ ~sleeping) => closed

\* The inhibitor that holds back logind is released for a sleep only when
\* every lease has been suspended and none is being taken - or when detaching
\* failed, in which case the sleep is not held up any longer.
ReleaseAfterDetach ==
    [][(fd /\ ~fd' /\ qpc = "loop") =>
          error \/ \A c \in Clients : /\ cpc[c] # "importing"
                                      /\ c \in imports => ~attached[c]]_vars

\* docs/quickstart.md:86-87, "Other applications' USB/IP devices are left
\* alone": no step of this program tells the kernel to drop one.
ForeignLeftAlone ==
    [][\A p \in Ports : vhci[p] = Foreign /\ p \notin going => p \notin going']_vars

\* A cancelled attach returns although no Qt event is processed any more
\* (usb_sleep.py:41-42): Stop may be blocking the thread that would deliver
\* the resume.
CancelledAttachReturns ==
    \A c \in Clients :
        (cpc[c] = "waiting" /\ cancel[c]) ~> (cpc[c] = "idle")

\* An attach held back by a sleep is let through, refused or told of the
\* close once the sleep is over: no wakeup is lost.
AttachEventuallyDecided == QtFair =>
    \A c \in Clients :
        (cpc[c] # "idle") ~> (cpc[c] = "idle" \/ sys # "awake" \/ qpc # "loop")

\* The watcher never keeps the machine from sleeping: the inhibitor is given
\* back whatever the detaches do.
SleepEventuallyReleased == QtFair =>
    (sys = "preparing" /\ fd) ~> (~fd \/ sys # "preparing" \/ qpc # "loop")

\* The abstract lease this class implements.
LeaseOf(c) ==
    IF cpc[c] = "importing" THEN "acquiring"
    ELSE IF c \notin imports THEN "none"
    ELSE IF attached[c] THEN "live" ELSE "suspended"

Lease == INSTANCE UsbLease WITH
    Owners <- Clients,
    lease  <- [c \in Clients |-> LeaseOf(c)],
    gate   <- IF sleeping THEN "shut" ELSE "open",
    ended  <- closed

ImplementsLease == Lease!LSpec
=============================================================================
