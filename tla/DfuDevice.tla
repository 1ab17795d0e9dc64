----------------------------- MODULE DfuDevice -----------------------------
(***************************************************************************)
(* escsim/control/dfu.py, class DfuDevice: the factory DFU loader of the   *)
(* emulated flight controller.  Hosts connect one after another; each asks *)
(* for one control transfer at a time, answered under send_lock, so a      *)
(* request and its answer are one step.  What one host leaves behind - the *)
(* DFU state, the status, the address pointer, a flash half written - is   *)
(* what the next one finds.                                                *)
(*                                                                         *)
(* Flash is counted in units of TRANSFER_SIZE.  A unit is erased (0), or   *)
(* holds what a host downloaded: host h downloads h into every unit of its *)
(* image.  The host, external, is a DfuSe client as dfu-util is one: it    *)
(* clears what an earlier host left, erases, sets the address, downloads   *)
(* blocks from 2 on, reads its image back, leaves with an empty download.  *)
(***************************************************************************)
EXTENDS Naturals, FiniteSets

CONSTANTS
    FlashSize,      \* units of internal flash
    Sectors,        \* a function: Sectors[a] are the units of the erase sector
                    \* that begins at a, a among them
    Images,         \* images hosts may download: first unit and length
    MaxHosts        \* bound: hosts in turn

Units == 0..FlashSize - 1
Hosts == 1..MaxHosts

VARIABLES
    state,          \* DfuDevice.state
    status,         \* DfuDevice.status
    busyOnce,       \* DfuDevice._busy_once
    address,        \* DfuDevice.address, in units from FLASH_BASE
    flash,          \* the flash image file
    scheduled,      \* DfuDevice._manifest_scheduled
    timer,          \* the manifest timer has been started and is running
    manifested,     \* how often on_manifest was called
    host,           \* the host that is connected, or was last
    image,          \* its image
    hpc,            \* where it is
    next,           \* where it goes when the device is ready
    block           \* the units of its image it has done with

device == <<state, status, busyOnce, address, flash, scheduled>>
client == <<host, image, hpc, next, block>>
vars   == <<device, timer, manifested, client>>

States == {"idle", "dnload_sync", "dnbusy", "dnload_idle", "manifest_sync",
           "manifest", "upload_idle", "error"}
HostStates == {"away", "query", "erase", "address", "write", "poll", "verify",
               "read", "leave", "empty", "final", "done", "failed"}

Span(im) == im.base .. im.base + im.len - 1
Done(h) == hpc = "done" /\ host = h

-----------------------------------------------------------------------------
(* Requests.  Each leaves the host's variables to the step that makes it.  *)

Init ==
    /\ state = "idle" /\ status = "ok" /\ busyOnce = FALSE
    /\ address = 0 /\ flash = [u \in Units |-> 0]
    /\ scheduled = FALSE /\ timer = FALSE /\ manifested = 0
    /\ host = 0 /\ image \in Images /\ hpc = "away" /\ next = "away" /\ block = 0

\* Mutant: one unit too many.
ValidLoose(a, size) == a + size <= FlashSize + 1

\* _validate: an address is inside flash up to and including its end, data is
\* inside it as a whole.
Valid(a, size) == a + size <= FlashSize

\* Mutant: each call starts one.
ScheduleAlways == scheduled' = TRUE /\ timer' = TRUE

\* _schedule_manifest: the first call starts the timer, the others do nothing.
ScheduleManifest ==
    /\ scheduled' = TRUE
    /\ timer' = (timer \/ ~scheduled)

Accepted ==
    /\ state' = "dnload_sync" /\ busyOnce' = TRUE
    /\ UNCHANGED <<status, scheduled, timer>>

\* The except clause of _download.  STATUS_ERASE, set for a bad sector, is
\* overwritten here and never seen.
Rejected ==
    /\ state' = "error" /\ status' = "address"
    /\ UNCHANGED <<busyOnce, address, flash, scheduled, timer>>

SetAddress(a) ==
    \/ Valid(a, 0) /\ address' = a /\ Accepted /\ UNCHANGED flash
    \/ ~Valid(a, 0) /\ Rejected

ErasePage(a) ==
    \/ /\ a \in DOMAIN Sectors
       /\ flash' = [u \in Units |-> IF u \in Sectors[a] THEN 0 ELSE flash[u]]
       /\ Accepted /\ UNCHANGED address
    \/ a \notin DOMAIN Sectors /\ Rejected

\* Mutant: block numbers counted from one.
TargetFromOne(b) == address + b - 1

\* A data block goes to the address pointer plus its number less two.
Target(b) == address + b - 2

WriteBlock(b, v) ==
    \/ /\ Valid(Target(b), 1)
       /\ flash' = [u \in Units |-> IF u = Target(b) THEN v ELSE flash[u]]
       /\ Accepted /\ UNCHANGED address
    \/ ~Valid(Target(b), 1) /\ Rejected

EmptyDownload ==
    /\ state' = "manifest_sync" /\ busyOnce' = FALSE
    /\ UNCHANGED <<status, address, flash, scheduled, timer>>

\* _upload of one whole unit.
Upload(b) ==
    \/ /\ Valid(Target(b), 1) /\ state' = "upload_idle"
       /\ UNCHANGED <<status, busyOnce, address, flash, scheduled, timer>>
    \/ ~Valid(Target(b), 1) /\ Rejected

\* Mutant: busy is reported until another request comes.
GetStatusStaysBusy ==
    \/ /\ state = "dnload_sync" /\ state' = "dnbusy" /\ busyOnce' = FALSE
       /\ UNCHANGED <<status, address, flash, scheduled, timer>>
    \/ /\ state = "manifest_sync" /\ state' = "manifest"
       /\ ScheduleManifest /\ UNCHANGED <<status, busyOnce, address, flash>>
    \/ /\ state \notin {"dnload_sync", "manifest_sync"}
       /\ UNCHANGED <<device, timer>>

\* _get_status moves the device on; the answer carries the state it moved to.
GetStatus ==
    \/ /\ state = "dnload_sync" /\ busyOnce' = FALSE
       /\ state' = IF busyOnce THEN "dnbusy" ELSE "dnload_idle"
       /\ UNCHANGED <<status, address, flash, scheduled, timer>>
    \/ /\ state = "dnbusy" /\ state' = "dnload_idle"
       /\ UNCHANGED <<status, busyOnce, address, flash, scheduled, timer>>
    \/ /\ state = "manifest_sync" /\ state' = "manifest"
       /\ ScheduleManifest /\ UNCHANGED <<status, busyOnce, address, flash>>
    \/ /\ state \notin {"dnload_sync", "dnbusy", "manifest_sync"}
       /\ UNCHANGED <<device, timer>>

ClearStatus ==
    /\ status' = "ok" /\ state' = "idle"
    /\ UNCHANGED <<busyOnce, address, flash, scheduled, timer>>

\* Mutant: it resets the pointer.
AbortResets ==
    /\ state' = "idle" /\ address' = 0
    /\ UNCHANGED <<status, busyOnce, flash, scheduled, timer>>

\* DFU_ABORT keeps the address pointer and the status.
Abort ==
    /\ state' = "idle"
    /\ UNCHANGED <<status, busyOnce, address, flash, scheduled, timer>>

Detach == ScheduleManifest /\ UNCHANGED <<state, status, busyOnce, address, flash>>

\* The timer's thread calls on_manifest, and the launcher takes the device away.
TimerFires ==
    /\ timer /\ timer' = FALSE /\ manifested' = manifested + 1
    /\ hpc' = IF hpc \in {"done", "failed"} THEN hpc ELSE "away"
    /\ UNCHANGED <<device, host, image, next, block>>

-----------------------------------------------------------------------------
(* The host. *)

Present == manifested = 0
Goes(to) == hpc' = to /\ UNCHANGED <<host, image, next, block>>
Waits(then) == hpc' = "poll" /\ next' = then /\ UNCHANGED <<host, image, block>>

Connect ==
    /\ Present /\ hpc \in {"away", "done", "failed"} /\ host < MaxHosts
    /\ host' = host + 1 /\ image' \in Images /\ hpc' = "query" /\ block' = 0
    /\ next' = "query" /\ UNCHANGED <<device, timer, manifested>>

\* It asks for the status first, clears an error and aborts what was going on.
Query ==
    /\ Present /\ hpc = "query"
    /\ \/ state = "idle" /\ status = "ok" /\ GetStatus /\ Goes("erase")
       \/ (state = "error" \/ status # "ok") /\ ClearStatus /\ Goes("query")
       \/ status = "ok" /\ state \notin {"idle", "error"} /\ Abort /\ Goes("query")
       \/ Detach /\ Goes("failed")
    /\ UNCHANGED manifested

\* One erase for each sector the image touches; a client that knows the layout
\* wrongly erases at the image's first unit, whatever sector that is in.
Erase ==
    /\ Present /\ hpc = "erase"
    /\ \/ \E a \in DOMAIN Sectors :
            /\ Sectors[a] \cap Span(image) # {}
            /\ \E u \in Sectors[a] : flash[u] # 0
            /\ ErasePage(a) /\ Waits("erase")
       \/ image.base \notin DOMAIN Sectors /\ ErasePage(image.base) /\ Waits("address")
       \/ /\ \A u \in Span(image) \cap Units : flash[u] = 0
          /\ Goes("address") /\ UNCHANGED <<device, timer>>
    /\ UNCHANGED manifested

Point ==
    /\ Present /\ hpc \in {"address", "leave"} /\ SetAddress(image.base)
    /\ Waits(IF hpc = "address" THEN "write" ELSE "empty") /\ UNCHANGED manifested

Write ==
    /\ Present /\ hpc = "write" /\ WriteBlock(block + 2, host)
    /\ hpc' = "poll" /\ block' = (block + 1) % image.len
    /\ next' = IF block + 1 = image.len THEN "verify" ELSE "write"
    /\ UNCHANGED <<host, image, manifested>>

Poll ==
    /\ Present /\ hpc = "poll" /\ GetStatus
    /\ \/ status = "ok" /\ state' = "dnload_idle" /\ Goes(next)
       \/ status = "ok" /\ state' = "dnbusy" /\ Goes("poll")
       \/ (status # "ok" \/ state' \notin {"dnload_idle", "dnbusy"}) /\ Goes("failed")
    /\ UNCHANGED manifested

Verify ==
    /\ Present /\ hpc = "verify" /\ Abort /\ Goes("read") /\ UNCHANGED manifested

Read ==
    /\ Present /\ hpc = "read" /\ Upload(block + 2)
    /\ block' = (block + 1) % image.len
    /\ hpc' = IF state' = "error" \/ flash[Target(block + 2)] # host THEN "failed"
              ELSE IF block + 1 = image.len THEN "leave" ELSE "read"
    /\ UNCHANGED <<host, image, next, manifested>>

Leave ==
    /\ Present /\ hpc = "empty" /\ EmptyDownload /\ Goes("final") /\ UNCHANGED manifested

Final ==
    /\ Present /\ hpc = "final" /\ GetStatus /\ Goes("done") /\ UNCHANGED manifested

HangUp ==
    /\ hpc \notin {"away", "done", "failed"} /\ Goes("away")
    /\ UNCHANGED <<device, timer, manifested>>

HostStep == \/ Query \/ Erase \/ Point \/ Write \/ Poll
            \/ Verify \/ Read \/ Leave \/ Final

Next == HostStep \/ TimerFires \/ Connect \/ HangUp

Spec == Init /\ [][Next]_vars

\* A host that is connected asks on; the timer's thread runs.
Fair == WF_vars(HostStep) /\ WF_vars(TimerFires)

-----------------------------------------------------------------------------
TypeOK ==
    /\ state \in States /\ status \in {"ok", "address"} /\ busyOnce \in BOOLEAN
    /\ address \in 0..FlashSize /\ flash \in [Units -> Hosts \cup {0}]
    /\ scheduled \in BOOLEAN /\ timer \in BOOLEAN /\ manifested \in Nat
    /\ host \in Hosts \cup {0} /\ image \in Images
    /\ hpc \in HostStates /\ next \in HostStates /\ block \in Nat

\* However many empty downloads and detach requests come, from however many
\* hosts, the launcher is told once: it would otherwise start a second flight
\* controller on the same image.
ManifestsOnce == manifested + (IF timer THEN 1 ELSE 0) <= 1

\* The device enters manifestation only when the host that asks for it finds
\* its whole image in flash, whatever earlier hosts left in the device, and
\* although a rejected block is answered with success and shows only in the
\* next status.
ManifestsWhole ==
    [][state' = "manifest" /\ state # "manifest"
         => \A u \in Span(image) : u \in Units /\ flash[u] = host]_vars

\* A client that reads its image back reads what it downloaded: the same block
\* number names the same unit for download and upload, also after an abort.
ReadsBack ==
    [][Read => state' # "error" /\ flash[Target(block + 2)] = host]_vars

\* A host that stays gets to an end: it is never told "busy" for ever.
HostEnds == []<>(hpc \in {"away", "done", "failed"})
=============================================================================
