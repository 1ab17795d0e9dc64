--------------------------- MODULE UsbSleepProofs ---------------------------
(***************************************************************************)
(* Theorems about UsbSleep for any clients, any port table and any number  *)
(* of sleeps.                                                              *)
(***************************************************************************)
EXTENDS UsbSleep, TLAPS

(* Every state of UsbSleep is well typed, and a UsbAttachment has a port    *)
(* exactly while it counts as attached (usb_sleep.py:13-22).                *)
LEMMA TypeInit == Init => TypeOK
<1> SUFFICES ASSUME Init PROVE TypeOK
  OBVIOUS
<1> USE ConstantsAssumption DEF Init, Signals
<1>1. bus \in Seq(Signals)
  OBVIOUS
<1>2. \A c \in Clients : attached[c] <=> port[c] \in Ports
  OBVIOUS
<1>3. fd \in BOOLEAN /\ sleeping \in BOOLEAN /\ closed \in BOOLEAN /\ error \in BOOLEAN
  OBVIOUS
<1> QED
  BY <1>1, <1>2, <1>3 DEF TypeOK

\* Every step keeps the types.
LEMMA TypeStep == TypeOK /\ [Next]_vars => TypeOK'
<1> SUFFICES ASSUME TypeOK, [Next]_vars PROVE TypeOK'
  OBVIOUS
<1> USE ConstantsAssumption DEF TypeOK, Signals
<1> USE DEF usb, clients, worker, watcher, host, logind
<1>1. CASE UNCHANGED vars
  BY <1>1 DEF vars
<1>2. CASE SleepOver
  <2>1. Append(bus, "wake") \in Seq(Signals)
    OBVIOUS
  <2> QED
    BY <1>2, <2>1 DEF SleepOver
<1>3. ASSUME NEW c \in Clients,
             AttachCall(c) \/ Cancel(c) \/ DetachForgets(c) \/ DetachSucceeds(c)
      PROVE  TypeOK'
  <2>1. CASE AttachCall(c)
    BY <2>1 DEF AttachCall
  <2>2. CASE Cancel(c)
    BY <2>2 DEF Cancel
  <2>3. CASE DetachForgets(c)
    BY <2>3 DEF DetachForgets, Forgotten
  <2>4. CASE DetachSucceeds(c)
    BY <2>4 DEF DetachSucceeds, Forgotten
  <2> QED
    BY <1>3, <2>1, <2>2, <2>3, <2>4
<1>4. ASSUME NEW c \in Clients, Client(c)
      PROVE  TypeOK'
  <2>1. CASE AttachRaises(c)
    BY <2>1 DEF AttachRaises
  <2>2. CASE AttachBlocks(c)
    BY <2>2 DEF AttachBlocks
  <2>3. CASE AttachProceeds(c)
    BY <2>3 DEF AttachProceeds
  <2>4. ASSUME NEW p \in Ports, ImportSucceeds(c, p)
        PROVE  TypeOK'
    BY <2>4 DEF ImportSucceeds
  <2>5. CASE ImportFails(c)
    BY <2>5 DEF ImportFails
  <2> QED
    BY <1>4, <2>1, <2>2, <2>3, <2>4, <2>5 DEF Client
<1>5. CASE WorkerStep
  <2>1. CASE PrepareBegins
    BY <2>1 DEF PrepareBegins
  <2>2. CASE PrepareLocks
    BY <2>2 DEF PrepareLocks
  <2>3. ASSUME NEW c \in Clients, PrepareForgets(c)
        PROVE  TypeOK'
    BY <2>3 DEF PrepareForgets, Forgotten
  <2>4. ASSUME NEW c \in Clients, PrepareDetaches(c)
        PROVE  TypeOK'
    BY <2>4 DEF PrepareDetaches, Listed
  <2>5. ASSUME NEW c \in Clients, PrepareRefused(c)
        PROVE  TypeOK'
    BY <2>5 DEF PrepareRefused, JobRaises
  <2>6. CASE PrepareVanished
    BY <2>6 DEF PrepareVanished
  <2>7. CASE PrepareTimesOut
    BY <2>7 DEF PrepareTimesOut, JobRaises
  <2>8. CASE PrepareDone
    BY <2>8 DEF PrepareDone
  <2>9. CASE ResumeLocks
    BY <2>9 DEF ResumeLocks, Suspended
  <2>10. ASSUME NEW c \in Clients, ResumeForgets(c)
         PROVE  TypeOK'
    BY <2>10 DEF ResumeForgets, Forgotten
  <2>11. ASSUME NEW c \in Clients, NEW p \in Ports, ResumeAttaches(c, p)
         PROVE  TypeOK'
    BY <2>11 DEF ResumeAttaches
  <2>12. CASE ResumeDone
    BY <2>12 DEF ResumeDone, NotifyAll
  <2> QED
    BY <1>5, <2>1, <2>2, <2>3, <2>4, <2>5, <2>6, <2>7, <2>8, <2>9, <2>10,
       <2>11, <2>12 DEF WorkerStep
<1>6. CASE PrepareForSleep
  <2>1. Head(bus) \in Signals /\ bus' \in Seq(Signals)
    BY <1>6 DEF PrepareForSleep
  <2>2. sleeping' \in BOOLEAN
    BY <1>6 DEF PrepareForSleep
  <2>3. fd' \in BOOLEAN
    BY <1>6 DEF PrepareForSleep, StartJob, InhibitResults
  <2>4. /\ pending' \in Signals \cup {"none"}
        /\ wpc' \in {"none", "prepare", "prepareLock", "detaching", "vanishing",
                     "resumeLock", "reattaching", "finished"}
        /\ job' \in Signals
        /\ error' \in BOOLEAN
    BY <1>6, <2>1 DEF PrepareForSleep, StartJob
  <2>5. cur' \in IF wpc' = "vanishing" THEN Clients ELSE {Free}
    BY <1>6 DEF PrepareForSleep, StartJob
  <2> QED
    BY <1>6, <2>1, <2>2, <2>3, <2>4, <2>5 DEF PrepareForSleep
<1>7. CASE Complete
  BY <1>7 DEF Complete, StartJob, InhibitResults
<1>8. CASE CloseBegins \/ CloseUsb \/ CloseJoins
  <2>1. CASE CloseBegins
    BY <2>1 DEF CloseBegins
  <2>2. CASE CloseUsb
    BY <2>2 DEF CloseUsb, NotifyAll
  <2>3. CASE CloseJoins
    BY <2>3 DEF CloseJoins
  <2> QED
    BY <1>8, <2>1, <2>2, <2>3
<1>9. ASSUME NEW p \in Ports, DeviceGone(p) \/ ForeignAttaches(p)
      PROVE  TypeOK'
  BY <1>9 DEF DeviceGone, ForeignAttaches
<1>10. CASE SleepAnnounced
  BY <1>10 DEF SleepAnnounced
<1> QED
  BY <1>1, <1>2, <1>3, <1>4, <1>5, <1>6, <1>7, <1>8, <1>9, <1>10
     DEF Next

\* Every reachable state is well typed (usb_sleep.py, the attributes of UsbSleep and
\* of its watcher).
THEOREM TypeCorrect == Spec => []TypeOK
<1>1. Init => TypeOK
  BY TypeInit
<1>2. TypeOK /\ [Next]_vars => TypeOK'
  BY TypeStep
<1> QED
  BY <1>1, <1>2, PTL DEF Spec

-----------------------------------------------------------------------------
(* The inductive invariant.  NoLeakedImport and NoStrandedLease alone are   *)
(* not inductive: they hold because of what the lock protects while the     *)
(* worker is inside its loops, and because `sleeping' stays set from the    *)
(* moment prepare sets it until a resume has visited every lease.           *)

\* Who holds UsbSleep.lock follows from where the threads are.
LockInv ==
    /\ lock = Worker <=> wpc \in {"detaching", "vanishing", "reattaching"}
    /\ \A c \in Clients : cpc[c] = "importing" <=> lock = c
    /\ \A c \in Clients : cpc[c] # "idle" => c \notin imports

\* What the worker's loops have still to do.
LoopInv ==
    /\ wpc \in {"prepare", "prepareLock", "detaching", "vanishing"} => job = "sleep"
    /\ wpc \in {"resumeLock", "reattaching"} => job = "wake"
    /\ wpc \in {"prepareLock", "detaching", "vanishing"} => sleeping
    /\ wpc = "detaching" => {c \in imports : attached[c]} \subseteq todo
    /\ wpc = "vanishing" => /\ {c \in imports : attached[c]} \subseteq todo \cup {cur}
                            /\ cur \in imports
                            /\ attached[cur]
                            /\ cur \notin todo
    /\ wpc \in {"detaching", "vanishing"} => \A c \in todo : c \in imports /\ attached[c]
    /\ wpc = "reattaching" => /\ \A c \in todo : c \in imports /\ ~attached[c]
                              /\ closed \/ \A c \in imports : ~attached[c] => c \in todo
                              /\ todo # {} => ~closed

\* From the end of a prepare that did not raise until the Qt thread has
\* handled it, every lease is suspended and none is being taken.
QuietInv ==
    (wpc = "finished" /\ job = "sleep" /\ ~error) =>
        /\ sleeping
        /\ \A c \in Clients : cpc[c] # "importing"
        /\ \A c \in imports : ~attached[c]

IInv ==
    /\ TypeOK
    /\ LockInv
    /\ LoopInv
    /\ QuietInv
    /\ NoLeakedImport
    /\ NoStrandedLease

\* The first state satisfies the invariant.
LEMMA IInvInit == Init => IInv
<1> SUFFICES ASSUME Init PROVE IInv
  OBVIOUS
<1>1. TypeOK
  BY TypeInit
<1>2. LockInv
  BY ConstantsAssumption DEF Init, LockInv
<1>3. LoopInv /\ QuietInv /\ NoStrandedLease
  BY DEF Init, LoopInv, QuietInv, NoStrandedLease, Suspended
<1>4. NoLeakedImport
  BY SMTT(30), ConstantsAssumption DEF Init, NoLeakedImport
<1> QED
  BY <1>1, <1>2, <1>3, <1>4 DEF IInv

\* Every step keeps the invariant.
LEMMA IInvStep == IInv /\ [Next]_vars => IInv'
<1> SUFFICES ASSUME IInv, [Next]_vars PROVE IInv'
  OBVIOUS
<1>0. TypeOK /\ TypeOK'
  BY TypeStep DEF IInv
<1> USE <1>0, ConstantsAssumption
<1> USE DEF IInv, LockInv, LoopInv, QuietInv, NoLeakedImport, NoStrandedLease, Suspended
<1> USE DEF usb, clients, worker, watcher, host, logind
<1>1. ASSUME NEW c \in Clients, AttachCall(c)
      PROVE  IInv'
  BY <1>1 DEF AttachCall
<1>2. ASSUME NEW c \in Clients, Cancel(c)
      PROVE  IInv'
  BY <1>2 DEF Cancel
<1>3. ASSUME NEW c \in Clients, DetachForgets(c)
      PROVE  IInv'
  BY <1>3 DEF DetachForgets, Forgotten, Listed
<1>4. ASSUME NEW c \in Clients, DetachSucceeds(c)
      PROVE  IInv'
  BY <1>4 DEF DetachSucceeds, Forgotten
<1>5. ASSUME NEW c \in Clients, AttachRaises(c)
      PROVE  IInv'
  BY <1>5 DEF AttachRaises
<1>6. ASSUME NEW c \in Clients, AttachBlocks(c)
      PROVE  IInv'
  BY <1>6 DEF AttachBlocks
<1>7. ASSUME NEW c \in Clients, AttachProceeds(c)
      PROVE  IInv'
  <2>1. LockInv'
    BY <1>7 DEF AttachProceeds, TypeOK
  <2>2. LoopInv'
    BY <1>7 DEF AttachProceeds, TypeOK
  <2>3. QuietInv'
    BY <1>7 DEF AttachProceeds, TypeOK
  <2>4. NoLeakedImport'
    BY <1>7 DEF AttachProceeds, TypeOK
  <2>5. NoStrandedLease'
    BY <1>7 DEF AttachProceeds, TypeOK
  <2> QED
    BY <2>1, <2>2, <2>3, <2>4, <2>5
<1>8. ASSUME NEW c \in Clients, NEW p \in Ports, ImportSucceeds(c, p)
      PROVE  IInv'
  <2>1. LockInv'
    BY <1>8 DEF ImportSucceeds, TypeOK
  <2>2. LoopInv'
    BY <1>8 DEF ImportSucceeds, TypeOK
  <2>3. QuietInv'
    BY <1>8 DEF ImportSucceeds, TypeOK
  <2>4. NoLeakedImport'
    BY <1>8 DEF ImportSucceeds, TypeOK
  <2>5. NoStrandedLease'
    BY <1>8 DEF ImportSucceeds, TypeOK
  <2> QED
    BY <2>1, <2>2, <2>3, <2>4, <2>5
<1>9. ASSUME NEW c \in Clients, ImportFails(c)
      PROVE  IInv'
  <2>1. LockInv'
    BY <1>9 DEF ImportFails, TypeOK
  <2>2. LoopInv'
    BY <1>9 DEF ImportFails, TypeOK
  <2>3. QuietInv'
    BY <1>9 DEF ImportFails, TypeOK
  <2>4. NoLeakedImport'
    BY <1>9 DEF ImportFails, TypeOK
  <2>5. NoStrandedLease'
    BY <1>9 DEF ImportFails, TypeOK
  <2> QED
    BY <2>1, <2>2, <2>3, <2>4, <2>5
<1>10. CASE PrepareBegins
  BY <1>10 DEF PrepareBegins
<1>11. CASE PrepareLocks
  BY <1>11 DEF PrepareLocks
<1>12. ASSUME NEW c \in Clients, PrepareForgets(c)
      PROVE  IInv'
  BY <1>12 DEF PrepareForgets, Forgotten, Listed
<1>13. ASSUME NEW c \in Clients, PrepareDetaches(c)
      PROVE  IInv'
  BY <1>13 DEF PrepareDetaches
<1>14. ASSUME NEW c \in Clients, PrepareRefused(c)
      PROVE  IInv'
  BY <1>14 DEF PrepareRefused, JobRaises
<1>15. CASE PrepareVanished
  <2>1. LockInv'
    BY <1>15 DEF PrepareVanished, Listed, TypeOK
  <2>2. LoopInv'
    BY <1>15 DEF PrepareVanished, Listed, TypeOK
  <2>3. QuietInv'
    BY <1>15 DEF PrepareVanished, Listed, TypeOK
  <2>4. NoLeakedImport'
    BY <1>15 DEF PrepareVanished, Listed, TypeOK
  <2>5. NoStrandedLease'
    BY <1>15 DEF PrepareVanished, Listed, TypeOK
  <2> QED
    BY <2>1, <2>2, <2>3, <2>4, <2>5
<1>16. CASE PrepareTimesOut
  BY <1>16 DEF PrepareTimesOut, JobRaises
<1>17. CASE PrepareDone
  BY <1>17 DEF PrepareDone
<1>18. CASE ResumeLocks
  BY <1>18 DEF ResumeLocks
<1>19. ASSUME NEW c \in Clients, ResumeForgets(c)
      PROVE  IInv'
  BY <1>19 DEF ResumeForgets, Forgotten
<1>20. ASSUME NEW c \in Clients, NEW p \in Ports, ResumeAttaches(c, p)
      PROVE  IInv'
  <2>1. LockInv'
    BY <1>20 DEF ResumeAttaches, TypeOK
  <2>2. LoopInv'
    BY <1>20 DEF ResumeAttaches, TypeOK
  <2>3. QuietInv'
    BY <1>20 DEF ResumeAttaches, TypeOK
  <2>4. NoLeakedImport'
    BY <1>20 DEF ResumeAttaches, TypeOK
  <2>5. NoStrandedLease'
    BY <1>20 DEF ResumeAttaches, TypeOK
  <2> QED
    BY <2>1, <2>2, <2>3, <2>4, <2>5
<1>21. CASE ResumeDone
  BY <1>21 DEF ResumeDone, NotifyAll
<1>22. CASE PrepareForSleep
  <2>1. LockInv'
    BY <1>22 DEF PrepareForSleep, StartJob, TypeOK
  <2>2. LoopInv'
    <3>1. UNCHANGED <<imports, attached, closed, todo, cur>>
      BY <1>22 DEF PrepareForSleep
    <3>2. sleeping => sleeping'
      BY <1>22 DEF PrepareForSleep
    <3>3. \/ wpc' = wpc /\ job' = job
          \/ wpc' = "prepare" /\ job' = "sleep"
          \/ wpc' = "resumeLock" /\ job' = "wake"
      BY <1>22 DEF PrepareForSleep, StartJob, TypeOK, Signals
    <3>4. LoopInv
      OBVIOUS
    <3> HIDE DEF IInv, QuietInv, NoLeakedImport, NoStrandedLease, LockInv
    <3> QED
      BY <3>1, <3>2, <3>3, <3>4
  <2>3. QuietInv'
    BY <1>22 DEF PrepareForSleep, StartJob, TypeOK
  <2>4. NoLeakedImport'
    BY <1>22 DEF PrepareForSleep, StartJob, TypeOK
  <2>5. NoStrandedLease'
    BY <1>22 DEF PrepareForSleep, StartJob, TypeOK
  <2> QED
    BY <2>1, <2>2, <2>3, <2>4, <2>5
<1>23. CASE Complete
  <2>1. LockInv'
    BY <1>23 DEF Complete, StartJob, TypeOK
  <2>2. LoopInv'
    <3>1. \/ wpc' = "none"
          \/ wpc' = "prepare" /\ job' = "sleep"
          \/ wpc' = "resumeLock" /\ job' = "wake"
      BY <1>23 DEF Complete, StartJob, TypeOK, Signals
    <3> QED
      BY <3>1
  <2>3. QuietInv'
    BY <1>23 DEF Complete, StartJob, TypeOK
  <2>4. NoLeakedImport'
    BY <1>23 DEF Complete, StartJob, TypeOK
  <2>5. NoStrandedLease'
    BY <1>23 DEF Complete, StartJob, TypeOK
  <2> QED
    BY <2>1, <2>2, <2>3, <2>4, <2>5
<1>24. CASE CloseBegins
  BY <1>24 DEF CloseBegins
<1>25. CASE CloseUsb
  BY <1>25 DEF CloseUsb, NotifyAll
<1>26. CASE CloseJoins
  BY <1>26 DEF CloseJoins
<1>27. ASSUME NEW p \in Ports, DeviceGone(p)
      PROVE  IInv'
  <2>1. LockInv'
    BY <1>27 DEF DeviceGone, TypeOK
  <2>2. LoopInv'
    BY <1>27 DEF DeviceGone, TypeOK
  <2>3. QuietInv'
    BY <1>27 DEF DeviceGone, TypeOK
  <2>4. NoLeakedImport'
    BY <1>27 DEF DeviceGone, TypeOK
  <2>5. NoStrandedLease'
    BY <1>27 DEF DeviceGone, TypeOK
  <2> QED
    BY <2>1, <2>2, <2>3, <2>4, <2>5
<1>28. ASSUME NEW p \in Ports, ForeignAttaches(p)
      PROVE  IInv'
  BY <1>28 DEF ForeignAttaches
<1>29. CASE SleepAnnounced
  BY <1>29 DEF SleepAnnounced
<1>30. CASE SleepOver
  BY <1>30 DEF SleepOver
<1>31. CASE UNCHANGED vars
  BY <1>31 DEF vars
<1> QED
  BY <1>1, <1>2, <1>3, <1>4, <1>5, <1>6, <1>7, <1>8, <1>9, <1>10, <1>11,
     <1>12, <1>13, <1>14, <1>15, <1>16, <1>17, <1>18, <1>19, <1>20,
     <1>21, <1>22, <1>23, <1>24, <1>25, <1>26, <1>27, <1>28, <1>29,
     <1>30, <1>31
     DEF Next, Client, WorkerStep

(* The inductive invariant holds throughout.                               *)
LEMMA Invariant == Spec => []IInv
<1>1. Init => IInv
  BY IInvInit
<1>2. IInv /\ [Next]_vars => IInv'
  BY IInvStep
<1> QED
  BY <1>1, <1>2, PTL DEF Spec

(* For any number of devices, ports and sleeps: a device of ours that the   *)
(* kernel holds and was not told to drop is reachable through its owner's   *)
(* lease (UsbSleep.imports), whatever the interleaving of attach, detach,   *)
(* forget, sleep, resume and close.                                         *)
THEOREM NoLeak == Spec => []NoLeakedImport
<1>1. IInv => NoLeakedImport
  BY DEF IInv
<1> QED
  BY Invariant, <1>1, PTL

(* No lease is left suspended once `sleeping' is cleared, unless the        *)
(* program is closing: resume visits every lease that prepare suspended,    *)
(* also after a prepare that raised half-way.                               *)
THEOREM NoneStranded == Spec => []NoStrandedLease
<1>1. IInv => NoStrandedLease
  BY DEF IInv
<1> QED
  BY Invariant, <1>1, PTL

\* The inhibitor is given up in Complete only, and there after every lease is suspended.
LEMMA ReleaseStep ==
  IInv /\ [Next]_vars =>
    [(fd /\ ~fd' /\ qpc = "loop") =>
        error \/ \A c \in Clients : /\ cpc[c] # "importing"
                                    /\ c \in imports => ~attached[c]]_vars
<1> SUFFICES ASSUME IInv, [Next]_vars, vars' # vars, fd, ~fd', qpc = "loop", ~error
             PROVE  \A c \in Clients : /\ cpc[c] # "importing"
                                       /\ c \in imports => ~attached[c]
  OBVIOUS
<1>1. fd \in BOOLEAN /\ fd' \in BOOLEAN
  BY TypeStep DEF IInv, TypeOK
<1>2. Complete
  <2> USE DEF usb, clients, worker, watcher, host, logind
  <2>1. Next
    OBVIOUS
  <2>2. fd' # fd
    OBVIOUS
  <2>3. ASSUME NEW c \in Clients,
               \/ AttachCall(c) \/ Cancel(c) \/ DetachForgets(c)
               \/ DetachSucceeds(c) \/ Client(c)
        PROVE  FALSE
    BY <2>2, <2>3 DEF AttachCall, Cancel, DetachForgets, DetachSucceeds, Client,
         AttachRaises, AttachBlocks, AttachProceeds, ImportSucceeds, ImportFails
  <2>4. ~WorkerStep
    BY <2>2 DEF WorkerStep, PrepareBegins, PrepareLocks, PrepareForgets,
         PrepareDetaches, PrepareRefused, PrepareVanished, PrepareTimesOut,
         PrepareDone, ResumeLocks, ResumeForgets, ResumeAttaches, ResumeDone
  <2>5. ~PrepareForSleep
    BY <1>1 DEF PrepareForSleep, StartJob, InhibitResults
  <2>6. ~(CloseBegins \/ CloseUsb \/ CloseJoins)
    BY <2>2 DEF CloseBegins, CloseUsb, CloseJoins
  <2>7. ASSUME NEW p \in Ports, DeviceGone(p) \/ ForeignAttaches(p)
        PROVE  FALSE
    BY <2>2, <2>7 DEF DeviceGone, ForeignAttaches
  <2>8. ~(SleepAnnounced \/ SleepOver)
    BY <2>2 DEF SleepAnnounced, SleepOver
  <2> QED
    BY <2>1, <2>3, <2>4, <2>5, <2>6, <2>7, <2>8 DEF Next
<1>3. wpc = "finished" /\ job = "sleep"
  <2>1. CASE job # "sleep"
    BY <1>1, <1>2, <2>1 DEF Complete, StartJob, InhibitResults
  <2> QED
    BY <1>2, <2>1 DEF Complete
<1> QED
  BY <1>3 DEF IInv, QuietInv

(* logind's inhibitor is given back for a sleep only after every lease was  *)
(* suspended, or after a detach failed (Watcher.complete).                  *)
THEOREM InhibitorHeld == Spec => ReleaseAfterDetach
<1>1. IInv /\ [Next]_vars =>
        [(fd /\ ~fd' /\ qpc = "loop") =>
            error \/ \A c \in Clients : /\ cpc[c] # "importing"
                                        /\ c \in imports => ~attached[c]]_vars
  BY ReleaseStep
<1> QED
  BY Invariant, <1>1, PTL DEF Spec, ReleaseAfterDetach
-----------------------------------------------------------------------------
(* Refinement: every step of UsbSleep is a step of UsbLease or a stutter.   *)

\* A lease that was not attached is none.
LEMMA LeaseInit == Init => Lease!LInit
<1> SUFFICES ASSUME Init PROVE Lease!LInit
  OBVIOUS
<1>1. \A c \in Clients : LeaseOf(c) = "none"
  BY DEF Init, LeaseOf
<1> QED
  BY <1>1 DEF Init, Lease!LInit

(* A step that moves the lease of one client is the step of that lease.     *)
LEMMA LeaseMove ==
  ASSUME NEW c \in Clients, NEW from, NEW to,
         LeaseOf(c) = from, LeaseOf(c)' = to,
         \A d \in Clients \ {c} : LeaseOf(d)' = LeaseOf(d),
         UNCHANGED <<sleeping, closed>>
  PROVE  Lease!Moves(c, from, to)
  BY DEF Lease!Moves

(* Forgetting a lease that is not being taken drops it.                     *)
LEMMA LeaseDrop ==
  ASSUME TypeOK, LockInv, NEW c \in Clients, c \in imports, Forgotten(c),
         UNCHANGED <<cpc, sleeping, closed>>
  PROVE  Lease!Drop(c)
<1>1. LeaseOf(c) \in {"live", "suspended"} /\ LeaseOf(c)' = "none"
  BY DEF LeaseOf, LockInv, Forgotten
<1>2. \A d \in Clients \ {c} : LeaseOf(d)' = LeaseOf(d)
  BY DEF LeaseOf, Forgotten, TypeOK
<1>3. ASSUME NEW from \in {"live", "suspended"}, LeaseOf(c) = from
      PROVE  Lease!Moves(c, from, "none")
  BY <1>1, <1>2, <1>3, LeaseMove
<1> QED
  BY <1>1, <1>3 DEF Lease!Drop

\* Every step is a step of one lease, or of none.
LEMMA LeaseStep == IInv /\ [Next]_vars => [Lease!LNext]_(Lease!lvars)
<1> SUFFICES ASSUME IInv, [Next]_vars
             PROVE  Lease!LNext \/ UNCHANGED Lease!lvars
  BY DEF Lease!lvars
<1>0. TypeOK /\ TypeOK' /\ LockInv /\ LoopInv /\ NoStrandedLease
  BY TypeStep DEF IInv
<1> USE <1>0, ConstantsAssumption
<1> USE DEF usb, clients, worker, watcher, host, logind
<1> DEFINE Goal == Lease!LNext \/ UNCHANGED Lease!lvars
<1>a. ASSUME \A c \in Clients : LeaseOf(c)' = LeaseOf(c), UNCHANGED <<sleeping, closed>>
      PROVE  Goal
  BY <1>a DEF Lease!lvars
<1>b. ASSUME UNCHANGED <<imports, attached, cpc, sleeping, closed>>
      PROVE  Goal
  BY <1>a, <1>b DEF LeaseOf
<1>c. ASSUME UNCHANGED <<imports, attached, cpc, closed>>, sleeping' \/ sleeping' = sleeping
      PROVE  Goal
  <2>1. CASE sleeping'
    BY <1>c, <2>1 DEF LeaseOf, Lease!Shut, Lease!LNext
  <2> QED
    BY <1>b, <1>c, <2>1
<1>1. ASSUME NEW c \in Clients, AttachCall(c) \/ AttachRaises(c) \/ AttachBlocks(c)
      PROVE  Goal
  <2>1. \A d \in Clients : LeaseOf(d)' = LeaseOf(d)
    BY <1>1 DEF LeaseOf, AttachCall, AttachRaises, AttachBlocks, TypeOK
  <2> QED
    BY <1>1, <1>a, <2>1 DEF AttachCall, AttachRaises, AttachBlocks
<1>2. ASSUME NEW c \in Clients, Cancel(c)
      PROVE  Goal
  BY <1>2, <1>b DEF Cancel
<1>3. ASSUME NEW c \in Clients, AttachProceeds(c)
      PROVE  Goal
  <2>1. LeaseOf(c) = "none" /\ LeaseOf(c)' = "acquiring"
    BY <1>3 DEF AttachProceeds, LeaseOf, LockInv, TypeOK
  <2>2. \A d \in Clients \ {c} : LeaseOf(d)' = LeaseOf(d)
    BY <1>3 DEF AttachProceeds, LeaseOf, TypeOK
  <2>3. Lease!Moves(c, "none", "acquiring")
    BY <1>3, <2>1, <2>2, LeaseMove DEF AttachProceeds
  <2> QED
    BY <1>3, <2>3 DEF AttachProceeds, Lease!Acquire, Lease!LNext
<1>4. ASSUME NEW c \in Clients, NEW p \in Ports, ImportSucceeds(c, p)
      PROVE  Goal
  <2>1. LeaseOf(c) = "acquiring" /\ LeaseOf(c)' = "live"
    BY <1>4 DEF ImportSucceeds, LeaseOf, LockInv, TypeOK
  <2>2. \A d \in Clients \ {c} : LeaseOf(d)' = LeaseOf(d)
    BY <1>4 DEF ImportSucceeds, LeaseOf, TypeOK
  <2>3. Lease!Moves(c, "acquiring", "live")
    BY <1>4, <2>1, <2>2, LeaseMove DEF ImportSucceeds
  <2> QED
    BY <2>3 DEF Lease!Acquired, Lease!LNext
<1>5. ASSUME NEW c \in Clients, ImportFails(c)
      PROVE  Goal
  <2>1. LeaseOf(c) = "acquiring" /\ LeaseOf(c)' = "none"
    BY <1>5 DEF ImportFails, LeaseOf, LockInv, TypeOK
  <2>2. \A d \in Clients \ {c} : LeaseOf(d)' = LeaseOf(d)
    BY <1>5 DEF ImportFails, LeaseOf, TypeOK
  <2>3. Lease!Moves(c, "acquiring", "none")
    BY <1>5, <2>1, <2>2, LeaseMove DEF ImportFails
  <2> QED
    BY <2>3 DEF Lease!Refused, Lease!LNext
<1>6. ASSUME NEW c \in Clients, DetachForgets(c) \/ DetachSucceeds(c)
      PROVE  Goal
  <2>1. Lease!Drop(c)
    BY <1>6, LeaseDrop DEF DetachForgets, DetachSucceeds
  <2> QED
    BY <2>1 DEF Lease!LNext
<1>7. ASSUME NEW c \in Clients, PrepareForgets(c) \/ ResumeForgets(c)
      PROVE  Goal
  <2>1. c \in imports
    BY <1>7 DEF LoopInv, PrepareForgets, ResumeForgets
  <2>2. Lease!Drop(c)
    BY <1>7, <2>1, LeaseDrop DEF PrepareForgets, ResumeForgets
  <2> QED
    BY <2>2 DEF Lease!LNext
<1>8. CASE PrepareVanished
  <2>1. PICK c \in Clients : c = cur
    BY <1>8 DEF PrepareVanished, TypeOK
  <2>2. lock = Worker /\ sleeping /\ c \in imports /\ attached[c]
    BY <1>8, <2>1 DEF PrepareVanished, LockInv, LoopInv
  <2>3. \A d \in Clients : LeaseOf(d) # "acquiring"
    BY <2>2 DEF LeaseOf, LockInv
  <2>4. LeaseOf(c) = "live" /\ LeaseOf(c)' = "suspended"
    BY <1>8, <2>1, <2>2 DEF PrepareVanished, LeaseOf, LockInv, TypeOK
  <2>5. \A d \in Clients \ {c} : LeaseOf(d)' = LeaseOf(d)
    BY <1>8, <2>1 DEF PrepareVanished, LeaseOf, TypeOK
  <2>6. Lease!Moves(c, "live", "suspended")
    BY <1>8, <2>4, <2>5, LeaseMove DEF PrepareVanished
  <2> QED
    BY <2>2, <2>3, <2>6 DEF Lease!Suspend, Lease!LNext
<1>9. ASSUME NEW c \in Clients, NEW p \in Ports, ResumeAttaches(c, p)
      PROVE  Goal
  <2>1. c \in imports /\ ~attached[c] /\ ~closed /\ cpc[c] # "importing"
    BY <1>9 DEF ResumeAttaches, LoopInv, LockInv
  <2>2. sleeping
    BY <2>1 DEF NoStrandedLease, Suspended
  <2>3. LeaseOf(c) = "suspended" /\ LeaseOf(c)' = "live"
    BY <1>9, <2>1 DEF ResumeAttaches, LeaseOf, TypeOK
  <2>4. \A d \in Clients \ {c} : LeaseOf(d)' = LeaseOf(d)
    BY <1>9 DEF ResumeAttaches, LeaseOf, TypeOK
  <2>5. Lease!Moves(c, "suspended", "live")
    BY <1>9, <2>3, <2>4, LeaseMove DEF ResumeAttaches
  <2> QED
    BY <2>1, <2>2, <2>5 DEF Lease!Restore, Lease!LNext
<1>10. CASE ResumeDone
  <2>1. \A c \in Clients : LeaseOf(c)' = LeaseOf(c)
    BY <1>10 DEF ResumeDone, NotifyAll, LeaseOf, TypeOK
  <2>2. closed \/ \A c \in Clients : LeaseOf(c) # "suspended"
    BY <1>10 DEF ResumeDone, LoopInv, LeaseOf
  <2> QED
    BY <1>10, <2>1, <2>2 DEF ResumeDone, Lease!Reopen, Lease!LNext
<1>11. CASE CloseUsb
  <2>1. \A c \in Clients : LeaseOf(c)' = LeaseOf(c)
    BY <1>11 DEF CloseUsb, NotifyAll, LeaseOf, TypeOK
  <2> QED
    BY <1>11, <2>1 DEF CloseUsb, Lease!End, Lease!LNext
<1>12. CASE PrepareBegins
  BY <1>12, <1>c DEF PrepareBegins
<1>13. CASE PrepareForSleep
  <2>1. UNCHANGED <<imports, attached, cpc, closed>>
    BY <1>13 DEF PrepareForSleep
  <2>2. sleeping' \/ sleeping' = sleeping
    BY <1>13 DEF PrepareForSleep, TypeOK
  <2> QED
    BY <1>c, <2>1, <2>2
<1>14. CASE Complete
  <2>1. UNCHANGED <<imports, attached, cpc, closed>>
    BY <1>14 DEF Complete
  <2>2. sleeping' \/ sleeping' = sleeping
    BY <1>14 DEF Complete, TypeOK
  <2> QED
    BY <1>c, <2>1, <2>2
<1>15. ASSUME NEW c \in Clients, PrepareDetaches(c) \/ PrepareRefused(c)
       PROVE  Goal
  BY <1>15, <1>b DEF PrepareDetaches, PrepareRefused
<1>16. CASE PrepareLocks \/ PrepareTimesOut \/ PrepareDone \/ ResumeLocks
  BY <1>16, <1>b DEF PrepareLocks, PrepareTimesOut, PrepareDone, ResumeLocks
<1>17. CASE CloseBegins \/ CloseJoins
  BY <1>17, <1>b DEF CloseBegins, CloseJoins
<1>18. ASSUME NEW p \in Ports, DeviceGone(p) \/ ForeignAttaches(p)
       PROVE  Goal
  BY <1>18, <1>b DEF DeviceGone, ForeignAttaches
<1>19. CASE SleepAnnounced \/ SleepOver \/ UNCHANGED vars
  BY <1>19, <1>b DEF SleepAnnounced, SleepOver, vars
<1> QED
  BY <1>1, <1>2, <1>3, <1>4, <1>5, <1>6, <1>7, <1>8, <1>9, <1>10, <1>11,
     <1>12, <1>13, <1>14, <1>15, <1>16, <1>17, <1>18, <1>19
     DEF Next, Client, WorkerStep

(* UsbSleep implements UsbLease: seen from its users, a lease is acquired   *)
(* only while no sleep is in progress, suspended only when nobody is        *)
(* acquiring, and restored or dropped before acquiring is possible again.   *)
THEOREM Refinement == Spec => ImplementsLease
<1>1. Init => Lease!LInit
  BY LeaseInit
<1>2. IInv /\ [Next]_vars => [Lease!LNext]_(Lease!lvars)
  BY LeaseStep
<1> QED
  BY <1>1, <1>2, Invariant, PTL DEF Spec, ImplementsLease, Lease!LSpec
=============================================================================
