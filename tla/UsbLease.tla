------------------------------ MODULE UsbLease ------------------------------
(***************************************************************************)
(* What usb_sleep.UsbSleep promises the rest of the program about a lease  *)
(* on a USB import, without locks, ports, threads or logind:               *)
(*                                                                         *)
(*   - a new import starts only while the gate is open;                    *)
(*   - a live lease is suspended only behind a closed gate, when no import *)
(*     is in flight;                                                       *)
(*   - the gate reopens only when no lease is left suspended: each one has *)
(*     become live again or has been dropped (unless the program is        *)
(*     ending, when a suspended lease stays suspended until it is dropped);*)
(*   - a dropped lease comes back only through a new import.               *)
(***************************************************************************)
CONSTANT Owners

VARIABLES
    lease,      \* state of each owner's lease
    gate,       \* "open" or "shut"
    ended       \* the program is closing: nothing is imported any more

LeaseStates == {"none", "acquiring", "live", "suspended"}

lvars == <<lease, gate, ended>>

LInit ==
    /\ lease = [o \in Owners |-> "none"]
    /\ gate = "open"
    /\ ended = FALSE

Moves(o, from, to) ==
    /\ lease[o] = from
    /\ lease' = [lease EXCEPT ![o] = to]
    /\ UNCHANGED <<gate, ended>>

Acquire(o) == gate = "open" /\ ~ended /\ Moves(o, "none", "acquiring")

Acquired(o) == Moves(o, "acquiring", "live")

Refused(o) == Moves(o, "acquiring", "none")

Suspend(o) ==
    /\ gate = "shut"
    /\ \A q \in Owners : lease[q] # "acquiring"
    /\ Moves(o, "live", "suspended")

Restore(o) == gate = "shut" /\ ~ended /\ Moves(o, "suspended", "live")

Drop(o) == Moves(o, "live", "none") \/ Moves(o, "suspended", "none")

Shut == gate' = "shut" /\ UNCHANGED <<lease, ended>>

Reopen ==
    /\ ended \/ \A o \in Owners : lease[o] # "suspended"
    /\ gate' = "open"
    /\ UNCHANGED <<lease, ended>>

End == ended' = TRUE /\ UNCHANGED <<lease, gate>>

LNext ==
    \/ \E o \in Owners : \/ Acquire(o) \/ Acquired(o) \/ Refused(o)
                         \/ Suspend(o) \/ Restore(o) \/ Drop(o)
    \/ Shut
    \/ Reopen
    \/ End

LSpec == LInit /\ [][LNext]_lvars
=============================================================================
