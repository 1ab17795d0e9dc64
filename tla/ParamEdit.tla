----------------------------- MODULE ParamEdit -----------------------------
(***************************************************************************)
(* The parameters of an emulated ESC: the editor (control/param_dialog.py  *)
(* class ParamDialog), the periodic check behind its button (control/ui.py *)
(* start_param_fetch, apply_param_status, update_sim_status), their client *)
(* of the state port (control/backend.py class EepromClient) and parameter *)
(* files (control/params.py).  A transaction has a socket of its own, is   *)
(* resent, and may time out; that of the editor blocks Qt's thread.  The   *)
(* port serves datagrams in order and loses them in a reboot; DShot, CAN   *)
(* and a configurator write the same EEPROM.                               *)
(***************************************************************************)
EXTENDS Naturals, Sequences, FiniteSets

CONSTANTS
    Values,         \* of a byte
    Resends,        \* _transact sends so often at most: 4 in 1.5 s
    Backlog,        \* bound: datagrams at the state port
    MaxActs,        \* bound: changes the user makes
    MaxEvents,      \* bound: writes of others, loads of a model, reboots
    MaxChecks       \* bound: checks

\* "poles" must agree with the motor, "input" is INPUT_SIGNAL_TYPE; the tune has
\* no name in PARAMS.
Params == {"poles", "input"}
Offsets == Params \cup {"tune"}
Order == <<"poles", "input">>
CanOnly == 5

VARIABLES
    stored, motor,  \* the EEPROM, and the poles of the simulated motor
    inbox,          \* the state port: [of, kind, at, value]
    replies,        \* the replies at the socket of each client
    job,            \* the transaction of each client
    image, model, spins, status,    \* ParamDialog
    fetched,        \* param_state["fetch_q"]
    button,         \* param_state["mismatch"]
    due,            \* a singleShot will refresh an open dialog
    acts, events, checks,
    \* what the editor may rely on, and what its user changed since it read
    known, fresh, edited

dialogVars == <<image, model, spins, status, due>>
counts == <<acts, events, checks>>
ghosts == <<known, fresh, edited>>
vars == <<stored, motor, inbox, replies, job, dialogVars, fetched, button, counts, ghosts>>

Clients == {"dialog", "check"}
Idle == [kind |-> "none", at |-> "tune", value |-> 0, sent |-> 0]

\* default_settings, and the defaults of PARAMS.
Base == [o \in Offsets |-> IF o = "input" THEN CanOnly ELSE 1]
Default(p) == 1

\* model_checks: nothing without a model.
Wanted(m, p) == IF p = "poles" /\ m # 0 THEN {m} ELSE {}
DefaultFor(p) == IF Wanted(model, p) # {} THEN CHOOSE v \in Wanted(model, p) : TRUE ELSE Default(p)
Mismatches(img, m) == {p \in Params : \E v \in Wanted(m, p) : img[p] # v}

Init ==
    /\ stored = Base /\ motor = 1 /\ inbox = <<>>
    /\ replies = [c \in Clients |-> <<>>] /\ job = [c \in Clients |-> Idle]
    /\ image = <<>> /\ model = 0 /\ spins = [p \in Params |-> 0] /\ status = "none"
    /\ fetched = <<>> /\ button = {}
    /\ due = FALSE /\ acts = 0 /\ events = 0 /\ checks = 0
    /\ known = {} /\ fresh = {} /\ edited = {}

\* Qt's thread, which a transaction of the editor blocks.
Free == job["dialog"].kind = "none"
Begin(c, kind, at, value) == job' = [job EXCEPT ![c] = [kind |-> kind, at |-> at, value |-> value, sent |-> 0]]
Event == events < MaxEvents /\ events' = events + 1 /\ UNCHANGED <<acts, checks>>

--------------------------------------------------------------------------
(* The editor.                                                             *)

\* Refresh, an opened dialog, and params_view_refresh after a model was loaded.
Refresh ==
    /\ Free /\ due' = FALSE /\ Begin("dialog", "fetch", "tune", 0)
    /\ UNCHANGED <<stored, motor, inbox, replies, image, model, spins, status, fetched, button, counts, ghosts>>

\* (What is set before a first read, that read overwrites.)
Spun(new) ==
    /\ Free /\ image # <<>> /\ acts < MaxActs /\ acts' = acts + 1 /\ spins' = new /\ new # spins
    /\ edited' = edited \cup {p \in Params : new[p] # spins[p]}
    /\ UNCHANGED <<stored, motor, inbox, replies, job, image, model, status, fetched, button, due, known, fresh, events, checks>>

Edit(p, v) == Spun([spins EXCEPT ![p] = v])
ResetOne(p) == Spun([spins EXCEPT ![p] = DefaultFor(p)])
AllDefaults == Spun([p \in Params |-> DefaultFor(p)])
MatchModel == Spun([p \in Params |-> IF Wanted(model, p) = {} THEN spins[p] ELSE DefaultFor(p)])

\* recolour: a row is coloured when Apply would write it, or the motor needs
\* another value.
Unapplied(p) == image # <<>> /\ spins[p] # image[p]
Coloured(p) == Unapplied(p) \/ \E v \in Wanted(model, p) : spins[p] # v

\* The next row that apply has to write, of those from row i on.
Rows(i) == {r \in i..Len(Order) : Unapplied(Order[r])}
WriteFrom(i) ==
    IF Rows(i) = {} THEN job' = [job EXCEPT !["dialog"] = Idle] /\ status' = "applied"
    ELSE LET p == Order[CHOOSE r \in Rows(i) : \A q \in Rows(i) : r <= q]
         IN Begin("dialog", "set", p, spins[p]) /\ UNCHANGED status

Apply ==
    /\ Free /\ image # <<>> /\ WriteFrom(1)
    /\ UNCHANGED <<stored, motor, inbox, replies, image, model, spins, fetched, button, due, counts, ghosts>>

--------------------------------------------------------------------------
(* EepromClient.                                                           *)

\* A datagram on its way, as often as the transaction lasts.
Send(c) ==
    /\ job[c].kind # "none" /\ job[c].sent < Resends /\ Len(inbox) < Backlog
    /\ job' = [job EXCEPT ![c].sent = @ + 1]
    /\ inbox' = Append(inbox, [of |-> c, kind |-> job[c].kind, at |-> job[c].at, value |-> job[c].value])
    /\ UNCHANGED <<stored, motor, replies, dialogVars, fetched, button, counts, ghosts>>

\* What was asked from a socket that is closed now is still done.
Hangup(c) ==
    /\ inbox' = [i \in DOMAIN inbox |-> IF inbox[i].of = c THEN [inbox[i] EXCEPT !.of = "gone"] ELSE inbox[i]]
    /\ replies' = [replies EXCEPT ![c] = <<>>]

Serve ==
    /\ inbox # <<>> /\ inbox' = Tail(inbox)
    /\ LET d == Head(inbox) IN
        /\ stored' = IF d.kind = "set" THEN [stored EXCEPT ![d.at] = d.value] ELSE stored
        /\ replies' = IF d.of = "gone" THEN replies
                      ELSE [replies EXCEPT ![d.of] = Append(@, [kind |-> d.kind, image |-> stored', motor |-> motor])]
        /\ fresh' = IF d.of = "dialog" /\ replies["dialog"] = <<>> THEN Offsets ELSE fresh
    /\ UNCHANGED <<motor, job, dialogVars, fetched, button, counts, known, edited>>

\* The first reply of the kind that was asked for ends a transaction.
Answered(c) == job[c].kind # "none" /\ replies[c] # <<>> /\ Head(replies[c]).kind = job[c].kind

Read ==
    /\ Answered("dialog") /\ job["dialog"].kind = "fetch" /\ Hangup("dialog") /\ fresh' = {}
    /\ image' = Head(replies["dialog"]).image /\ model' = Head(replies["dialog"]).motor
    /\ spins' = [p \in Params |-> image'[p]] /\ status' = "read"
    /\ job' = [job EXCEPT !["dialog"] = Idle] /\ known' = fresh /\ edited' = {}
    /\ UNCHANGED <<stored, motor, fetched, button, due, counts>>

Wrote ==
    /\ Answered("dialog") /\ job["dialog"].kind = "set" /\ Hangup("dialog") /\ fresh' = {}
    /\ LET p == job["dialog"].at
           row == CHOOSE r \in DOMAIN Order : Order[r] = p IN
        /\ image' = [image EXCEPT ![p] = spins[p]] /\ WriteFrom(row + 1)
        /\ known' = IF p \in fresh THEN known \cup {p} ELSE known \ {p}
    /\ UNCHANGED <<stored, motor, model, spins, fetched, button, due, counts, edited>>

\* Nothing is known of a byte whose write was not answered.
GivenUp ==
    /\ ~Free /\ job["dialog"].sent = Resends /\ Hangup("dialog") /\ fresh' = {}
    /\ job' = [job EXCEPT !["dialog"] = Idle] /\ status' = "no reply"
    /\ known' = IF job["dialog"].kind = "set" THEN known \ {job["dialog"].at} ELSE known
    /\ UNCHANGED <<stored, motor, image, model, spins, fetched, button, due, counts, edited>>

--------------------------------------------------------------------------
(* The check behind the button, every 3 s and one at a time.               *)
StartFetch ==
    /\ Free /\ job["check"].kind = "none" /\ fetched = <<>>
    /\ checks < MaxChecks /\ checks' = checks + 1 /\ Begin("check", "fetch", "tune", 0)
    /\ UNCHANGED <<stored, motor, inbox, replies, dialogVars, fetched, button, acts, events, ghosts>>

Fetched ==
    /\ job["check"].kind # "none" /\ Hangup("check")
    /\ \/ Answered("check") /\ fetched' = <<Head(replies["check"])>>
       \/ job["check"].sent = Resends /\ fetched' = <<[kind |-> "none", image |-> <<>>, motor |-> 0]>>
    /\ job' = [job EXCEPT !["check"] = Idle]
    /\ UNCHANGED <<stored, motor, dialogVars, button, counts, ghosts>>

ApplyParamStatus ==
    /\ Free /\ fetched # <<>> /\ fetched' = <<>>
    /\ LET f == Head(fetched) IN
        button' = IF f.kind = "none" THEN button
                  ELSE Mismatches(f.image, f.motor)
    /\ UNCHANGED <<stored, motor, inbox, replies, job, dialogVars, counts, ghosts>>

--------------------------------------------------------------------------
(* What else happens to the ESC.                                           *)
OtherWrites(o, v) ==
    /\ Event /\ stored[o] # v /\ stored' = [stored EXCEPT ![o] = v]
    /\ known' = known \ {o} /\ fresh' = fresh \ {o}
    /\ UNCHANGED <<motor, inbox, replies, job, dialogVars, fetched, button, edited>>

ModelLoad(m) ==
    /\ Free /\ Event /\ motor # m /\ motor' = m /\ due' = TRUE
    /\ UNCHANGED <<stored, inbox, replies, job, image, model, spins, status, fetched, button, ghosts>>

Reboot ==
    /\ inbox # <<>> /\ Event /\ inbox' = <<>>
    /\ UNCHANGED <<stored, motor, replies, job, dialogVars, fetched, button, ghosts>>

Next ==
    \/ Refresh \/ AllDefaults \/ MatchModel \/ Apply
    \/ \E p \in Params : ResetOne(p) \/ \E v \in Values : Edit(p, v)
    \/ \E c \in Clients : Send(c)
    \/ Serve \/ Read \/ Wrote \/ GivenUp \/ StartFetch \/ Fetched \/ ApplyParamStatus
    \/ \E o \in Offsets, v \in Values : OtherWrites(o, v)
    \/ \E m \in Values : ModelLoad(m)
    \/ Reboot

--------------------------------------------------------------------------
(* Parameter files: image_overrides and format_param_file list what differs *)
(* from the firmware's defaults, build_image puts it back.                 *)
Overrides(img) == {p \in Params : img[p] # Base[p]}
Unmapped(img) == {o \in Offsets \ Params : img[o] # Base[o]}
BuildImage(img) == [o \in Offsets |-> IF o \in Overrides(img) THEN img[o] ELSE Base[o]]

--------------------------------------------------------------------------
TypeOK ==
    /\ stored \in [Offsets -> Values] /\ motor \in Values
    /\ \A i \in DOMAIN inbox : inbox[i].of \in Clients \cup {"gone"} /\ inbox[i].at \in Offsets
    /\ \A c \in Clients : job[c].kind \in {"none", "fetch", "set"} /\ job[c].sent \in 0..Resends
    /\ status \in {"none", "read", "applied", "no reply"} /\ Len(fetched) <= 1
    /\ button \subseteq Params /\ due \in BOOLEAN
    /\ known \subseteq Offsets /\ fresh \subseteq Offsets /\ edited \subseteq Params

\* What the editor took from an answer is what is stored until somebody else writes
\* it, so its rows say what Apply would change: late copies of a request that was
\* resent and late answers of a socket that was closed do no harm ("retried writes
\* are safe", EepromClient.set).
RowsTrue ==
    Free /\ image # <<>> =>
        \A p \in known \cap Params :
            /\ Unapplied(p) <=> spins[p] # stored[p]
            /\ ~Coloured(p) => spins[p] = stored[p]

\* A byte the user left alone is never written: what others store there survives.
OnlyEdited == \A i \in DOMAIN inbox : inbox[i].kind = "set" => inbox[i].at \in edited \/ inbox[i].of = "gone"

\* A parameter file gives back the image it was written from, but for the bytes its
\* note names.
FileWhole == \A o \in Offsets : BuildImage(stored)[o] = stored[o] \/ o \in Unmapped(stored)
============================================================================
