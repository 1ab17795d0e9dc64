------------------------------ MODULE VhciPort ------------------------------
(***************************************************************************)
(* The client half of USB/IP (control/usbip.py): processes that import     *)
(* their own device and give it to vhci_hcd, look for its serial node and  *)
(* detach it, beside devices of others on the ports they share.  The       *)
(* kernel, udev and usbip-win2 are external.  A port number is read from   *)
(* the status table before it is written: in between it may change hands.  *)
(***************************************************************************)
EXTENDS Naturals, Sequences, FiniteSetsExt, SequencesExt

CONSTANTS
    Clients,        \* processes, each with a device that it exports
    Hub,            \* port -> "hs" or "ss"; the devices here are full speed
    Groups,         \* serial groups that exist
    Member,         \* those the user of the clients is in
    MaxActs         \* bound: what is started, stopped and plugged

VARIABLES
    os,             \* "linux", "windows"
    loaded,         \* vhci_hcd is there
    rule,           \* the udev rule: [group, by], for whom and by whom installed
    group,          \* who may write attach and detach, "root" but for the rule
    vhci,           \* port -> [dev, sta]: "null", "assigned" or "used"
    up,             \* exporters that serve
    conn,           \* client -> who has the imported socket: "none", "self", "kernel"
    step,           \* client -> where its attach stands
    port,           \* client -> the port it has chosen, then owns; or NoPort
    list,           \* client -> ports that a detach of all of them found
    tty,            \* client -> whose serial node it has found
    lost,           \* clients whose device has been taken away meanwhile
    hits,           \* detached: [by, dev, was], was: what it was learnt to be
    acts

vars == <<os, loaded, rule, group, vhci, up, conn, step, port, list, tty, lost, hits, acts>>
system == <<os, loaded, rule, group>>
result == <<list, tty, lost, hits>>

Ports == DOMAIN Hub
NoPort == "none"
Foreign == "other"
NoRule == [group |-> "root", by |-> "none"]
Null == [dev |-> "none", sta |-> "null"]
Act == acts < MaxActs /\ acts' = acts + 1
Becomes(c, s) == step' = [step EXCEPT ![c] = s]
Usable(p) == vhci[p].sta = "null"

--------------------------------------------------------------------------
(* serial_group, install_rules: for the group that the caller is in, or    *)
(* else the first there is; as root the caller's groups are root's.        *)
SerialGroup(gids) ==
    LET existing == SelectSeq(<<"dialout", "uucp">>, LAMBDA g : g \in Groups)
        own == SelectSeq(existing, LAMBDA g : g \in gids)
    IN IF own # <<>> THEN own[1] ELSE existing[1]

InstallRules ==
    /\ os = "linux" /\ Groups # {} /\ rule = NoRule /\ Act
    /\ rule' \in {[group |-> SerialGroup(Member), by |-> "user"],
                 [group |-> SerialGroup({}), by |-> "root"]}
    /\ loaded' = TRUE /\ group' = rule'.group
    /\ UNCHANGED <<os, vhci, up, conn, step, port, result>>

MayWrite == loaded /\ group \in Member

\* A boot empties the table; with the rule the module comes back as it was.
Boot ==
    /\ os = "linux" /\ Act /\ \A c \in Clients : step[c] = "idle" /\ list[c] = <<>>
    /\ loaded' = (rule # NoRule) /\ group' = rule.group
    /\ vhci' = [p \in Ports |-> Null] /\ up' = {} /\ conn' = [c \in Clients |-> "none"]
    /\ UNCHANGED <<os, rule, step, port, result>>

--------------------------------------------------------------------------
(* The kernel and the others on the machine.                               *)
\* An exporter begins when nothing of the one before is left.
Serve(c) ==
    /\ c \notin up /\ step[c] = "idle" /\ conn[c] = "none" /\ Act
    /\ up' = up \cup {c} /\ lost' = lost \ {c}
    /\ UNCHANGED <<system, vhci, conn, step, port, list, tty, hits>>

Gone(c) ==
    /\ c \in up /\ Act
    /\ up' = up \ {c} /\ lost' = lost \cup {c}
    /\ UNCHANGED <<system, vhci, conn, step, port, list, tty, hits>>

Enumerate(p) ==
    /\ vhci[p].sta = "assigned" /\ vhci[p].dev \in up \cup {Foreign}
    /\ vhci' = [vhci EXCEPT ![p].sta = "used"]
    /\ UNCHANGED <<system, up, conn, step, port, result, acts>>

Unplug(p) ==
    /\ vhci[p].dev \in Clients \ up
    /\ vhci' = [vhci EXCEPT ![p] = Null]
    /\ conn' = [conn EXCEPT ![vhci[p].dev] = "none"]
    /\ UNCHANGED <<system, up, step, port, result, acts>>

Others(p) ==
    /\ loaded /\ vhci[p].dev \in {"none", Foreign} /\ Act
    /\ vhci' = [vhci EXCEPT ![p] =
                   IF Usable(p) THEN [dev |-> Foreign, sta |-> "used"] ELSE Null]
    /\ UNCHANGED <<system, up, conn, step, port, result>>

--------------------------------------------------------------------------
(* attach: by itself where it may write, or in a helper that runs as root, *)
(* which the user may refuse and which loads the module first.             *)
Attach(c) ==
    /\ os = "linux" /\ c \in up /\ step[c] = "idle" /\ Act
    /\ \/ MayWrite /\ Becomes(c, "import") /\ UNCHANGED loaded
       \/ ~MayWrite /\ Becomes(c, "import") /\ loaded' = TRUE
       \/ ~MayWrite /\ Becomes(c, "failed") /\ UNCHANGED loaded
    /\ UNCHANGED <<os, rule, group, vhci, up, conn, port, result>>

\* import_device: an end of the connection within the first eight bytes is not
\* noticed, later it is.
Import(c) ==
    /\ step[c] = "import"
    /\ \/ c \in up /\ Becomes(c, "choose") /\ conn' = [conn EXCEPT ![c] = "self"]
       \/ c \notin up /\ step' \in {[step EXCEPT ![c] = s] : s \in {"failed", "stuck"}}
          /\ UNCHANGED conn
    /\ UNCHANGED <<system, vhci, up, port, result, acts>>

Closed(c) == conn' = [conn EXCEPT ![c] = "none"]
FreePorts == {p \in Ports : Usable(p) /\ Hub[p] = "hs"}

Choose(c) ==
    /\ step[c] = "choose"
    /\ IF FreePorts = {} THEN Becomes(c, "failed") /\ Closed(c) /\ UNCHANGED port
       ELSE /\ Becomes(c, "write") /\ UNCHANGED conn
            /\ port' = [port EXCEPT ![c] = Min(FreePorts)]
    /\ UNCHANGED <<system, vhci, up, result, acts>>

\* attach_socket; vhci_hcd refuses a port that is not free any more.
Write(c) ==
    /\ step[c] = "write"
    /\ IF Usable(port[c])
       THEN /\ vhci' = [vhci EXCEPT ![port[c]] = [dev |-> c, sta |-> "assigned"]]
            /\ conn' = [conn EXCEPT ![c] = "kernel"]
            /\ Becomes(c, "owns") /\ UNCHANGED port
       ELSE /\ port' = [port EXCEPT ![c] = NoPort] /\ Closed(c)
            /\ Becomes(c, "failed") /\ UNCHANGED vhci
    /\ UNCHANGED <<system, up, result, acts>>

\* usbip-win2 in its time, in vain, or too late for the time there is: then its port
\* is not known, and only the end of the exporter takes it away.
WindowsAttach(c) ==
    /\ os = "windows" /\ c \in up /\ step[c] = "idle" /\ Act
    /\ \/ \E p \in FreePorts :
              /\ vhci' = [vhci EXCEPT ![p] = [dev |-> c, sta |-> "assigned"]]
              /\ conn' = [conn EXCEPT ![c] = "kernel"]
              /\ \/ port' = [port EXCEPT ![c] = p] /\ Becomes(c, "owns")
                 \/ UNCHANGED port /\ Becomes(c, "late")
       \/ Becomes(c, "failed") /\ UNCHANGED <<vhci, conn, port>>
    /\ UNCHANGED <<system, up, result>>

--------------------------------------------------------------------------
(* detach of the port one owns, and of all that look like ours: found      *)
(* first, then one by one, and an error ends it.                           *)
Freed(c, p, was) ==
    /\ vhci' = [vhci EXCEPT ![p] = Null]
    /\ hits' = hits \cup {[by |-> c, dev |-> vhci[p].dev, was |-> was]}
    /\ lost' = lost \cup ({vhci[p].dev} \cap Clients)
    /\ conn' = [x \in Clients |-> IF x = vhci[p].dev THEN "none" ELSE conn[x]]

Detach(c) ==
    /\ step[c] = "owns" /\ Act
    /\ IF Usable(port[c]) THEN UNCHANGED <<vhci, hits, lost, conn>> ELSE Freed(c, port[c], c)
    /\ step' = [step EXCEPT ![c] = "idle"] /\ port' = [port EXCEPT ![c] = NoPort]
    /\ tty' = [tty EXCEPT ![c] = "none"]
    /\ UNCHANGED <<system, up, list>>

Looks(p) == vhci[p].sta = "used" /\ vhci[p].dev \in Clients
OurPorts == SetToSortSeq({p \in Ports : Looks(p)}, <)

FindAll(c) ==
    /\ os = "linux" /\ loaded /\ list[c] = <<>> /\ Act
    /\ list' = [list EXCEPT ![c] = [i \in DOMAIN OurPorts |->
                                       [port |-> OurPorts[i], was |-> vhci[OurPorts[i]].dev]]]
    /\ UNCHANGED <<system, vhci, up, conn, step, port, tty, lost, hits>>

DetachNext(c) ==
    /\ list[c] # <<>>
    /\ LET p == Head(list[c]).port IN
           IF Usable(p) THEN list' = [list EXCEPT ![c] = <<>>] /\ UNCHANGED <<vhci, hits, lost, conn>>
           ELSE list' = [list EXCEPT ![c] = Tail(@)] /\ Freed(c, p, Head(list[c]).was)
    /\ UNCHANGED <<system, up, step, port, tty, acts>>

(* find_tty_on_port: the bus ID in the row of the port, then the nodes     *)
(* below it.                                                               *)
NodesOf(c) == {p \in {port[c]} : vhci[p].sta = "used"}
FindTty(c) ==
    /\ os = "linux" /\ step[c] = "owns" /\ tty[c] = "none" /\ NodesOf(c) # {}
    /\ \E p \in NodesOf(c) : tty' = [tty EXCEPT ![c] = vhci[p].dev]
    /\ UNCHANGED <<system, vhci, up, conn, step, port, list, lost, hits, acts>>

\* main, when the attach has failed: it closes its server and ends.
Ends(c) ==
    /\ step[c] \in {"failed", "late"} /\ up' = up \ {c} /\ Becomes(c, "idle")
    /\ UNCHANGED <<system, vhci, conn, port, result, acts>>

Init ==
    /\ os \in {"linux", "windows"} /\ loaded \in BOOLEAN /\ rule = NoRule /\ group = "root"
    /\ os = "windows" => loaded
    /\ vhci = [p \in Ports |-> Null] /\ up = {} /\ conn = [c \in Clients |-> "none"]
    /\ step = [c \in Clients |-> "idle"] /\ port = [c \in Clients |-> NoPort]
    /\ list = [c \in Clients |-> <<>>] /\ tty = [c \in Clients |-> "none"]
    /\ lost = {} /\ hits = {} /\ acts = 0

Next ==
    \/ InstallRules \/ Boot
    \/ \E p \in Ports : Enumerate(p) \/ Unplug(p) \/ Others(p)
    \/ \E c \in Clients :
        \/ Serve(c) \/ Gone(c) \/ Attach(c) \/ Import(c) \/ Choose(c) \/ Write(c)
        \/ WindowsAttach(c) \/ Detach(c) \/ FindAll(c) \/ DetachNext(c)
        \/ FindTty(c) \/ Ends(c)

--------------------------------------------------------------------------
TypeOK ==
    /\ \A p \in Ports : vhci[p].dev \in Clients \cup {Foreign, "none"}
    /\ \A c \in Clients :
        /\ conn[c] \in {"none", "self", "kernel"}
        /\ step[c] \in {"idle", "import", "choose", "write", "owns", "failed", "stuck", "late"}
    /\ up \subseteq Clients /\ lost \subseteq Clients /\ acts \in 0..MaxActs

\* A process owns the port of its own device and of no other, on a hub of its speed,
\* as long as the device is there and nobody has detached it; of two that choose the
\* same port one fails.
PortOwned ==
    \A c \in Clients :
        step[c] = "owns" /\ c \notin lost =>
            /\ vhci[port[c]].dev = c /\ Hub[port[c]] = "hs" /\ conn[c] = "kernel"
            /\ \A d \in Clients \ {c} : step[d] = "owns" /\ d \notin lost => port[d] # port[c]

\* An attach that fails leaves no device on a port and no connection open.
FailsClean ==
    \A c \in Clients : step[c] = "failed" /\ c \in up =>
        conn[c] = "none" /\ \A p \in Ports : vhci[p].dev # c

\* Nothing is detached but what had our identity when its port was learnt; and a node
\* that was found is the owner's own, whatever looks alike, unless the port has
\* changed hands.
OthersKept ==
    /\ \A h \in hits : h.was \in Clients
    /\ \A c \in Clients : tty[c] \in {"none", c} \/ c \in lost

\* With the rule no attach asks for root, now or after a boot, if its user is in
\* a serial group of the system and installed it.
RuleServes ==
    rule.by = "user" /\ Member \cap Groups # {} => MayWrite
=============================================================================
