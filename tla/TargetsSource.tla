---------------------------- MODULE TargetsSource ----------------------------
(***************************************************************************)
(* escsim/target/source.py, TargetSourceManager, over the settings store:  *)
(* several processes (the launcher, the command line) fetch targets.h from *)
(* the sources their users select, keep what validates, and fall back on   *)
(* it.  Files are replaced in one step; between reading index.json and     *)
(* replacing it there is no lock.                                          *)
(*                                                                         *)
(* A header is a value; "bad" is what does not validate.  An ETag is the   *)
(* header it was sent with.  Dates, limits and the safety of URLs are left *)
(* out, and a file source is a source that never answers 304.              *)
(***************************************************************************)
EXTENDS Naturals, FiniteSets

CONSTANTS
    Processes,
    Sources,
    Files,          \* the sources of kind "file"
    Default,        \* the source of the settings' default
    Headers,        \* contents that validate
    MaxHad          \* bound: contents a source has one after another

VARIABLES
    remote,         \* external: what each source has now
    index,          \* index.json: source to the digest of its record
    objects,        \* the contents stored under their digest
    source,         \* settings.json: targets_source
    proc,           \* the call each process is in
    returned,       \* observer: the document last returned, a set of one or none
    was,            \* observer: what each source has ever had
    raced           \* observer: a replaced index lacked what another had saved

store == <<index, objects, source>>
vars == <<remote, store, proc, returned, was, raced>>

Out == [pc |-> "out"]

Init ==
    /\ remote = [s \in Sources |-> CHOOSE h \in Headers : TRUE] /\ index = <<>> /\ objects = {}
    /\ source = Default /\ proc = [p \in Processes |-> Out]
    /\ returned = {}
    /\ was = [s \in Sources |-> {remote[s]}] /\ raced = FALSE

-----------------------------------------------------------------------------
Changes ==
    /\ \E s \in Sources : Cardinality(was[s]) < MaxHad /\ \E h \in Headers \cup {"bad"} :
        remote' = [remote EXCEPT ![s] = h] /\ was' = [was EXCEPT ![s] = @ \cup {h}]
    /\ UNCHANGED <<store, proc, returned, raced>>

\* _cached: the record, if its object can be read.
CachedIn(ix, s) == {ix[t] : t \in DOMAIN ix \cap {s}} \cap objects

\* The end of a call: with a document, or an error.
Returns(p, s, h) ==
    /\ proc' = [proc EXCEPT ![p] = Out]
    /\ returned' = {[source |-> s, header |-> h]}
Raises(p) == proc' = [proc EXCEPT ![p] = Out] /\ returned' = {}

\* active without a refresh, and refresh and select, which always ask the source.
Active(p) ==
    /\ proc[p] = Out /\ \E h \in CachedIn(index, source) : Returns(p, source, h)
    /\ UNCHANGED <<remote, store, was, raced>>

Begin(p) ==
    /\ proc[p] = Out
    /\ \E call \in {"active", "refresh", "select"} :
       \E s \in IF call = "select" THEN Sources ELSE {source} :
        /\ call = "active" => CachedIn(index, s) = {}
        /\ proc' = [proc EXCEPT ![p] = [pc |-> "fetch", call |-> call, source |-> s,
                                        cached |-> CachedIn(index, s)]]
    /\ returned' = {} /\ UNCHANGED <<remote, store, was, raced>>

\* A failure: the bundled header stands in for the default source only.
Fails(p) ==
    IF proc[p].call = "active" /\ proc[p].source = Default
    THEN Returns(p, Default, "bundled") ELSE Raises(p)

FetchFails(p) ==
    /\ proc[p].pc = "fetch" /\ Fails(p) /\ UNCHANGED <<remote, store, was, raced>>

\* Not modified: the record that is in the index by now is taken over.
NotModified(p) ==
    /\ proc[p].pc = "fetch" /\ proc[p].source \notin Files
    /\ proc[p].cached = {remote[proc[p].source]}
    /\ IF proc[p].source \in DOMAIN index
       THEN /\ proc' = [proc EXCEPT ![p] = [pc |-> "save", call |-> @.call,
                    source |-> @.source, header |-> remote[@.source], ix |-> index]]
            /\ UNCHANGED returned
       ELSE Fails(p)
    /\ UNCHANGED <<remote, store, was, raced>>

Receive(p) ==
    /\ proc[p].pc = "fetch"
    /\ LET h == remote[proc[p].source]
       IN  IF h \in Headers
           THEN /\ proc' = [proc EXCEPT ![p] = [pc |-> "store", call |-> @.call,
                                source |-> @.source, header |-> h]]
                /\ UNCHANGED returned
           ELSE Fails(p)
    /\ UNCHANGED <<remote, store, was, raced>>

\* Mutant: the index is saved, then the object.
StoreLater(p) ==
    /\ proc[p].pc = "store" /\ UNCHANGED objects
    /\ proc' = [proc EXCEPT ![p] = [@ EXCEPT !.pc = "load"]]
    /\ UNCHANGED <<remote, index, source, returned, was, raced>>

\* targets.h and metadata.json of the object.
Store(p) ==
    /\ proc[p].pc = "store" /\ objects' = objects \cup {proc[p].header}
    /\ proc' = [proc EXCEPT ![p].pc = "load"]
    /\ UNCHANGED <<remote, index, source, returned, was, raced>>

Load(p) ==
    /\ proc[p].pc = "load"
    /\ proc' = [proc EXCEPT ![p] = [pc |-> "save", call |-> @.call, source |-> @.source,
                    header |-> @.header, ix |-> [s \in DOMAIN index \cup {@.source} |->
                              IF s = @.source THEN @.header ELSE index[s]]]]
    /\ UNCHANGED <<remote, store, returned, was, raced>>

\* _save_index; a refresh returns here.
Save(p) ==
    /\ proc[p].pc = "save"
    /\ index' = proc[p].ix
    /\ raced' = (raced \/ DOMAIN index \ DOMAIN proc[p].ix # {})
    /\ IF proc[p].call = "select"
       THEN proc' = [proc EXCEPT ![p].pc = "persist"] /\ UNCHANGED returned
       ELSE Returns(p, proc[p].source, proc[p].header)
    /\ UNCHANGED <<remote, objects, source, was>>

\* select persists the selection last.
Persist(p) ==
    /\ proc[p].pc = "persist" /\ source' = proc[p].source
    /\ Returns(p, proc[p].source, proc[p].header)
    /\ UNCHANGED <<remote, index, objects, was, raced>>

Dies(p) == proc[p] # Out /\ Raises(p) /\ UNCHANGED <<remote, store, was, raced>>

Next == Changes \/ \E p \in Processes :
    Active(p) \/ Begin(p) \/ FetchFails(p) \/ NotModified(p) \/ Receive(p) \/ Store(p)
    \/ Load(p) \/ Save(p) \/ Persist(p) \/ Dies(p)

-----------------------------------------------------------------------------
TypeOK ==
    /\ DOMAIN index \subseteq Sources /\ objects \subseteq Headers /\ source \in Sources
    /\ \A p \in Processes : proc[p].pc \in {"out", "fetch", "store", "load", "save", "persist"}

\* Whoever races and whoever dies, a record of the index names a stored header that
\* its source once had, and a source other than the default was selected only when
\* it could be served from the cache: after that it can be lost only by a race of two
\* processes over the index, which no lock prevents.
IndexHonest ==
    /\ \A s \in DOMAIN index : index[s] \in objects /\ index[s] \in was[s]
    /\ source = Default \/ source \in DOMAIN index \/ raced

\* A document comes from the source it says, or from the package for the default.
DocumentsHonest ==
    \A d \in returned :
        \/ d.header \in was[d.source] \ {"bad"}
        \/ d.header = "bundled" /\ d.source = Default
=============================================================================
