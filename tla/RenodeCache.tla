----------------------------- MODULE RenodeCache -----------------------------
(***************************************************************************)
(* escsim/renode/download.py: the cache of portable Renode packages, which *)
(* several processes (launchers, the command line, another project's       *)
(* tools) fill at the same time, each of which may die anywhere, and which *)
(* somebody may tidy up meanwhile.                                         *)
(*                                                                         *)
(* A package is its version; a directory of the cache is named after the   *)
(* version it was made for and a suffix, 0 for none.  The checks of the    *)
(* archive (digest, sizes, links, one executable) decide whether a package *)
(* is extracted at all, and are one choice here.                           *)
(***************************************************************************)
EXTENDS Naturals, FiniteSets

CONSTANTS
    Processes,
    MaxVersion,     \* bound: versions that are published
    MaxSuffix       \* bound: names tried for one version

VARIABLES
    latest,         \* external: the version of latest.json
    dirs,           \* the directories, a map from name to [version, whole]
    selected,       \* selected.json: a set of one name or none
    proc,           \* each process: its step, the version it fetched, its name
    running         \* observer: the directory each process last got

vars == <<latest, dirs, selected, proc, running>>

Versions == 1..MaxVersion
Names == Versions \X (0..MaxSuffix)
Out == [pc |-> "out"]

Init ==
    /\ latest = 1 /\ dirs = <<>> /\ selected = {}
    /\ proc = [p \in Processes |-> Out] /\ running = [p \in Processes |-> {}]

\* verified_install, with the package that is expected.
Verified(name, version) ==
    name \in DOMAIN dirs /\ dirs[name] = [version |-> version, whole |-> TRUE]

\* cached, without and with the package that latest.json names.
Cached == {n \in selected : n \in DOMAIN dirs /\ dirs[n].whole}
CachedFor(version) == {n \in selected : Verified(n, version)}

-----------------------------------------------------------------------------
Published ==
    /\ latest < MaxVersion /\ latest' = latest + 1
    /\ UNCHANGED <<dirs, selected, proc, running>>

\* A tool that removes what was not used for long, or a user.
Damaged ==
    /\ \E n \in DOMAIN dirs :
        /\ dirs[n].whole /\ dirs' = [dirs EXCEPT ![n].whole = FALSE]
        /\ proc' = [p \in Processes |->
             IF proc[p].pc = "select" /\ proc[p].name = n THEN [proc[p] EXCEPT !.hurt = TRUE]
             ELSE proc[p]]
    /\ UNCHANGED <<latest, selected, running>>

\* A launch with what is in the cache.
Launch(p) ==
    /\ proc[p] = Out /\ \E n \in Cached : running' = [running EXCEPT ![p] = {n}]
    /\ UNCHANGED <<latest, dirs, selected, proc>>

\* fetch_latest, select_package and the look into the cache.
Query(p) ==
    /\ proc[p] = Out
    /\ IF CachedFor(latest) # {}
       THEN running' = [running EXCEPT ![p] = CachedFor(latest)] /\ UNCHANGED proc
       ELSE /\ proc' = [proc EXCEPT ![p] = [pc |-> "download", version |-> latest]]
            /\ UNCHANGED running
    /\ UNCHANGED <<latest, dirs, selected>>

\* download_file and extract, in a directory of the process' own.
Extracted(p) ==
    /\ proc[p].pc = "download"
    /\ proc' = [proc EXCEPT ![p] = [pc |-> "rename", version |-> @.version,
                                    name |-> <<@.version, 0>>, hurt |-> FALSE]]
    /\ UNCHANGED <<latest, dirs, selected, running>>

\* An error, or the death of the process: what is left is a temporary directory.
Gone(p) ==
    /\ proc[p] # Out /\ proc' = [proc EXCEPT ![p] = Out]
    /\ UNCHANGED <<latest, dirs, selected, running>>

\* Mutant: a directory of that name is good enough.
AcceptsAny(name, version) == name \in DOMAIN dirs
Accepts(name, version) == Verified(name, version)

\* One turn of the loop around rename.
Rename(p) ==
    /\ proc[p].pc = "rename"
    /\ LET n == proc[p].name  v == proc[p].version
       IN  IF n \notin DOMAIN dirs
           THEN /\ dirs' = [d \in DOMAIN dirs \cup {n} |->
                             IF d = n THEN [version |-> v, whole |-> TRUE] ELSE dirs[d]]
                /\ proc' = [proc EXCEPT ![p].pc = "select"]
           ELSE /\ UNCHANGED dirs
                /\ IF Accepts(n, v) THEN proc' = [proc EXCEPT ![p].pc = "select"]
                   ELSE \E other \in {v} \X (1..MaxSuffix) :
                           proc' = [proc EXCEPT ![p].name = other]
    /\ UNCHANGED <<latest, selected, running>>

\* selected.json is replaced.
Select(p) ==
    /\ proc[p].pc = "select" /\ selected' = {proc[p].name}
    /\ running' = [running EXCEPT ![p] = {proc[p].name}]
    /\ proc' = [proc EXCEPT ![p] = Out] /\ UNCHANGED <<latest, dirs>>

Next == Published \/ Damaged
        \/ \E p \in Processes : Launch(p) \/ Query(p) \/ Extracted(p) \/ Gone(p)
                                  \/ Rename(p) \/ Select(p)

-----------------------------------------------------------------------------
TypeOK ==
    /\ latest \in Versions /\ DOMAIN dirs \subseteq Names /\ selected \subseteq Names
    /\ Cardinality(selected) <= 1
    /\ \A p \in Processes : proc[p].pc \in {"out", "download", "rename", "select"}
                              /\ running[p] \subseteq Names

\* A directory that somebody may be running from is never replaced or changed by
\* another install, and holds the version it is named after.
NeverReplaced ==
    [][\A n \in DOMAIN dirs : n \in DOMAIN dirs'
          /\ dirs'[n] \in {dirs[n], [dirs[n] EXCEPT !.whole = FALSE]}]_vars

\* What an install selects is a whole package of the version it asked for, unless it
\* was damaged after the install had found it; whoever made the directory.
SelectsWhole ==
    [][\A p \in Processes :
        proc[p].pc = "select" /\ selected' = {proc[p].name} /\ ~proc[p].hurt
            => Verified(proc[p].name, proc[p].version)]_vars
=============================================================================
