------------------------- MODULE ArtifactRepository -------------------------
(***************************************************************************)
(* escsim/artifacts: the publisher, which adds releases to a directory     *)
(* that a web server hands out, and the client, which fetches the catalog, *)
(* a manifest and the images it names one after another and keeps all of   *)
(* them in its cache.  Publishers may run at once and may die anywhere.    *)
(*                                                                         *)
(* One project and one target beside "sitl", the host program that older   *)
(* releases listed.  A build is the image it loads and its debug sections; *)
(* a digest is the content itself.  The order of the catalog, index.html   *)
(* and the formats' validators are left out.                               *)
(***************************************************************************)
EXTENDS Naturals, Sequences, FiniteSets

CONSTANTS
    Publishers,     \* processes of the publisher
    Releases,
    Channels,       \* "stable" and others
    Legacy          \* the release published before images came in pairs

Projects == {"firmware", "bootloader"}
Builds == {[load |-> "x", debug |-> 1], [load |-> "x", debug |-> 2],
           [load |-> "y", debug |-> 1]}
Hex(b) == [load |-> b.load, debug |-> 0]

VARIABLES
    project,
    files,          \* root: <<release, part>> to its content
    manifests,      \* root: release to its manifest, a map from part to digest
    catalog,        \* root: release to the targets of its entry
    stable,         \* root: the catalog's stable channel, a set of one or none
    lock,           \* holder of .publisher.lock
    job,            \* the run of each publisher
    ccatalog,       \* cache of the client: a set of one catalog or none
    cmanifests,     \* cache: release to manifest
    cobjects,       \* cache: <<release, part>> to content
    client,         \* what the client is about
    got             \* observer: the contents the last install returned

root == <<files, manifests, catalog, stable>>
cache == <<ccatalog, cmanifests, cobjects>>
vars == <<project, root, lock, job, cache, client, got>>

\* map with c under key.
With(map, key, c) == [k \in DOMAIN map \cup {key} |-> IF k = key THEN c ELSE map[k]]

None == [kind |-> "none"]
Idle == [pc |-> "idle"]

\* The parts of a release in the order in which they are published.
Parts == IF project = "firmware" THEN <<"elf", "hex", "header">> ELSE <<"elf", "hex">>
Content(part, b) == CASE part = "elf" -> b [] part = "hex" -> Hex(b)
                      [] OTHER -> [load |-> part, debug |-> 0]

Init ==
    /\ project \in Projects
    /\ LET old == IF project = "firmware" THEN {"elf", "header"} ELSE {"elf", "sitl"}
           b   == [load |-> "x", debug |-> 1]
       IN  /\ files = [f \in {Legacy} \X old |-> Content(f[2], b)]
           /\ manifests = [r \in {Legacy} |-> [p \in old |-> Content(p, b)]]
           /\ catalog = [r \in {Legacy} |-> IF "sitl" \in old THEN {"t", "sitl"} ELSE {"t"}]
    /\ stable = {} /\ lock = "free" /\ job = [p \in Publishers |-> None]
    /\ ccatalog = {} /\ cmanifests = <<>> /\ cobjects = <<>>
    /\ client = Idle /\ got = <<>>

-----------------------------------------------------------------------------
(* The publisher: main, under repository_lock. *)

Ends(p) == job' = [job EXCEPT ![p] = None] /\ lock' = "free"

\* Mutant: the lock is not waited for.
TakesNoLock(p) == lock' = p
Locks(p) == lock = "free" /\ lock' = p

\* add_firmware, add_bootloaders: a release that is published is refused.
BeginBuild(p) ==
    /\ job[p] = None /\ Locks(p)
    /\ \E r \in Releases \ DOMAIN catalog, b \in Builds, c \in Channels :
        job' = [job EXCEPT ![p] = [kind |-> "build", rel |-> r, build |-> b, todo |-> Parts,
                                   channel |-> c, man |-> <<>>, cat |-> catalog]]
    /\ UNCHANGED <<project, root, cache, client, got>>

\* augment_release: the entry loses the host program, and the ELF must load as the
\* published one does.
BeginAugment(p) ==
    /\ job[p] = None /\ Locks(p)
    /\ \E r \in DOMAIN catalog, b \in Builds :
        LET man == [part \in DOMAIN manifests[r] \ {"sitl"} |-> manifests[r][part]]
        IN  job' = [job EXCEPT ![p] =
                [kind |-> "augment", rel |-> r, build |-> b, todo |-> <<"verify", "hex">>,
                 channel |-> "nightly", man |-> man, cat |-> catalog]]
    /\ UNCHANGED <<project, root, cache, client, got>>

\* Mutant: a file that is there is replaced.
CopyOverwrites(file, c) == files' = With(files, file, c)

\* _copy, of a file that is not there.
Copy(file, c) == file \notin DOMAIN files /\ files' = With(files, file, c)

\* A file that is there is an error of a build; augment takes it when its content is
\* that of the build.
Publish(p) ==
    /\ job[p] # None /\ job[p].todo # <<>>
    /\ LET j == job[p]  part == Head(j.todo)
           file == <<j.rel, part>>  c == Content(part, j.build)
           took == [j EXCEPT !.todo = Tail(@), !.man = With(@, part, c)]
           verified == [j EXCEPT !.todo = Tail(@)]
           fails == Ends(p) /\ UNCHANGED files
       IN  CASE part = "verify" ->
                  IF files[<<j.rel, "elf">>].load = j.build.load
                  THEN job' = [job EXCEPT ![p] = verified] /\ UNCHANGED <<lock, files>>
                  ELSE fails
             [] OTHER ->
                  \/ Copy(file, c) /\ job' = [job EXCEPT ![p] = took] /\ UNCHANGED lock
                  \/ /\ file \in DOMAIN files
                     /\ IF j.kind = "augment" /\ files[file] = c
                        THEN job' = [job EXCEPT ![p] = took] /\ UNCHANGED <<lock, files>>
                        ELSE fails
    /\ UNCHANGED <<project, manifests, catalog, stable, cache, client, got>>

WriteManifest(p) ==
    /\ job[p] # None /\ job[p].todo = <<>> /\ job[p].kind # "written"
    /\ manifests' = With(manifests, job[p].rel, job[p].man)
    /\ job' = [job EXCEPT ![p].kind = "written"]
    /\ UNCHANGED <<project, files, catalog, stable, lock, cache, client, got>>

\* finish, from the catalog that was read first; then the lock is given up.
Finish(p) ==
    /\ job[p].kind = "written"
    /\ catalog' = With(job[p].cat, job[p].rel, {"t"})
    /\ stable' = IF job[p].channel = "stable" THEN {job[p].rel} ELSE stable
    /\ Ends(p) /\ UNCHANGED <<project, files, manifests, cache, client, got>>

Dies(p) == job[p] # None /\ Ends(p) /\ UNCHANGED <<project, root, cache, client, got>>

-----------------------------------------------------------------------------
(* The client: class ArtifactRepository. *)

Asks ==
    /\ client = Idle
    /\ \E r \in Releases, f \in {"elf", "hex", "refresh"} :
        client' = [pc |-> "catalog", rel |-> r, format |-> f]
    /\ got' = <<>> /\ UNCHANGED <<project, root, lock, job, cache>>

\* _json: the cache unless a refresh is asked for, else the server, else the cache.
Reads(cached, served) ==
    IF cached # {} /\ client.format # "refresh" THEN cached ELSE served \cup cached

ReadCatalog ==
    /\ client.pc = "catalog" /\ UNCHANGED <<project, root, lock, job, cmanifests, cobjects, got>>
    /\ \/ \E c \in Reads(ccatalog, {catalog}) :
            /\ ccatalog' = {c}
            /\ client' = IF client.rel \in DOMAIN c THEN [client EXCEPT !.pc = "manifest"]
                         ELSE Idle
       \/ ccatalog = {} /\ client' = Idle /\ UNCHANGED ccatalog

At(map, key) == {map[k] : k \in DOMAIN map \cap {key}}

\* The parts one install asks for.
Wanted(man, format) ==
    (IF format = "hex" THEN <<"hex", "elf">> ELSE <<"elf">>)
        \o (IF "header" \in DOMAIN man THEN <<"header">> ELSE <<>>)

ReadManifest ==
    /\ client.pc = "manifest" /\ UNCHANGED <<project, root, lock, job, ccatalog, cobjects, got>>
    /\ \/ \E m \in Reads(At(cmanifests, client.rel), At(manifests, client.rel)) :
            /\ cmanifests' = With(cmanifests, client.rel, m)
            /\ client' = IF client.format \in DOMAIN m
                         THEN [pc |-> "download", rel |-> client.rel, man |-> m,
                               todo |-> Wanted(m, client.format)]
                         ELSE Idle
       \/ At(cmanifests, client.rel) = {} /\ client' = Idle /\ UNCHANGED cmanifests

\* What comes when a transfer is cut short.
Cut == [load |-> "cut", debug |-> 0]

\* Mutant: what comes is kept as it comes.
HoldsUnchecked(c, spec) == TRUE
Holds(c, spec) == c = spec

\* _download
Download ==
    /\ client.pc = "download" /\ UNCHANGED <<project, root, lock, job, ccatalog, cmanifests>>
    /\ LET part == Head(client.todo)  file == <<client.rel, part>>
           good(map) == {c \in At(map, file) : Holds(c, client.man[part])}
           arrives == {c \in At(files, file) \cup {Cut} : Holds(c, client.man[part])}
       IN  \/ \E c \in IF good(cobjects) # {} THEN good(cobjects) ELSE arrives :
                /\ cobjects' = With(cobjects, file, c)
                /\ got' = With(got, part, c)
                /\ client' = IF Len(client.todo) = 1 THEN Idle
                             ELSE [client EXCEPT !.todo = Tail(@)]
           \/ good(cobjects) = {} /\ client' = Idle /\ got' = <<>> /\ UNCHANGED cobjects

Next ==
    \/ Asks \/ ReadCatalog \/ ReadManifest \/ Download
    \/ \E p \in Publishers : BeginBuild(p) \/ BeginAugment(p) \/ Publish(p)
                               \/ WriteManifest(p) \/ Finish(p) \/ Dies(p)

-----------------------------------------------------------------------------
TypeOK ==
    /\ DOMAIN catalog \subseteq Releases /\ DOMAIN manifests \subseteq Releases
    /\ lock \in Publishers \cup {"free"} /\ stable \subseteq Releases
    /\ \A p \in Publishers : job[p] # None => lock = p
    /\ client.pc \in {"idle", "catalog", "manifest", "download"}

\* Wherever a publisher dies, a release in the catalog has its manifest, every part
\* the manifest names is there with the content it names, and the targets the entry
\* lists are there, but for the host program an augment was taking out.
RepositoryWhole ==
    /\ stable \subseteq DOMAIN catalog
    /\ \A r \in DOMAIN catalog :
        /\ r \in DOMAIN manifests /\ "elf" \in DOMAIN manifests[r]
        /\ \A part \in DOMAIN manifests[r] :
            At(files, <<r, part>>) = {manifests[r][part]}

\* A release that was published stays, and so does the content of every file: what a
\* client remembers is never wrong, at most old.
Unlost ==
    [][/\ DOMAIN catalog \subseteq DOMAIN catalog'
       /\ \A f \in DOMAIN files : f \in DOMAIN files' /\ files'[f] = files[f]]_vars

\* An install returns parts of one build that the repository has, whichever catalog
\* and manifest were in the cache and whatever was published since.
InstallsOneBuild ==
    /\ \A f \in DOMAIN cobjects : At(files, f) = {cobjects[f]}
    /\ \A part \in {"elf", "hex"} \cap DOMAIN got, other \in {"elf", "hex"} \cap DOMAIN got :
        got[part].load = got[other].load
=============================================================================
