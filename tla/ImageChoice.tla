---------------------------- MODULE ImageChoice ----------------------------
(***************************************************************************)
(* Which bootloader and which firmware the launcher starts (gui.py): the   *)
(* files it finds for a target, the releases of the catalog, which arrives *)
(* while the user chooses, the two combo boxes that are filled anew when   *)
(* it does or when a target is resolved, and the preferences of the next   *)
(* start.  An image is <<"auto">>, <<"none">>, <<"file", f>>, a release    *)
(* <<"catalog", id>> or what was installed of it, <<"installed", id, t>>.  *)
(***************************************************************************)
EXTENDS Naturals, Sequences, SequencesExt, FiniteSetsExt

CONSTANTS
    Targets,        \* [name, dronecan]; a target has a processor of its own
    Built,          \* bootloader files: [target, variant, version (its digits), elf, dir]
    Published,      \* the catalog: [bootloader, firmware (id -> targets), stable]
    MaxActs         \* bound: what the user does, programs included

VARIABLES
    files,          \* of Built, those that are there
    target,         \* lab.target, resolved, or "none"
    catalog,        \* it has arrived
    bl, fw,         \* the combo boxes: [items, index], index 0 when empty
    lab,            \* lab.bootloader
    prefs,          \* preferences of this program: [bootloader, firmware]
    installing,     \* [firmware, bootloader, target] on their way
    launch,         \* what was started last, alike
    picked,         \* the file the user picked for a bootloader last
    acts

vars == <<files, target, catalog, bl, fw, lab, prefs, installing, launch, picked, acts>>

Auto == <<"auto">>
None == <<"none">>
Nothing == [firmware |-> None, bootloader |-> None, target |-> "none"]
Current(box) == IF box.index = 0 THEN None ELSE box.items[box.index]
Find(items, data) ==
    IF data \in Range(items) THEN Min({i \in DOMAIN items : items[i] = data}) ELSE 0
Inserted(box, data) == [items |-> <<data>> \o box.items, index |-> 1]
IsRelease(image) == image[1] = "catalog"

--------------------------------------------------------------------------
(* find_bootloaders: of each variant the last by path, and an ELF after    *)
(* the hex beside it; the plain build first, or the CAN build for a        *)
(* DroneCAN target.  Versions are compared as text.                        *)
LessText(s, t) ==
    \/ \E k \in 1..Min({Len(s), Len(t)}) :
           s[k] < t[k] /\ \A i \in 1..(k - 1) : s[i] = t[i]
    \/ Len(s) < Len(t) /\ IsPrefix(s, t)
Later(f, g) ==
    \/ f.dir > g.dir
    \/ f.dir = g.dir /\ LessText(g.version, f.version)
    \/ f.dir = g.dir /\ f.version = g.version /\ f.elf /\ ~g.elf

Rank(f, dronecan) ==
    IF dronecan THEN IF f.variant = "can" THEN 0 ELSE 1
    ELSE CASE f.variant = "plain" -> 0 [] f.variant = "sized" -> 1 [] OTHER -> 2

Hits(there, t) ==
    LET mine == {f \in there : f.target = t.name}
        best == {f \in mine : \A g \in mine : g.variant = f.variant /\ g # f => Later(f, g)}
        ranked == SetToSortSeq(best, LAMBDA f, g :
            \/ Rank(f, t.dronecan) < Rank(g, t.dronecan)
            \/ Rank(f, t.dronecan) = Rank(g, t.dronecan) /\ f.variant = "plain" /\ g.variant # "plain")
    IN [i \in 1..Cardinality(best) |-> ranked[i]]

TargetOf(n) == CHOOSE t \in Targets : t.name = n
Matched(n) == IF n = "none" THEN <<>> ELSE Hits(files, TargetOf(n))

--------------------------------------------------------------------------
(* refresh_bootloaders: what is desired stays selected when it is there; a *)
(* file that is not listed is put in; auto, and a release that is gone,    *)
(* become the stable release once there is a catalog.                      *)
Releases(c, kind) ==
    IF c THEN [i \in 1..Cardinality(kind) |-> <<"catalog", SetToSortSeq(kind, <)[i]>>] ELSE <<>>

BootloaderBox(n, c, desired) ==
    LET hits == Matched(n)
        items == <<Auto>> \o Releases(c, Published.bootloader)
                     \o [i \in DOMAIN hits |-> <<"file", hits[i]>>] \o <<None>>
        found == IF desired = Auto /\ c THEN 0 ELSE Find(items, desired)
        stable == Find(items, <<"catalog", Published.stable>>)
    IN IF found > 0 THEN [items |-> items, index |-> found]
       ELSE IF desired[1] \in {"file", "installed"} THEN Inserted([items |-> items], desired)
       ELSE [items |-> items, index |-> IF c /\ stable > 0 THEN stable ELSE 1]

\* bl_changed follows, but for a release that awaits the catalog.
RefreshBootloaders(n, c) ==
    /\ bl' = BootloaderBox(n, c, lab)
    /\ lab' = IF IsRelease(lab) /\ ~c THEN lab ELSE Current(bl')

\* refresh_firmware_releases: the releases that are listed go; those for the target
\* come, and the preference with which the program began.
WithoutReleases(items) ==
    LET left[n \in 0..Len(items)] ==
            IF n = 0 THEN <<>>
            ELSE IF IsRelease(items[n]) THEN left[n - 1] ELSE Append(left[n - 1], items[n])
    IN left[Len(items)]

RefreshFirmware(n, c) ==
    LET kept == WithoutReleases(fw.items)
        mine == {r \in DOMAIN Published.firmware : n \in Published.firmware[r]}
        items == kept \o IF n = "none" THEN <<>> ELSE Releases(c, mine)
        stays == IF Current(fw) \in Range(kept) THEN Find(kept, Current(fw)) ELSE Len(kept)
        desired == IF prefs.firmware = Auto THEN <<"catalog", Published.stable>> ELSE prefs.firmware
    IN fw' = [items |-> items,
              index |-> IF c /\ n # "none" /\ Find(items, desired) > 0
                        THEN Find(items, desired) ELSE stays]

Resolve ==
    /\ acts < MaxActs /\ installing = Nothing
    /\ acts' = acts + 1
    /\ \E t \in Targets : target' = t.name
    /\ RefreshBootloaders(target', catalog) /\ RefreshFirmware(target', catalog)
    /\ UNCHANGED <<files, catalog, prefs, installing, launch, picked>>

CatalogArrives ==
    /\ ~catalog /\ catalog' = TRUE
    /\ RefreshBootloaders(target, TRUE) /\ RefreshFirmware(target, TRUE)
    /\ UNCHANGED <<files, target, prefs, installing, launch, picked, acts>>

--------------------------------------------------------------------------
(* The user: combo boxes, Browse, and the commands of the control port.    *)
User ==
    /\ acts < MaxActs /\ acts' = acts + 1 /\ installing = Nothing
    /\ UNCHANGED <<files, target, catalog, prefs, installing, launch>>

ChooseBootloader ==
    /\ User /\ bl.items # <<>> /\ UNCHANGED fw
    /\ \E i \in DOMAIN bl.items : bl' = [bl EXCEPT !.index = i]
    /\ lab' = Current(bl')
    /\ picked' = IF lab'[1] = "file" THEN lab' ELSE None

BrowseBootloader ==
    /\ User /\ UNCHANGED fw
    /\ \E f \in files : bl' = Inserted(bl, <<"file", f>>)
    /\ lab' = Current(bl') /\ picked' = lab'

ChooseFirmware ==
    /\ User /\ UNCHANGED <<bl, lab, picked>>
    /\ \/ \E i \in DOMAIN fw.items : fw' = [fw EXCEPT !.index = i]
       \/ fw' = Inserted(fw, <<"file", "mine">>)

\* do_start and install_artifacts: releases are installed first; then start_lab,
\* whose pick_bootloader finds the file that auto means, or refuses.  A start before
\* the box is filled starts auto, and forgets what was preferred.
Picked(image) ==
    IF image # Auto THEN {image}
    ELSE IF Matched(target) = <<>> THEN {} ELSE {<<"file", Matched(target)[1]>>}

StartLab(f, b) ==
    /\ lab' = b
    /\ IF target = "none" \/ Picked(b) = {} THEN UNCHANGED launch
       ELSE \E p \in Picked(b) : launch' = [firmware |-> f, bootloader |-> p, target |-> target]

Start ==
    /\ acts < MaxActs /\ acts' = acts + 1 /\ installing = Nothing
    /\ LET f == Current(fw)
           b == IF bl.items = <<>> THEN Auto ELSE Current(bl)
       IN IF IsRelease(f) \/ IsRelease(b)
          THEN /\ target # "none"
               /\ installing' = [firmware |-> f, bootloader |-> b, target |-> target]
               /\ UNCHANGED <<lab, launch>>
          ELSE StartLab(f, b) /\ UNCHANGED installing
    /\ picked' = IF bl.items = <<>> THEN None ELSE picked
    /\ UNCHANGED <<files, target, catalog, bl, fw, prefs>>

InstalledImage(image) ==
    IF IsRelease(image) THEN <<"installed", image[2], installing.target>> ELSE image

ArtifactsReady ==
    /\ installing # Nothing /\ installing' = Nothing
    /\ \/ target = installing.target
          /\ StartLab(InstalledImage(installing.firmware), InstalledImage(installing.bootloader))
       \/ UNCHANGED <<lab, launch>>         \* failed
    /\ UNCHANGED <<files, target, catalog, bl, fw, prefs, picked, acts>>

\* save_preferences, and the next program, which loads them.  A release that
\* was preferred awaits the catalog of that program.
FirmwareBox(f) ==
    IF IsRelease(f) \/ f \in {Auto, None}
    THEN [items |-> <<Auto, None>>, index |-> IF f = None THEN 2 ELSE 1]
    ELSE Inserted([items |-> <<Auto, None>>], f)

Again ==
    /\ acts < MaxActs /\ acts' = acts + 1 /\ installing = Nothing
    /\ prefs' = [bootloader |-> lab, firmware |-> Current(fw)]
    /\ lab' = lab /\ target' = "none" /\ catalog' = FALSE
    /\ bl' = [items |-> <<>>, index |-> 0]
    /\ fw' = FirmwareBox(Current(fw))
    /\ launch' = Nothing
    /\ UNCHANGED <<files, installing, picked>>

Init ==
    /\ files \in SUBSET Built
    /\ target = "none" /\ catalog = FALSE /\ lab = Auto /\ picked = None
    /\ bl = [items |-> <<>>, index |-> 0] /\ fw = FirmwareBox(Auto)
    /\ prefs = [bootloader |-> Auto, firmware |-> Auto]
    /\ installing = Nothing /\ launch = Nothing /\ acts = 0

Next ==
    \/ Resolve \/ CatalogArrives
    \/ ChooseBootloader \/ BrowseBootloader \/ ChooseFirmware
    \/ Start \/ ArtifactsReady \/ Again

--------------------------------------------------------------------------
TypeOK ==
    /\ target \in {t.name : t \in Targets} \cup {"none"} /\ catalog \in BOOLEAN
    /\ bl.index \in 0..Len(bl.items) /\ fw.index \in 1..Len(fw.items)
    /\ acts \in 0..MaxActs

\* The bootloader that is shown is the one that is remembered, but for a release
\* that awaits its catalog and for one that was installed since.
ShownIsUsed ==
    bl.items # <<>> => \/ lab = Current(bl)
                       \/ IsRelease(lab) /\ ~catalog
                       \/ lab[1] = "installed"

\* A file the user picked stays picked, whatever arrives or is started meanwhile,
\* also in the next program.
PickKept == picked # None => lab = picked

\* The order of find_bootloaders is load-bearing: what auto starts is of the
\* target, plain unless the target is DroneCAN, and an ELF if there is one.
AutoFits ==
    \A t \in Targets :
        LET hits == Hits(files, t)
            mine == {f \in files : f.target = t.name}
            default == IF t.dronecan THEN "can" ELSE "plain"
        IN /\ hits = <<>> <=> mine = {}
           /\ hits # <<>> =>
                  /\ hits[1].target = t.name
                  /\ (\E f \in mine : f.variant = default) => hits[1].variant = default
                  /\ \A f \in mine : f = [hits[1] EXCEPT !.elf = TRUE] => hits[1].elf
=============================================================================
