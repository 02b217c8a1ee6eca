----------------------------- MODULE MediaFetch -----------------------------
(* How the installer ISO and the driver ISO get into the cache: the choice   *)
(* between Microsoft's catalog (mct) and the UUP dump (uup), the download of *)
(* their ESDs, the assembly in a work tree that outlives it, the mastering   *)
(* of the ISO and the aliases of its name (packages media, uupdump,          *)
(* mctcatalog, isokit and virtio, the fetch commands and the cache part of   *)
(* the build command). Commands run one after the other; each may fail or be *)
(* killed at any step, and the next one finds what it left.                  *)
EXTENDS MediaSpec

CONSTANTS
  Requests,     \* the commands that are given
  OldISO,       \* the build of an ISO that the user may have at the legacy name
  Assembles,    \* the builds whose ESDs hold all of their install images
  Media,        \* of each build: the files of its setup media
  Catalogs,     \* what Microsoft's catalog offers in turn: builds
  Esds,         \* the ESD files of a UUP build
  Size,         \* blocks of an ESD
  Concurrency,  \* how many ESDs are downloaded at once
  maxAttempts,  \* how many builds are tried
  Darwin,       \* is the ISO mastered by hdiutil (or else by genisoimage)?
  DriverSize,   \* of each version of the driver ISO in turn: its blocks
  minSize,      \* the least size of a driver ISO that is believed
  MaxRequests, MaxFaults   \* bounds: commands, and failures and kills

None == "none"
SetupFiles == {"setup.exe", "sources"}
StageFiles == {"efi"} \cup SetupFiles
Lanes == {"mct", "uup"}
Names == {<<"mct", q.spec.language>> : q \in Requests} \cup {ISOName(Resolve(q.spec)) : q \in Requests}
Legacy == <<"legacy">>
NoLink == <<"none">>
File == <<"file">>

ASSUME MediaAssumption ==
  /\ Assembles \subseteq Builds /\ OldISO \in Builds
  /\ Catalogs \in Seq(Builds) /\ Len(Catalogs) > 0
  /\ DriverSize \in Seq(Nat) /\ Len(DriverSize) > 0
  /\ IsFiniteSet(Esds)
  /\ \A q \in Requests : q.cmd \in {"build", "virtio"} \/ (q.cmd = "fetch" /\ q.source \in Lanes)
  /\ \A b \in Builds : Media[b] \subseteq StageFiles /\ "efi" \in Media[b]
  /\ {Size, Concurrency, maxAttempts} \subseteq Nat \ {0}
  /\ \A v \in DOMAIN DriverSize : DriverSize[v] >= minSize
  /\ {minSize, MaxRequests, MaxFaults} \subseteq Nat
  /\ Darwin \in BOOLEAN

VARIABLES
  pc, req, spec, lane, \* where the command is, what it is, what that means, and its source
  ladder, tries, \* the hits that are still to try, and how many builds were tried
  build,         \* the build in hand
  active, todo,  \* the ESDs in transfer, and those whose worker has not begun
  esd,           \* of each build: the blocks of its ESDs, TRUE those that are right
  catalog,       \* what Microsoft's catalog offers
  stage,         \* of each lane: which build each file of the work tree is from
  bootwim, install, \* of each lane: the WIMs in the work tree
  isos,          \* the ISO at each name
  alias,         \* what the legacy name is: nothing, a link, or a file of the user's
  sidecar,       \* of each name: the build whose bootloader is beside the ISO
  vpart, viso, upstream, \* the driver ISO: .part, file, and published version
  served,        \* what the last command printed or went on with
  requests, faults

command == <<req, spec>>
job == <<pc, command, lane, ladder, tries, build, active, todo>>
work == <<stage, bootwim, install>>
shelf == <<isos, alias, sidecar>>
drivers == <<vpart, viso>>
world == <<catalog, upstream>>
asks == <<served, requests>>
vars == <<job, esd, work, shelf, drivers, world, asks, faults>>

MctESD == "install"
BootOnly == req.cmd = "build"
Name == IF lane = "mct" THEN <<"mct", req.spec.language>> ELSE ISOName(spec)
Blocks(f) == esd[build][f]
Verified(c) == Len(c) = Size /\ \A i \in DOMAIN c : c[i]

(* What comes out of an ESD is of its build, if the ESD is what it should be.*)
Origin ==
  IF \A f \in (IF lane = "mct" THEN {MctESD} ELSE Esds) : Verified(Blocks(f))
  THEN build ELSE "corrupt"

Goto(where) == pc' = where
Fault == faults < MaxFaults /\ faults' = faults + 1
Serve(path, content) ==
  served' = [req |-> req, spec |-> spec, path |-> path, iso |-> content, lane |-> lane]

(* What is in a file. The firmware boots an ISO when both the boot record    *)
(* and the catalog that it points to are there.                              *)
NoISO == [is |-> "absent"]
NoWim == [is |-> "absent"]
InstallWim(b) == [is |-> "file", of |-> b]
BootWim(pe, setup) == [is |-> "file", pe |-> pe, setup |-> setup, reused |-> FALSE]
WholeISO(b) ==
  [is |-> "file", tree |-> [f \in StageFiles |-> b], bootwim |-> BootWim(b, [f \in SetupFiles |-> b]),
   install |-> InstallWim(b), sectors |-> {"files", "image", "catalog", "record"}]
RequireEFIBootable(iso) == iso.is = "file" /\ {"record", "catalog"} \subseteq iso.sectors
At(path) == IF path = Legacy /\ alias \in Names THEN isos[alias] ELSE isos[path]

NoJob == [cmd |-> "none", source |-> "", explicit |-> FALSE, noCache |-> FALSE,
          reuse |-> FALSE, spec |-> Spec0]

Init ==
  /\ pc = "idle" /\ req = NoJob /\ spec = DefaultSpec /\ lane = "mct"
  /\ ladder = {} /\ tries = 0 /\ build = None /\ active = {} /\ todo = {}
  /\ esd = [b \in Builds |-> [f \in Esds \cup {MctESD} |-> <<>>]]
  /\ catalog = 1 /\ upstream = 1
  /\ stage = [l \in Lanes |-> [f \in StageFiles |-> None]]
  /\ bootwim = [l \in Lanes |-> NoWim] /\ install = [l \in Lanes |-> NoWim]
  /\ alias \in {NoLink, File}
  /\ isos = [n \in Names \cup {Legacy} |->
       IF n = Legacy /\ alias = File THEN WholeISO(OldISO) ELSE NoISO]
  /\ sidecar = [n \in Names |-> None]
  /\ vpart = <<>> /\ viso = <<>>
  /\ served = [is |-> "nothing"] /\ requests = 0 /\ faults = 0

(***************************************************************************)
(* Commands.                                                                 *)
(***************************************************************************)

(* A spec that is refused is refused before anything is fetched; a pin is    *)
(* taken from the UUP dump, which fetch refuses only of an explicit source.  *)
fetchSource(q) ==
  IF q.source = "mct" /\ q.spec.build # NoPin
  THEN IF q.explicit THEN "refuse" ELSE "uup"
  ELSE q.source
buildSource(q) ==
  IF ~Resolve(q.spec).ok THEN "refuse" ELSE IF Resolve(q.spec).pinned THEN "uup" ELSE "mct"
Source(q) ==
  CASE q.cmd = "fetch" -> fetchSource(q)
    [] q.cmd = "build" -> buildSource(q)
    [] q.cmd = "virtio" -> "virtio"
Look == [mct |-> "mctLook", uup |-> "uupLook", virtio |-> "virtioLook", refuse |-> "idle"]

(* With --no-cache, a build removes the ISOs, the links among them, and the  *)
(* trees of both lanes; what is beside the ISOs stays.                       *)
clearCache ==
  /\ esd' = [b \in Builds |-> [f \in Esds \cup {MctESD} |-> <<>>]]
  /\ stage' = [l \in Lanes |-> [f \in StageFiles |-> None]]
  /\ bootwim' = [l \in Lanes |-> NoWim] /\ install' = [l \in Lanes |-> NoWim]
  /\ isos' = [n \in DOMAIN isos |-> NoISO]
  /\ alias' = NoLink
  /\ viso' = <<>>

Request(q) ==
  /\ pc = "idle" /\ requests < MaxRequests
  /\ requests' = requests + 1
  /\ req' = q /\ spec' = Resolve(q.spec)
  /\ lane' = IF Source(q) \in Lanes THEN Source(q) ELSE "mct"
  /\ Goto(Look[Source(q)])
  /\ served' = [is |-> "nothing"]
  /\ IF q.noCache THEN clearCache
     ELSE UNCHANGED <<esd, work, isos, alias, viso>>
  /\ UNCHANGED <<ladder, tries, build, active, todo, sidecar, vpart, world, faults>>

(* A build goes on to the driver ISO when it has its Windows ISO, and takes  *)
(* whatever file is there.                                                   *)
Got(path, content) ==
  /\ Goto(IF req.cmd = "build" THEN "virtioEnsure" ELSE "idle")
  /\ Serve(path, content)

\* Mutant of Failed: the first build that fails ends the command.
FailedAtOnce ==
  /\ IF lane = "mct" /\ req.cmd = "build" THEN lane' = "uup" /\ Goto("uupLook")
     ELSE lane' = lane /\ Goto("idle")
  /\ build' = None /\ active' = {} /\ todo' = {}

(* Where a failure leads: a build falls back from the catalog to the UUP     *)
(* dump, which tries its next build; otherwise the command fails.            *)
Failed ==
  /\ CASE lane = "mct" /\ req.cmd = "build" -> lane' = "uup" /\ Goto("uupLook")
       [] lane = "uup" /\ ladder # {} -> lane' = lane /\ Goto("uupPick")
       [] OTHER -> lane' = lane /\ Goto("idle")
  /\ build' = None /\ active' = {} /\ todo' = {}

(***************************************************************************)
(* Microsoft's catalog.                                                      *)
(***************************************************************************)

mctLook ==
  /\ pc = "mctLook"
  /\ IF RequireEFIBootable(isos[Name])
     THEN Got(Name, isos[Name]) /\ UNCHANGED isos
     ELSE Goto("mctFind") /\ isos' = [isos EXCEPT ![Name] = NoISO] /\ UNCHANGED served
  /\ UNCHANGED <<command, lane, ladder, tries, build, active, todo, esd, work, alias, sidecar,
                 drivers, world, requests, faults>>

(* The edition is only preferred: any ARM64 entry of the language will do.   *)
mctFind ==
  /\ pc = "mctFind"
  /\ build' = Catalogs[catalog]
  /\ Goto("mctOpen")
  /\ UNCHANGED <<command, lane, ladder, tries, active, todo, esd, work, shelf, drivers, world,
                 asks, faults>>

(* The ESD is written at its name from the start, and is verified whenever   *)
(* it is found there.                                                        *)
mctOpen ==
  /\ pc = "mctOpen"
  /\ IF Verified(Blocks(MctESD))
     THEN Goto("mctExtract") /\ UNCHANGED esd
     ELSE Goto("mctLoad") /\ esd' = [esd EXCEPT ![build][MctESD] = <<>>]
  /\ UNCHANGED <<command, lane, ladder, tries, build, active, todo, work, shelf, drivers, world,
                 asks, faults>>

Receive(f) ==
  /\ Len(Blocks(f)) < Size
  /\ \E right \in BOOLEAN :
       /\ esd' = [esd EXCEPT ![build][f] = Append(@, right)]
       /\ IF right THEN UNCHANGED faults ELSE Fault
mctReceive ==
  /\ pc = "mctLoad" /\ Receive(MctESD)
  /\ UNCHANGED <<job, work, shelf, drivers, world, asks>>

mctReceived ==
  /\ pc = "mctLoad" /\ Len(Blocks(MctESD)) = Size
  /\ IF Verified(Blocks(MctESD))
     THEN Goto("mctExtract") /\ UNCHANGED <<esd, lane, build, active, todo>>
     ELSE Failed /\ esd' = [esd EXCEPT ![build][MctESD] = <<>>]
  /\ UNCHANGED <<command, ladder, tries, work, shelf, drivers, world, asks, faults>>

(* The images of the ESD: boot files, WinPE, Setup, and the editions.        *)
mctBootwim ==
  /\ pc = "mctBootwim"
  /\ bootwim' = [bootwim EXCEPT !["mct"] =
       BootWim(Origin, [f \in SetupFiles |-> Origin])]
  /\ Goto("mctInstall")
  /\ UNCHANGED <<command, lane, ladder, tries, build, active, todo, esd, stage, install, shelf,
                 drivers, world, asks, faults>>

mctInstall ==
  /\ pc = "mctInstall"
  /\ install' = [install EXCEPT !["mct"] = InstallWim(Origin)]
  /\ Goto("sidecar")
  /\ UNCHANGED <<command, lane, ladder, tries, build, active, todo, esd, stage, bootwim, shelf,
                 drivers, world, asks, faults>>

(***************************************************************************)
(* UUP dump.                                                                 *)
(***************************************************************************)

\* Mutant of cachedPaths: the legacy name counts for every specification.
cachedPathsAlways(r) == <<ISOName(r), Legacy>>

(* The legacy name counts for the default spec only.                         *)
cachedPaths(r) == <<ISOName(r)>> \o (IF IsDefault(r) THEN <<Legacy>> ELSE <<>>)

(* An ISO that does not boot is removed; of a link, the link. A link whose   *)
(* ISO is gone is not seen.                                                  *)
Discard(paths) ==
  /\ isos' = [n \in DOMAIN isos |-> IF n \in paths THEN NoISO ELSE isos[n]]
  /\ alias' = IF Legacy \in paths /\ alias \notin paths /\ At(Legacy).is = "file"
              THEN NoLink ELSE alias

uupLook ==
  /\ pc = "uupLook"
  /\ LET paths == cachedPaths(spec)
         good == {i \in DOMAIN paths : RequireEFIBootable(At(paths[i]))}
     IN  CASE ~spec.ok -> Goto("idle") /\ UNCHANGED <<served, isos, alias>>
           [] spec.ok /\ 1 \in good ->
                Got(paths[1], At(paths[1])) /\ UNCHANGED <<isos, alias>>
           [] spec.ok /\ 1 \notin good /\ good # {} ->
                Got(Legacy, At(Legacy)) /\ Discard({paths[1]})
           [] OTHER -> Goto("uupFind") /\ Discard({paths[i] : i \in DOMAIN paths}) /\ UNCHANGED served
  /\ UNCHANGED <<command, lane, ladder, tries, build, active, todo, esd, work, sidecar, drivers,
                 world, requests, faults>>

(* A search after the first may fail unnoticed.                              *)
uupFind ==
  /\ pc = "uupFind"
  /\ LET queries == FindQueries(spec)
         all == {queries[i] : i \in DOMAIN queries} IN
     \E answered \in {S \in SUBSET all : queries[1] \in S} :
       /\ IF answered = all THEN UNCHANGED faults ELSE Fault
       /\ ladder' = Kept(spec, answered)
  /\ tries' = 0
  /\ Goto("uupPick")
  /\ UNCHANGED <<command, lane, build, active, todo, esd, work, shelf, drivers, world, asks>>

uupPick ==
  /\ pc = "uupPick"
  /\ IF ladder = {} \/ tries >= maxAttempts
     THEN /\ Goto("idle") /\ ladder' = {}
          /\ UNCHANGED <<tries, build, todo>>
     ELSE /\ Goto("uupLoad")
          /\ \E h \in ladder :
               /\ \A g \in ladder : ~Earlier(g, h)
               /\ build' = h[2] /\ ladder' = ladder \ {h}
          /\ tries' = tries + 1
          /\ todo' = Esds
  /\ active' = {}
  /\ UNCHANGED <<command, lane, esd, work, shelf, drivers, world, asks, faults>>

\* Mutant of downloadOne: the semaphore is gone, and files that are there are downloaded again.
downloadOneUnbounded(f) ==
  /\ pc = "uupLoad" /\ f \in todo
  /\ todo' = todo \ {f}
  /\ active' = active \cup {f}
  /\ UNCHANGED <<pc, command, lane, ladder, tries, build, esd, work, shelf, drivers, world, asks,
                 faults>>

(* A worker leaves an ESD alone that is verified, resumes one that is short  *)
(* if the server will, and starts one again that is too long to resume.      *)
downloadOne(f) ==
  /\ pc = "uupLoad" /\ f \in todo /\ Cardinality(active) < Concurrency
  /\ todo' = todo \ {f}
  /\ active' = IF Verified(Blocks(f)) THEN active ELSE active \cup {f}
  /\ \E again \in {<<>>} \cup {c \in {Blocks(f)} : Verified(c) \/ Len(c) < Size} :
       /\ Verified(Blocks(f)) => again = Blocks(f)
       /\ esd' = [esd EXCEPT ![build][f] = again]
  /\ UNCHANGED <<pc, command, lane, ladder, tries, build, work, shelf, drivers, world, asks, faults>>

uupReceive(f) ==
  /\ pc = "uupLoad" /\ f \in active /\ Receive(f)
  /\ UNCHANGED <<job, work, shelf, drivers, world, asks>>

(* The transfer ends, or breaks off; a file that is wrong is removed.        *)
uupReceived(f) ==
  /\ pc = "uupLoad" /\ f \in active
  /\ IF Len(Blocks(f)) = Size THEN UNCHANGED faults ELSE Fault
  /\ esd' = IF Len(Blocks(f)) = Size /\ ~Verified(Blocks(f))
            THEN [esd EXCEPT ![build][f] = <<>>] ELSE esd
  /\ active' = active \ {f}
  /\ UNCHANGED <<pc, command, lane, ladder, tries, build, todo, work, shelf, drivers, world, asks>>

(* When every worker is done, one that failed fails the build.               *)
DownloadFiles ==
  /\ pc = "uupLoad" /\ todo = {} /\ active = {}
  /\ IF \A f \in Esds : Verified(Blocks(f))
     THEN Goto("uupClear") /\ UNCHANGED <<lane, build, active, todo>>
     ELSE Failed
  /\ UNCHANGED <<command, ladder, tries, esd, work, shelf, drivers, world, asks, faults>>

(* Only what this run will write anew is cleared from the work tree.         *)
canReuseBootWim == req.reuse /\ bootwim["uup"].is = "file"
\* Mutant of clearGeneratedArtifacts: a boot-only run leaves the install.wim of an earlier one.
clearGeneratedArtifactsOnComplete ==
  /\ pc = "uupClear"
  /\ install' = IF BootOnly THEN install ELSE [install EXCEPT !["uup"] = NoWim]
  /\ bootwim' = [bootwim EXCEPT !["uup"] =
       IF canReuseBootWim THEN [@ EXCEPT !.reused = TRUE] ELSE NoWim]
  /\ Goto("uupExtract")
  /\ UNCHANGED <<command, lane, ladder, tries, build, active, todo, esd, stage, shelf, drivers,
                 world, asks, faults>>

clearGeneratedArtifacts ==
  /\ pc = "uupClear"
  /\ install' = [install EXCEPT !["uup"] = NoWim]
  /\ bootwim' = [bootwim EXCEPT !["uup"] =
       IF canReuseBootWim THEN [@ EXCEPT !.reused = TRUE] ELSE NoWim]
  /\ Goto("uupExtract")
  /\ UNCHANGED <<command, lane, ladder, tries, build, active, todo, esd, stage, shelf, drivers,
                 world, asks, faults>>

(* Extraction, in both lanes, goes over what the tree holds; interrupted, it *)
(* leaves a part of the files.                                               *)
Extracted(files) ==
  [stage EXCEPT ![lane] = [f \in StageFiles |-> IF f \in files THEN Origin ELSE @[f]]]
AfterExtract ==
  IF lane = "mct" THEN "mctBootwim" ELSE IF bootwim["uup"].is = "file" THEN "uupInstall" ELSE "uupBootwim"
ExtractImage ==
  /\ pc \in {"mctExtract", "uupExtract"}
  /\ stage' = Extracted(Media[build])
  /\ Goto(AfterExtract)
  /\ UNCHANGED <<command, lane, ladder, tries, build, active, todo, esd, bootwim, install, shelf,
                 drivers, world, asks, faults>>

(* Two images of WinPE; the second becomes Setup when the files that are     *)
(* staged are put into it, once the WIM is on disk.                          *)
buildBootWim ==
  /\ pc = "uupBootwim"
  /\ bootwim' = [bootwim EXCEPT !["uup"] =
       BootWim(Origin, [f \in SetupFiles |-> None])]
  /\ Goto("uupInject")
  /\ UNCHANGED <<command, lane, ladder, tries, build, active, todo, esd, stage, install, shelf,
                 drivers, world, asks, faults>>

injectSetupIntoBootWim ==
  /\ pc = "uupInject"
  /\ bootwim' = [bootwim EXCEPT !["uup"].setup = [f \in SetupFiles |-> stage["uup"][f]]]
  /\ Goto("uupInstall")
  /\ UNCHANGED <<command, lane, ladder, tries, build, active, todo, esd, stage, install, shelf,
                 drivers, world, asks, faults>>

(* For a build command there is no install.wim; for others, it fails when    *)
(* the ESDs lack files of the images.                                        *)
uupInstall ==
  /\ pc = "uupInstall"
  /\ CASE BootOnly -> Goto("sidecar") /\ UNCHANGED <<install, lane, build, active, todo>>
       [] ~BootOnly /\ build \in Assembles ->
            /\ install' = [install EXCEPT !["uup"] = InstallWim(Origin)]
            /\ Goto("sidecar") /\ UNCHANGED <<lane, build, active, todo>>
       [] OTHER -> Failed /\ UNCHANGED install
  /\ UNCHANGED <<command, ladder, tries, esd, stage, bootwim, shelf, drivers, world, asks, faults>>

(***************************************************************************)
(* Mastering, in both lanes.                                                 *)
(***************************************************************************)

(* The bootloader is saved beside the ISO; a failure to is not an error and  *)
(* leaves a torn file.                                                       *)
writeBootloaderSidecar ==
  /\ pc = "sidecar"
  /\ \/ sidecar' = [sidecar EXCEPT ![Name] = stage[lane]["efi"]] /\ UNCHANGED faults
     \/ sidecar' = [sidecar EXCEPT ![Name] = "torn"] /\ Fault
  /\ Goto("master")
  /\ UNCHANGED <<command, lane, ladder, tries, build, active, todo, esd, work, isos, alias,
                 drivers, world, asks>>

Image(sectors) ==
  [is |-> "file", tree |-> stage[lane], bootwim |-> bootwim[lane], install |-> install[lane],
   sectors |-> sectors]

(* hdiutil makes an image that does not boot; genisoimage one that does      *)
(* before all of its files are written.                                      *)
createWindowsISO ==
  /\ pc = "master"
  /\ isos' = [isos EXCEPT ![Name] = Image(IF Darwin THEN {} ELSE {"catalog", "record"})]
  /\ Goto("files")
  /\ UNCHANGED <<command, lane, ladder, tries, build, active, todo, esd, work, alias, sidecar,
                 drivers, world, asks, faults>>

(* The boot image is appended, the catalog is written, and then the record   *)
(* without which neither is found.                                           *)
Sector == [files |-> "files", image |-> "image", catalog |-> "catalog", record |-> "record"]
\* Mutant of NextSector: the boot record is written before the image that it leads to.
NextSectorRecordFirst ==
  [files |-> "catalog", catalog |-> "record", record |-> "image", image |-> "mastered"]

NextSector == [files |-> IF Darwin THEN "image" ELSE "mastered",
               image |-> "catalog", catalog |-> "record", record |-> "mastered"]
WriteSectors ==
  /\ pc \in DOMAIN Sector
  /\ isos' = [isos EXCEPT ![Name].sectors =
       @ \cup {Sector[pc]} \cup (IF Darwin THEN {} ELSE {"image"})]
  /\ Goto(NextSector[pc])
  /\ UNCHANGED <<command, lane, ladder, tries, build, active, todo, esd, work, alias, sidecar,
                 drivers, world, asks, faults>>

(* The UUP lane makes the legacy name a link to the ISO, unless the user has *)
(* a file of that name.                                                      *)
refreshLegacyAlias == IF alias = File THEN alias ELSE Name
Mastered ==
  /\ pc = "mastered"
  /\ alias' = IF lane = "uup" THEN refreshLegacyAlias ELSE alias
  /\ ladder' = {}
  /\ Got(Name, isos[Name])
  /\ UNCHANGED <<command, lane, tries, build, active, todo, esd, work, isos, sidecar, drivers,
                 world, requests, faults>>

(***************************************************************************)
(* The driver ISO.                                                           *)
(***************************************************************************)

(* A file that is long enough and has the driver is believed.                *)
Validate(c) == Len(c) >= minSize

virtioEnsure ==
  /\ pc = "virtioEnsure"
  /\ Goto(IF viso # <<>> THEN "idle" ELSE "virtioLook")
  /\ UNCHANGED <<command, lane, ladder, tries, build, active, todo, esd, work, shelf, drivers,
                 world, asks, faults>>

virtioLook ==
  /\ pc = "virtioLook"
  /\ IF Validate(viso)
     THEN Goto("idle") /\ UNCHANGED viso
     ELSE Goto("virtioOpen") /\ viso' = <<>>
  /\ UNCHANGED <<command, lane, ladder, tries, build, active, todo, esd, work, shelf, vpart,
                 world, asks, faults>>

(* What is at .part is resumed, whichever version it was of, unless it is    *)
(* too long for the one that is published or the server sends all of it.     *)
virtioOpen ==
  /\ pc = "virtioOpen"
  /\ vpart' \in {<<>>} \cup {c \in {vpart} : Len(c) < DriverSize[upstream]}
  /\ Goto("virtioLoad")
  /\ UNCHANGED <<command, lane, ladder, tries, build, active, todo, esd, work, shelf, viso,
                 world, asks, faults>>

virtioReceive ==
  /\ pc = "virtioLoad" /\ Len(vpart) < DriverSize[upstream]
  /\ vpart' = Append(vpart, upstream)
  /\ UNCHANGED <<job, esd, work, shelf, viso, world, asks, faults>>

virtioRename ==
  /\ pc = "virtioLoad" /\ Len(vpart) = DriverSize[upstream]
  /\ vpart' = <<>>
  /\ viso' = IF Validate(vpart) THEN vpart ELSE viso
  /\ Goto("idle")
  /\ UNCHANGED <<command, lane, ladder, tries, build, active, todo, esd, work, shelf, world,
                 asks, faults>>

(***************************************************************************)
(* What goes wrong, and what changes outside.                                *)
(***************************************************************************)

(* What a step leaves that ends in its middle.                               *)
TornWim == BootWim("torn", [f \in SetupFiles |-> None])
Leavings ==
  /\ stage' \in IF pc \in {"mctExtract", "uupExtract"}
                THEN {Extracted(S) : S \in SUBSET Media[build]} ELSE {stage}
  /\ bootwim' \in {bootwim} \cup
       (IF pc \in {"mctBootwim", "uupBootwim", "uupInject"}
        THEN {[bootwim EXCEPT ![lane] = TornWim]} ELSE {})
  /\ install' \in {install} \cup
       (IF pc = "mctInstall" \/ (pc = "uupInstall" /\ ~BootOnly)
        THEN {[install EXCEPT ![lane] = InstallWim("torn")]} ELSE {})
  /\ isos' \in {isos} \cup
       (IF pc = "master" THEN {[isos EXCEPT ![Name] = i] : i \in {NoISO, Image({})}} ELSE {})

Fallible == {"mctFind", "mctLoad", "mctExtract", "mctBootwim", "mctInstall", "uupFind", "uupExtract",
             "uupBootwim", "uupInject", "uupInstall", "master"} \cup DOMAIN Sector
Fail ==
  /\ pc \in Fallible \/ (pc = "uupLoad" /\ todo = Esds /\ active = {})
  /\ Fault /\ Failed /\ Leavings
  /\ UNCHANGED <<command, ladder, tries, esd, alias, sidecar, drivers, world, asks>>

virtioFail ==
  /\ pc \in {"virtioOpen", "virtioLoad"} /\ Fault
  /\ Goto("idle")
  /\ UNCHANGED <<command, lane, ladder, tries, build, active, todo, esd, work, shelf, drivers,
                 world, asks>>

Crash ==
  /\ pc # "idle" /\ Fault
  /\ Goto("idle") /\ ladder' = {} /\ build' = None /\ active' = {} /\ todo' = {}
  /\ Leavings
  /\ UNCHANGED <<command, lane, tries, esd, alias, sidecar, drivers, world, asks>>

(* What is published matters when it is read, which a command does once.     *)
Publish ==
  /\ pc = "idle"
  /\ \/ catalog < Len(Catalogs) /\ catalog' = catalog + 1 /\ UNCHANGED upstream
     \/ upstream < Len(DriverSize) /\ upstream' = upstream + 1 /\ UNCHANGED catalog
  /\ UNCHANGED <<job, esd, work, shelf, drivers, asks, faults>>

Step ==
  \/ mctLook \/ mctFind \/ mctOpen \/ mctReceive \/ mctReceived \/ mctBootwim \/ mctInstall
  \/ uupLook \/ uupFind \/ uupPick \/ DownloadFiles
  \/ \E f \in Esds : downloadOne(f) \/ uupReceive(f) \/ uupReceived(f)
  \/ clearGeneratedArtifacts \/ ExtractImage \/ buildBootWim \/ injectSetupIntoBootWim \/ uupInstall
  \/ writeBootloaderSidecar \/ createWindowsISO \/ WriteSectors \/ Mastered
  \/ virtioEnsure \/ virtioLook \/ virtioOpen \/ virtioReceive \/ virtioRename

Next ==
  \/ \E q \in Requests : Request(q)
  \/ Step \/ Fail \/ virtioFail \/ Crash \/ Publish

Spec == Init /\ [][Next]_vars

(* A command goes on by itself; only failures are not fair.                  *)
FairSpec == Spec /\ WF_vars(Step)

(***************************************************************************)
(* Properties.                                                               *)
(***************************************************************************)

Origins == Builds \cup {None, "torn", "corrupt"}
WimType == [is : {"file"}, pe : Origins, setup : [SetupFiles -> Origins], reused : BOOLEAN] \cup {NoWim}
InstallType == [is : {"file"}, of : Origins] \cup {NoWim}

(* Every variable has its type, transfers are within their bounds, and an    *)
(* ISO exists at the legacy name only as a file of the user's.               *)
TypeOK ==
  /\ req \in Requests \cup {NoJob} /\ lane \in Lanes
  /\ tries \in 0..maxAttempts /\ build \in Builds \cup {None}
  /\ active \subseteq Esds /\ todo \subseteq Esds /\ active \cap todo = {}
  /\ Cardinality(active) <= Concurrency
  /\ \A b \in Builds, f \in Esds \cup {MctESD} : esd[b][f] \in Seq(BOOLEAN) /\ Len(esd[b][f]) <= Size
  /\ stage \in [Lanes -> [StageFiles -> Origins]]
  /\ bootwim \in [Lanes -> WimType] /\ install \in [Lanes -> InstallType]
  /\ isos[Legacy].is = "file" => alias = File
  /\ alias \in Names \cup {NoLink, File}
  /\ sidecar \in [Names -> Origins]
  /\ catalog \in DOMAIN Catalogs /\ upstream \in DOMAIN DriverSize
  /\ requests \in 0..MaxRequests /\ faults \in 0..MaxFaults

(* What a later command would take from the cache is whole: an ISO that      *)
(* boots has all of its files and its boot image (the record is written      *)
(* last), and the driver ISO ends where a published one does, although a     *)
(* transfer was cut off and resumed (CreateWindowsISO, AddElToritoEFIBoot,   *)
(* virtio.FetchISO).                                                         *)
CachedIsWhole ==
  /\ \A n \in DOMAIN isos : RequireEFIBootable(isos[n]) =>
       {"files", "image", "catalog", "record"} \subseteq isos[n].sectors
  /\ viso # <<>> => Len(viso) = DriverSize[viso[Len(viso)]]

(* An ISO that boots is of one build: its WinPE, the setup files in its      *)
(* boot.wim, its own files and its install.wim, although the work tree       *)
(* holds what earlier builds and interrupted runs left in it; the bootloader  *)
(* beside it is its own, or torn by a write that failed, although it is      *)
(* written before the ISO and survives it. It is not so for the WinPE of an  *)
(* ISO that was made with --reuse-boot-wim, which says so.                   *)
Faithful ==
  \A n \in DOMAIN isos :
    LET iso == isos[n] b == iso.bootwim.pe IN
    RequireEFIBootable(iso) =>
      /\ ~iso.bootwim.reused =>
           /\ b \in Builds
           /\ \A f \in Media[b] : iso.tree[f] = b
           /\ \A f \in Media[b] \cap SetupFiles : iso.bootwim.setup[f] = b
           /\ iso.install \in {NoWim, InstallWim(b)}
      /\ n \in Names => sidecar[n] \in {iso.tree["efi"], "torn"}

(* What the UUP lane serves for a specification that names a release or a    *)
(* build is of that release or build, though many names share the cache and  *)
(* the legacy link points at the last one (spec.go: changing --version or    *)
(* --build can never silently reuse another spec's cached ISO).              *)
PinServed ==
  pc = "idle" /\ "req" \in DOMAIN served /\ served.lane = "uup" =>
    LET r == served.spec IN
    ~IsDefault(r) => MatchesBuild(r, served.iso.tree["efi"])

(* A command that meets no more failures serves an ISO, if there is media    *)
(* for it: whatever earlier ones left in the cache, and although the newest  *)
(* build is not always one that assembles.                                   *)
Obtainable(q) ==
  LET queries == FindQueries(Resolve(q.spec))
      kept == Kept(Resolve(q.spec), {queries[i] : i \in DOMAIN queries})
  IN  /\ Source(q) # "virtio" /\ Resolve(q.spec).ok
      /\ \E h \in kept :
           /\ Cardinality({g \in kept : Earlier(g, h)}) < maxAttempts
           /\ q.cmd = "build" \/ h[2] \in Assembles
Available == lane = "mct" \/ Obtainable(req)
Recovers ==
  (pc \in {"mctLook", "uupLook"} /\ faults = MaxFaults /\ Available) ~> "req" \in DOMAIN served

=============================================================================
