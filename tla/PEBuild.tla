------------------------------ MODULE PEBuild ------------------------------
(* `winkit build` of one destination, again and again: the WinPE volume with *)
(* its WIM (build/pe.go, winpe), the paired data disk, and the manifest by   *)
(* which `winkit start` knows that an image is two disks (build/artifact.go).*)
(* A build may fail or be killed at any step; the user starts and stops a VM *)
(* from what lies there meanwhile.                                           *)
EXTENDS Naturals, FiniteSets

CONSTANTS
  Modes,        \* what is built at this destination: "pe", "pewsl", "full"
  PeExtras,     \* may a PE without WSL ask for a desktop or packages?
  MaxBuilds     \* bound: builds at this destination

ASSUME PEAssumption ==
  /\ Modes \subseteq {"pe", "pewsl", "full"}
  /\ PeExtras \in BOOLEAN
  /\ MaxBuilds \in Nat

VARIABLES
  pc,           \* where the build is, "idle" between two
  n,            \* the number of the current or last build
  cfg,          \* its options
  payload,      \* what was compiled and fetched for the guest
  wim,          \* boot.wim in the working directory
  files,        \* the file map that the volume is made of
  boot,         \* the image at the destination
  data,         \* the data disk beside it
  manifest,     \* the build named by <image>.winkit.json, 0 when it is absent
  consent,      \* the user agreed to this build's overwriting
  vm            \* the VM of this image: "none", "single" or "paired"

vars == <<pc, n, cfg, payload, wim, files, boot, data, manifest, consent, vm>>
work == <<payload, wim, files>>
media == <<boot, data, manifest>>

Stages == {"check", "stop", "media", "manifest", "compile", "base", "install", "wsl1",
           "dwm", "netfx", "wow64", "pagefile", "engine", "dwmkeys", "snapshot", "distro",
           "fat", "fatcopy", "data", "datacopy", "bootstrap", "artifact", "full", "installing"}

Absent == [by |-> 0]

(* What buildopts.Validate lets through, as far as a PE build reads it.      *)
Options == { o \in [mode : Modes, dwm : BOOLEAN, pkgs : BOOLEAN, offline : BOOLEAN,
                    bootstrap : BOOLEAN] :
               /\ o.mode # "pewsl" => ~o.offline /\ ~o.bootstrap
               /\ o.mode = "full" \/ (o.mode = "pe" /\ ~PeExtras) => ~o.dwm /\ ~o.pkgs }

-----------------------------------------------------------------------------
(* The WIM: the files in its second image and the keys in its hives. A key   *)
(* is a pair of its hive and its name.                                       *)

System(names) == {"SYSTEM"} \X names
Software(names) == {"SOFTWARE"} \X names
HiveOf(key) == key[1]

InboxDrivers == System({"bfs", "bindflt", "afunix"})
InboxFileSystems == System({"wcifs", "p9rdr", "p9np", "order", "lxss"})
ServiceKey == System({"wslservice"})
ComKeys == Software({"interface", "proxy", "appid", "session", "notification", "msi"})
DwmDrivers == System({"dwm", "dxgkrnl", "dxgmms"})
DisplayClasses == System({"display", "monitor"})
Composition == Software({"composition"})

Stock == [files |-> {}, keys |-> {}]
PatchSet(fs, ks) == [files |-> fs, keys |-> ks]

PagefilePatchSet == PatchSet({}, System({"pagefile"}))
WSL1ServicePatchSet == PatchSet({}, InboxDrivers \cup InboxFileSystems \cup ServiceKey \cup ComKeys)
WSL1EnginePatchSet == PatchSet({"engine"}, {})
WSL1PEPatchSet ==
  PatchSet(WSL1EnginePatchSet.files \cup {"helpers"}, WSL1ServicePatchSet.keys)
DWMServicePatchSet == PatchSet({}, DwmDrivers \cup DisplayClasses \cup Composition)

\* Mutant of groupRegistryWrites: each key is a group, and extracts the hive again.
groupRegistryWritesEach(ps) == { {k} : k \in ps.keys }

(* The writes of a patch set, one group for each hive they touch.            *)
groupRegistryWrites(ps) == { {k \in ps.keys : HiveOf(k) = h} : h \in {HiveOf(k) : k \in ps.keys} }

(* A hive as a group stages it: extracted from the WIM as it was opened, so  *)
(* without what another group has staged, and with the group's own writes.   *)
writeRegistryHive(w, group) ==
  {k \in w.keys : \E g \in group : HiveOf(g) = HiveOf(k)} \cup group

(* After the overwrite the WIM has one of the copies staged of each hive.    *)
PatchWIM(w, ps) ==
  LET groups == groupRegistryWrites(ps)
      staged(h) == {g \in groups : \E k \in g : HiveOf(k) = h}
      hive(h) == IF staged(h) = {} THEN {k \in w.keys : HiveOf(k) = h}
                 ELSE writeRegistryHive(w, CHOOSE g \in staged(h) : TRUE)
  IN  [files |-> w.files \cup ps.files, keys |-> hive("SYSTEM") \cup hive("SOFTWARE")]

UpdateImageAddTree(w, tree) == [w EXCEPT !.files = @ \cup tree]

stageCodeIntegrityCatalogs == {"catalogs", "runtime catalogs"}
stageDWMCodeIntegrityCatalogs == {"dwm catalogs"}
TransferWSL1Files(w) == UpdateImageAddTree(w, {"wsl1"} \cup stageCodeIntegrityCatalogs)
TransferDWMFiles(w) == UpdateImageAddTree(w, {"dwm"} \cup stageDWMCodeIntegrityCatalogs)
TransferNetFxFiles(w) == UpdateImageAddTree(w, {"netfx"})
TransferWoW64Files(w) == UpdateImageAddTree(w, {"wow64"})

InjectWinPEPayload(w, tree) == PatchWIM(w, PatchSet(tree \cup {"winpeshl"}, {}))

(* init.json: what winkit-service starts in the guest, and in which of its   *)
(* phases: the packages are only read by the bootstrap.                      *)
GenerateInitManifest(o, tree) ==
  [bootstrap |-> o.mode = "pewsl",
   services |-> IF o.mode = "pewsl" THEN System({"bfs", "bindflt", "afunix", "wcifs", "p9rdr"}) ELSE {},
   shell |-> "implorer" \in tree,
   packages |-> o.pkgs]

(* The volume holds the WIM as it was read into the map, not the file.       *)
BootVolumeFiles(w, init) == [wim |-> w, init |-> init, distro |-> FALSE]
NoFiles == BootVolumeFiles(Stock, GenerateInitManifest([mode |-> "pe", pkgs |-> FALSE], {}))

(* The parts that the payload is made of, and the stock WIM.                 *)
ExtractStage == Stock
LoadWinPEDrivers == {"drivers"}
CrossCompile == {"gosshd", "service"}
FetchPwshFiles == {"pwsh"}
FetchBrowserFiles == {"browser"}

(* What a data disk holds when it is made.                                   *)
CreateDisk == "blank"
OfflineImportWSL1 == "rootfs"

(* What an option set must find in the image it gets.                        *)
WantedFiles(o) ==
  {"gosshd", "service", "drivers", "pwsh", "winpeshl"}
    \cup (IF o.dwm THEN {"browser", "dwm", "dwm catalogs"} ELSE {})
    \cup (IF o.pkgs THEN {"netfx", "wow64"} ELSE {})
    \cup (IF o.mode = "pewsl" THEN {"wsl1", "catalogs", "runtime catalogs", "engine", "helpers"}
          ELSE {})
WantedKeys(o) ==
  (IF o.mode = "pewsl" THEN PagefilePatchSet.keys \cup WSL1ServicePatchSet.keys ELSE {})
    \cup (IF o.mode = "pewsl" /\ o.dwm THEN DWMServicePatchSet.keys ELSE {})

-----------------------------------------------------------------------------
(* The disks.                                                                *)

Image(whole) == [by |-> n, whole |-> whole, kind |-> cfg.mode, opts |-> cfg,
                 wim |-> files.wim, init |-> files.init, distro |-> files.distro]
DataDisk(whole, state) == [by |-> n, whole |-> whole, state |-> state]

Exists(disk) == disk # Absent
IsImageLocked == vm # "none"          \* QEMU holds the boot volume's lock
DataLocked == vm = "paired"

Parts == {"gosshd", "service", "drivers", "pwsh", "implorer", "browser", "winpeshl", "wsl1",
          "catalogs", "runtime catalogs", "dwm", "dwm catalogs", "netfx", "wow64", "engine",
          "helpers"}
Keys == PagefilePatchSet.keys \cup WSL1ServicePatchSet.keys \cup DWMServicePatchSet.keys
WimType == [files : SUBSET Parts, keys : SUBSET Keys]
InitType == [bootstrap : BOOLEAN, services : SUBSET Keys, shell : BOOLEAN, packages : BOOLEAN]
ImageType == [by : Nat, whole : BOOLEAN, kind : Modes, opts : Options, wim : WimType,
              init : InitType, distro : BOOLEAN]
DataType == [by : Nat, whole : BOOLEAN, state : {"blank", "rootfs", "used"}]

(* Every variable has its type, and no disk is of a build yet to come.       *)
TypeOK ==
  /\ pc \in Stages \cup {"idle"} /\ n \in 0..MaxBuilds /\ (pc # "idle" => n # 0)
  /\ cfg \in Options /\ payload \subseteq Parts /\ wim \in WimType
  /\ files \in [wim : WimType, init : InitType, distro : BOOLEAN]
  /\ boot \in ImageType \cup {Absent} /\ boot.by \in 0..n
  /\ data \in DataType \cup {Absent} /\ data.by \in 0..n
  /\ manifest \in 0..n
  /\ consent \in BOOLEAN /\ vm \in {"none", "single", "paired"}

Init ==
  /\ pc = "idle" /\ n = 0 /\ cfg \in Options
  /\ payload = {} /\ wim = Stock /\ files = NoFiles
  /\ boot = Absent /\ data = Absent /\ manifest = 0
  /\ consent = FALSE /\ vm = "none"

At(p) == pc = p
Goto(p) == pc' = p /\ UNCHANGED <<n, cfg, consent, vm>>
Work(p) == Goto(p) /\ UNCHANGED media

-----------------------------------------------------------------------------
(* The command looks at the destination once, before the long work.          *)

BuildStarts ==
  /\ At("idle") /\ n < MaxBuilds
  /\ pc' = "check" /\ n' = n + 1 /\ cfg' \in Options
  /\ payload' = {} /\ wim' = Stock /\ files' = NoFiles /\ consent' = FALSE
  /\ UNCHANGED <<media, vm>>

Proceed(agreed) ==
  /\ pc' = "media" /\ consent' = agreed
  /\ UNCHANGED <<n, cfg, work, media>>

CheckAbsent == At("check") /\ ~Exists(boot) /\ Proceed(FALSE) /\ UNCHANGED vm
\* Mutant of CheckConfirmed: nobody is asked about an image that exists.
CheckForcedUnasked == At("check") /\ Exists(boot) /\ Proceed(FALSE) /\ UNCHANGED vm

(* Confirmed at the prompt, or --force on an image that nothing holds.       *)
CheckConfirmed == At("check") /\ Exists(boot) /\ ~IsImageLocked /\ Proceed(TRUE) /\ UNCHANGED vm
CheckForced == At("check") /\ Exists(boot) /\ IsImageLocked /\ Work("stop") /\ UNCHANGED work

(* stopVMForImage: it interrupts, then kills, then waits for the lock.       *)
StopVM == At("stop") /\ Proceed(TRUE) /\ vm' = "none"

FetchMedia == At("media") /\ Work(IF cfg.mode = "full" THEN "full" ELSE "manifest") /\ UNCHANGED work

-----------------------------------------------------------------------------
(* build.PE, step by step.                                                   *)

\* Mutant of RemoveManifest: only a single-disk build removes the manifest.
RemoveManifestOnSingle ==
  /\ At("manifest") /\ manifest' = IF cfg.mode = "pe" THEN 0 ELSE manifest
  /\ Goto("compile") /\ UNCHANGED <<work, boot, data>>

RemoveManifest ==
  /\ At("manifest") /\ manifest' = 0
  /\ Goto("compile") /\ UNCHANGED <<work, boot, data>>

(* The desktop shell is the one part that may be missing.                    *)
Compile ==
  /\ At("compile")
  /\ \E shell \in IF cfg.dwm THEN {{}, {"implorer"}} ELSE {{}} :
       payload' = CrossCompile \cup FetchPwshFiles \cup LoadWinPEDrivers \cup shell
                    \cup (IF cfg.dwm THEN FetchBrowserFiles ELSE {})
  /\ Work("base") /\ UNCHANGED <<wim, files>>

BuildBaseImageFiles ==
  /\ At("base")
  /\ wim' = InjectWinPEPayload(ExtractStage, payload)
  /\ files' = BootVolumeFiles(wim', GenerateInitManifest(cfg, payload))
  /\ Work(IF cfg.mode = "pe" THEN "fat" ELSE "install") /\ UNCHANGED payload

ExtractInstallWim == At("install") /\ Work("wsl1") /\ UNCHANGED work

(* A step on boot.wim in the working directory.                              *)
Patch(p, w, q) == At(p) /\ wim' = w /\ Work(q) /\ UNCHANGED <<payload, files>>

TransferWSL1 == Patch("wsl1", TransferWSL1Files(wim), "dwm")
TransferDWM == Patch("dwm", IF cfg.dwm THEN TransferDWMFiles(wim) ELSE wim, "netfx")
TransferNetFx == Patch("netfx", IF cfg.pkgs THEN TransferNetFxFiles(wim) ELSE wim, "wow64")
TransferWoW64 == Patch("wow64", IF cfg.pkgs THEN TransferWoW64Files(wim) ELSE wim, "pagefile")
PatchPagefile == Patch("pagefile", PatchWIM(wim, PagefilePatchSet), "engine")
PatchEngine == Patch("engine", PatchWIM(wim, WSL1PEPatchSet), "dwmkeys")
PatchDWM == Patch("dwmkeys", IF cfg.dwm THEN PatchWIM(wim, DWMServicePatchSet) ELSE wim, "snapshot")

\* Mutant of ReadPatchedWim: the patched WIM is not read back into the map.
ReadPatchedWimNot ==
  /\ At("snapshot") /\ files' = files
  /\ Work("distro") /\ UNCHANGED <<payload, wim>>

ReadPatchedWim ==
  /\ At("snapshot") /\ files' = [files EXCEPT !.wim = wim]
  /\ Work("distro") /\ UNCHANGED <<payload, wim>>

PutDistro ==
  /\ At("distro") /\ files' = [files EXCEPT !.distro = TRUE]
  /\ Work("fat") /\ UNCHANGED <<payload, wim>>

\* Mutant of CreateFATQcow2: the conversion writes to an image a VM holds.
CreateFATQcow2Unlocked ==
  /\ At("fat") /\ boot' = Image(FALSE)
  /\ Goto("fatcopy") /\ UNCHANGED <<work, data, manifest>>

(* CreateFATQcow2 converts in place; qemu-img refuses a locked target.       *)
CreateFATQcow2 ==
  /\ At("fat") /\ ~IsImageLocked /\ boot' = Image(FALSE)
  /\ Goto("fatcopy") /\ UNCHANGED <<work, data, manifest>>

FATConverted ==
  /\ At("fatcopy") /\ boot' = Image(TRUE)
  /\ Goto(IF cfg.mode = "pe" THEN "idle" ELSE "data") /\ UNCHANGED <<work, data, manifest>>

(* The data disk: an empty one, or one with the distro unpacked on it.       *)
CreateData ==
  /\ At("data") /\ ~DataLocked /\ data' = DataDisk(FALSE, CreateDisk)
  /\ Goto("datacopy") /\ UNCHANGED <<work, boot, manifest>>

DataCreated ==
  /\ At("datacopy") /\ data' = DataDisk(TRUE, IF cfg.offline THEN OfflineImportWSL1 ELSE CreateDisk)
  /\ Goto(IF cfg.bootstrap THEN "bootstrap" ELSE "artifact") /\ UNCHANGED <<work, boot, manifest>>

(* BootstrapPE boots the two disks and waits for the guest's last event.     *)
Bootstrapped ==
  /\ At("bootstrap") /\ ~IsImageLocked /\ data' = [data EXCEPT !.state = "used"]
  /\ Goto("artifact") /\ UNCHANGED <<work, boot, manifest>>

(* The manifest appears whole, by a rename, after everything it names.       *)
WriteArtifact ==
  /\ At("artifact") /\ manifest' = n
  /\ Goto("idle") /\ UNCHANGED <<work, boot, data>>

(* Any step may fail, and the process may be killed at any step. Its working *)
(* directory is never used again.                                            *)
Fail == pc # "idle" /\ Work("idle") /\ UNCHANGED work

-----------------------------------------------------------------------------
(* A full build creates the disk at the destination and a VM installs on it. *)

CreateTargetDisk ==
  /\ At("full") /\ ~IsImageLocked /\ boot' = Image(FALSE)
  /\ Goto("installing") /\ UNCHANGED <<work, data, manifest>>

Installed ==
  /\ At("installing") /\ boot' = Image(TRUE)
  /\ Goto("idle") /\ UNCHANGED <<work, data, manifest>>

-----------------------------------------------------------------------------
(* The user. A start reads the manifest and launches QEMU, which takes the   *)
(* lock of each disk it is given.                                            *)

BootBusy == pc \in {"fatcopy", "installing", "bootstrap"}
DataBusy == pc \in {"datacopy", "bootstrap"}

StartSingle ==
  /\ vm = "none" /\ Exists(boot) /\ manifest = 0 /\ ~BootBusy
  /\ vm' = "single" /\ UNCHANGED <<pc, n, cfg, work, media, consent>>

StartPaired ==
  /\ vm = "none" /\ Exists(boot) /\ Exists(data) /\ manifest # 0 /\ ~BootBusy /\ ~DataBusy
  /\ vm' = "paired" /\ UNCHANGED <<pc, n, cfg, work, media, consent>>

(* The guest bootstraps a disk it finds blank, and the user's files land.    *)
GuestUses ==
  /\ vm = "paired" /\ data.state # "used"
  /\ data' = [data EXCEPT !.state = "used"]
  /\ UNCHANGED <<pc, n, cfg, work, boot, manifest, consent, vm>>

VmExits == vm # "none" /\ vm' = "none" /\ UNCHANGED <<pc, n, cfg, work, media, consent>>

BuildStep ==
  \/ CheckAbsent \/ CheckConfirmed \/ CheckForced \/ StopVM \/ FetchMedia
  \/ RemoveManifest \/ Compile \/ BuildBaseImageFiles \/ ExtractInstallWim
  \/ TransferWSL1 \/ TransferDWM \/ TransferNetFx \/ TransferWoW64
  \/ PatchPagefile \/ PatchEngine \/ PatchDWM \/ ReadPatchedWim \/ PutDistro
  \/ CreateFATQcow2 \/ FATConverted \/ CreateData \/ DataCreated \/ Bootstrapped
  \/ WriteArtifact \/ CreateTargetDisk \/ Installed
UserStep == BuildStarts \/ StartSingle \/ StartPaired \/ GuestUses \/ VmExits
Next == BuildStep \/ Fail \/ UserStep

Spec == Init /\ [][Next]_vars

-----------------------------------------------------------------------------
\* A full install took the place of whatever was at the destination.
FullImage == Exists(boot) /\ boot.kind = "full"

(* A disk that a full install made is a single disk: build/artifact.go has   *)
(* "Most winkit builds are a single disk and need no manifest", and start    *)
(* pairs the image with a data disk exactly when there is a manifest.        *)
FullIsSingle == FullImage /\ boot.whole => manifest = 0

(* A manifest vouches for what it names: both disks are there, whole and     *)
(* made by one build, the volume carries its distro, and a disk that was to  *)
(* be bootstrapped during the build is. PE removes the manifest before it    *)
(* touches a disk and WriteArtifact renames a new one in at the very end.    *)
(* Of the manifests that a full install forgets see FullIsSingle.            *)
ManifestVouches ==
  manifest # 0 /\ ~FullImage =>
    /\ Exists(boot) /\ boot.by = manifest /\ boot.whole /\ boot.kind = "pewsl" /\ boot.distro
    /\ Exists(data) /\ data.by = manifest /\ data.whole
    /\ boot.opts.bootstrap => data.state = "used"

(* Every file and every registry key that the options ask for is in the WIM  *)
(* of a finished volume: no patch of a hive undoes an earlier one, and no    *)
(* step is left out of the file map the volume is made of.                   *)
Delivered ==
  Exists(boot) /\ boot.whole /\ boot.kind # "full" =>
    /\ WantedFiles(boot.opts) \subseteq boot.wim.files
    /\ WantedKeys(boot.opts) \subseteq boot.wim.keys

(* winkit-service finds in the image whatever init.json tells it to start:   *)
(* the shell with its compositor, the drivers as services with the catalogs  *)
(* that sign them and, for packages, the bootstrap that installs them and    *)
(* the runtimes they need.                                                   *)
InitIsServed ==
  Exists(boot) /\ boot.whole /\ boot.kind # "full" =>
    /\ boot.init.shell => {"implorer", "browser", "dwm"} \subseteq boot.wim.files
    /\ boot.init.services \subseteq boot.wim.keys
    /\ boot.init.bootstrap =>
         boot.distro /\ {"wsl1", "runtime catalogs", "engine", "helpers"} \subseteq boot.wim.files
    /\ boot.init.packages =>
         boot.init.bootstrap /\ {"netfx", "wow64"} \subseteq boot.wim.files

(* A VM that was started with two disks runs on two whole disks of the same  *)
(* build as long as it runs, though builds go on: LoadArtifact decides,      *)
(* and the locks hold qemu-img off.                                          *)
PairServed ==
  vm = "paired" /\ ~FullImage =>
    /\ Exists(boot) /\ boot.whole /\ Exists(data) /\ data.whole
    /\ boot.by = data.by

(* The data disk that a guest has used, and the manifest that pairs it, are  *)
(* lost only after the user was asked or said --force.                       *)
DataKept ==
  [][(Exists(data) /\ data.state = "used" /\ data' # data) \/ (manifest # 0 /\ manifest' = 0)
       => consent]_vars

=============================================================================
