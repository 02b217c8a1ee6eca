--------------------------- MODULE PEBuildProofs ---------------------------
(* Proofs about PEBuild, for any modes, any number of builds and failures    *)
(* and kills at any step. Every variable keeps its type; a patch adds its    *)
(* keys and files to a WIM and loses none, which is what a finished volume   *)
(* owes its options; the manifest, the pair that a VM runs on and the disk   *)
(* that a guest has used follow from one inductive invariant, PairInv.       *)
EXTENDS PEBuild, TLAPS

-----------------------------------------------------------------------------
(* The patches.                                                              *)

\* Every key is of one of the two hives.
LEMMA KeysHive == \A k \in Keys : HiveOf(k) \in {"SYSTEM", "SOFTWARE"}
<1> USE DEF System, Software, HiveOf
<1>1. \A k \in WSL1ServicePatchSet.keys : HiveOf(k) \in {"SYSTEM", "SOFTWARE"}
  BY DEF WSL1ServicePatchSet, PatchSet, InboxDrivers, InboxFileSystems, ServiceKey, ComKeys
<1>2. \A k \in DWMServicePatchSet.keys : HiveOf(k) \in {"SYSTEM", "SOFTWARE"}
  BY DEF DWMServicePatchSet, PatchSet, DwmDrivers, DisplayClasses, Composition
<1>3. \A k \in PagefilePatchSet.keys : HiveOf(k) \in {"SYSTEM", "SOFTWARE"}
  BY DEF PagefilePatchSet, PatchSet
<1> QED
  BY <1>1, <1>2, <1>3 DEF Keys

\* The writes of P that go into hive h.
Group(P, h) == {k \in P : HiveOf(k) = h}

\* A patch set's groups are the non-empty ones, so each hive is staged once.
LEMMA StagedOnce ==
  ASSUME NEW ps, NEW h
  PROVE  {g \in groupRegistryWrites(ps) : \E k \in g : HiveOf(k) = h}
           = IF Group(ps.keys, h) = {} THEN {} ELSE {Group(ps.keys, h)}
<1> DEFINE S == {g \in groupRegistryWrites(ps) : \E k \in g : HiveOf(k) = h}
<1>1. ASSUME NEW g \in S PROVE g = Group(ps.keys, h) /\ g # {}
  BY DEF groupRegistryWrites, Group
<1>2. Group(ps.keys, h) # {} => Group(ps.keys, h) \in S
  BY DEF groupRegistryWrites, Group
<1> QED
  BY <1>1, <1>2

\* What PatchWIM writes of one hive: the keys that were there and the new ones.
LEMMA StagedHive ==
  ASSUME NEW W, NEW P, NEW h, Group(P, h) # {}
  PROVE  {k \in W : \E g \in Group(P, h) : HiveOf(g) = HiveOf(k)} \cup Group(P, h)
           = Group(W, h) \cup Group(P, h)
BY DEF Group

\* A patch set merged into a WIM loses nothing of either: writeRegistryHive
\* extracts the hive as it was, once for each hive that the set writes.
LEMMA PatchKeeps ==
  ASSUME NEW w \in WimType, NEW ps \in WimType
  PROVE  PatchWIM(w, ps) = [files |-> w.files \cup ps.files, keys |-> w.keys \cup ps.keys]
<1> DEFINE groups == groupRegistryWrites(ps)
           staged(h) == {g \in groups : \E k \in g : HiveOf(k) = h}
           hive(h) == IF staged(h) = {} THEN {k \in w.keys : HiveOf(k) = h}
                      ELSE writeRegistryHive(w, CHOOSE g \in staged(h) : TRUE)
<1>1. ASSUME NEW h PROVE hive(h) = Group(w.keys, h) \cup Group(ps.keys, h)
  <2>1. CASE Group(ps.keys, h) = {}
    <3>1. staged(h) = {}
      BY <2>1, StagedOnce
    <3> QED
      BY <3>1, <2>1 DEF Group
  <2>2. CASE Group(ps.keys, h) # {}
    <3>1. staged(h) = {Group(ps.keys, h)}
      BY <2>2, StagedOnce
    <3>2. (CHOOSE g \in staged(h) : TRUE) = Group(ps.keys, h)
      BY <3>1
    <3>3. hive(h) = writeRegistryHive(w, Group(ps.keys, h))
      BY <3>1, <3>2
    <3> QED
      BY <3>3, <2>2, StagedHive DEF writeRegistryHive
  <2> QED
    BY <2>1, <2>2
<1>2. ASSUME NEW K \in SUBSET Keys PROVE K = Group(K, "SYSTEM") \cup Group(K, "SOFTWARE")
  <2>1. \A k \in K : HiveOf(k) \in {"SYSTEM", "SOFTWARE"}
    BY KeysHive
  <2> QED
    BY <2>1 DEF Group
<1>3. w.keys \in SUBSET Keys /\ ps.keys \in SUBSET Keys
  BY DEF WimType
<1>4. hive("SYSTEM") \cup hive("SOFTWARE") = w.keys \cup ps.keys
  BY <1>1, <1>2, <1>3
<1>5. PatchWIM(w, ps) = [files |-> w.files \cup ps.files,
                         keys |-> hive("SYSTEM") \cup hive("SOFTWARE")]
  BY DEF PatchWIM
<1> QED
  BY <1>4, <1>5

\* The patch sets of PE name parts and keys.
LEMMA PatchSetsTyped ==
  /\ Stock \in WimType /\ PagefilePatchSet \in WimType /\ WSL1PEPatchSet \in WimType
  /\ DWMServicePatchSet \in WimType
  /\ \A tree \in SUBSET Parts : PatchSet(tree \cup {"winpeshl"}, {}) \in WimType
<1> USE DEF PatchSet, WimType
<1>1. Stock \in WimType /\ PagefilePatchSet \in WimType
  BY DEF Stock, PagefilePatchSet, Keys
<1>2. WSL1PEPatchSet \in WimType
  <2>1. WSL1EnginePatchSet.files \cup {"helpers"} \in SUBSET Parts
    BY DEF WSL1EnginePatchSet, Parts
  <2>2. WSL1ServicePatchSet.keys \in SUBSET Keys
    BY DEF Keys
  <2> QED
    BY <2>1, <2>2 DEF WSL1PEPatchSet
<1>3. DWMServicePatchSet \in WimType
  <2>1. DWMServicePatchSet.keys \in SUBSET Keys
    BY DEF Keys
  <2> QED
    BY <2>1 DEF DWMServicePatchSet
<1>4. ASSUME NEW tree \in SUBSET Parts PROVE PatchSet(tree \cup {"winpeshl"}, {}) \in WimType
  BY DEF Parts
<1> QED
  BY <1>1, <1>2, <1>3, <1>4

\* The same, part by part.
LEMMA PatchAdds ==
  ASSUME NEW w \in WimType, NEW ps \in WimType
  PROVE  /\ PatchWIM(w, ps).files = w.files \cup ps.files
         /\ PatchWIM(w, ps).keys = w.keys \cup ps.keys
<1>1. PatchWIM(w, ps) = [files |-> w.files \cup ps.files, keys |-> w.keys \cup ps.keys]
  BY PatchKeeps
<1> QED
  BY <1>1

\* A patch of a WIM is a WIM.
LEMMA PatchTyped ==
  ASSUME NEW w \in WimType, NEW ps \in WimType
  PROVE  PatchWIM(w, ps) \in WimType
BY PatchKeeps DEF WimType

-----------------------------------------------------------------------------
(* Types.                                                                    *)

LEMMA TypeInit == Init => TypeOK
<1> SUFFICES ASSUME Init PROVE TypeOK
  OBVIOUS
<1>1. files \in [wim : WimType, init : InitType, distro : BOOLEAN]
  BY PatchSetsTyped DEF Init, NoFiles, BootVolumeFiles, GenerateInitManifest, InitType
<1>2. 0 \in 0..MaxBuilds
  BY PEAssumption DEF PEAssumption
<1>3. boot \in ImageType \cup {Absent} /\ data \in DataType \cup {Absent}
  BY DEF Init
<1>4. boot.by \in 0..n /\ data.by \in 0..n /\ manifest \in 0..n
  BY DEF Init, Absent
<1> QED
  BY <1>1, <1>2, <1>3, <1>4, PatchSetsTyped DEF Init, TypeOK

\* What becomes of the WIM in the working directory.
LEMMA TypeWim ==
  ASSUME TypeOK, BuildBaseImageFiles \/ TransferWSL1 \/ TransferDWM \/ TransferNetFx
                   \/ TransferWoW64 \/ PatchPagefile \/ PatchEngine \/ PatchDWM
  PROVE  wim' \in WimType
<1> USE DEF TypeOK, Patch
<1>1. CASE BuildBaseImageFiles
  BY <1>1, PatchSetsTyped, PatchTyped DEF BuildBaseImageFiles, InjectWinPEPayload, ExtractStage
<1>2. CASE TransferWSL1 \/ TransferDWM \/ TransferNetFx \/ TransferWoW64
  <2>1. ASSUME NEW tree \in SUBSET Parts PROVE UpdateImageAddTree(wim, tree) \in WimType
    BY DEF UpdateImageAddTree, WimType
  <2>2. {"wsl1"} \cup stageCodeIntegrityCatalogs \in SUBSET Parts
    BY DEF stageCodeIntegrityCatalogs, Parts
  <2>3. {"dwm"} \cup stageDWMCodeIntegrityCatalogs \in SUBSET Parts
    BY DEF stageDWMCodeIntegrityCatalogs, Parts
  <2>4. {"netfx"} \in SUBSET Parts /\ {"wow64"} \in SUBSET Parts
    BY DEF Parts
  <2>5. TransferWSL1Files(wim) \in WimType /\ TransferDWMFiles(wim) \in WimType
        /\ TransferNetFxFiles(wim) \in WimType /\ TransferWoW64Files(wim) \in WimType
    BY <2>1, <2>2, <2>3, <2>4 DEF TransferWSL1Files, TransferDWMFiles, TransferNetFxFiles,
      TransferWoW64Files
  <2> QED
    BY <1>2, <2>5 DEF TransferWSL1, TransferDWM, TransferNetFx, TransferWoW64
<1>3. CASE PatchPagefile \/ PatchEngine \/ PatchDWM
  BY <1>3, PatchSetsTyped, PatchTyped DEF PatchPagefile, PatchEngine, PatchDWM
<1> QED
  BY <1>1, <1>2, <1>3

\* The working directory: payload, WIM and file map.
LEMMA TypeWork ==
  ASSUME TypeOK, Compile \/ BuildBaseImageFiles \/ TransferWSL1 \/ TransferDWM \/ TransferNetFx
                   \/ TransferWoW64 \/ PatchPagefile \/ PatchEngine \/ PatchDWM
                   \/ ReadPatchedWim \/ PutDistro
  PROVE  TypeOK'
<1> USE DEF TypeOK, Work, Goto, At, Stages, media
<1>1. CASE Compile
  BY <1>1 DEF Compile, CrossCompile, FetchPwshFiles, LoadWinPEDrivers, FetchBrowserFiles, Parts
<1>2. CASE BuildBaseImageFiles
  <2>1. GenerateInitManifest(cfg, payload) \in InitType
    <3>1. System({"bfs", "bindflt", "afunix", "wcifs", "p9rdr"}) \subseteq Keys
      BY DEF Keys, WSL1ServicePatchSet, PatchSet, InboxDrivers, InboxFileSystems, System
    <3>2. cfg.pkgs \in BOOLEAN
      BY DEF Options
    <3> QED
      BY <3>1, <3>2 DEF GenerateInitManifest, InitType
  <2>2. files' \in [wim : WimType, init : InitType, distro : BOOLEAN]
    BY <1>2, <2>1, TypeWim DEF BuildBaseImageFiles, BootVolumeFiles
  <2> QED
    BY <1>2, <2>2, TypeWim DEF BuildBaseImageFiles
<1>3. CASE TransferWSL1 \/ TransferDWM \/ TransferNetFx \/ TransferWoW64
             \/ PatchPagefile \/ PatchEngine \/ PatchDWM
  BY <1>3, TypeWim DEF TransferWSL1, TransferDWM, TransferNetFx, TransferWoW64,
    PatchPagefile, PatchEngine, PatchDWM, Patch
<1>4. CASE ReadPatchedWim \/ PutDistro
  BY <1>4 DEF ReadPatchedWim, PutDistro
<1> QED
  BY <1>1, <1>2, <1>3, <1>4

\* The disks and the manifest.
LEMMA TypeMedia ==
  ASSUME TypeOK, RemoveManifest \/ CreateFATQcow2 \/ FATConverted \/ CreateData \/ DataCreated
                   \/ Bootstrapped \/ WriteArtifact \/ CreateTargetDisk \/ Installed
  PROVE  TypeOK'
<1> USE DEF TypeOK, Goto, At, Stages, work
<1>1. ASSUME NEW b \in BOOLEAN, n # 0 PROVE Image(b) \in ImageType /\ Image(b).by \in 0..n
  BY <1>1 DEF Image, ImageType, Options
<1>2. CASE CreateFATQcow2 \/ FATConverted \/ CreateTargetDisk \/ Installed
  BY <1>2, <1>1 DEF CreateFATQcow2, FATConverted, CreateTargetDisk, Installed
<1>3. CASE CreateData \/ DataCreated
  <2>1. ASSUME NEW b \in BOOLEAN, NEW state \in {"blank", "rootfs", "used"}
        PROVE  DataDisk(b, state) \in DataType /\ DataDisk(b, state).by \in 0..n
    BY DEF DataDisk, DataType
  <2>2. data' \in DataType /\ data'.by \in 0..n
    BY <1>3, <2>1 DEF CreateData, DataCreated, CreateDisk, OfflineImportWSL1
  <2> QED
    BY <1>3, <2>2 DEF CreateData, DataCreated
<1>4. CASE Bootstrapped
  BY <1>4 DEF Bootstrapped, DataType, Absent
<1>5. CASE RemoveManifest \/ WriteArtifact
  BY <1>5 DEF RemoveManifest, WriteArtifact
<1> QED
  BY <1>2, <1>3, <1>4, <1>5

\* The command line, the user and the failures.
LEMMA TypeUser ==
  ASSUME TypeOK, CheckAbsent \/ CheckConfirmed \/ CheckForced \/ StopVM \/ FetchMedia
                   \/ ExtractInstallWim \/ Fail \/ UserStep \/ UNCHANGED vars
  PROVE  TypeOK'
<1> USE DEF TypeOK, Goto, Work, At, Stages, work, media
<1>1. CASE CheckAbsent \/ CheckConfirmed \/ CheckForced \/ StopVM \/ FetchMedia
             \/ ExtractInstallWim \/ Fail
  BY <1>1 DEF CheckAbsent, CheckConfirmed, CheckForced, StopVM, Proceed, FetchMedia,
    ExtractInstallWim, Fail
<1>2. CASE BuildStarts
  <2>1. files' \in [wim : WimType, init : InitType, distro : BOOLEAN]
    BY <1>2, PatchSetsTyped DEF BuildStarts, NoFiles, BootVolumeFiles, GenerateInitManifest, InitType
  <2>2. n' \in 0..MaxBuilds /\ n' # 0 /\ \A k \in 0..n : k \in 0..n'
    BY <1>2, PEAssumption DEF BuildStarts, PEAssumption
  <2> QED
    BY <1>2, <2>1, <2>2, PatchSetsTyped DEF BuildStarts
<1>3. CASE StartSingle \/ StartPaired \/ VmExits
  BY <1>3 DEF StartSingle, StartPaired, VmExits
<1>4. CASE GuestUses
  BY <1>4 DEF GuestUses, DataType, Absent
<1>5. CASE UNCHANGED vars
  BY <1>5 DEF vars
<1> QED
  BY <1>1, <1>2, <1>3, <1>4, <1>5 DEF UserStep

LEMMA TypeStep == TypeOK /\ [Next]_vars => TypeOK'
BY TypeWork, TypeMedia, TypeUser DEF Next, BuildStep

(* Every variable of the PE builds keeps its type, and every disk on the     *)
(* host is of a build that has begun.                                        *)
THEOREM TypeCorrect == Spec => []TypeOK
BY TypeInit, TypeStep, PTL DEF Spec

-----------------------------------------------------------------------------
(* What a build has put on the volume at each of its steps.                  *)

\* From a step on, up to the snapshot that is put into the file map.
FromPagefile == {"engine", "dwmkeys", "snapshot"}
FromWoW64 == {"pagefile"} \cup FromPagefile
FromNetFx == {"wow64"} \cup FromWoW64
FromDWM == {"netfx"} \cup FromNetFx
FromWSL1 == {"dwm"} \cup FromDWM
FromBase == {"install", "wsl1"} \cup FromWSL1

BaseFiles(o) == {"gosshd", "service", "drivers", "pwsh", "winpeshl"}
                  \cup (IF o.dwm THEN {"browser"} ELSE {})

\* The payload has what was compiled and fetched.
PayloadInv ==
  pc = "base" => BaseFiles(cfg) \subseteq payload \cup {"winpeshl"}

\* boot.wim in the working directory has what the steps so far have put there.
WimInv ==
  /\ pc \in FromBase => BaseFiles(cfg) \subseteq wim.files
  /\ pc \in FromWSL1 => {"wsl1", "catalogs", "runtime catalogs"} \subseteq wim.files
  /\ pc \in FromDWM /\ cfg.dwm => {"dwm", "dwm catalogs"} \subseteq wim.files
  /\ pc \in FromNetFx /\ cfg.pkgs => {"netfx"} \subseteq wim.files
  /\ pc \in FromWoW64 /\ cfg.pkgs => {"wow64"} \subseteq wim.files
  /\ pc \in FromPagefile => PagefilePatchSet.keys \subseteq wim.keys
  /\ pc \in {"dwmkeys", "snapshot"} =>
       {"engine", "helpers"} \subseteq wim.files /\ WSL1ServicePatchSet.keys \subseteq wim.keys
  /\ pc = "snapshot" /\ cfg.dwm => DWMServicePatchSet.keys \subseteq wim.keys

\* A WIM has what an option set asks for.
Has(w, o) == WantedFiles(o) \subseteq w.files /\ WantedKeys(o) \subseteq w.keys

\* Then so has the file map, and a volume that was made of it.
VolumeInv ==
  /\ pc \in {"distro", "fat", "fatcopy"} => Has(files.wim, cfg)
  /\ pc \in {"full", "installing"} => cfg.mode = "full"
  /\ Delivered

DeliveredInv == PayloadInv /\ WimInv /\ VolumeInv

LEMMA DeliveredInit == Init => DeliveredInv
BY DEF Init, DeliveredInv, PayloadInv, WimInv, VolumeInv, Delivered, Exists,
       FromPagefile, FromWoW64, FromNetFx, FromDWM, FromWSL1, FromBase

\* A step of WimStep that only adds to boot.wim keeps what was there.
Grows == wim.files \subseteq wim'.files /\ wim.keys \subseteq wim'.keys

\* The base image: the payload, merged into the stock WIM.
LEMMA BaseStep ==
  ASSUME TypeOK, DeliveredInv, PeExtras = FALSE, BuildBaseImageFiles
  PROVE  DeliveredInv'
<1> USE DEF DeliveredInv, PayloadInv, WimInv, Work, Goto, At, media
<1>1. PatchSet(payload \cup {"winpeshl"}, {}) \in WimType /\ Stock \in WimType
  BY PatchSetsTyped DEF TypeOK
<1>2. wim' = PatchWIM(Stock, PatchSet(payload \cup {"winpeshl"}, {}))
  BY DEF BuildBaseImageFiles, InjectWinPEPayload, ExtractStage
<1>3. wim'.files = payload \cup {"winpeshl"}
  <2>1. wim'.files = Stock.files \cup PatchSet(payload \cup {"winpeshl"}, {}).files
    BY <1>1, <1>2, PatchAdds
  <2> QED
    BY <2>1 DEF PatchSet, Stock
<1>4. BaseFiles(cfg) \subseteq wim'.files
  BY <1>3 DEF BuildBaseImageFiles
<1>5. files'.wim = wim' /\ UNCHANGED <<cfg, boot, data, manifest>>
      /\ pc' = IF cfg.mode = "pe" THEN "fat" ELSE "install"
  BY DEF BuildBaseImageFiles, BootVolumeFiles
<1>6. CASE cfg.mode = "pe"
  <2>1. cfg.dwm = FALSE /\ cfg.pkgs = FALSE
    BY <1>6 DEF TypeOK, Options
  <2>2. Has(wim', cfg)
    BY <1>4, <1>6, <2>1 DEF Has, WantedFiles, WantedKeys, BaseFiles
  <2> QED
    BY <1>5, <1>6, <2>2 DEF VolumeInv, Delivered, Exists, FromPagefile, FromWoW64, FromNetFx,
      FromDWM, FromWSL1, FromBase
<1>7. CASE cfg.mode # "pe"
  BY <1>4, <1>5, <1>7 DEF VolumeInv, Delivered, Exists, FromPagefile, FromWoW64, FromNetFx,
    FromDWM, FromWSL1, FromBase
<1> QED
  BY <1>6, <1>7

\* The transfers: each puts its own files into boot.wim.
LEMMA TransferStep ==
  ASSUME TypeOK, DeliveredInv, TransferWSL1 \/ TransferDWM \/ TransferNetFx \/ TransferWoW64
  PROVE  DeliveredInv'
<1>1. ASSUME NEW tree
      PROVE  /\ UpdateImageAddTree(wim, tree).files = wim.files \cup tree
             /\ UpdateImageAddTree(wim, tree).keys = wim.keys
  BY DEF UpdateImageAddTree, TypeOK, WimType
<1>2. UNCHANGED <<cfg, payload, files, boot, data, manifest>>
  BY DEF TransferWSL1, TransferDWM, TransferNetFx, TransferWoW64, Patch, Work, Goto, media
<1>3. wim'.keys = wim.keys /\ wim.files \subseteq wim'.files
  BY <1>1 DEF TransferWSL1, TransferDWM, TransferNetFx, TransferWoW64, Patch,
    TransferWSL1Files, TransferDWMFiles, TransferNetFxFiles, TransferWoW64Files
<1>4. CASE TransferWSL1
  <2>1. {"wsl1", "catalogs", "runtime catalogs"} \subseteq wim'.files
    BY <1>1, <1>4 DEF TransferWSL1, Patch, TransferWSL1Files, stageCodeIntegrityCatalogs
  <2>2. pc = "wsl1" /\ pc' = "dwm"
    BY <1>4 DEF TransferWSL1, Patch, At, Work, Goto
  <2> QED
    BY <1>2, <1>3, <2>1, <2>2 DEF DeliveredInv, PayloadInv, WimInv, VolumeInv, Delivered,
      Exists, FromPagefile, FromWoW64, FromNetFx, FromDWM, FromWSL1, FromBase
<1>5. CASE TransferDWM
  <2>1. cfg.dwm => {"dwm", "dwm catalogs"} \subseteq wim'.files
    BY <1>1, <1>5 DEF TransferDWM, Patch, TransferDWMFiles, stageDWMCodeIntegrityCatalogs
  <2>2. pc = "dwm" /\ pc' = "netfx"
    BY <1>5 DEF TransferDWM, Patch, At, Work, Goto
  <2> QED
    BY <1>2, <1>3, <2>1, <2>2 DEF DeliveredInv, PayloadInv, WimInv, VolumeInv, Delivered,
      Exists, FromPagefile, FromWoW64, FromNetFx, FromDWM, FromWSL1, FromBase
<1>6. CASE TransferNetFx
  <2>1. cfg.pkgs => {"netfx"} \subseteq wim'.files
    BY <1>1, <1>6 DEF TransferNetFx, Patch, TransferNetFxFiles
  <2>2. pc = "netfx" /\ pc' = "wow64"
    BY <1>6 DEF TransferNetFx, Patch, At, Work, Goto
  <2> QED
    BY <1>2, <1>3, <2>1, <2>2 DEF DeliveredInv, PayloadInv, WimInv, VolumeInv, Delivered,
      Exists, FromPagefile, FromWoW64, FromNetFx, FromDWM, FromWSL1, FromBase
<1>7. CASE TransferWoW64
  <2>1. cfg.pkgs => {"wow64"} \subseteq wim'.files
    BY <1>1, <1>7 DEF TransferWoW64, Patch, TransferWoW64Files
  <2>2. pc = "wow64" /\ pc' = "pagefile"
    BY <1>7 DEF TransferWoW64, Patch, At, Work, Goto
  <2> QED
    BY <1>2, <1>3, <2>1, <2>2 DEF DeliveredInv, PayloadInv, WimInv, VolumeInv, Delivered,
      Exists, FromPagefile, FromWoW64, FromNetFx, FromDWM, FromWSL1, FromBase
<1> QED
  BY <1>4, <1>5, <1>6, <1>7

\* The patches: each adds its files and keys, and no hive loses a key.
LEMMA PatchStep ==
  ASSUME TypeOK, DeliveredInv, PatchPagefile \/ PatchEngine \/ PatchDWM
  PROVE  DeliveredInv'
<1> USE DEF DeliveredInv, PayloadInv, WimInv, VolumeInv, Delivered, Exists, Work, Goto, At, media,
            Patch, FromPagefile, FromWoW64, FromNetFx, FromDWM, FromWSL1, FromBase
<1>1. ASSUME NEW ps \in WimType
      PROVE  /\ PatchWIM(wim, ps).files = wim.files \cup ps.files
             /\ PatchWIM(wim, ps).keys = wim.keys \cup ps.keys
  BY PatchAdds DEF TypeOK
<1>2. CASE PatchPagefile
  <2>1. Grows /\ PagefilePatchSet.keys \subseteq wim'.keys
    BY <1>1, <1>2, PatchSetsTyped DEF PatchPagefile, Grows
  <2> QED
    BY <1>2, <2>1 DEF PatchPagefile, Grows
<1>3. CASE PatchEngine
  <2>1. {"engine", "helpers"} \subseteq WSL1PEPatchSet.files
        /\ WSL1PEPatchSet.keys = WSL1ServicePatchSet.keys
    BY DEF WSL1PEPatchSet, WSL1EnginePatchSet, PatchSet
  <2>2. Grows /\ {"engine", "helpers"} \subseteq wim'.files
              /\ WSL1ServicePatchSet.keys \subseteq wim'.keys
    BY <1>1, <1>3, <2>1, PatchSetsTyped DEF PatchEngine, Grows
  <2> QED
    BY <1>3, <2>2 DEF PatchEngine, Grows
<1>4. CASE PatchDWM
  <2>1. Grows /\ (cfg.dwm => DWMServicePatchSet.keys \subseteq wim'.keys)
    BY <1>1, <1>4, PatchSetsTyped DEF PatchDWM, Grows
  <2> QED
    BY <1>4, <2>1 DEF PatchDWM, Grows
<1> QED
  BY <1>2, <1>3, <1>4

\* The file map and the volume.
LEMMA VolumeStep ==
  ASSUME TypeOK, DeliveredInv, PeExtras = FALSE, ReadPatchedWim \/ PutDistro \/ CreateFATQcow2 \/ FATConverted
                               \/ CreateTargetDisk \/ Installed
  PROVE  DeliveredInv'
<1> USE DEF DeliveredInv, PayloadInv, WimInv, VolumeInv, Work, Goto, At, media, work,
            FromPagefile, FromWoW64, FromNetFx, FromDWM, FromWSL1, FromBase
<1>1. CASE ReadPatchedWim
  <2>1. Has(wim, cfg)
    <3>1. WantedFiles(cfg) \subseteq wim.files
      BY <1>1 DEF ReadPatchedWim, WantedFiles, BaseFiles
    <3>2. WantedKeys(cfg) \subseteq wim.keys
      BY <1>1 DEF ReadPatchedWim, WantedKeys
    <3> QED
      BY <3>1, <3>2 DEF Has
  <2>2. files'.wim = wim /\ UNCHANGED <<cfg, boot, data, manifest>> /\ pc' = "distro"
    BY <1>1 DEF ReadPatchedWim, TypeOK
  <2> QED
    BY <2>1, <2>2 DEF Delivered, Exists
<1>2. CASE PutDistro
  <2>1. files'.wim = files.wim /\ UNCHANGED <<cfg, boot, data, manifest>>
    BY <1>2 DEF PutDistro, TypeOK
  <2> QED
    BY <1>2, <2>1 DEF PutDistro, Delivered, Exists
<1>3. CASE CreateFATQcow2 \/ CreateTargetDisk
  <2>1. boot' = Image(FALSE)
    BY <1>3 DEF CreateFATQcow2, CreateTargetDisk
  <2>2. ~boot'.whole
    BY <2>1, Zenon DEF Image
  <2> QED
    BY <1>3, <2>2 DEF CreateFATQcow2, CreateTargetDisk, Delivered
<1>4. CASE FATConverted
  <2>1. boot'.opts = cfg /\ boot'.wim = files.wim
    BY <1>4 DEF FATConverted, Image
  <2>2. Delivered'
    BY <1>4, <2>1 DEF FATConverted, Delivered, Has
  <2> QED
    BY <1>4, <2>2 DEF FATConverted
<1>5. CASE Installed
  <2>1. boot'.kind = "full"
    BY <1>5 DEF Installed, Image
  <2> QED
    BY <1>5, <2>1 DEF Installed, Delivered
<1> QED
  BY <1>1, <1>2, <1>3, <1>4, <1>5

\* Every other step leaves the working directory and the volume alone.
LEMMA OtherStep ==
  ASSUME TypeOK, DeliveredInv,
         CheckAbsent \/ CheckConfirmed \/ CheckForced \/ StopVM \/ FetchMedia \/ RemoveManifest
           \/ Compile \/ ExtractInstallWim \/ CreateData \/ DataCreated \/ Bootstrapped
           \/ WriteArtifact \/ Fail \/ UserStep \/ UNCHANGED vars
  PROVE  DeliveredInv'
<1> USE DEF DeliveredInv, PayloadInv, WimInv, VolumeInv, Delivered, Exists, Work, Goto, At, media,
            work, FromPagefile, FromWoW64, FromNetFx, FromDWM, FromWSL1, FromBase
<1>1. CASE CheckAbsent \/ CheckConfirmed \/ CheckForced \/ StopVM \/ RemoveManifest \/ Fail
  BY <1>1 DEF CheckAbsent, CheckConfirmed, CheckForced, StopVM, Proceed, RemoveManifest, Fail
<1>2. CASE FetchMedia
  BY <1>2 DEF FetchMedia
<1>3. CASE Compile
  BY <1>3 DEF Compile, BaseFiles, CrossCompile, FetchPwshFiles, LoadWinPEDrivers, FetchBrowserFiles
<1>4. CASE ExtractInstallWim
  BY <1>4 DEF ExtractInstallWim
<1>5. CASE CreateData \/ DataCreated \/ Bootstrapped \/ WriteArtifact
  BY <1>5 DEF CreateData, DataCreated, Bootstrapped, WriteArtifact
<1>6. CASE BuildStarts
  BY <1>6 DEF BuildStarts
<1>7. CASE StartSingle \/ StartPaired \/ VmExits
  <2>1. UNCHANGED <<pc, cfg, payload, wim, files, boot, data, manifest>>
    BY <1>7 DEF StartSingle, StartPaired, VmExits
  <2> QED
    BY <2>1
<1>8. CASE UNCHANGED vars
  BY <1>8 DEF vars
<1>9. CASE GuestUses
  <2>1. UNCHANGED <<pc, cfg, payload, wim, files, boot, manifest>>
    BY <1>9 DEF GuestUses
  <2> QED
    BY <2>1
<1> QED
  BY <1>1, <1>2, <1>3, <1>4, <1>5, <1>6, <1>7, <1>8, <1>9 DEF UserStep

(* Unless a PE without WSL may ask for a desktop or packages, a finished     *)
(* volume holds every file and every key that its options ask for: the       *)
(* transfers and patches of build.PE, in their order, lose nothing.          *)
THEOREM DeliveredCorrect == ASSUME PeExtras = FALSE PROVE Spec => []Delivered
<1>1. Init => TypeOK /\ DeliveredInv
  BY TypeInit, DeliveredInit
<1>2. TypeOK /\ DeliveredInv /\ [Next]_vars => TypeOK' /\ DeliveredInv'
  BY TypeStep, BaseStep, TransferStep, PatchStep, VolumeStep, OtherStep DEF Next, BuildStep
<1>3. DeliveredInv => Delivered
  BY DEF DeliveredInv, VolumeInv
<1> QED
  BY <1>1, <1>2, <1>3, PTL DEF Spec

-----------------------------------------------------------------------------
(* The pair of disks, its manifest, the VM that runs on it and the user's    *)
(* consent.                                                                  *)

\* The steps of build.PE: those of a pair, and those without a manifest.
OfPair == {"install", "wsl1", "dwm", "netfx", "wow64", "pagefile", "engine", "dwmkeys",
           "snapshot", "distro", "data", "datacopy", "bootstrap", "artifact"}
Unmarked == {"compile", "base", "fat", "fatcopy"} \cup OfPair
OfPE == {"manifest"} \cup Unmarked

ModeInv ==
  /\ pc \in OfPE => cfg.mode # "full"
  /\ pc \in OfPair => cfg.mode = "pewsl"
  /\ pc \in {"full", "installing"} => cfg.mode = "full"
  /\ pc \in Unmarked => manifest = 0

\* What a pair's build has finished before it writes the manifest.
PairBuilt ==
  /\ pc \in {"fat", "fatcopy"} /\ cfg.mode = "pewsl" => files.distro
  /\ pc \in {"data", "datacopy", "bootstrap", "artifact"} =>
       /\ boot # Absent /\ boot.by = n /\ boot.whole /\ boot.kind = "pewsl"
       /\ boot.opts = cfg /\ boot.distro
  /\ pc \in {"datacopy", "bootstrap", "artifact"} => data # Absent /\ data.by = n
  /\ pc \in {"bootstrap", "artifact"} => data.whole
  /\ pc = "artifact" /\ cfg.bootstrap => data.state = "used"

\* A disk that is being written has no VM.
WritesAlone ==
  /\ pc \in {"fatcopy", "installing"} => vm = "none"
  /\ pc \in {"datacopy", "bootstrap"} => vm # "paired" /\ data.state # "used"
  /\ vm = "paired" => data # Absent
  /\ data # Absent => data.by # 0

\* Without consent there was no image, so neither a disk nor a manifest.
Unasked ==
  /\ data # Absent \/ manifest # 0 => boot # Absent
  /\ pc \in {"media", "manifest"} /\ ~consent => manifest = 0
  /\ pc \in {"media"} \cup (OfPE \ {"datacopy", "bootstrap", "artifact"}) /\ ~consent =>
       data = Absent

PairInv == ModeInv /\ PairBuilt /\ WritesAlone /\ Unasked /\ ManifestVouches /\ PairServed

LEMMA PairInit == Init => PairInv
BY DEF Init, PairInv, ModeInv, PairBuilt, WritesAlone, Unasked, ManifestVouches, PairServed,
       OfPE, OfPair, Unmarked, Exists

LEMMA ModeIs == TypeOK => cfg.mode \in {"pe", "pewsl", "full"}
BY PEAssumption DEF TypeOK, Options, PEAssumption

\* The command line and the steps that touch neither the disks nor the map.
LEMMA PairLooks ==
  ASSUME TypeOK, PairInv,
         CheckAbsent \/ CheckConfirmed \/ CheckForced \/ StopVM \/ FetchMedia \/ Fail
           \/ BuildStarts \/ UNCHANGED vars
  PROVE  PairInv'
<1> USE DEF PairInv, ModeInv, PairBuilt, WritesAlone, Unasked, ManifestVouches, PairServed,
            FullImage, Exists, OfPE, OfPair, Unmarked, Goto, Work, At, work, media
<1>1. CASE CheckAbsent \/ CheckConfirmed \/ CheckForced \/ StopVM
  BY <1>1 DEF CheckAbsent, CheckConfirmed, CheckForced, StopVM, Proceed
<1>2. CASE FetchMedia
  BY <1>2 DEF FetchMedia
<1>3. CASE Fail
  BY <1>3 DEF Fail
<1>4. CASE BuildStarts
  BY <1>4 DEF BuildStarts
<1>5. CASE UNCHANGED vars
  BY <1>5 DEF vars
<1> QED
  BY <1>1, <1>2, <1>3, <1>4, <1>5

\* The long work in the working directory.
LEMMA PairWorks ==
  ASSUME TypeOK, PairInv,
         Compile \/ BuildBaseImageFiles \/ ExtractInstallWim \/ TransferWSL1 \/ TransferDWM
           \/ TransferNetFx \/ TransferWoW64 \/ PatchPagefile \/ PatchEngine \/ PatchDWM
           \/ ReadPatchedWim \/ PutDistro
  PROVE  PairInv'
<1> USE DEF PairInv, ModeInv, PairBuilt, WritesAlone, Unasked, ManifestVouches, PairServed,
            FullImage, Exists, OfPE, OfPair, Unmarked, Goto, Work, At, media, Patch
<1>1. CASE Compile \/ ExtractInstallWim
  BY <1>1 DEF Compile, ExtractInstallWim, work
<1>2. CASE BuildBaseImageFiles
  BY <1>2, ModeIs DEF BuildBaseImageFiles
<1>3. CASE TransferWSL1 \/ TransferDWM \/ TransferNetFx \/ TransferWoW64
  BY <1>3 DEF TransferWSL1, TransferDWM, TransferNetFx, TransferWoW64
<1>4. CASE PatchPagefile \/ PatchEngine \/ PatchDWM
  BY <1>4 DEF PatchPagefile, PatchEngine, PatchDWM
<1>5. CASE ReadPatchedWim
  BY <1>5 DEF ReadPatchedWim
<1>6. CASE PutDistro
  <2>1. files'.distro
    BY <1>6 DEF PutDistro, TypeOK
  <2> QED
    BY <1>6, <2>1 DEF PutDistro
<1> QED
  BY <1>1, <1>2, <1>3, <1>4, <1>5, <1>6

\* The steps that write the disks and the manifest.
LEMMA PairWrites ==
  ASSUME TypeOK, PairInv,
         RemoveManifest \/ CreateFATQcow2 \/ FATConverted \/ CreateData \/ DataCreated
           \/ Bootstrapped \/ WriteArtifact \/ CreateTargetDisk \/ Installed
  PROVE  PairInv'
<1> USE DEF PairInv, ModeInv, PairBuilt, WritesAlone, Unasked, ManifestVouches, PairServed,
            FullImage, Exists, OfPE, OfPair, Unmarked, Goto, At, work, IsImageLocked, DataLocked
<1>1. ASSUME NEW b \in BOOLEAN, pc # "idle"
      PROVE  /\ Image(b) # Absent /\ Image(b).by = n /\ Image(b).whole = b
             /\ Image(b).kind = cfg.mode /\ Image(b).opts = cfg /\ Image(b).distro = files.distro
  BY <1>1 DEF TypeOK, Image, Absent
<1>2. ASSUME NEW b \in BOOLEAN, NEW state, pc # "idle"
      PROVE  /\ DataDisk(b, state) # Absent /\ DataDisk(b, state).by = n /\ n # 0
             /\ DataDisk(b, state).whole = b /\ DataDisk(b, state).state = state
  BY <1>2 DEF TypeOK, DataDisk, Absent
<1>3. CASE RemoveManifest
  BY <1>3 DEF RemoveManifest
<1>4. CASE CreateFATQcow2
  BY <1>1, <1>4 DEF CreateFATQcow2
<1>5. CASE FATConverted
  BY <1>1, <1>5, ModeIs DEF FATConverted
<1>6. CASE CreateData
  BY <1>2, <1>6 DEF CreateData, CreateDisk
<1>7. CASE DataCreated
  BY <1>2, <1>7 DEF DataCreated, CreateDisk, OfflineImportWSL1
<1>8. CASE Bootstrapped
  <2>1. data \in DataType
    BY <1>8 DEF Bootstrapped, TypeOK
  <2>2. /\ data'.by = data.by /\ data'.whole = data.whole /\ data'.state = "used"
        /\ data' # Absent
    BY <1>8, <2>1 DEF Bootstrapped, DataType, Absent
  <2> QED
    BY <1>8, <2>2 DEF Bootstrapped
<1>9. CASE WriteArtifact
  BY <1>9 DEF WriteArtifact
<1>10. CASE CreateTargetDisk \/ Installed
  BY <1>1, <1>10 DEF CreateTargetDisk, Installed
<1> QED
  BY <1>3, <1>4, <1>5, <1>6, <1>7, <1>8, <1>9, <1>10

\* The user's VM.
LEMMA PairUses ==
  ASSUME TypeOK, PairInv, StartSingle \/ StartPaired \/ GuestUses \/ VmExits
  PROVE  PairInv'
<1> USE DEF PairInv, ModeInv, PairBuilt, WritesAlone, Unasked, ManifestVouches, PairServed,
            FullImage, Exists, OfPE, OfPair, Unmarked, work, media
<1>1. CASE StartSingle \/ StartPaired
  BY <1>1 DEF StartSingle, StartPaired, BootBusy, DataBusy
<1>2. CASE GuestUses
  <2>1. data \in DataType
    BY <1>2 DEF GuestUses, TypeOK
  <2>2. /\ data'.by = data.by /\ data'.whole = data.whole /\ data'.state = "used"
        /\ data' # Absent
    BY <1>2, <2>1 DEF GuestUses, DataType, Absent
  <2> QED
    BY <1>2, <2>2 DEF GuestUses
<1>3. CASE VmExits
  BY <1>3 DEF VmExits
<1> QED
  BY <1>1, <1>2, <1>3

LEMMA PairStep == TypeOK /\ PairInv /\ [Next]_vars => PairInv'
BY PairLooks, PairWorks, PairWrites, PairUses DEF Next, BuildStep, UserStep

THEOREM PairCorrect == Spec => [](TypeOK /\ PairInv)
BY TypeInit, TypeStep, PairInit, PairStep, PTL DEF Spec

(* The manifest of an image that no full install has replaced names two      *)
(* whole disks of one build, the volume with its distro on it: PE removes    *)
(* the manifest first and writes it last.                                    *)
THEOREM ManifestVouchesCorrect == Spec => []ManifestVouches
<1>1. PairInv => ManifestVouches
  BY DEF PairInv
<1> QED
  BY <1>1, PairCorrect, PTL

(* Whatever is built meanwhile, a VM started with two disks runs on the two  *)
(* whole disks of one build.                                                 *)
THEOREM PairServedCorrect == Spec => []PairServed
<1>1. PairInv => PairServed
  BY DEF PairInv
<1> QED
  BY <1>1, PairCorrect, PTL

\* Which steps change the data disk and the manifest.
LEMMA Changes ==
  ASSUME Next
  PROVE  /\ data' = data \/ CreateData \/ DataCreated \/ Bootstrapped \/ GuestUses
         /\ manifest' = manifest \/ RemoveManifest \/ WriteArtifact
<1> USE DEF Goto, Work, media
<1>1. CASE CheckAbsent \/ CheckConfirmed \/ CheckForced \/ StopVM \/ FetchMedia \/ Fail \/ UserStep
  BY <1>1 DEF CheckAbsent, CheckConfirmed, CheckForced, StopVM, Proceed, FetchMedia, Fail, UserStep,
    BuildStarts, StartSingle, StartPaired, GuestUses, VmExits
<1>2. CASE Compile \/ BuildBaseImageFiles \/ ExtractInstallWim \/ TransferWSL1 \/ TransferDWM
             \/ TransferNetFx \/ TransferWoW64 \/ PatchPagefile \/ PatchEngine \/ PatchDWM
             \/ ReadPatchedWim \/ PutDistro
  BY <1>2 DEF Compile, BuildBaseImageFiles, ExtractInstallWim, TransferWSL1, TransferDWM,
    TransferNetFx, TransferWoW64, PatchPagefile, PatchEngine, PatchDWM, Patch, ReadPatchedWim,
    PutDistro
<1>3. CASE CreateFATQcow2 \/ FATConverted \/ CreateTargetDisk \/ Installed
  BY <1>3 DEF CreateFATQcow2, FATConverted, CreateTargetDisk, Installed
<1>4. CASE RemoveManifest \/ CreateData \/ DataCreated \/ Bootstrapped \/ WriteArtifact
  BY <1>4 DEF RemoveManifest, CreateData, DataCreated, Bootstrapped, WriteArtifact
<1> QED
  BY <1>1, <1>2, <1>3, <1>4 DEF Next, BuildStep

(* A disk that a guest has used and the manifest are lost only with consent. *)
THEOREM DataKeptCorrect == Spec => DataKept
<1> DEFINE Lost == (Exists(data) /\ data.state = "used" /\ data' # data)
                     \/ (manifest # 0 /\ manifest' = 0)
<1>1. TypeOK /\ PairInv /\ [Next]_vars => [Lost => consent]_vars
  <2> SUFFICES ASSUME TypeOK, PairInv, Next, Lost PROVE consent
    BY DEF vars
  <2> USE DEF PairInv, WritesAlone, Unasked, Exists, At, OfPE, OfPair, Unmarked
  <2>1. CASE data # Absent /\ data.state = "used" /\ data' # data
    BY <2>1, Changes DEF CreateData, DataCreated, Bootstrapped, GuestUses
  <2>2. CASE manifest # 0 /\ manifest' = 0
    BY <2>2, Changes DEF RemoveManifest, WriteArtifact, TypeOK
  <2> QED
    BY <2>1, <2>2
<1> QED
  BY <1>1, PairCorrect, PTL DEF Spec, DataKept

-----------------------------------------------------------------------------
(* init.json and the volume it comes with.                                   *)

\* The file map is made, and the volume is not yet.
Mapped == FromBase \cup {"distro", "fat", "fatcopy"}

InitInv ==
  /\ pc = "base" /\ "implorer" \in payload => cfg.dwm
  /\ pc \in Mapped =>
       /\ files.init.services \subseteq WantedKeys(cfg)
       /\ files.init.bootstrap => cfg.mode = "pewsl"
       /\ files.init.shell => cfg.dwm
       /\ files.init.packages => cfg.pkgs /\ files.init.bootstrap
  /\ pc \in FromBase /\ files.init.shell => "implorer" \in wim.files
  /\ pc \in {"distro", "fat", "fatcopy"} /\ files.init.shell => "implorer" \in files.wim.files
  /\ InitIsServed

ServedInv == TypeOK /\ DeliveredInv /\ PairInv /\ InitInv

LEMMA InitInit == Init => InitInv
BY DEF Init, InitInv, InitIsServed, Exists, Mapped, FromPagefile, FromWoW64, FromNetFx, FromDWM,
       FromWSL1, FromBase

\* The payload and the map that is made of it.
LEMMA InitMade ==
  ASSUME ServedInv, PeExtras = FALSE, Compile \/ BuildBaseImageFiles
  PROVE  InitInv'
<1> USE DEF InitInv, InitIsServed, Exists, Goto, Work, At, media, Mapped, FromPagefile, FromWoW64,
            FromNetFx, FromDWM, FromWSL1, FromBase
<1>1. CASE Compile
  <2>1. ~cfg.dwm => "implorer" \notin payload'
    BY <1>1 DEF Compile, CrossCompile, FetchPwshFiles, LoadWinPEDrivers
  <2>2. pc' = "base" /\ UNCHANGED <<cfg, boot>>
    BY <1>1 DEF Compile
  <2> QED
    BY <2>1, <2>2 DEF ServedInv
<1>2. CASE BuildBaseImageFiles
  <2> DEFINE init == GenerateInitManifest(cfg, payload)
  <2>1. /\ files'.init = init /\ files'.wim = wim' /\ UNCHANGED <<cfg, boot>>
        /\ pc' \in {"fat", "install"}
    BY <1>2 DEF BuildBaseImageFiles, BootVolumeFiles
  <2>2. wim'.files = payload \cup {"winpeshl"}
    <3>1. PatchSet(payload \cup {"winpeshl"}, {}) \in WimType /\ Stock \in WimType
      BY PatchSetsTyped DEF ServedInv, TypeOK
    <3>2. wim' = PatchWIM(Stock, PatchSet(payload \cup {"winpeshl"}, {}))
      BY <1>2 DEF BuildBaseImageFiles, InjectWinPEPayload, ExtractStage
    <3>3. wim'.files = Stock.files \cup PatchSet(payload \cup {"winpeshl"}, {}).files
      BY <3>1, <3>2, PatchAdds
    <3> QED
      BY <3>3 DEF PatchSet, Stock
  <2>3. /\ init.bootstrap = (cfg.mode = "pewsl") /\ init.shell = ("implorer" \in payload)
        /\ init.packages = cfg.pkgs
    BY Zenon DEF GenerateInitManifest
  <2>4. cfg.pkgs => cfg.mode = "pewsl"
    BY ModeIs DEF ServedInv, TypeOK, Options
  <2>5. init.services \subseteq WantedKeys(cfg)
    BY DEF GenerateInitManifest, WantedKeys, WSL1ServicePatchSet, PatchSet, InboxDrivers,
      InboxFileSystems, System
  <2>6. "implorer" \in payload => cfg.dwm
    BY <1>2 DEF BuildBaseImageFiles, ServedInv
  <2> HIDE DEF init
  <2> QED
    BY <2>1, <2>2, <2>3, <2>4, <2>5, <2>6 DEF ServedInv
<1> QED
  BY <1>1, <1>2

\* The WIM only grows, and the map takes it over.
LEMMA InitCarried ==
  ASSUME ServedInv,
         ExtractInstallWim \/ TransferWSL1 \/ TransferDWM \/ TransferNetFx \/ TransferWoW64
           \/ PatchPagefile \/ PatchEngine \/ PatchDWM \/ ReadPatchedWim \/ PutDistro
  PROVE  InitInv'
<1> USE DEF InitInv, InitIsServed, Exists, Goto, Work, At, media, Mapped, FromPagefile, FromWoW64,
            FromNetFx, FromDWM, FromWSL1, FromBase
<1>1. CASE ExtractInstallWim
  BY <1>1 DEF ExtractInstallWim, ServedInv, work
<1>2. CASE TransferWSL1 \/ TransferDWM \/ TransferNetFx \/ TransferWoW64
  <2>1. ASSUME NEW tree PROVE wim.files \subseteq UpdateImageAddTree(wim, tree).files
    BY DEF UpdateImageAddTree, ServedInv, TypeOK, WimType
  <2>2. wim.files \subseteq wim'.files
    BY <1>2, <2>1 DEF TransferWSL1, TransferDWM, TransferNetFx, TransferWoW64, Patch,
      TransferWSL1Files, TransferDWMFiles, TransferNetFxFiles, TransferWoW64Files
  <2> QED
    BY <1>2, <2>2 DEF TransferWSL1, TransferDWM, TransferNetFx, TransferWoW64, Patch, ServedInv
<1>3. CASE PatchPagefile \/ PatchEngine \/ PatchDWM
  <2>1. ASSUME NEW ps \in WimType PROVE wim.files \subseteq PatchWIM(wim, ps).files
    BY PatchAdds DEF ServedInv, TypeOK
  <2>2. wim.files \subseteq wim'.files
    BY <1>3, <2>1, PatchSetsTyped DEF PatchPagefile, PatchEngine, PatchDWM, Patch
  <2> QED
    BY <1>3, <2>2 DEF PatchPagefile, PatchEngine, PatchDWM, Patch, ServedInv
<1>4. CASE ReadPatchedWim
  <2>1. files'.wim = wim /\ files'.init = files.init
    BY <1>4 DEF ReadPatchedWim, ServedInv, TypeOK
  <2> QED
    BY <1>4, <2>1 DEF ReadPatchedWim, ServedInv
<1>5. CASE PutDistro
  <2>1. files'.wim = files.wim /\ files'.init = files.init
    BY <1>5 DEF PutDistro, ServedInv, TypeOK
  <2> QED
    BY <1>5, <2>1 DEF PutDistro, ServedInv
<1> QED
  BY <1>1, <1>2, <1>3, <1>4, <1>5

\* The volume that is made of the map.
LEMMA InitDelivered ==
  ASSUME ServedInv, CreateFATQcow2 \/ FATConverted \/ CreateTargetDisk \/ Installed
  PROVE  InitInv'
<1> USE DEF InitInv, Goto, At, work, Mapped, FromPagefile, FromWoW64, FromNetFx, FromDWM, FromWSL1,
            FromBase
<1>1. ASSUME NEW b \in BOOLEAN
      PROVE  /\ Image(b).whole = b /\ Image(b).kind = cfg.mode /\ Image(b).wim = files.wim
             /\ Image(b).init = files.init /\ Image(b).distro = files.distro
  BY DEF Image
<1>2. CASE CreateFATQcow2
  BY <1>1, <1>2 DEF CreateFATQcow2, InitIsServed, ServedInv
<1>3. CASE FATConverted
  <2>1. Has(files.wim, cfg) /\ (cfg.mode = "pewsl" => files.distro)
    BY <1>3 DEF FATConverted, ServedInv, DeliveredInv, VolumeInv, PairInv, PairBuilt
  <2>2. boot' = Image(TRUE)
    BY <1>3 DEF FATConverted
  <2>3. InitIsServed'
    BY <1>1, <1>3, <2>1, <2>2 DEF FATConverted, InitIsServed, ServedInv, Has, WantedFiles
  <2> QED
    BY <1>3, <2>3 DEF FATConverted, ServedInv
<1>4. CASE CreateTargetDisk
  BY <1>1, <1>4 DEF CreateTargetDisk, InitIsServed, ServedInv
<1>5. CASE Installed
  BY <1>1, <1>5 DEF Installed, InitIsServed, ServedInv, PairInv, ModeInv
<1> QED
  BY <1>2, <1>3, <1>4, <1>5

\* Every other step leaves the map and the volume alone.
LEMMA InitKept ==
  ASSUME ServedInv,
         CheckAbsent \/ CheckConfirmed \/ CheckForced \/ StopVM \/ FetchMedia \/ RemoveManifest
           \/ CreateData \/ DataCreated \/ Bootstrapped \/ WriteArtifact \/ Fail \/ UserStep
           \/ UNCHANGED vars
  PROVE  InitInv'
<1> USE DEF ServedInv, InitInv, InitIsServed, Exists, Work, Goto, At, media, work, Mapped,
            FromPagefile, FromWoW64, FromNetFx, FromDWM, FromWSL1, FromBase
<1>1. CASE CheckAbsent \/ CheckConfirmed \/ CheckForced \/ StopVM \/ FetchMedia \/ Fail
  BY <1>1 DEF CheckAbsent, CheckConfirmed, CheckForced, StopVM, Proceed, FetchMedia, Fail
<1>2. CASE RemoveManifest \/ CreateData \/ DataCreated \/ Bootstrapped \/ WriteArtifact
  BY <1>2 DEF RemoveManifest, CreateData, DataCreated, Bootstrapped, WriteArtifact
<1>3. CASE UserStep
  BY <1>3 DEF UserStep, BuildStarts, StartSingle, StartPaired, GuestUses, VmExits
<1>4. CASE UNCHANGED vars
  BY <1>4 DEF vars
<1> QED
  BY <1>1, <1>2, <1>3, <1>4

(* Under the assumption of DeliveredCorrect winkit-service finds on the      *)
(* volume whatever init.json tells it to start.                              *)
THEOREM InitIsServedCorrect == ASSUME PeExtras = FALSE PROVE Spec => []InitIsServed
<1>1. Init => ServedInv
  BY TypeInit, DeliveredInit, PairInit, InitInit DEF ServedInv
<1>2. ServedInv /\ [Next]_vars => ServedInv'
  <2> SUFFICES ASSUME ServedInv, [Next]_vars PROVE ServedInv'
    OBVIOUS
  <2>1. TypeOK' /\ PairInv'
    BY TypeStep, PairStep DEF ServedInv
  <2>2. DeliveredInv'
    BY BaseStep, TransferStep, PatchStep, VolumeStep, OtherStep DEF Next, BuildStep, ServedInv
  <2>3. InitInv'
    BY InitMade, InitCarried, InitDelivered, InitKept DEF Next, BuildStep
  <2> QED
    BY <2>1, <2>2, <2>3 DEF ServedInv
<1>3. ServedInv => InitIsServed
  BY DEF ServedInv, InitInv
<1> QED
  BY <1>1, <1>2, <1>3, PTL DEF Spec

=============================================================================
