---------------------------- MODULE WslBootstrap ----------------------------
(***************************************************************************)
(* The WSL1 bootstrap of a WinPE guest, across reboots and power cuts.     *)
(*                                                                         *)
(*   cmd/winkit-service/init.go                  runInit: bootstrap or     *)
(*                                               activate                  *)
(*   cmd/winkit-service/bootstrap_wsl1.go        the bootstrap's steps     *)
(*   cmd/winkit-service/bootstrap_wsl1_windows.go  what each step does     *)
(*   build/pe.go                                 BootstrapPE: the host     *)
(*                                               that runs it in a build   *)
(*                                                                         *)
(* WinPE runs from a ramdisk: the registry, the services, drive letters    *)
(* and loaded hives are gone with every boot.  Only the data disk stays.   *)
(* Stopping the VM is a power cut: it loses what Windows has cached.       *)
(***************************************************************************)
EXTENDS Naturals, FiniteSets

CONSTANTS
    MaxFaults,        \* bound: steps that fail and power cuts in mid-step
    LazyWrites,       \* may Windows delay file writes (all but Sync'ed ones)?
    FlushInTime,      \* does 10 s suffice for every delayed write?
    FlushMayFail,     \* may RegFlushKey on the user hive fail?
    CopyInterrupts,   \* may a fault hit while the profile template is copied?
    VolumeMayHide,    \* may the data volume have no drive letter at boot?
    ImportOverOld     \* does wsl --import accept a directory with an old rootfs?

ASSUME BootstrapAssumption ==
    /\ MaxFaults \in Nat
    /\ {LazyWrites, FlushInTime, FlushMayFail, CopyInterrupts,
        VolumeMayHide, ImportOverOld} \subseteq BOOLEAN

\* What the data disk holds: the NTFS volume, the relocated WSL runtime, the
\* profile directory, its NTUSER.DAT, the distro's rootfs, the distro's
\* registration inside NTUSER.DAT, bootstrap.ok, the chocolatey packages.
Items == {"volume", "runtime", "profile", "ntuser", "distro", "lxss", "marker", "choco"}

\* What a later boot needs to run the distro without bootstrapping.
Essential == {"volume", "runtime", "profile", "ntuser", "distro", "lxss"}

VARIABLES
    disk,      \* SUBSET Items: on the data disk
    cache,     \* SUBSET Items: written by this boot, not on the disk yet
    mounted,   \* the data volume is E:
    hive,      \* the user hive: "none", loaded "bare", or with the "lxss" key
    svc,       \* WSLService runs, from the relocated runtime
    pc,        \* where winkit-service's init is
    host,      \* what runs the VM: a build, or users of the image
    faults     \* faults so far

vars == <<disk, cache, mounted, hive, svc, pc, host, faults>>
volatile == <<cache, mounted, hive, svc>>

Bootstrapping == {"b_volume", "b_pagefile", "b_relocate", "b_service", "b_user",
                  "b_profile", "b_copy", "b_hive", "b_import", "b_flush",
                  "b_marker", "b_choco"}
Activating == {"a_registry", "a_service", "a_hive"}
Settled == {"complete", "failed", "active", "afailed"}
PcValues == {"off", "volume", "marker"} \cup Bootstrapping \cup Activating \cup Settled

TypeOK ==
    /\ disk \subseteq Items
    /\ cache \subseteq Items
    /\ mounted \in BOOLEAN
    /\ hive \in {"none", "bare", "lxss"}
    /\ svc \in BOOLEAN
    /\ pc \in PcValues
    /\ host \in {"build", "flush", "built", "raw", "rejected"}
    /\ faults \in 0..MaxFaults

\* A fresh data disk, with or without a bootstrap during the build.
Init ==
    /\ disk = {} /\ cache = {}
    /\ mounted = FALSE /\ hive = "none" /\ svc = FALSE
    /\ pc = "off"
    /\ host \in {"build", "raw"}
    /\ faults = 0

-----------------------------------------------------------------------------
(* Helpers *)

\* What a program in the guest finds on E:.
Visible == IF mounted THEN disk \cup cache ELSE {}

Write(S) ==
    IF LazyWrites THEN cache' = cache \cup S /\ UNCHANGED disk
                  ELSE disk' = disk \cup S /\ UNCHANGED cache

WriteSync(S) == disk' = disk \cup S /\ UNCHANGED cache

Fault == faults < MaxFaults /\ faults' = faults + 1

\* A step of the bootstrap that returns an error ends it.
StepFails(l) ==
    /\ pc = l
    /\ Fault
    /\ pc' = "failed"
    /\ UNCHANGED <<disk, volatile, host>>

\* The guest loses power: a ramdisk system forgets all but the disk.
PowerCut ==
    /\ cache' = {} /\ mounted' = FALSE /\ hive' = "none" /\ svc' = FALSE
    /\ pc' = "off"

\* reg load of NTUSER.DAT, unless it is loaded already.
LoadHive ==
    IF hive # "none" THEN UNCHANGED hive
    ELSE /\ "ntuser" \in Visible
         /\ hive' = IF "lxss" \in Visible THEN "lxss" ELSE "bare"

-----------------------------------------------------------------------------
(* runInit *)

Boot ==
    /\ pc = "off"
    /\ host \in {"build", "built", "raw"}
    /\ pc' = "volume"
    /\ \/ UNCHANGED mounted
       \/ "volume" \in disk /\ mounted' = TRUE
    /\ UNCHANGED <<disk, cache, hive, svc, host, faults>>

\* Mutants of EnsureVolume: a label lookup that never finds the volume; a
\* volume that keeps another label.
EnsureVolumeFormats ==
    /\ mounted' = TRUE
    /\ IF mounted THEN UNCHANGED <<disk, cache>>
                  ELSE disk' = {"volume"} /\ cache' = {}

\* ensureWritableVolume: E: is there, or a volume labelled WSLROOT is found
\* under another letter, or diskpart cleans disk 0 and formats it.
EnsureVolume ==
    /\ mounted' = TRUE
    /\ \/ (mounted \/ "volume" \in disk) /\ UNCHANGED <<disk, cache>>
       \/ /\ ~mounted /\ ("volume" \notin disk \/ VolumeMayHide)
          /\ disk' = {"volume"} /\ cache' = {}

\* In init a volume error is only logged.
InitVolume ==
    /\ pc = "volume"
    /\ pc' = "marker"
    /\ \/ EnsureVolume /\ UNCHANGED faults
       \/ ~mounted /\ Fault /\ UNCHANGED <<disk, cache, mounted>>
    /\ UNCHANGED <<hive, svc, host>>

CheckMarker ==
    /\ pc = "marker"
    /\ pc' = IF "marker" \in Visible THEN "a_registry" ELSE "b_volume"
    /\ UNCHANGED <<disk, volatile, host, faults>>

-----------------------------------------------------------------------------
(* runBootstrapWSL1Steps *)

BootVolume ==
    /\ pc = "b_volume"
    /\ EnsureVolume
    /\ pc' = "b_pagefile"
    /\ UNCHANGED <<hive, svc, host, faults>>

BootPagefile ==
    /\ pc = "b_pagefile"
    /\ pc' = "b_relocate"
    /\ UNCHANGED <<disk, volatile, host, faults>>

\* relocateWSLRuntime copies every file again and points the registry at E:.
BootRelocate ==
    /\ pc = "b_relocate"
    /\ Write({"runtime"})
    /\ pc' = "b_service"
    /\ UNCHANGED <<mounted, hive, svc, host, faults>>

BootService ==
    /\ pc = "b_service"
    /\ svc' = TRUE
    /\ pc' = "b_user"
    /\ UNCHANGED <<disk, cache, mounted, hive, host, faults>>

BootUser ==
    /\ pc = "b_user"
    /\ pc' = "b_profile"
    /\ UNCHANGED <<disk, volatile, host, faults>>

\* Mutant of BootProfile: a directory that exists fails the step.
BootProfileMkdirFails ==
    /\ pc = "b_profile"
    /\ IF "profile" \in Visible
       THEN pc' = "failed" /\ UNCHANGED <<disk, cache>>
       ELSE pc' = "b_copy" /\ Write({"profile"})
    /\ UNCHANGED <<mounted, hive, svc, host, faults>>

\* setupWSLUser: the template is copied only if the directory is missing;
\* the copy creates the directory first, and NTUSER.DAT on the way.
BootProfile ==
    /\ pc = "b_profile"
    /\ IF "profile" \in Visible
       THEN pc' = "b_hive" /\ UNCHANGED <<disk, cache>>
       ELSE pc' = "b_copy" /\ Write({"profile"})
    /\ UNCHANGED <<mounted, hive, svc, host, faults>>

BootCopyProfile ==
    /\ pc = "b_copy"
    /\ Write({"ntuser"})
    /\ pc' = "b_hive"
    /\ UNCHANGED <<mounted, hive, svc, host, faults>>

BootLoadHive ==
    /\ pc = "b_hive"
    /\ LoadHive
    /\ pc' = "b_import"
    /\ UNCHANGED <<disk, cache, mounted, svc, host, faults>>

\* reg load has no NTUSER.DAT to load.
BootHiveMissing ==
    /\ pc = "b_hive"
    /\ hive = "none" /\ "ntuser" \notin Visible
    /\ pc' = "failed"
    /\ UNCHANGED <<disk, volatile, host, faults>>

\* importAndProbeDistro: import unless wsl -l lists the distro.
BootImport ==
    /\ pc = "b_import"
    /\ hive = "bare"
    /\ ImportOverOld \/ "distro" \notin Visible
    /\ Write({"distro"})
    /\ hive' = "lxss"
    /\ pc' = "b_flush"
    /\ UNCHANGED <<mounted, svc, host, faults>>

BootListed ==
    /\ pc = "b_import"
    /\ hive = "lxss" /\ "distro" \in Visible
    /\ pc' = "b_flush"
    /\ UNCHANGED <<disk, volatile, host, faults>>

\* wsl --import refuses the old rootfs, or the listed distro has no rootfs.
BootImportRefused ==
    /\ pc = "b_import"
    /\ \/ hive = "bare" /\ "distro" \in Visible /\ ~ImportOverOld
       \/ hive = "lxss" /\ "distro" \notin Visible
    /\ pc' = "failed"
    /\ UNCHANGED <<disk, volatile, host, faults>>

\* Mutant of BootFlush: the flush is left to Windows.
BootFlushSkipped ==
    /\ pc = "b_flush"
    /\ pc' = "b_marker"
    /\ UNCHANGED <<disk, volatile, host, faults>>

\* flushUserHive: RegFlushKey writes the hive to the disk; failing is logged.
BootFlush ==
    /\ pc = "b_flush"
    /\ pc' = "b_marker"
    /\ \/ WriteSync({"lxss", "ntuser"}) /\ UNCHANGED faults
       \/ FlushMayFail /\ Fault /\ UNCHANGED <<disk, cache>>
    /\ UNCHANGED <<mounted, hive, svc, host>>

\* writeAndSync of bootstrap.ok.
BootMarker ==
    /\ pc = "b_marker"
    /\ WriteSync({"marker"})
    /\ pc' = "b_choco"
    /\ UNCHANGED <<mounted, hive, svc, host, faults>>

\* Chocolatey is best effort; then init-bootstrap-complete is logged.
BootChoco ==
    /\ pc = "b_choco"
    /\ \/ Write({"choco"}) /\ UNCHANGED faults
       \/ Fault /\ UNCHANGED <<disk, cache>>
    /\ pc' = "complete"
    /\ UNCHANGED <<mounted, hive, svc, host>>

\* The marker was created, but writing or syncing it reported an error; init
\* only ever looks for the file.
BootMarkerFails ==
    /\ pc = "b_marker"
    /\ Fault
    /\ Write({"marker"})
    /\ pc' = "failed"
    /\ UNCHANGED <<mounted, hive, svc, host>>

BootFails ==
    \/ \E l \in Bootstrapping \ {"b_profile", "b_copy", "b_flush", "b_choco"} : StepFails(l)
    \/ CopyInterrupts /\ StepFails("b_copy")
    \/ BootMarkerFails

-----------------------------------------------------------------------------
(* activateWSL1 *)

\* The pagefile and the drivers are best effort; the registry is patched.
ActRegistry ==
    /\ pc = "a_registry"
    /\ pc' = "a_service"
    /\ UNCHANGED <<disk, volatile, host, faults>>

\* WSLService starts from the runtime on E:.
ActService ==
    /\ pc = "a_service"
    /\ IF "runtime" \in Visible THEN svc' = TRUE /\ pc' = "a_hive"
                                ELSE pc' = "afailed" /\ UNCHANGED svc
    /\ UNCHANGED <<disk, cache, mounted, hive, host, faults>>

ActLoadHive ==
    /\ pc = "a_hive"
    /\ \/ LoadHive /\ pc' = "active"
       \/ hive = "none" /\ "ntuser" \notin Visible /\ pc' = "afailed" /\ UNCHANGED hive
    /\ UNCHANGED <<disk, cache, mounted, svc, host, faults>>

ActFails ==
    /\ pc \in Activating
    /\ Fault
    /\ pc' = "afailed"
    /\ UNCHANGED <<disk, volatile, host>>

-----------------------------------------------------------------------------
(* Windows and the host *)

\* The cache manager writes something back, in any order.
Writeback ==
    /\ \E x \in cache : disk' = disk \cup {x} /\ cache' = cache \ {x}
    /\ UNCHANGED <<mounted, hive, svc, pc, host, faults>>

\* Windows flushes a loaded hive every now and then.
HiveWriteback ==
    /\ hive = "lxss" /\ "lxss" \notin disk
    /\ WriteSync({"lxss", "ntuser"})
    /\ UNCHANGED <<mounted, hive, svc, pc, host, faults>>

\* waitForBootstrapEvent reads init-bootstrap-complete.
HostSeesComplete ==
    /\ host = "build" /\ pc = "complete"
    /\ host' = "flush"
    /\ UNCHANGED <<disk, volatile, pc, faults>>

\* Mutant of HostQuits: QMP quit as soon as the event is read.
HostQuitsAtOnce ==
    /\ host = "flush"
    /\ host' = "built"
    /\ PowerCut
    /\ UNCHANGED <<disk, faults>>

\* Ten seconds for the guest's filesystem, QMP quit, and the image ships.
HostQuits ==
    /\ host = "flush"
    /\ FlushInTime => cache = {}
    /\ host' = "built"
    /\ PowerCut
    /\ UNCHANGED <<disk, faults>>

\* A failure event, the 45 minutes (the event may be missed: see LogTail), or
\* a dead VM: the build fails.
HostRejects ==
    /\ host = "build"
    /\ host' = "rejected"
    /\ PowerCut
    /\ UNCHANGED <<disk, faults>>

\* Users stop a settled guest as they like.
Stop ==
    /\ host \in {"built", "raw"}
    /\ pc \in Settled
    /\ PowerCut
    /\ UNCHANGED <<disk, host, faults>>

\* The VM is killed in the middle of a boot.
Kill ==
    /\ host \in {"built", "raw"}
    /\ pc \notin Settled \cup {"off"}
    /\ pc = "b_copy" => CopyInterrupts
    /\ Fault
    /\ PowerCut
    /\ UNCHANGED <<disk, host>>

-----------------------------------------------------------------------------
GuestNext ==
    \/ Boot \/ InitVolume \/ CheckMarker
    \/ BootVolume \/ BootPagefile \/ BootRelocate \/ BootService \/ BootUser
    \/ BootProfile \/ BootCopyProfile \/ BootLoadHive \/ BootHiveMissing
    \/ BootImport \/ BootListed \/ BootImportRefused
    \/ BootFlush \/ BootMarker \/ BootChoco
    \/ ActRegistry \/ ActService \/ ActLoadHive

FaultNext == BootFails \/ ActFails \/ Kill

HostNext == HostSeesComplete \/ HostQuits \/ HostRejects \/ Stop

Next == GuestNext \/ FaultNext \/ HostNext \/ Writeback \/ HiveWriteback

Spec == Init /\ [][Next]_vars

\* Windows writes back, init keeps going, and a user whose guest failed
\* starts it again.
Fairness ==
    /\ WF_vars(GuestNext)
    /\ WF_vars(Writeback)
    /\ WF_vars(pc \in {"failed", "afailed"} /\ Stop)

FairSpec == Spec /\ Fairness

-----------------------------------------------------------------------------
(* Properties *)

\* The guest can run the distro.
Usable ==
    /\ mounted /\ svc /\ hive = "lxss"
    /\ {"runtime", "distro"} \subseteq Visible

\* A boot that reports success serves the distro: the activate path skips
\* every check the bootstrap made, on the strength of bootstrap.ok.
ReadyIsUsable == pc \in {"complete", "active"} => Usable

\* bootstrap.ok "shows a previous bootstrap completed": all that a later
\* boot needs is on the disk.
MarkerMeansComplete == "marker" \in disk => Essential \subseteq disk

\* An image whose build bootstrapped it needs no bootstrap.
BuiltImageServes == host = "built" => Essential \cup {"marker"} \subseteq disk

\* What the bootstrap is for: provisioning happens once and survives every
\* reboot, and only a provisioned guest reports that it serves.
Promise == INSTANCE Provisioning WITH
    provisioned <- Essential \subseteq disk,
    serving <- pc \in {"complete", "active"}

ImplementsProvisioning == Promise!Spec

\* Whatever went wrong, restarting the guest ends with a usable distro.
EventuallyServes == host \in {"built", "raw"} ~> Usable
-----------------------------------------------------------------------------
(* Why these hold when writes are not delayed: the inductive invariant of   *)
(* the proofs, which the Safe run checks as well.                           *)

AfterFlush    == {"b_marker", "b_choco", "complete"}
AfterImport   == AfterFlush \cup {"b_flush"}
AfterHive     == AfterImport \cup {"b_import"}
AfterService  == AfterHive \cup {"b_user", "b_profile", "b_copy", "b_hive"}
AfterRelocate == AfterService \cup {"b_service"}
AfterVolume   == AfterRelocate \cup {"b_pagefile", "b_relocate", "active"} \cup Activating

\* What the disk's items say of one another.
DiskSane ==
    /\ cache = {}
    /\ mounted => "volume" \in disk
    /\ "ntuser" \in disk => "profile" \in disk
    /\ "marker" \in disk => Essential \subseteq disk

\* A loaded hive comes from the disk; only an import puts the key into it.
HiveSane ==
    /\ hive # "none" => mounted /\ "ntuser" \in disk
    /\ hive = "lxss" \/ "lxss" \in disk => "distro" \in disk
    /\ pc \in {"off", "volume", "marker"} \cup Activating => hive = "none"

\* What each step of the bootstrap can rely on.
StepsSane ==
    /\ pc = "off" => ~mounted /\ ~svc
    /\ pc \in AfterVolume => mounted
    /\ pc \in AfterRelocate => "runtime" \in disk
    /\ pc \in AfterService \cup {"a_hive", "active"} => svc
    /\ pc = "b_copy" => "profile" \in disk
    /\ pc \in AfterHive => hive # "none"
    /\ pc \in AfterImport => hive = "lxss"
    /\ pc \in AfterFlush => Essential \subseteq disk
    /\ pc \in Activating \cup {"active"} => "marker" \in disk
    /\ pc = "active" => hive = "lxss"

BootstrapInv == DiskSane /\ HiveSane /\ StepsSane
=============================================================================
