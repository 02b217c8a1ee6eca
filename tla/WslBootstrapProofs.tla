------------------------- MODULE WslBootstrapProofs -------------------------
(***************************************************************************)
(* Proofs about WslBootstrap.  Types hold for every value of the           *)
(* constants.  The recovery theorems assume WriteThrough: file writes      *)
(* reach the disk as they are made, RegFlushKey works, and the data volume *)
(* is found once it exists; the number of faults, interrupted copies and   *)
(* the behaviour of wsl --import over an old rootfs are arbitrary.         *)
(***************************************************************************)
EXTENDS WslBootstrap, TLAPS

WriteThrough == ~LazyWrites /\ ~FlushMayFail /\ ~VolumeMayHide

\* The initial disk, guest and host are well typed.
LEMMA TypeInit == Init => TypeOK
<1>1. 0 \in 0..MaxFaults
  BY BootstrapAssumption DEF BootstrapAssumption
<1> QED
  BY <1>1 DEF Init, TypeOK, PcValues

\* The number of faults stays within its bound.
LEMMA FaultBound == faults \in 0..MaxFaults /\ Fault => faults' \in 0..MaxFaults
  BY BootstrapAssumption DEF BootstrapAssumption, Fault

\* A step of the guest keeps every variable in its type.
LEMMA TypeGuest == TypeOK /\ GuestNext => TypeOK'
<1> SUFFICES ASSUME TypeOK, GuestNext PROVE TypeOK'
  OBVIOUS
<1> USE DEF TypeOK, PcValues, Bootstrapping, Activating, Settled, Items, volatile,
            Write, WriteSync
<1>1. CASE Boot
  BY <1>1 DEF Boot
<1>2. CASE InitVolume
  BY <1>2, FaultBound DEF InitVolume, EnsureVolume
<1>3. CASE CheckMarker
  BY <1>3 DEF CheckMarker
<1>4. CASE BootVolume
  BY <1>4 DEF BootVolume, EnsureVolume
<1>5. CASE BootPagefile \/ BootRelocate \/ BootService \/ BootUser
  BY <1>5 DEF BootPagefile, BootRelocate, BootService, BootUser
<1>6. CASE BootProfile \/ BootCopyProfile
  BY <1>6 DEF BootProfile, BootCopyProfile
<1>7. CASE BootLoadHive \/ BootHiveMissing
  BY <1>7 DEF BootLoadHive, BootHiveMissing, LoadHive
<1>8. CASE BootImport \/ BootListed \/ BootImportRefused
  BY <1>8 DEF BootImport, BootListed, BootImportRefused
<1>9. CASE BootFlush \/ BootMarker \/ BootChoco
  BY <1>9, FaultBound DEF BootFlush, BootMarker, BootChoco
<1>10. CASE ActRegistry \/ ActService
  BY <1>10 DEF ActRegistry, ActService
<1>11. CASE ActLoadHive
  BY <1>11 DEF ActLoadHive, LoadHive
<1> QED
  BY <1>1, <1>2, <1>3, <1>4, <1>5, <1>6, <1>7, <1>8, <1>9, <1>10, <1>11 DEF GuestNext

\* So does every other step.
LEMMA TypeRest ==
  TypeOK /\ (FaultNext \/ HostNext \/ Writeback \/ HiveWriteback) => TypeOK'
<1> SUFFICES ASSUME TypeOK, FaultNext \/ HostNext \/ Writeback \/ HiveWriteback
             PROVE  TypeOK'
  OBVIOUS
<1> USE DEF TypeOK, PcValues, Bootstrapping, Activating, Settled, Items, volatile,
            Write, WriteSync, PowerCut
<1>1. CASE BootFails
  BY <1>1, FaultBound DEF BootFails, StepFails, BootMarkerFails
<1>2. CASE ActFails \/ Kill
  BY <1>2, FaultBound DEF ActFails, Kill
<1>3. CASE HostNext
  BY <1>3 DEF HostNext, HostSeesComplete, HostQuits, HostRejects, Stop
<1>4. CASE Writeback \/ HiveWriteback
  <2>1. UNCHANGED <<mounted, hive, svc, pc, host, faults>>
    BY <1>4 DEF Writeback, HiveWriteback
  <2>2. disk' \subseteq Items /\ cache' \subseteq Items
    BY <1>4 DEF Writeback, HiveWriteback
  <2> QED
    BY <2>1, <2>2
<1> QED
  BY <1>1, <1>2, <1>3, <1>4 DEF FaultNext

\* Every variable of init, the guest's disk and the host stays in its type,
\* whatever the faults and however Windows writes its files.
THEOREM TypeCorrect == Spec => []TypeOK
<1>1. TypeOK /\ [Next]_vars => TypeOK'
  <2> SUFFICES ASSUME TypeOK, [Next]_vars PROVE TypeOK'
    OBVIOUS
  <2>1. CASE UNCHANGED vars
    BY <2>1 DEF vars, TypeOK
  <2> QED
    BY <2>1, TypeGuest, TypeRest DEF Next
<1> QED
  BY TypeInit, <1>1, PTL DEF Spec

-----------------------------------------------------------------------------
\* Nothing is on the disk at first.
LEMMA InvInit == Init => BootstrapInv
  BY DEF Init, BootstrapInv, DiskSane, HiveSane, StepsSane, AfterVolume, AfterRelocate,
         AfterService, AfterHive, AfterImport, AfterFlush, Activating, Essential

\* A step of the bootstrap leaves to the next one what that one relies on.
LEMMA InvBootstrap ==
  ASSUME WriteThrough, TypeOK, BootstrapInv,
         \/ BootVolume \/ BootPagefile \/ BootRelocate \/ BootService \/ BootUser
         \/ BootProfile \/ BootCopyProfile \/ BootLoadHive \/ BootHiveMissing
         \/ BootImport \/ BootListed \/ BootImportRefused
         \/ BootFlush \/ BootMarker \/ BootChoco
  PROVE  BootstrapInv'
<1> USE DEF WriteThrough, BootstrapInv, DiskSane, HiveSane, StepsSane, AfterVolume,
            AfterRelocate, AfterService, AfterHive, AfterImport, AfterFlush, Activating,
            Essential, Items, volatile, Write, WriteSync, Fault, Visible
<1>1. CASE BootVolume
  BY <1>1 DEF BootVolume, EnsureVolume
<1>2. CASE BootPagefile \/ BootUser
  BY <1>2 DEF BootPagefile, BootUser
<1>3. CASE BootRelocate \/ BootService
  BY <1>3 DEF BootRelocate, BootService
<1>4. CASE BootProfile
  BY <1>4 DEF BootProfile
<1>5. CASE BootCopyProfile
  BY <1>5 DEF BootCopyProfile
<1>6. CASE BootLoadHive \/ BootHiveMissing
  BY <1>6 DEF BootLoadHive, BootHiveMissing, LoadHive
<1>7. CASE BootImport \/ BootListed \/ BootImportRefused
  BY <1>7 DEF BootImport, BootListed, BootImportRefused
<1>8. CASE BootFlush
  BY <1>8 DEF BootFlush
<1>9. CASE BootMarker \/ BootChoco
  BY <1>9 DEF BootMarker, BootChoco
<1> QED
  BY <1>1, <1>2, <1>3, <1>4, <1>5, <1>6, <1>7, <1>8, <1>9

\* A boot starts from the disk alone and takes the path the marker tells.
LEMMA InvBoot ==
  ASSUME WriteThrough, TypeOK, BootstrapInv,
         Boot \/ InitVolume \/ CheckMarker \/ ActRegistry \/ ActService \/ ActLoadHive
  PROVE  BootstrapInv'
<1> USE DEF WriteThrough, BootstrapInv, DiskSane, HiveSane, StepsSane, AfterVolume,
            AfterRelocate, AfterService, AfterHive, AfterImport, AfterFlush, Activating,
            Essential, Items, volatile, Fault, Visible
<1>1. CASE Boot
  BY <1>1 DEF Boot
<1>2. CASE InitVolume
  BY <1>2 DEF InitVolume, EnsureVolume
<1>3. CASE CheckMarker
  BY <1>3 DEF CheckMarker
<1>4. CASE ActRegistry \/ ActService
  BY <1>4 DEF ActRegistry, ActService
<1>5. CASE ActLoadHive
  BY <1>5 DEF ActLoadHive, LoadHive
<1> QED
  BY <1>1, <1>2, <1>3, <1>4, <1>5

\* A fault, a power cut or a write-back takes nothing from the disk.
LEMMA InvRest ==
  ASSUME WriteThrough, TypeOK, BootstrapInv,
         FaultNext \/ HostNext \/ Writeback \/ HiveWriteback
  PROVE  BootstrapInv'
<1> USE DEF WriteThrough, BootstrapInv, DiskSane, HiveSane, StepsSane, AfterVolume,
            AfterRelocate, AfterService, AfterHive, AfterImport, AfterFlush, Activating,
            Essential, Items, volatile, Write, WriteSync, Fault, PowerCut, Settled
<1>1. CASE BootFails
  BY <1>1 DEF BootFails, StepFails, BootMarkerFails
<1>2. CASE ActFails
  BY <1>2 DEF ActFails
<1>3. CASE Kill
  BY <1>3 DEF Kill
<1>4. CASE HostNext
  BY <1>4 DEF HostNext, HostSeesComplete, HostQuits, HostRejects, Stop
<1>5. CASE Writeback \/ HiveWriteback
  BY <1>5 DEF Writeback, HiveWriteback
<1> QED
  BY <1>1, <1>2, <1>3, <1>4, <1>5 DEF FaultNext

\* The inductive invariant of the bootstrap.
THEOREM BootstrapCorrect == WriteThrough => (Spec => []BootstrapInv)
<1> SUFFICES ASSUME WriteThrough PROVE Spec => []BootstrapInv
  OBVIOUS
<1>1. BootstrapInv /\ TypeOK /\ [Next]_vars => BootstrapInv'
  <2> SUFFICES ASSUME BootstrapInv, TypeOK, [Next]_vars PROVE BootstrapInv'
    OBVIOUS
  <2>1. CASE UNCHANGED vars
    BY <2>1 DEF vars, BootstrapInv, DiskSane, HiveSane, StepsSane
  <2>2. CASE GuestNext
    BY <2>2, InvBootstrap, InvBoot DEF GuestNext
  <2>3. CASE FaultNext \/ HostNext \/ Writeback \/ HiveWriteback
    BY <2>3, InvRest
  <2> QED
    BY <2>1, <2>2, <2>3 DEF Next
<1> QED
  BY InvInit, TypeCorrect, <1>1, PTL DEF Spec

\* bootstrap.ok is on the disk only if everything a later boot needs is too,
\* so that init is right to skip the bootstrap when it sees the marker.
THEOREM MarkerCorrect == WriteThrough => (Spec => []MarkerMeansComplete)
<1>1. BootstrapInv => MarkerMeansComplete
  BY DEF BootstrapInv, DiskSane, MarkerMeansComplete
<1> QED
  BY BootstrapCorrect, <1>1, PTL

\* A boot that reports success, by either path, can run the distro.
THEOREM ReadyCorrect == WriteThrough => (Spec => []ReadyIsUsable)
<1>1. BootstrapInv => ReadyIsUsable
  BY DEF BootstrapInv, DiskSane, HiveSane, StepsSane, ReadyIsUsable, Usable, Visible,
         AfterVolume, AfterRelocate, AfterService, AfterHive, AfterImport, AfterFlush,
         Essential
<1> QED
  BY BootstrapCorrect, <1>1, PTL

-----------------------------------------------------------------------------
\* No step takes an essential item off the disk: the volume is formatted only
\* while there is none.
LEMMA ProvisionedGrows ==
  ASSUME WriteThrough, Next, Essential \subseteq disk
  PROVE  Essential \subseteq disk'
<1> USE DEF WriteThrough, Essential, volatile, Write, WriteSync, PowerCut
<1>1. CASE Boot \/ InitVolume \/ CheckMarker \/ BootVolume
  BY <1>1 DEF Boot, InitVolume, CheckMarker, BootVolume, EnsureVolume
<1>2. CASE BootPagefile \/ BootRelocate \/ BootService \/ BootUser
  BY <1>2 DEF BootPagefile, BootRelocate, BootService, BootUser
<1>3. CASE BootProfile \/ BootCopyProfile \/ BootLoadHive \/ BootHiveMissing
  BY <1>3 DEF BootProfile, BootCopyProfile, BootLoadHive, BootHiveMissing
<1>4. CASE BootImport \/ BootListed \/ BootImportRefused
  BY <1>4 DEF BootImport, BootListed, BootImportRefused
<1>5. CASE BootFlush \/ BootMarker \/ BootChoco
  BY <1>5 DEF BootFlush, BootMarker, BootChoco
<1>6. CASE ActRegistry \/ ActService \/ ActLoadHive
  BY <1>6 DEF ActRegistry, ActService, ActLoadHive
<1>7. CASE FaultNext
  BY <1>7 DEF FaultNext, BootFails, StepFails, BootMarkerFails, ActFails, Kill
<1>8. CASE HostNext
  BY <1>8 DEF HostNext, HostSeesComplete, HostQuits, HostRejects, Stop
<1>9. CASE Writeback \/ HiveWriteback
  BY <1>9 DEF Writeback, HiveWriteback
<1> QED
  BY <1>1, <1>2, <1>3, <1>4, <1>5, <1>6, <1>7, <1>8, <1>9 DEF Next, GuestNext

\* Success is reported from two places only, and both are past the marker.
LEMMA ServingStarts ==
  ASSUME Next, pc \notin {"complete", "active"}, pc' \in {"complete", "active"}
  PROVE  pc \in {"b_choco", "a_hive"}
<1> USE DEF volatile, PowerCut
<1>1. CASE Boot \/ InitVolume \/ CheckMarker \/ BootVolume
  BY <1>1 DEF Boot, InitVolume, CheckMarker, BootVolume
<1>2. CASE BootPagefile \/ BootRelocate \/ BootService \/ BootUser
  BY <1>2 DEF BootPagefile, BootRelocate, BootService, BootUser
<1>3. CASE BootProfile \/ BootCopyProfile \/ BootLoadHive \/ BootHiveMissing
  BY <1>3 DEF BootProfile, BootCopyProfile, BootLoadHive, BootHiveMissing
<1>4. CASE BootImport \/ BootListed \/ BootImportRefused
  BY <1>4 DEF BootImport, BootListed, BootImportRefused
<1>5. CASE BootFlush \/ BootMarker \/ BootChoco
  BY <1>5 DEF BootFlush, BootMarker, BootChoco
<1>6. CASE ActRegistry \/ ActService \/ ActLoadHive
  BY <1>6 DEF ActRegistry, ActService, ActLoadHive
<1>7. CASE FaultNext
  BY <1>7 DEF FaultNext, BootFails, StepFails, BootMarkerFails, ActFails, Kill
<1>8. CASE HostNext
  BY <1>8 DEF HostNext, HostSeesComplete, HostQuits, HostRejects, Stop
<1>9. CASE Writeback \/ HiveWriteback
  BY <1>9 DEF Writeback, HiveWriteback
<1> QED
  BY <1>1, <1>2, <1>3, <1>4, <1>5, <1>6, <1>7, <1>8, <1>9 DEF Next, GuestNext

\* The bootstrap keeps the promise of Provisioning: provisioned once and for
\* good, and serving only what has been provisioned.
THEOREM ProvisioningImplemented == WriteThrough => (Spec => ImplementsProvisioning)
<1> SUFFICES ASSUME WriteThrough PROVE Spec => Promise!Spec
  BY DEF ImplementsProvisioning
<1>1. Init => Promise!Init
  BY DEF Init, Promise!Init, Essential
<1>2. BootstrapInv /\ [Next]_vars => [Promise!Next]_Promise!vars
  <2> SUFFICES ASSUME BootstrapInv, [Next]_vars
               PROVE  [Promise!Next]_Promise!vars
    OBVIOUS
  <2> USE DEF Promise!Next, Promise!vars, Promise!Provision, Promise!Serve,
              Promise!Reboot
  <2>1. CASE UNCHANGED vars
    BY <2>1 DEF vars
  <2>2. CASE Next
    <3> DEFINE serving == pc \in {"complete", "active"}
               provisioned == Essential \subseteq disk
    <3>1. provisioned => provisioned'
      BY <2>2, ProvisionedGrows
    <3>2. pc \in {"b_choco", "a_hive", "complete", "active"} => provisioned
      BY DEF BootstrapInv, DiskSane, StepsSane, AfterFlush, Activating
    <3>3. serving' => serving \/ pc \in {"b_choco", "a_hive"}
      BY <2>2, ServingStarts
    <3>4. CASE serving'
      BY <3>1, <3>2, <3>3, <3>4
    <3>5. CASE ~serving' /\ serving
      BY <3>1, <3>2, <3>5
    <3>6. CASE ~serving' /\ ~serving
      BY <3>1, <3>6
    <3> QED
      BY <3>4, <3>5, <3>6
  <2> QED
    BY <2>1, <2>2
<1> QED
  BY <1>1, <1>2, BootstrapCorrect, PTL DEF Spec, Promise!Spec

-----------------------------------------------------------------------------
(* The image that a build ships, when Windows delays its writes.  In the     *)
(* build there is one boot and no power cut before the host quits, so what   *)
(* the bootstrap relies on is on the disk or in the cache.                   *)

\* The 10 seconds suffice, RegFlushKey works, and the volume is found.
BuildAssumption == FlushInTime /\ ~FlushMayFail /\ ~VolumeMayHide

Stored == disk \cup cache
FirstBoot ==
  /\ pc \in AfterVolume => mounted
  /\ mounted => "volume" \in disk
  /\ pc \in AfterRelocate => "runtime" \in Stored
  /\ pc = "b_copy" \/ "ntuser" \in Stored => "profile" \in Stored
  /\ hive # "none" => "ntuser" \in Stored
  /\ hive = "lxss" \/ "lxss" \in Stored => "distro" \in Stored
  /\ pc \in {"off", "volume", "marker", "b_volume"} => hive = "none"
  /\ pc = "off" => ~mounted
  /\ pc \in AfterHive => hive # "none"
  /\ pc \in AfterImport => hive = "lxss"
  /\ pc \in AfterFlush => "lxss" \in Stored
  /\ pc \in {"b_choco", "complete"} => "marker" \in Stored

ImageInv ==
  /\ host \in {"build", "flush"} => FirstBoot
  /\ host = "flush" => pc = "complete"
  /\ BuiltImageServes

LEMMA ImageInit == Init => ImageInv
  BY DEF Init, ImageInv, FirstBoot, Stored, BuiltImageServes, AfterVolume, AfterRelocate,
         AfterService, AfterHive, AfterImport, AfterFlush, Activating

\* A step of the guest in the build, and in the image that was built.
LEMMA FirstBootGuest ==
  ASSUME BuildAssumption, TypeOK, FirstBoot, GuestNext PROVE FirstBoot'
<1> USE DEF BuildAssumption, FirstBoot, Stored, Visible, AfterVolume, AfterRelocate, AfterService,
            AfterHive, AfterImport, AfterFlush, Activating, volatile, Write, WriteSync, Fault
<1>1. CASE Boot
  BY <1>1 DEF Boot
<1>2. CASE InitVolume \/ BootVolume
  BY <1>2 DEF InitVolume, BootVolume, EnsureVolume
<1>3. CASE CheckMarker
  BY <1>3 DEF CheckMarker
<1>4. CASE BootPagefile \/ BootUser \/ BootService
  BY <1>4 DEF BootPagefile, BootUser, BootService
<1>5. CASE BootRelocate
  BY <1>5 DEF BootRelocate
<1>6. CASE BootProfile
  BY <1>6 DEF BootProfile
<1>7. CASE BootCopyProfile
  BY <1>7 DEF BootCopyProfile
<1>8. CASE BootLoadHive \/ BootHiveMissing
  BY <1>8 DEF BootLoadHive, BootHiveMissing, LoadHive
<1>9. CASE BootImport
  BY <1>9 DEF BootImport
<1>10. CASE BootListed \/ BootImportRefused
  BY <1>10 DEF BootListed, BootImportRefused
<1>11. CASE BootFlush
  BY <1>11 DEF BootFlush
<1>12. CASE BootMarker
  BY <1>12 DEF BootMarker
<1>13. CASE BootChoco
  BY <1>13 DEF BootChoco
<1>14. CASE ActRegistry \/ ActService
  BY <1>14 DEF ActRegistry, ActService
<1>15. CASE ActLoadHive
  BY <1>15 DEF ActLoadHive, LoadHive
<1> QED
  BY <1>1, <1>2, <1>3, <1>4, <1>5, <1>6, <1>7, <1>8, <1>9, <1>10, <1>11, <1>12, <1>13, <1>14,
     <1>15 DEF GuestNext

\* A step that fails ends the bootstrap; a write-back moves what is stored.
LEMMA FirstBootRest ==
  ASSUME BuildAssumption, TypeOK, FirstBoot, BootFails \/ ActFails \/ Writeback \/ HiveWriteback
  PROVE  FirstBoot'
<1> USE DEF FirstBoot, Stored, AfterVolume, AfterRelocate, AfterService, AfterHive, AfterImport,
            AfterFlush, Activating, volatile, Write, WriteSync
<1>1. CASE BootFails
  <2>1. /\ pc' = "failed" /\ UNCHANGED <<mounted, hive>>
        /\ disk \subseteq disk' /\ cache \subseteq cache'
        /\ Stored' \subseteq Stored \cup {"marker"}
    BY <1>1 DEF BootFails, StepFails, BootMarkerFails
  <2> QED
    BY <2>1
<1>2. CASE ActFails
  BY <1>2 DEF ActFails
<1>3. CASE Writeback
  <2>1. UNCHANGED <<pc, mounted, hive>> /\ Stored' = Stored /\ disk \subseteq disk'
    BY <1>3 DEF Writeback
  <2> QED
    BY <2>1
<1>4. CASE HiveWriteback
  <2>1. /\ UNCHANGED <<pc, mounted, hive>> /\ hive = "lxss" /\ disk \subseteq disk'
        /\ Stored' = Stored \cup {"lxss", "ntuser"}
    BY <1>4 DEF HiveWriteback
  <2> QED
    BY <2>1
<1> QED
  BY <1>1, <1>2, <1>3, <1>4

\* Nothing is taken off a disk that has its volume.
LEMMA DiskGrows ==
  ASSUME BuildAssumption, Next, "volume" \in disk PROVE disk \subseteq disk'
<1> USE DEF BuildAssumption, volatile, Write, WriteSync, PowerCut
<1>1. CASE Boot \/ InitVolume \/ CheckMarker \/ BootVolume
  BY <1>1 DEF Boot, InitVolume, CheckMarker, BootVolume, EnsureVolume
<1>2. CASE BootPagefile \/ BootRelocate \/ BootService \/ BootUser
  BY <1>2 DEF BootPagefile, BootRelocate, BootService, BootUser
<1>3. CASE BootProfile \/ BootCopyProfile \/ BootLoadHive \/ BootHiveMissing
  BY <1>3 DEF BootProfile, BootCopyProfile, BootLoadHive, BootHiveMissing
<1>4. CASE BootImport \/ BootListed \/ BootImportRefused
  BY <1>4 DEF BootImport, BootListed, BootImportRefused
<1>5. CASE BootFlush \/ BootMarker \/ BootChoco
  BY <1>5 DEF BootFlush, BootMarker, BootChoco
<1>6. CASE ActRegistry \/ ActService \/ ActLoadHive
  BY <1>6 DEF ActRegistry, ActService, ActLoadHive
<1>7. CASE FaultNext
  BY <1>7 DEF FaultNext, BootFails, StepFails, BootMarkerFails, ActFails, Kill
<1>8. CASE HostNext
  BY <1>8 DEF HostNext, HostSeesComplete, HostQuits, HostRejects, Stop
<1>9. CASE Writeback \/ HiveWriteback
  BY <1>9 DEF Writeback, HiveWriteback
<1> QED
  BY <1>1, <1>2, <1>3, <1>4, <1>5, <1>6, <1>7, <1>8, <1>9 DEF Next, GuestNext

\* What the host does; only its quit makes an image of what the build wrote.
LEMMA HostSteps ==
  ASSUME Next
  PROVE  \/ UNCHANGED host /\ (GuestNext \/ BootFails \/ ActFails \/ Writeback \/ HiveWriteback)
         \/ UNCHANGED host /\ host \in {"built", "raw"}
         \/ HostSeesComplete \/ HostQuits \/ host' = "rejected"
<1>1. CASE GuestNext
  BY <1>1 DEF GuestNext, Boot, InitVolume, CheckMarker, BootVolume, BootPagefile, BootRelocate,
    BootService, BootUser, BootProfile, BootCopyProfile, BootLoadHive, BootHiveMissing, BootImport,
    BootListed, BootImportRefused, BootFlush, BootMarker, BootChoco, ActRegistry, ActService, ActLoadHive
<1>2. CASE BootFails \/ ActFails \/ Writeback \/ HiveWriteback
  BY <1>2 DEF BootFails, StepFails, BootMarkerFails, ActFails, Writeback, HiveWriteback
<1>3. CASE Kill \/ HostNext
  BY <1>3 DEF Kill, HostNext, HostRejects, Stop
<1> QED
  BY <1>1, <1>2, <1>3 DEF Next, FaultNext

LEMMA ImageStep == ASSUME BuildAssumption, TypeOK, ImageInv, Next PROVE ImageInv'
<1>1. CASE UNCHANGED host /\ host \in {"built", "raw"}
  <2>1. host = "built" => Essential \cup {"marker"} \subseteq disk'
    BY DiskGrows DEF ImageInv, BuiltImageServes, Essential
  <2> QED
    BY <1>1, <2>1 DEF ImageInv, BuiltImageServes
<1>2. CASE host \in {"build", "flush"} /\ UNCHANGED host
           /\ (GuestNext \/ BootFails \/ ActFails \/ Writeback \/ HiveWriteback)
  <2>1. FirstBoot'
    BY <1>2, FirstBootGuest, FirstBootRest DEF ImageInv
  <2>2. host = "flush" => pc' = "complete"
    <3> SUFFICES ASSUME host = "flush" PROVE pc' = "complete"
      OBVIOUS
    <3>1. pc = "complete"
      BY DEF ImageInv
    <3>2. ~GuestNext
      BY <3>1 DEF GuestNext, Boot, InitVolume, CheckMarker, BootVolume, BootPagefile, BootRelocate,
        BootService, BootUser, BootProfile, BootCopyProfile, BootLoadHive, BootHiveMissing,
        BootImport, BootListed, BootImportRefused, BootFlush, BootMarker, BootChoco, ActRegistry,
        ActService, ActLoadHive
    <3>3. ~(BootFails \/ ActFails)
      BY <3>1 DEF BootFails, StepFails, BootMarkerFails, ActFails, Bootstrapping, Activating
    <3> QED
      BY <1>2, <3>1, <3>2, <3>3 DEF Writeback, HiveWriteback
  <2> QED
    BY <1>2, <2>1, <2>2 DEF ImageInv, BuiltImageServes
<1>3. CASE host = "rejected" /\ UNCHANGED host
  BY <1>3 DEF ImageInv, BuiltImageServes
<1>4. CASE HostSeesComplete
  <2>1. host = "build" /\ host' = "flush" /\ pc' = "complete"
        /\ UNCHANGED <<disk, cache, mounted, hive, svc, pc>>
    BY <1>4 DEF HostSeesComplete, volatile
  <2> QED
    BY <2>1 DEF ImageInv, FirstBoot, Stored, BuiltImageServes
<1>5. CASE HostQuits
  <2>1. host = "flush" /\ host' = "built" /\ cache = {} /\ UNCHANGED disk
    BY <1>5 DEF HostQuits, BuildAssumption
  <2>2. FirstBoot /\ pc = "complete" /\ Stored = disk
    BY <2>1 DEF ImageInv, Stored
  <2>3. Essential \cup {"marker"} \subseteq disk
    BY <2>2 DEF FirstBoot, Essential, AfterVolume, AfterRelocate, AfterService, AfterHive,
      AfterImport, AfterFlush
  <2> QED
    BY <2>1, <2>3 DEF ImageInv, BuiltImageServes
<1>6. CASE host' = "rejected"
  BY <1>6 DEF ImageInv, BuiltImageServes
<1>7. host \in {"build", "flush", "built", "raw", "rejected"}
  BY DEF TypeOK
<1> QED
  BY <1>1, <1>2, <1>3, <1>4, <1>5, <1>6, <1>7, HostSteps

\* An image whose build bootstrapped it has all that a later boot needs, marker
\* included, although Windows wrote it back in any order, and no later boot or
\* power cut takes it away.
THEOREM BuiltImageCorrect == BuildAssumption => (Spec => []BuiltImageServes)
<1> SUFFICES ASSUME BuildAssumption PROVE Spec => []BuiltImageServes
  OBVIOUS
<1>1. ImageInv /\ TypeOK /\ [Next]_vars => ImageInv'
  <2> SUFFICES ASSUME ImageInv, TypeOK, [Next]_vars PROVE ImageInv'
    OBVIOUS
  <2>1. CASE UNCHANGED vars
    BY <2>1 DEF vars, ImageInv, FirstBoot, Stored, BuiltImageServes
  <2> QED
    BY <2>1, ImageStep
<1>2. ImageInv => BuiltImageServes
  BY DEF ImageInv
<1> QED
  BY ImageInit, TypeCorrect, <1>1, <1>2, PTL DEF Spec
=============================================================================
