--------------------------- MODULE ImageBuildProofs ---------------------------
(***************************************************************************)
(* Proofs about ImageBuild, for every list of hooks, every set of          *)
(* configurations, and a guest that may hang.  The theorems about the      *)
(* shutdown assume what the code's fixed sleep does: that a guest which    *)
(* accepted one needs no more than 15 seconds.                             *)
(***************************************************************************)
EXTENDS ImageBuild, TLAPS

-----------------------------------------------------------------------------
(* Types.                                                                    *)

\* For the steps that assign a boolean: SMT takes BOOLEAN for an unknown set.
LEMMA Truth == TRUE \in BOOLEAN /\ FALSE \in BOOLEAN
BY Zenon

\* A configuration of a build is a record of the declared shape.
LEMMA ConfigShape ==
  ASSUME cfg \in Configs
  PROVE  /\ cfg.mode \in {"base", "wsl", "continue"} /\ cfg.distro \in BOOLEAN
         /\ cfg.share \in {"none", "task", "s6"} /\ cfg.keep \in BOOLEAN
         /\ cfg.secure \in BOOLEAN /\ cfg.interactive \in BOOLEAN
         /\ cfg.mode = "base" => ~cfg.distro /\ cfg.share = "none"
         /\ cfg.share = "s6" => cfg.distro
  BY ConfigsAssumption DEF ConfigsAssumption, Config

\* The hooks are numbered from one, and each has its number of retries.
LEMMA HookShape ==
  /\ HookIds = 1..Len(Hooks) /\ Len(Hooks) \in Nat
  /\ \A i \in HookIds : /\ Hooks[i].retries \in Nat /\ Hooks[i].phase \in Phases
                        /\ Hooks[i].reboot \in BOOLEAN
<1> DEFINE H == [phase : Phases, retries : Nat, reboot : BOOLEAN]
<1>1. Hooks \in Seq(H)
  BY HooksAssumption DEF HooksAssumption
<1>2. HookIds = 1..Len(Hooks) /\ Len(Hooks) \in Nat /\ \A i \in HookIds : Hooks[i] \in H
  <2> HIDE DEF H
  <2> QED
    BY <1>1 DEF HookIds
<1> QED
  BY <1>2

\* A build that has not started is well typed.
LEMMA TypeInit == Init => TypeOK
<1> SUFFICES ASSUME Init PROVE TypeOK
  OBVIOUS
<1>1. HostOK
  BY DEF Init, HostOK
<1>2. GuestOK
  <2>1. 0 \in 0..OffSeconds
    BY OffAssumption DEF OffAssumption
  <2>2. have \subseteq Items /\ boot \in {"before", "done"}
    BY DEF Init, Items
  <2> QED
    BY <2>1, <2>2 DEF Init, GuestOK
<1>3. HooksOK
  BY DEF Init, HooksOK
<1> QED
  BY <1>1, <1>2, <1>3 DEF TypeOK

\* A part whose variables stay as they are stays well typed.
LEMMA TypeUnchanged ==
  ASSUME TypeOK
  PROVE  /\ UNCHANGED <<cfg, host>> => HostOK'
         /\ UNCHANGED guest => GuestOK'
         /\ UNCHANGED hooking => HooksOK'
<1>1. UNCHANGED <<cfg, host>> => HostOK'
  BY DEF TypeOK, HostOK, host
<1>2. UNCHANGED guest => GuestOK'
  BY DEF TypeOK, GuestOK, guest
<1>3. UNCHANGED hooking => HooksOK'
  BY DEF TypeOK, HooksOK, hooking
<1> QED
  BY <1>1, <1>2, <1>3

\* The host's sleeps, a shutdown and the end of QEMU keep the guest's types.
LEMMA TypeStops ==
  ASSUME TypeOK, NEW n \in Nat, Sleeps(n) \/ Unplugged \/ PowersOff
  PROVE  GuestOK' /\ HooksOK'
<1>1. 0 \in 0..OffSeconds
  BY OffAssumption DEF OffAssumption
<1>2. CASE PowersOff
  BY <1>1, <1>2 DEF TypeOK, GuestOK, HooksOK, PowersOff, WindowsStops
<1>3. CASE Unplugged
  BY <1>1, <1>3 DEF TypeOK, GuestOK, HooksOK, Unplugged, WindowsStops
<1>4. CASE Sleeps(n) /\ ~PowersOff
  <2>1. left' \in 0..OffSeconds
    BY <1>4, OffAssumption DEF TypeOK, GuestOK, Sleeps, OffAssumption
  <2> QED
    BY <1>4, <2>1 DEF TypeOK, GuestOK, HooksOK, Sleeps, hooking
<1> QED
  BY <1>2, <1>3, <1>4

\* A step of the host program up to the channel keeps every type.
LEMMA TypeInstall ==
  ASSUME TypeOK,
         \/ Prepare \/ StartShare \/ Payload \/ MakeDisk \/ Launch
         \/ WaitGosshd \/ WaitOpenSsh
  PROVE  TypeOK'
<1> USE DEF Fail, Goto, Answers
<1>1. HooksOK'
  BY TypeUnchanged DEF Prepare, StartShare, Payload, MakeDisk, Launch, WaitGosshd,
                       WaitOpenSsh
<1>2. HostOK'
  BY ConfigShape DEF TypeOK, HostOK, Services, Prepare, StartShare, Payload, MakeDisk,
                     Launch, WaitGosshd, WaitOpenSsh
<1>3. GuestOK'
  BY DEF TypeOK, GuestOK, guest, Prepare, StartShare, Payload, MakeDisk, Launch,
         WaitGosshd, WaitOpenSsh
<1> QED
  BY <1>1, <1>2, <1>3 DEF TypeOK

\* So does a step of the hooks.
LEMMA TypeHooks ==
  ASSUME TypeOK,
         \/ DialHooks \/ RunHook \/ HookExits \/ HookTimesOut \/ RebootAfterHook
  PROVE  TypeOK'
<1> USE DEF Fail, Goto, AttemptFails, NextHook
<1>1. HostOK'
  <2>1. pc' \in {"hook", "hookWait", "hookReboot", "whoami", "stopVm"} /\ err' \in BOOLEAN
    BY DEF TypeOK, HostOK, DialHooks, RunHook, HookExits, HookTimesOut, RebootAfterHook
  <2>2. UNCHANGED <<cfg, hung, chan, sftp, workDir, vars, accepted>>
    BY DEF DialHooks, RunHook, HookExits, HookTimesOut, RebootAfterHook
  <2> QED
    BY <2>1, <2>2 DEF TypeOK, HostOK
<1>2. GuestOK'
  BY DEF TypeOK, GuestOK, guest, DialHooks, RunHook, HookExits, HookTimesOut,
         RebootAfterHook
<1>3. at' \in Nat /\ attempt' \in Nat /\ sess' \in BOOLEAN
  <2> USE DEF TypeOK, HooksOK
  <2>1. CASE DialHooks
    <3>1. at' \in Nat /\ attempt' \in Nat
      BY <2>1, SMT DEF DialHooks
    <3>2. sess' \in BOOLEAN
      BY <2>1, Zenon DEF DialHooks
    <3> QED
      BY <3>1, <3>2
  <2>2. CASE RunHook
    BY <2>2 DEF RunHook
  <2>3. CASE HookExits \/ HookTimesOut \/ RebootAfterHook
    BY <2>3 DEF HookExits, HookTimesOut, RebootAfterHook
  <2> QED
    BY <2>1, <2>2, <2>3
<1>4. cmds' \subseteq HookIds \X Nat
  BY DEF TypeOK, HooksOK, DialHooks, RunHook, HookExits, HookTimesOut, RebootAfterHook
<1>5. started' \in [HookIds -> Nat]
  BY DEF TypeOK, HooksOK, DialHooks, RunHook, HookExits, HookTimesOut, RebootAfterHook
<1>6. passed' \subseteq HookIds
  BY DEF TypeOK, HooksOK, DialHooks, RunHook, HookExits, HookTimesOut, RebootAfterHook
<1> QED
  BY <1>1, <1>2, <1>3, <1>4, <1>5, <1>6 DEF TypeOK, HooksOK

\* So does a step of the verification.
LEMMA TypeVerify ==
  ASSUME TypeOK,
         \/ Whoami \/ ForceVioSerial \/ StartRuntimeMsi \/ AwaitRuntimeMsi
         \/ Verify \/ VerifyDistro \/ VerifyRegistration \/ ProbeShare \/ WriteShare
         \/ EndHold
  PROVE  TypeOK'
<1> USE DEF Fail, Goto
<1>1. HooksOK'
  BY TypeUnchanged DEF Whoami, ForceVioSerial, StartRuntimeMsi, AwaitRuntimeMsi, Verify,
                       VerifyDistro, VerifyRegistration, ProbeShare, WriteShare, EndHold
<1>2. GuestOK'
  BY DEF TypeOK, GuestOK, guest, Whoami, ForceVioSerial, StartRuntimeMsi,
         AwaitRuntimeMsi, Verify, VerifyDistro, VerifyRegistration, ProbeShare,
         WriteShare, EndHold
<1>3. HostOK'
  <2>1. pc' \in {"teardown", "stopVm", "runtime", "runtimeWait", "verify", "probe",
                 "distro", "registration", "write", "hold"} /\ err' \in BOOLEAN
    BY DEF TypeOK, HostOK, Whoami, ForceVioSerial, StartRuntimeMsi, AwaitRuntimeMsi,
           Verify, VerifyDistro, VerifyRegistration, ProbeShare, WriteShare, EndHold,
           NotVerified, AfterShare, AfterDistro
  <2>2. UNCHANGED <<cfg, hung, chan, sftp, workDir, vars, accepted>>
    BY DEF Whoami, ForceVioSerial, StartRuntimeMsi, AwaitRuntimeMsi, Verify,
           VerifyDistro, VerifyRegistration, ProbeShare, WriteShare, EndHold
  <2> QED
    BY <2>1, <2>2 DEF TypeOK, HostOK
<1> QED
  BY <1>1, <1>2, <1>3 DEF TypeOK

\* So does a step of the shutdown and of the deferred calls.
LEMMA TypeEnd ==
  ASSUME TypeOK,
         \/ TeardownGosshd \/ ShutDownGuest \/ Grace \/ QuitQemu \/ Settle
         \/ PersistVars \/ Flatten
         \/ StopVm \/ CloseShare \/ Package \/ RemoveWorkDir
  PROVE  TypeOK'
<1>1. HostOK'
  <2>1. UNCHANGED <<cfg, hung, chan>>
    BY DEF TeardownGosshd, ShutDownGuest, Grace, QuitQemu, Settle, PersistVars, Flatten,
           StopVm, CloseShare, Package, RemoveWorkDir
  <2>2. pc' \in {"shutdown", "grace", "quit", "settle", "flatten", "vars", "stopVm",
                 "closeShare", "remove", "package", "returned"}
    BY DEF TeardownGosshd, ShutDownGuest, AfterShutdown, Grace, QuitQemu, Settle,
           PersistVars, Flatten, StopVm, CloseShare, Package, RemoveWorkDir, Fail, Goto
  <2>3. err' \in BOOLEAN
    <3>1. err \in BOOLEAN
      BY DEF TypeOK, HostOK
    <3> QED
      BY <3>1, Truth DEF TeardownGosshd, ShutDownGuest, Grace, QuitQemu, Settle, PersistVars,
         Flatten, StopVm, CloseShare, Package, RemoveWorkDir, Fail, Goto
  <2>4. accepted' \in BOOLEAN /\ workDir' \in BOOLEAN
    <3>1. accepted \in BOOLEAN /\ workDir \in BOOLEAN
      BY DEF TypeOK, HostOK
    <3> QED
      BY <3>1, Truth DEF TeardownGosshd, ShutDownGuest, Grace, QuitQemu, Settle, PersistVars,
         Flatten, StopVm, CloseShare, Package, RemoveWorkDir
  <2>5. sftp' \in {"none", "open", "closed"} /\ vars' \in {"none", "settled", "live"}
    <3>1. sftp \in {"none", "open", "closed"} /\ vars \in {"none", "settled", "live"}
      BY DEF TypeOK, HostOK
    <3> QED
      BY <3>1 DEF TeardownGosshd, ShutDownGuest, Grace, QuitQemu, Settle, PersistVars,
         Flatten, StopVm, CloseShare, Package, RemoveWorkDir
  <2> QED
    BY <2>1, <2>2, <2>3, <2>4, <2>5 DEF TypeOK, HostOK
<1>2. CASE TeardownGosshd \/ StopVm
  BY <1>1, <1>2 DEF TypeOK, GuestOK, HooksOK, TeardownGosshd, StopVm, hooking
<1>3. CASE ShutDownGuest
  BY <1>1, <1>3, OffAssumption DEF TypeOK, GuestOK, HooksOK, ShutDownGuest,
     OffAssumption, hooking
<1>4. CASE Grace \/ QuitQemu \/ Settle
  BY <1>1, <1>4, TypeStops, TypeUnchanged DEF TypeOK, Grace, QuitQemu, Settle
<1>5. CASE PersistVars \/ Flatten \/ CloseShare \/ Package \/ RemoveWorkDir
  BY <1>1, <1>5, TypeUnchanged DEF TypeOK, PersistVars, Flatten, CloseShare, Package,
     RemoveWorkDir
<1> QED
  BY <1>2, <1>3, <1>4, <1>5

\* So does a step of the guest, and a command that hangs.
LEMMA TypeGuest == ASSUME TypeOK, GuestNext \/ Hang \/ Unhang PROVE TypeOK'
<1>1. CASE Hang \/ Unhang
  BY <1>1, TypeUnchanged DEF TypeOK, HostOK, Hang, Unhang
<1>2. CASE SetupReachesOobe \/ WindowsStarts \/ WindowsRestarts
  <2>1. HostOK' /\ HooksOK'
    BY <1>2, TypeUnchanged DEF TypeOK, HooksOK, SetupReachesOobe, WindowsStarts,
       WindowsRestarts, WindowsStops
  <2>2. UNCHANGED <<qemu, left, disk>>
    BY <1>2 DEF SetupReachesOobe, WindowsStarts, WindowsRestarts
  <2>3. os' \in {"up", "down"} /\ (power' = power \/ power' = "on")
        /\ (msi' = msi \/ msi' = "free") /\ (boot' = boot \/ boot' = "cut")
    BY <1>2 DEF SetupReachesOobe, WindowsStarts, WindowsRestarts, WindowsStops
  <2>4. have' \subseteq Items
    BY <1>2 DEF TypeOK, GuestOK, Items, SetupReachesOobe, WindowsStarts, WindowsRestarts
  <2>5. svc' \subseteq Services
    BY <1>2 DEF Services, SetupReachesOobe, WindowsStarts, WindowsRestarts, WindowsStops
  <2> QED
    <3>1. GuestOK'
      BY <2>2, <2>3, <2>4, <2>5 DEF TypeOK, GuestOK
    <3> QED
      BY <2>1, <3>1 DEF TypeOK
<1>3. CASE UserShutsDown \/ QemuDies
  BY <1>3, TypeStops, TypeUnchanged DEF TypeOK, UserShutsDown, QemuDies
<1>4. CASE AbandonedEnds
  BY <1>4, TypeUnchanged DEF TypeOK, HooksOK, AbandonedEnds
<1>5. CASE HostMsiEnds
  <2>1. HostOK' /\ HooksOK'
    BY <1>5, TypeUnchanged DEF HostMsiEnds
  <2>2. have' \subseteq Items
    BY <1>5 DEF TypeOK, GuestOK, HostMsiEnds, Items
  <2>3. GuestOK'
    BY <1>5, <2>2 DEF TypeOK, GuestOK, HostMsiEnds
  <2> QED
    BY <2>1, <2>3 DEF TypeOK
<1>6. CASE \/ FirstLogon \/ InstallShare \/ InstallOpenSsh \/ InstallRuntime
           \/ ImportDistro \/ StartS6
  <2> USE DEF FirstLogon, InstallShare, InstallOpenSsh, InstallRuntime, ImportDistro,
              StartS6, Step
  <2>1. HostOK' /\ HooksOK'
    BY <1>6, TypeUnchanged
  <2>2. boot' \in {"share", "winfsp", "openssh", "wsl", "wslMsi", "import", "s6", "done"}
    BY <1>6
  <2>3. UNCHANGED <<qemu, os, power, left, disk>>
    BY <1>6
  <2>4. have' \subseteq Items /\ svc' \subseteq Services
    BY <1>6 DEF TypeOK, GuestOK, Items, Services
  <2>5. msi' \in {"free", "host", "bootstrap"}
    BY <1>6 DEF TypeOK, GuestOK
  <2> QED
    BY <2>1, <2>2, <2>3, <2>4, <2>5 DEF TypeOK, GuestOK
<1> QED
  BY <1>1, <1>2, <1>3, <1>4, <1>5, <1>6 DEF GuestNext

\* Whatever host and guest do, every variable stays in its type.
LEMMA TypeStep == TypeOK /\ [Next]_vars_ => TypeOK'
<1> SUFFICES ASSUME TypeOK, [Next]_vars_ PROVE TypeOK'
  OBVIOUS
<1>1. CASE UNCHANGED vars_
  BY <1>1, TypeUnchanged DEF vars_, TypeOK
<1>2. CASE HostNext
  BY <1>2, TypeInstall, TypeHooks, TypeVerify, TypeEnd DEF HostNext
<1>3. CASE EndHold \/ Hang \/ Unhang \/ GuestNext
  BY <1>3, TypeVerify, TypeGuest
<1> QED
  BY <1>1, <1>2, <1>3 DEF Next

\* The host program, the VM, the bootstrap and the hooks stay in their types,
\* for any hooks and configurations.
THEOREM TypeCorrect == Spec => []TypeOK
  BY TypeInit, TypeStep, PTL DEF Spec

-----------------------------------------------------------------------------
(* What the host provides while the guest runs.                              *)

\* Where the host program is while QEMU may run.
Live == {"wait", "waitSsh", "hooks", "hook", "hookWait", "hookReboot", "whoami",
         "vioserial", "runtime", "runtimeWait", "verify", "distro", "registration",
         "probe", "write", "hold", "teardown", "shutdown", "grace", "quit", "settle",
         "vars", "flatten"}

\* QEMU runs between its launch and the first deferred call; the share is opened
\* before and closed after that, the working directory is deleted last.
ServeInv ==
    /\ pc \notin {"prepare", "remove", "returned"} => workDir
    /\ qemu = "run" => pc \in Live \cup {"stopVm"}
    /\ qemu = "run" \/ pc \in Live \cup {"payload", "disk", "launch"} =>
          (Serves => sftp = "open")

\* The host's steps while QEMU may run touch nothing that serves it.
HostLive ==
    \/ WaitGosshd \/ WaitOpenSsh
    \/ DialHooks \/ RunHook \/ HookExits \/ HookTimesOut \/ RebootAfterHook
    \/ Whoami \/ ForceVioSerial \/ StartRuntimeMsi \/ AwaitRuntimeMsi
    \/ Verify \/ VerifyDistro \/ VerifyRegistration \/ ProbeShare \/ WriteShare
    \/ EndHold \/ TeardownGosshd \/ ShutDownGuest \/ Grace \/ QuitQemu \/ Settle
    \/ PersistVars \/ Flatten

\* Waiting, a shutdown and a death never start a QEMU.
LEMMA StopsStart ==
  ASSUME NEW n, Sleeps(n) \/ Unplugged \/ PowersOff PROVE qemu' = "run" => qemu = "run"
  BY DEF Sleeps, Unplugged, PowersOff

\* What a step of the live phase leaves alone.
LEMMA LiveStep ==
  ASSUME TypeOK, HostLive
  PROVE  /\ pc \in Live /\ pc' \in Live \cup {"stopVm"}
         /\ UNCHANGED <<cfg, sftp, workDir>>
         /\ qemu' = "run" => qemu = "run"
<1> USE DEF Live, Fail, Goto, guest
<1>1. CASE WaitGosshd \/ WaitOpenSsh \/ DialHooks
  BY <1>1, ConfigShape DEF TypeOK, HostOK, WaitGosshd, WaitOpenSsh, DialHooks
<1>2. CASE RunHook \/ HookExits \/ HookTimesOut \/ RebootAfterHook \/ Whoami
  BY <1>2 DEF RunHook, HookExits, HookTimesOut, RebootAfterHook, Whoami, AttemptFails
<1>3. CASE ForceVioSerial \/ StartRuntimeMsi \/ AwaitRuntimeMsi
  BY <1>3 DEF ForceVioSerial, StartRuntimeMsi, AwaitRuntimeMsi
<1>4. CASE \/ Verify \/ VerifyDistro \/ VerifyRegistration \/ ProbeShare \/ WriteShare
           \/ EndHold
  BY <1>4 DEF Verify, VerifyDistro, VerifyRegistration, ProbeShare, WriteShare, EndHold,
              NotVerified, AfterShare, AfterDistro
<1>5. CASE TeardownGosshd \/ ShutDownGuest \/ PersistVars \/ Flatten
  BY <1>5 DEF TeardownGosshd, ShutDownGuest, AfterShutdown, PersistVars, Flatten
<1>6. CASE Grace \/ QuitQemu \/ Settle
  BY <1>6, StopsStart DEF Grace, QuitQemu, Settle
<1> QED
  BY <1>1, <1>2, <1>3, <1>4, <1>5, <1>6 DEF HostLive

\* What a step of the guest, or a hang, leaves alone.
LEMMA GuestStep ==
  ASSUME GuestNext \/ Hang \/ Unhang
  PROVE  /\ UNCHANGED <<cfg, pc, err, chan, sftp, workDir, vars, accepted>>
         /\ UNCHANGED <<at, attempt, started, passed>>
         /\ qemu' = "run" => qemu = "run"
<1> USE DEF host, guest, hooking
<1>1. CASE Hang \/ Unhang
  BY <1>1 DEF Hang, Unhang
<1>2. CASE SetupReachesOobe \/ WindowsStarts \/ WindowsRestarts \/ AbandonedEnds
  BY <1>2 DEF SetupReachesOobe, WindowsStarts, WindowsRestarts, AbandonedEnds
<1>3. CASE UserShutsDown \/ QemuDies \/ HostMsiEnds
  BY <1>3 DEF UserShutsDown, QemuDies, HostMsiEnds, PowersOff, Unplugged
<1>4. CASE FirstLogon \/ InstallShare \/ InstallOpenSsh
  BY <1>4 DEF FirstLogon, InstallShare, InstallOpenSsh, Step
<1>5. CASE InstallRuntime \/ ImportDistro \/ StartS6
  BY <1>5 DEF InstallRuntime, ImportDistro, StartS6, Step
<1> QED
  BY <1>1, <1>2, <1>3, <1>4, <1>5 DEF GuestNext

\* The steps before QEMU runs and the deferred calls.
HostAround == \/ Prepare \/ StartShare \/ Payload \/ MakeDisk \/ Launch
              \/ StopVm \/ CloseShare \/ Package \/ RemoveWorkDir

\* Every step is of one of these three kinds.
LEMMA StepKinds == Next => HostLive \/ HostAround \/ GuestNext \/ Hang \/ Unhang
  BY DEF Next, HostNext, HostLive, HostAround

\* ServeInv holds at first and is kept by every step.
LEMMA ServeStep == TypeOK /\ ServeInv /\ [Next]_vars_ => ServeInv'
<1> SUFFICES ASSUME TypeOK, ServeInv, [Next]_vars_ PROVE ServeInv'
  OBVIOUS
<1>1. CASE UNCHANGED vars_
  BY <1>1 DEF ServeInv, Serves, vars_, host, guest
<1>2. CASE HostLive
  BY <1>2, LiveStep DEF ServeInv, Serves, Live
<1>3. CASE GuestNext \/ Hang \/ Unhang
  BY <1>3, GuestStep DEF ServeInv, Serves, Live
<1>4. CASE HostAround
  <2> USE DEF ServeInv, Serves, Live, Fail, Goto, guest
  <2>1. CASE Prepare \/ StartShare \/ Payload
    BY <2>1 DEF Prepare, StartShare, Payload
  <2>2. CASE MakeDisk \/ Launch
    BY <2>2 DEF MakeDisk, Launch
  <2>3. CASE StopVm \/ CloseShare
    BY <2>3 DEF StopVm, CloseShare
  <2>4. CASE Package \/ RemoveWorkDir
    BY <2>4 DEF Package, RemoveWorkDir
  <2> QED
    BY <1>4, <2>1, <2>2, <2>3, <2>4 DEF HostAround
<1> QED
  BY <1>1, <1>2, <1>3, <1>4, StepKinds

\* While the guest runs, its working directory and its SFTP server are there,
\* however the build fails and whatever the deferred calls have done.
THEOREM HostServesGuestCorrect == Spec => []HostServesGuest
<1>1. Init => ServeInv
  BY DEF Init, ServeInv, Live
<1>2. ServeInv => HostServesGuest
  BY DEF ServeInv, HostServesGuest, Live
<1> QED
  BY <1>1, <1>2, TypeInit, TypeStep, ServeStep, PTL DEF Spec

-----------------------------------------------------------------------------
(* The hooks of a base build.                                                *)

BeforeHooks == {"prepare", "share", "payload", "disk", "launch", "wait", "hooks"}
InHooks == {"hook", "hookWait", "hookReboot"}

\* No hook has been attempted before the loop.
NoneStarted == pc \in BeforeHooks => \A i \in HookIds : started[i] = 0

\* The loop at hook `at`: the SSH hooks before it passed, none after it was
\* attempted, and it was itself attempted once for each attempt counted.
LoopSane ==
    pc \in InHooks =>
        /\ \A i \in HookIds : i < at /\ OverSsh(i) => i \in passed
        /\ \A j \in HookIds : at < j => started[j] = 0
        /\ at \in HookIds => attempt <= Hooks[at].retries
        /\ pc = "hook" /\ at \in HookIds => started[at] <= attempt
        /\ pc = "hookWait" => at \in HookIds /\ started[at] <= attempt + 1
        /\ pc = "hookReboot" => at \in HookIds /\ at \in passed

InOrder ==
    \A i, j \in HookIds : i < j /\ OverSsh(i) /\ started[j] > 0 => i \in passed
Bounded == \A i \in HookIds : started[i] <= Hooks[i].retries + 1

\* A base build that is past the loop without an error passed every SSH hook.
PassedAll ==
    /\ pc = "package" => ~err
    /\ pc \notin BeforeHooks \cup InHooks /\ ~err /\ cfg.mode = "base" =>
          \A i \in HookIds : OverSsh(i) => i \in passed

HooksInv == NoneStarted /\ LoopSane /\ InOrder /\ Bounded /\ PassedAll

\* A step outside the loop leaves the hooks alone. A base build gets past them
\* only with an error.
LEMMA OutsideHooks ==
  ASSUME TypeOK, HostLive \/ HostAround,
         ~(DialHooks \/ RunHook \/ HookExits \/ HookTimesOut \/ RebootAfterHook)
  PROVE  /\ UNCHANGED <<cfg, started, passed>>
         /\ pc \notin InHooks \cup {"hooks"} /\ pc' \notin InHooks
         /\ pc' \in BeforeHooks => pc \in BeforeHooks
         /\ pc' = "package" => ~err'
         /\ ~err' => ~err \/ pc = "package"
         /\ pc \in BeforeHooks /\ pc' \notin BeforeHooks /\ ~err' => cfg.mode # "base"
<1> USE DEF BeforeHooks, InHooks, Fail, Goto, hooking
<1>1. CASE Prepare \/ StartShare \/ Payload \/ MakeDisk \/ Launch
  BY <1>1 DEF Prepare, StartShare, Payload, MakeDisk, Launch
<1>2. CASE WaitGosshd \/ WaitOpenSsh
  BY <1>2, ConfigShape DEF TypeOK, HostOK, WaitGosshd, WaitOpenSsh
<1>3. CASE Whoami \/ ForceVioSerial \/ StartRuntimeMsi \/ AwaitRuntimeMsi \/ EndHold
  BY <1>3 DEF Whoami, ForceVioSerial, StartRuntimeMsi, AwaitRuntimeMsi, EndHold
<1>4. CASE Verify \/ VerifyDistro \/ VerifyRegistration \/ ProbeShare \/ WriteShare
  BY <1>4 DEF Verify, VerifyDistro, VerifyRegistration, ProbeShare, WriteShare,
              NotVerified, AfterShare, AfterDistro
<1>5. CASE TeardownGosshd \/ ShutDownGuest \/ PersistVars \/ Flatten
  BY <1>5 DEF TeardownGosshd, ShutDownGuest, AfterShutdown, PersistVars, Flatten
<1>6. CASE Grace \/ QuitQemu \/ Settle
  <2>1. UNCHANGED <<started, passed>>
    BY <1>6 DEF Grace, QuitQemu, Settle, Sleeps, PowersOff, Unplugged
  <2> QED
    BY <1>6, <2>1 DEF Grace, QuitQemu, Settle
<1>7. CASE StopVm \/ CloseShare \/ Package \/ RemoveWorkDir
  BY <1>7 DEF StopVm, CloseShare, Package, RemoveWorkDir, TypeOK, HostOK
<1> QED
  BY <1>1, <1>2, <1>3, <1>4, <1>5, <1>6, <1>7 DEF HostLive, HostAround

\* Giving up on an attempt, whichever way it failed.
LEMMA AttemptFailsKeeps ==
  ASSUME TypeOK, HooksInv, pc = "hook" \/ pc = "hookWait", at \in HookIds, AttemptFails,
         UNCHANGED <<cfg, at, started, passed>>
  PROVE  HooksInv'
<1> USE HookShape DEF TypeOK, HostOK, HooksOK, BeforeHooks, InHooks, AttemptFails, LastTry,
        Fail, Goto
<1>1. NoneStarted' /\ PassedAll'
  BY DEF NoneStarted, PassedAll
<1>2. InOrder' /\ Bounded'
  BY DEF HooksInv, InOrder, Bounded, OverSsh
<1>3. LoopSane'
  <2>1. pc' = "hook" => attempt' = attempt + 1 /\ attempt < Hooks[at].retries
    BY DEF HooksInv, LoopSane
  <2>2. started[at] \in Nat
    OBVIOUS
  <2> QED
    BY <2>1, <2>2 DEF HooksInv, LoopSane, OverSsh
<1> QED
  BY <1>1, <1>2, <1>3 DEF HooksInv

\* The steps of ExecuteSSH keep HooksInv.
LEMMA HooksLoop ==
  ASSUME TypeOK, HooksInv,
         DialHooks \/ RunHook \/ HookExits \/ HookTimesOut \/ RebootAfterHook
  PROVE  HooksInv'
<1> USE HookShape DEF TypeOK, HostOK, HooksOK, BeforeHooks, InHooks, NextHook, Fail, Goto
<1>1. CASE DialHooks
  <2>1. InOrder' /\ Bounded'
    BY <1>1 DEF DialHooks, HooksInv, InOrder, Bounded, OverSsh
  <2>2. NoneStarted' /\ PassedAll'
    BY <1>1 DEF DialHooks, NoneStarted, PassedAll, OverSsh
  <2>3. LoopSane'
    BY <1>1 DEF DialHooks, HooksInv, NoneStarted, LoopSane, OverSsh
  <2> QED
    BY <2>1, <2>2, <2>3 DEF HooksInv
<1>2. CASE RunHook
  <2>1. CASE /\ at > Len(Hooks) /\ Goto("whoami")
             /\ UNCHANGED <<cfg, at, attempt, started, passed>>
    BY <2>1, <1>2 DEF RunHook, HooksInv, NoneStarted, LoopSane, InOrder, Bounded, PassedAll,
                      OverSsh
  <2>2. CASE at \in HookIds /\ ~OverSsh(at) /\ at' = at + 1 /\ attempt' = 0 /\ Goto("hook")
             /\ UNCHANGED <<cfg, started, passed>>
    BY <2>2, <1>2 DEF RunHook, HooksInv, NoneStarted, LoopSane, InOrder, Bounded, PassedAll,
                      OverSsh
  <2>3. CASE at \in HookIds /\ started' = [started EXCEPT ![at] = @ + 1]
             /\ Goto("hookWait") /\ UNCHANGED <<cfg, at, attempt, passed>>
    <3>1. /\ started'[at] = started[at] + 1 /\ started[at] \in Nat
          /\ \A j \in HookIds : j # at => started'[j] = started[j]
      BY <2>3
    <3>2. NoneStarted' /\ PassedAll'
      BY <2>3 DEF NoneStarted, PassedAll
    <3>3. LoopSane'
      BY <2>3, <3>1, <1>2 DEF RunHook, HooksInv, LoopSane, OverSsh
    <3>4. InOrder'
      BY <2>3, <3>1, <1>2 DEF RunHook, HooksInv, LoopSane, InOrder, OverSsh
    <3>5. Bounded'
      BY <2>3, <3>1, <1>2 DEF RunHook, HooksInv, LoopSane, Bounded
    <3> QED
      BY <3>2, <3>3, <3>4, <3>5 DEF HooksInv
  <2>4. CASE at \in HookIds /\ AttemptFails /\ UNCHANGED <<cfg, at, started, passed>>
    BY <2>4, <1>2, AttemptFailsKeeps DEF RunHook
  <2> QED
    BY <1>2, <2>1, <2>2, <2>3, <2>4 DEF RunHook
<1>3. CASE HookExits
  <2>1. at \in HookIds
    BY <1>3 DEF HookExits, HooksInv, LoopSane
  <2>2. CASE UNCHANGED <<at, passed>> /\ AttemptFails
    BY <1>3, <2>1, <2>2, AttemptFailsKeeps DEF HookExits
  <2>3. CASE passed' = passed \cup {at}
             /\ IF Hooks[at].reboot
                THEN Goto("hookReboot") /\ UNCHANGED <<at, attempt>>
                ELSE Goto("hook") /\ at' = NextHook(at) /\ attempt' = 0
    <3>1. NoneStarted' /\ PassedAll'
      BY <2>3, <1>3 DEF HookExits, NoneStarted, PassedAll
    <3>2. InOrder' /\ Bounded'
      BY <2>3, <1>3 DEF HookExits, HooksInv, InOrder, Bounded, OverSsh
    <3>3. LoopSane'
      BY <2>1, <2>3, <1>3 DEF HookExits, HooksInv, LoopSane, OverSsh
    <3> QED
      BY <3>1, <3>2, <3>3 DEF HooksInv
  <2> QED
    BY <1>3, <2>2, <2>3 DEF HookExits
<1>4. CASE HookTimesOut
  <2>1. at \in HookIds
    BY <1>4 DEF HookTimesOut, HooksInv, LoopSane
  <2> QED
    BY <1>4, <2>1, AttemptFailsKeeps DEF HookTimesOut
<1>5. CASE RebootAfterHook
  <2>1. NoneStarted' /\ PassedAll'
    BY <1>5 DEF RebootAfterHook, NoneStarted, PassedAll
  <2>2. InOrder' /\ Bounded'
    BY <1>5 DEF RebootAfterHook, HooksInv, InOrder, Bounded, OverSsh
  <2>3. LoopSane'
    BY <1>5 DEF RebootAfterHook, HooksInv, LoopSane, OverSsh
  <2> QED
    BY <2>1, <2>2, <2>3 DEF HooksInv
<1> QED
  BY <1>1, <1>2, <1>3, <1>4, <1>5

\* HooksInv is kept by every step.
LEMMA HooksStep == TypeOK /\ HooksInv /\ [Next]_vars_ => HooksInv'
<1> SUFFICES ASSUME TypeOK, HooksInv, [Next]_vars_ PROVE HooksInv'
  OBVIOUS
<1> DEFINE Loop == DialHooks \/ RunHook \/ HookExits \/ HookTimesOut \/ RebootAfterHook
<1>1. CASE UNCHANGED <<cfg, pc, err, at, attempt, started, passed>>
  BY <1>1 DEF HooksInv, NoneStarted, LoopSane, InOrder, Bounded, PassedAll, OverSsh
<1>2. CASE Loop
  BY <1>2, HooksLoop
<1>3. CASE (HostLive \/ HostAround) /\ ~Loop
  <2>1. InOrder' /\ Bounded' /\ NoneStarted' /\ LoopSane'
    BY <1>3, OutsideHooks DEF HooksInv, NoneStarted, LoopSane, InOrder, Bounded, OverSsh
  <2>2. PassedAll'
    BY <1>3, OutsideHooks DEF HooksInv, PassedAll, OverSsh
  <2> QED
    BY <2>1, <2>2 DEF HooksInv
<1>4. CASE UNCHANGED vars_
  BY <1>4, <1>1 DEF vars_, host, hooking
<1> QED
  BY <1>1, <1>2, <1>3, <1>4, StepKinds, GuestStep

\* Hooks are attempted in order and no more often than allowed, and a base image is
\* delivered only when all that run over SSH have passed, for any list of hooks.
THEOREM HooksKeptCorrect == Spec => []HooksKept
<1>1. Init => HooksInv
  BY HookShape DEF Init, HooksInv, NoneStarted, LoopSane, InOrder, Bounded, PassedAll,
                   BeforeHooks, InHooks
<1>2. HooksInv => HooksKept
  BY DEF HooksInv, HooksKept, InOrder, Bounded, PassedAll, Ok, BeforeHooks, InHooks
<1> QED
  BY <1>1, <1>2, TypeInit, TypeStep, HooksStep, PTL DEF Spec

-----------------------------------------------------------------------------
(* What a delivered WSL image has.                                           *)

\* Which mode each place of the program belongs to.
ModePlaces ==
    /\ pc \in {"hooks", "whoami", "hook", "hookWait", "hookReboot"} => cfg.mode # "wsl"
    /\ pc \in {"waitSsh", "flatten"} => cfg.mode # "wsl"
    /\ pc = "package" => ~err

\* The image gains what the bootstrap installs and loses gosshd alone, so what
\* a check has seen stays true; only an openssh that is installed answers.
ImageSane ==
    /\ "openssh" \in svc => "openssh" \in have
    /\ "wsl1" \in have => {"distro", "wsl"} \subseteq have

PastProbe == {"write", "hold", "teardown", "shutdown", "grace", "quit", "settle", "vars",
              "stopVm", "closeShare", "package", "remove", "returned"}
PastRegistration == PastProbe \cup {"probe"}

\* What the verification of a wsl build has seen by the time it is past it.
Verified ==
    cfg.mode = "wsl" /\ ~err =>
        /\ cfg.distro /\ pc \in PastRegistration \cup {"registration"} =>
              {"distro", "openssh"} \subseteq have
        /\ cfg.distro /\ pc \in PastRegistration => {"wsl1", "wsl"} \subseteq have
        /\ cfg.share # "none" /\ pc \in PastProbe => {"rclone", cfg.share} \subseteq have

WslInv == ModePlaces /\ ImageSane /\ Verified

\* The end of Windows and the host's sleeps change nothing of the image.
LEMMA StopsKeepImage ==
  ASSUME NEW n, Sleeps(n) \/ Unplugged \/ PowersOff
  PROVE  have' = have /\ (svc' = svc \/ svc' = {})
  BY DEF Sleeps, Unplugged, PowersOff, WindowsStops

\* No step of the host spoils the image, gosshd apart.
LEMMA HostKeepsImage ==
  ASSUME TypeOK, HostLive \/ HostAround
  PROVE  /\ have' = have \/ have' = have \ {"gosshd"}
         /\ svc' = svc \/ svc' = {}
         /\ cfg' = cfg
<1> USE DEF guest
<1>1. CASE HostAround
  BY <1>1 DEF HostAround, Prepare, StartShare, Payload, MakeDisk, Launch, StopVm,
              CloseShare, Package, RemoveWorkDir
<1>2. CASE Grace \/ QuitQemu \/ Settle
  BY <1>2, StopsKeepImage DEF Grace, QuitQemu, Settle
<1>3. CASE HostLive /\ ~(Grace \/ QuitQemu \/ Settle)
  BY <1>3 DEF HostLive, WaitGosshd, WaitOpenSsh, DialHooks, RunHook, HookExits,
              HookTimesOut, RebootAfterHook, Whoami, ForceVioSerial, StartRuntimeMsi,
              AwaitRuntimeMsi, Verify, VerifyDistro, VerifyRegistration, ProbeShare,
              WriteShare, EndHold, TeardownGosshd, ShutDownGuest, PersistVars, Flatten
<1> QED
  BY <1>1, <1>2, <1>3

\* No step of the guest does.
LEMMA GuestKeepsImage ==
  ASSUME TypeOK, ImageSane, GuestNext \/ Hang \/ Unhang
  PROVE  have \subseteq have' /\ ImageSane'
<1> USE DEF ImageSane, Items, Services, guest, Step
<1>1. CASE Hang \/ Unhang
  BY <1>1 DEF Hang, Unhang
<1>2. CASE SetupReachesOobe \/ WindowsStarts \/ WindowsRestarts \/ AbandonedEnds
  BY <1>2 DEF SetupReachesOobe, WindowsStarts, WindowsRestarts, AbandonedEnds, WindowsStops
<1>3. CASE UserShutsDown \/ QemuDies
  BY <1>3, StopsKeepImage DEF UserShutsDown, QemuDies
<1>4. CASE FirstLogon \/ InstallShare \/ HostMsiEnds
  BY <1>4 DEF FirstLogon, InstallShare, HostMsiEnds
<1>5. CASE InstallOpenSsh \/ InstallRuntime
  BY <1>5 DEF InstallOpenSsh, InstallRuntime
<1>6. CASE ImportDistro \/ StartS6
  BY <1>6 DEF ImportDistro, StartS6
<1> QED
  BY <1>1, <1>2, <1>3, <1>4, <1>5, <1>6 DEF GuestNext

\* Every build stays in the places of its mode, and reaches the packaging without
\* an error.
LEMMA PlacesStep == ASSUME TypeOK, HostLive \/ HostAround, ModePlaces PROVE ModePlaces'
<1> USE ConfigShape DEF TypeOK, HostOK, ModePlaces, Fail, Goto
<1>1. CASE \/ Prepare \/ StartShare \/ Payload \/ MakeDisk \/ Launch
           \/ WaitGosshd \/ WaitOpenSsh
  BY <1>1 DEF Prepare, StartShare, Payload, MakeDisk, Launch, WaitGosshd, WaitOpenSsh
<1>2. CASE DialHooks \/ RunHook \/ HookExits \/ HookTimesOut \/ RebootAfterHook \/ Whoami
  BY <1>2 DEF DialHooks, RunHook, HookExits, HookTimesOut, RebootAfterHook, Whoami,
              AttemptFails
<1>3. CASE ForceVioSerial \/ StartRuntimeMsi \/ AwaitRuntimeMsi \/ EndHold
  BY <1>3 DEF ForceVioSerial, StartRuntimeMsi, AwaitRuntimeMsi, EndHold
<1>4. CASE Verify \/ VerifyDistro \/ VerifyRegistration \/ ProbeShare \/ WriteShare
  BY <1>4 DEF Verify, VerifyDistro, VerifyRegistration, ProbeShare, WriteShare,
              NotVerified, AfterDistro, AfterShare
<1>5. CASE \/ TeardownGosshd \/ ShutDownGuest \/ Grace \/ QuitQemu \/ Settle
           \/ PersistVars \/ Flatten
  BY <1>5 DEF TeardownGosshd, ShutDownGuest, AfterShutdown, Grace, QuitQemu, Settle,
              PersistVars, Flatten
<1>6. CASE StopVm \/ CloseShare \/ Package \/ RemoveWorkDir
  BY <1>6 DEF StopVm, CloseShare, Package, RemoveWorkDir
<1> QED
  BY <1>1, <1>2, <1>3, <1>4, <1>5, <1>6 DEF HostLive, HostAround

\* How a wsl build gets past each of its checks.
LEMMA PassingChecks ==
  ASSUME TypeOK, HostLive \/ HostAround, ModePlaces, cfg.mode = "wsl", ~err'
  PROVE  /\ ~err
         /\ pc' = "registration" => DistroAnswers
         /\ cfg.distro /\ pc' \in PastRegistration =>
               pc \in PastRegistration \/ (pc = "registration" /\ "wsl1" \in have)
         /\ cfg.share # "none" /\ pc' \in PastProbe =>
               pc \in PastProbe \/ (pc = "probe" /\ Mounted)
<1> USE ConfigShape DEF TypeOK, HostOK, ModePlaces, PastRegistration, PastProbe, Fail, Goto
<1>1. CASE \/ Prepare \/ StartShare \/ Payload \/ MakeDisk \/ Launch
           \/ WaitGosshd \/ WaitOpenSsh
  BY <1>1 DEF Prepare, StartShare, Payload, MakeDisk, Launch, WaitGosshd, WaitOpenSsh
<1>2. CASE \/ DialHooks \/ RunHook \/ HookExits \/ HookTimesOut \/ RebootAfterHook
           \/ Whoami \/ ForceVioSerial \/ StartRuntimeMsi \/ AwaitRuntimeMsi \/ EndHold
  BY <1>2 DEF DialHooks, RunHook, HookExits, HookTimesOut, RebootAfterHook, Whoami,
              ForceVioSerial, StartRuntimeMsi, AwaitRuntimeMsi, EndHold
<1>3. CASE Verify \/ VerifyDistro \/ VerifyRegistration
  BY <1>3 DEF Verify, VerifyDistro, VerifyRegistration, NotVerified, Advisory, AfterDistro,
              AfterShare, Serves
<1>4. CASE ProbeShare \/ WriteShare
  BY <1>4 DEF ProbeShare, WriteShare, NotVerified, Advisory, AfterShare
<1>5. CASE \/ TeardownGosshd \/ ShutDownGuest \/ Grace \/ QuitQemu \/ Settle
           \/ PersistVars \/ Flatten
  BY <1>5 DEF TeardownGosshd, ShutDownGuest, AfterShutdown, Grace, QuitQemu, Settle,
              PersistVars, Flatten
<1>6. CASE StopVm \/ CloseShare \/ Package \/ RemoveWorkDir
  BY <1>6 DEF StopVm, CloseShare, Package, RemoveWorkDir
<1> QED
  BY <1>1, <1>2, <1>3, <1>4, <1>5, <1>6 DEF HostLive, HostAround

\* WslInv is kept by every step.
LEMMA WslStep == TypeOK /\ WslInv /\ [Next]_vars_ => WslInv'
<1> SUFFICES ASSUME TypeOK, WslInv, [Next]_vars_ PROVE WslInv'
  OBVIOUS
<1>1. CASE UNCHANGED vars_
  BY <1>1 DEF vars_, host, guest, WslInv, ModePlaces, ImageSane, Verified
<1>2. CASE GuestNext \/ Hang \/ Unhang
  <2>1. UNCHANGED <<cfg, pc, err>> /\ have \subseteq have' /\ ImageSane'
    BY <1>2, GuestStep, GuestKeepsImage DEF WslInv
  <2> QED
    BY <2>1 DEF WslInv, ModePlaces, Verified
<1>3. CASE HostLive \/ HostAround
  <2>1. ModePlaces'
    BY <1>3, PlacesStep DEF WslInv
  <2>2. ImageSane' /\ cfg' = cfg /\ have \ {"gosshd"} \subseteq have'
    BY <1>3, HostKeepsImage DEF WslInv, ImageSane
  <2>3. Verified'
    <3> SUFFICES ASSUME cfg.mode = "wsl", ~err' PROVE Verified'
      BY <2>2 DEF Verified
    <3>1. /\ ~err
          /\ pc' = "registration" => DistroAnswers
          /\ cfg.distro /\ pc' \in PastRegistration =>
                pc \in PastRegistration \/ (pc = "registration" /\ "wsl1" \in have)
          /\ cfg.share # "none" /\ pc' \in PastProbe =>
                pc \in PastProbe \/ (pc = "probe" /\ Mounted)
      BY <1>3, PassingChecks DEF WslInv
    <3>2. DistroAnswers => {"distro", "openssh"} \subseteq have
      BY DEF DistroAnswers, Answers, WslInv, ImageSane
    <3>3. Mounted => {"rclone", cfg.share} \subseteq have
      BY DEF Mounted
    <3>4. cfg.distro /\ pc' \in PastRegistration \cup {"registration"} =>
             {"distro", "openssh"} \subseteq have'
      BY <2>2, <3>1, <3>2 DEF WslInv, Verified
    <3>5. cfg.distro /\ pc' \in PastRegistration => {"wsl1", "wsl"} \subseteq have'
      BY <2>2, <3>1 DEF WslInv, ImageSane, Verified
    <3>6. cfg.share # "none" /\ pc' \in PastProbe => {"rclone", cfg.share} \subseteq have'
      BY <2>2, <3>1, <3>3, ConfigShape DEF WslInv, Verified, TypeOK, HostOK
    <3> QED
      BY <2>2, <3>4, <3>5, <3>6 DEF Verified
  <2> QED
    BY <2>1, <2>2, <2>3 DEF WslInv
<1> QED
  BY <1>1, <1>2, <1>3, StepKinds

\* A wsl image that is delivered has its distro, registered as WSL1, and what mounts
\* its share, however bootstrap and host interleaved.
THEOREM WslCompleteCorrect == Spec => []WslComplete
<1>1. Init => WslInv
  BY DEF Init, WslInv, ModePlaces, ImageSane, Verified, PastRegistration, PastProbe, Items
<1>2. WslInv => WslComplete
  BY DEF WslInv, Verified, WslComplete, Ok, PastRegistration, PastProbe
<1> QED
  BY <1>1, <1>2, TypeInit, TypeStep, WslStep, PTL DEF Spec

-----------------------------------------------------------------------------
(* The shutdown of an install, and the NVRAM copy.                           *)

\* The code waits 15 seconds for a shutdown that was accepted.
QuickShutdown == OffSeconds <= 15

Ending == {"grace", "quit", "settle", "vars", "flatten", "stopVm", "closeShare", "package",
           "remove", "returned"}
PastVars == {"stopVm", "closeShare", "package", "remove", "returned"}

\* In an install, a guest that is powering off is one whose grace period has begun
\* and not ended, and the NVRAM copy comes after that.
ShutInv ==
    /\ pc = "flatten" => cfg.mode = "continue"
    /\ pc = "vars" => cfg.mode # "continue"
    /\ pc \in {"prepare", "share", "payload", "disk", "launch"} => power = "on"
    /\ vars # "none" => cfg.mode # "continue" /\ pc \in PastVars
    /\ accepted => pc \in Ending
    /\ vars = "live" => ~accepted
    /\ cfg.mode # "continue" =>
          /\ qemu = "run" /\ power = "off" => pc = "grace"
          /\ accepted /\ qemu = "run" => pc = "grace" /\ power = "off"

\* Waiting 15 seconds lets a guest that is powering off get there.
LEMMA GraceSuffices ==
  ASSUME QuickShutdown, TypeOK, Sleeps(15), qemu = "run", power = "off"
  PROVE  PowersOff
<1>1. left <= 15
  BY OffAssumption DEF QuickShutdown, TypeOK, GuestOK, OffAssumption
<1> QED
  BY <1>1 DEF Sleeps

\* A sleep or the end of QEMU leaves power alone, or ends a QEMU that ran.
LEMMA StopsAndPower ==
  ASSUME NEW n, Sleeps(n) \/ Unplugged \/ PowersOff
  PROVE  qemu' = "gone" \/ UNCHANGED <<qemu, power>>
  BY DEF Sleeps, Unplugged, PowersOff

\* No step of the host but those at the end touches power, vars or accepted.
LEMMA ShutBefore ==
  ASSUME TypeOK, ShutInv, HostLive,
         ~(ShutDownGuest \/ Grace \/ QuitQemu \/ Settle \/ PersistVars \/ Flatten)
  PROVE  ShutInv'
<1> USE ConfigShape DEF TypeOK, HostOK, ShutInv, Ending, PastVars, Fail, Goto, guest
<1>1. CASE WaitGosshd \/ WaitOpenSsh \/ DialHooks
  BY <1>1 DEF WaitGosshd, WaitOpenSsh, DialHooks
<1>2. CASE RunHook \/ HookExits \/ HookTimesOut
  BY <1>2 DEF RunHook, HookExits, HookTimesOut, AttemptFails
<1>3. CASE RebootAfterHook
  BY <1>3 DEF RebootAfterHook
<1>4. CASE Whoami \/ ForceVioSerial \/ StartRuntimeMsi \/ AwaitRuntimeMsi \/ EndHold
  BY <1>4 DEF Whoami, ForceVioSerial, StartRuntimeMsi, AwaitRuntimeMsi, EndHold
<1>5. CASE Verify \/ VerifyDistro \/ VerifyRegistration \/ ProbeShare \/ WriteShare
  BY <1>5 DEF Verify, VerifyDistro, VerifyRegistration, ProbeShare, WriteShare,
              NotVerified, AfterDistro, AfterShare
<1>6. CASE TeardownGosshd
  BY <1>6 DEF TeardownGosshd
<1> QED
  BY <1>1, <1>2, <1>3, <1>4, <1>5, <1>6 DEF HostLive

\* The shutdown, the grace period and the copy.
LEMMA ShutEnd ==
  ASSUME QuickShutdown, TypeOK, ShutInv,
         ShutDownGuest \/ Grace \/ QuitQemu \/ Settle \/ PersistVars \/ Flatten
  PROVE  ShutInv'
<1> USE DEF TypeOK, HostOK, ShutInv, Ending, PastVars, Fail, Goto
<1>1. CASE ShutDownGuest
  BY <1>1 DEF ShutDownGuest, AfterShutdown
<1>2. CASE Grace
  <2>1. Sleeps(15)
    BY <1>2 DEF Grace
  <2>2. qemu' = "gone" \/ (UNCHANGED <<qemu, power>> /\ ~(qemu = "run" /\ power = "off"))
    BY <2>1, GraceSuffices, StopsAndPower DEF PowersOff
  <2> QED
    BY <1>2, <2>2 DEF Grace
<1>3. CASE QuitQemu
  BY <1>3, StopsAndPower DEF QuitQemu, guest
<1>4. CASE Settle
  BY <1>4, StopsAndPower DEF Settle
<1>5. CASE PersistVars \/ Flatten
  BY <1>5 DEF PersistVars, Flatten, guest
<1> QED
  BY <1>1, <1>2, <1>3, <1>4, <1>5

\* The steps around the life of QEMU.
LEMMA ShutAround ==
  ASSUME TypeOK, ShutInv, HostAround PROVE ShutInv'
<1> USE DEF TypeOK, HostOK, ShutInv, Ending, PastVars, Fail, Goto, guest
<1>1. CASE Prepare \/ StartShare \/ Payload \/ MakeDisk
  BY <1>1 DEF Prepare, StartShare, Payload, MakeDisk
<1>2. CASE Launch
  BY <1>2 DEF Launch
<1>3. CASE StopVm \/ CloseShare
  BY <1>3 DEF StopVm, CloseShare
<1>4. CASE Package \/ RemoveWorkDir
  BY <1>4 DEF Package, RemoveWorkDir
<1> QED
  BY <1>1, <1>2, <1>3, <1>4 DEF HostAround

\* The steps of the guest: only a restart that is due changes power while it runs.
LEMMA ShutGuest ==
  ASSUME TypeOK, ShutInv, GuestNext \/ Hang \/ Unhang PROVE ShutInv'
<1>1. UNCHANGED <<cfg, pc, vars, accepted>> /\ (qemu' = "run" => qemu = "run")
  BY GuestStep
<1>2. /\ power' = power \/ power' = "on"
      /\ qemu' = "run" => power' = power \/ power = "restart"
  <2> USE DEF guest
  <2>1. CASE Hang \/ Unhang
    BY <2>1 DEF Hang, Unhang
  <2>2. CASE SetupReachesOobe \/ WindowsStarts \/ WindowsRestarts \/ AbandonedEnds
    BY <2>2 DEF SetupReachesOobe, WindowsStarts, WindowsRestarts, AbandonedEnds
  <2>3. CASE UserShutsDown \/ QemuDies \/ HostMsiEnds
    BY <2>3 DEF UserShutsDown, QemuDies, HostMsiEnds, PowersOff, Unplugged
  <2>4. CASE \/ FirstLogon \/ InstallShare \/ InstallOpenSsh \/ InstallRuntime
             \/ ImportDistro \/ StartS6
    BY <2>4 DEF FirstLogon, InstallShare, InstallOpenSsh, InstallRuntime, ImportDistro,
                StartS6, Step
  <2> QED
    BY <2>1, <2>2, <2>3, <2>4 DEF GuestNext
<1> QED
  BY <1>1, <1>2 DEF ShutInv

\* ShutInv is kept by every step.
LEMMA ShutStep == QuickShutdown /\ TypeOK /\ ShutInv /\ [Next]_vars_ => ShutInv'
<1> SUFFICES ASSUME QuickShutdown, TypeOK, ShutInv, [Next]_vars_ PROVE ShutInv'
  OBVIOUS
<1>1. CASE UNCHANGED vars_
  BY <1>1 DEF vars_, host, guest, ShutInv
<1>2. CASE HostLive
  BY <1>2, ShutBefore, ShutEnd
<1>3. CASE HostAround
  BY <1>3, ShutAround
<1>4. CASE GuestNext \/ Hang \/ Unhang
  BY <1>4, ShutGuest
<1> QED
  BY <1>1, <1>2, <1>3, <1>4, StepKinds

\* A build that has not started shuts nothing down.
LEMMA ShutInit == Init => ShutInv
  BY DEF Init, ShutInv, Ending, PastVars

\* The NVRAM copy of a shutdown that was accepted is taken from a VM that has ended.
THEOREM VarsSettledCorrect == ASSUME QuickShutdown PROVE Spec => []VarsSettled
<1>1. ShutInv => VarsSettled
  BY DEF ShutInv, VarsSettled
<1>2. TypeOK /\ ShutInv /\ [Next]_vars_ => ShutInv'
  BY ShutStep
<1> QED
  BY <1>1, <1>2, TypeInit, TypeStep, ShutInit, PTL DEF Spec

\* A Windows that an install shuts down gets to power off: nothing of the build ends
\* its QEMU before its disk is clean.
THEOREM ShutdownRunsItsCourseCorrect ==
  ASSUME QuickShutdown PROVE Spec => ShutdownRunsItsCourse
<1>1. TypeOK /\ ShutInv /\ [Next]_vars_ => [cfg.mode # "continue" => ~CutShort]_vars_
  <2> SUFFICES ASSUME TypeOK, ShutInv, Next, cfg.mode # "continue", CutShort PROVE FALSE
    OBVIOUS
  <2>1. pc = "grace" /\ pc' # pc
    BY DEF ShutInv, CutShort
  <2>2. Grace
    <3>1. ~(GuestNext \/ Hang \/ Unhang)
      BY <2>1, GuestStep
    <3> QED
      BY <2>1, <3>1 DEF Next, HostNext, Prepare, StartShare, Payload, MakeDisk, Launch,
         WaitGosshd, WaitOpenSsh, DialHooks, RunHook, HookExits, HookTimesOut,
         RebootAfterHook, Whoami, ForceVioSerial, StartRuntimeMsi, AwaitRuntimeMsi,
         Verify, VerifyDistro, VerifyRegistration, ProbeShare, WriteShare, EndHold,
         TeardownGosshd, ShutDownGuest, QuitQemu, Settle, PersistVars, Flatten, StopVm,
         CloseShare, Package, RemoveWorkDir
  <2>3. PowersOff
    BY <2>2, GraceSuffices DEF Grace, CutShort
  <2> QED
    BY <2>3 DEF PowersOff, CutShort
<1>2. TypeOK /\ ShutInv /\ [Next]_vars_ => ShutInv'
  BY ShutStep
<1> QED
  BY <1>1, <1>2, TypeInit, TypeStep, ShutInit, PTL DEF Spec, ShutdownRunsItsCourse
===============================================================================
