------------------------------ MODULE ImageBuild ------------------------------
(* A `winkit build` of a full Windows image: the host program that installs,  *)
(* provisions, verifies and shuts down the guest, and the guest whose         *)
(* first-logon bootstrap runs at the same time. Three modes share the code:   *)
(* "base" (build/base.go), "wsl" (build/wsl.go wslImage) and "continue"       *)
(* (continueWSLImage, which bakes an overlay of an installed disk).           *)
EXTENDS Naturals, Sequences

CONSTANTS
    Hooks,       \* opts.Hooks, sorted by phase
    Configs,     \* what a build may be asked for
    OffSeconds,  \* from an accepted `shutdown /s /t 5` to power off
    MayHang      \* the guest may leave a command without an answer

Phases == {"specialize", "oobe", "boot", "wsl"}
Config == [mode : {"base", "wsl", "continue"},
           distro : BOOLEAN,                  \* a distro.wsl is shipped
           share : {"none", "task", "s6"},    \* who runs the guest's mount
           keep : BOOLEAN,                    \* WINKIT_E2E_TEARDOWN=false
           secure : BOOLEAN,                  \* tcg: no NVRAM file
           interactive : BOOLEAN]             \* WINKIT_E2E_INTERACTIVE

ASSUME HooksAssumption ==
    Hooks \in Seq([phase : Phases, retries : Nat, reboot : BOOLEAN])
ASSUME ConfigsAssumption ==
    /\ Configs \subseteq Config
    /\ \A c \in Configs : c.mode = "base" => ~c.distro /\ c.share = "none"
    /\ \A c \in Configs : c.share = "s6" => c.distro
ASSUME OffAssumption == OffSeconds \in Nat \ {0} /\ MayHang \in BOOLEAN

VARIABLES
    cfg,                            \* the configuration of this build
    pc, err, hung,                  \* the host program
    chan,                           \* the SSH channel it provisions over
    sftp, workDir,                  \* what it provides while the guest runs
    qemu, os, power, left,          \* the VM, and its Windows
    disk, have, svc,                \* the image, and what runs of it
    boot, msi,                      \* the bootstrap, and Windows Installer
    vars, accepted,                 \* NVRAM copy; the shutdown got through
    at, attempt, sess,              \* the hook at hand, the connection for it
    cmds, started, passed           \* hook commands in the guest, and so far

host == <<pc, err, hung, chan, sftp, workDir, vars, accepted>>
guest == <<qemu, os, power, left, disk, have, svc, boot, msi>>
hooking == <<at, attempt, sess, cmds, started, passed>>
vars_ == <<cfg, host, guest, hooking>>

Items == {"gosshd", "openssh", "rclone", "task", "wsl", "distro", "wsl1", "s6"}
Services == {"gosshd", "openssh"}
HookIds == DOMAIN Hooks
OverSsh(i) == Hooks[i].phase \in {"boot", "wsl"}

HostOK ==
    /\ cfg \in Configs
    /\ pc \in {"prepare", "share", "payload", "disk", "launch", "wait", "waitSsh",
               "hooks", "hook", "hookWait", "hookReboot", "whoami",
               "vioserial", "runtime", "runtimeWait", "verify", "distro",
               "registration", "probe", "write", "hold", "teardown", "shutdown",
               "grace", "quit", "settle", "vars", "flatten",
               "stopVm", "closeShare", "package", "remove", "returned"}
    /\ err \in BOOLEAN /\ hung \in BOOLEAN
    /\ chan \in Services \cup {"none"}
    /\ sftp \in {"none", "open", "closed"} /\ workDir \in BOOLEAN
    /\ vars \in {"none", "settled", "live"} /\ accepted \in BOOLEAN

GuestOK ==
    /\ qemu \in {"none", "run", "killed", "gone"}
    /\ os \in {"off", "setup", "up", "down"}
    /\ power \in {"on", "restart", "off"} /\ left \in 0..OffSeconds
    /\ disk \in {"none", "blank", "dirty", "clean"}
    /\ have \subseteq Items /\ svc \subseteq Services
    /\ boot \in {"before", "share", "winfsp", "openssh", "wsl", "wslMsi",
                 "import", "s6", "done", "cut"}
    /\ msi \in {"free", "host", "bootstrap"}

HooksOK ==
    /\ at \in Nat /\ attempt \in Nat /\ sess \in BOOLEAN
    /\ cmds \subseteq HookIds \X Nat
    /\ started \in [HookIds -> Nat] /\ passed \subseteq HookIds

TypeOK == HostOK /\ GuestOK /\ HooksOK

\* A build starts from nothing; a continued one from a disk that an earlier
\* build finished, with or without the provisioning channel.
Init ==
    /\ cfg \in Configs
    /\ pc = "prepare" /\ err = FALSE /\ hung = FALSE /\ chan = "none"
    /\ sftp = "none" /\ workDir = FALSE
    /\ qemu = "none" /\ os = "off" /\ power = "on" /\ left = 0
    /\ disk = "none"
    /\ \/ cfg.mode # "continue" /\ have = {} /\ boot = "before"
       \/ /\ cfg.mode = "continue" /\ boot = "done"
          /\ \E ch \in SUBSET {"gosshd", "s6", "task"} :
                have = ch \cup (Items \ {"gosshd", "s6", "task"})
    /\ svc = {} /\ msi = "free" /\ vars = "none" /\ accepted = FALSE
    /\ at = 0 /\ attempt = 0 /\ sess = FALSE
    /\ cmds = {} /\ started = [i \in HookIds |-> 0] /\ passed = {}

-------------------------------------------------------------------------------
(* Steps of the host program.                                                 *)

\* An error return: the deferred calls follow.
Fail == pc' = "stopVm" /\ err' = TRUE
Goto(l) == pc' = l /\ err' = err

\* Where a mode goes on when its channel has been verified.
Serves == cfg.mode = "continue" \/ cfg.share # "none"
Holds == IF cfg.mode = "continue" THEN cfg.interactive ELSE cfg.keep
AfterShare == IF Holds THEN "hold" ELSE "teardown"
AfterDistro == IF Serves THEN "probe" ELSE AfterShare

\* A fresh sshRun to channel ch can be answered. It may fail all the same.
Answers(ch) == qemu = "run" /\ os = "up" /\ ch \in svc

\* The command line made the working directory; media, payloads and programs
\* for the guest come from caches, downloads and compilers, all of which fail.
Prepare ==
    /\ pc = "prepare"
    /\ \/ workDir' = TRUE /\ Goto("share")
       \/ workDir' \in BOOLEAN /\ pc' = "remove" /\ err' = TRUE
    /\ UNCHANGED <<cfg, hung, chan, sftp, vars, accepted, guest, hooking>>

\* The SFTP server is up before the VM: the guest mounts it at boot.
StartShare ==
    /\ pc = "share"
    /\ \/ Serves /\ sftp' = "open" /\ Goto("payload")
       \/ ~Serves /\ sftp' = sftp /\ Goto("payload")
       \/ Serves /\ sftp' = sftp /\ Fail
    /\ UNCHANGED <<cfg, hung, chan, workDir, vars, accepted, guest, hooking>>

\* The distro is materialized, the answer volume written.
Payload ==
    /\ pc = "payload"
    /\ Goto("disk") \/ Fail
    /\ UNCHANGED <<cfg, hung, chan, sftp, workDir, vars, accepted, guest, hooking>>

\* CreateDisk, or CreateOverlay on the base; then boot volume and NVRAM.
MakeDisk ==
    /\ pc = "disk"
    /\ \/ disk' = (IF cfg.mode = "continue" THEN "clean" ELSE "blank")
          /\ (Goto("launch") \/ Fail)
       \/ disk' = disk /\ Fail
    /\ UNCHANGED <<cfg, hung, chan, sftp, workDir, vars, accepted,
                   qemu, os, power, left, have, svc, boot, msi, hooking>>

\* StartInstall and StartRun: QEMU runs, Setup or the installed Windows boots.
Launch ==
    /\ pc = "launch"
    /\ \/ /\ qemu' = "run" /\ disk' = "dirty" /\ Goto("wait")
          /\ os' = (IF cfg.mode = "continue" THEN "down" ELSE "setup")
       \/ UNCHANGED <<qemu, disk, os>> /\ Fail
    /\ UNCHANGED <<cfg, hung, chan, sftp, workDir, vars, accepted,
                   power, left, have, svc, boot, msi, hooking>>

\* waitForWindowsSSH on gosshd: it answers, the VM exits, or the deadline
\* passes. A continued build then tries the delivered OpenSSH.
WaitGosshd ==
    /\ pc = "wait"
    /\ \/ /\ Answers("gosshd") /\ chan' = "gosshd"
          /\ Goto(CASE cfg.mode = "base" -> "hooks"
                    [] cfg.mode = "wsl" -> "vioserial"
                    [] cfg.mode = "continue" -> "verify")
       \/ chan' = chan /\ IF cfg.mode = "continue" THEN Goto("waitSsh") ELSE Fail
    /\ UNCHANGED <<cfg, hung, sftp, workDir, vars, accepted, guest, hooking>>

\* No channel at all ends a build in CI; a human may still look at the screen.
WaitOpenSsh ==
    /\ pc = "waitSsh"
    /\ \/ Answers("openssh") /\ chan' = "openssh" /\ Goto("verify")
       \/ chan' = chan /\ IF cfg.interactive THEN Goto("hold") ELSE Fail
    /\ UNCHANGED <<cfg, hung, sftp, workDir, vars, accepted, guest, hooking>>

-------------------------------------------------------------------------------
(* Build hooks over one SSH connection (base mode).                           *)

NextHook(i) == i + 1
\* Mutant of LastTry: one attempt too many.
LastTryLate(i) == attempt > Hooks[i].retries
LastTry(i) == attempt >= Hooks[i].retries

\* The connection that all hooks share is dialed once.
DialHooks ==
    /\ pc = "hooks"
    /\ IF \E i \in HookIds : OverSsh(i)
       THEN \/ /\ Answers("gosshd") /\ sess' = TRUE /\ at' = 1 /\ attempt' = 0
               /\ Goto("hook")
            \/ UNCHANGED <<sess, at, attempt>> /\ Fail
       ELSE UNCHANGED <<sess, at, attempt>> /\ Goto("whoami")
    /\ UNCHANGED <<cfg, hung, chan, sftp, workDir, vars, accepted, guest,
                   cmds, started, passed>>

\* A failed attempt is retried as often as the hook says; then the build fails.
AttemptFails ==
    IF LastTry(at) THEN Fail /\ attempt' = attempt
    ELSE Goto("hook") /\ attempt' = attempt + 1

\* The loop of ExecuteSSH: skip a hook of another phase, start an attempt, or
\* find the connection gone.
RunHook ==
    /\ pc = "hook"
    /\ \/ /\ at > Len(Hooks) /\ Goto("whoami")
          /\ UNCHANGED <<at, attempt, cmds, started>>
       \/ /\ at \in HookIds /\ ~OverSsh(at)
          /\ at' = NextHook(at) /\ attempt' = 0 /\ Goto("hook")
          /\ UNCHANGED <<cmds, started>>
       \/ /\ at \in HookIds /\ OverSsh(at) /\ sess
          /\ cmds' = cmds \cup {<<at, attempt>>}
          /\ started' = [started EXCEPT ![at] = @ + 1]
          /\ Goto("hookWait") /\ UNCHANGED <<at, attempt>>
       \/ /\ at \in HookIds /\ OverSsh(at) /\ ~sess /\ AttemptFails
          /\ UNCHANGED <<at, cmds, started>>
    /\ UNCHANGED <<cfg, hung, chan, sftp, workDir, vars, accepted, guest,
                   sess, passed>>

\* A valid exit code ends the hook, any other one the attempt.
HookExits ==
    /\ pc = "hookWait" /\ sess /\ <<at, attempt>> \in cmds
    /\ cmds' = cmds \ {<<at, attempt>>}
    /\ \/ /\ passed' = passed \cup {at}
          /\ IF Hooks[at].reboot
             THEN Goto("hookReboot") /\ UNCHANGED <<at, attempt>>
             ELSE Goto("hook") /\ at' = NextHook(at) /\ attempt' = 0
       \/ passed' = passed /\ at' = at /\ AttemptFails
    /\ UNCHANGED <<cfg, hung, chan, sftp, workDir, vars, accepted, guest,
                   sess, started>>

\* The timeout closes the session. The guest's process is not told.
HookTimesOut ==
    /\ pc = "hookWait" /\ AttemptFails
    /\ UNCHANGED <<cfg, hung, chan, sftp, workDir, vars, accepted, guest,
                   at, sess, cmds, started, passed>>

\* `shutdown /r /t 0`, its errors ignored; nobody waits for the guest to return.
RebootAfterHook ==
    /\ pc = "hookReboot"
    /\ \/ sess /\ os = "up" /\ power' = "restart"
       \/ power' = power
    /\ at' = NextHook(at) /\ attempt' = 0 /\ Goto("hook")
    /\ UNCHANGED <<cfg, hung, chan, sftp, workDir, vars, accepted,
                   qemu, os, left, disk, have, svc, boot, msi,
                   sess, cmds, started, passed>>

\* An sshRun of whoami on a new connection.
Whoami ==
    /\ pc = "whoami"
    /\ (Answers("gosshd") /\ Goto("teardown")) \/ Fail
    /\ UNCHANGED <<cfg, hung, chan, sftp, workDir, vars, accepted, guest, hooking>>

-------------------------------------------------------------------------------
(* Provisioning and verification (wsl and continue modes).                    *)

\* pnputil for the serial driver; a failure is a warning.
ForceVioSerial ==
    /\ pc = "vioserial" /\ Goto("runtime")
    /\ UNCHANGED <<cfg, hung, chan, sftp, workDir, vars, accepted, guest, hooking>>

\* The host's msiexec of the WSL runtime. Windows Installer runs one package
\* at a time: while the bootstrap's runs, this one fails, which is a warning.
StartRuntimeMsi ==
    /\ pc = "runtime"
    /\ \/ Answers("gosshd") /\ msi = "free" /\ msi' = "host" /\ Goto("runtimeWait")
       \/ msi' = msi /\ Goto("verify")
    /\ UNCHANGED <<cfg, hung, chan, sftp, workDir, vars, accepted,
                   qemu, os, power, left, disk, have, svc, boot, hooking>>

\* The command returned, or its connection broke while msiexec goes on.
AwaitRuntimeMsi ==
    /\ pc = "runtimeWait" /\ Goto("verify")
    /\ UNCHANGED <<cfg, hung, chan, sftp, workDir, vars, accepted, guest, hooking>>

\* A verification that failed: advisory when a human continues a build.
Advisory == cfg.mode = "continue" /\ cfg.interactive
NotVerified(next) == IF Advisory THEN Goto(next) ELSE Fail

\* whoami and the RDP port. The probes of the delivered OpenSSH and of the
\* pe-agent's log that follow in wsl mode decide nothing.
Verify ==
    /\ pc = "verify"
    /\ LET next == IF cfg.mode = "continue" THEN "probe"
                   ELSE IF cfg.distro THEN "distro" ELSE AfterDistro
       IN (Answers(chan) /\ Goto(next)) \/ NotVerified(next)
    /\ UNCHANGED <<cfg, hung, chan, sftp, workDir, vars, accepted, guest, hooking>>

\* wslVerifyDistro polls until the distro runs its command, or ten minutes.
DistroAnswers == Answers("openssh") /\ "distro" \in have
\* Mutant of VerifyDistro: the poll has no deadline.
VerifyDistroForever ==
    /\ pc = "distro" /\ DistroAnswers /\ Goto("registration")
    /\ UNCHANGED <<cfg, hung, chan, sftp, workDir, vars, accepted, guest, hooking>>

VerifyDistro ==
    /\ pc = "distro"
    /\ (DistroAnswers /\ Goto("registration")) \/ Fail
    /\ UNCHANGED <<cfg, hung, chan, sftp, workDir, vars, accepted, guest, hooking>>

\* Mutant of VerifyRegistration: a distro that answers is taken for a WSL1 one.
VerifyUseOnly ==
    /\ pc = "registration"
    /\ (Answers("openssh") /\ "distro" \in have /\ Goto(AfterDistro)) \/ Fail
    /\ UNCHANGED <<cfg, hung, chan, sftp, workDir, vars, accepted, guest, hooking>>

\* The registry must not say that the distro is a WSL2 one.
VerifyRegistration ==
    /\ pc = "registration"
    /\ (Answers("openssh") /\ "wsl1" \in have /\ Goto(AfterDistro)) \/ Fail
    /\ UNCHANGED <<cfg, hung, chan, sftp, workDir, vars, accepted, guest, hooking>>

\* W: is there when the server is up and something in the guest mounts it.
Mounted ==
    /\ sftp = "open" /\ "rclone" \in have
    /\ \/ cfg.share = "task" /\ "task" \in have
       \/ cfg.share = "s6" /\ "s6" \in have
ShareChannel == IF cfg.mode = "continue" THEN chan ELSE "openssh"

\* wslVerifySFTP: the guest reads the host's probe within 90 seconds,
ProbeShare ==
    /\ pc = "probe"
    /\ (Answers(ShareChannel) /\ Mounted /\ Goto("write")) \/ NotVerified(AfterShare)
    /\ UNCHANGED <<cfg, hung, chan, sftp, workDir, vars, accepted, guest, hooking>>

\* edits it, and writes a file of its own, both of which the host must see.
WriteShare ==
    /\ pc = "write"
    /\ (Answers(ShareChannel) /\ Mounted /\ Goto(AfterShare)) \/ NotVerified(AfterShare)
    /\ UNCHANGED <<cfg, hung, chan, sftp, workDir, vars, accepted, guest, hooking>>

\* A human works with the guest until Ctrl-C.
EndHold ==
    /\ pc = "hold" /\ Goto("teardown")
    /\ UNCHANGED <<cfg, hung, chan, sftp, workDir, vars, accepted, guest, hooking>>

-------------------------------------------------------------------------------
(* The end of the guest, and of the build.                                    *)

\* What ends with Windows, whichever way it stops.
WindowsStops ==
    /\ svc' = {} /\ msi' = "free" /\ sess' = FALSE /\ cmds' = {}
    /\ boot' = IF boot \in {"before", "done"} THEN boot ELSE "cut"

\* A shutdown that completes; QEMU exits with it.
PowersOff ==
    /\ qemu' = "gone" /\ os' = "off" /\ power' = "on" /\ left' = 0
    /\ disk' = "clean" /\ WindowsStops
    /\ UNCHANGED <<have, at, attempt, started, passed>>

\* QEMU stops under a running Windows.
Unplugged ==
    /\ qemu' = "gone" /\ os' = "off" /\ power' = "on" /\ left' = 0
    /\ WindowsStops
    /\ UNCHANGED <<disk, have, at, attempt, started, passed>>

\* The host sleeps n seconds.
Sleeps(n) ==
    IF qemu = "run" /\ power = "off" /\ left <= n THEN PowersOff
    ELSE /\ left' = IF qemu = "run" /\ power = "off" THEN left - n ELSE left
         /\ UNCHANGED <<qemu, os, power, disk, have, svc, boot, msi, hooking>>

\* wslTeardownGosshd deletes the task and the binary. The process stays until
\* Windows stops, and errors are ignored. A continued build that came in over
\* the delivered OpenSSH has nothing to tear down.
TeardownGosshd ==
    /\ pc = "teardown" /\ Goto("shutdown")
    /\ have' = have \ {"gosshd"} \/ have' = have
    /\ cfg.keep \/ chan # "gosshd" \/ ~Answers(chan) => have' = have
    /\ UNCHANGED <<cfg, hung, chan, sftp, workDir, vars, accepted,
                   qemu, os, power, left, disk, svc, boot, msi, hooking>>

\* Mutant of AfterShutdown: QEMU is ended without a grace period.
AfterShutdownAtOnce == "quit"
AfterShutdown == IF cfg.mode = "continue" THEN "quit" ELSE "grace"

\* `shutdown /s /t 5`; a Windows that is already restarting refuses it.
ShutDownGuest ==
    /\ pc = "shutdown" /\ Goto(AfterShutdown)
    /\ \/ /\ chan # "none" /\ Answers(chan) /\ power = "on"
          /\ power' = "off" /\ left' = OffSeconds /\ accepted' = TRUE
       \/ UNCHANGED <<power, left, accepted>>
    /\ UNCHANGED <<cfg, hung, chan, sftp, workDir, vars,
                   qemu, os, disk, have, svc, boot, msi, hooking>>

\* Mutant of Grace: the grace period is the guest's countdown.
GraceShort ==
    /\ pc = "grace" /\ Sleeps(5) /\ Goto("quit")
    /\ UNCHANGED <<cfg, hung, chan, sftp, workDir, vars, accepted>>

Grace ==
    /\ pc = "grace" /\ Sleeps(15) /\ Goto("quit")
    /\ UNCHANGED <<cfg, hung, chan, sftp, workDir, vars, accepted>>

\* QMPQuit ends a QEMU at once; its error (the socket is gone, or the
\* screenshot loop holds the only connection) is ignored.
QuitQemu ==
    /\ pc = "quit" /\ Goto("settle")
    /\ (qemu = "run" /\ Unplugged) \/ UNCHANGED <<guest, hooking>>
    /\ UNCHANGED <<cfg, hung, chan, sftp, workDir, vars, accepted>>

Settle ==
    /\ pc = "settle"
    /\ IF cfg.mode = "continue" THEN Sleeps(8) /\ Goto("flatten")
       ELSE Sleeps(5) /\ Goto("vars")
    /\ UNCHANGED <<cfg, hung, chan, sftp, workDir, vars, accepted>>

\* The NVRAM file is copied next to the image, errors ignored.
PersistVars ==
    /\ pc = "vars" /\ Goto("stopVm")
    /\ \/ ~cfg.secure /\ vars' = (IF qemu = "run" THEN "live" ELSE "settled")
       \/ vars' = vars
    /\ UNCHANGED <<cfg, hung, chan, sftp, workDir, accepted, guest, hooking>>

\* qemu-img merges the overlay and its base into the baked image.
Flatten ==
    /\ pc = "flatten"
    /\ Goto("stopVm") \/ Fail
    /\ UNCHANGED <<cfg, hung, chan, sftp, workDir, vars, accepted, guest, hooking>>

\* Mutant of StopVm: the VM is stopped only by a build that failed.
StopFailedVm ==
    /\ pc = "stopVm" /\ pc' = "closeShare" /\ err' = err
    /\ qemu' = (IF qemu = "run" /\ err THEN "killed" ELSE qemu) /\ sess' = FALSE
    /\ UNCHANGED <<cfg, hung, chan, sftp, workDir, vars, accepted,
                   os, power, left, disk, have, svc, boot, msi,
                   at, attempt, cmds, started, passed>>

\* Deferred runner.Close and machine.Stop. The kill is not awaited: the
\* goroutine of newVMHandle is in cmd.Wait already, so the second Wait returns.
StopVm ==
    /\ pc = "stopVm" /\ pc' = "closeShare" /\ err' = err
    /\ qemu' = (IF qemu = "run" THEN "killed" ELSE qemu) /\ sess' = FALSE
    /\ UNCHANGED <<cfg, hung, chan, sftp, workDir, vars, accepted,
                   os, power, left, disk, have, svc, boot, msi,
                   at, attempt, cmds, started, passed>>

\* Deferred sftpSrv.Close, and the return to the command line.
CloseShare ==
    /\ pc = "closeShare" /\ Goto(IF err THEN "remove" ELSE "package")
    /\ sftp' = (IF sftp = "open" THEN "closed" ELSE sftp)
    /\ UNCHANGED <<cfg, hung, chan, workDir, vars, accepted, guest, hooking>>

\* The size check of the produced disk, and its packaging.
Package ==
    /\ pc = "package" /\ pc' = "remove" /\ err' \in BOOLEAN
    /\ UNCHANGED <<cfg, hung, chan, sftp, workDir, vars, accepted, guest, hooking>>

\* The guest's log is merged, then the working directory is deleted.
RemoveWorkDir ==
    /\ pc = "remove" /\ workDir' = FALSE /\ Goto("returned")
    /\ UNCHANGED <<cfg, hung, chan, sftp, vars, accepted, guest, hooking>>

-------------------------------------------------------------------------------
(* The guest: Windows Setup, the first-logon bootstrap, hook processes.       *)

Runs == qemu = "run" /\ os = "up"

\* Specialize registered gosshd as an onstart task; the next boot has it.
SetupReachesOobe ==
    /\ qemu = "run" /\ os = "setup" /\ os' = "up"
    /\ have' = have \cup {"gosshd"} /\ svc' = {"gosshd"}
    /\ UNCHANGED <<cfg, host, qemu, power, left, disk, boot, msi, hooking>>

WindowsStarts ==
    /\ qemu = "run" /\ os = "down" /\ os' = "up" /\ svc' = have \cap Services
    /\ UNCHANGED <<cfg, host, qemu, power, left, disk, have, boot, msi, hooking>>

WindowsRestarts ==
    /\ Runs /\ power = "restart" /\ os' = "down" /\ power' = "on" /\ WindowsStops
    /\ UNCHANGED <<cfg, host, qemu, left, disk, have, at, attempt, started, passed>>

\* Someone shuts a held guest down by hand.
UserShutsDown ==
    /\ pc = "hold" /\ Runs /\ PowersOff
    /\ UNCHANGED <<cfg, host>>

QemuDies ==
    /\ qemu = "run" \/ qemu = "killed"
    /\ Unplugged
    /\ UNCHANGED <<cfg, host>>

\* An abandoned hook process ends by itself.
AbandonedEnds ==
    /\ \E c \in cmds : (pc # "hookWait" \/ c # <<at, attempt>>) /\ cmds' = cmds \ {c}
    /\ UNCHANGED <<cfg, host, guest, at, attempt, sess, started, passed>>

\* The host's msiexec ends, whether or not the host still listens.
HostMsiEnds ==
    /\ Runs /\ msi = "host" /\ msi' = "free"
    /\ have' = have \cup {"wsl"} \/ have' = have
    /\ UNCHANGED <<cfg, host, qemu, os, power, left, disk, svc, boot, hooking>>

\* One step of bootstrap.ps1: Invoke-Step records a failure and goes on.
Step(from, to) ==
    /\ Runs /\ boot = from /\ boot' = to
    /\ UNCHANGED <<cfg, host, qemu, os, power, left, disk, hooking>>

FirstLogon ==
    /\ Step("before", IF cfg.share = "none" THEN "openssh" ELSE "share")
    /\ UNCHANGED <<have, svc, msi>>

\* WinFsp's msiexec, which needs Windows Installer; then rclone, and, unless the
\* distro's s6 does it, the mount task (which stays when its mount fails).
InstallShare ==
    \/ /\ msi = "free" /\ msi' = "bootstrap" /\ Step("share", "winfsp")
       /\ UNCHANGED <<have, svc>>
    \/ msi = "host" /\ Step("share", "openssh") /\ UNCHANGED <<have, svc, msi>>
    \/ /\ Step("winfsp", "openssh") /\ msi' = "free" /\ svc' = svc
       /\ have' \in {have, have \cup {"rclone"}}
                    \cup (IF cfg.share = "task" THEN {have \cup {"rclone", "task"}} ELSE {})

InstallOpenSsh ==
    /\ Step("openssh", "wsl") /\ msi' = msi
    /\ \/ have' = have \cup {"openssh"} /\ svc' = svc \cup {"openssh"}
       \/ UNCHANGED <<have, svc>>

\* Skipped when the host has installed the runtime; fails while it installs it.
InstallRuntime ==
    \/ "wsl" \in have /\ Step("wsl", "import") /\ UNCHANGED <<have, svc, msi>>
    \/ /\ "wsl" \notin have /\ msi = "free" /\ msi' = "bootstrap"
       /\ Step("wsl", "wslMsi") /\ UNCHANGED <<have, svc>>
    \/ /\ "wsl" \notin have /\ msi = "host"
       /\ Step("wsl", "import") /\ UNCHANGED <<have, svc, msi>>
    \/ /\ Step("wslMsi", "import") /\ msi' = "free" /\ svc' = svc
       /\ have' \in {have, have \cup {"wsl"}}

\* No distro file, no runtime, or an import that fails: on to the end. One that
\* came out as WSL2, or whose shell does not answer, fails the step too, and
\* leaves the distro.
ImportDistro ==
    /\ UNCHANGED <<svc, msi>>
    /\ \/ Step("import", "done") /\ have' = have
       \/ /\ cfg.distro /\ "wsl" \in have
          /\ Step("import", "done")
          /\ have' \in {have \cup {"distro"}, have \cup {"distro", "wsl1"}}
       \/ /\ cfg.distro /\ "wsl" \in have
          /\ Step("import", "s6") /\ have' = have \cup {"distro", "wsl1"}

\* The s6 supervisor as a service; what follows only verifies and decorates.
StartS6 ==
    /\ Step("s6", "done") /\ UNCHANGED <<svc, msi>>
    /\ have' \in {have, have \cup {"s6"}}

-------------------------------------------------------------------------------
(* Only the dial of an sshRun has a deadline. A guest that stalls after it     *)
(* holds the host program until its connection breaks. A continued build ends  *)
(* over a context of three minutes.                                           *)
Commands == {"wait", "waitSsh", "hookReboot", "whoami", "vioserial", "runtimeWait",
             "verify", "distro", "registration", "probe", "write"}
            \cup IF cfg.mode = "continue" THEN {} ELSE {"teardown", "shutdown"}

Hang ==
    /\ MayHang /\ pc \in Commands /\ qemu = "run" /\ os = "up"
    /\ hung' = TRUE
    /\ UNCHANGED <<cfg, pc, err, chan, sftp, workDir, vars, accepted, guest, hooking>>

\* An answer that comes late is no hang; this is the broken connection.
Unhang ==
    /\ hung /\ qemu # "run" /\ hung' = FALSE
    /\ UNCHANGED <<cfg, pc, err, chan, sftp, workDir, vars, accepted, guest, hooking>>

HostNext ==
    /\ ~hung
    /\ \/ Prepare \/ StartShare \/ Payload \/ MakeDisk \/ Launch
       \/ WaitGosshd \/ WaitOpenSsh
       \/ DialHooks \/ RunHook \/ HookExits \/ HookTimesOut \/ RebootAfterHook
       \/ Whoami \/ ForceVioSerial \/ StartRuntimeMsi \/ AwaitRuntimeMsi
       \/ Verify \/ VerifyDistro \/ VerifyRegistration \/ ProbeShare \/ WriteShare
       \/ TeardownGosshd \/ ShutDownGuest \/ Grace \/ QuitQemu \/ Settle
       \/ PersistVars \/ Flatten
       \/ StopVm \/ CloseShare \/ Package \/ RemoveWorkDir

GuestNext ==
    \/ SetupReachesOobe \/ WindowsStarts \/ WindowsRestarts \/ UserShutsDown
    \/ QemuDies \/ AbandonedEnds \/ HostMsiEnds
    \/ FirstLogon \/ InstallShare \/ InstallOpenSsh \/ InstallRuntime
    \/ ImportDistro \/ StartS6

Next == HostNext \/ (~hung /\ EndHold) \/ Hang \/ Unhang \/ GuestNext

Spec == Init /\ [][Next]_vars_

\* The host program runs on, and a connection to a dead QEMU breaks. Neither the
\* guest nor the human who holds it owes anything.
Fairness ==
    /\ WF_vars_(HostNext)
    /\ WF_vars_(Unhang)
    /\ WF_vars_(qemu = "killed" /\ QemuDies)

FairSpec == Spec /\ Fairness

-------------------------------------------------------------------------------
Ok == pc = "returned" /\ ~err

\* While the guest runs, the working directory that holds its boot volume, and
\* the SFTP server that its mount retries, are there: the deferred calls of the
\* build and of the command line stop the VM first.
HostServesGuest ==
    qemu = "run" => workDir /\ (Serves => sftp = "open")

\* A hook is attempted only when all SSH hooks before it have passed, no more
\* often than its retries allow, and a base image is delivered only when each
\* of them has passed, whatever timeouts, reboots and dead connections did.
HooksKept ==
    /\ \A i \in HookIds : started[i] <= Hooks[i].retries + 1
    /\ \A i, j \in HookIds :
          i < j /\ OverSsh(i) /\ started[j] > 0 => i \in passed
    /\ Ok /\ cfg.mode = "base" => \A i \in HookIds : OverSsh(i) => i \in passed

\* A wsl image that was delivered has its distro, registered as WSL1, and what
\* mounts the share at its next boot, although bootstrap and host ran at the
\* same time and either may have spoilt the other's installer.
WslComplete ==
    Ok /\ cfg.mode = "wsl" =>
        /\ cfg.distro => {"distro", "wsl1", "wsl", "openssh"} \subseteq have
        /\ cfg.share # "none" => {"rclone", cfg.share} \subseteq have

\* The host ended QEMU under a Windows that was shutting down.
CutShort == power = "off" /\ qemu = "run" /\ pc' # pc /\ qemu' # "run" /\ disk' # "clean"

\* A Windows that an install build shuts down, and that needs no longer than it
\* is given, gets there: QEMU is ended only when the disk is clean.
ShutdownRunsItsCourse == [][cfg.mode # "continue" => ~CutShort]_vars_

\* The same of a continued build, whose bake is to follow a clean shutdown.
BakeIsOfCleanShutdown == [][cfg.mode = "continue" => ~CutShort]_vars_

\* The NVRAM copy of an accepted shutdown is of a VM that has ended.
VarsSettled == accepted => vars # "live"

\* The build returns, or sits in a command that the guest never answers, or is
\* held by a human.
BuildReturns ==
    <>(pc = "returned") \/ <>[]hung \/ <>[](pc = "hold")
===============================================================================
