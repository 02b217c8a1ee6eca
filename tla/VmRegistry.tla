----------------------------- MODULE VmRegistry -----------------------------
(***************************************************************************)
(* The life of a VM as `winkit start` and `winkit stop` see it: several    *)
(* winkit processes (Clients) share the state directory (one <name>.json   *)
(* per VM) and the host's process table, and nothing locks either.         *)
(*                                                                         *)
(*   start.go                 Start: guard by image, launch, save          *)
(*   internal/cli/start.go    the command around it: wait for SSH,         *)
(*                            foreground, removal of the entry             *)
(*   internal/cli/stop.go     resolve, graceful shutdown, SIGTERM, SIGKILL *)
(*   vm/vmstate/vmstate.go    Save, Load, List, Remove, FindByImage        *)
(*   vm/qemu/install.go       StartRun: exec QEMU, wait for a QMP accept   *)
(*                                                                         *)
(* QEMU is external: it creates its QMP socket, then takes the image lock  *)
(* and the host port forwards, and may exit at any moment.  All images     *)
(* live in one directory, so the output directory (and the QMP socket in   *)
(* it) is a function of the VM name alone.                                 *)
(***************************************************************************)
EXTENDS Naturals, FiniteSets

CONSTANTS
    Names,        \* VM names, numbered in directory (ReadDir) order
    Images,       \* absolute image paths
    Ports,        \* host ports for the SSH forward
    Requests,     \* the [name, image, port] triples users pass to start
    Clients,      \* winkit processes
    Pids,         \* host process ids (the bound on launches when not reused)
    PidReuse,     \* may the host give an exited VM's pid to someone else?
    Crashers      \* the winkit processes that may die between two steps

Vm    == [name : Names, image : Images, port : Ports]
Entry == [name : Names, image : Images, port : Ports, pid : Pids]

ASSUME ConstantsAssumption ==
    /\ Names \subseteq Nat
    /\ Requests \subseteq Vm
    /\ Requests # {}
    /\ Pids # {}
    /\ PidReuse \in BOOLEAN
    /\ Crashers \subseteq Clients

VARIABLES
    reg,     \* the state directory: the set of readable entries
    phase,   \* [Pids -> Phases]: what runs under each pid
    vm,      \* [Pids -> Vm]: the VM the pid was last launched for
    sock,    \* [Names -> SUBSET Pids]: who accepts on the name's QMP socket
    pc,      \* [Clients -> PcValues]: where each winkit process is
    job,     \* [Clients -> Entry]: the VM it starts, or the entry it loaded
    fg,      \* [Clients -> BOOLEAN]: start --foreground
    done     \* the clients whose machine.Done() channel is closed

vars   == <<reg, phase, vm, sock, pc, job, fg, done>>
hostVars   == <<phase, vm, sock>>
clientVars == <<pc, job, fg>>

\* "exec" to "halt" are the stages of a QEMU process; "dying" has been sent
\* SIGKILL and not left the process table; "other" is a foreign process.
Phases == {"unused", "exited", "other", "exec", "sock", "up", "halt", "dying"}

StartPcs == {"launch", "dial", "save", "write", "wait", "fg", "fgstop", "unreg"}
StopPcs  == {"graceful", "wait30", "term", "wait10", "remove"}
PcValues == {"idle"} \cup StartPcs \cup StopPcs

TypeOK ==
    /\ reg \subseteq Entry
    /\ phase \in [Pids -> Phases]
    /\ vm \in [Pids -> Vm]
    /\ sock \in [Names -> SUBSET Pids]
    /\ pc \in [Clients -> PcValues]
    /\ job \in [Clients -> Entry]
    /\ fg \in [Clients -> BOOLEAN]
    /\ done \subseteq Clients

Init ==
    /\ reg = {}
    /\ phase = [p \in Pids |-> "unused"]
    /\ vm = [p \in Pids |-> CHOOSE r \in Requests : TRUE]
    /\ sock = [n \in Names |-> {}]
    /\ pc = [c \in Clients |-> "idle"]
    /\ job = [c \in Clients |-> CHOOSE e \in Entry : TRUE]
    /\ fg = [c \in Clients |-> FALSE]
    /\ done = {}

-----------------------------------------------------------------------------
(* vmstate *)

\* IsAlive: signal 0 reaches any process with that pid.
IsAlive(p) == phase[p] \notin {"unused", "exited"}

\* The stages in which a QEMU process has not been killed.
Running(p) == phase[p] \in {"exec", "sock", "up", "halt"}

\* FindByImage: the first entry in directory order, as a set of at most one.
FindByImage(i) ==
    {e \in reg : /\ e.image = i
                 /\ \A d \in reg : d.image = i => e.name <= d.name}

\* Load by name, as a set of at most one.
Load(n) == {e \in reg : e.name = n}

\* Remove deletes <name>.json, whoever wrote it.
Without(n) == {e \in reg : e.name # n}

\* resolveOnlyVM: the only entry whose pid is alive.
OnlyVM == {e \in reg : \A d \in reg : IsAlive(d.pid) <=> d = e}

\* resolveTarget by name, by image path, or no argument.
StopTargets == {e \in reg : \/ \E n \in Names : e \in Load(n)
                            \/ \E i \in Images : e \in FindByImage(i)
                            \/ e \in OnlyVM}

-----------------------------------------------------------------------------
(* Helpers *)

Goto(c, l) == pc' = [pc EXCEPT ![c] = l]
SetPhase(p, s) == phase' = [phase EXCEPT ![p] = s]

\* Process.Kill: QEMU leaves the table a little later, a stranger at once.
SendKill(p) ==
    phase' = [phase EXCEPT ![p] =
        IF Running(p) THEN "dying" ELSE IF @ = "other" THEN "exited" ELSE @]

\* Some guest answers SSH on the forwarded host port.
Answering(p, port) == phase[p] = "up" /\ vm[p].port = port

-----------------------------------------------------------------------------
(* winkit start *)

\* Mutants of StartCheck: --ssh-port without its default; no duplicate check.
StartCheckNoDefaults(c) ==
    /\ pc[c] = "idle"
    /\ \E r \in Requests :
        /\ \A e \in FindByImage(r.image) : ~IsAlive(e.pid)
        /\ job' = [job EXCEPT ![c].name = r.name, ![c].image = r.image, ![c].port = 0]
    /\ done' = done \ {c}
    /\ Goto(c, "launch")
    /\ UNCHANGED <<reg, hostVars, fg>>

StartCheckNoGuard(c) ==
    /\ pc[c] = "idle"
    /\ \E r \in Requests :
        job' = [job EXCEPT ![c].name = r.name, ![c].image = r.image, ![c].port = r.port]
    /\ done' = done \ {c}
    /\ Goto(c, "launch")
    /\ UNCHANGED <<reg, hostVars, fg>>

\* Start, up to the launch: the duplicate check looks at the image's first
\* entry only; a refusal changes nothing.
StartCheck(c) ==
    /\ pc[c] = "idle"
    /\ \E r \in Requests, f \in BOOLEAN :
        /\ \A e \in FindByImage(r.image) : ~IsAlive(e.pid)
        /\ job' = [job EXCEPT ![c] = [name |-> r.name, image |-> r.image,
                                      port |-> r.port, pid |-> @.pid]]
        /\ fg' = [fg EXCEPT ![c] = f]
    /\ done' = done \ {c}
    /\ Goto(c, "launch")
    /\ UNCHANGED <<reg, hostVars>>

\* Mutant of Launch: hostfwd ignores the port that was asked for.
LaunchFixedPort(c) ==
    /\ pc[c] = "launch"
    /\ \E p \in Pids :
        /\ phase[p] = "unused" \/ (PidReuse /\ phase[p] = "exited")
        /\ SetPhase(p, "exec")
        /\ vm' = [vm EXCEPT ![p] = [name |-> job[c].name, image |-> job[c].image,
                                    port |-> CHOOSE q \in Ports : TRUE]]
        /\ job' = [job EXCEPT ![c].pid = p]
    /\ Goto(c, "dial")
    /\ UNCHANGED <<reg, sock, fg, done>>

\* cmd.Start: the host picks a pid nobody holds.
Launch(c) ==
    /\ pc[c] = "launch"
    /\ \E p \in Pids :
        /\ phase[p] = "unused" \/ (PidReuse /\ phase[p] = "exited")
        /\ SetPhase(p, "exec")
        /\ vm' = [vm EXCEPT ![p] = [name |-> job[c].name, image |-> job[c].image,
                                    port |-> job[c].port]]
        /\ job' = [job EXCEPT ![c].pid = p]
    /\ Goto(c, "dial")
    /\ UNCHANGED <<reg, sock, fg, done>>

\* Any error before the process exists: firmware, vars, logs, exec itself.
LaunchFails(c) ==
    /\ pc[c] = "launch"
    /\ Goto(c, "idle")
    /\ UNCHANGED <<reg, hostVars, job, fg, done>>

\* StartRun returns once anything accepts on the name's QMP socket.
DialOk(c) ==
    /\ pc[c] = "dial"
    /\ sock[job[c].name] # {}
    /\ Goto(c, "save")
    /\ UNCHANGED <<reg, hostVars, job, fg, done>>

\* Mutant of DialTimeout: the error path forgets to kill the process.
DialTimeoutNoKill(c) ==
    /\ pc[c] = "dial"
    /\ sock[job[c].name] = {}
    /\ Goto(c, "idle")
    /\ UNCHANGED <<reg, hostVars, job, fg, done>>

\* Thirty seconds without an accept: kill and give up.
DialTimeout(c) ==
    /\ pc[c] = "dial"
    /\ sock[job[c].name] = {}
    /\ IF c \in done THEN UNCHANGED phase ELSE SendKill(job[c].pid)
    /\ Goto(c, "idle")
    /\ UNCHANGED <<reg, vm, sock, job, fg, done>>

\* vmstate.Save is os.WriteFile: it truncates <name>.json, and until the
\* bytes are written readers cannot parse it and List skips it.
SaveTruncate(c) ==
    /\ pc[c] = "save"
    /\ reg' = Without(job[c].name)
    /\ Goto(c, "write")
    /\ UNCHANGED <<hostVars, job, fg, done>>

\* The write completes.  With --no-wait a background start is over; else the
\* command goes on to wait, or to hold the foreground.
SaveWrite(c) ==
    /\ pc[c] = "write"
    /\ reg' = Without(job[c].name) \cup {job[c]}
    /\ \E next \in {"wait", IF fg[c] THEN "fg" ELSE "idle"} : Goto(c, next)
    /\ UNCHANGED <<hostVars, job, fg, done>>

\* Save failed before it touched the old file, or half-way: machine.Stop.
SaveFails(c) ==
    /\ pc[c] \in {"save", "write"}
    /\ IF c \in done THEN UNCHANGED phase ELSE SendKill(job[c].pid)
    /\ Goto(c, "idle")
    /\ UNCHANGED <<reg, vm, sock, job, fg, done>>

\* waitForSSH: a handshake on 127.0.0.1:port succeeds.
WaitSshOk(c) ==
    /\ pc[c] = "wait"
    /\ \E p \in Pids : Answering(p, job[c].port)
    /\ Goto(c, IF fg[c] THEN "fg" ELSE "idle")
    /\ UNCHANGED <<reg, hostVars, job, fg, done>>

\* waitForSSH: machine.Done() closed; the command will remove its entry.
WaitVmExited(c) ==
    /\ pc[c] = "wait"
    /\ c \in done
    /\ Goto(c, "unreg")
    /\ UNCHANGED <<reg, hostVars, job, fg, done>>

\* waitForSSH: deadline or interrupt; the VM is left running.
WaitGivesUp(c) ==
    /\ pc[c] = "wait"
    /\ Goto(c, IF fg[c] THEN "fg" ELSE "idle")
    /\ UNCHANGED <<reg, hostVars, job, fg, done>>

\* Foreground: the VM exited by itself.
FgVmExited(c) ==
    /\ pc[c] = "fg"
    /\ c \in done
    /\ Goto(c, "unreg")
    /\ UNCHANGED <<reg, hostVars, job, fg, done>>

\* Foreground: Ctrl+C; Stop kills the process and then waits for it.
FgInterrupt(c) ==
    /\ pc[c] = "fg"
    /\ IF c \in done THEN UNCHANGED phase ELSE SendKill(job[c].pid)
    /\ Goto(c, "fgstop")
    /\ UNCHANGED <<reg, vm, sock, job, fg, done>>

FgStopped(c) ==
    /\ pc[c] = "fgstop"
    /\ c \in done
    /\ Goto(c, "unreg")
    /\ UNCHANGED <<reg, hostVars, job, fg, done>>

\* vmstate.Remove(stateDir, name), the last thing start does.
Unregister(c) ==
    /\ pc[c] = "unreg"
    /\ reg' = Without(job[c].name)
    /\ Goto(c, "idle")
    /\ UNCHANGED <<hostVars, job, fg, done>>

-----------------------------------------------------------------------------
(* winkit stop *)

\* Resolve the target; a dead pid goes straight to removing the entry.
StopResolve(c) ==
    /\ pc[c] = "idle"
    /\ \E e \in StopTargets :
        /\ job' = [job EXCEPT ![c] = e]
        /\ Goto(c, IF IsAlive(e.pid) THEN "graceful" ELSE "remove")
    /\ UNCHANGED <<reg, hostVars, fg, done>>

\* Mutant of GracefulOk: SSH to some fixed port rather than the entry's.
GracefulOkFixedPort(c) ==
    /\ pc[c] = "graceful"
    /\ \E p \in Pids :
        Answering(p, CHOOSE q \in Ports : TRUE) /\ SetPhase(p, "halt")
    /\ Goto(c, "wait30")
    /\ UNCHANGED <<reg, vm, sock, job, fg, done>>

\* gracefulShutdown: the guest behind the port accepts `shutdown /s /t 5`.
GracefulOk(c) ==
    /\ pc[c] = "graceful"
    /\ \E p \in Pids : Answering(p, job[c].port) /\ SetPhase(p, "halt")
    /\ Goto(c, "wait30")
    /\ UNCHANGED <<reg, vm, sock, job, fg, done>>

\* Mutant of GracefulFails: the dial has no timeout of its own.
GracefulFailsNoTimeout(c) ==
    /\ pc[c] = "graceful"
    /\ \E p \in Pids : Answering(p, job[c].port)
    /\ Goto(c, "term")
    /\ UNCHANGED <<reg, hostVars, job, fg, done>>

\* No answer within ten seconds; the command may have arrived all the same.
GracefulFails(c) ==
    /\ pc[c] = "graceful"
    /\ \/ UNCHANGED phase
       \/ \E p \in Pids : Answering(p, job[c].port) /\ SetPhase(p, "halt")
    /\ Goto(c, "term")
    /\ UNCHANGED <<reg, vm, sock, job, fg, done>>

\* waitForExit saw the pid disappear, after the shutdown or after SIGTERM.
ExitSeen(c) ==
    /\ pc[c] \in {"wait30", "wait10"}
    /\ ~IsAlive(job[c].pid)
    /\ Goto(c, "remove")
    /\ UNCHANGED <<reg, hostVars, job, fg, done>>

\* Mutant of GracefulTimeout: no force kill behind a graceful shutdown.
GracefulTimeoutTrusts(c) ==
    /\ pc[c] = "wait30"
    /\ Goto(c, "remove")
    /\ UNCHANGED <<reg, hostVars, job, fg, done>>

\* The thirty seconds are over.
GracefulTimeout(c) ==
    /\ pc[c] = "wait30"
    /\ Goto(c, "term")
    /\ UNCHANGED <<reg, hostVars, job, fg, done>>

\* SIGTERM to the pid: a process may obey (QemuExit, OtherExit) or not.
Terminate(c) ==
    /\ pc[c] = "term"
    /\ Goto(c, "wait10")
    /\ UNCHANGED <<reg, hostVars, job, fg, done>>

\* Mutant of Kill: SIGTERM was the last word.
KillSkipped(c) ==
    /\ pc[c] = "wait10"
    /\ Goto(c, "remove")
    /\ UNCHANGED <<reg, hostVars, job, fg, done>>

\* Ten more seconds are over: SIGKILL, without a wait after it.
Kill(c) ==
    /\ pc[c] = "wait10"
    /\ SendKill(job[c].pid)
    /\ Goto(c, "remove")
    /\ UNCHANGED <<reg, vm, sock, job, fg, done>>

\* removeState: merge the VM's log streams, then remove the entry by name.
RemoveState(c) ==
    /\ pc[c] = "remove"
    /\ reg' = Without(job[c].name)
    /\ Goto(c, "idle")
    /\ UNCHANGED <<hostVars, job, fg, done>>

-----------------------------------------------------------------------------
(* The host *)

\* QEMU unlinks whatever is at the socket path and listens there.
QemuListen(p) ==
    /\ phase[p] = "exec"
    /\ SetPhase(p, "sock")
    /\ sock' = [sock EXCEPT ![vm[p].name] = {p}]
    /\ UNCHANGED <<reg, vm, clientVars, done>>

\* QEMU gets the image's lock and binds the forwarded port.
QemuUp(p) ==
    /\ phase[p] = "sock"
    /\ \A q \in Pids : phase[q] \in {"up", "halt", "dying"} =>
        vm[q].image # vm[p].image /\ vm[q].port # vm[p].port
    /\ SetPhase(p, "up")
    /\ UNCHANGED <<reg, vm, sock, clientVars, done>>

\* QEMU exits: guest shutdown, launch error, signal, crash.  The start that
\* launched it, if it still runs, sees Done() close.
QemuExit(p) ==
    /\ Running(p) \/ phase[p] = "dying"
    /\ SetPhase(p, "exited")
    /\ sock' = [n \in Names |-> sock[n] \ {p}]
    /\ done' = done \cup
        {c \in Clients : pc[c] \in StartPcs \ {"launch"} /\ job[c].pid = p}
    /\ UNCHANGED <<reg, vm, clientVars>>

\* A foreign process gets, and gives back, a pid that QEMU had.
OtherStart(p) ==
    /\ PidReuse /\ phase[p] = "exited"
    /\ SetPhase(p, "other")
    /\ UNCHANGED <<reg, vm, sock, clientVars, done>>

OtherExit(p) ==
    /\ phase[p] = "other"
    /\ SetPhase(p, "exited")
    /\ UNCHANGED <<reg, vm, sock, clientVars, done>>

\* A winkit process dies: Ctrl+C or SIGKILL between two of its steps.
ClientCrash(c) ==
    /\ c \in Crashers
    /\ pc[c] # "idle"
    /\ Goto(c, "idle")
    /\ UNCHANGED <<reg, hostVars, job, fg, done>>

-----------------------------------------------------------------------------
\* What a running command does without waiting for its user.
Progress(c) ==
    \/ Launch(c) \/ LaunchFails(c) \/ DialOk(c) \/ DialTimeout(c)
    \/ SaveTruncate(c) \/ SaveWrite(c) \/ SaveFails(c)
    \/ WaitSshOk(c) \/ WaitVmExited(c) \/ WaitGivesUp(c)
    \/ FgVmExited(c) \/ FgStopped(c) \/ Unregister(c)
    \/ GracefulOk(c) \/ GracefulFails(c) \/ ExitSeen(c) \/ GracefulTimeout(c)
    \/ Terminate(c) \/ Kill(c) \/ RemoveState(c)

ClientNext(c) ==
    Progress(c) \/ StartCheck(c) \/ StopResolve(c) \/ FgInterrupt(c) \/ ClientCrash(c)

HostNext(p) ==
    QemuListen(p) \/ QemuUp(p) \/ QemuExit(p) \/ OtherStart(p) \/ OtherExit(p)

Next == (\E c \in Clients : ClientNext(c)) \/ (\E p \in Pids : HostNext(p))

Spec == Init /\ [][Next]_vars

\* Every wait in the two commands has a deadline (waitFor, the 10 s and 30 s
\* of stop), and the kernel reaps a killed process.
Fairness ==
    /\ \A c \in Clients : WF_vars(Progress(c))
    /\ \A p \in Pids : WF_vars(phase[p] = "dying" /\ QemuExit(p))

FairSpec == Spec /\ Fairness
-----------------------------------------------------------------------------
(* Properties *)

\* A VM is manageable: registered under its name, or in the hands of the
\* start that launched it.
Managed(p) ==
    \/ \E e \in reg : e.pid = p /\ e.name = vm[p].name
    \/ \E c \in Clients : pc[c] \in {"dial", "save", "write"} /\ job[c].pid = p

\* Start "registers it in the state dir so Status and the winkit CLI can
\* manage it": no VM runs that neither the registry nor a start knows.
NoOrphan == \A p \in Pids : Running(p) => Managed(p)

\* What the "already running" guard of Start is for: at most one process
\* runs on an image, whether or not QEMU has got to its image lock yet.
OneVmPerImage ==
    \A p, q \in Pids :
        Running(p) /\ Running(q) /\ vm[p].image = vm[q].image => p = q

\* While start waits, an SSH answer on its port is its own guest's answer
\* ("Waits until the guest accepts SSH").
ReadySignalIsOwn ==
    \A c \in Clients, p \in Pids :
        pc[c] = "wait" /\ Answering(p, job[c].port) => p = job[c].pid

\* stop forgets a VM only when the process it resolved is gone or killed.
StopForgetsOnlyDoomed ==
    \A c \in Clients : pc[c] = "remove" => ~Running(job[c].pid)

\* The entry a finishing stop or start removes is not a running VM's.
RemovesOnlyStopped ==
    [][\A c \in Clients : pc[c] \in {"remove", "unreg"} /\ pc'[c] = "idle" =>
        \A e \in reg \ reg' : ~Running(e.pid)]_vars

\* The guest that stop asks to shut down is the VM it resolved.
ShutdownOnlyTarget ==
    [][\A c \in Clients, p \in Pids :
        pc[c] = "graceful" /\ pc'[c] # pc[c] /\ phase[p] # phase'[p]
            => p = job[c].pid]_vars

\* A stop, and a start that is not in the foreground, returns.
CommandsReturn ==
    \A c \in Clients :
        /\ pc[c] \in StopPcs ~> pc[c] = "idle"
        /\ pc[c] \in StartPcs /\ ~fg[c] ~> pc[c] = "idle"

\* A stop that found its VM alive, and is not killed itself, is the end of
\* that VM.
StopEndsTheVm ==
    \A c \in Clients \ Crashers, p \in Pids :
        pc[c] = "graceful" /\ job[c].pid = p ~> ~IsAlive(p)
-----------------------------------------------------------------------------
(* Why NoOrphan holds for one user with default names: the inductive        *)
(* invariant of the proofs, which the OneUser run checks as well.           *)

OneUser == \E c \in Clients : Clients = {c}

\* A name, an image and a port each determine the request they come from.
OneToOneRequests ==
    \A r, s \in Requests :
        r.name = s.name \/ r.image = s.image \/ r.port = s.port => r = s

VmOf(e) == [name |-> e.name, image |-> e.image, port |-> e.port]

\* The pid of e was launched, for the VM e describes.
Launched(e) ==
    /\ phase[e.pid] \notin {"unused", "other"}
    /\ vm[e.pid] = VmOf(e)
    /\ VmOf(e) \in Requests

EntriesSane ==
    /\ \A e \in reg : Launched(e)
    /\ \A d, e \in reg : d.name = e.name => d = e

JobSane ==
    \A c \in Clients :
        /\ pc[c] = "launch" => VmOf(job[c]) \in Requests
        /\ pc[c] \notin {"idle", "launch"} => Launched(job[c])

\* From the guard to the save, what the save overwrites is not running.
StartIsFresh ==
    \A c \in Clients : pc[c] \in {"launch", "dial", "save", "write"} =>
        \A e \in reg : e.name = job[c].name => ~Running(e.pid)

\* Afterwards, and during a stop, the name's entry is the client's own.
OwnsEntry ==
    \A c \in Clients : pc[c] \in {"wait", "fg", "fgstop", "unreg"} \cup StopPcs =>
        \A e \in reg : e.name = job[c].name => e = job[c]

DoneMeansExited ==
    \A c \in Clients : c \in done =>
        /\ pc[c] # "launch"
        /\ pc[c] \in StartPcs => ~IsAlive(job[c].pid)

RemovalIsDue ==
    \A c \in Clients : pc[c] \in {"fgstop", "unreg", "remove"} => ~Running(job[c].pid)

RegistryInv ==
    /\ EntriesSane /\ JobSane /\ StartIsFresh /\ OwnsEntry
    /\ DoneMeansExited /\ RemovalIsDue /\ NoOrphan
=============================================================================
