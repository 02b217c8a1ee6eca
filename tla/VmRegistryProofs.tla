-------------------------- MODULE VmRegistryProofs --------------------------
(* Proofs about VmRegistry: type correctness for every use, and for one user *)
(* whose requests are one-to-one, that no VM is ever lost or confused with   *)
(* another (RegistryInv and what follows from it).                           *)
EXTENDS VmRegistry, TLAPS

\* The process table, the registry and the clients' state stay well-typed,
\* whatever the clients, the requests and the host do.
LEMMA TypeInit == Init => TypeOK
<1> SUFFICES ASSUME Init PROVE TypeOK
    OBVIOUS
<1>1. (CHOOSE r \in Requests : TRUE) \in Vm
    BY ConstantsAssumption
<1>2. (CHOOSE e \in Entry : TRUE) \in Entry
    <2>1. PICK r \in Requests, p \in Pids : TRUE
        BY ConstantsAssumption
    <2>2. [name |-> r.name, image |-> r.image, port |-> r.port, pid |-> p] \in Entry
        BY ConstantsAssumption DEF Entry, Vm
    <2> QED
        BY <2>2
<1> QED
    BY <1>1, <1>2 DEF Init, TypeOK, Phases, PcValues

\* Every step keeps the types, one action at a time.
LEMMA TypeStep == TypeOK /\ [Next]_vars => TypeOK'
<1> SUFFICES ASSUME TypeOK, [Next]_vars PROVE TypeOK'
    OBVIOUS
<1> USE DEF TypeOK, Phases, PcValues, StartPcs, StopPcs, hostVars, clientVars,
            Goto, SetPhase, SendKill, Running, Without
<1>1. ASSUME NEW c \in Clients, StartCheck(c) PROVE TypeOK'
    BY <1>1, ConstantsAssumption DEF StartCheck, Vm, Entry
<1>2. ASSUME NEW c \in Clients, Launch(c) PROVE TypeOK'
    BY <1>2 DEF Launch, Vm, Entry
<1>3. ASSUME NEW c \in Clients, LaunchFails(c) PROVE TypeOK'
    BY <1>3 DEF LaunchFails
<1>4. ASSUME NEW c \in Clients, DialOk(c) PROVE TypeOK'
    BY <1>4 DEF DialOk
<1>5. ASSUME NEW c \in Clients, DialTimeout(c) PROVE TypeOK'
    BY <1>5 DEF DialTimeout
<1>6. ASSUME NEW c \in Clients, SaveTruncate(c) PROVE TypeOK'
    BY <1>6 DEF SaveTruncate
<1>7. ASSUME NEW c \in Clients, SaveWrite(c) PROVE TypeOK'
    BY <1>7 DEF SaveWrite
<1>8. ASSUME NEW c \in Clients, SaveFails(c) PROVE TypeOK'
    BY <1>8 DEF SaveFails
<1>9. ASSUME NEW c \in Clients,
             WaitSshOk(c) \/ WaitVmExited(c) \/ WaitGivesUp(c) \/ FgVmExited(c)
      PROVE TypeOK'
    BY <1>9 DEF WaitSshOk, WaitVmExited, WaitGivesUp, FgVmExited
<1>10. ASSUME NEW c \in Clients, FgInterrupt(c) PROVE TypeOK'
    BY <1>10 DEF FgInterrupt
<1>11. ASSUME NEW c \in Clients, FgStopped(c) \/ Unregister(c) PROVE TypeOK'
    BY <1>11 DEF FgStopped, Unregister
<1>12. ASSUME NEW c \in Clients, StopResolve(c) PROVE TypeOK'
    BY <1>12 DEF StopResolve, StopTargets
<1>13. ASSUME NEW c \in Clients, GracefulOk(c) \/ GracefulFails(c) PROVE TypeOK'
    BY <1>13 DEF GracefulOk, GracefulFails
<1>14. ASSUME NEW c \in Clients, ExitSeen(c) \/ GracefulTimeout(c) \/ Terminate(c)
       PROVE TypeOK'
    BY <1>14 DEF ExitSeen, GracefulTimeout, Terminate
<1>15. ASSUME NEW c \in Clients, Kill(c) \/ RemoveState(c) \/ ClientCrash(c) PROVE TypeOK'
    BY <1>15 DEF Kill, RemoveState, ClientCrash
<1>16. ASSUME NEW p \in Pids, HostNext(p) PROVE TypeOK'
    BY <1>16 DEF HostNext, QemuListen, QemuUp, QemuExit, OtherStart, OtherExit, Vm
<1>17. CASE UNCHANGED vars
    BY <1>17 DEF vars
<1> QED
    BY <1>1, <1>2, <1>3, <1>4, <1>5, <1>6, <1>7, <1>8, <1>9, <1>10, <1>11, <1>12,
       <1>13, <1>14, <1>15, <1>16, <1>17 DEF Next, ClientNext, Progress

\* Type correctness of start, stop and the host, for every use.
THEOREM TypeCorrect == Spec => []TypeOK
<1> QED
    BY TypeInit, TypeStep, PTL DEF Spec

-----------------------------------------------------------------------------
\* One user on a host that does not hand out an exited VM's pid again.
SingleUser ==
    /\ OneUser /\ OneToOneRequests
    /\ PidReuse = FALSE /\ Crashers = {}

\* An empty state directory and no process satisfy the invariant.
LEMMA RegistryInit == Init => RegistryInv
BY DEF Init, RegistryInv, EntriesSane, JobSane, StartIsFresh, OwnsEntry,
       DoneMeansExited, RemovalIsDue, NoOrphan, Running, StopPcs

\* Requests that agree on a field agree on all.
LEMMA SameRequest ==
    ASSUME OneToOneRequests, NEW d, NEW e, VmOf(d) \in Requests, VmOf(e) \in Requests,
           d.name = e.name \/ d.image = e.image \/ d.port = e.port
    PROVE  VmOf(d) = VmOf(e)
<1>1. /\ VmOf(d).name = d.name /\ VmOf(d).image = d.image /\ VmOf(d).port = d.port
      /\ VmOf(e).name = e.name /\ VmOf(e).image = e.image /\ VmOf(e).port = e.port
    BY DEF VmOf
<1> HIDE DEF VmOf
<1> QED
    BY <1>1 DEF OneToOneRequests

\* The steps of start that do not touch the registry.
LEMMA StartStep ==
    ASSUME SingleUser, TypeOK, RegistryInv, NEW c \in Clients,
           \/ StartCheck(c) \/ Launch(c) \/ LaunchFails(c) \/ DialOk(c)
           \/ DialTimeout(c) \/ SaveFails(c)
    PROVE  RegistryInv'
<1> USE DEF SingleUser, TypeOK, RegistryInv, EntriesSane, JobSane, StartIsFresh,
            OwnsEntry, DoneMeansExited, RemovalIsDue, NoOrphan, Managed, Launched,
            IsAlive, Running, StartPcs, StopPcs, hostVars, Goto, SetPhase, SendKill
<1>0. Clients = {c}
    BY DEF OneUser
<1>1. CASE StartCheck(c)
    <2>1. PICK r \in Requests : /\ \A e \in FindByImage(r.image) : ~IsAlive(e.pid)
                               /\ job' = [job EXCEPT ![c] =
                                    [name |-> r.name, image |-> r.image,
                                     port |-> r.port, pid |-> @.pid]]
        BY <1>1 DEF StartCheck
    <2>2. VmOf(r) = r
        BY ConstantsAssumption DEF VmOf, Vm
    <2>3. \A e \in reg : e.name = r.name => ~IsAlive(e.pid)
        <3> SUFFICES ASSUME NEW e \in reg, e.name = r.name PROVE e \in FindByImage(r.image)
            BY <2>1
        <3>1. VmOf(r) \in Requests /\ VmOf(e) \in Requests
            BY <2>2
        <3>2. VmOf(e) = VmOf(r)
            BY <3>1, SameRequest
        <3>3. VmOf(e).image = e.image /\ VmOf(r).image = r.image
            BY DEF VmOf
        <3>4. \A d \in reg : d.image = r.image => VmOf(d) = VmOf(r)
            BY <3>1, SameRequest
        <3>5. \A d \in reg : d.image = r.image => d.name = r.name
            <4>1. \A d : VmOf(d).name = d.name
                BY DEF VmOf
            <4> QED
                BY <3>4, <4>1
        <3>6. e.image = r.image
            BY <3>2, <3>3
        <3>7. e.name \in Nat
            BY ConstantsAssumption DEF Entry
        <3>8. \A d \in reg : d.image = r.image => e.name <= d.name
            BY <3>5, <3>7
        <3> QED
            BY <3>6, <3>8 DEF FindByImage
    <2>4. job'[c].name = r.name /\ VmOf(job'[c]) = r
        BY <2>1, <2>2 DEF VmOf
    <2> QED
        BY <1>0, <1>1, <2>3, <2>4 DEF StartCheck
<1>2. CASE Launch(c)
    <2>1. PICK p \in Pids : /\ phase[p] = "unused"
                           /\ phase' = [phase EXCEPT ![p] = "exec"]
                           /\ vm' = [vm EXCEPT ![p] = VmOf(job[c])]
                           /\ job' = [job EXCEPT ![c].pid = p]
        BY <1>2 DEF Launch, VmOf
    <2>2. /\ VmOf(job'[c]) = VmOf(job[c]) /\ job'[c].name = job[c].name /\ job'[c].pid = p
          /\ vm'[p] = VmOf(job[c]) /\ phase'[p] = "exec"
        BY <2>1 DEF VmOf, Entry
    <2>3. pc[c] = "launch" /\ pc'[c] = "dial" /\ reg' = reg /\ done' = done
        BY <1>2 DEF Launch
    <2>4. \A q \in Pids \ {p} : phase'[q] = phase[q] /\ vm'[q] = vm[q]
        BY <2>1
    <2>5. \A e \in reg : e.pid \in Pids \ {p}
        BY <2>1 DEF Entry
    <2>6. EntriesSane'
        BY <2>3, <2>4, <2>5
    <2>7. JobSane'
        BY <1>0, <2>2, <2>3
    <2>8. StartIsFresh' /\ OwnsEntry' /\ DoneMeansExited' /\ RemovalIsDue'
        BY <1>0, <2>2, <2>3, <2>4, <2>5
    <2>9. NoOrphan'
        BY <1>0, <2>2, <2>3, <2>4
    <2> QED
        BY <2>6, <2>7, <2>8, <2>9
<1>3. CASE LaunchFails(c) \/ DialOk(c)
    BY <1>0, <1>3 DEF LaunchFails, DialOk
<1>4. CASE DialTimeout(c) \/ SaveFails(c)
    <2>1. /\ pc[c] \in {"dial", "save", "write"} /\ pc'[c] = "idle"
          /\ reg' = reg /\ vm' = vm /\ job' = job /\ done' = done
        BY <1>4 DEF DialTimeout, SaveFails
    <2>2. \A q \in Pids : Running(q)' => Running(q) /\ q # job[c].pid
        BY <1>4, <2>1 DEF DialTimeout, SaveFails
    <2>3. \A q \in Pids : phase[q] \notin {"unused", "other"}
                            => phase'[q] \notin {"unused", "other"}
        BY <1>4 DEF DialTimeout, SaveFails
    <2>4. EntriesSane'
        BY <2>1, <2>3 DEF Entry
    <2>5. JobSane' /\ StartIsFresh' /\ OwnsEntry' /\ DoneMeansExited' /\ RemovalIsDue'
        BY <1>0, <2>1
    <2>6. NoOrphan'
        BY <1>0, <2>1, <2>2
    <2> QED
        BY <2>4, <2>5, <2>6
<1> QED
    BY <1>1, <1>2, <1>3, <1>4

\* The rest of start: the save, the wait, the foreground, the removal.
LEMMA HoldStep ==
    ASSUME SingleUser, TypeOK, RegistryInv, NEW c \in Clients,
           \/ SaveTruncate(c) \/ SaveWrite(c) \/ WaitSshOk(c) \/ WaitVmExited(c)
           \/ WaitGivesUp(c) \/ FgVmExited(c) \/ FgInterrupt(c) \/ FgStopped(c)
           \/ Unregister(c)
    PROVE  RegistryInv'
<1> USE DEF SingleUser, TypeOK, RegistryInv, EntriesSane, JobSane, StartIsFresh,
            OwnsEntry, DoneMeansExited, RemovalIsDue, NoOrphan, Managed, Launched,
            IsAlive, Running, StartPcs, StopPcs, hostVars, Goto, SendKill, Without
<1>0. Clients = {c}
    BY DEF OneUser
<1>1. CASE SaveTruncate(c)
    BY <1>0, <1>1 DEF SaveTruncate
<1>2. CASE SaveWrite(c)
    <2>1. /\ pc[c] = "write" /\ pc'[c] \in {"wait", "fg", "idle"}
          /\ reg' = {e \in reg : e.name # job[c].name} \cup {job[c]}
          /\ phase' = phase /\ vm' = vm /\ job' = job /\ done' = done
        BY <1>2 DEF SaveWrite
    <2>2. Launched(job[c]) /\ job[c].name = vm[job[c].pid].name
        BY <2>1 DEF VmOf
    <2>3. EntriesSane' /\ OwnsEntry'
        BY <1>0, <2>1, <2>2
    <2>4. JobSane' /\ StartIsFresh' /\ DoneMeansExited' /\ RemovalIsDue'
        BY <1>0, <2>1
    <2>5. NoOrphan'
        <3> SUFFICES ASSUME NEW p \in Pids, Running(p) PROVE Managed(p)'
            BY <2>1
        <3>1. CASE p = job[c].pid
            BY <2>1, <2>2, <3>1
        <3>2. CASE p # job[c].pid
            <4>1. PICK e \in reg : e.pid = p /\ e.name = vm[p].name
                BY <1>0, <3>2
            <4>2. e.name # job[c].name
                BY <2>1, <4>1
            <4> QED
                BY <2>1, <4>1, <4>2
        <3> QED
            BY <3>1, <3>2
    <2> QED
        BY <2>3, <2>4, <2>5
<1>3. CASE WaitSshOk(c) \/ WaitVmExited(c) \/ WaitGivesUp(c) \/ FgVmExited(c) \/ FgStopped(c)
    BY <1>0, <1>3 DEF WaitSshOk, WaitVmExited, WaitGivesUp, FgVmExited, FgStopped
<1>4. CASE FgInterrupt(c)
    <2>1. /\ pc[c] = "fg" /\ pc'[c] = "fgstop"
          /\ reg' = reg /\ vm' = vm /\ job' = job /\ done' = done
        BY <1>4 DEF FgInterrupt
    <2>2. \A q \in Pids : Running(q)' => Running(q) /\ q # job[c].pid
        BY <1>4, <2>1 DEF FgInterrupt
    <2>3. \A q \in Pids : /\ phase[q] \notin {"unused", "other"}
                              => phase'[q] \notin {"unused", "other"}
                          /\ phase[q] \in {"unused", "exited"} => phase'[q] = phase[q]
        BY <1>4 DEF FgInterrupt
    <2>4. EntriesSane' /\ JobSane' /\ DoneMeansExited'
        BY <1>0, <2>1, <2>3 DEF Entry
    <2>5. StartIsFresh' /\ OwnsEntry' /\ RemovalIsDue' /\ NoOrphan'
        BY <1>0, <2>1, <2>2 DEF Entry
    <2> QED
        BY <2>4, <2>5
<1>5. CASE Unregister(c)
    BY <1>0, <1>5 DEF Unregister
<1> QED
    BY <1>1, <1>2, <1>3, <1>4, <1>5

\* The steps of stop.
LEMMA StopStep ==
    ASSUME SingleUser, TypeOK, RegistryInv, NEW c \in Clients,
           \/ StopResolve(c) \/ GracefulOk(c) \/ GracefulFails(c) \/ ExitSeen(c)
           \/ GracefulTimeout(c) \/ Terminate(c) \/ Kill(c) \/ RemoveState(c)
    PROVE  RegistryInv'
<1> USE DEF SingleUser, TypeOK, RegistryInv, EntriesSane, JobSane, StartIsFresh,
            OwnsEntry, DoneMeansExited, RemovalIsDue, NoOrphan, Managed, Launched,
            IsAlive, Running, StartPcs, StopPcs, hostVars, Goto, SetPhase, SendKill, Without
<1>0. Clients = {c}
    BY DEF OneUser
<1>1. CASE StopResolve(c)
    BY <1>0, <1>1 DEF StopResolve, StopTargets
<1>2. CASE GracefulOk(c) \/ GracefulFails(c)
    <2>1. /\ pc[c] = "graceful" /\ pc'[c] \in {"wait30", "term"}
          /\ reg' = reg /\ vm' = vm /\ job' = job /\ done' = done
        BY <1>2 DEF GracefulOk, GracefulFails
    <2>2. \A q \in Pids : \/ phase'[q] = phase[q]
                          \/ phase[q] = "up" /\ phase'[q] = "halt"
        BY <1>2 DEF GracefulOk, GracefulFails, Answering
    <2>3. EntriesSane' /\ JobSane'
        BY <1>0, <2>1, <2>2 DEF Entry
    <2>4. StartIsFresh' /\ OwnsEntry' /\ DoneMeansExited' /\ RemovalIsDue' /\ NoOrphan'
        BY <1>0, <2>1, <2>2
    <2> QED
        BY <2>3, <2>4
<1>3. CASE ExitSeen(c) \/ GracefulTimeout(c) \/ Terminate(c)
    BY <1>0, <1>3 DEF ExitSeen, GracefulTimeout, Terminate
<1>4. CASE Kill(c)
    <2>1. /\ pc[c] = "wait10" /\ pc'[c] = "remove"
          /\ reg' = reg /\ vm' = vm /\ job' = job /\ done' = done
        BY <1>4 DEF Kill
    <2>2. \A q \in Pids : Running(q)' => Running(q) /\ q # job[c].pid
        BY <1>4 DEF Kill
    <2>3. \A q \in Pids : phase[q] \notin {"unused", "other"}
                          => phase'[q] \notin {"unused", "other"}
        BY <1>4 DEF Kill
    <2>4. EntriesSane' /\ JobSane'
        BY <1>0, <2>1, <2>3 DEF Entry
    <2>5. StartIsFresh' /\ OwnsEntry' /\ DoneMeansExited' /\ RemovalIsDue' /\ NoOrphan'
        BY <1>0, <2>1, <2>2 DEF Entry
    <2> QED
        BY <2>4, <2>5
<1>5. CASE RemoveState(c)
    BY <1>0, <1>5 DEF RemoveState
<1> QED
    BY <1>1, <1>2, <1>3, <1>4, <1>5

\* The steps of QEMU and of the host.
LEMMA HostStep ==
    ASSUME SingleUser, TypeOK, RegistryInv, NEW p \in Pids, HostNext(p)
    PROVE  RegistryInv'
<1> USE DEF SingleUser, TypeOK, RegistryInv, EntriesSane, JobSane, StartIsFresh,
            OwnsEntry, DoneMeansExited, RemovalIsDue, NoOrphan, Managed, Launched,
            IsAlive, Running, StartPcs, StopPcs, clientVars, SetPhase
<1>1. CASE QemuListen(p) \/ QemuUp(p)
    <2>1. /\ reg' = reg /\ vm' = vm /\ pc' = pc /\ job' = job /\ done' = done
          /\ \A q \in Pids : phase'[q] = phase[q] \/ (Running(q) /\ Running(q)')
        BY <1>1 DEF QemuListen, QemuUp
    <2>2. EntriesSane' /\ JobSane'
        BY <2>1 DEF Entry
    <2>3. StartIsFresh' /\ OwnsEntry' /\ DoneMeansExited'
        BY <2>1 DEF Entry
    <2>4. RemovalIsDue' /\ NoOrphan'
        BY <2>1 DEF Entry
    <2> QED
        BY <2>2, <2>3, <2>4
<1>2. CASE QemuExit(p)
    <2>1. /\ reg' = reg /\ vm' = vm /\ pc' = pc /\ job' = job
          /\ phase'[p] = "exited" /\ \A q \in Pids \ {p} : phase'[q] = phase[q]
          /\ done' = done \cup
                {c \in Clients : pc[c] \in StartPcs \ {"launch"} /\ job[c].pid = p}
        BY <1>2 DEF QemuExit
    <2>2. EntriesSane' /\ JobSane'
        BY <2>1 DEF Entry
    <2>3. StartIsFresh' /\ OwnsEntry' /\ RemovalIsDue' /\ NoOrphan'
        BY <2>1 DEF Entry
    <2>4. \A q \in Pids : ~IsAlive(q) => ~IsAlive(q)'
        BY <2>1
    <2>5. DoneMeansExited'
        <3> SUFFICES ASSUME NEW c \in Clients, c \in done'
                     PROVE  pc[c] # "launch" /\ (pc[c] \in StartPcs => ~IsAlive(job[c].pid)')
            BY <2>1
        <3>1. CASE c \in done
            BY <2>1, <2>4, <3>1 DEF Entry
        <3>2. CASE c \notin done
            BY <2>1, <3>2
        <3> QED
            BY <3>1, <3>2
    <2> QED
        BY <2>2, <2>3, <2>5
<1>3. CASE OtherStart(p) \/ OtherExit(p)
    <2>1. OtherExit(p)
        BY <1>3 DEF OtherStart
    <2>2. /\ reg' = reg /\ vm' = vm /\ pc' = pc /\ job' = job /\ done' = done
          /\ \A q \in Pids : phase'[q] = phase[q] \/ (phase[q] = "other" /\ phase'[q] = "exited")
        BY <2>1 DEF OtherExit
    <2>3. EntriesSane' /\ JobSane'
        BY <2>2 DEF Entry
    <2>4. StartIsFresh' /\ OwnsEntry' /\ DoneMeansExited' /\ RemovalIsDue' /\ NoOrphan'
        BY <2>2 DEF Entry
    <2> QED
        BY <2>3, <2>4
<1> QED
    BY <1>1, <1>2, <1>3 DEF HostNext

\* For a single user with one-to-one requests, RegistryInv is an invariant.
THEOREM RegistryCorrect == ASSUME SingleUser PROVE Spec => []RegistryInv
<1>1. TypeOK /\ RegistryInv /\ [Next]_vars => RegistryInv'
    <2> SUFFICES ASSUME TypeOK, RegistryInv, [Next]_vars PROVE RegistryInv'
        OBVIOUS
    <2>1. ASSUME NEW c \in Clients, ClientNext(c) PROVE RegistryInv'
        <3>1. CASE ClientCrash(c)
            BY <3>1 DEF ClientCrash, SingleUser
        <3> QED
            BY <2>1, <3>1, StartStep, HoldStep, StopStep DEF ClientNext, Progress
    <2>2. ASSUME NEW p \in Pids, HostNext(p) PROVE RegistryInv'
        BY <2>2, HostStep
    <2>3. CASE UNCHANGED vars
        BY <2>3 DEF vars, RegistryInv, EntriesSane, JobSane, StartIsFresh, OwnsEntry,
                    DoneMeansExited, RemovalIsDue, NoOrphan, Managed, Launched, IsAlive, Running
    <2> QED
        BY <2>1, <2>2, <2>3 DEF Next
<1> QED
    BY <1>1, RegistryInit, TypeCorrect, PTL DEF Spec

\* No VM runs that neither the registry nor a start in progress knows:
\* what Start promises of the state directory.
THEOREM NothingOrphaned == ASSUME SingleUser PROVE Spec => []NoOrphan
<1>1. RegistryInv => NoOrphan
    BY DEF RegistryInv
<1> QED
    BY <1>1, RegistryCorrect, PTL

\* Every managed process is known under the request it was launched for.
LEMMA ManagedIsKnown ==
    ASSUME SingleUser, TypeOK, RegistryInv, NEW p \in Pids, Running(p)
    PROVE  \/ \E e \in reg : e.pid = p /\ vm[p] = VmOf(e) /\ VmOf(e) \in Requests
           \/ \E c \in Clients : /\ pc[c] \in {"dial", "save", "write"}
                                /\ job[c].pid = p
                                /\ vm[p] = VmOf(job[c]) /\ VmOf(job[c]) \in Requests
BY DEF RegistryInv, NoOrphan, Managed, EntriesSane, JobSane, Launched

\* The guard of Start works: never two processes on one image, although it
\* looks at the registry and not at the processes.
THEOREM OneVmPerImageCorrect == ASSUME SingleUser PROVE Spec => []OneVmPerImage
<1>1. TypeOK /\ RegistryInv => OneVmPerImage
    <2> SUFFICES ASSUME TypeOK, RegistryInv, NEW p \in Pids, NEW q \in Pids,
                        Running(p), Running(q), vm[p].image = vm[q].image
                 PROVE  p = q
        BY DEF OneVmPerImage
    <2>1. \A d, e : /\ VmOf(d) \in Requests /\ VmOf(e) \in Requests
                   /\ VmOf(d).image = VmOf(e).image => d.name = e.name
        <3> TAKE d, e
        <3> HAVE /\ VmOf(d) \in Requests /\ VmOf(e) \in Requests
                 /\ VmOf(d).image = VmOf(e).image
        <3>1. VmOf(d) = VmOf(e)
            BY SameRequest DEF SingleUser, VmOf
        <3>2. VmOf(d).name = d.name /\ VmOf(e).name = e.name
            BY DEF VmOf
        <3> QED
            BY <3>1, <3>2
    <2>2. PICK u : Clients = {u}
        BY DEF SingleUser, OneUser
    <2>3. CASE pc[u] \in {"dial", "save", "write"} /\ job[u].pid = p
        BY <2>1, <2>2, <2>3, ManagedIsKnown DEF RegistryInv, JobSane, StartIsFresh, Launched
    <2>4. CASE pc[u] \in {"dial", "save", "write"} /\ job[u].pid = q
        BY <2>1, <2>2, <2>4, ManagedIsKnown DEF RegistryInv, JobSane, StartIsFresh, Launched
    <2>5. CASE ~(pc[u] \in {"dial", "save", "write"} /\ job[u].pid \in {p, q})
        BY <2>1, <2>2, <2>5, ManagedIsKnown DEF RegistryInv, EntriesSane
    <2> QED
        BY <2>3, <2>4, <2>5
<1> QED
    BY <1>1, TypeCorrect, RegistryCorrect, PTL

\* Whoever answers SSH on the port of an idle-handed client's job is its VM.
LEMMA AnswerIsOwn ==
    ASSUME SingleUser, TypeOK, RegistryInv, NEW c \in Clients, NEW p \in Pids,
           pc[c] \in {"wait", "graceful"}, Answering(p, job[c].port)
    PROVE  p = job[c].pid
<1>1. Clients = {c}
    BY DEF SingleUser, OneUser
<1>2. Running(p) /\ vm[p].port = job[c].port
    BY DEF Running, Answering
<1>3. PICK e \in reg : e.pid = p /\ vm[p] = VmOf(e) /\ VmOf(e) \in Requests
    BY <1>1, <1>2, ManagedIsKnown
<1>4. VmOf(job[c]) \in Requests
    BY DEF RegistryInv, JobSane, Launched
<1>5. e.port = job[c].port
    BY <1>2, <1>3 DEF VmOf
<1>6. VmOf(e) = VmOf(job[c])
    BY <1>3, <1>4, <1>5, SameRequest DEF SingleUser
<1>7. e.name = job[c].name
    <2>1. VmOf(e).name = e.name /\ VmOf(job[c]).name = job[c].name
        BY DEF VmOf
    <2> QED
        BY <1>6, <2>1
<1> QED
    BY <1>3, <1>7 DEF RegistryInv, OwnsEntry, StopPcs

\* Start reports its own guest ready, never another one's answer.
THEOREM ReadySignalCorrect == ASSUME SingleUser PROVE Spec => []ReadySignalIsOwn
<1>1. TypeOK /\ RegistryInv => ReadySignalIsOwn
    BY AnswerIsOwn DEF ReadySignalIsOwn
<1> QED
    BY <1>1, TypeCorrect, RegistryCorrect, PTL

\* The removal that ends a start or a stop never takes a running VM's entry.
THEOREM RemovesOnlyStoppedCorrect == ASSUME SingleUser PROVE Spec => RemovesOnlyStopped
<1> DEFINE A == \A c \in Clients : pc[c] \in {"remove", "unreg"} /\ pc'[c] = "idle" =>
                    \A e \in reg \ reg' : ~Running(e.pid)
<1>1. TypeOK /\ RegistryInv /\ [Next]_vars => [A]_vars
    <2> SUFFICES ASSUME TypeOK, RegistryInv, Next, NEW c \in Clients,
                        pc[c] \in {"remove", "unreg"}, pc'[c] = "idle",
                        NEW e \in reg, e \notin reg'
                 PROVE  ~Running(e.pid)
        OBVIOUS
    <2>1. Clients = {c}
        BY DEF SingleUser, OneUser
    <2>2. CASE \E p \in Pids : HostNext(p)
        BY <2>2 DEF HostNext, QemuListen, QemuUp, QemuExit, OtherStart, OtherExit, clientVars
    <2>3. CASE ClientNext(c)
        <3>1. CASE Unregister(c) \/ RemoveState(c)
            <4>1. e.name = job[c].name
                BY <3>1 DEF Unregister, RemoveState, Without
            <4>2. e = job[c]
                BY <4>1 DEF RegistryInv, OwnsEntry, StopPcs
            <4> QED
                BY <4>2 DEF RegistryInv, RemovalIsDue
        <3>2. CASE ~(Unregister(c) \/ RemoveState(c))
            <4>1. ClientCrash(c) \/ pc[c] \notin {"remove", "unreg"}
                BY <2>3, <3>2 DEF ClientNext, Progress, Launch, LaunchFails, DialOk,
                    DialTimeout, SaveTruncate, SaveWrite, SaveFails, WaitSshOk,
                    WaitVmExited, WaitGivesUp, FgVmExited, FgStopped, GracefulOk,
                    GracefulFails, ExitSeen, GracefulTimeout, Terminate, Kill,
                    StartCheck, StopResolve, FgInterrupt
            <4> QED
                BY <4>1 DEF ClientCrash, SingleUser
        <3> QED
            BY <3>1, <3>2
    <2> QED
        BY <2>1, <2>2, <2>3 DEF Next
<1> QED
    BY <1>1, TypeCorrect, RegistryCorrect, PTL DEF Spec, RemovesOnlyStopped

\* The guest a stop shuts down is the VM it resolved.
THEOREM ShutdownOnlyTargetCorrect == ASSUME SingleUser PROVE Spec => ShutdownOnlyTarget
<1> DEFINE A == \A c \in Clients, p \in Pids :
                    pc[c] = "graceful" /\ pc'[c] # pc[c] /\ phase[p] # phase'[p]
                        => p = job[c].pid
<1>1. TypeOK /\ RegistryInv /\ [Next]_vars => [A]_vars
    <2> SUFFICES ASSUME TypeOK, RegistryInv, Next, NEW c \in Clients, NEW p \in Pids,
                        pc[c] = "graceful", pc'[c] # pc[c], phase[p] # phase'[p]
                 PROVE  p = job[c].pid
        OBVIOUS
    <2>1. Clients = {c}
        BY DEF SingleUser, OneUser
    <2>2. ClientNext(c)
        BY <2>1 DEF Next, HostNext, QemuListen, QemuUp, QemuExit, OtherStart, OtherExit, clientVars
    <2>3. GracefulOk(c) \/ GracefulFails(c)
        BY <2>2 DEF ClientNext, Progress, Launch, LaunchFails, DialOk,
            DialTimeout, SaveTruncate, SaveWrite, SaveFails, WaitSshOk,
            WaitVmExited, WaitGivesUp, FgVmExited, FgStopped, Unregister,
            ExitSeen, GracefulTimeout, Terminate, Kill, RemoveState,
            StartCheck, StopResolve, FgInterrupt, ClientCrash, SingleUser
    <2>4. Answering(p, job[c].port)
        BY <2>3 DEF GracefulOk, GracefulFails, SetPhase, TypeOK
    <2> QED
        BY <2>4, AnswerIsOwn
<1> QED
    BY <1>1, TypeCorrect, RegistryCorrect, PTL DEF Spec, ShutdownOnlyTarget

-----------------------------------------------------------------------------
\* A stop's pid was launched.
StopIsLaunched ==
    \A c \in Clients : pc[c] \in StopPcs => phase[job[c].pid] # "unused"

EntriesLaunched == \A e \in reg : phase[e.pid] # "unused"

StartsLaunched ==
    \A c \in Clients : pc[c] \in StartPcs \ {"launch"} => phase[job[c].pid] # "unused"

StopInv == EntriesLaunched /\ StartsLaunched /\ StopIsLaunched /\ StopForgetsOnlyDoomed

\* No step makes an unused pid of a pid, or a running QEMU of one that is gone.
NeverBack ==
    \A q \in Pids : /\ phase[q] # "unused" => phase'[q] # "unused"
                    /\ ~Running(q) /\ phase[q] # "unused" => ~Running(q)'

LEMMA PhaseStep == ASSUME PidReuse = FALSE, TypeOK, [Next]_vars PROVE NeverBack
<1> USE DEF NeverBack, Running
<1>1. CASE UNCHANGED phase
    BY <1>1
<1>2. ASSUME NEW p \in Pids, NEW s, SetPhase(p, s), s # "unused",
             phase[p] = "unused" \/ Running(p)
               \/ s \notin {"exec", "sock", "up", "halt"}
      PROVE  NeverBack
    BY <1>2 DEF SetPhase, TypeOK
<1>3. ASSUME NEW p \in Pids, SendKill(p)
      PROVE  NeverBack
    BY <1>3 DEF SendKill, TypeOK
<1>4. ASSUME NEW c \in Clients, ClientNext(c)
      PROVE  \/ UNCHANGED phase
             \/ SendKill(job[c].pid) /\ job[c].pid \in Pids
             \/ \E p \in Pids : phase[p] = "unused" /\ SetPhase(p, "exec")
             \/ \E p \in Pids : phase[p] = "up" /\ SetPhase(p, "halt")
    <2>0. job[c].pid \in Pids
        BY DEF TypeOK, Entry
    <2>1. CASE Launch(c)
        BY <2>1 DEF Launch
    <2>2. CASE GracefulOk(c) \/ GracefulFails(c)
        BY <2>2 DEF GracefulOk, GracefulFails, Answering
    <2>3. CASE \/ LaunchFails(c) \/ DialOk(c) \/ SaveTruncate(c) \/ WaitSshOk(c)
               \/ FgVmExited(c) \/ Unregister(c) \/ RemoveState(c)
        <3>1. UNCHANGED hostVars
            BY <2>3 DEF LaunchFails, DialOk, SaveTruncate, WaitSshOk, FgVmExited,
               Unregister, RemoveState, hostVars
        <3> QED
            BY <3>1 DEF hostVars
    <2>5. CASE StartCheck(c) \/ SaveWrite(c) \/ StopResolve(c)
        <3>1. UNCHANGED hostVars
            BY <2>5 DEF StartCheck, SaveWrite, StopResolve
        <3> QED
            BY <3>1 DEF hostVars
    <2>4. CASE \/ DialTimeout(c) \/ SaveFails(c) \/ WaitVmExited(c) \/ WaitGivesUp(c)
               \/ FgStopped(c) \/ FgInterrupt(c) \/ ExitSeen(c) \/ GracefulTimeout(c)
               \/ Terminate(c) \/ Kill(c) \/ ClientCrash(c)
        BY <2>0, <2>4 DEF DialTimeout, SaveFails, WaitVmExited, WaitGivesUp, FgStopped,
           FgInterrupt, ExitSeen, GracefulTimeout, Terminate, Kill, ClientCrash, hostVars
    <2> QED
        BY <1>4, <2>1, <2>2, <2>3, <2>4, <2>5 DEF ClientNext, Progress
<1>5. ASSUME NEW c \in Clients, ClientNext(c)
      PROVE  NeverBack
    BY <1>1, <1>2, <1>3, <1>4, <1>5
<1>6. ASSUME NEW p \in Pids, HostNext(p)
      PROVE  NeverBack
    BY <1>2, <1>6 DEF HostNext, QemuListen, QemuUp, QemuExit, OtherStart, OtherExit
<1> QED
    BY <1>1, <1>5, <1>6 DEF Next, vars

\* Any number of winkit processes, crashing as they like: a stop forgets its
\* VM only when the process is gone or killed, as long as the host does not
\* reuse pids.
THEOREM StopForgetsOnlyDoomedCorrect ==
    ASSUME PidReuse = FALSE PROVE Spec => []StopForgetsOnlyDoomed
<1> USE DEF StopInv, EntriesLaunched, StartsLaunched, StopIsLaunched, StopForgetsOnlyDoomed,
            TypeOK, Running, StartPcs, StopPcs, hostVars, clientVars
<1>1. Init => StopInv
    BY DEF Init
<1>2. TypeOK /\ StopInv /\ [Next]_vars => StopInv'
    <2> SUFFICES ASSUME TypeOK, StopInv, [Next]_vars PROVE StopInv'
        OBVIOUS
    <2>1. \A q \in Pids : /\ phase[q] # "unused" => phase'[q] # "unused"
                          /\ ~Running(q) /\ phase[q] # "unused" => ~Running(q)'
        BY PhaseStep DEF NeverBack
    <2>2. ASSUME NEW c \in Clients, ClientNext(c) PROVE StopInv'
        <3> USE DEF Goto, Entry
        <3>1. CASE Launch(c)
            BY <2>1, <3>1 DEF Launch, SetPhase
        <3>2. CASE SaveWrite(c)
            BY <2>1, <3>2 DEF SaveWrite, Without
        <3>3. CASE StopResolve(c)
            BY <2>1, <3>3 DEF StopResolve, StopTargets, IsAlive
        <3>4. CASE Kill(c)
            BY <2>1, <3>4 DEF Kill, SendKill
        <3>5. CASE ExitSeen(c)
            BY <2>1, <3>5 DEF ExitSeen, IsAlive
        <3>6. CASE SaveTruncate(c) \/ Unregister(c) \/ RemoveState(c)
            BY <2>1, <3>6 DEF SaveTruncate, Unregister, RemoveState, Without
        <3>7. CASE StartCheck(c) \/ LaunchFails(c) \/ DialOk(c) \/ DialTimeout(c) \/ SaveFails(c)
            BY <2>1, <3>7 DEF StartCheck, LaunchFails, DialOk, DialTimeout, SaveFails
        <3>8. CASE WaitSshOk(c) \/ WaitVmExited(c) \/ WaitGivesUp(c) \/ FgVmExited(c)
                   \/ FgInterrupt(c) \/ FgStopped(c) \/ ClientCrash(c)
            BY <2>1, <3>8 DEF WaitSshOk, WaitVmExited, WaitGivesUp, FgVmExited,
                FgInterrupt, FgStopped, ClientCrash
        <3>9. CASE GracefulOk(c) \/ GracefulFails(c) \/ GracefulTimeout(c) \/ Terminate(c)
            BY <2>1, <3>9 DEF GracefulOk, GracefulFails, GracefulTimeout, Terminate
        <3> QED
            BY <2>2, <3>1, <3>2, <3>3, <3>4, <3>5, <3>6, <3>7, <3>8, <3>9
               DEF ClientNext, Progress
    <2>3. ASSUME NEW p \in Pids, HostNext(p) PROVE StopInv'
        BY <2>1, <2>3 DEF HostNext, QemuListen, QemuUp, QemuExit, OtherStart, OtherExit, Entry
    <2>4. CASE UNCHANGED vars
        BY <2>4 DEF vars
    <2> QED
        BY <2>2, <2>3, <2>4 DEF Next
<1> QED
    BY <1>1, <1>2, TypeCorrect, PTL DEF Spec
=============================================================================
