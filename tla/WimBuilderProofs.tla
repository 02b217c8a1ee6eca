-------------------------- MODULE WimBuilderProofs --------------------------
(* Proofs about WimBuilder, for hosts with and without image locks, slow QMP *)
(* and a QEMU that dies at any step. All four invariants follow from one,    *)
(* RunInv: which order the process, the image, the goroutines and Run go in. *)
EXTENDS WimBuilder, TLAPS

-----------------------------------------------------------------------------
(* Types.                                                                    *)

\* The Boolean variables, which SMT cannot type.
Flags ==
    /\ good \in BOOLEAN /\ locks \in BOOLEAN /\ done \in BOOLEAN
    /\ fatal \in BOOLEAN /\ shot \in BOOLEAN /\ ctx \in BOOLEAN

LEMMA TypeInit == Init => TypeOK
<1>1. Init => Flags
  BY Zenon DEF Init, Flags
<1> QED
  BY <1>1 DEF Init, TypeOK, Flags, Stages, Sizes, Errors

LEMMA TypeStep == TypeOK /\ [Next]_vars => TypeOK'
<1> SUFFICES ASSUME TypeOK, [Next]_vars PROVE TypeOK'
  OBVIOUS
<1> USE DEF TypeOK, Stages, guestVars, vmVars, watchVars, runVars
<1>1. CASE GuestNext
  <2>1. CASE GuestBoots
    BY <2>1 DEF GuestBoots, GuestStep
  <2>2. CASE GuestHangs
    BY <2>2 DEF GuestHangs, GuestStep
  <2>3. CASE GuestCopies
    BY <2>3 DEF GuestCopies, GuestStep
  <2>4. CASE GuestCopied
    BY <2>4 DEF GuestCopied, GuestStep
  <2>5. CASE GuestFails
    <3>1. Flags'
      BY <2>5, Zenon DEF Flags, GuestFails, GuestStep
    <3> QED
      BY <2>5, <3>1 DEF Flags, GuestFails, GuestStep
  <2>6. CASE GuestSucceeds
    BY <2>6 DEF GuestSucceeds, GuestStep
  <2>7. CASE GuestLogs
    BY <2>7 DEF GuestLogs, GuestStep
  <2> QED
    BY <1>1, <2>1, <2>2, <2>3, <2>4, <2>5, <2>6, <2>7 DEF GuestNext
<1>2. CASE Writeback
  BY <1>2 DEF Writeback, Images
<1>3. CASE QemuQuits
  <2>1. Written \in [wim : Sizes, marker : Sizes]
    BY DEF Written, Marked, Sizes
  <2> QED
    BY <1>3, <2>1 DEF QemuQuits
<1>4. CASE QemuKilled \/ QemuDies
  BY <1>4 DEF QemuKilled, QemuDies
<1>5. CASE DoneCloses \/ Watching \/ FatalSelects \/ ShotStarts \/ ShotEnds
  <2>1. CASE DoneCloses
    BY <2>1 DEF DoneCloses
  <2>2. CASE WatcherFires
    <3>1. Flags'
      BY <2>2, Zenon DEF Flags, WatcherFires
    <3> QED
      BY <2>2, <3>1 DEF Flags, WatcherFires
  <2>3. CASE WatcherStops
    <3>1. Flags'
      BY <2>3, Zenon DEF Flags, WatcherStops
    <3> QED
      BY <2>3, <3>1 DEF Flags, WatcherStops
  <2>4. CASE FatalSelects
    <3>1. Flags'
      BY <2>4, Zenon DEF Flags, FatalSelects
    <3> QED
      BY <2>4, <3>1 DEF Flags, FatalSelects
  <2>5. CASE ShotStarts
    BY <2>5 DEF ShotStarts
  <2>6. CASE ShotEnds
    <3>1. Flags'
      BY <2>6, Zenon DEF Flags, ShotEnds
    <3> QED
      BY <2>6, <3>1 DEF Flags, ShotEnds
  <2> QED
    BY <1>5, <2>1, <2>2, <2>3, <2>4, <2>5, <2>6 DEF Watching
<1>6. CASE BootReturns \/ PollCancelled \/ PollFatal \/ PollDeadline \/ PollDone
             \/ TickMarker \/ TickToken
  <2>1. CASE BootReturns
    BY <2>1 DEF BootReturns, Return, Judge, Errors
  <2>2. CASE PollCancelled
    BY <2>2 DEF PollCancelled, Return, Judge, Errors
  <2>3. CASE PollFatal
    <3>1. Flags'
      BY <2>3, Zenon DEF Flags, PollFatal, Return
    <3> QED
      BY <2>3, <3>1 DEF Flags, PollFatal, Return, Judge, Errors
  <2>4. CASE PollDeadline
    BY <2>4 DEF PollDeadline, Return, Judge, Errors
  <2>5. CASE PollDone
    BY <2>5 DEF PollDone, Return, Judge, Errors
  <2>6. CASE TickMarker
    BY <2>6 DEF TickMarker, Return, Judge, Errors
  <2>7. CASE TickToken
    BY <2>7 DEF TickToken, Return, Judge, Errors
  <2> QED
    BY <1>6, <2>1, <2>2, <2>3, <2>4, <2>5, <2>6, <2>7
<1>7. CASE QuitSent \/ QuitUnreachable \/ QuitTimeout \/ ShutdownDone \/ Cancel
  <2>1. CASE QuitSent
    BY <2>1 DEF QuitSent, SendKill
  <2>2. CASE QuitUnreachable
    BY <2>2 DEF QuitUnreachable, SendKill
  <2>3. CASE QuitTimeout
    BY <2>3 DEF QuitTimeout, SendKill
  <2>4. CASE ShutdownDone
    BY <2>4 DEF ShutdownDone, SendKill
  <2>5. CASE Cancel
    BY <2>5 DEF Cancel, SendKill
  <2> QED
    BY <1>7, <2>1, <2>2, <2>3, <2>4, <2>5
<1>8. CASE ReadMarker
  BY <1>8 DEF ReadMarker, Judge, Return, Errors
<1>9. CASE ReadWim
  BY <1>9 DEF ReadWim, Return, Errors
<1>10. CASE Stop \/ Stopped
  BY <1>10 DEF Stop, Stopped, SendKill
<1>11. CASE UNCHANGED vars
  BY <1>11 DEF vars
<1> QED
  BY <1>1, <1>2, <1>3, <1>4, <1>5, <1>6, <1>7, <1>8, <1>9, <1>10, <1>11 DEF Next, QemuNext, RunNext

(* Every variable of a WIM builder run keeps its type.                       *)
THEOREM TypeCorrect == Spec => []TypeOK
BY TypeInit, TypeStep, PTL DEF Spec

-----------------------------------------------------------------------------
(* The invariant.                                                            *)

\* A process ends once, in one way, and only what it quit after is flushed.
QemuInv ==
    /\ done => qemu = "exited"
    /\ qemu = "exited" <=> ended # "not"
    /\ qemu = "quitting" => pc \in {"quitwait", "killwait"}
    /\ ended = "quit" => image = Written

\* The image has a marker only of a guest that wrote one, whole or not, and
\* the guest states its outcome there.
ImageInv ==
    /\ image.marker # "none" => Marked
    /\ good => Marked

\* The serial watcher and the goroutine that waits for it.
WatchInv ==
    /\ pc = "boot" => fw = "idle"
    /\ fw \in {"idle", "new"} => stage \in {"booting", "hung"}
    /\ fw = "parked" => ~done
    /\ watch = "sent" => stage = "hung"
    /\ watch = "closed" => done
    /\ fatal \/ verdict = "fatal" =>
           stage = "hung" \/ (stage = "booting" /\ qemu = "exited")

\* Where Run is, and what it has learnt on the way.
RunPath ==
    /\ pc \in {"quit", "quitwait", "killwait", "quitmark"} => stage = "logged"
    /\ pc \in {"quitmark", "exitmark", "returned"} => done
    /\ pc = "wim" => good /\ image.marker = "whole"
    /\ verdict = "nomarker" => qemu = "exited"

RunInv == QemuInv /\ ImageInv /\ WatchInv /\ RunPath /\ SuccessIsWhole /\ QuitKeepsMarker

LEMMA RunInit == Init => RunInv
BY DEF Init, RunInv, QemuInv, ImageInv, WatchInv, RunPath, SuccessIsWhole, QuitKeepsMarker

\* A guest whose marker is in the image has nothing more to change in it.
LEMMA RunGuest == TypeOK /\ RunInv /\ GuestNext => RunInv'
<1> SUFFICES ASSUME TypeOK, RunInv, GuestNext PROVE RunInv'
  OBVIOUS
<1> USE DEF RunInv, GuestStep, vmVars, watchVars, runVars
<1>1. QemuInv' /\ ImageInv' /\ SuccessIsWhole' /\ QuitKeepsMarker'
  <2>1. qemu = "running" /\ ended = "not" /\ UNCHANGED <<vmVars, watchVars, runVars, done>>
    BY DEF TypeOK, QemuInv, GuestNext,
      GuestBoots, GuestHangs, GuestCopies, GuestCopied, GuestFails, GuestSucceeds, GuestLogs
  <2>2. QemuInv'
    BY <2>1 DEF QemuInv
  <2>3. Marked => Marked'
    BY DEF Marked, GuestNext,
      GuestBoots, GuestHangs, GuestCopies, GuestCopied, GuestFails, GuestSucceeds, GuestLogs
  <2>5. (good => good') /\ (good' => Marked')
    BY DEF GuestNext, ImageInv, Marked,
      GuestBoots, GuestHangs, GuestCopies, GuestCopied, GuestFails, GuestSucceeds, GuestLogs
  <2>4. ImageInv'
    BY <2>1, <2>3, <2>5 DEF ImageInv
  <2>6. SuccessIsWhole' /\ QuitKeepsMarker'
    BY <2>1, <2>5 DEF SuccessIsWhole, QuitKeepsMarker
  <2> QED
    BY <2>2, <2>4, <2>6
<1>2. WatchInv'
  BY DEF TypeOK, QemuInv, WatchInv, GuestNext,
    GuestBoots, GuestHangs, GuestCopies, GuestCopied, GuestFails, GuestSucceeds, GuestLogs
<1>3. RunPath'
  BY DEF RunPath, ImageInv, Marked, QemuInv, GuestNext,
    GuestBoots, GuestHangs, GuestCopies, GuestCopied, GuestFails, GuestSucceeds, GuestLogs
<1> QED
  BY <1>1, <1>2, <1>3

\* What QEMU does to the image and to itself.
LEMMA RunQemu == TypeOK /\ RunInv /\ QemuNext => RunInv'
<1> SUFFICES ASSUME TypeOK, RunInv, QemuNext PROVE RunInv'
  OBVIOUS
<1> USE DEF RunInv, QemuInv, ImageInv, WatchInv, RunPath, SuccessIsWhole, QuitKeepsMarker, Marked,
            guestVars, watchVars, runVars
<1>1. CASE Writeback
  <2>1. image'.marker \in Between(image.marker, Written.marker)
    BY <1>1 DEF Writeback, Images, TypeOK
  <2>2. Written.marker = IF Marked THEN "whole" ELSE "none"
    BY DEF Written
  <2>3. image'.marker # "none" => Marked
    BY <2>1, <2>2 DEF Between, TypeOK, Sizes
  <2>4. image.marker = "whole" => image'.marker = "whole"
    BY <2>1, <2>2 DEF Between
  <2> QED
    BY <1>1, <2>3, <2>4 DEF Writeback
<1>2. CASE QemuQuits
  <2>1. Written' = Written
    BY <1>2 DEF QemuQuits, Written
  <2>2. image' = Written /\ (image'.marker # "none" => Marked)
    BY <1>2 DEF QemuQuits, Written
  <2>3. verdict = "none" /\ pc \in {"quitwait", "killwait"} /\ UNCHANGED <<stage, done, fw, watch, fatal, pc, verdict, good, got>>
    BY <1>2 DEF QemuQuits, TypeOK
  <2>4. qemu' = "exited" /\ ended' = "quit"
    BY <1>2 DEF QemuQuits
  <2>5. QemuInv' /\ ImageInv'
    BY <2>1, <2>2, <2>3, <2>4
  <2>6. WatchInv' /\ RunPath'
    BY <2>3, <2>4
  <2>7. SuccessIsWhole' /\ QuitKeepsMarker'
    BY <2>3
  <2> QED
    BY <2>5, <2>6, <2>7
<1>3. CASE QemuKilled \/ QemuDies
  BY <1>3 DEF QemuKilled, QemuDies, TypeOK
<1> QED
  BY <1>1, <1>2, <1>3 DEF QemuNext

\* The goroutines.
LEMMA RunBoot ==
    TypeOK /\ RunInv /\ (DoneCloses \/ Watching \/ FatalSelects \/ ShotStarts \/ ShotEnds) => RunInv'
<1> SUFFICES ASSUME TypeOK, RunInv,
                    DoneCloses \/ Watching \/ FatalSelects \/ ShotStarts \/ ShotEnds
             PROVE  RunInv'
  OBVIOUS
<1> USE DEF RunInv, QemuInv, ImageInv, WatchInv, RunPath, SuccessIsWhole, QuitKeepsMarker,
            guestVars, vmVars, watchVars, runVars
<1>1. Written' = Written /\ Marked' = Marked
  BY DEF Written, Marked, Watching, DoneCloses, WatcherFires, WatcherStops, FatalSelects, ShotStarts, ShotEnds
<1>2. CASE DoneCloses
  BY <1>1, <1>2 DEF DoneCloses, TypeOK
<1>3. CASE WatcherFires
  BY <1>1, <1>3 DEF WatcherFires, TypeOK
<1>4. CASE WatcherStops
  BY <1>1, <1>4 DEF WatcherStops, TypeOK
<1>5. CASE FatalSelects
  BY <1>1, <1>5 DEF FatalSelects, TypeOK
<1>6. CASE ShotStarts \/ ShotEnds
  BY <1>1, <1>6 DEF ShotStarts, ShotEnds
<1> QED
  BY <1>2, <1>3, <1>4, <1>5, <1>6 DEF Watching

\* Run polls.
LEMMA RunPolls ==
    ASSUME TypeOK, RunInv, BootReturns \/ PollCancelled \/ PollFatal \/ PollDeadline \/ PollDone
             \/ TickMarker \/ TickToken
    PROVE  RunInv'
<1> USE DEF RunInv, QemuInv, ImageInv, WatchInv, RunPath, SuccessIsWhole, QuitKeepsMarker, Marked,
            guestVars, vmVars, watchVars, runVars, Return
<1>1. Written' = Written
  BY DEF Written, BootReturns, PollCancelled, PollFatal, PollDeadline, PollDone, TickMarker, TickToken
<1>2. CASE BootReturns
  BY <1>1, <1>2 DEF BootReturns, TypeOK
<1>3. CASE PollFatal
  BY <1>1, <1>3 DEF PollFatal, TypeOK
<1>4. CASE PollCancelled \/ PollDeadline
  BY <1>1, <1>4 DEF PollCancelled, PollDeadline, TypeOK
<1>5. CASE PollDone
  BY <1>1, <1>5 DEF PollDone, TypeOK
<1>6. CASE TickMarker
  BY <1>1, <1>6 DEF TickMarker, Judge, TypeOK
<1>7. CASE TickToken
  BY <1>1, <1>7 DEF TickToken, TypeOK
<1> QED
  BY <1>2, <1>3, <1>4, <1>5, <1>6, <1>7

\* Run shuts down, reads and returns.
LEMMA RunEnds ==
    ASSUME TypeOK, RunInv, QuitSent \/ QuitUnreachable \/ QuitTimeout \/ ShutdownDone \/ ReadMarker
             \/ ReadWim \/ Stop \/ Stopped \/ Cancel
    PROVE  RunInv'
<1> USE DEF RunInv, QemuInv, ImageInv, WatchInv, RunPath, SuccessIsWhole, QuitKeepsMarker, Marked,
            guestVars, vmVars, watchVars, runVars
<1>1. Written' = Written
  BY DEF Written, QuitSent, QuitUnreachable, QuitTimeout, ShutdownDone, ReadMarker, ReadWim, Stop,
    Stopped, Cancel
<1>2. CASE QuitSent \/ QuitUnreachable \/ QuitTimeout \/ ShutdownDone \/ Stop \/ Stopped \/ Cancel
  BY <1>1, <1>2 DEF TypeOK, SendKill, QuitSent, QuitUnreachable, QuitTimeout, ShutdownDone, Stop,
    Stopped, Cancel
<1>3. CASE ReadMarker
  <2>1. pc = "quitmark" => Written.marker = "whole"
    BY DEF Written
  <2> QED
    BY <1>1, <1>3, <2>1 DEF ReadMarker, Judge, Return
<1>4. CASE ReadWim
  <2>1. good /\ Marked => Written.wim = "whole"
    BY DEF Written
  <2> QED
    BY <1>1, <1>4, <2>1 DEF ReadWim, Return
<1> QED
  BY <1>2, <1>3, <1>4

LEMMA RunStep == TypeOK /\ RunInv /\ [Next]_vars => RunInv'
<1> SUFFICES ASSUME TypeOK, RunInv, [Next]_vars PROVE RunInv'
  OBVIOUS
<1>1. CASE UNCHANGED vars
  <2>1. Written' = Written
    BY <1>1 DEF vars, Written, Marked
  <2> QED
    BY <1>1, <2>1 DEF vars, RunInv, QemuInv, ImageInv, WatchInv, RunPath, SuccessIsWhole,
      QuitKeepsMarker, Marked
<1>2. CASE Next
  BY <1>2, RunGuest, RunQemu, RunBoot, RunPolls, RunEnds DEF Next, RunNext
<1> QED
  BY <1>1, <1>2

LEMMA RunCorrect == Spec => [](TypeOK /\ RunInv)
BY TypeInit, TypeStep, RunInit, RunStep, PTL DEF Spec

(* A success was stated by the guest's marker, and if QEMU quit before the   *)
(* volume was read the winkit.wim that Run returns is whole.                 *)
THEOREM SuccessIsWholeCorrect == Spec => []SuccessIsWhole
<1>1. RunInv => SuccessIsWhole
  BY DEF RunInv
<1> QED
  BY <1>1, RunCorrect, PTL

(* After a quit Run never misses the marker of a guest that sent its token.  *)
THEOREM QuitKeepsMarkerCorrect == Spec => []QuitKeepsMarker
<1>1. RunInv => QuitKeepsMarker
  BY DEF RunInv
<1> QED
  BY <1>1, RunCorrect, PTL

(* Run calls a boot fatal only if the guest never got past it, although a    *)
(* watcher that is stopped closes its channel.                               *)
THEOREM FatalIsBootCorrect == Spec => []FatalIsBoot
<1>1. RunInv => FatalIsBoot
  BY DEF RunInv, WatchInv, FatalIsBoot
<1> QED
  BY <1>1, RunCorrect, PTL

(* However Run returns, its QEMU has exited.                                 *)
THEOREM NoVmLeftCorrect == Spec => []NoVmLeft
<1>1. RunInv => NoVmLeft
  BY DEF RunInv, RunPath, QemuInv, NoVmLeft
<1> QED
  BY <1>1, RunCorrect, PTL

=============================================================================
