----------------------------- MODULE WimBuilder -----------------------------
(***************************************************************************)
(* `winkit winpe run`: a throwaway WinPE guest services a WIM and the host *)
(* polls for its completion.                                               *)
(*                                                                         *)
(*   winpe/run.go             Run, pollForCompletion, startScreenshotLoop  *)
(*   vm/qemu/runner.go        Boot and its goroutines, Shutdown, Stop      *)
(*   vm/qemu/serial_watch.go  WatchSerialFor                               *)
(*   vm/qemu/qmp.go           one QMP client at a time                     *)
(*   internal/templates/wim-builder.ps1.tmpl   what the guest does         *)
(*                                                                         *)
(* The guest writes winkit.wim, then the done marker, onto a FAT volume in *)
(* a qcow2 image, then the completion token onto the streamed log.  Until  *)
(* QEMU quits, the image lags behind what the guest has written, in any    *)
(* order; a QEMU that is killed or dies leaves it like that.  Where QEMU   *)
(* locks its images (Linux), the host cannot read the volume before then.  *)
(***************************************************************************)
EXTENDS Naturals

CONSTANTS
    Slow,     \* may QMP and the quit take longer than the code waits?
    Deaths    \* may QEMU end by itself?

ASSUME WimBuilderAssumption == Slow \in BOOLEAN /\ Deaths \in BOOLEAN

VARIABLES
    stage,    \* how far the guest is
    good,     \* the outcome that its marker states: SUCCESS or FAIL
    image,    \* [wim, marker]: the volume as the image file has it
    qemu,     \* the QEMU process
    ended,    \* how it ended
    locks,    \* does this host lock images that QEMU has open?
    done,     \* doneCh is closed
    watch,    \* the serial watchers' channel
    fw,       \* the goroutine that waits for them: "new", "parked", "gone"
    fatal,    \* is there a reason in fatalCh?
    shot,     \* the screenshot loop holds the QMP connection
    ctx,      \* is the context cancelled (Ctrl+C)?
    pc,       \* where Run is
    verdict,  \* what Run returns
    got       \* the winkit.wim that Run returns

vars == <<stage, good, image, qemu, ended, locks, done, watch, fw, fatal, shot,
          ctx, pc, verdict, got>>
guestVars == <<stage, good>>
vmVars    == <<image, qemu, ended>>
watchVars == <<watch, fw, fatal>>
runVars   == <<ctx, pc, verdict, got>>

Sizes  == {"none", "part", "whole"}
Stages == {"booting", "hung", "working", "copying", "copied", "marked", "logged"}
Errors == {"fatal", "timeout", "cancelled", "exited", "nomarker", "fail", "nowim"}

TypeOK ==
    /\ stage \in Stages
    /\ good \in BOOLEAN
    /\ image \in [wim : Sizes, marker : Sizes]
    /\ qemu \in {"running", "quitting", "killed", "exited"}
    /\ ended \in {"not", "quit", "kill", "died"}
    /\ locks \in BOOLEAN
    /\ done \in BOOLEAN
    /\ watch \in {"idle", "watching", "sent", "closed"}
    /\ fw \in {"idle", "new", "parked", "gone"}
    /\ fatal \in BOOLEAN
    /\ shot \in BOOLEAN
    /\ ctx \in BOOLEAN
    /\ pc \in {"boot", "poll", "quit", "quitwait", "killwait", "exitmark",
               "quitmark", "wim", "stop", "stopwait", "returned"}
    /\ verdict \in {"none", "ok"} \cup Errors
    /\ got \in Sizes
    /\ verdict = "none" <=> pc \notin {"stop", "stopwait", "returned"}

Init ==
    /\ stage = "booting" /\ good = FALSE
    /\ image = [wim |-> "none", marker |-> "none"]
    /\ qemu = "running" /\ ended = "not"
    /\ locks \in BOOLEAN
    /\ done = FALSE
    /\ watch = "idle" /\ fw = "idle" /\ fatal = FALSE /\ shot = FALSE
    /\ ctx = FALSE
    /\ pc = "boot" /\ verdict = "none" /\ got = "none"

-----------------------------------------------------------------------------
(* The guest's script *)

\* What the guest has written to the volume, whether or not it is in the image.
Marked == stage \in {"marked", "logged"}
Written ==
    [wim |-> CASE stage = "copying" -> "part"
               [] stage = "copied" \/ (Marked /\ good) -> "whole"
               [] OTHER -> "none",
     marker |-> IF Marked THEN "whole" ELSE "none"]

\* Each file can be missing, cut short or whole in the image, up to what the
\* guest has written, and never less than what is there already.
Between(low, high) ==
    CASE low = high -> {low}
      [] low = "none" /\ high = "whole" -> Sizes
      [] OTHER -> {low, high}

Images ==
    {x \in [wim : Sizes, marker : Sizes] :
        \A f \in DOMAIN x : x[f] \in Between(image[f], Written[f])}

GuestStep(from, to) ==
    /\ qemu = "running"
    /\ stage = from
    /\ stage' = to
    /\ UNCHANGED <<vmVars, locks, done, watchVars, shot, runVars>>

\* Windows takes longer to come up than Boot waits for the QMP socket and than
\* its goroutines need to be scheduled.
GuestBoots ==
    /\ fw \notin {"idle", "new"}
    /\ GuestStep("booting", "working")
    /\ UNCHANGED good

\* A synchronous exception or a drop to the EFI shell, seen on the serial log.
GuestHangs == GuestStep("booting", "hung") /\ UNCHANGED good

GuestCopies == GuestStep("working", "copying") /\ UNCHANGED good

GuestCopied == GuestStep("copying", "copied") /\ UNCHANGED good

\* An error on the way: FAIL into the marker file, with no wim to speak of.
GuestFails == GuestStep("working", "marked") /\ good' = FALSE

GuestSucceeds == GuestStep("copied", "marked") /\ good' = TRUE

\* The marker file first, then the token.
GuestLogs == GuestStep("marked", "logged") /\ UNCHANGED good

-----------------------------------------------------------------------------
(* QEMU *)

\* Some of what the guest has written gets into the image.
Writeback ==
    /\ qemu = "running"
    /\ image' \in Images \ {image}
    /\ UNCHANGED <<guestVars, qemu, ended, locks, done, watchVars, shot, runVars>>

\* A quit flushes everything before the process ends.
QemuQuits ==
    /\ qemu = "quitting"
    /\ qemu' = "exited" /\ ended' = "quit"
    /\ image' = Written
    /\ UNCHANGED <<guestVars, locks, done, watchVars, shot, runVars>>

\* The kernel removes a killed process.
QemuKilled ==
    /\ qemu = "killed"
    /\ qemu' = "exited" /\ ended' = "kill"
    /\ UNCHANGED <<guestVars, image, locks, done, watchVars, shot, runVars>>

\* QEMU aborts at launch, crashes, or is killed by the OOM killer.
QemuDies ==
    /\ Deaths
    /\ qemu \in {"running", "quitting"}
    /\ qemu' = "exited" /\ ended' = "died"
    /\ UNCHANGED <<guestVars, image, locks, done, watchVars, shot, runVars>>

\* Process.Kill
SendKill == qemu' = IF qemu = "exited" THEN "exited" ELSE "killed"

-----------------------------------------------------------------------------
(* The goroutines of Boot *)

\* Mutant of DoneCloses: the fatal goroutine does not select on doneCh.
DoneClosesUnseen ==
    /\ pc # "boot"
    /\ qemu = "exited" /\ ~done
    /\ done' = TRUE
    /\ UNCHANGED <<guestVars, vmVars, locks, watchVars, shot, runVars>>

\* cmd.Wait returns.  A goroutine already parked in its select on doneCh is
\* woken by this close and by nothing that follows it.
DoneCloses ==
    /\ pc # "boot"
    /\ qemu = "exited" /\ ~done
    /\ done' = TRUE
    /\ fw' = IF fw = "parked" THEN "gone" ELSE fw
    /\ UNCHANGED <<guestVars, vmVars, locks, watch, fatal, shot, runVars>>

\* WatchSerialFor finds its marker and sends the line.
WatcherFires ==
    /\ watch = "watching"
    /\ stage = "hung"
    /\ watch' = "sent"
    /\ IF fw = "parked" THEN fw' = "gone" /\ fatal' = TRUE ELSE UNCHANGED <<fw, fatal>>
    /\ UNCHANGED <<guestVars, vmVars, locks, done, shot, runVars>>

\* Mutant of WatcherStops: stop is looked at only when the log has grown.
WatcherStopsOnOutput ==
    /\ watch = "watching"
    /\ done /\ qemu = "running"
    /\ watch' = "closed"
    /\ IF fw = "parked" THEN fw' = "gone" /\ fatal' = TRUE ELSE UNCHANGED <<fw, fatal>>
    /\ UNCHANGED <<guestVars, vmVars, locks, done, shot, runVars>>

\* stop is closed: the watcher closes its channel, which a select takes for
\* a message.
WatcherStops ==
    /\ watch = "watching"
    /\ done
    /\ watch' = "closed"
    /\ IF fw = "parked" THEN fw' = "gone" /\ fatal' = TRUE ELSE UNCHANGED <<fw, fatal>>
    /\ UNCHANGED <<guestVars, vmVars, locks, done, shot, runVars>>

\* The goroutine gets to its select: any case that is ready, or park.
FatalSelects ==
    /\ fw = "new"
    /\ \/ watch \in {"sent", "closed"} /\ fw' = "gone" /\ fatal' = TRUE
       \/ done /\ fw' = "gone" /\ UNCHANGED fatal
       \/ watch = "watching" /\ ~done /\ fw' = "parked" /\ UNCHANGED fatal
    /\ UNCHANGED <<guestVars, vmVars, locks, done, watch, shot, runVars>>

\* QMPScreendump connects; QEMU serves one QMP client at a time.
ShotStarts ==
    /\ pc \notin {"boot", "stop", "stopwait", "returned"}
    /\ ~done /\ ~shot
    /\ shot' = TRUE
    /\ UNCHANGED <<guestVars, vmVars, locks, done, watchVars, runVars>>

ShotEnds ==
    /\ shot
    /\ shot' = FALSE
    /\ UNCHANGED <<guestVars, vmVars, locks, done, watchVars, runVars>>

-----------------------------------------------------------------------------
(* Run *)

Return(v) == verdict' = v /\ pc' = "stop"

\* ReadSharedFile is qemu-img convert of the image.
Readable == qemu = "exited" \/ ~locks

\* Boot returns when the QMP socket exists, or after 30 s all the same.
BootReturns ==
    /\ pc = "boot"
    /\ pc' = "poll"
    /\ watch' = "watching" /\ fw' = "new"
    /\ UNCHANGED <<guestVars, vmVars, locks, done, fatal, shot, ctx, verdict, got>>

\* Ctrl+C at any time; exec.CommandContext kills QEMU.
Cancel ==
    /\ pc # "returned" /\ ~ctx
    /\ ctx' = TRUE
    /\ SendKill
    /\ UNCHANGED <<guestVars, image, ended, locks, done, watchVars, shot, pc, verdict, got>>

PollCancelled ==
    /\ pc = "poll"
    /\ ctx
    /\ Return("cancelled")
    /\ UNCHANGED <<guestVars, vmVars, locks, done, watchVars, shot, ctx, got>>

PollFatal ==
    /\ pc = "poll"
    /\ fatal
    /\ fatal' = FALSE
    /\ Return("fatal")
    /\ UNCHANGED <<guestVars, vmVars, locks, done, watch, fw, shot, ctx, got>>

PollDeadline ==
    /\ pc = "poll"
    /\ Return("timeout")
    /\ UNCHANGED <<guestVars, vmVars, locks, done, watchVars, shot, ctx, got>>

PollDone ==
    /\ pc = "poll"
    /\ done
    /\ pc' = "exitmark"
    /\ UNCHANGED <<guestVars, vmVars, locks, done, watchVars, shot, ctx, verdict, got>>

\* What Run makes of a marker it could read.
Judge ==
    IF good /\ image.marker = "whole" THEN pc' = "wim" /\ UNCHANGED verdict
                                      ELSE Return("fail")

\* A tick finds the marker on the volume.
TickMarker ==
    /\ pc = "poll"
    /\ Readable /\ image.marker # "none"
    /\ Judge
    /\ UNCHANGED <<guestVars, vmVars, locks, done, watchVars, shot, ctx, got>>

\* Mutant of TickToken: the banner that precedes the marker counts as token.
TickTokenEarly ==
    /\ pc = "poll"
    /\ ~(Readable /\ image.marker # "none")
    /\ stage \in {"copied", "logged"}
    /\ pc' = "quit"
    /\ UNCHANGED <<guestVars, vmVars, locks, done, watchVars, shot, ctx, verdict, got>>

\* A tick finds the token on the stream, and not the marker on the volume.
TickToken ==
    /\ pc = "poll"
    /\ ~(Readable /\ image.marker # "none")
    /\ stage = "logged"
    /\ pc' = "quit"
    /\ UNCHANGED <<guestVars, vmVars, locks, done, watchVars, shot, ctx, verdict, got>>

\* Shutdown: QMPQuit gets the connection and QEMU the command.
QuitSent ==
    /\ pc = "quit"
    /\ qemu = "running" /\ ~shot
    /\ qemu' = "quitting"
    /\ pc' = "quitwait"
    /\ UNCHANGED <<guestVars, image, ended, locks, done, watchVars, shot, ctx, verdict, got>>

\* No greeting within the deadline, or no QEMU: Kill.
QuitUnreachable ==
    /\ pc = "quit"
    /\ qemu = "exited" \/ Slow
    /\ SendKill
    /\ pc' = "quitwait"
    /\ UNCHANGED <<guestVars, image, ended, locks, done, watchVars, shot, ctx, verdict, got>>

\* Thirty seconds after the quit: Kill.
QuitTimeout ==
    /\ pc = "quitwait"
    /\ Slow
    /\ SendKill
    /\ pc' = "killwait"
    /\ UNCHANGED <<guestVars, image, ended, locks, done, watchVars, shot, ctx, verdict, got>>

\* Mutant of ShutdownDone: the quit is sent and its effect not awaited.
ShutdownNotAwaited ==
    /\ pc \in {"quitwait", "killwait"}
    /\ pc' = "quitmark"
    /\ UNCHANGED <<guestVars, vmVars, locks, done, watchVars, shot, ctx, verdict, got>>

\* Shutdown returns and <-done after it does.
ShutdownDone ==
    /\ pc \in {"quitwait", "killwait"}
    /\ done
    /\ pc' = "quitmark"
    /\ UNCHANGED <<guestVars, vmVars, locks, done, watchVars, shot, ctx, verdict, got>>

\* The marker is read after the exit.
ReadMarker ==
    /\ pc \in {"exitmark", "quitmark"}
    /\ IF image.marker # "none" THEN Judge
       ELSE Return(IF pc = "exitmark" THEN "exited" ELSE "nomarker")
    /\ UNCHANGED <<guestVars, vmVars, locks, done, watchVars, shot, ctx, got>>

\* winkit.wim as it is in the image; a FAT entry without all its data reads
\* without an error.
ReadWim ==
    /\ pc = "wim"
    /\ IF Readable /\ image.wim # "none" THEN Return("ok") /\ got' = image.wim
                                         ELSE Return("nowim") /\ UNCHANGED got
    /\ UNCHANGED <<guestVars, vmVars, locks, done, watchVars, shot, ctx>>

\* Mutant of Stop: the deferred Stop does not wait for the process.
StopAtOnce ==
    /\ pc = "stop"
    /\ SendKill
    /\ pc' = "returned"
    /\ UNCHANGED <<guestVars, image, ended, locks, done, watchVars, shot, ctx, verdict, got>>

\* The deferred guest.Stop kills QEMU and waits for doneCh.
Stop ==
    /\ pc = "stop"
    /\ SendKill
    /\ pc' = "stopwait"
    /\ UNCHANGED <<guestVars, image, ended, locks, done, watchVars, shot, ctx, verdict, got>>

Stopped ==
    /\ pc = "stopwait"
    /\ done
    /\ pc' = "returned"
    /\ UNCHANGED <<guestVars, vmVars, locks, done, watchVars, shot, ctx, verdict, got>>

-----------------------------------------------------------------------------
GuestNext ==
    \/ GuestBoots \/ GuestHangs \/ GuestCopies \/ GuestCopied
    \/ GuestFails \/ GuestSucceeds \/ GuestLogs

QemuNext == Writeback \/ QemuQuits \/ QemuKilled \/ QemuDies

Watching == WatcherFires \/ WatcherStops

RunNext ==
    \/ BootReturns \/ PollCancelled \/ PollFatal \/ PollDeadline \/ PollDone \/ TickMarker \/ TickToken
    \/ QuitSent \/ QuitUnreachable \/ QuitTimeout \/ ShutdownDone
    \/ ReadMarker \/ ReadWim \/ Stop \/ Stopped

Next ==
    \/ GuestNext \/ QemuNext \/ DoneCloses \/ Watching \/ FatalSelects
    \/ ShotStarts \/ ShotEnds \/ RunNext \/ Cancel

Spec == Init /\ [][Next]_vars

\* The guest owes nothing.  The deadline fires, goroutines are scheduled, QMP
\* calls have deadlines, and a process that was told to end does.
Fairness ==
    /\ WF_vars(RunNext)
    /\ WF_vars(QemuQuits) /\ WF_vars(QemuKilled) /\ WF_vars(DoneCloses)
    /\ WF_vars(Watching) /\ WF_vars(FatalSelects) /\ WF_vars(ShotEnds)
    /\ SF_vars(QuitSent)

FairSpec == Spec /\ Fairness

-----------------------------------------------------------------------------
(* Properties *)

\* A success was stated by the guest's marker; and if QEMU quit, "flushing
\* writeback caches so the shared volume is consistent before it is read",
\* the winkit.wim that is returned is whole.
SuccessIsWhole ==
    verdict = "ok" => good /\ (ended = "quit" => got = "whole")

\* A builder that said on the stream that it is done is not found without a
\* marker after a quit: the marker precedes the token.
QuitKeepsMarker == verdict = "nomarker" => ended # "quit"

\* "boot failed" is said of a guest that never got past its boot.
FatalIsBoot == verdict = "fatal" => stage \in {"booting", "hung"}

\* Run leaves no QEMU behind, however it returns.
NoVmLeft == pc = "returned" => qemu = "exited"

\* Run returns, whatever the guest and QEMU do, and so do its goroutines.
RunReturns ==
    <>[](pc = "returned" /\ watch # "watching" /\ fw = "gone" /\ ~shot)
=============================================================================
