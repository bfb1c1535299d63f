----------------------------- MODULE ForkBudget -----------------------------
(***************************************************************************)
(* The fork harness of src/src/preprocess/fork_budget.rs: one call of      *)
(* run_forked_with_deadline.  A parent forks a child that runs an          *)
(* uninterruptible closure and writes its encoded result into a pipe; the  *)
(* parent drains the pipe, kills the child once the kill deadline has      *)
(* passed, reaps it and decodes what it received.                          *)
(*                                                                         *)
(* Four actors interleave: the parent, the child, the kernel (pipes,       *)
(* signals, wait statuses, pids, the clock) and the host program the       *)
(* library is embedded in (its threads, its SIGCHLD disposition, an outer  *)
(* timeout that may kill the parent).  A byte string is a length: the pipe *)
(* is a FIFO, so what the parent holds is always a prefix of what the      *)
(* child encoded.                                                          *)
(***************************************************************************)
EXTENDS Integers

CONSTANTS
  Deadline,    \* the caller's logical deadline, in clock ticks
  KillGrace,   \* KILL_GRACE, in clock ticks
  MaxNow,      \* bound on the clock
  PayloadLen,  \* length of an encoded Some(v), its tag included
  PipeCap,     \* capacity of the kernel's pipe buffer
  ReadChunk,   \* size of the parent's read buffer
  HostIsInit,  \* the calling process is pid 1 (the entry point of a container)
  Subreaper    \* orphans are re-parented to a subreaper and not to pid 1

ASSUME ForkBudgetAssumption ==
  /\ Deadline \in Nat /\ KillGrace \in Nat
  /\ MaxNow \in Nat /\ MaxNow >= Deadline + KillGrace
  /\ PayloadLen \in Nat /\ PayloadLen >= 2
  /\ PipeCap \in Nat \ {0} /\ ReadChunk \in Nat \ {0}
  /\ HostIsInit \in BOOLEAN /\ Subreaper \in BOOLEAN

KillDeadline == Deadline + KillGrace
NoneLen == 1   \* an encoded None is the one tag byte

VARIABLES
  now,         \* the monotonic clock
  threads,     \* the host's threads, the calling one included
  threadsSeen, \* threads_in_this_process(): 0 stands for an unreadable count
  lockHeld,    \* a thread other than the calling one holds a process-wide lock
  sigchld,     \* the host's SIGCHLD disposition
  parent,      \* program counter of the calling process
  parentFd,    \* the parent's two pipe descriptors
  child,       \* program counter of the child
  childFd,     \* the child's two pipe descriptors
  wedged,      \* the child inherited a lock nobody in it can release
  result,      \* what the closure did in the child
  written,     \* bytes the child has put into the pipe
  received,    \* bytes the parent has taken out of it
  exit,        \* how the child ended
  deathSignal, \* PR_SET_PDEATHSIG has been armed
  killPending, \* a SIGKILL is on its way to the child
  orphanExit,  \* the child left through the getppid() check
  pid,         \* whom the child's pid denotes
  outcome      \* what the call returned

hostVars   == <<threads, threadsSeen, lockHeld, sigchld>>
parentVars == <<parent, parentFd, received, outcome>>
childVars  == <<child, childFd, wedged, result, written, exit, deathSignal,
                orphanExit>>
vars == <<now, hostVars, parentVars, childVars, killPending, pid>>

-----------------------------------------------------------------------------
Dispositions == {"default", "reaper", "ignored", "noCldWait", "unreadable"}
DrainPcs     == {"clock", "poll", "read"}
ReapPcs      == {"reap", "abandonReap", "killReap"}
KillPcs      == {"killSend", "abandonKill"}
ParentPcs    == {"entry", "pipe", "fork", "inline", "closeWr", "eofClose",
                 "abandonClose", "killClose", "done", "dead"}
                  \cup DrainPcs \cup ReapPcs \cup KillPcs
RunningPcs   == {"closeRd", "prctl", "getppid", "closure", "write", "closeWr",
                 "exit"}
ChildPcs     == {"unborn", "dying", "zombie", "gone"} \cup RunningPcs
Results      == {"pending", "some", "none", "panic"}
Exits        == {"running", "zero", "panicked", "writeFailed", "signal"}
Failures     == {"signal", "panicked", "writeFailed", "corrupt",
                 "pollFailed", "readFailed"}
Outcomes     == {"pending", "some", "none", "killed"} \cup Failures
FdStates     == {"none", "open", "closed"}

TypeOK ==
  /\ now \in 0..MaxNow
  /\ threads \in 1..2
  /\ threadsSeen \in {0, threads}
  /\ lockHeld \in BOOLEAN
  /\ sigchld \in Dispositions
  /\ parent \in ParentPcs
  /\ parentFd \in [{"rd", "wr"} -> FdStates]
  /\ child \in ChildPcs
  /\ childFd \in [{"rd", "wr"} -> FdStates]
  /\ wedged \in BOOLEAN
  /\ result \in Results
  /\ written \in 0..PayloadLen
  /\ received \in 0..PayloadLen
  /\ exit \in Exits
  /\ deathSignal \in BOOLEAN
  /\ killPending \in BOOLEAN
  /\ orphanExit \in BOOLEAN
  /\ pid \in {"unused", "child", "free", "other"}
  /\ outcome \in Outcomes

Init ==
  /\ now = 0
  /\ threads \in 1..2
  /\ threadsSeen \in {0, threads}
  /\ lockHeld = FALSE
  /\ sigchld \in Dispositions
  /\ parent = "entry"
  /\ parentFd = [e \in {"rd", "wr"} |-> "none"]
  /\ child = "unborn"
  /\ childFd = [e \in {"rd", "wr"} |-> "none"]
  /\ wedged = FALSE
  /\ result = "pending"
  /\ written = 0
  /\ received = 0
  /\ exit = "running"
  /\ deathSignal = FALSE
  /\ killPending = FALSE
  /\ orphanExit = FALSE
  /\ pid = "unused"
  /\ outcome = "pending"

-----------------------------------------------------------------------------
(* What the harness asks of its host before it forks.  A definition named  *)
(* Bug... is the code with a plausible mistake in it: the checks of a       *)
(* property substitute it for the definition that follows it.              *)

ForkSoundFor(n) == n = 1
ChildrenAreWaitable(d) == d \notin {"ignored", "noCldWait", "unreadable"}
BugAnyDisposition == ForkSoundFor(threadsSeen)
ForkingIsSound == ForkSoundFor(threadsSeen) /\ ChildrenAreWaitable(sigchld)

(* The kernel's view of the pipe and of the child. *)

InPipe == written - received
Encoded == IF result = "some" THEN PayloadLen ELSE NoneLen
WriterLeft == parentFd["wr"] = "open" \/ childFd["wr"] = "open"
ReaderLeft == parentFd["rd"] = "open" \/ childFd["rd"] = "open"
ChildLives == child \in RunningPcs
KernelReapsChildren == sigchld \in {"ignored", "noCldWait"}

CloseEnd(fd, e) == [fd EXCEPT ![e] = IF @ = "open" THEN "closed" ELSE @]
CloseBoth(fd) == CloseEnd(CloseEnd(fd, "rd"), "wr")

-----------------------------------------------------------------------------
(* The parent: run_forked_with_deadline and fork_with_kill_deadline. *)

ParentIdle == UNCHANGED <<childVars, killPending, pid, hostVars, now>>

Enter ==
  /\ parent = "entry"
  /\ parent' = IF ForkingIsSound THEN "pipe" ELSE "inline"
  /\ UNCHANGED <<parentFd, received, outcome>> /\ ParentIdle

CreatePipe ==
  /\ parent = "pipe"
  /\ \/ /\ parentFd' = [e \in {"rd", "wr"} |-> "open"]
        /\ parent' = "fork"
     \/ parent' = "inline" /\ UNCHANGED parentFd
  /\ UNCHANGED <<received, outcome>> /\ ParentIdle

Fork ==
  /\ parent = "fork"
  /\ parent' = "closeWr"
  /\ child' = "closeRd"
  /\ childFd' = parentFd
  /\ wedged' = lockHeld
  /\ pid' = "child"
  /\ UNCHANGED <<parentFd, received, outcome, result, written, exit,
                 deathSignal, orphanExit, killPending, hostVars, now>>

BugForkFailsLeaks ==
  /\ parent = "fork"
  /\ parent' = "inline"
  /\ UNCHANGED <<parentFd, received, outcome>> /\ ParentIdle

ForkFails ==
  /\ parent = "fork"
  /\ parentFd' = CloseBoth(parentFd)
  /\ parent' = "inline"
  /\ UNCHANGED <<received, outcome>> /\ ParentIdle

\* The closure runs in the caller's process, with no deadline enforced on it.
InlineReturns ==
  /\ parent = "inline"
  /\ outcome' \in {"some", "none"}
  /\ parent' = "done"
  /\ UNCHANGED <<parentFd, received>> /\ ParentIdle

CloseWr ==
  /\ parent = "closeWr"
  /\ parentFd' = CloseEnd(parentFd, "wr")
  /\ parent' = "clock"
  /\ UNCHANGED <<received, outcome>> /\ ParentIdle

(* The parent: parent_wait. *)

BugNoDeadline ==
  /\ parent = "clock"
  /\ parent' = "poll"
  /\ UNCHANGED <<parentFd, received, outcome>> /\ ParentIdle

BugNoGrace ==
  /\ parent = "clock"
  /\ parent' = IF now >= Deadline THEN "killSend" ELSE "poll"
  /\ UNCHANGED <<parentFd, received, outcome>> /\ ParentIdle

CheckClock ==
  /\ parent = "clock"
  /\ parent' = IF now >= KillDeadline THEN "killSend" ELSE "poll"
  /\ UNCHANGED <<parentFd, received, outcome>> /\ ParentIdle

Abandon(why) ==
  /\ outcome' = why
  /\ parent' = "abandonClose"
  /\ UNCHANGED <<parentFd, received>>

BugQuietIsEof ==
  /\ parent = "poll"
  /\ parent' = IF InPipe > 0 THEN "read" ELSE "eofClose"
  /\ UNCHANGED <<parentFd, received, outcome>> /\ ParentIdle

\* A slice that ends quietly and one a signal interrupts both go back to the
\* clock; a hung-up pipe polls as readable.
Poll ==
  /\ parent = "poll"
  /\ \/ /\ InPipe > 0 \/ ~WriterLeft
        /\ parent' = "read"
        /\ UNCHANGED <<parentFd, received, outcome>>
     \/ parent' = "clock" /\ UNCHANGED <<parentFd, received, outcome>>
     \/ Abandon("pollFailed")
  /\ ParentIdle

BugTrustsChunkLen ==
  /\ parent = "read" /\ InPipe > 0
  /\ received' = received + ReadChunk
  /\ parent' = "clock"
  /\ UNCHANGED <<parentFd, outcome>> /\ ParentIdle

ReadSome ==
  /\ parent = "read"
  /\ \E n \in 1..ReadChunk :
       /\ n <= InPipe
       /\ received' = received + n
  /\ parent' = "clock"
  /\ UNCHANGED <<parentFd, outcome>> /\ ParentIdle

ReadEof ==
  /\ parent = "read"
  /\ InPipe = 0 /\ ~WriterLeft
  /\ parent' = "eofClose"
  /\ UNCHANGED <<parentFd, received, outcome>> /\ ParentIdle

ReadFails ==
  /\ parent = "read"
  /\ \/ parent' = "clock" /\ UNCHANGED <<parentFd, received, outcome>>
     \/ Abandon("readFailed")
  /\ ParentIdle

CloseRead ==
  /\ \/ parent = "eofClose" /\ parent' = "reap" /\ UNCHANGED outcome
     \/ parent = "abandonClose" /\ parent' = "abandonKill" /\ UNCHANGED outcome
     \/ parent = "killClose" /\ parent' = "done" /\ outcome' = "killed"
  /\ parentFd' = CloseEnd(parentFd, "rd")
  /\ UNCHANGED received /\ ParentIdle

\* kill(pid, SIGKILL) reaches the child only while the pid is still the child's.
SendKill ==
  /\ \/ parent = "killSend" /\ parent' = "killReap"
     \/ parent = "abandonKill" /\ parent' = "abandonReap"
  /\ killPending' = (killPending \/ pid = "child")
  /\ UNCHANGED <<parentFd, received, outcome, childVars, pid, hostVars, now>>

(* The parent: reap, reap_and_decode, decode_result. *)

\* waitpid blocks until there is a status to collect or no child to wait for.
Waitable == child \in {"zombie", "gone"}
StatusKnown == child = "zombie"
CollectChild ==
  /\ child' = "gone"
  /\ pid' = IF child = "zombie" THEN "free" ELSE pid
  /\ UNCHANGED <<childFd, wedged, result, written, exit, deathSignal,
                 orphanExit>>

Decoded == IF received = Encoded THEN result ELSE "corrupt"
Verdict == IF StatusKnown /\ exit # "zero" THEN exit ELSE Decoded

ReapAndDecode ==
  /\ parent = "reap" /\ Waitable
  /\ CollectChild
  /\ outcome' = Verdict
  /\ parent' = "done"
  /\ UNCHANGED <<parentFd, received, killPending, hostVars, now>>

ReapKilled ==
  /\ parent \in {"killReap", "abandonReap"} /\ Waitable
  /\ CollectChild
  /\ parent' = IF parent = "killReap" THEN "killClose" ELSE "done"
  /\ UNCHANGED <<parentFd, received, outcome, killPending, hostVars, now>>

-----------------------------------------------------------------------------
(* The child: run_child_and_exit, tie_lifetime_to_parent, child_body. *)

ChildIdle == UNCHANGED <<wedged, written, parentVars, killPending, pid,
                         hostVars, now>>

ChildCloseRd ==
  /\ child = "closeRd"
  /\ childFd' = CloseEnd(childFd, "rd")
  /\ child' = "prctl"
  /\ UNCHANGED <<result, exit, deathSignal, orphanExit>> /\ ChildIdle

Prctl ==
  /\ child = "prctl"
  /\ deathSignal' = TRUE
  /\ child' = "getppid"
  /\ UNCHANGED <<childFd, result, exit, orphanExit>> /\ ChildIdle

BugNoParentCheck == FALSE
ParentLooksLikeInit ==
  IF parent = "dead" THEN ~Subreaper ELSE HostIsInit

CheckParent ==
  /\ child = "getppid"
  /\ IF ParentLooksLikeInit
       THEN child' = "dying" /\ exit' = "zero" /\ orphanExit' = TRUE
       ELSE child' = "closure" /\ UNCHANGED <<exit, orphanExit>>
  /\ UNCHANGED <<childFd, result, deathSignal>> /\ ChildIdle

\* The closure may also run forever: no fairness is assumed of this action.
Closure ==
  /\ child = "closure" /\ ~wedged
  /\ \/ /\ result' \in {"some", "none"}
        /\ child' = "write"
        /\ UNCHANGED exit
     \/ /\ result' = "panic"
        /\ exit' = "panicked"
        /\ child' = "dying"
  /\ UNCHANGED <<childFd, deathSignal, orphanExit>> /\ ChildIdle

Write ==
  /\ child = "write" /\ ReaderLeft
  /\ \E n \in 1..PipeCap :
       /\ n <= Encoded - written /\ n <= PipeCap - InPipe
       /\ written' = written + n
  /\ child' = IF written' = Encoded THEN "closeWr" ELSE "write"
  /\ UNCHANGED <<childFd, wedged, result, exit, deathSignal, orphanExit,
                 parentVars, killPending, pid, hostVars, now>>

\* EPIPE where the host ignores SIGPIPE, the signal where it does not.
WriteFails ==
  /\ child = "write" /\ ~ReaderLeft
  /\ exit' \in {"writeFailed", "signal"}
  /\ child' = "dying"
  /\ UNCHANGED <<childFd, result, deathSignal, orphanExit>> /\ ChildIdle

ChildCloseWr ==
  /\ child = "closeWr"
  /\ childFd' = CloseEnd(childFd, "wr")
  /\ child' = "exit"
  /\ UNCHANGED <<result, exit, deathSignal, orphanExit>> /\ ChildIdle

ChildExit ==
  /\ child = "exit"
  /\ exit' = "zero"
  /\ child' = "dying"
  /\ UNCHANGED <<childFd, result, deathSignal, orphanExit>> /\ ChildIdle

-----------------------------------------------------------------------------
(* The kernel, the host and init. *)

DieOfSignal ==
  /\ ChildLives
  /\ exit' = "signal"
  /\ child' = "dying"
  /\ UNCHANGED <<childFd, result, deathSignal, orphanExit>> /\ ChildIdle

KillDelivered == killPending /\ DieOfSignal

\* A fault in the native code, or the out-of-memory killer: at any point.
ChildCrashes == ~killPending /\ DieOfSignal

ExitClosesFiles ==
  /\ child = "dying" /\ childFd # CloseBoth(childFd)
  /\ childFd' = CloseBoth(childFd)
  /\ UNCHANGED <<child, result, exit, deathSignal, orphanExit>> /\ ChildIdle

ExitNotifies ==
  /\ child = "dying" /\ childFd = CloseBoth(childFd)
  /\ IF KernelReapsChildren /\ parent # "dead"
       THEN child' = "gone" /\ pid' = "free"
       ELSE child' = "zombie" /\ UNCHANGED pid
  /\ UNCHANGED <<childFd, wedged, result, written, exit, deathSignal,
                 orphanExit, parentVars, killPending, hostVars, now>>

\* A SIGCHLD handler of the host that waits for every child, or whoever
\* adopted the child once the parent is dead.
ReapedElsewhere ==
  /\ child = "zombie"
  /\ \/ sigchld = "reaper" /\ parent # "dead"
     \/ parent = "dead"
  /\ CollectChild
  /\ UNCHANGED <<parentVars, killPending, hostVars, now>>

RecyclePid ==
  /\ pid = "free"
  /\ pid' = "other"
  /\ UNCHANGED <<parentVars, childVars, killPending, hostVars, now>>

\* An outer timeout kills the calling process: the kernel closes its
\* descriptors and sends the armed death signal, or kills the whole pid
\* namespace where the process was its init.
ParentKilled ==
  /\ parent \notin {"done", "dead"}
  /\ parent' = "dead"
  /\ parentFd' = CloseBoth(parentFd)
  /\ killPending' = (killPending \/ (ChildLives /\ (deathSignal \/ HostIsInit)))
  /\ UNCHANGED <<received, outcome, childVars, pid, hostVars, now>>

OtherThreadLocks ==
  /\ threads > 1
  /\ parent \notin {"done", "dead"}
  /\ lockHeld' = ~lockHeld
  /\ UNCHANGED <<threads, threadsSeen, sigchld, parentVars, childVars,
                 killPending, pid, now>>

Tick ==
  /\ now < MaxNow
  /\ parent \notin {"done", "dead"}
  /\ now' = now + 1
  /\ UNCHANGED <<hostVars, parentVars, childVars, killPending, pid>>

\* The call has returned, or its process is dead, and no child is left.
Finished ==
  /\ parent \in {"done", "dead"}
  /\ child \in {"unborn", "gone"}
  /\ UNCHANGED vars

-----------------------------------------------------------------------------
ParentStep ==
  \/ Enter \/ CreatePipe \/ Fork \/ ForkFails \/ CloseWr \/ CheckClock
  \/ Poll \/ ReadSome \/ ReadEof \/ ReadFails \/ CloseRead \/ SendKill
  \/ ReapAndDecode \/ ReapKilled

ChildStep ==
  \/ ChildCloseRd \/ Prctl \/ CheckParent \/ Write \/ WriteFails
  \/ ChildCloseWr \/ ChildExit

KernelStep == KillDelivered \/ ExitClosesFiles \/ ExitNotifies

Adopted == parent = "dead" /\ ReapedElsewhere

Next ==
  \/ ParentStep \/ InlineReturns
  \/ ChildStep \/ Closure
  \/ KernelStep \/ ChildCrashes \/ ReapedElsewhere \/ RecyclePid
  \/ ParentKilled \/ OtherThreadLocks \/ Tick
  \/ Finished

Spec == Init /\ [][Next]_vars

\* Running processes are scheduled, the kernel finishes what it started, time
\* passes, and an orphan's new parent waits for it.  Nothing is assumed of the
\* closure, forked or inline: a native stage may never return.
FairSpec ==
  /\ Spec
  /\ WF_vars(ParentStep) /\ WF_vars(ChildStep) /\ WF_vars(KernelStep)
  /\ WF_vars(Adopted) /\ WF_vars(Tick)

-----------------------------------------------------------------------------
(* Safety. *)

\* "`kill` and `waitpid` always name the child this call forked": unless the
\* host has a SIGCHLD handler that reaps every child, a SIGKILL is never sent
\* to a pid the kernel may have given to another process.
KillNamesOwnChild ==
  parent \in KillPcs /\ sigchld # "reaper" => pid = "child"

\* "each remaining end is closed exactly once on every path out": a descriptor
\* is open when its close runs, and none is left open in the caller's process.
DescriptorsClosedOnce ==
  /\ parent = "closeWr" => parentFd["wr"] = "open"
  /\ parent \in {"eofClose", "abandonClose", "killClose"}
       => parentFd["rd"] = "open"
  /\ parent \in {"inline", "done", "dead"}
       => \A e \in {"rd", "wr"} : parentFd[e] # "open"

\* A call that returned leaves no process behind: no child still computing and
\* no zombie, on the kill and the abandon paths too.
NoChildLeft == parent = "done" => child \in {"unborn", "gone"}

\* A forked child never holds a lock whose owner does not exist in it.
ChildInheritsNoLock == ~wedged

\* Whichever of the six ways a call takes out, it leaves nothing of its own open
\* and nobody to wait for, and the child it waits for is not stuck on a lock.
CleanReturn == DescriptorsClosedOnce /\ NoChildLeft /\ ChildInheritsNoLock

\* A forked call reports a completed closure only with the closure's own
\* result, and only when every byte of it has arrived.
CompletedIsWhole ==
  parent = "done" /\ child # "unborn" /\ outcome \in {"some", "none"}
    => outcome = result /\ received = Encoded

\* A child that delivered its result and exited cleanly is never reported as
\* dead or corrupt: the deadline and a broken pipe are the only ways to lose it.
NoResultLost ==
  parent = "done" /\ exit = "zero" /\ ~orphanExit
    => outcome \in {result, "killed", "pollFailed", "readFailed"}

\* The answer of a forked call is the closure's, neither cut short nor made up
\* nor dropped.
ResultIsFaithful == CompletedIsWhole /\ NoResultLost

\* The waitpid of the parent has no timeout.  It is only reached when the child
\* is about to end: a SIGKILL is on its way, or the pipe's last writer is gone.
WaitIsBounded ==
  parent \in ReapPcs
    => killPending \/ child \in {"exit", "dying", "zombie", "gone"}

(* Liveness, under FairSpec. *)

\* The budget is enforced: a call that forked returns, whatever the closure
\* does, unless its own process is killed.
Returns == parent = "closeWr" ~> parent \in {"done", "dead"}

\* tie_lifetime_to_parent: "so a child can never outlive the run that spawned
\* it": once the parent is dead the child ends and is reaped.
ChildNeverOutlives == parent = "dead" ~> child \in {"unborn", "gone"}

\* A call ends on both sides: the caller gets its answer, and where an orphan is
\* re-parented to pid 1 nothing of the call runs on without it.
CallEnds == Returns /\ ChildNeverOutlives

(* Refinement. *)

Contract == INSTANCE BudgetedCall WITH
  work  <- IF outcome \in {"some", "none"} THEN outcome ELSE result,
  reply <- IF parent = "done" THEN outcome ELSE "pending"

\* The harness implements its contract: at most one computation, an answer
\* that is its result, no kill before deadline plus grace, and no computation
\* after the answer.
ImplementsBudgetedCall == Contract!Spec
=============================================================================
