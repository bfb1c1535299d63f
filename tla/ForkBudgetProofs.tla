-------------------------- MODULE ForkBudgetProofs --------------------------
(***************************************************************************)
(* The safety properties of ForkBudget, for every deadline, payload length *)
(* and pipe capacity.                                                      *)
(***************************************************************************)
EXTENDS ForkBudget, TLAPS

Ended == {"dying", "zombie", "gone"}

(* Who forks: one thread, and children that stay waitable. *)
HostInv ==
  /\ threads = 1 => ~lockHeld
  /\ parent \in {"pipe", "fork"} \/ child # "unborn" => ForkingIsSound
  /\ ~wedged

(* Where the parent and the child can be with respect to each other. *)
PhaseInv ==
  /\ parent \in {"entry", "pipe", "fork", "inline"} => child = "unborn"
  /\ child = "unborn" =>
       /\ parent \in {"entry", "pipe", "fork", "inline", "done", "dead"}
       /\ pid = "unused" /\ result = "pending" /\ exit = "running" /\ ~orphanExit
       /\ written = 0 /\ received = 0
  /\ parent \in {"killClose", "done"} => child \in {"unborn", "gone"}
  /\ child = "gone" /\ sigchld # "reaper" => parent \in {"killClose", "done", "dead"}
  /\ child \notin {"unborn", "gone"} => pid = "child"

(* How far the child has come. *)
ChildInv ==
  /\ ChildLives => exit = "running" /\ ~orphanExit
  /\ child \in Ended => exit # "running"
  /\ child \in {"closeRd", "prctl", "getppid", "closure"}
       => result = "pending" /\ written = 0
  /\ child = "write" => result \in {"some", "none"}
  /\ child \in {"closeWr", "exit"} => result \in {"some", "none"} /\ written = Encoded
  /\ exit = "zero" /\ ~orphanExit => result \in {"some", "none"} /\ written = Encoded
  /\ written > 0 => result \in {"some", "none"}
  /\ written <= Encoded

(* Which descriptors are open where. *)
FdInv ==
  /\ parent \in {"fork", "closeWr"} => parentFd["rd"] = "open" /\ parentFd["wr"] = "open"
  /\ parent \in DrainPcs \cup {"eofClose", "abandonClose", "killSend", "killReap", "killClose"}
       => parentFd["rd"] = "open" /\ parentFd["wr"] # "open"
  /\ parent \in {"entry", "pipe", "inline", "reap", "abandonKill", "abandonReap", "done", "dead"}
       => parentFd["rd"] # "open" /\ parentFd["wr"] # "open"
  /\ ChildLives /\ child # "exit" => childFd["wr"] = "open"

(* What the parent has read when it stops reading. *)
DrainInv ==
  /\ received <= written
  /\ parent \in {"eofClose", "reap"} => childFd["wr"] # "open" /\ received = written
  /\ parent \in {"killReap", "abandonReap"} => killPending \/ child \in Ended

(* What the call may answer. *)
OutcomeInv ==
  /\ outcome \in {"some", "none"} => parent = "done"
  /\ parent \in {"abandonClose", "abandonKill", "abandonReap"}
       => outcome \in {"pollFailed", "readFailed"}
  /\ parent \notin {"abandonClose", "abandonKill", "abandonReap", "done", "dead"}
       => outcome = "pending"
  /\ parent \in {"killSend", "killReap", "killClose"} => now >= KillDeadline
  /\ CompletedIsWhole
  /\ NoResultLost

IInv ==
  TypeOK /\ HostInv /\ PhaseInv /\ ChildInv /\ FdInv /\ DrainInv /\ OutcomeInv

-----------------------------------------------------------------------------
(* The type invariant, action by action. *)

LEMMA InitTypeOK == Init => TypeOK
<1> SUFFICES ASSUME Init PROVE TypeOK
  OBVIOUS
<1>1. /\ now \in 0..MaxNow /\ written \in 0..PayloadLen /\ received \in 0..PayloadLen
  BY ForkBudgetAssumption DEF Init
<1>2. /\ threads \in 1..2 /\ threadsSeen \in {0, threads}
  BY DEF Init
<1>3. QED
  BY <1>1, <1>2 DEF Init, TypeOK, Dispositions, DrainPcs, ReapPcs,
     KillPcs, Failures, RunningPcs, ParentPcs, ChildPcs, Results, Exits,
     Outcomes, FdStates

LEMMA NextTypeOK == IInv /\ [Next]_vars => TypeOK'
<1> SUFFICES ASSUME IInv, [Next]_vars PROVE TypeOK'
  OBVIOUS
<1> USE ForkBudgetAssumption DEF IInv, TypeOK, Dispositions, DrainPcs, ReapPcs, KillPcs,
      ParentPcs, RunningPcs, ChildPcs, Results, Exits, Failures, Outcomes,
      FdStates, ParentIdle, ChildIdle, CloseBoth, CloseEnd, parentVars,
      childVars, hostVars
<1>1. CASE Enter
  BY <1>1 DEF Enter
<1>2. CASE CreatePipe
  BY <1>2 DEF CreatePipe
<1>3. CASE Fork
  BY <1>3 DEF Fork
<1>4. CASE ForkFails
  BY <1>4 DEF ForkFails
<1>5. CASE CloseWr
  BY <1>5 DEF CloseWr
<1>6. CASE CheckClock
  BY <1>6 DEF CheckClock
<1>7. CASE Poll
  BY <1>7 DEF Poll, Abandon
<1>8. CASE ReadSome
  BY <1>8 DEF ReadSome, InPipe
<1>9. CASE ReadEof
  BY <1>9 DEF ReadEof
<1>10. CASE ReadFails
  BY <1>10 DEF ReadFails, Abandon
<1>11. CASE CloseRead
  BY <1>11 DEF CloseRead
<1>12. CASE SendKill
  BY <1>12 DEF SendKill
<1>13. CASE ReapAndDecode
  <2>1. Verdict \in Outcomes
    <3>1. received = Encoded => result \in {"some", "none"}
      BY DEF ChildInv, DrainInv, Encoded, NoneLen
    <3>2. exit \in Outcomes \/ exit \in {"running", "zero"}
      OBVIOUS
    <3>3. child = "zombie" => exit # "running"
      BY DEF ChildInv, Ended
    <3>4. QED
      BY <3>1, <3>2, <3>3 DEF Verdict, Decoded, StatusKnown
  <2>2. QED
    BY <1>13, <2>1 DEF ReapAndDecode, CollectChild
<1>14. CASE ReapKilled
  BY <1>14 DEF ReapKilled, CollectChild
<1>15. CASE InlineReturns
  BY <1>15 DEF InlineReturns
<1>16. CASE ChildCloseRd
  BY <1>16 DEF ChildCloseRd
<1>17. CASE Prctl
  BY <1>17 DEF Prctl
<1>18. CASE CheckParent
  <2>1. CASE ParentLooksLikeInit
    BY <1>18, <2>1 DEF CheckParent
  <2>2. CASE ~ParentLooksLikeInit
    BY <1>18, <2>2 DEF CheckParent
  <2>3. QED
    BY <2>1, <2>2
<1>19. CASE Closure
  BY <1>19 DEF Closure
<1>20. CASE Write
  BY <1>20 DEF Write, InPipe, Encoded, NoneLen
<1>21. CASE WriteFails
  BY <1>21 DEF WriteFails
<1>22. CASE ChildCloseWr
  BY <1>22 DEF ChildCloseWr
<1>23. CASE ChildExit
  BY <1>23 DEF ChildExit
<1>24. CASE KillDelivered
  BY <1>24 DEF KillDelivered, DieOfSignal
<1>25. CASE ExitClosesFiles
  BY <1>25 DEF ExitClosesFiles
<1>26. CASE ExitNotifies
  BY <1>26 DEF ExitNotifies
<1>27. CASE ChildCrashes
  BY <1>27 DEF ChildCrashes, DieOfSignal
<1>28. CASE ReapedElsewhere
  BY <1>28 DEF ReapedElsewhere, CollectChild
<1>29. CASE RecyclePid
  BY <1>29 DEF RecyclePid
<1>30. CASE ParentKilled
  BY <1>30 DEF ParentKilled
<1>31. CASE OtherThreadLocks
  BY <1>31 DEF OtherThreadLocks
<1>32. CASE Tick
  BY <1>32 DEF Tick
<1>33. CASE Finished
  BY <1>33 DEF Finished, vars
<1>34. CASE UNCHANGED vars
  BY <1>34 DEF vars
<1>35. QED
  BY <1>1, <1>2, <1>3, <1>4, <1>5, <1>6, <1>7, <1>8, <1>9, <1>10, <1>11, <1>12, <1>13, <1>14, <1>15, <1>16, <1>17, <1>18, <1>19, <1>20, <1>21, <1>22, <1>23, <1>24, <1>25, <1>26, <1>27, <1>28, <1>29, <1>30, <1>31, <1>32, <1>33, <1>34 DEF Next, ParentStep, ChildStep, KernelStep

-----------------------------------------------------------------------------
(* The inductive invariant: a lemma for each part, a step for each action. *)

LEMMA InitInv == Init => IInv
  BY InitTypeOK DEF Init, IInv, HostInv, PhaseInv, ChildInv, FdInv, DrainInv, OutcomeInv,
     CompletedIsWhole, NoResultLost, ChildLives, RunningPcs, DrainPcs, Ended,
     Encoded, NoneLen

LEMMA NextInv == IInv /\ [Next]_vars => IInv'
<1> SUFFICES ASSUME IInv, TypeOK', [Next]_vars PROVE IInv'
  BY NextTypeOK
<1> USE ForkBudgetAssumption DEF IInv, TypeOK, Dispositions, DrainPcs,
      ReapPcs, KillPcs, ParentPcs, RunningPcs, ChildPcs, Results, Exits,
      Failures, Outcomes, FdStates, ParentIdle, ChildIdle, CloseBoth,
      CloseEnd, parentVars, childVars, hostVars, HostInv, PhaseInv, ChildInv,
      FdInv, DrainInv, OutcomeInv, ForkingIsSound, ForkSoundFor,
      ChildrenAreWaitable, KillDeadline, Encoded, NoneLen, Ended, ChildLives,
      CompletedIsWhole, NoResultLost
<1>1. CASE Enter
  BY <1>1 DEF Enter
<1>2. CASE CreatePipe
  BY <1>2 DEF CreatePipe
<1>3. CASE Fork
  <2>1. HostInv'
    BY <1>3 DEF Fork
  <2>2. PhaseInv'
    BY <1>3 DEF Fork
  <2>3. ChildInv'
    <3>1. result' = "pending" /\ written' = 0 /\ exit' = "running" /\ child' = "closeRd"
      BY <1>3 DEF Fork
    <3>2. ~orphanExit'
      BY <1>3 DEF Fork
    <3>3. QED
      BY <3>1, <3>2
  <2>4. FdInv'
    BY <1>3 DEF Fork
  <2>5. DrainInv'
    BY <1>3 DEF Fork
  <2>6. OutcomeInv'
    BY <1>3 DEF Fork
  <2>7. QED
    BY <2>1, <2>2, <2>3, <2>4, <2>5, <2>6
<1>4. CASE ForkFails
  BY <1>4 DEF ForkFails
<1>5. CASE CloseWr
  BY <1>5 DEF CloseWr
<1>6. CASE CheckClock
  BY <1>6 DEF CheckClock
<1>7. CASE Poll
  BY <1>7 DEF Poll, Abandon
<1>8. CASE ReadSome
  BY <1>8 DEF ReadSome, InPipe
<1>9. CASE ReadEof
  BY <1>9 DEF ReadEof, InPipe, WriterLeft
<1>10. CASE ReadFails
  BY <1>10 DEF ReadFails, Abandon
<1>11. CASE CloseRead
  BY <1>11 DEF CloseRead
<1>12. CASE SendKill
  <2>1. HostInv'
    BY <1>12 DEF SendKill
  <2>2. PhaseInv'
    BY <1>12 DEF SendKill
  <2>3. ChildInv'
    BY <1>12 DEF SendKill
  <2>4. FdInv'
    BY <1>12 DEF SendKill
  <2>5. DrainInv'
    <3>1. CASE pid = "child"
      BY <1>12, <3>1 DEF SendKill
    <3>2. CASE pid # "child"
      <4>1. child = "gone"
        BY <1>12, <3>2 DEF SendKill
      <4>2. QED
        BY <1>12, <4>1 DEF SendKill
    <3>3. QED
      BY <3>1, <3>2
  <2>6. OutcomeInv'
    BY <1>12 DEF SendKill
  <2>7. QED
    BY <2>1, <2>2, <2>3, <2>4, <2>5, <2>6
<1>13. CASE ReapAndDecode
  BY <1>13 DEF ReapAndDecode, CollectChild, Waitable, Verdict, Decoded,
       StatusKnown
<1>14. CASE ReapKilled
  BY <1>14 DEF ReapKilled, CollectChild, Waitable
<1>15. CASE InlineReturns
  BY <1>15 DEF InlineReturns
<1>16. CASE ChildCloseRd
  BY <1>16 DEF ChildCloseRd
<1>17. CASE Prctl
  BY <1>17 DEF Prctl
<1>18. CASE CheckParent
  BY <1>18 DEF CheckParent
<1>19. CASE Closure
  BY <1>19 DEF Closure
<1>20. CASE Write
  BY <1>20 DEF Write, InPipe
<1>21. CASE WriteFails
  BY <1>21 DEF WriteFails
<1>22. CASE ChildCloseWr
  BY <1>22 DEF ChildCloseWr
<1>23. CASE ChildExit
  BY <1>23 DEF ChildExit
<1>24. CASE KillDelivered
  BY <1>24 DEF KillDelivered, DieOfSignal
<1>25. CASE ExitClosesFiles
  BY <1>25 DEF ExitClosesFiles
<1>26. CASE ExitNotifies
  BY <1>26 DEF ExitNotifies, KernelReapsChildren
<1>27. CASE ChildCrashes
  BY <1>27 DEF ChildCrashes, DieOfSignal
<1>28. CASE ReapedElsewhere
  BY <1>28 DEF ReapedElsewhere, CollectChild
<1>29. CASE RecyclePid
  BY <1>29 DEF RecyclePid
<1>30. CASE ParentKilled
  BY <1>30 DEF ParentKilled
<1>31. CASE OtherThreadLocks
  BY <1>31 DEF OtherThreadLocks
<1>32. CASE Tick
  BY <1>32 DEF Tick
<1>33. CASE Finished
  BY <1>33 DEF Finished, vars
<1>34. CASE UNCHANGED vars
  BY <1>34 DEF vars
<1>35. QED
  BY <1>1, <1>2, <1>3, <1>4, <1>5, <1>6, <1>7, <1>8, <1>9, <1>10, <1>11,
     <1>12, <1>13, <1>14, <1>15, <1>16, <1>17, <1>18, <1>19, <1>20, <1>21,
     <1>22, <1>23, <1>24, <1>25, <1>26, <1>27, <1>28, <1>29, <1>30, <1>31,
     <1>32, <1>33, <1>34 DEF Next, ParentStep, ChildStep, KernelStep

\* The inductive invariant holds in every reachable state.
THEOREM Invariance == Spec => []IInv
  BY InitInv, NextInv, PTL DEF Spec

-----------------------------------------------------------------------------
(* The theorems. *)

\* Every variable keeps its type, for every payload length and pipe capacity.
THEOREM TypeCorrect == Spec => []TypeOK
<1>1. IInv => TypeOK
  BY DEF IInv
<1>2. QED
  BY <1>1, Invariance, PTL

\* No SIGKILL is ever sent to a pid that is not the child's, unless the host
\* reaps every child itself.
THEOREM KillIsSafe == Spec => []KillNamesOwnChild
<1>1. IInv => KillNamesOwnChild
  BY DEF IInv, TypeOK, PhaseInv, KillNamesOwnChild, KillPcs
<1>2. QED
  BY <1>1, Invariance, PTL

\* However a call ends, each descriptor of the pipe has been closed exactly once
\* in the caller's process, no child is left, running or zombie, and none was stuck.
THEOREM CleanReturns == Spec => []CleanReturn
<1>1. IInv => DescriptorsClosedOnce
  BY DEF IInv, TypeOK, FdInv, DescriptorsClosedOnce, DrainPcs
<1>2. IInv => NoChildLeft
  BY DEF IInv, PhaseInv, NoChildLeft
<1>3. IInv => ChildInheritsNoLock
  BY DEF IInv, HostInv, ChildInheritsNoLock
<1>4. IInv => CleanReturn
  BY <1>1, <1>2, <1>3 DEF CleanReturn
<1>5. QED
  BY <1>4, Invariance, PTL

\* What a forked call reports as completed is the whole result of the closure,
\* and a delivered result is lost only to the deadline or a broken pipe.
THEOREM ResultsAreFaithful == Spec => []ResultIsFaithful
<1>1. IInv => ResultIsFaithful
  BY DEF IInv, OutcomeInv, ResultIsFaithful
<1>2. QED
  BY <1>1, Invariance, PTL

\* The untimed waitpid is only reached when the child is about to end.
THEOREM ReapingIsBounded == Spec => []WaitIsBounded
<1>1. IInv => WaitIsBounded
  BY DEF IInv, TypeOK, PhaseInv, DrainInv, FdInv, WaitIsBounded, ReapPcs, Ended,
     ChildLives, RunningPcs, ChildPcs
<1>2. QED
  BY <1>1, Invariance, PTL

\* A forked child never inherits a lock that nobody in it can release.
THEOREM NoInheritedLock == Spec => []ChildInheritsNoLock
<1>1. IInv => ChildInheritsNoLock
  BY DEF IInv, HostInv, ChildInheritsNoLock
<1>2. QED
  BY <1>1, Invariance, PTL

-----------------------------------------------------------------------------
(* The harness implements the contract of BudgetedCall. *)

LEMMA StepRefines == IInv /\ [Next]_vars => [Contract!Next]_(Contract!callVars)
<1> SUFFICES ASSUME IInv, [Next]_vars
             PROVE  Contract!Next \/ UNCHANGED Contract!callVars
  OBVIOUS
<1> USE DEF Contract!callVars, IInv, HostInv, PhaseInv
<1>1. CASE Tick
  BY <1>1 DEF Tick, Contract!Next, Contract!Tick, parentVars, childVars
<1>2. CASE Closure
  <2>1. parent \notin {"done"} /\ result = "pending" /\ outcome \notin {"some", "none"}
    BY <1>2 DEF Closure, ChildInv, OutcomeInv
  <2>2. Contract!Compute
    BY <1>2, <2>1 DEF Closure, ChildIdle, parentVars, Contract!Compute
  <2>3. QED
    BY <2>2 DEF Contract!Next
<1>3. CASE InlineReturns
  <2>1. outcome = "pending" /\ result = "pending" /\ child = "unborn"
    BY <1>3 DEF InlineReturns, OutcomeInv
  <2>2. Contract!CompleteInline
    BY <1>3, <2>1 DEF InlineReturns, ParentIdle, childVars, Contract!CompleteInline
  <2>3. QED
    BY <2>2 DEF Contract!Next
<1>4. CASE ReapAndDecode
  <2>1. outcome = "pending"
    BY <1>4 DEF ReapAndDecode, OutcomeInv
  <2>2. /\ now' = now /\ result' = result /\ parent = "reap" /\ parent' = "done"
        /\ outcome' = Verdict
    BY <1>4 DEF ReapAndDecode, CollectChild
  <2>3. CASE Verdict \in Failures
    <3>1. Contract!Fail
      BY <2>1, <2>2, <2>3 DEF Contract!Fail, Failures
    <3>2. QED
      BY <3>1 DEF Contract!Next
  <2>4. CASE Verdict \notin Failures
    <3>1. Verdict = result /\ result \in {"some", "none"}
      BY <1>4, <2>4 DEF ReapAndDecode, Verdict, Decoded, StatusKnown, Failures, TypeOK,
         Exits, Ended, ChildInv, DrainInv, Encoded, NoneLen, ForkBudgetAssumption
    <3>2. Contract!Complete
      BY <2>1, <2>2, <3>1 DEF Contract!Complete
    <3>3. QED
      BY <3>2 DEF Contract!Next
  <2>5. QED
    BY <2>3, <2>4
<1>5. CASE CloseRead
  <2>1. CASE parent = "killClose"
    <3>1. Contract!Expire
      BY <1>5, <2>1 DEF CloseRead, ParentIdle, childVars, OutcomeInv, Contract!Expire
    <3>2. QED
      BY <3>1 DEF Contract!Next
  <2>2. CASE parent # "killClose"
    BY <1>5, <2>2 DEF CloseRead, ParentIdle, childVars
  <2>3. QED
    BY <2>1, <2>2
<1>6. CASE ReapKilled
  <2>1. CASE parent = "abandonReap"
    <3>1. Contract!Fail
      BY <1>6, <2>1 DEF ReapKilled, CollectChild, OutcomeInv, Contract!Fail, Failures
    <3>2. QED
      BY <3>1 DEF Contract!Next
  <2>2. CASE parent # "abandonReap"
    BY <1>6, <2>2 DEF ReapKilled, CollectChild
  <2>3. QED
    BY <2>1, <2>2
<1>7. CASE Poll \/ ReadFails
  BY <1>7 DEF Poll, ReadFails, Abandon, ParentIdle, childVars, OutcomeInv, DrainPcs
<1>8. CASE \/ Enter \/ CreatePipe \/ Fork \/ ForkFails \/ CloseWr \/ CheckClock
           \/ ReadSome \/ ReadEof \/ SendKill
  BY <1>8 DEF Enter, CreatePipe, Fork, ForkFails, CloseWr, CheckClock, ReadSome,
     ReadEof, SendKill, ParentIdle, childVars
<1>9. CASE ChildStep
  BY <1>9 DEF ChildStep, ChildCloseRd, Prctl, CheckParent, Write, WriteFails,
     ChildCloseWr, ChildExit, ChildIdle, parentVars
<1>10. CASE KernelStep \/ ChildCrashes \/ ReapedElsewhere \/ RecyclePid
  BY <1>10 DEF KernelStep, KillDelivered, ChildCrashes, DieOfSignal, ExitClosesFiles,
     ExitNotifies, ReapedElsewhere, CollectChild, RecyclePid, ChildIdle, parentVars,
     childVars
<1>11. CASE ParentKilled
  BY <1>11 DEF ParentKilled, childVars, OutcomeInv
<1>12. CASE OtherThreadLocks \/ Finished \/ UNCHANGED vars
  BY <1>12 DEF OtherThreadLocks, Finished, vars, parentVars, childVars
<1>13. QED
  BY <1>1, <1>2, <1>3, <1>4, <1>5, <1>6, <1>7, <1>8, <1>9, <1>10, <1>11, <1>12
     DEF Next, ParentStep

\* Every behaviour of the harness is one of the contract: at most one
\* computation, an answer that is its result, no kill before the deadline and
\* its grace, and no computation after the answer.
THEOREM Refinement == Spec => ImplementsBudgetedCall
<1>1. Init => Contract!Init
  BY DEF Init, Contract!Init
<1>2. QED
  BY <1>1, StepRefines, Invariance, PTL DEF Spec, Contract!Spec, ImplementsBudgetedCall
=============================================================================
