---------------------------- MODULE BudgetedCall ----------------------------
(***************************************************************************)
(* What run_forked_with_deadline promises its caller, whatever processes,  *)
(* pipes and signals it takes: the work is done at most once, an answer is *)
(* the work's own result, a kill happens only when the deadline and its    *)
(* grace have passed with no answer, and nothing computes after the        *)
(* answer.  The names of the outcomes are those of ForkOutcome.            *)
(***************************************************************************)
EXTENDS Integers

CONSTANTS
  KillDeadline,  \* the deadline with the grace folded in
  Failures       \* the reasons of ForkOutcome::Failed

VARIABLES
  now,    \* the clock
  work,   \* what the closure computed
  reply   \* what the caller was told

callVars == <<now, work, reply>>

Init == now = 0 /\ work = "pending" /\ reply = "pending"

Compute ==
  /\ work = "pending" /\ reply = "pending"
  /\ work' \in {"some", "none", "panic"}
  /\ UNCHANGED <<now, reply>>

Complete ==
  /\ reply = "pending" /\ work \in {"some", "none"}
  /\ reply' = work
  /\ UNCHANGED <<now, work>>

\* The inline fallback computes and answers in the caller's own process.
CompleteInline ==
  /\ reply = "pending" /\ work = "pending"
  /\ work' \in {"some", "none"} /\ reply' = work'
  /\ UNCHANGED now

Expire ==
  /\ reply = "pending" /\ now >= KillDeadline
  /\ reply' = "killed"
  /\ UNCHANGED <<now, work>>

Fail ==
  /\ reply = "pending"
  /\ reply' \in Failures
  /\ UNCHANGED <<now, work>>

Tick == now' = now + 1 /\ UNCHANGED <<work, reply>>

Next == Compute \/ Complete \/ CompleteInline \/ Expire \/ Fail \/ Tick

Spec == Init /\ [][Next]_callVars
=============================================================================
