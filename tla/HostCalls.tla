------------------------------ MODULE HostCalls ------------------------------
(***************************************************************************)
(* A host program and the library (bindings/c, bindings/python,            *)
(* src/src/request.rs, src/src/bundle/export.rs): threads call prepare,    *)
(* which one lock lets in one at a time and which may panic inside; they   *)
(* ask what the library accepts and write results without that lock; and   *)
(* the files of a run go to a directory that other runs have written to.   *)
(*                                                                         *)
(* What a run computes is none of this module's business: a call that      *)
(* succeeds stands for one of Runs, picked when its result is first looked *)
(* at.  Pairings are builds a caller puts beside a formula by hand.  One   *)
(* directory has one writer at a time: that is its caller's duty.          *)
(***************************************************************************)
EXTENDS Bundle

CONSTANTS
  Threads,
  RunNamed,             \* names to what a run comes to
  Runs,                 \* names of the library's own runs
  Pairings,             \* names of runs put together by hand, some of them wrong
  MaxCalls,             \* calls made in all
  MaxWrites,            \* writes begun in all
  MaxFaults             \* failed operations and killed processes in all

\* A formula names the variables it declares, and the components of a run of the
\* library hold all its clauses between them (DetectComponents).
ASSUME HostAssumption ==
  /\ None \notin Threads \cup {"ok", "mismatch", "io", "panic", "killed"}
  /\ \A V \in SUBSET Vars : None # V
  /\ MaxCalls \in Nat /\ MaxWrites \in Nat /\ MaxFaults \in Nat
  /\ Runs \cup Pairings = DOMAIN RunNamed
  /\ \A n \in DOMAIN RunNamed :
       LET r == RunNamed[n]
       IN  IF r.tree = None THEN n \in Runs /\ r.comps = None
           ELSE /\ r.clauses \in Seq(SUBSET Lits) /\ r.show \in {None} \cup SUBSET Vars
                /\ r.comps \in {None} \cup Seq(Parts) /\ r.cands \in Seq(Nat) /\ r.dot \in BOOLEAN
                /\ Len(r.cands) = (IF r.comps = None THEN 1 ELSE Len(r.comps))
                /\ n \in Runs /\ r.comps # None =>
                     DOMAIN r.clauses \subseteq UNION {ToSet(r.comps[i].clauses) : i \in DOMAIN r.comps}

VARIABLES
  pc,                   \* thread: "out", "waiting", "inside", "held", "writing" or "asking"
  answer,               \* thread: None, or [did, code] of its last call
  lock,                 \* ONE_CALL: its holder, a call of prepare
  poisoned,             \* a panic went through the lock
  calls, faults,
  disk,                 \* path to [by, whole] of the file there
  dirs,                 \* the directories there
  writer                \* <<>>, or the last write begun

vars == <<pc, answer, lock, poisoned, calls, faults, disk, dirs, writer>>
callVars == <<answer, lock, poisoned, calls>>

-----------------------------------------------------------------------------
(***************************************************************************)
(* Calls.                                                                  *)
(***************************************************************************)

\* What the body of a call can come to, and the code the host is given.
Bodies == {"refused argument", "failed", "ran", "panicked"}
CodeOf == [b \in Bodies |-> CASE b = "refused argument" -> "argument"
                              [] b = "failed" -> "error"
                              [] b = "ran" -> "ok"
                              [] b = "panicked" -> "panic"]

Init ==
  /\ pc = [t \in Threads |-> "out"]
  /\ answer = [t \in Threads |-> None]
  /\ lock = None /\ poisoned = FALSE
  /\ calls = 0 /\ faults = 0
  /\ disk = <<>> /\ dirs = {}
  /\ writer = <<>>

Call(t) ==
  /\ pc[t] \in {"out", "held"} /\ calls < MaxCalls
  /\ pc' = [pc EXCEPT ![t] = "waiting"]
  /\ calls' = calls + 1
  /\ UNCHANGED <<answer, lock, poisoned, faults, disk, dirs, writer>>

\* Mutants: the lock is taken only where it matters, which is nowhere; a lock a
\* panic went through is an error.
BugNoGuard == TRUE
BugRefusePoisoned == lock = None /\ ~poisoned

\* ONE_CALL.lock().unwrap_or_else(PoisonError::into_inner).
Admitted == lock = None

Enter(t) ==
  /\ pc[t] = "waiting" /\ Admitted
  /\ lock' = t /\ pc' = [pc EXCEPT ![t] = "inside"]
  /\ UNCHANGED <<answer, poisoned, calls, faults, disk, dirs, writer>>

\* Mutant: the unwinding is caught outside the guard's scope, which leaks it.
BugKeepsLock(body) == IF body = "panicked" THEN lock ELSE None

\* The guard is dropped whichever way the body ends.
LockAfter(body) == None

\* The body of prepare ends; answer() turns a panic into a result.
Leave(t, body) ==
  /\ pc[t] = "inside"
  /\ lock' = LockAfter(body)
  /\ poisoned' = (poisoned \/ body = "panicked")
  /\ answer' = [answer EXCEPT ![t] = [did |-> body, code |-> CodeOf[body]]]
  /\ pc' = [pc EXCEPT ![t] = "held"]
  /\ UNCHANGED <<calls, faults, disk, dirs, writer>>

Drop(t) ==
  /\ pc[t] = "held"
  /\ pc' = [pc EXCEPT ![t] = "out"] /\ answer' = [answer EXCEPT ![t] = None]
  /\ UNCHANGED <<lock, poisoned, calls, faults, disk, dirs, writer>>

Back(t) == IF answer[t] = None THEN "out" ELSE "held"

\* vitri_capabilities_json, capabilities: in the library without the lock.
Ask(t) ==
  /\ pc[t] \in {"out", "held"}
  /\ pc' = [pc EXCEPT ![t] = "asking"]
  /\ UNCHANGED <<callVars, faults, disk, dirs, writer>>

Told(t) ==
  /\ pc[t] = "asking"
  /\ pc' = [pc EXCEPT ![t] = Back(t)]
  /\ UNCHANGED <<callVars, faults, disk, dirs, writer>>

-----------------------------------------------------------------------------
(***************************************************************************)
(* Writing.                                                                *)
(***************************************************************************)
Names == DOMAIN RunNamed
Built == {n \in Names : RunNamed[n].tree # None}

Accepted == {n \in Built : Belongs(RunNamed[n])}
Rendered == {n \in Runs : Renders(RunNamed[n])}
ManifestOf == [n \in Accepted |-> Manifest(RunNamed[n])]
Matching == {n \in Accepted : ManifestMatches(ManifestOf[n], Len(RunNamed[n].tree))}
Composing == {n \in Runs \cap Accepted : Composes(RunNamed[n])}

Idle == IF writer = <<>> THEN TRUE ELSE writer.result # None
Writes == IF writer = <<>> THEN 0 ELSE writer.id

Begin(t, run, entry) ==
  /\ Idle /\ Writes < MaxWrites
  /\ entry = "build" => run \in Built
  /\ writer' = [id |-> Writes + 1, by |-> t,
                run |-> run, entry |-> entry, plan |-> Ops(RunNamed[run], entry), done |-> 0, result |-> None, found |-> disk]
  /\ pc' = [pc EXCEPT ![t] = "writing"]
  /\ UNCHANGED <<callVars, faults, disk, dirs>>

\* A result is written by any of the ways there are, beside whatever call is
\* inside: Result.write takes no lock.  The files in memory exist because
\* to_files accepted the run.
WriteResult(t) ==
  /\ pc[t] = "held" /\ answer[t].code = "ok"
  /\ \E run \in Rendered, entry \in Entries : Begin(t, run, entry)

\* VtreeBuild::write_to_dir and VitriRun::write_to_dir on parts paired by hand.
WritePairing(t) ==
  /\ pc[t] = "out"
  /\ \E run \in Pairings, entry \in {"build", "run"} : Begin(t, run, entry)

Plan == writer.plan
NextOp == Plan[writer.done + 1]
Stepping(t) == pc[t] = "writing" /\ writer.done < Len(Plan)

Advance == writer' = [writer EXCEPT !.done = @ + 1] /\ UNCHANGED pc

End(t, result) ==
  /\ writer' = [writer EXCEPT !.result = result]
  /\ pc' = [pc EXCEPT ![t] = Back(t)]

Put(path, whole) ==
  disk' = [p \in DOMAIN disk \cup {path} |->
             IF p = path THEN [by |-> writer.id, whole |-> whole] ELSE disk[p]]

\* No file is created in a directory that is not there.
StepOk(t) ==
  /\ Stepping(t)
  /\ \/ /\ NextOp.op = "dir"
        /\ dirs' = dirs \cup {NextOp.at} /\ Advance /\ UNCHANGED disk
     \/ /\ NextOp.op = "file" /\ NextOp.at \in dirs
        /\ Put(NextOp.file, TRUE) /\ Advance /\ UNCHANGED dirs
     \/ /\ NextOp.op = "check" /\ writer.run \in Accepted
        /\ Advance /\ UNCHANGED <<disk, dirs>>
  /\ UNCHANGED <<callVars, faults>>

\* The build is another formula's.
StepRefused(t) ==
  /\ Stepping(t) /\ NextOp.op = "check" /\ writer.run \notin Accepted
  /\ End(t, "mismatch")
  /\ UNCHANGED <<callVars, faults, disk, dirs>>

\* The disk is full, the path is taken: nothing is created, or part of a file.
StepFails(t) ==
  /\ Stepping(t) /\ NextOp.op # "check" /\ faults < MaxFaults
  /\ faults' = faults + 1
  /\ End(t, "io")
  /\ UNCHANGED disk \/ (NextOp.op = "file" /\ NextOp.at \in dirs /\ Put(NextOp.file, FALSE))
  /\ UNCHANGED <<callVars, dirs>>

\* The assertion of VtreeBuild::write_to, after the last file.
Finish(t) ==
  /\ pc[t] = "writing" /\ writer.done = Len(Plan)
  /\ End(t, IF /\ writer.entry \in {"run", "build"} /\ writer.run \in Built
               /\ writer.run \notin Matching
            THEN "panic" ELSE "ok")
  /\ UNCHANGED <<callVars, faults, disk, dirs>>

\* The host dies: its threads and their lock go, the directory stays.
Die ==
  /\ faults < MaxFaults /\ faults' = faults + 1
  /\ \E t \in Threads : pc[t] \in {"inside", "writing"}
  /\ pc' = [t \in Threads |-> "out"]
  /\ answer' = [t \in Threads |-> None]
  /\ lock' = None /\ poisoned' = FALSE
  /\ writer' = IF Idle THEN writer ELSE [writer EXCEPT !.result = "killed"]
  /\ \/ UNCHANGED disk
     \/ \E t \in Threads : Stepping(t) /\ NextOp.op = "file" /\ NextOp.at \in dirs /\ Put(NextOp.file, FALSE)
  /\ UNCHANGED <<calls, dirs>>

\* The host has made its calls and writes nothing more.
Quiet ==
  /\ calls = MaxCalls /\ Idle /\ \A t \in Threads : pc[t] \in {"out", "held"}
  /\ UNCHANGED vars

Next ==
  \/ \E t \in Threads :
       \/ Call(t) \/ Enter(t) \/ Drop(t) \/ Ask(t) \/ Told(t)
       \/ \E body \in Bodies : Leave(t, body)
       \/ WriteResult(t) \/ WritePairing(t)
       \/ StepOk(t) \/ StepRefused(t) \/ StepFails(t) \/ Finish(t)
  \/ Die
  \/ Quiet

Spec == Init /\ [][Next]_vars

-----------------------------------------------------------------------------
(***************************************************************************)
(* Properties.                                                             *)
(***************************************************************************)

\* Of the threads in the library at most one is in prepare, a panic there is an
\* answer to that call alone, and no lock outlives its call: who waits does so
\* for a prepare that is inside.  Nothing is promised of what takes no lock:
\* results are written and the capabilities read while a prepare is inside,
\* though the Python binding's comment has the lock held for every call into
\* the library (ONE_CALL, answer).
PreparesAreApart ==
  /\ \A t, u \in Threads : pc[t] = "inside" /\ pc[u] = "inside" => t = u
  /\ lock # None => pc[lock] = "inside"
  /\ (\E t \in Threads : pc[t] = "waiting") => \E t \in Threads : pc[t] = "inside" \/ Admitted

Ended == writer # <<>> /\ writer.result # None
Written(f) == f \in DOMAIN disk /\ disk[f] = [by |-> writer.id, whole |-> TRUE]

NamedBy(entry) == {entry.cnf, entry.vtree} \cup ToSet(entry.candidates)

\* After a write that reports success the manifest in the directory is of this
\* run, names only whole files of this run (the CNF of an unsplit formula is the
\* bundle half's), numbers every variable of the vtree once, and for the
\* library's own runs the counts of its parts compose to the formula's: whatever
\* was in the directory before (write_components_to, check_build_belongs).
WrittenReadsBack ==
  Ended /\ writer.result \in {"ok", "panic"} /\ writer.entry # "bundle" /\ writer.run \in Built =>
    LET m == ManifestOf[writer.run]
        elsewhere == IF writer.entry = "build" THEN {<<"reduced.cnf">>} ELSE {}
    IN  /\ writer.result = "ok"
        /\ Written(<<"components.json">>) /\ Written(<<"vtree.vtree">>)
        /\ \A i \in DOMAIN m.entries : \A f \in NamedBy(m.entries[i]) \ elsewhere : Written(f)
        /\ writer.run \in Runs => writer.run \in Composing

\* A write that fails leaves what it wrote so far, whole, at most one torn file,
\* and every other file as it was; a build refused by its own writer leaves the
\* directory untouched (write_files, Sink::file, VtreeBuild::write_to).
FailureLeavesAPrefix ==
  Ended /\ writer.result # "ok" =>
    /\ \A k \in 1 .. writer.done : Plan[k].op = "file" => Written(Plan[k].file)
    /\ \A f \in DOMAIN disk :
         IF disk[f].by = writer.id
         THEN \/ \E k \in 1 .. writer.done : Plan[k].file = f
              \/ f = NextOp.file /\ ~disk[f].whole /\ writer.result # "mismatch"
         ELSE f \in DOMAIN writer.found /\ disk[f] = writer.found[f]
    /\ DOMAIN writer.found \subseteq DOMAIN disk
    /\ writer.entry = "build" /\ writer.result = "mismatch" => disk = writer.found

=============================================================================
