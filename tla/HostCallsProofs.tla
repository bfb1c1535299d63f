-------------------------- MODULE HostCallsProofs --------------------------
(***************************************************************************)
(* What a write leaves in its directory, for every number of host threads, *)
(* calls, writes and failures and for every run: a write that fails leaves *)
(* a prefix of its files, one that succeeds a manifest that reads back,    *)
(* and whose counts compose.                                               *)
(***************************************************************************)
EXTENDS HostCalls, FoldProofs, TLAPS

Places == {"out", "waiting", "inside", "held", "writing", "asking"}

(* Who is inside holds the lock, and who holds it is inside. *)
LockInv ==
  /\ pc \in [Threads -> Places]
  /\ lock \in Threads \cup {None}
  /\ \A t \in Threads : pc[t] = "inside" <=> lock = t

\* A step that moves one thread between places outside the lock.
LEMMA OutsideKeeps ==
  ASSUME LockInv, NEW t \in Threads, pc[t] # "inside",
         NEW place \in Places \ {"inside"}, pc' = [pc EXCEPT ![t] = place], lock' = lock
  PROVE  LockInv'
BY DEF LockInv

\* A write that ends returns its thread to where it was.
LEMMA EndKeeps ==
  ASSUME LockInv, NEW t \in Threads, pc[t] = "writing", NEW result, End(t, result), lock' = lock
  PROVE  LockInv'
<1>. DEFINE place == Back(t)
<1>1. place \in Places \ {"inside"} /\ pc' = [pc EXCEPT ![t] = place]  BY DEF End, Back, Places
<1>. HIDE DEF place
<1>. QED  BY <1>1, OutsideKeeps

LEMMA LockInvInit == Init => LockInv
BY HostAssumption DEF Init, LockInv, Places

LEMMA LockInvHolds == Spec => []LockInv
<1>1. Init => LockInv  BY LockInvInit
<1>2. LockInv /\ [Next]_vars => LockInv'
  <2>. SUFFICES ASSUME LockInv, [Next]_vars PROVE LockInv'  OBVIOUS
  <2>1. ASSUME NEW t \in Threads, Call(t) \/ Drop(t) \/ Ask(t) \/ Told(t)
        PROVE  LockInv'
    <3>1. CASE Call(t)
      <4>1. pc[t] # "inside" /\ pc' = [pc EXCEPT ![t] = "waiting"] /\ lock' = lock
        BY <3>1 DEF Call
      <4>. QED  BY <4>1, OutsideKeeps DEF Places
    <3>2. CASE Drop(t)
      <4>1. pc[t] # "inside" /\ pc' = [pc EXCEPT ![t] = "out"] /\ lock' = lock
        BY <3>2 DEF Drop
      <4>. QED  BY <4>1, OutsideKeeps DEF Places
    <3>3. CASE Ask(t)
      <4>1. pc[t] # "inside" /\ pc' = [pc EXCEPT ![t] = "asking"] /\ lock' = lock
        BY <3>3 DEF Ask, callVars
      <4>. QED  BY <4>1, OutsideKeeps DEF Places
    <3>4. CASE Told(t)
      <4>. DEFINE place == Back(t)
      <4>1. pc[t] # "inside" /\ place \in Places \ {"inside"}
            /\ pc' = [pc EXCEPT ![t] = place] /\ lock' = lock
        BY <3>4 DEF Told, callVars, Back, Places
      <4>. HIDE DEF place
      <4>. QED  BY <4>1, OutsideKeeps
    <3>. QED  BY <2>1, <3>1, <3>2, <3>3, <3>4
  <2>2. ASSUME NEW t \in Threads, Enter(t)
        PROVE  LockInv'
    BY <2>2, HostAssumption DEF Enter, Admitted, LockInv, Places
  <2>3. ASSUME NEW t \in Threads, NEW body \in Bodies, Leave(t, body)
        PROVE  LockInv'
    BY <2>3, HostAssumption DEF Leave, LockAfter, LockInv, Places
  <2>4. ASSUME NEW t \in Threads, WriteResult(t) \/ WritePairing(t)
        PROVE  LockInv'
    <3>1. pc[t] # "inside" /\ pc' = [pc EXCEPT ![t] = "writing"] /\ lock' = lock
      BY <2>4 DEF WriteResult, WritePairing, Begin, callVars
    <3>. QED  BY <3>1, OutsideKeeps DEF Places
  <2>5. ASSUME NEW t \in Threads, StepOk(t)
        PROVE  LockInv'
    <3>1. UNCHANGED <<pc, lock>>  BY <2>5 DEF StepOk, Advance, callVars
    <3>. QED  BY <3>1 DEF LockInv
  <2>6. ASSUME NEW t \in Threads, StepRefused(t) \/ StepFails(t) \/ Finish(t)
        PROVE  LockInv'
    <3>1. pc[t] = "writing" /\ lock' = lock /\ \E result : End(t, result)
      BY <2>6 DEF StepRefused, StepFails, Finish, Stepping, callVars
    <3>. QED  BY <3>1, EndKeeps
  <2>7. CASE Die
    BY <2>7, HostAssumption DEF Die, LockInv, Places
  <2>8. CASE Quiet \/ UNCHANGED vars
    <3>1. UNCHANGED <<pc, lock>>  BY <2>8 DEF Quiet, vars
    <3>. QED  BY <3>1 DEF LockInv
  <2>. QED  BY <2>1, <2>2, <2>3, <2>4, <2>5, <2>6, <2>7, <2>8 DEF Next
<1>. QED  BY <1>1, <1>2, PTL DEF Spec

-----------------------------------------------------------------------------
(***************************************************************************)
(* Plans: what a write does, no file twice.                                *)
(***************************************************************************)
Words == {"dot", "reduced.cnf", "preprocess.json", "vtree.vtree", "components.json",
          "cnf", "vtree", "candidate"}
Paths == Seq(Words \cup Nat)
Dirs == {Root, "components", "candidates"}
Steps(kinds) == [op : kinds, at : Dirs, file : Paths]

IsFile(s, k) == k \in DOMAIN s /\ s[k].op = "file"

\* A sequence of operations that writes each of its files once, all in F.
Writing(s, kinds, F) ==
  /\ s \in Seq(Steps(kinds))
  /\ \A j, k \in DOMAIN s : IsFile(s, j) /\ IsFile(s, k) /\ s[j].file = s[k].file => j = k
  /\ \A k \in DOMAIN s : IsFile(s, k) => s[k].file \in F

LEMMA NoneWritten ==
  ASSUME NEW kinds, NEW F
  PROVE  Writing(<<>>, kinds, F)
BY DEF Writing, IsFile

LEMMA OneWritten ==
  ASSUME NEW kinds, NEW F, NEW o \in Steps(kinds), o.op = "file" => o.file \in F
  PROVE  Writing(<<o>>, kinds, F)
<1>. DEFINE s == <<o>>
<1>1. s \in Seq(Steps(kinds)) /\ DOMAIN s = {1} /\ s[1] = o  OBVIOUS
<1>. HIDE DEF s
<1>. QED  BY <1>1 DEF Writing, IsFile

LEMMA Wider ==
  ASSUME NEW kinds, NEW more, kinds \subseteq more, NEW F, NEW G, F \subseteq G,
         NEW s, Writing(s, kinds, F)
  PROVE  Writing(s, more, G)
<1>1. Steps(kinds) \subseteq Steps(more)  BY DEF Steps
<1>2. s \in Seq(Steps(more))  BY <1>1 DEF Writing
<1>. QED  BY <1>2 DEF Writing

LEMMA OneAfterTheOther ==
  ASSUME NEW kinds, NEW F, NEW G, F \cap G = {},
         NEW s, Writing(s, kinds, F), NEW t, Writing(t, kinds, G)
  PROVE  Writing(s \o t, kinds, F \cup G)
<1>. DEFINE S == Steps(kinds)
            st == s \o t
            m == Len(s)
            n == Len(t)
<1>1. s \in Seq(S) /\ t \in Seq(S)  BY DEF Writing
<1>. HIDE DEF S
<1>2. /\ st \in Seq(S) /\ m \in Nat /\ n \in Nat /\ DOMAIN st = 1 .. m + n
      /\ DOMAIN s = 1 .. m /\ DOMAIN t = 1 .. n
      /\ \A k \in 1 .. m + n : st[k] = IF k <= m THEN s[k] ELSE t[k - m]
  <2>1. Len(st) = m + n /\ st \in Seq(S)  BY <1>1, ConcatProperties
  <2>. QED  BY <1>1, <2>1, ConcatProperties
<1>. HIDE DEF st, m, n
<1>3. ASSUME NEW k \in 1 .. m + n
      PROVE  \/ k \in DOMAIN s /\ st[k] = s[k]
             \/ k - m \in DOMAIN t /\ st[k] = t[k - m]
  BY <1>2
<1>4. ASSUME NEW k \in DOMAIN st, IsFile(st, k) PROVE st[k].file \in F \cup G
  BY <1>2, <1>3, <1>4 DEF Writing, IsFile
<1>5. ASSUME NEW j \in DOMAIN st, NEW k \in DOMAIN st, IsFile(st, j), IsFile(st, k), st[j].file = st[k].file
      PROVE  j = k
  <2>1. CASE j \in DOMAIN s /\ st[j] = s[j] /\ k \in DOMAIN s /\ st[k] = s[k]
    BY <1>5, <2>1 DEF Writing, IsFile
  <2>2. CASE j - m \in DOMAIN t /\ st[j] = t[j - m] /\ k - m \in DOMAIN t /\ st[k] = t[k - m]
    <3>1. j - m = k - m  BY <1>5, <2>2 DEF Writing, IsFile
    <3>. QED  BY <1>2, <3>1
  <2>3. CASE j \in DOMAIN s /\ st[j] = s[j] /\ k - m \in DOMAIN t /\ st[k] = t[k - m]
    <3>1. st[j].file \in F /\ st[k].file \in G  BY <1>5, <2>3 DEF Writing, IsFile
    <3>. QED  BY <1>5, <3>1
  <2>4. CASE j - m \in DOMAIN t /\ st[j] = t[j - m] /\ k \in DOMAIN s /\ st[k] = s[k]
    <3>1. st[j].file \in G /\ st[k].file \in F  BY <1>5, <2>4 DEF Writing, IsFile
    <3>. QED  BY <1>5, <3>1
  <2>. QED  BY <1>2, <1>3, <2>1, <2>2, <2>3, <2>4
<1>. QED  BY <1>2, <1>4, <1>5 DEF Writing, S, st

\* A sequence of such sequences, the i-th of files in Fs[i].
Series(seqs, n, kinds, Fs) ==
  /\ DOMAIN seqs = 1 .. n /\ seqs = [i \in 1 .. n |-> seqs[i]]
  /\ \A i \in 1 .. n : Writing(seqs[i], kinds, Fs[i])
  /\ \A i, j \in 1 .. n : i # j => Fs[i] \cap Fs[j] = {}

Together(Fs, n) == UNION {Fs[i] : i \in 1 .. n}

LEMMA AllInTurn ==
  ASSUME NEW kinds, NEW n \in Nat, NEW seqs, NEW Fs, Series(seqs, n, kinds, Fs)
  PROVE  Writing(FlattenSeq(seqs), kinds, Together(Fs, n))
<1>. DEFINE S == Steps(kinds)
<1>. USE DEF Series
<1>1. seqs \in [1 .. n -> Seq(S)]  BY DEF Writing
<1>. HIDE DEF S
<1>2. PICK flat : Flattens(flat, S, n, seqs)  BY <1>1, FlattenRuns
<1>. DEFINE Good == {k \in 0 .. n : Writing(flat[k], kinds, Together(Fs, k))}
<1>3. 0 \in Good
  <2>1. flat[0] = <<>>  BY <1>2 DEF Flattens
  <2>2. Writing(flat[0], kinds, Together(Fs, 0))  BY <2>1, NoneWritten
  <2>. QED  BY <2>2
<1>4. ASSUME NEW k \in 0 .. n - 1, k \in Good PROVE k + 1 \in Good
  <2>1. k + 1 \in 1 .. n /\ (k + 1) - 1 = k  OBVIOUS
  <2>2. flat[k + 1] = flat[k] \o seqs[k + 1]  BY <1>2, <2>1 DEF Flattens
  <2>3. Together(Fs, k) \cap Fs[k + 1] = {}
    <3>. SUFFICES ASSUME NEW i \in 1 .. k PROVE Fs[i] \cap Fs[k + 1] = {}
      BY DEF Together
    <3>1. i \in 1 .. n /\ i # k + 1  OBVIOUS
    <3>. QED  BY <2>1, <3>1
  <2>4. Together(Fs, k + 1) = Together(Fs, k) \cup Fs[k + 1]
    <3>1. 1 .. k + 1 = (1 .. k) \cup {k + 1}  OBVIOUS
    <3>. QED  BY <3>1 DEF Together
  <2>5. Writing(flat[k], kinds, Together(Fs, k)) /\ Writing(seqs[k + 1], kinds, Fs[k + 1])  BY <1>4, <2>1
  <2>6. Writing(flat[k + 1], kinds, Together(Fs, k + 1))
    BY <2>2, <2>3, <2>4, <2>5, OneAfterTheOther
  <2>. QED  BY <2>1, <2>6
<1>. HIDE DEF Good
<1>5. n \in Good  BY <1>3, <1>4, BoundedInduction
<1>. QED  BY <1>2, <1>5 DEF Good, Flattens

-----------------------------------------------------------------------------
(***************************************************************************)
(* The files: a picture bears the name of its vtree behind a word of its   *)
(* own.                                                                    *)
(***************************************************************************)
Plain == {f \in Paths : f # <<>> /\ f[1] # "dot"}
Pictured(F) == F \cup {<<"dot">> \o f : f \in F}

Tagged(tag) == {f \in Plain : f[1] = tag}
TaggedAt(tag, i) == {f \in Plain : f[1] = tag /\ f[2] = i}

LEMMA PictureNames ==
  ASSUME NEW f \in Paths
  PROVE  /\ <<"dot">> \o f \in Paths /\ (<<"dot">> \o f)[1] = "dot"
         /\ Len(<<"dot">> \o f) = Len(f) + 1
         /\ \A k \in 1 .. Len(f) : (<<"dot">> \o f)[k + 1] = f[k]
<1>. DEFINE S == Words \cup Nat
            d == <<"dot">>
<1>1. d \in Seq(S) /\ Len(d) = 1 /\ d[1] = "dot" /\ f \in Seq(S) /\ Len(f) \in Nat
  <2>1. "dot" \in S  BY DEF Words
  <2>2. f \in Seq(S)  BY DEF Paths
  <2>. HIDE DEF S
  <2>. QED  BY <2>1, <2>2
<1>. HIDE DEF S, d
<1>2. /\ d \o f \in Seq(S) /\ Len(d \o f) = Len(d) + Len(f)
      /\ \A k \in 1 .. Len(d) + Len(f) : (d \o f)[k] = IF k <= Len(d) THEN d[k] ELSE f[k - Len(d)]
  BY <1>1, ConcatProperties
<1>3. (d \o f)[1] = "dot"  BY <1>1, <1>2
<1>4. ASSUME NEW k \in 1 .. Len(f) PROVE (d \o f)[k + 1] = f[k]
  <2>1. k + 1 \in 1 .. Len(d) + Len(f) /\ ~(k + 1 <= Len(d)) /\ (k + 1) - Len(d) = k  BY <1>1
  <2>. QED  BY <1>2, <2>1
<1>. QED  BY <1>1, <1>2, <1>3, <1>4 DEF Paths, S, d

LEMMA PicturesApart ==
  ASSUME NEW f \in Paths, NEW g \in Paths, <<"dot">> \o f = <<"dot">> \o g
  PROVE  f = g
<1>1. Len(f) = Len(g) /\ \A k \in 1 .. Len(f) : f[k] = g[k]
  <2>1. Len(f) + 1 = Len(g) + 1 /\ Len(f) \in Nat /\ Len(g) \in Nat  BY PictureNames DEF Paths
  <2>2. Len(f) = Len(g)  BY <2>1
  <2>3. \A k \in 1 .. Len(f) : f[k] = g[k]  BY <2>2, PictureNames
  <2>. QED  BY <2>2, <2>3
<1>. QED  BY <1>1, SeqEqual DEF Paths

LEMMA PicturedApart ==
  ASSUME NEW F \in SUBSET Plain, NEW G \in SUBSET Plain, F \cap G = {}
  PROVE  Pictured(F) \cap Pictured(G) = {}
<1>. SUFFICES ASSUME NEW x \in Pictured(F), x \in Pictured(G) PROVE FALSE  OBVIOUS
<1>1. CASE x \in F /\ x \in G  BY <1>1
<1>2. ASSUME NEW f \in F, x = <<"dot">> \o f, x \in G PROVE FALSE
  BY <1>2, PictureNames DEF Plain
<1>3. ASSUME NEW g \in G, x = <<"dot">> \o g, x \in F PROVE FALSE
  BY <1>3, PictureNames DEF Plain
<1>4. ASSUME NEW f \in F, NEW g \in G, x = <<"dot">> \o f, x = <<"dot">> \o g PROVE FALSE
  <2>1. f = g  BY <1>4, PicturesApart DEF Plain
  <2>. QED  BY <2>1
<1>. QED  BY <1>1, <1>2, <1>3, <1>4 DEF Pictured

Creating == {"dir", "file"}

LEMMA FileSteps ==
  ASSUME NEW d \in Dirs, NEW f \in Paths
  PROVE  Write(d, f) \in Steps(Creating) /\ Write(d, f).op = "file" /\ Write(d, f).file = f
BY DEF Write, Steps, Creating

LEMMA DirWritesNothing ==
  ASSUME NEW d \in Dirs
  PROVE  Writing(<<MakeDir(d)>>, Creating, {})
<1>1. MakeDir(d) \in Steps(Creating) /\ MakeDir(d).op # "file"  BY DEF MakeDir, Steps, Creating, Paths
<1>. QED  BY <1>1, OneWritten

LEMMA VtreeFilesWrite ==
  ASSUME NEW run, NEW d \in Dirs, NEW f \in Plain
  PROVE  Writing(VtreeFiles(run, d, f), Creating, Pictured({f}))
<1>. DEFINE dot == <<"dot">> \o f
<1>1. f \in Paths /\ dot \in Paths /\ dot # f  BY PictureNames DEF Plain
<1>2. Pictured({f}) = {f} \cup {dot}  BY DEF Pictured
<1>. HIDE DEF dot
<1>3. Writing(<<Write(d, f)>>, Creating, {f}) /\ Writing(<<Write(d, dot)>>, Creating, {dot})
  BY <1>1, FileSteps, OneWritten
<1>4. Writing(IF run.dot THEN <<Write(d, dot)>> ELSE <<>>, Creating, {dot})  BY <1>3, NoneWritten
<1>5. {f} \cap {dot} = {}  BY <1>1
<1>. DEFINE pic == IF run.dot THEN <<Write(d, dot)>> ELSE <<>>
            file == <<Write(d, f)>>
<1>6. VtreeFiles(run, d, f) = file \o pic  BY DEF VtreeFiles, dot
<1>7. Writing(file, Creating, {f}) /\ Writing(pic, Creating, {dot})  BY <1>3, <1>4
<1>. DEFINE F == {f}
            G == {dot}
<1>. HIDE DEF pic, file
<1>8. F \cap G = {} /\ Writing(file, Creating, F) /\ Writing(pic, Creating, G) /\ Pictured({f}) = F \cup G
  BY <1>2, <1>5, <1>7
<1>. HIDE DEF F, G
<1>9. Writing(file \o pic, Creating, F \cup G)  BY <1>8, OneAfterTheOther
<1>. QED  BY <1>6, <1>8, <1>9

\* The runners-up of one component, or of the whole formula.
LEMMA CandidatesWrite ==
  ASSUME NEW run, NEW i \in Nat, run.cands[i] \in Nat
  PROVE  Writing(CandidateOps(run, i), Creating, Pictured(TaggedAt("candidate", i)))
<1>. DEFINE n == run.cands[i] - 1
            file(k) == <<"candidate", i, k>>
            seqs == [k \in 1 .. n |-> VtreeFiles(run, "candidates", file(k))]
            Fs == [k \in 1 .. n |-> Pictured({file(k)})]
            All == Pictured(TaggedAt("candidate", i))
<1>1. CASE run.cands[i] <= 1
  <2>1. CandidateOps(run, i) = <<>>  BY <1>1 DEF CandidateOps
  <2>. QED  BY <2>1, NoneWritten
<1>2. CASE ~(run.cands[i] <= 1)
  <2>1. n \in Nat  BY <1>2
  <2>2. CandidateOps(run, i) = <<MakeDir("candidates")>> \o FlattenSeq(seqs)
    <3>1. \A k \in 1 .. n : CandidateFile(run, i, k) = file(k)  BY <2>1 DEF CandidateFile
    <3>2. [k \in 1 .. n |-> VtreeFiles(run, "candidates", CandidateFile(run, i, k))] = seqs
      BY <3>1
    <3>. QED  BY <1>2, <3>2 DEF CandidateOps
  <2>3. "candidates" \in Dirs  BY DEF Dirs
  <2>4. \A k \in 1 .. n : file(k) \in TaggedAt("candidate", i) /\ file(k)[3] = k
    BY DEF TaggedAt, Plain, Paths, Words
  <2>5. \A k \in 1 .. n : {file(k)} \in SUBSET Plain  BY <2>4 DEF TaggedAt
  <2>. HIDE DEF n, file
  <2>6. \A k \in 1 .. n : Writing(seqs[k], Creating, Fs[k])
    BY <2>3, <2>5, VtreeFilesWrite
  <2>7. ASSUME NEW j \in 1 .. n, NEW k \in 1 .. n, j # k PROVE Fs[j] \cap Fs[k] = {}
    <3>1. {file(j)} \cap {file(k)} = {}  BY <2>4, <2>7
    <3>. QED  BY <2>5, <3>1, PicturedApart
  <2>8. Together(Fs, n) \subseteq All
    <3>. SUFFICES ASSUME NEW k \in 1 .. n PROVE Pictured({file(k)}) \subseteq All  BY DEF Together
    <3>. QED  BY <2>4 DEF Pictured
  <2>9. Series(seqs, n, Creating, Fs)  BY <2>6, <2>7 DEF Series
  <2>. HIDE DEF seqs, Fs, All
  <2>10. Writing(FlattenSeq(seqs), Creating, Together(Fs, n))  BY <2>1, <2>9, AllInTurn
  <2>11. Writing(FlattenSeq(seqs), Creating, All)  BY <2>8, <2>10, Wider
  <2>12. Writing(<<MakeDir("candidates")>>, Creating, {})  BY <2>3, DirWritesNothing
  <2>. DEFINE dir == <<MakeDir("candidates")>>
  <2>13. Writing(dir, Creating, {}) /\ CandidateOps(run, i) = dir \o FlattenSeq(seqs)  BY <2>2, <2>12
  <2>. HIDE DEF dir
  <2>14. Writing(dir \o FlattenSeq(seqs), Creating, {} \cup All)  BY <2>11, <2>13, OneAfterTheOther
  <2>15. {} \cup All = All  OBVIOUS
  <2>. QED  BY <2>13, <2>14, <2>15 DEF All
<1>. QED  BY <1>1, <1>2

\* The files of the i-th component: f[2] is its number.
OfComponent(i) == {f \in Plain : f[1] \in {"cnf", "vtree", "candidate"} /\ f[2] = i}

LEMMA ComponentWrites ==
  ASSUME NEW run, NEW i \in Nat, run.cands[i] \in Nat, run.comps # None
  PROVE  Writing(ComponentOps(run, i), Creating, Pictured(OfComponent(i)))
<1>. DEFINE c == <<"cnf", i>>
            v == <<"vtree", i>>
            C == Pictured({c})
            V == Pictured({v})
            R == Pictured(TaggedAt("candidate", i))
            All == Pictured(OfComponent(i))
            cnf == <<Write("components", c)>>
            vtree == VtreeFiles(run, "components", v)
            cands == CandidateOps(run, i)
<1>1. c \in TaggedAt("cnf", i) /\ v \in TaggedAt("vtree", i) /\ "components" \in Dirs
  BY DEF TaggedAt, Plain, Paths, Words, Dirs
<1>2. {c} \in SUBSET Plain /\ {v} \in SUBSET Plain /\ c \in Paths  BY <1>1 DEF TaggedAt, Plain
<1>3. C \cup (V \cup R) \subseteq All
  BY <1>1 DEF TaggedAt, OfComponent, Pictured
<1>4. V \cap R = {} /\ C \cap (V \cup R) = {}
  <2>1. {v} \cap TaggedAt("candidate", i) = {} /\ {c} \cap {v} = {} /\ {c} \cap TaggedAt("candidate", i) = {}
    BY <1>1 DEF TaggedAt
  <2>2. TaggedAt("candidate", i) \in SUBSET Plain  BY DEF TaggedAt
  <2>3. V \cap R = {} /\ C \cap V = {} /\ C \cap R = {}  BY <1>2, <2>1, <2>2, PicturedApart
  <2>. QED  BY <2>3
<1>5. Writing(cnf, Creating, C)
  <2>1. c \in C  BY DEF Pictured
  <2>. HIDE DEF c, C
  <2>. QED  BY <1>1, <1>2, <2>1, FileSteps, OneWritten
<1>6. Writing(vtree, Creating, V) /\ Writing(cands, Creating, R)
  BY <1>1, <1>2, VtreeFilesWrite, CandidatesWrite
<1>7. ComponentOps(run, i) = cnf \o (vtree \o cands)
  <2>1. ComponentOps(run, i) = (cnf \o vtree) \o cands  BY DEF ComponentOps, CnfOf, VtreeOf
  <2>2. cnf \in Seq(Steps(Creating)) /\ vtree \in Seq(Steps(Creating)) /\ cands \in Seq(Steps(Creating))
    BY <1>5, <1>6 DEF Writing
  <2>. HIDE DEF cnf, vtree, cands
  <2>3. (cnf \o vtree) \o cands = cnf \o (vtree \o cands)  BY SMTT(20), <2>2, ConcatAssociative
  <2>. QED  BY <2>1, <2>3
<1>. HIDE DEF C, V, R, All, cnf, vtree, cands
<1>8. Writing(vtree \o cands, Creating, V \cup R)  BY <1>4, <1>6, OneAfterTheOther
<1>9. Writing(cnf \o (vtree \o cands), Creating, C \cup (V \cup R))  BY <1>4, <1>5, <1>8, OneAfterTheOther
<1>10. Writing(cnf \o (vtree \o cands), Creating, All)  BY <1>3, <1>9, Wider
<1>. QED  BY <1>7, <1>10 DEF All

\* The files whose names begin with one of the words, and their pictures.
Under(words) == Pictured({f \in Plain : f[1] \in words})

LEMMA WordsInTurn ==
  ASSUME NEW kinds, NEW A, NEW B, A \cap B = {}, NEW s, NEW t,
         Writing(s, kinds, Under(A)), Writing(t, kinds, Under(B))
  PROVE  Writing(s \o t, kinds, Under(A \cup B))
<1>. DEFINE F == {f \in Plain : f[1] \in A}
            G == {f \in Plain : f[1] \in B}
<1>1. F \in SUBSET Plain /\ G \in SUBSET Plain /\ F \cap G = {}  OBVIOUS
<1>2. Under(A) = Pictured(F) /\ Under(B) = Pictured(G)  BY DEF Under
<1>3. Under(A) \cup Under(B) \subseteq Under(A \cup B)  BY DEF Under, Pictured
<1>. HIDE DEF F, G
<1>4. Under(A) \cap Under(B) = {}  BY <1>1, <1>2, PicturedApart
<1>5. Writing(s \o t, kinds, Under(A) \cup Under(B))  BY <1>4, OneAfterTheOther
<1>. QED  BY <1>3, <1>5, Wider

LEMMA TwoInTurn ==
  ASSUME NEW o, NEW p
  PROVE  <<o, p>> = <<o>> \o <<p>>
<1>. DEFINE S == {o, p}
            s == <<o>>
            t == <<p>>
            both == <<o, p>>
<1>1. /\ s \in Seq(S) /\ Len(s) = 1 /\ s[1] = o /\ t \in Seq(S) /\ Len(t) = 1 /\ t[1] = p
      /\ both \in Seq(S) /\ Len(both) = 2 /\ both[1] = o /\ both[2] = p
  OBVIOUS
<1>. HIDE DEF S, s, t, both
<1>2. /\ s \o t \in Seq(S) /\ Len(s \o t) = 2
      /\ \A k \in 1 .. 2 : (s \o t)[k] = IF k <= 1 THEN s[k] ELSE t[k - 1]
  BY <1>1, ConcatProperties
<1>3. \A k \in 1 .. 2 : (s \o t)[k] = both[k]
  <2>1. (s \o t)[1] = both[1] /\ (s \o t)[2] = both[2]  BY <1>1, <1>2
  <2>2. \A k \in 1 .. 2 : k = 1 \/ k = 2  OBVIOUS
  <2>. QED  BY <2>1, <2>2
<1>4. s \o t = both  BY <1>1, <1>2, <1>3, SeqEqual
<1>. QED  BY <1>4 DEF s, t, both

\* A file at the root.
LEMMA RootFile ==
  ASSUME NEW word \in Words \ {"dot"}, NEW A, word \in A
  PROVE  /\ Root \in Dirs /\ <<word>> \in Plain /\ {<<word>>} \subseteq Under(A)
         /\ Writing(<<Write(Root, <<word>>)>>, Creating, Under(A))
         /\ Writing(<<MakeDir(Root)>>, Creating, {})
<1>. DEFINE f == <<word>>
<1>1. Root \in Dirs  BY DEF Dirs
<1>2. f \in Plain /\ f[1] = word  BY DEF Plain, Paths
<1>3. f \in Under(A)  BY <1>2 DEF Under, Pictured
<1>. HIDE DEF f
<1>4. f \in Paths  BY <1>2 DEF Plain
<1>5. Writing(<<Write(Root, f)>>, Creating, Under(A))  BY <1>1, <1>3, <1>4, FileSteps, OneWritten
<1>. QED  BY <1>1, <1>2, <1>3, <1>5, DirWritesNothing DEF f

LEMMA NothingFirst ==
  ASSUME NEW kinds, NEW s, NEW t, NEW F, Writing(s, kinds, {}), Writing(t, kinds, F)
  PROVE  Writing(s \o t, kinds, F)
<1>1. {} \cap F = {} /\ {} \cup F = F  OBVIOUS
<1>2. Writing(s \o t, kinds, {} \cup F)  BY <1>1, OneAfterTheOther
<1>. QED  BY <1>1, <1>2

WellFormed(run) ==
  /\ run.comps \in {None} \cup Seq(Parts) /\ run.cands \in Seq(Nat)
  /\ Len(run.cands) = (IF run.comps = None THEN 1 ELSE Len(run.comps))

SplitWords == {"cnf", "vtree", "candidate"}

LEMMA SplitWrites ==
  ASSUME NEW run, WellFormed(run)
  PROVE  Writing(SplitOps(run), Creating, Under(SplitWords \cup {"components.json"}))
<1>. DEFINE n == Len(run.comps)
            seqs == [i \in DOMAIN run.comps |-> ComponentOps(run, i)]
            Fs == [i \in 1 .. n |-> Pictured(OfComponent(i))]
            dir == <<MakeDir("components")>>
            first == IF run.comps = None THEN CandidateOps(run, 1) ELSE dir \o FlattenSeq(seqs)
<1>1. SplitOps(run) = first \o ManifestOps  BY DEF SplitOps
<1>2. Writing(ManifestOps, Creating, Under({"components.json"}))
  <2>. DEFINE o == <<MakeDir(Root)>>
              w == <<Write(Root, <<"components.json">>)>>
  <2>1. "components.json" \in Words \ {"dot"}  BY DEF Words
  <2>2. Writing(o, Creating, {}) /\ Writing(w, Creating, Under({"components.json"}))
    BY <2>1, RootFile
  <2>3. ManifestOps = o \o w  BY TwoInTurn DEF ManifestOps
  <2>. HIDE DEF o, w
  <2>. QED  BY <2>2, <2>3, NothingFirst
<1>3. Writing(first, Creating, Under(SplitWords))
  <2>1. CASE run.comps = None
    <3>1. run.cands[1] \in Nat  BY <2>1 DEF WellFormed
    <3>2. Writing(CandidateOps(run, 1), Creating, Pictured(TaggedAt("candidate", 1)))
      BY <3>1, CandidatesWrite
    <3>3. Pictured(TaggedAt("candidate", 1)) \subseteq Under(SplitWords)
      BY DEF Under, Pictured, TaggedAt, SplitWords
    <3>4. Writing(CandidateOps(run, 1), Creating, Under(SplitWords))  BY <3>2, <3>3, Wider
    <3>. QED  BY <2>1, <3>4
  <2>2. CASE run.comps # None
    <3>1. /\ run.comps \in Seq(Parts) /\ run.cands \in Seq(Nat) /\ Len(run.cands) = n
      BY <2>2 DEF WellFormed
    <3>2. n \in Nat /\ DOMAIN run.comps = 1 .. n /\ \A i \in 1 .. n : run.cands[i] \in Nat
      <4>1. n \in Nat /\ DOMAIN run.comps = 1 .. n  BY <3>1
      <4>. HIDE DEF n
      <4>. QED  BY <3>1, <4>1
    <3>3. seqs = [i \in 1 .. n |-> ComponentOps(run, i)]  BY <3>2
    <3>. HIDE DEF n
    <3>4. \A i \in 1 .. n : Writing(seqs[i], Creating, Fs[i])
      BY <2>2, <3>2, <3>3, ComponentWrites
    <3>5. ASSUME NEW i \in 1 .. n, NEW j \in 1 .. n, i # j PROVE Fs[i] \cap Fs[j] = {}
      <4>1. OfComponent(i) \cap OfComponent(j) = {}  BY <3>5 DEF OfComponent
      <4>2. OfComponent(i) \in SUBSET Plain /\ OfComponent(j) \in SUBSET Plain  BY DEF OfComponent
      <4>. QED  BY <4>1, <4>2, PicturedApart
    <3>6. Together(Fs, n) \subseteq Under(SplitWords)
      <4>. SUFFICES ASSUME NEW i \in 1 .. n PROVE Pictured(OfComponent(i)) \subseteq Under(SplitWords)
        BY DEF Together
      <4>. QED  BY DEF Under, Pictured, OfComponent, SplitWords
    <3>7. DOMAIN seqs = 1 .. n /\ seqs = [i \in 1 .. n |-> seqs[i]]  BY <3>3
    <3>8. Series(seqs, n, Creating, Fs)  BY <3>4, <3>5, <3>7 DEF Series
    <3>9. Writing(dir, Creating, {})
      <4>1. "components" \in Dirs  BY DEF Dirs
      <4>. QED  BY <4>1, DirWritesNothing
    <3>. HIDE DEF seqs, Fs, dir
    <3>10. Writing(FlattenSeq(seqs), Creating, Together(Fs, n))  BY <3>2, <3>8, AllInTurn
    <3>11. Writing(FlattenSeq(seqs), Creating, Under(SplitWords))  BY <3>6, <3>10, Wider
    <3>12. Writing(dir \o FlattenSeq(seqs), Creating, Under(SplitWords))
      BY <3>9, <3>11, NothingFirst
    <3>. QED  BY <2>2, <3>12
  <2>. QED  BY <2>1, <2>2
<1>. HIDE DEF first
<1>4. SplitWords \cap {"components.json"} = {}  BY DEF SplitWords
<1>. QED  BY <1>1, <1>2, <1>3, <1>4, WordsInTurn

Kinds == Creating \cup {"check"}
VtreeWords == {"vtree.vtree"} \cup (SplitWords \cup {"components.json"})
BundleWords == {"reduced.cnf", "preprocess.json"}

LEMMA BuildWrites ==
  ASSUME NEW run, WellFormed(run)
  PROVE  /\ Writing(BuildOps(run), Kinds, Under(VtreeWords))
         /\ \A k \in DOMAIN BuildOps(run) : BuildOps(run)[k].op = "check" => k = 1
<1>. DEFINE check == <<Check>>
            dir == <<MakeDir(Root)>>
            f == <<"vtree.vtree">>
            v == VtreeFiles(run, Root, f)
            split == SplitOps(run)
            K == SplitWords \cup {"components.json"}
            rest == dir \o (v \o split)
            S == Steps(Kinds)
<1>1. "vtree.vtree" \in Words \ {"dot"}  BY DEF Words
<1>2. Root \in Dirs /\ f \in Plain /\ Writing(dir, Creating, {})  BY <1>1, RootFile
<1>3. Writing(v, Creating, Under({"vtree.vtree"}))
  <2>1. Writing(v, Creating, Pictured({f}))  BY <1>2, VtreeFilesWrite
  <2>2. Pictured({f}) \subseteq Under({"vtree.vtree"})
    <3>1. f[1] = "vtree.vtree"  OBVIOUS
    <3>. HIDE DEF f
    <3>. QED  BY <1>2, <3>1 DEF Pictured, Under
  <2>. HIDE DEF v
  <2>. QED  BY <2>1, <2>2, Wider
<1>4. Writing(split, Creating, Under(K))  BY SplitWrites
<1>5. {"vtree.vtree"} \cap K = {}  BY DEF SplitWords
<1>. HIDE DEF v, split, dir, K
<1>6. Writing(v \o split, Creating, Under({"vtree.vtree"} \cup K))  BY <1>3, <1>4, <1>5, WordsInTurn
<1>7. Writing(rest, Creating, Under(VtreeWords))
  BY <1>2, <1>6, NothingFirst DEF VtreeWords, K
<1>8. Writing(check, Kinds, {})
  <2>1. Check \in Steps(Kinds) /\ Check.op # "file"
    BY <1>2 DEF Check, Steps, Kinds, Creating, Paths
  <2>. QED  BY <2>1, OneWritten
<1>9. check \in Seq(S) /\ dir \in Seq(S) /\ v \in Seq(S) /\ split \in Seq(S) /\ rest \in Seq(S)
  <2>1. Creating \subseteq Kinds  BY DEF Kinds
  <2>2. \A s, F : Writing(s, Creating, F) => Writing(s, Kinds, F)  BY <2>1, Wider
  <2>3. \A s, F : Writing(s, Kinds, F) => s \in Seq(S)  BY DEF Writing
  <2>. HIDE DEF rest, check, S
  <2>. QED  BY <1>2, <1>3, <1>4, <1>7, <1>8, <2>2, <2>3
<1>10. BuildOps(run) = check \o rest
  <2>1. BuildOps(run) = ((check \o dir) \o v) \o split
    BY TwoInTurn DEF BuildOps, dir, v, split
  <2>. HIDE DEF check, S
  <2>2. (check \o dir) \o v = check \o (dir \o v)  BY <1>9, ConcatAssociative
  <2>3. dir \o v \in Seq(S)  BY <1>9, ConcatProperties
  <2>4. (check \o (dir \o v)) \o split = check \o ((dir \o v) \o split)
    <3>. DEFINE dv == dir \o v
    <3>1. dv \in Seq(S) /\ check \in Seq(S) /\ split \in Seq(S)  BY <1>9, <2>3
    <3>. HIDE DEF dv
    <3>2. (check \o dv) \o split = check \o (dv \o split)  BY <3>1, ConcatAssociative
    <3>. QED  BY <3>2 DEF dv
  <2>5. (dir \o v) \o split = dir \o (v \o split)  BY <1>9, ConcatAssociative
  <2>. QED  BY <2>1, <2>2, <2>4, <2>5
<1>11. Writing(rest, Kinds, Under(VtreeWords))  BY <1>7, Wider DEF Kinds
<1>12. \A k \in DOMAIN rest : rest[k].op # "check"
  <2>1. rest \in Seq(Steps(Creating))  BY <1>7 DEF Writing
  <2>. HIDE DEF rest
  <2>2. \A k \in DOMAIN rest : rest[k] \in Steps(Creating)  BY <2>1
  <2>. QED  BY <2>2 DEF Steps, Creating
<1>13. \A k \in DOMAIN (check \o rest) : (check \o rest)[k].op = "check" => k = 1
  <2>1. Len(check) = 1 /\ Len(rest) \in Nat /\ DOMAIN rest = 1 .. Len(rest)
    <3>1. Len(check) = 1  OBVIOUS
    <3>. HIDE DEF rest
    <3>. QED  BY <1>9, <3>1
  <2>. HIDE DEF check, rest, S
  <2>2. /\ check \o rest \in Seq(S) /\ Len(check \o rest) = 1 + Len(rest)
        /\ \A k \in 1 .. 1 + Len(rest) : (check \o rest)[k] = IF k <= 1 THEN check[k] ELSE rest[k - 1]
    <3>1. /\ check \o rest \in Seq(S) /\ Len(check \o rest) = Len(check) + Len(rest)
          /\ \A k \in 1 .. Len(check) + Len(rest) :
               (check \o rest)[k] = IF k <= Len(check) THEN check[k] ELSE rest[k - Len(check)]
      BY <1>9, ConcatProperties
    <3>. QED  BY <2>1, <3>1
  <2>3. DOMAIN (check \o rest) = 1 .. 1 + Len(rest)  BY <2>1, <2>2
  <2>4. ASSUME NEW k \in 1 .. 1 + Len(rest), k # 1 PROVE (check \o rest)[k].op # "check"
    <3>1. k - 1 \in DOMAIN rest /\ ~(k <= 1)  BY <2>1, <2>4
    <3>. QED  BY <1>12, <2>2, <3>1
  <2>. QED  BY <2>3, <2>4
<1>. HIDE DEF check, rest
<1>14. Writing(check \o rest, Kinds, Under(VtreeWords))  BY <1>8, <1>11, NothingFirst
<1>. QED  BY <1>10, <1>13, <1>14

LEMMA BundleWrites == Writing(BundleOps, Kinds, Under(BundleWords))
<1>. DEFINE o == <<MakeDir(Root)>>
            r == <<Write(Root, <<"reduced.cnf">>)>>
            p == <<Write(Root, <<"preprocess.json">>)>>
<1>1. "reduced.cnf" \in Words \ {"dot"} /\ "preprocess.json" \in Words \ {"dot"}  BY DEF Words
<1>2. /\ Writing(o, Creating, {}) /\ Writing(r, Creating, Under({"reduced.cnf"}))
      /\ Writing(p, Creating, Under({"preprocess.json"}))
  BY <1>1, RootFile
<1>3. BundleOps = o \o (r \o p)
  <2>1. r \o p = <<Write(Root, <<"reduced.cnf">>), Write(Root, <<"preprocess.json">>)>>  BY TwoInTurn
  <2>. QED  BY <2>1 DEF BundleOps
<1>. HIDE DEF o, r, p
<1>4. {"reduced.cnf"} \cap {"preprocess.json"} = {} /\ {"reduced.cnf"} \cup {"preprocess.json"} = BundleWords
  BY DEF BundleWords
<1>5. Writing(r \o p, Creating, Under(BundleWords))
  <2>1. Writing(r \o p, Creating, Under({"reduced.cnf"} \cup {"preprocess.json"}))
    BY <1>2, <1>4, WordsInTurn
  <2>. QED  BY <1>4, <2>1
<1>6. Writing(o \o (r \o p), Creating, Under(BundleWords))  BY <1>2, <1>5, NothingFirst
<1>. QED  BY <1>3, <1>6, Wider DEF Kinds

LEMMA RunWrites ==
  ASSUME NEW run, run.tree # None => WellFormed(run)
  PROVE  Writing(RunOps(run), Kinds, Paths)
<1>. DEFINE build == IF run.tree = None THEN <<>> ELSE BuildOps(run)
<1>1. RunOps(run) = BundleOps \o build  BY DEF RunOps
<1>2. Writing(build, Kinds, Under(VtreeWords))  BY BuildWrites, NoneWritten
<1>3. BundleWords \cap VtreeWords = {}  BY DEF BundleWords, VtreeWords, SplitWords
<1>. HIDE DEF build
<1>4. Writing(BundleOps \o build, Kinds, Under(BundleWords \cup VtreeWords))
  BY <1>2, <1>3, BundleWrites, WordsInTurn
<1>5. \A words : Under(words) \subseteq Paths  BY PictureNames DEF Under, Pictured, Plain
<1>. QED  BY <1>1, <1>4, <1>5, Wider

\* Operations put one by one, each with one that writes nothing before it or
\* with nothing, or left out.
LEMMA OneByOne ==
  ASSUME NEW ops, Writing(ops, Kinds, Paths), NEW seqs, DOMAIN seqs = DOMAIN ops,
         seqs = [k \in DOMAIN ops |-> seqs[k]],
         \A k \in DOMAIN ops : Writing(seqs[k], Kinds, IF ops[k].op = "file" THEN {ops[k].file} ELSE {})
  PROVE  Writing(FlattenSeq(seqs), Kinds, Paths)
<1>. DEFINE n == Len(ops)
            Fs == [k \in 1 .. n |-> IF ops[k].op = "file" THEN {ops[k].file} ELSE {}]
<1>1. ops \in Seq(Steps(Kinds)) /\ n \in Nat /\ DOMAIN ops = 1 .. n  BY DEF Writing
<1>. HIDE DEF n
<1>2. \A j, k \in 1 .. n : j # k => Fs[j] \cap Fs[k] = {}  BY <1>1 DEF Writing, IsFile
<1>3. Together(Fs, n) \subseteq Paths
  <2>1. \A k \in 1 .. n : ops[k].file \in Paths
    <3>1. \A k \in 1 .. n : ops[k] \in Steps(Kinds)  BY <1>1
    <3>. QED  BY <3>1 DEF Steps
  <2>. QED  BY <2>1 DEF Together
<1>4. Series(seqs, n, Kinds, Fs)  BY <1>1, <1>2 DEF Series
<1>. HIDE DEF Fs
<1>5. Writing(FlattenSeq(seqs), Kinds, Together(Fs, n))  BY <1>1, <1>4, AllInTurn
<1>. QED  BY <1>3, <1>5, Wider

LEMMA FilesWrites ==
  ASSUME NEW run, run.tree # None => WellFormed(run)
  PROVE  Writing(FilesOps(run), Kinds, Paths)
<1>. DEFINE ops == RunOps(run)
            files == Files(run)
            named(o) == IF o.op = "file" THEN {o.file} ELSE {}
            put == [k \in DOMAIN ops |-> IF ops[k].op = "file" THEN <<ops[k]>> ELSE <<>>]
            made == [k \in DOMAIN files |-> <<MakeDir(files[k].at), files[k]>>]
<1>1. \A o \in Steps(Kinds) : Writing(<<o>>, Kinds, named(o))  BY OneWritten
<1>2. Writing(ops, Kinds, Paths)  BY RunWrites
<1>3. files = FlattenSeq(put) /\ FilesOps(run) = FlattenSeq(made)  BY DEF Files, FilesOps
<1>4. \A s : Writing(s, Kinds, Paths) => \A k \in DOMAIN s : s[k] \in Steps(Kinds)  BY DEF Writing
<1>. HIDE DEF ops, files
<1>5. Writing(files, Kinds, Paths)
  <2>1. \A k \in DOMAIN ops : Writing(put[k], Kinds, named(ops[k]))
    BY <1>1, <1>2, <1>4, NoneWritten
  <2>2. DOMAIN put = DOMAIN ops /\ put = [k \in DOMAIN ops |-> put[k]]  OBVIOUS
  <2>. HIDE DEF put
  <2>. QED  BY <1>2, <1>3, <2>1, <2>2, OneByOne
<1>6. \A k \in DOMAIN files : Writing(made[k], Kinds, named(files[k]))
  <2>. SUFFICES ASSUME NEW k \in DOMAIN files PROVE Writing(made[k], Kinds, named(files[k]))  OBVIOUS
  <2>. DEFINE o == files[k]
              dir == <<MakeDir(o.at)>>
              file == <<o>>
              F == named(o)
  <2>1. o \in Steps(Kinds)  BY <1>4, <1>5
  <2>2. Writing(file, Kinds, F)  BY <1>1, <2>1
  <2>3. Writing(dir, Kinds, {})
    <3>1. o.at \in Dirs  BY <2>1 DEF Steps
    <3>. HIDE DEF o
    <3>2. Writing(dir, Creating, {})  BY <3>1, DirWritesNothing
    <3>. HIDE DEF dir
    <3>. QED  BY <3>2, Wider DEF Kinds
  <2>4. made[k] = dir \o file  BY TwoInTurn
  <2>. HIDE DEF dir, file, F, made
  <2>5. Writing(dir \o file, Kinds, F)  BY <2>2, <2>3, NothingFirst
  <2>. QED  BY <2>4, <2>5 DEF F
<1>7. DOMAIN made = DOMAIN files /\ made = [k \in DOMAIN files |-> made[k]]  OBVIOUS
<1>. HIDE DEF made
<1>. QED  BY <1>3, <1>5, <1>6, <1>7, OneByOne

\* A plan writes no file twice, and one of a build alone checks it first.
LEMMA PlansWriteOnce ==
  ASSUME NEW name \in Names, NEW entry \in Entries, entry = "build" => name \in Built
  PROVE  /\ Writing(Ops(RunNamed[name], entry), Kinds, Paths)
         /\ entry = "build" => \A k \in DOMAIN Ops(RunNamed[name], entry) :
                                 Ops(RunNamed[name], entry)[k].op = "check" => k = 1
<1>. DEFINE run == RunNamed[name]
<1>1. run.tree # None => WellFormed(run)  BY HostAssumption DEF Names, WellFormed
<1>2. \A words : Under(words) \subseteq Paths  BY PictureNames DEF Under, Pictured, Plain
<1>3. CASE entry = "run"  BY <1>1, <1>3, RunWrites DEF Ops
<1>4. CASE entry = "bundle"  BY <1>2, <1>4, BundleWrites, Wider DEF Ops
<1>5. CASE entry = "build"
  <2>1. run.tree # None  BY <1>5 DEF Built
  <2>. HIDE DEF run
  <2>2. Writing(BuildOps(run), Kinds, Paths)  BY <1>1, <1>2, <2>1, BuildWrites, Wider
  <2>3. Ops(run, entry) = BuildOps(run)  BY <1>5 DEF Ops
  <2>4. \A k \in DOMAIN BuildOps(run) : BuildOps(run)[k].op = "check" => k = 1
    BY <1>1, <2>1, BuildWrites
  <2>. QED  BY <2>2, <2>3, <2>4 DEF run
<1>6. CASE entry = "files"  BY <1>1, <1>6, FilesWrites DEF Ops
<1>. QED  BY <1>3, <1>4, <1>5, <1>6 DEF Entries

-----------------------------------------------------------------------------
(***************************************************************************)
(* Writing: one thread at a time, in the order of the plan.                *)
(***************************************************************************)
Results == {"ok", "mismatch", "io", "panic", "killed"}
Disks == UNION {[D -> [by : Nat, whole : BOOLEAN]] : D \in SUBSET Paths}
Writers ==
  [id : Nat \ {0}, by : Threads, run : Names, entry : Entries, plan : Seq(Steps(Kinds)),
   done : Nat, result : {None} \cup Results, found : Disks]

WriteTypes ==
  /\ disk \in Disks
  /\ writer = <<>> => DOMAIN disk = {}
  /\ writer # <<>> =>
       /\ writer \in Writers
       /\ Plan = Ops(RunNamed[writer.run], writer.entry) /\ (writer.entry = "build" => writer.run \in Built)
       /\ writer.done <= Len(Plan)

\* Who writes is the thread whose write it is.
WritersTurn == \A t \in Threads : pc[t] = "writing" <=> ~Idle /\ writer.by = t

\* What a write has done, torn file included, and what it has left alone.
WrittenSoFar ==
  writer # <<>> =>
    /\ \A k \in 1 .. writer.done : Plan[k].op = "file" => Written(Plan[k].file)
    /\ \A f \in DOMAIN disk :
         /\ disk[f].by <= writer.id
         /\ IF disk[f].by = writer.id
            THEN \/ \E k \in 1 .. writer.done : Plan[k].file = f
                 \/ f = NextOp.file /\ ~disk[f].whole /\ writer.result \in {"io", "killed"}
            ELSE f \in DOMAIN writer.found /\ disk[f] = writer.found[f]
    /\ DOMAIN writer.found \subseteq DOMAIN disk
    /\ writer.done = 0 /\ writer.result \in {None, "mismatch"} => disk = writer.found
    /\ writer.entry = "build" /\ writer.result = "mismatch" => writer.done = 0

WriteInv == LockInv /\ WriteTypes /\ WritersTurn /\ WrittenSoFar

\* A failed write has left what the property says.
LEMMA FailedWriteIsAPrefix == WriteInv => FailureLeavesAPrefix
BY DEF WriteInv, WriteTypes, WrittenSoFar, FailureLeavesAPrefix, Ended, Writers

LEMMA RunningWrite ==
  ASSUME WriteInv, ~Idle
  PROVE  /\ writer # <<>> /\ writer \in Writers /\ writer.result = None
         /\ Plan \in Seq(Steps(Kinds)) /\ Len(Plan) \in Nat /\ DOMAIN Plan = 1 .. Len(Plan)
         /\ writer.done \in Nat /\ writer.done <= Len(Plan)
         /\ \A j, k \in 1 .. Len(Plan) :
              Plan[j].op = "file" /\ Plan[k].op = "file" /\ Plan[j].file = Plan[k].file => j = k
         /\ \A k \in 1 .. Len(Plan) : Plan[k].file \in Paths
         /\ writer.entry = "build" => \A k \in 1 .. Len(Plan) : Plan[k].op = "check" => k = 1
<1>1. /\ writer # <<>> /\ writer \in Writers /\ writer.result = None /\ writer.done <= Len(Plan)
      /\ writer.run \in Names /\ writer.entry \in Entries /\ (writer.entry = "build" => writer.run \in Built)
      /\ Plan = Ops(RunNamed[writer.run], writer.entry)
  BY DEF WriteInv, WriteTypes, Idle, Writers
<1>2. Plan \in Seq(Steps(Kinds)) /\ writer.done \in Nat  BY <1>1 DEF Writers, Plan
<1>3. Len(Plan) \in Nat /\ DOMAIN Plan = 1 .. Len(Plan)  BY <1>2
<1>4. /\ Writing(Plan, Kinds, Paths)
      /\ writer.entry = "build" => \A k \in DOMAIN Plan : Plan[k].op = "check" => k = 1
  BY <1>1, PlansWriteOnce
<1>5. \A k \in 1 .. Len(Plan) : Plan[k].file \in Paths
  <2>1. \A k \in 1 .. Len(Plan) : Plan[k] \in Steps(Kinds)  BY <1>2, <1>3
  <2>. QED  BY <2>1 DEF Steps
<1>. QED  BY <1>1, <1>2, <1>3, <1>4, <1>5 DEF Writing, IsFile

LEMMA Puts ==
  ASSUME disk \in Disks, writer \in Writers, NEW path \in Paths, NEW whole \in BOOLEAN, Put(path, whole)
  PROVE  /\ disk' \in Disks /\ DOMAIN disk' = DOMAIN disk \cup {path}
         /\ disk'[path] = [by |-> writer.id, whole |-> whole]
         /\ \A f \in DOMAIN disk : f # path => disk'[f] = disk[f]
<1>. DEFINE D == DOMAIN disk
<1>1. D \in SUBSET Paths /\ disk \in [D -> [by : Nat, whole : BOOLEAN]]  BY DEF Disks
<1>2. [by |-> writer.id, whole |-> whole] \in [by : Nat, whole : BOOLEAN]  BY DEF Writers
<1>3. disk' = [p \in D \cup {path} |-> IF p = path THEN [by |-> writer.id, whole |-> whole] ELSE disk[p]]
  BY DEF Put
<1>. HIDE DEF D
<1>4. disk' \in [D \cup {path} -> [by : Nat, whole : BOOLEAN]]  BY <1>1, <1>2, <1>3
<1>5. D \cup {path} \in SUBSET Paths  BY <1>1
<1>6. disk' \in Disks  BY <1>4, <1>5 DEF Disks
<1>. QED  BY <1>3, <1>6 DEF D

\* A step of one thread between places where it does not write.
LEMMA NotWriting ==
  ASSUME WriteInv, LockInv', NEW t \in Threads, pc[t] # "writing", UNCHANGED <<disk, writer>>,
         NEW place, place # "writing", pc' = [pc EXCEPT ![t] = place]
  PROVE  WriteInv'
<1>1. WriteTypes'  BY DEF WriteInv, WriteTypes, Plan
<1>2. WritersTurn'
  <2>1. \A u \in Threads : pc'[u] = IF u = t THEN place ELSE pc[u]  BY DEF WriteInv, LockInv
  <2>. QED  BY <2>1 DEF WriteInv, WritersTurn, Idle
<1>3. WrittenSoFar'  BY DEF WriteInv, WrittenSoFar, Plan, NextOp, Written
<1>. QED  BY <1>1, <1>2, <1>3 DEF WriteInv

LEMMA Begins ==
  ASSUME WriteInv, LockInv', NEW t \in Threads, NEW run \in Names, NEW entry \in Entries,
         Begin(t, run, entry)
  PROVE  WriteInv'
<1>. DEFINE plan == Ops(RunNamed[run], entry)
            w == [id |-> Writes + 1, by |-> t, run |-> run, entry |-> entry, plan |-> plan,
                  done |-> 0, result |-> None, found |-> disk]
<1>1. /\ Idle /\ writer' = w /\ disk' = disk /\ (entry = "build" => run \in Built)
      /\ pc' = [pc EXCEPT ![t] = "writing"]
  BY DEF Begin
<1>2. /\ Writes \in Nat /\ disk \in Disks
      /\ \A f \in DOMAIN disk : disk[f].by \in Nat /\ disk[f].by <= Writes
  <2>1. disk \in Disks /\ \A f \in DOMAIN disk : disk[f].by \in Nat  BY DEF WriteInv, WriteTypes, Disks
  <2>2. CASE writer = <<>>  BY <2>1, <2>2 DEF WriteInv, WriteTypes, Writes
  <2>3. CASE writer # <<>>
    <3>1. writer.id \in Nat \ {0}  BY <2>3 DEF WriteInv, WriteTypes, Writers
    <3>. QED  BY <2>1, <2>3, <3>1 DEF WriteInv, WrittenSoFar, Writes
  <2>. QED  BY <2>2, <2>3
<1>3. plan \in Seq(Steps(Kinds))  BY <1>1, PlansWriteOnce DEF Writing
<1>. HIDE DEF plan
<1>4. /\ w # <<>> /\ w \in Writers /\ w.plan = plan /\ w.run = run /\ w.entry = entry /\ w.done = 0
      /\ w.id = Writes + 1 /\ w.by = t /\ w.result = None /\ w.found = disk
  <2>1. Writes + 1 \in Nat \ {0}  BY <1>2
  <2>. QED  BY <1>2, <1>3, <2>1 DEF Writers
<1>. HIDE DEF w
<1>5. WriteTypes'
  <2>1. Len(plan) \in Nat  BY <1>3
  <2>2. 0 <= Len(plan)  BY <2>1
  <2>. QED  BY <1>1, <1>2, <1>4, <2>2 DEF WriteTypes, Plan, plan
<1>6. WritersTurn'
  <2>1. \A u \in Threads : pc'[u] = IF u = t THEN "writing" ELSE pc[u]  BY <1>1 DEF WriteInv, LockInv
  <2>2. \A u \in Threads : pc[u] # "writing"  BY <1>1 DEF WriteInv, WritersTurn
  <2>3. ~Idle' /\ writer'.by = t  BY <1>1, <1>4 DEF Idle
  <2>. QED  BY <2>1, <2>2, <2>3 DEF WritersTurn
<1>7. WrittenSoFar'
  <2>1. \A k \in 1 .. w.done : FALSE  BY <1>4
  <2>2. \A f \in DOMAIN disk' : disk'[f].by <= w.id /\ disk'[f].by # w.id /\ f \in DOMAIN w.found /\ disk'[f] = w.found[f]
    BY <1>1, <1>2, <1>4
  <2>3. w.result # "mismatch"  BY <1>4, HostAssumption
  <2>. QED  BY <1>1, <1>4, <2>1, <2>2, <2>3 DEF WrittenSoFar
<1>. QED  BY <1>5, <1>6, <1>7 DEF WriteInv

LEMMA StepsOn ==
  ASSUME WriteInv, LockInv', NEW t \in Threads, StepOk(t)
  PROVE  WriteInv'
<1>. DEFINE d == writer.done
            o == NextOp
<1>1. ~Idle  BY DEF StepOk, Stepping, WriteInv, WritersTurn
<1>2. /\ writer # <<>> /\ writer \in Writers /\ writer.result = None /\ d \in Nat
      /\ Len(Plan) \in Nat /\ d < Len(Plan)
  BY <1>1, RunningWrite DEF StepOk, Stepping
<1>3. /\ \A j, k \in 1 .. Len(Plan) :
           Plan[j].op = "file" /\ Plan[k].op = "file" /\ Plan[j].file = Plan[k].file => j = k
      /\ o = Plan[d + 1] /\ d + 1 \in 1 .. Len(Plan) /\ o.file \in Paths
      /\ \A k \in 1 .. d : k \in 1 .. Len(Plan) /\ k # d + 1
      /\ 1 .. d + 1 = (1 .. d) \cup {d + 1}
  BY <1>1, <1>2, RunningWrite DEF NextOp
<1>4. writer' = [writer EXCEPT !.done = d + 1] /\ pc' = pc  BY DEF StepOk, Advance
<1>5. /\ writer' \in Writers /\ writer' # <<>> /\ writer'.done = d + 1 /\ writer'.plan = writer.plan
      /\ writer'.run = writer.run /\ writer'.entry = writer.entry /\ writer'.id = writer.id
      /\ writer'.by = writer.by /\ writer'.result = writer.result /\ writer'.found = writer.found
  <2>1. d + 1 \in Nat  BY <1>2
  <2>. HIDE DEF d
  <2>. QED  BY <1>2, <1>4, <2>1 DEF Writers
<1>6. \/ disk' = disk /\ o.op # "file"
      \/ o.op = "file" /\ Put(o.file, TRUE)
  BY DEF StepOk
<1>7. disk' \in Disks /\ DOMAIN disk \subseteq DOMAIN disk'
  BY <1>2, <1>3, <1>6, Puts DEF WriteInv, WriteTypes
<1>. HIDE DEF d, o
<1>8. WriteTypes'
  <2>1. d + 1 <= Len(Plan)  BY <1>2
  <2>. QED  BY <1>2, <1>5, <1>7, <2>1 DEF WriteInv, WriteTypes, Plan
<1>9. WritersTurn'  BY <1>2, <1>4, <1>5 DEF WriteInv, WritersTurn, Idle
<1>10. WrittenSoFar'
  <2>1. /\ \A k \in 1 .. d : Plan[k].op = "file" => Written(Plan[k].file)
        /\ \A f \in DOMAIN disk :
             /\ disk[f].by <= writer.id
             /\ IF disk[f].by = writer.id THEN \E k \in 1 .. d : Plan[k].file = f
                ELSE f \in DOMAIN writer.found /\ disk[f] = writer.found[f]
        /\ DOMAIN writer.found \subseteq DOMAIN disk
    BY <1>2, HostAssumption DEF WriteInv, WrittenSoFar, d
  <2>2. ASSUME NEW k \in 1 .. d + 1, Plan[k].op = "file" PROVE Written(Plan[k].file)'
    <3>1. CASE k \in 1 .. d
      <4>1. Plan[k].file \in DOMAIN disk /\ disk[Plan[k].file] = [by |-> writer.id, whole |-> TRUE]
        BY <2>1, <2>2, <3>1 DEF Written
      <4>2. o.op = "file" => Plan[k].file # o.file  BY <1>3, <2>2, <3>1
      <4>3. Plan[k].file \in DOMAIN disk' /\ disk'[Plan[k].file] = disk[Plan[k].file]
        BY <1>2, <1>3, <1>6, <4>1, <4>2, Puts DEF WriteInv, WriteTypes
      <4>. QED  BY <1>5, <4>1, <4>3 DEF Written, Plan
    <3>2. CASE k = d + 1
      <4>1. o.op = "file" /\ Put(o.file, TRUE)  BY <1>3, <1>6, <2>2, <3>2
      <4>2. o.file \in DOMAIN disk' /\ disk'[o.file] = [by |-> writer.id, whole |-> TRUE]
        BY <1>2, <1>3, <4>1, Puts DEF WriteInv, WriteTypes
      <4>. QED  BY <1>3, <1>5, <3>2, <4>2 DEF Written, Plan
    <3>. QED  BY <1>3, <3>1, <3>2
  <2>3. ASSUME NEW f \in DOMAIN disk'
        PROVE  /\ disk'[f].by <= writer.id
               /\ IF disk'[f].by = writer.id THEN \E k \in 1 .. d + 1 : Plan[k].file = f
                  ELSE f \in DOMAIN writer.found /\ disk'[f] = writer.found[f]
    <3>1. CASE f \in DOMAIN disk /\ disk'[f] = disk[f]  BY <1>3, <2>1, <3>1
    <3>2. CASE f = o.file /\ disk'[f] = [by |-> writer.id, whole |-> TRUE]
      <4>1. writer.id \in Nat  BY <1>2 DEF Writers
      <4>. QED  BY <1>3, <3>2, <4>1
    <3>. QED  BY ZenonT(40), <1>2, <1>3, <1>6, <3>1, <3>2, Puts DEF WriteInv, WriteTypes
  <2>4. d + 1 # 0 /\ writer.result # "mismatch"  BY <1>2, HostAssumption
  <2>. QED  BY <1>5, <1>7, <2>1, <2>2, <2>3, <2>4 DEF WrittenSoFar, Plan, NextOp
<1>. QED  BY <1>8, <1>9, <1>10 DEF WriteInv

\* A write that ends keeps what it wrote; the file it was at may be torn.
LEMMA WriteEnds ==
  ASSUME WriteInv, ~Idle, NEW result \in Results, writer' = [writer EXCEPT !.result = result],
         \/ disk' = disk
         \/ /\ result \in {"io", "killed"} /\ writer.done < Len(Plan)
            /\ NextOp.op = "file" /\ Put(NextOp.file, FALSE),
         writer.entry = "build" /\ result = "mismatch" => writer.done = 0
  PROVE  WriteTypes' /\ WrittenSoFar' /\ Idle'
<1>. DEFINE d == writer.done
            o == NextOp
            Torn == disk' # disk
<1>1. /\ writer # <<>> /\ writer \in Writers /\ writer.result = None /\ d \in Nat /\ Len(Plan) \in Nat
      /\ result # None
  BY RunningWrite, HostAssumption DEF Results
<1>2. /\ writer' \in Writers /\ writer' # <<>> /\ writer'.done = d /\ writer'.plan = writer.plan
      /\ writer'.run = writer.run /\ writer'.entry = writer.entry /\ writer'.id = writer.id
      /\ writer'.by = writer.by /\ writer'.result = result /\ writer'.found = writer.found
  <2>. HIDE DEF d
  <2>. QED  BY <1>1 DEF Writers, d
<1>3. Torn => /\ result \in {"io", "killed"} /\ o.op = "file" /\ Put(o.file, FALSE)
              /\ o = Plan[d + 1] /\ d + 1 \in 1 .. Len(Plan) /\ o.file \in Paths
              /\ \A k \in 1 .. d : Plan[k].op = "file" => Plan[k].file # o.file
  <2>. SUFFICES ASSUME Torn
                PROVE  /\ result \in {"io", "killed"} /\ o.op = "file" /\ Put(o.file, FALSE)
                       /\ o = Plan[d + 1] /\ d + 1 \in 1 .. Len(Plan) /\ o.file \in Paths
                       /\ \A k \in 1 .. d : Plan[k].op = "file" => Plan[k].file # o.file
    OBVIOUS
  <2>1. result \in {"io", "killed"} /\ d < Len(Plan) /\ o.op = "file" /\ Put(o.file, FALSE)  OBVIOUS
  <2>2. o = Plan[d + 1] /\ d + 1 \in 1 .. Len(Plan)  BY <1>1, <2>1 DEF NextOp
  <2>3. \A k \in 1 .. d : k \in 1 .. Len(Plan) /\ k # d + 1  BY <1>1, <2>1
  <2>. QED  BY <2>1, <2>2, <2>3, RunningWrite
<1>. HIDE DEF o
<1>4. disk' \in Disks /\ DOMAIN disk \subseteq DOMAIN disk'
  BY <1>1, <1>3, Puts DEF WriteInv, WriteTypes
<1>5. Torn => DOMAIN disk' = DOMAIN disk \cup {o.file} /\ disk'[o.file] = [by |-> writer.id, whole |-> FALSE]
              /\ \A f \in DOMAIN disk : f # o.file => disk'[f] = disk[f]
  BY <1>1, <1>3, Puts DEF WriteInv, WriteTypes
<1>. HIDE DEF d
<1>6. WriteTypes'  BY <1>1, <1>2, <1>4 DEF WriteInv, WriteTypes, Plan, d
<1>7. Idle'  BY <1>1, <1>2 DEF Idle
<1>8. WrittenSoFar'
  <2>1. /\ \A k \in 1 .. d : Plan[k].op = "file" => Written(Plan[k].file)
        /\ \A f \in DOMAIN disk :
             /\ disk[f].by <= writer.id
             /\ IF disk[f].by = writer.id THEN \E k \in 1 .. d : Plan[k].file = f
                ELSE f \in DOMAIN writer.found /\ disk[f] = writer.found[f]
        /\ DOMAIN writer.found \subseteq DOMAIN disk
        /\ d = 0 => disk = writer.found
    BY <1>1, HostAssumption DEF WriteInv, WrittenSoFar, d
  <2>2. ASSUME NEW k \in 1 .. d, Plan[k].op = "file" PROVE Written(Plan[k].file)'
    <3>1. Plan[k].file \in DOMAIN disk /\ disk[Plan[k].file] = [by |-> writer.id, whole |-> TRUE]
      BY <2>1, <2>2 DEF Written
    <3>2. Plan[k].file \in DOMAIN disk' /\ disk'[Plan[k].file] = disk[Plan[k].file]
      BY <1>3, <1>5, <2>2, <3>1
    <3>. QED  BY <1>2, <3>1, <3>2 DEF Written, Plan
  <2>3. ASSUME NEW f \in DOMAIN disk'
        PROVE  /\ disk'[f].by <= writer.id
               /\ IF disk'[f].by = writer.id
                  THEN \/ \E k \in 1 .. d : Plan[k].file = f
                       \/ f = o.file /\ ~disk'[f].whole /\ result \in {"io", "killed"}
                  ELSE f \in DOMAIN writer.found /\ disk'[f] = writer.found[f]
    <3>1. CASE f \in DOMAIN disk /\ disk'[f] = disk[f]  BY <2>1, <3>1
    <3>2. CASE Torn /\ f = o.file /\ disk'[f] = [by |-> writer.id, whole |-> FALSE]
      <4>1. writer.id \in Nat  BY <1>1 DEF Writers
      <4>. QED  BY <1>3, <3>2, <4>1
    <3>. QED  BY <1>5, <3>1, <3>2
  <2>4. d = 0 /\ result = "mismatch" => disk' = writer.found  BY <1>3, <2>1
  <2>5. writer.entry = "build" /\ result = "mismatch" => d = 0  BY DEF d
  <2>6. NextOp' = o  BY <1>2 DEF o, NextOp, Plan, d
  <2>. QED  BY <1>1, <1>2, <1>4, <2>1, <2>2, <2>3, <2>4, <2>5, <2>6 DEF WrittenSoFar, Plan
<1>. QED  BY <1>6, <1>7, <1>8

LEMMA EndsInTurn ==
  ASSUME WriteInv, LockInv', NEW t \in Threads, pc[t] = "writing", NEW result \in Results, End(t, result),
         \/ disk' = disk
         \/ /\ result \in {"io", "killed"} /\ writer.done < Len(Plan)
            /\ NextOp.op = "file" /\ Put(NextOp.file, FALSE),
         writer.entry = "build" /\ result = "mismatch" => writer.done = 0
  PROVE  WriteInv'
<1>1. ~Idle /\ \A u \in Threads : u # t => pc[u] # "writing"  BY DEF WriteInv, WritersTurn
<1>2. writer' = [writer EXCEPT !.result = result]  BY DEF End
<1>3. WriteTypes' /\ WrittenSoFar' /\ Idle'  BY <1>1, <1>2, WriteEnds
<1>. DEFINE place == Back(t)
<1>4. \A u \in Threads : pc'[u] = IF u = t THEN place ELSE pc[u]  BY DEF End, Back, WriteInv, LockInv
<1>5. WritersTurn'  BY <1>1, <1>3, <1>4 DEF WritersTurn, Back
<1>. QED  BY <1>3, <1>5 DEF WriteInv

LEMMA WriteInvHolds == Spec => []WriteInv
<1>1. Init => WriteInv
  <2>. SUFFICES ASSUME Init PROVE WriteInv  OBVIOUS
  <2>1. disk = <<>> /\ DOMAIN disk = {} /\ writer = <<>> /\ Idle  BY DEF Init, Idle
  <2>2. disk \in Disks
    <3>1. disk \in [{} -> [by : Nat, whole : BOOLEAN]]  BY <2>1
    <3>. QED  BY <3>1 DEF Disks
  <2>3. \A t \in Threads : pc[t] # "writing"  BY DEF Init
  <2>. QED  BY <2>1, <2>2, <2>3, LockInvInit DEF WriteInv, WriteTypes, WritersTurn, WrittenSoFar
<1>2. LockInv' /\ WriteInv /\ [Next]_vars => WriteInv'
  <2>. SUFFICES ASSUME LockInv', WriteInv, [Next]_vars PROVE WriteInv'  OBVIOUS
  <2>1. ASSUME NEW t \in Threads, \/ Call(t) \/ Enter(t) \/ Drop(t) \/ Ask(t) \/ Told(t)
                                 \/ \E body \in Bodies : Leave(t, body)
        PROVE  WriteInv'
    <3>1. /\ UNCHANGED <<disk, writer>> /\ pc[t] # "writing"
          /\ \E place \in {"waiting", "inside", "out", "held", "asking"} : pc' = [pc EXCEPT ![t] = place]
      BY <2>1 DEF Call, Enter, Drop, Leave, Ask, Told, Back, callVars
    <3>2. PICK place \in {"waiting", "inside", "out", "held", "asking"} : pc' = [pc EXCEPT ![t] = place]  BY <3>1
    <3>. QED  BY <3>1, <3>2, NotWriting
  <2>2. ASSUME NEW t \in Threads, WriteResult(t) \/ WritePairing(t)
        PROVE  WriteInv'
    <3>1. PICK run \in Names, entry \in Entries : Begin(t, run, entry)
      <4>1. Rendered \subseteq Names /\ Pairings \subseteq Names /\ {"build", "run"} \subseteq Entries
        BY HostAssumption DEF Rendered, Names, Entries
      <4>. QED  BY <2>2, <4>1 DEF WriteResult, WritePairing
    <3>. QED  BY <3>1, Begins
  <2>3. ASSUME NEW t \in Threads, StepOk(t) PROVE WriteInv'  BY <2>3, StepsOn
  <2>4. ASSUME NEW t \in Threads, StepRefused(t) PROVE WriteInv'
    <3>1. pc[t] = "writing" /\ End(t, "mismatch") /\ disk' = disk /\ NextOp.op = "check" /\ writer.done < Len(Plan)
      BY <2>4 DEF StepRefused, Stepping
    <3>2. writer.entry = "build" => writer.done = 0
      <4>1. ~Idle  BY <3>1 DEF WriteInv, WritersTurn
      <4>2. writer.done + 1 \in 1 .. Len(Plan) /\ writer.done \in Nat  BY <3>1, <4>1, RunningWrite
      <4>3. writer.entry = "build" => writer.done + 1 = 1  BY <3>1, <4>1, <4>2, RunningWrite DEF NextOp
      <4>. QED  BY <4>2, <4>3
    <3>3. "mismatch" \in Results  BY DEF Results
    <3>. QED  BY <3>1, <3>2, <3>3, EndsInTurn
  <2>5. ASSUME NEW t \in Threads, StepFails(t) PROVE WriteInv'
    <3>1. pc[t] = "writing" /\ End(t, "io") /\ writer.done < Len(Plan)
      BY <2>5 DEF StepFails, Stepping
    <3>2. disk' = disk \/ (NextOp.op = "file" /\ Put(NextOp.file, FALSE))  BY <2>5 DEF StepFails
    <3>3. "io" \in Results  BY DEF Results
    <3>. QED  BY <3>1, <3>2, <3>3, EndsInTurn
  <2>6. ASSUME NEW t \in Threads, Finish(t) PROVE WriteInv'
    <3>1. PICK result \in {"panic", "ok"} : End(t, result)  BY <2>6 DEF Finish
    <3>2. pc[t] = "writing" /\ disk' = disk  BY <2>6 DEF Finish
    <3>3. result \in Results  BY DEF Results
    <3>. QED  BY <3>1, <3>2, <3>3, EndsInTurn
  <2>7. CASE Die
    <3>1. \A t \in Threads : pc'[t] = "out"  BY <2>7 DEF Die
    <3>2. CASE Idle
      <4>1. disk' = disk /\ writer' = writer
        BY <2>7, <3>2 DEF Die, Stepping, WriteInv, WritersTurn
      <4>2. WriteTypes' /\ WrittenSoFar'
        BY <4>1 DEF WriteInv, WriteTypes, WrittenSoFar, Plan, NextOp, Written
      <4>3. WritersTurn'  BY <3>1, <3>2, <4>1 DEF WritersTurn, Idle
      <4>. QED  BY <4>2, <4>3 DEF WriteInv
    <3>3. CASE ~Idle
      <4>1. writer' = [writer EXCEPT !.result = "killed"]  BY <2>7, <3>3 DEF Die
      <4>2. disk' = disk \/ (writer.done < Len(Plan) /\ NextOp.op = "file" /\ Put(NextOp.file, FALSE))
        BY <2>7 DEF Die, Stepping
      <4>3. "killed" \in Results  BY DEF Results
      <4>4. WriteTypes' /\ WrittenSoFar' /\ Idle'  BY <3>3, <4>1, <4>2, <4>3, WriteEnds
      <4>. QED  BY <3>1, <4>4 DEF WriteInv, WritersTurn
    <3>. QED  BY <3>2, <3>3
  <2>8. CASE Quiet \/ UNCHANGED vars
    <3>1. UNCHANGED vars  BY <2>8 DEF Quiet
    <3>. QED  BY <3>1 DEF vars, WriteInv, WriteTypes, WritersTurn, WrittenSoFar, Idle, Plan, NextOp, Written
  <2>. QED  BY <2>1, <2>2, <2>3, <2>4, <2>5, <2>6, <2>7, <2>8 DEF Next
<1>. QED  BY <1>1, <1>2, LockInvHolds, PTL DEF Spec

\* FailureLeavesAPrefix (write_files, Sink::file, VtreeBuild::write_to): for every
\* run, way of writing, failure, kill and earlier content of the directory, a
\* write that fails leaves whole what it wrote before, at most one torn file, and
\* the rest as it was; a build its own writer refuses leaves the directory alone.
THEOREM FailureAlwaysLeavesAPrefix == Spec => []FailureLeavesAPrefix
BY WriteInvHolds, FailedWriteIsAPrefix, PTL

-----------------------------------------------------------------------------
(***************************************************************************)
(* What a plan holds: the check of a build, and every file the manifest    *)
(* names.                                                                  *)
(***************************************************************************)
Meets(s, O) == ToSet(s) \cap O # {}
Laying(f) == {o \in Steps(Kinds) : o.op = "file" /\ o.file = f}

LEMMA MeetsEither ==
  ASSUME NEW S, NEW s \in Seq(S), NEW t \in Seq(S), NEW O, Meets(s, O) \/ Meets(t, O)
  PROVE  Meets(s \o t, O)
<1>1. ToSet(s \o t) = ToSet(s) \cup ToSet(t)  BY ConcatHolds
<1>. QED  BY <1>1 DEF Meets

LEMMA MeetsAny ==
  ASSUME NEW S, NEW n \in Nat, NEW seqs \in [1 .. n -> Seq(S)], NEW O,
         NEW j \in 1 .. n, Meets(seqs[j], O)
  PROVE  Meets(FlattenSeq(seqs), O)
<1>1. PICK flat : Flattens(flat, S, n, seqs)  BY FlattenRuns
<1>. DEFINE Good == {k \in 0 .. n : j <= k => Meets(flat[k], O)}
<1>2. 0 \in Good  OBVIOUS
<1>3. ASSUME NEW k \in 0 .. n - 1, k \in Good PROVE k + 1 \in Good
  <2>1. k + 1 \in 1 .. n /\ k + 1 \in 0 .. n /\ k \in 0 .. n /\ (k + 1) - 1 = k  OBVIOUS
  <2>2. flat[k] \in Seq(S) /\ seqs[k + 1] \in Seq(S) /\ flat[k + 1] = flat[k] \o seqs[k + 1]
    BY <1>1, <2>1 DEF Flattens
  <2>3. ASSUME j <= k + 1 PROVE Meets(flat[k], O) \/ Meets(seqs[k + 1], O)
    <3>1. j <= k \/ j = k + 1  BY <2>3
    <3>. QED  BY <1>3, <3>1
  <2>4. ASSUME j <= k + 1 PROVE Meets(flat[k + 1], O)
    <3>1. Meets(flat[k] \o seqs[k + 1], O)  BY <2>2, <2>3, <2>4, MeetsEither
    <3>. QED  BY <2>2, <3>1
  <2>. QED  BY <2>1, <2>4
<1>. HIDE DEF Good
<1>4. n \in Good
  <2>1. 0 .. n \subseteq Good  BY <1>2, <1>3, BoundedInduction
  <2>. QED  BY <2>1
<1>5. j <= n => Meets(flat[n], O)  BY <1>4 DEF Good
<1>. QED  BY <1>1, <1>5 DEF Flattens

LEMMA FirstMeets ==
  ASSUME NEW S, NEW s \in Seq(S), NEW x \in S, NEW O, x \in O
  PROVE  Meets(<<x>>, O) /\ Meets(<<x>> \o s, O)
<1>. DEFINE one == <<x>>
<1>1. one \in Seq(S) /\ DOMAIN one = {1} /\ one[1] = x  OBVIOUS
<1>. HIDE DEF one
<1>2. Meets(one, O)  BY <1>1 DEF Meets, ToSet
<1>. QED  BY <1>1, <1>2, MeetsEither DEF one

\* The sequences that plans are made of.
LEMMA PlanParts ==
  /\ \A F, s : Writing(s, Kinds, F) => s \in Seq(Steps(Kinds))
  /\ \A F, s : Writing(s, Creating, F) => s \in Seq(Steps(Kinds))
<1>1. Creating \subseteq Kinds  BY DEF Kinds
<1>2. \A s, F : Writing(s, Creating, F) => Writing(s, Kinds, F)  BY <1>1, Wider
<1>. QED  BY <1>2 DEF Writing

LEMMA WriteLays ==
  ASSUME NEW d \in Dirs, NEW f \in Paths
  PROVE  Write(d, f) \in Steps(Kinds) /\ Write(d, f) \in Laying(f)
<1>1. Write(d, f) \in Steps(Creating) /\ Write(d, f).op = "file" /\ Write(d, f).file = f  BY FileSteps
<1>2. Write(d, f) \in Steps(Kinds)  BY <1>1 DEF Steps, Kinds
<1>. QED  BY <1>1, <1>2 DEF Laying

LEMMA VtreeIsLaid ==
  ASSUME NEW run, NEW d \in Dirs, NEW f \in Plain
  PROVE  VtreeFiles(run, d, f) \in Seq(Steps(Kinds)) /\ Meets(VtreeFiles(run, d, f), Laying(f))
<1>. DEFINE pic == IF run.dot THEN <<Write(d, <<"dot">> \o f)>> ELSE <<>>
            file == <<Write(d, f)>>
<1>1. VtreeFiles(run, d, f) \in Seq(Steps(Kinds))  BY VtreeFilesWrite, PlanParts
<1>2. f \in Paths /\ <<"dot">> \o f \in Paths  BY PictureNames DEF Plain
<1>3. Write(d, f) \in Steps(Kinds) /\ Write(d, f) \in Laying(f) /\ Write(d, <<"dot">> \o f) \in Steps(Kinds)
  BY <1>2, WriteLays
<1>4. pic \in Seq(Steps(Kinds))
  <2>. DEFINE S == Steps(Kinds)
              w == Write(d, <<"dot">> \o f)
  <2>1. w \in S  BY <1>3
  <2>. HIDE DEF S, w
  <2>2. <<w>> \in Seq(S) /\ <<>> \in Seq(S)  BY <2>1
  <2>. QED  BY <2>2 DEF w, S
<1>. HIDE DEF pic
<1>5. Meets(file \o pic, Laying(f))  BY <1>3, <1>4, FirstMeets
<1>. QED  BY <1>1, <1>5 DEF VtreeFiles, pic

\* The runners-up of the i-th part.
RunnersUp(run, i) == {CandidateFile(run, i, k) : k \in 1 .. run.cands[i] - 1}

LEMMA RunnersUpAreLaid ==
  ASSUME NEW run, NEW i \in Nat, run.cands[i] \in Nat, NEW f \in RunnersUp(run, i)
  PROVE  Meets(CandidateOps(run, i), Laying(f))
<1>. DEFINE n == run.cands[i] - 1
            seqs == [k \in 1 .. n |-> VtreeFiles(run, "candidates", CandidateFile(run, i, k))]
            dir == <<MakeDir("candidates")>>
<1>1. PICK j \in 1 .. n : f = CandidateFile(run, i, j)  BY DEF RunnersUp
<1>2. n \in Nat /\ ~(run.cands[i] <= 1)  BY <1>1
<1>3. CandidateOps(run, i) = dir \o FlattenSeq(seqs)  BY <1>2 DEF CandidateOps
<1>4. "candidates" \in Dirs  BY DEF Dirs
<1>5. \A k \in 1 .. n : CandidateFile(run, i, k) \in Plain
  <2>1. \A k \in 1 .. n : k \in Nat /\ k # 0  BY <1>2
  <2>2. \A k \in Nat : <<"candidate", i, k>> \in Plain  BY DEF Plain, Paths, Words
  <2>. QED  BY <2>1, <2>2 DEF CandidateFile
<1>6. seqs \in [1 .. n -> Seq(Steps(Kinds))]
  <2>1. \A k \in 1 .. n : VtreeFiles(run, "candidates", CandidateFile(run, i, k)) \in Seq(Steps(Kinds))
    BY <1>4, <1>5, VtreeIsLaid
  <2>. QED  BY <2>1
<1>7. Meets(seqs[j], Laying(f))  BY <1>1, <1>4, <1>5, VtreeIsLaid
<1>8. dir \in Seq(Steps(Kinds))  BY <1>4, DirWritesNothing, PlanParts
<1>. HIDE DEF seqs, n, dir
<1>9. Meets(FlattenSeq(seqs), Laying(f)) /\ FlattenSeq(seqs) \in Seq(Steps(Kinds))
  BY <1>2, <1>6, <1>7, MeetsAny, FlattenTyped
<1>. QED  BY <1>3, <1>8, <1>9, MeetsEither

LEMMA PartIsLaid ==
  ASSUME NEW run, NEW i \in Nat, run.cands[i] \in Nat, run.comps # None,
         NEW f \in RunnersUp(run, i) \cup {<<"cnf", i>>, <<"vtree", i>>}
  PROVE  Meets(ComponentOps(run, i), Laying(f)) /\ ComponentOps(run, i) \in Seq(Steps(Kinds))
<1>. DEFINE c == <<"cnf", i>>
            v == <<"vtree", i>>
            cnf == <<Write("components", c)>>
            vtree == VtreeFiles(run, "components", v)
            cands == CandidateOps(run, i)
            S == Steps(Kinds)
<1>1. c \in Plain /\ v \in Plain /\ "components" \in Dirs  BY DEF Plain, Paths, Words, Dirs
<1>2. c \in Paths  BY <1>1 DEF Plain
<1>3. ComponentOps(run, i) = (cnf \o vtree) \o cands  BY DEF ComponentOps, CnfOf, VtreeOf
<1>4. vtree \in Seq(S) /\ Meets(vtree, Laying(v))  BY <1>1, VtreeIsLaid
<1>5. cands \in Seq(S)  BY CandidatesWrite, PlanParts
<1>6. cnf \in Seq(S) /\ Meets(cnf, Laying(c))
  <2>. DEFINE w == Write("components", c)
  <2>1. w \in S /\ w \in Laying(c)  BY <1>1, <1>2, WriteLays
  <2>. HIDE DEF w, S, c
  <2>2. <<w>> \in Seq(S) /\ <<>> \in Seq(S)  BY <2>1
  <2>3. Meets(<<w>>, Laying(c))  BY <2>1, <2>2, FirstMeets
  <2>. QED  BY <2>2, <2>3 DEF w
<1>7. f \in RunnersUp(run, i) => Meets(cands, Laying(f))  BY RunnersUpAreLaid
<1>8. f = c \/ f = v \/ f \in RunnersUp(run, i)  OBVIOUS
<1>. HIDE DEF c, v, cnf, vtree, cands, S
<1>9. cnf \o vtree \in Seq(S) /\ (cnf \o vtree) \o cands \in Seq(S)
  BY <1>4, <1>5, <1>6, ConcatHolds
<1>10. Meets(cnf, Laying(f)) \/ Meets(vtree, Laying(f)) \/ Meets(cands, Laying(f))
  BY <1>4, <1>6, <1>7, <1>8
<1>11. Meets((cnf \o vtree) \o cands, Laying(f))
  BY <1>4, <1>5, <1>6, <1>9, <1>10, MeetsEither
<1>. QED  BY <1>3, <1>9, <1>11 DEF S


\* The files of the parts, and the manifest.
PartFiles(run, i) ==
  RunnersUp(run, i) \cup (IF run.comps = None THEN {} ELSE {<<"cnf", i>>, <<"vtree", i>>})
SplitFiles(run) == {<<"components.json">>} \cup UNION {PartFiles(run, i) : i \in DOMAIN Cuts(run)}

LEMMA TheCuts ==
  ASSUME NEW run, WellFormed(run)
  PROVE  /\ run.comps = None => DOMAIN Cuts(run) = {1} /\ Cuts(run)[1] = DOMAIN run.clauses
         /\ run.comps # None => /\ run.comps \in Seq(Parts) /\ DOMAIN run.comps = 1 .. Len(run.comps)
                                /\ Len(run.comps) \in Nat /\ DOMAIN Cuts(run) = DOMAIN run.comps
                                /\ \A i \in DOMAIN run.comps : Cuts(run)[i] = ToSet(run.comps[i].clauses)
         /\ \A i \in DOMAIN Cuts(run) : i \in Nat /\ run.cands[i] \in Nat
<1>1. CASE run.comps = None
  <2>1. Cuts(run) = <<DOMAIN run.clauses>>  BY <1>1 DEF Cuts
  <2>2. run.cands \in Seq(Nat) /\ Len(run.cands) = 1  BY <1>1 DEF WellFormed
  <2>3. run.cands[1] \in Nat  BY <2>2
  <2>. QED  BY <1>1, <2>1, <2>3
<1>2. CASE run.comps # None
  <2>1. run.comps \in Seq(Parts) /\ run.cands \in Seq(Nat) /\ Len(run.cands) = Len(run.comps)
    BY <1>2 DEF WellFormed
  <2>2. DOMAIN run.comps = 1 .. Len(run.comps) /\ Len(run.comps) \in Nat  BY <2>1
  <2>3. \A i \in DOMAIN run.comps : i \in Nat /\ run.cands[i] \in Nat  BY <2>1, <2>2
  <2>4. Cuts(run) = [i \in DOMAIN run.comps |-> ToSet(run.comps[i].clauses)]  BY <1>2 DEF Cuts
  <2>. QED  BY <1>2, <2>1, <2>2, <2>3, <2>4
<1>. QED  BY <1>1, <1>2

LEMMA SplitIsLaid ==
  ASSUME NEW run, WellFormed(run), NEW f \in SplitFiles(run)
  PROVE  Meets(SplitOps(run), Laying(f)) /\ SplitOps(run) \in Seq(Steps(Kinds))
<1>. DEFINE S == Steps(Kinds)
            n == Len(run.comps)
            seqs == [i \in DOMAIN run.comps |-> ComponentOps(run, i)]
            dir == <<MakeDir("components")>>
            first == IF run.comps = None THEN CandidateOps(run, 1) ELSE dir \o FlattenSeq(seqs)
            json == <<"components.json">>
<1>1. SplitOps(run) = first \o ManifestOps /\ SplitOps(run) \in Seq(S)
  BY SplitWrites, PlanParts DEF SplitOps
<1>2. ManifestOps \in Seq(S) /\ Meets(ManifestOps, Laying(json))
  <2>. DEFINE m == MakeDir(Root)
              w == Write(Root, json)
  <2>0. json \in Paths  BY DEF Paths, Words
  <2>1. m \in S /\ w \in S /\ w \in Laying(json)
    <3>1. Root \in Dirs  BY DEF Dirs
    <3>2. w \in S /\ w \in Laying(json)  BY <2>0, <3>1, WriteLays
    <3>3. m \in S  BY <3>1 DEF MakeDir, Steps, Kinds, Creating, Paths
    <3>. QED  BY <3>2, <3>3
  <2>2. ManifestOps = <<m>> \o <<w>>  BY TwoInTurn DEF ManifestOps
  <2>. HIDE DEF m, w, S, json
  <2>3. <<m>> \in Seq(S) /\ <<w>> \in Seq(S) /\ <<>> \in Seq(S)  BY <2>1
  <2>4. Meets(<<w>>, Laying(json))  BY <2>1, <2>3, FirstMeets
  <2>. DEFINE mm == <<m>>
              ww == <<w>>
  <2>5. mm \in Seq(S) /\ ww \in Seq(S) /\ Meets(ww, Laying(json)) /\ ManifestOps = mm \o ww
    BY <2>2, <2>3, <2>4
  <2>. HIDE DEF mm, ww
  <2>6. mm \o ww \in Seq(S) /\ Meets(mm \o ww, Laying(json))  BY <2>5, ConcatHolds, MeetsEither
  <2>. QED  BY <2>5, <2>6
<1>3. first \in Seq(S) /\ (f # json => Meets(first, Laying(f)))
  <2>1. CASE run.comps = None
    <3>1. first = CandidateOps(run, 1) /\ run.cands[1] \in Nat  BY <2>1, TheCuts
    <3>2. CandidateOps(run, 1) \in Seq(S)  BY <3>1, CandidatesWrite, PlanParts
    <3>3. f # json => f \in RunnersUp(run, 1)  BY <2>1, TheCuts DEF SplitFiles, PartFiles
    <3>4. f # json => Meets(CandidateOps(run, 1), Laying(f))  BY <3>1, <3>3, RunnersUpAreLaid
    <3>. QED  BY <3>1, <3>2, <3>4
  <2>2. CASE run.comps # None
    <3>1. /\ n \in Nat /\ DOMAIN run.comps = 1 .. n /\ DOMAIN Cuts(run) = 1 .. n
          /\ \A i \in 1 .. n : i \in Nat /\ run.cands[i] \in Nat
      BY <2>2, TheCuts
    <3>2. dir \in Seq(S)
      <4>1. "components" \in Dirs  BY DEF Dirs
      <4>. QED  BY <4>1, DirWritesNothing, PlanParts
    <3>3. \A i \in 1 .. n : ComponentOps(run, i) \in Seq(S)
      BY <2>2, <3>1, ComponentWrites, PlanParts
    <3>4. seqs = [i \in 1 .. n |-> ComponentOps(run, i)] /\ seqs \in [1 .. n -> Seq(S)]
      BY <3>1, <3>3
    <3>5. first = dir \o FlattenSeq(seqs)  BY <2>2
    <3>6. FlattenSeq(seqs) \in Seq(S)
      <4>. HIDE DEF seqs, S, n
      <4>. QED  BY <3>1, <3>4, FlattenTyped
    <3>7. ASSUME f # json PROVE Meets(FlattenSeq(seqs), Laying(f))
      <4>1. PICK i \in 1 .. n : f \in PartFiles(run, i)  BY <3>1, <3>7 DEF SplitFiles
      <4>2. f \in RunnersUp(run, i) \cup {<<"cnf", i>>, <<"vtree", i>>}  BY <2>2, <4>1 DEF PartFiles
      <4>3. Meets(seqs[i], Laying(f))  BY <2>2, <3>1, <3>4, <4>2, PartIsLaid
      <4>. HIDE DEF seqs, S, n
      <4>. QED  BY <3>1, <3>4, <4>3, MeetsAny
    <3>. HIDE DEF dir, seqs, first, S
    <3>8. dir \o FlattenSeq(seqs) \in Seq(S)  BY <3>2, <3>6, ConcatHolds
    <3>9. f # json => Meets(dir \o FlattenSeq(seqs), Laying(f))  BY <3>2, <3>6, <3>7, MeetsEither
    <3>. QED  BY <3>5, <3>8, <3>9
  <2>. QED  BY <2>1, <2>2
<1>. HIDE DEF first, S, json
<1>4. Meets(first \o ManifestOps, Laying(f))  BY <1>2, <1>3, MeetsEither
<1>. QED  BY <1>1, <1>4 DEF S

BuildFiles(run) == {<<"vtree.vtree">>} \cup SplitFiles(run)
Checks == {o \in Steps(Kinds) : o.op = "check"}

LEMMA BuildIsLaid ==
  ASSUME NEW run, WellFormed(run)
  PROVE  /\ BuildOps(run) \in Seq(Steps(Kinds)) /\ Meets(BuildOps(run), Checks)
         /\ \A f \in BuildFiles(run) : Meets(BuildOps(run), Laying(f))
<1>. DEFINE S == Steps(Kinds)
            m == MakeDir(Root)
            both == <<Check, m>>
            t == <<"vtree.vtree">>
            v == VtreeFiles(run, Root, t)
            split == SplitOps(run)
<1>1. BuildOps(run) = (both \o v) \o split  BY DEF BuildOps
<1>2. both \in Seq(S) /\ Meets(both, Checks)
  <2>1. Root \in Dirs  BY DEF Dirs
  <2>2. m \in S /\ Check \in S /\ Check \in Checks
    <3>1. m \in S  BY <2>1 DEF MakeDir, Steps, Kinds, Creating, Paths
    <3>2. Check \in S /\ Check.op = "check"  BY <2>1 DEF Check, Steps, Kinds, Paths
    <3>. QED  BY <3>1, <3>2 DEF Checks
  <2>3. both = <<Check>> \o <<m>>  BY TwoInTurn
  <2>. HIDE DEF m, S, both
  <2>4. <<m>> \in Seq(S) /\ <<Check>> \in Seq(S)  BY <2>2
  <2>5. Meets(<<Check>> \o <<m>>, Checks)  BY <2>2, <2>4, FirstMeets
  <2>. DEFINE c == <<Check>>
              d == <<m>>
  <2>6. c \in Seq(S) /\ d \in Seq(S)  BY <2>4
  <2>. HIDE DEF c, d
  <2>7. c \o d \in Seq(S)  BY <2>6, ConcatHolds
  <2>. QED  BY <2>3, <2>5, <2>7 DEF c, d
<1>3. v \in Seq(S) /\ Meets(v, Laying(t))
  <2>1. "vtree.vtree" \in Words \ {"dot"}  BY DEF Words
  <2>2. Root \in Dirs /\ t \in Plain  BY <2>1, RootFile
  <2>. QED  BY <2>2, VtreeIsLaid
<1>4. split \in Seq(S) /\ \A f \in SplitFiles(run) : Meets(split, Laying(f))
  BY SplitWrites, PlanParts, SplitIsLaid
<1>. HIDE DEF both, v, split, S
<1>5. both \o v \in Seq(S) /\ (both \o v) \o split \in Seq(S)  BY <1>2, <1>3, <1>4, ConcatHolds
<1>6. \A O : Meets(both, O) \/ Meets(v, O) \/ Meets(split, O) => Meets((both \o v) \o split, O)
  BY <1>2, <1>3, <1>4, <1>5, MeetsEither
<1>7. \A f \in BuildFiles(run) : f = t \/ f \in SplitFiles(run)  BY DEF BuildFiles
<1>. QED  BY <1>1, <1>2, <1>3, <1>4, <1>5, <1>6, <1>7 DEF S

Reduced == <<"reduced.cnf">>

LEMMA BundleIsLaid == BundleOps \in Seq(Steps(Kinds)) /\ Meets(BundleOps, Laying(Reduced))
<1>. DEFINE S == Steps(Kinds)
            m == MakeDir(Root)
            w == Write(Root, Reduced)
            p == Write(Root, <<"preprocess.json">>)
            ops == <<m, w, p>>
<1>1. BundleOps = ops /\ BundleOps \in Seq(S)  BY BundleWrites, PlanParts DEF BundleOps, Reduced
<1>2. w \in Laying(Reduced)
  <2>1. "reduced.cnf" \in Words \ {"dot"}  BY DEF Words
  <2>2. Root \in Dirs /\ Reduced \in Paths  BY <2>1, RootFile DEF Reduced, Plain
  <2>. QED  BY <2>2, WriteLays
<1>3. 2 \in DOMAIN ops /\ ops[2] = w  OBVIOUS
<1>. HIDE DEF ops, w
<1>4. w \in ToSet(ops)  BY <1>3 DEF ToSet
<1>. QED  BY <1>1, <1>2, <1>4 DEF Meets

LEMMA RunIsLaid ==
  ASSUME NEW run, run.tree # None, WellFormed(run)
  PROVE  /\ RunOps(run) \in Seq(Steps(Kinds)) /\ Meets(RunOps(run), Checks)
         /\ \A f \in BuildFiles(run) \cup {Reduced} : Meets(RunOps(run), Laying(f))
<1>. DEFINE S == Steps(Kinds)
            build == BuildOps(run)
<1>1. RunOps(run) = BundleOps \o build  BY DEF RunOps
<1>2. /\ BundleOps \in Seq(S) /\ Meets(BundleOps, Laying(Reduced))
      /\ build \in Seq(S) /\ Meets(build, Checks) /\ \A f \in BuildFiles(run) : Meets(build, Laying(f))
  BY BundleIsLaid, BuildIsLaid
<1>. HIDE DEF S, build
<1>3. BundleOps \o build \in Seq(S)  BY <1>2, ConcatHolds
<1>4. \A O : Meets(BundleOps, O) \/ Meets(build, O) => Meets(BundleOps \o build, O)  BY <1>2, MeetsEither
<1>. QED  BY <1>1, <1>2, <1>3, <1>4 DEF S

LEMMA FilesAreLaid ==
  ASSUME NEW run, run.tree # None, WellFormed(run), NEW f \in BuildFiles(run) \cup {Reduced}
  PROVE  FilesOps(run) \in Seq(Steps(Kinds)) /\ Meets(FilesOps(run), Laying(f))
<1>. DEFINE S == Steps(Kinds)
            ops == RunOps(run)
            files == Files(run)
            put == [k \in DOMAIN ops |-> IF ops[k].op = "file" THEN <<ops[k]>> ELSE <<>>]
            made == [k \in DOMAIN files |-> <<MakeDir(files[k].at), files[k]>>]
            O == Laying(f)
<1>1. ops \in Seq(S) /\ Meets(ops, O)  BY RunIsLaid
<1>2. files = FlattenSeq(put) /\ FilesOps(run) = FlattenSeq(made)  BY DEF Files, FilesOps
<1>3. FilesOps(run) \in Seq(S)  BY FilesWrites, PlanParts
<1>4. O \subseteq S /\ \A o \in O : o.op = "file"  BY DEF Laying
<1>5. \A o \in S : o.at \in Dirs /\ MakeDir(o.at) \in S
  <2>1. \A o \in S : o.at \in Dirs  BY DEF Steps
  <2>2. \A d \in Dirs : MakeDir(d) \in S  BY DEF MakeDir, Steps, Kinds, Creating, Paths
  <2>. QED  BY <2>1, <2>2
<1>. HIDE DEF ops, files, S, O
<1>6. Len(ops) \in Nat /\ DOMAIN ops = 1 .. Len(ops) /\ \A k \in DOMAIN ops : ops[k] \in S  BY <1>1
<1>7. \A k \in DOMAIN ops : put[k] \in Seq(S)
  <2>1. \A o \in S : <<o>> \in Seq(S) /\ <<>> \in Seq(S)  OBVIOUS
  <2>. QED  BY <1>6, <2>1
<1>8. PICK k \in DOMAIN ops : ops[k] \in O  BY <1>1 DEF Meets, ToSet
<1>9. Meets(put[k], O)
  <2>1. put[k] = <<ops[k]>>  BY <1>4, <1>8
  <2>2. <<>> \in Seq(S)  OBVIOUS
  <2>3. Meets(<<ops[k]>>, O)  BY <1>6, <1>8, <2>2, FirstMeets
  <2>. QED  BY <2>1, <2>3
<1>10. put \in [1 .. Len(ops) -> Seq(S)]  BY <1>6, <1>7
<1>. HIDE DEF put
<1>11. files \in Seq(S) /\ Meets(files, O)  BY <1>2, <1>6, <1>8, <1>9, <1>10, MeetsAny, FlattenTyped
<1>12. Len(files) \in Nat /\ DOMAIN files = 1 .. Len(files) /\ \A j \in DOMAIN files : files[j] \in S  BY <1>11
<1>13. ASSUME NEW j \in DOMAIN files PROVE made[j] \in Seq(S) /\ (files[j] \in O => Meets(made[j], O))
  <2>. DEFINE m == MakeDir(files[j].at)
              o == files[j]
              mm == <<m>>
              oo == <<o>>
  <2>1. m \in S /\ o \in S  BY <1>5, <1>12
  <2>2. made[j] = mm \o oo  BY TwoInTurn
  <2>. HIDE DEF m, o
  <2>3. mm \in Seq(S) /\ oo \in Seq(S) /\ <<>> \in Seq(S)  BY <2>1
  <2>4. o \in O => Meets(oo, O)  BY <2>1, <2>3, FirstMeets
  <2>. HIDE DEF mm, oo, made
  <2>5. mm \o oo \in Seq(S)  BY <2>3, ConcatHolds
  <2>6. o \in O => Meets(mm \o oo, O)  BY <2>3, <2>4, MeetsEither
  <2>. QED  BY <2>2, <2>5, <2>6 DEF o
<1>14. made \in [1 .. Len(files) -> Seq(S)]  BY <1>12, <1>13
<1>15. PICK j \in DOMAIN files : files[j] \in O  BY <1>11 DEF Meets, ToSet
<1>16. Meets(made[j], O)  BY <1>13, <1>15
<1>. HIDE DEF made
<1>17. Meets(FlattenSeq(made), O)  BY <1>12, <1>14, <1>15, <1>16, MeetsAny
<1>. QED  BY <1>2, <1>3, <1>17 DEF S, O

\* Every way to write a build that is not the bundle half lays all its files, and
\* all but that of rendered files check it.
LEMMA PlansAreLaid ==
  ASSUME NEW name \in Built, NEW entry \in Entries \ {"bundle"}
  PROVE  /\ \A f \in BuildFiles(RunNamed[name]) \cup {Reduced} :
              (f = Reduced /\ entry = "build") \/ Meets(Ops(RunNamed[name], entry), Laying(f))
         /\ entry # "files" => Meets(Ops(RunNamed[name], entry), Checks)
<1>. DEFINE run == RunNamed[name]
<1>1. run.tree # None  BY DEF Built
<1>2. WellFormed(run)  BY <1>1, HostAssumption DEF Built, Names, WellFormed
<1>. HIDE DEF run
<1>3. CASE entry = "run"  BY <1>1, <1>2, <1>3, RunIsLaid DEF Ops, run
<1>4. CASE entry = "build"
  <2>1. Ops(run, entry) = BuildOps(run)  BY <1>4 DEF Ops
  <2>. QED  BY <1>2, <1>4, <2>1, BuildIsLaid DEF run
<1>5. CASE entry = "files"
  <2>1. Ops(run, entry) = FilesOps(run)  BY <1>5 DEF Ops
  <2>. QED  BY <1>1, <1>2, <1>5, <2>1, FilesAreLaid DEF run
<1>. QED  BY <1>3, <1>4, <1>5 DEF Entries

\* What the manifest names is laid.
LEMMA NamedIsLaid ==
  ASSUME NEW run, WellFormed(run), NEW i \in DOMAIN Manifest(run).entries,
         NEW f \in NamedBy(Manifest(run).entries[i])
  PROVE  f \in BuildFiles(run) \cup {Reduced}
<1>. DEFINE e == Entry(run, i)
<1>1. i \in DOMAIN Cuts(run) /\ Manifest(run).entries[i] = e  BY DEF Manifest
<1>2. i \in Nat /\ run.cands[i] \in Nat  BY <1>1, TheCuts
<1>3. /\ e.cnf = CnfOf(run, i) /\ e.vtree = VtreeOf(run, i)
      /\ e.candidates = [k \in 1 .. run.cands[i] |-> CandidateFile(run, i, k - 1)]
  BY DEF Entry
<1>. HIDE DEF e
<1>4. {CnfOf(run, i), VtreeOf(run, i)} \subseteq BuildFiles(run) \cup {Reduced}
  BY <1>1 DEF CnfOf, VtreeOf, BuildFiles, SplitFiles, PartFiles, Reduced
<1>5. ASSUME NEW k \in 1 .. run.cands[i]
      PROVE  CandidateFile(run, i, k - 1) \in BuildFiles(run) \cup {Reduced}
  <2>1. CASE k = 1
    <3>1. CandidateFile(run, i, k - 1) = VtreeOf(run, i)  BY <2>1 DEF CandidateFile
    <3>. QED  BY <1>4, <3>1
  <2>2. CASE k # 1
    <3>1. k - 1 \in 1 .. run.cands[i] - 1  BY <1>2, <2>2
    <3>2. CandidateFile(run, i, k - 1) \in RunnersUp(run, i)  BY <3>1 DEF RunnersUp
    <3>. QED  BY <1>1, <3>2 DEF BuildFiles, SplitFiles, PartFiles
  <2>. QED  BY <2>1, <2>2
<1>6. ToSet(e.candidates) \subseteq BuildFiles(run) \cup {Reduced}  BY <1>3, <1>5 DEF ToSet
<1>. QED  BY <1>1, <1>3, <1>4, <1>6 DEF NamedBy

-----------------------------------------------------------------------------
(***************************************************************************)
(* A write that reports success has done its whole plan, and was let past  *)
(* its check.                                                              *)
(***************************************************************************)
Refusable == writer.entry \in {"run", "build"} /\ writer.run \in Built

Checked ==
  writer # <<>> =>
    /\ \A k \in 1 .. writer.done : Plan[k].op = "check" => writer.run \in Accepted
    /\ writer.entry = "files" => writer.run \in Rendered
    /\ writer.result \in {"ok", "panic"} => writer.done = Len(Plan)
    /\ writer.result = "panic" => Refusable /\ writer.run \notin Matching

\* An end that is no success.
LEMMA FailsChecked ==
  ASSUME Checked, writer # <<>>, NEW result \in {"mismatch", "io", "killed"},
         writer \in Writers, writer' = [writer EXCEPT !.result = result]
  PROVE  Checked'
<1>1. /\ writer'.done = writer.done /\ writer'.plan = writer.plan /\ writer'.run = writer.run
      /\ writer'.entry = writer.entry /\ writer'.result = result
  BY DEF Writers
<1>2. result \notin {"ok", "panic"}  OBVIOUS
<1>. QED  BY <1>1, <1>2 DEF Checked, Plan

LEMMA CheckedSteps == WriteInv /\ Checked /\ [Next]_vars => Checked'
<1>. SUFFICES ASSUME WriteInv, Checked, [Next]_vars PROVE Checked'  OBVIOUS
<1>1. ASSUME NEW t \in Threads, \/ Call(t) \/ Enter(t) \/ Drop(t) \/ Ask(t) \/ Told(t)
                               \/ \E body \in Bodies : Leave(t, body)
      PROVE  Checked'
  <2>1. writer' = writer  BY <1>1 DEF Call, Enter, Drop, Leave, Ask, Told, Back, callVars
  <2>. QED  BY <2>1 DEF Checked, Plan, Refusable
<1>2. ASSUME NEW t \in Threads, WriteResult(t) \/ WritePairing(t)
      PROVE  Checked'
  <2>1. PICK run \in Names, entry \in Entries : Begin(t, run, entry) /\ (entry = "files" => run \in Rendered)
    <3>1. Rendered \subseteq Names /\ Pairings \subseteq Names /\ {"build", "run"} \subseteq Entries
      BY HostAssumption DEF Rendered, Names, Entries
    <3>. QED  BY <1>2, <3>1 DEF WriteResult, WritePairing
  <2>. DEFINE plan == Ops(RunNamed[run], entry)
  <2>2. /\ writer'.done = 0 /\ writer'.entry = entry /\ writer'.run = run /\ writer'.result = None
    BY <2>1 DEF Begin
  <2>3. \A k \in 1 .. writer'.done : FALSE  BY <2>2
  <2>4. writer'.result \notin {"ok", "panic"}  BY <2>2, HostAssumption
  <2>. QED  BY <2>1, <2>2, <2>3, <2>4 DEF Checked
<1>3. ASSUME NEW t \in Threads, StepOk(t) PROVE Checked'
  <2>1. ~Idle  BY <1>3 DEF StepOk, Stepping, WriteInv, WritersTurn
  <2>2. /\ writer # <<>> /\ writer \in Writers /\ writer.result = None /\ writer.done \in Nat
    BY <2>1, RunningWrite
  <2>3. writer' = [writer EXCEPT !.done = writer.done + 1]  BY <1>3 DEF StepOk, Advance
  <2>4. /\ writer'.done = writer.done + 1 /\ writer'.plan = writer.plan /\ writer'.run = writer.run
        /\ writer'.entry = writer.entry /\ writer'.result = None
    BY <2>2, <2>3 DEF Writers
  <2>5. NextOp.op = "check" => writer.run \in Accepted  BY <1>3 DEF StepOk
  <2>6. ASSUME NEW k \in 1 .. writer.done + 1, Plan[k].op = "check" PROVE writer.run \in Accepted
    <3>1. k \in 1 .. writer.done \/ k = writer.done + 1  BY <2>2
    <3>. QED  BY <2>2, <2>5, <2>6, <3>1 DEF Checked, NextOp
  <2>7. None \notin {"ok", "panic"}  BY HostAssumption
  <2>8. \A k \in 1 .. writer'.done : Plan'[k].op = "check" => writer'.run \in Accepted
    BY <2>4, <2>6 DEF Plan
  <2>9. writer.entry = "files" => writer.run \in Rendered  BY <2>2 DEF Checked
  <2>. QED  BY <2>4, <2>7, <2>8, <2>9 DEF Checked
<1>4. ASSUME NEW t \in Threads, StepRefused(t) \/ StepFails(t)
      PROVE  Checked'
  <2>1. pc[t] = "writing" /\ \E result \in {"mismatch", "io"} : End(t, result)
    BY <1>4 DEF StepRefused, StepFails, Stepping
  <2>2. ~Idle  BY <2>1 DEF WriteInv, WritersTurn
  <2>3. writer # <<>> /\ writer \in Writers  BY <2>2, RunningWrite
  <2>4. PICK result \in {"mismatch", "io"} : writer' = [writer EXCEPT !.result = result]  BY <2>1 DEF End
  <2>. QED  BY <2>3, <2>4, FailsChecked
<1>5. ASSUME NEW t \in Threads, Finish(t) PROVE Checked'
  <2>. DEFINE Refused == writer.entry \in {"run", "build"} /\ writer.run \in Built /\ writer.run \notin Matching
              result == IF Refused THEN "panic" ELSE "ok"
  <2>1. pc[t] = "writing" /\ writer.done = Len(Plan) /\ writer' = [writer EXCEPT !.result = result]
    BY <1>5 DEF Finish, End
  <2>2. ~Idle  BY <2>1 DEF WriteInv, WritersTurn
  <2>3. writer # <<>> /\ writer \in Writers  BY <2>2, RunningWrite
  <2>4. /\ writer'.done = writer.done /\ writer'.plan = writer.plan /\ writer'.run = writer.run
        /\ writer'.entry = writer.entry /\ writer'.result = result
    BY <2>1, <2>3 DEF Writers
  <2>5. result = "panic" => Refused  OBVIOUS
  <2>6. Plan' = Plan  BY <2>4 DEF Plan
  <2>7. (Refusable /\ writer.run \notin Matching)' <=> Refused  BY <2>4 DEF Refusable
  <2>. HIDE DEF Refused, result
  <2>8. /\ \A k \in 1 .. writer.done : Plan[k].op = "check" => writer.run \in Accepted
        /\ writer.entry = "files" => writer.run \in Rendered
    BY <2>3 DEF Checked
  <2>9. \A k \in 1 .. writer'.done : Plan'[k].op = "check" => writer'.run \in Accepted
    BY <2>4, <2>6, <2>8
  <2>. QED  BY <2>1, <2>4, <2>5, <2>6, <2>7, <2>8, <2>9 DEF Checked
<1>6. CASE Die
  <2>1. CASE Idle
    <3>1. writer' = writer  BY <1>6, <2>1 DEF Die
    <3>. QED  BY <3>1 DEF Checked, Plan, Refusable
  <2>2. CASE ~Idle
    <3>1. writer' = [writer EXCEPT !.result = "killed"]  BY <1>6, <2>2 DEF Die
    <3>2. writer # <<>> /\ writer \in Writers  BY <2>2, RunningWrite
    <3>. QED  BY <3>1, <3>2, FailsChecked
  <2>. QED  BY <2>1, <2>2
<1>7. CASE Quiet \/ UNCHANGED vars
  <2>1. writer' = writer  BY <1>7 DEF Quiet, vars
  <2>. QED  BY <2>1 DEF Checked, Plan, Refusable
<1>. QED  BY <1>1, <1>2, <1>3, <1>4, <1>5, <1>6, <1>7 DEF Next

LEMMA CheckedHolds == Spec => [](WriteInv /\ Checked)
<1>1. Init => Checked  BY DEF Init, Checked
<1>. QED  BY <1>1, CheckedSteps, WriteInvHolds, PTL DEF Spec

\* What has been done of a plan that lays a file is on the disk.
LEMMA LaidIsWritten ==
  ASSUME WriteInv, writer # <<>>, writer.done = Len(Plan), NEW f, Meets(Plan, Laying(f))
  PROVE  Written(f)
<1>1. Plan \in Seq(Steps(Kinds))  BY DEF WriteInv, WriteTypes, Writers, Plan
<1>2. DOMAIN Plan = 1 .. Len(Plan)  BY <1>1
<1>3. PICK k \in DOMAIN Plan : Plan[k] \in Laying(f)  BY DEF Meets, ToSet
<1>4. Plan[k].op = "file" /\ Plan[k].file = f  BY <1>3 DEF Laying
<1>. QED  BY <1>2, <1>4 DEF WriteInv, WrittenSoFar

Succeeded == Ended /\ writer.result \in {"ok", "panic"} /\ writer.entry # "bundle" /\ writer.run \in Built

LEMMA SuccessIsWhole ==
  ASSUME WriteInv, Checked, Succeeded
  PROVE  /\ writer.run \in Accepted
         /\ \A f \in BuildFiles(RunNamed[writer.run]) \cup {Reduced} :
              (f = Reduced /\ writer.entry = "build") \/ Written(f)
         /\ writer.result = "panic" => writer.run \notin Matching
<1>1. /\ writer # <<>> /\ writer \in Writers /\ Plan = Ops(RunNamed[writer.run], writer.entry)
      /\ writer.done = Len(Plan) /\ writer.run \in Built /\ writer.entry \in Entries \ {"bundle"}
  BY DEF Succeeded, Ended, WriteInv, WriteTypes, Checked, Writers
<1>2. /\ \A f \in BuildFiles(RunNamed[writer.run]) \cup {Reduced} :
           (f = Reduced /\ writer.entry = "build") \/ Meets(Plan, Laying(f))
      /\ writer.entry # "files" => Meets(Plan, Checks)
  BY <1>1, PlansAreLaid
<1>3. writer.run \in Accepted
  <2>1. CASE writer.entry = "files"
    <3>1. writer.run \in Rendered  BY <1>1, <2>1 DEF Checked
    <3>. QED  BY <1>1, <3>1 DEF Rendered, Renders, Built, Accepted
  <2>2. CASE writer.entry # "files"
    <3>1. PICK k \in DOMAIN Plan : Plan[k] \in Checks  BY <1>2, <2>2 DEF Meets, ToSet
    <3>2. Plan \in Seq(Steps(Kinds))  BY <1>1 DEF Writers, Plan
    <3>3. k \in 1 .. writer.done /\ Plan[k].op = "check"  BY <1>1, <3>1, <3>2 DEF Checks
    <3>. QED  BY <1>1, <3>3 DEF Checked
  <2>. QED  BY <2>1, <2>2
<1>4. writer.result = "panic" => writer.run \notin Matching  BY <1>1 DEF Checked
<1>. QED  BY <1>1, <1>2, <1>3, <1>4, LaidIsWritten

\* So much reads back of a run whose ids match and whose counts compose.
LEMMA ReadsBack ==
  ASSUME WriteInv, Checked, Accepted \subseteq Matching, Runs \cap Accepted \subseteq Composing
  PROVE  WrittenReadsBack
<1>. SUFFICES ASSUME Succeeded PROVE WrittenReadsBack  BY DEF WrittenReadsBack, Succeeded
<1>. DEFINE run == RunNamed[writer.run]
            m == ManifestOf[writer.run]
            elsewhere == IF writer.entry = "build" THEN {<<"reduced.cnf">>} ELSE {}
<1>1. /\ writer.run \in Accepted
      /\ \A f \in BuildFiles(run) \cup {Reduced} : (f = Reduced /\ writer.entry = "build") \/ Written(f)
      /\ writer.result = "panic" => writer.run \notin Matching
  BY SuccessIsWhole
<1>2. writer.result = "ok"  BY <1>1 DEF Succeeded
<1>3. m = Manifest(run)  BY <1>1 DEF ManifestOf
<1>4. WellFormed(run)  BY HostAssumption DEF Succeeded, Built, Names, WellFormed
<1>5. \A f \in BuildFiles(run) \cup {Reduced} : f \notin elsewhere => Written(f)
  BY <1>1 DEF Reduced
<1>6. \A f \in BuildFiles(run) : f = Reduced \/ Written(f)  BY <1>1
<1>. HIDE DEF run, m, elsewhere
<1>7. \A i \in DOMAIN m.entries : \A f \in NamedBy(m.entries[i]) \ elsewhere : Written(f)
  BY <1>3, <1>4, <1>5, NamedIsLaid
<1>8. Written(<<"components.json">>) /\ Written(<<"vtree.vtree">>)
  <2>1. <<"components.json">> \in BuildFiles(run) /\ <<"vtree.vtree">> \in BuildFiles(run)
    BY DEF BuildFiles, SplitFiles
  <2>2. <<"components.json">>[1] = "components.json" /\ <<"vtree.vtree">>[1] = "vtree.vtree"
        /\ Reduced[1] = "reduced.cnf"
    BY DEF Reduced
  <2>3. <<"components.json">> # Reduced /\ <<"vtree.vtree">> # Reduced  BY <2>2
  <2>. QED  BY <1>6, <2>1, <2>3
<1>9. writer.run \in Runs => writer.run \in Composing  BY <1>1
<1>. QED  BY <1>2, <1>7, <1>8, <1>9 DEF WrittenReadsBack, m, elsewhere

-----------------------------------------------------------------------------
(***************************************************************************)
(* A build that belongs to its formula: its parts share no variable, and   *)
(* the manifest numbers each variable of the vtree once.                   *)
(***************************************************************************)
Formulas == Seq(SUBSET Lits)
VarsAt(run, i) == VarsOf(run.clauses, Cuts(run)[i])

Fits(run) ==
  /\ WellFormed(run) /\ run.clauses \in Formulas /\ run.show \in {None} \cup SUBSET Vars
  /\ Len(run.tree) = NumVars
  /\ Len(Cuts(run)) \in Nat /\ DOMAIN Cuts(run) = 1 .. Len(Cuts(run))
  /\ \A i \in DOMAIN Cuts(run) : Cuts(run)[i] \in SUBSET DOMAIN run.clauses
  /\ \A i, j \in DOMAIN Cuts(run) : i # j => VarsAt(run, i) \cap VarsAt(run, j) = {}

LEMMA AcceptedFits ==
  ASSUME NEW name \in Accepted
  PROVE  /\ Fits(RunNamed[name])
         /\ name \in Runs => UNION {Cuts(RunNamed[name])[i] : i \in DOMAIN Cuts(RunNamed[name])}
                               = DOMAIN RunNamed[name].clauses
<1>. DEFINE run == RunNamed[name]
            cuts == Cuts(run)
<1>1. name \in Names /\ run.tree # None /\ Belongs(run)  BY DEF Accepted, Built
<1>2. /\ WellFormed(run) /\ run.clauses \in Formulas /\ run.show \in {None} \cup SUBSET Vars
      /\ name \in Runs /\ run.comps # None =>
           DOMAIN run.clauses \subseteq UNION {ToSet(run.comps[i].clauses) : i \in DOMAIN run.comps}
  BY <1>1, HostAssumption DEF Names, WellFormed, Formulas
<1>3. Len(run.tree) = NumVars  BY <1>1 DEF Belongs, SpansExactly
<1>. HIDE DEF run
<1>4. CASE run.comps = None
  <2>1. cuts = <<DOMAIN run.clauses>>  BY <1>4 DEF Cuts
  <2>2. Len(cuts) \in Nat /\ DOMAIN cuts = 1 .. Len(cuts) /\ DOMAIN cuts = {1} /\ cuts[1] = DOMAIN run.clauses
    BY <2>1
  <2>. HIDE DEF cuts
  <2>3. UNION {cuts[i] : i \in DOMAIN cuts} = DOMAIN run.clauses  BY <2>2
  <2>4. \A i \in DOMAIN cuts : cuts[i] \in SUBSET DOMAIN run.clauses  BY <2>2
  <2>5. \A i, j \in DOMAIN cuts : i = j  BY <2>2
  <2>. QED  BY <1>2, <1>3, <2>2, <2>3, <2>4, <2>5 DEF Fits, cuts, run
<1>5. CASE run.comps # None
  <2>1. /\ DOMAIN run.comps = 1 .. Len(run.comps) /\ Len(run.comps) \in Nat /\ DOMAIN cuts = DOMAIN run.comps
        /\ \A i \in DOMAIN run.comps : cuts[i] = ToSet(run.comps[i].clauses)
        /\ cuts = [i \in DOMAIN run.comps |-> ToSet(run.comps[i].clauses)]
    BY <1>2, <1>5, TheCuts DEF Cuts
  <2>2. /\ \A i \in DOMAIN run.comps : ToSet(run.comps[i].clauses) \subseteq DOMAIN run.clauses
        /\ \A i, j \in DOMAIN run.comps : i # j => ClaimedBy(run, i) \cap ClaimedBy(run, j) = {}
    BY <1>1, <1>5 DEF Belongs, ClaimsHold, run
  <2>3. Len(cuts) = Len(run.comps)
    <3>. HIDE DEF cuts
    <3>. QED  BY <2>1
  <2>. HIDE DEF cuts
  <2>4. \A i, j \in DOMAIN cuts : i # j => VarsAt(run, i) \cap VarsAt(run, j) = {}
    BY <2>1, <2>2 DEF ClaimedBy, VarsAt, cuts
  <2>5. name \in Runs => UNION {cuts[i] : i \in DOMAIN cuts} = DOMAIN run.clauses
    <3>1. {cuts[i] : i \in DOMAIN cuts} = {ToSet(run.comps[i].clauses) : i \in DOMAIN run.comps}  BY <2>1
    <3>. QED  BY <1>2, <1>5, <2>2, <3>1
  <2>6. \A i \in DOMAIN cuts : cuts[i] \in SUBSET DOMAIN run.clauses  BY <2>1, <2>2
  <2>. QED  BY <1>2, <1>3, <2>1, <2>3, <2>4, <2>5, <2>6 DEF Fits, cuts, run
<1>. QED  BY <1>4, <1>5

LEMMA VariablesOfLiterals ==
  /\ \A l \in Lits : VarOf(l) \in Vars /\ l \in Int /\ l # 0
  /\ \A c \in SUBSET Lits : ClauseVars(c) \in SUBSET Vars
<1>1. ASSUME NEW l \in Lits
      PROVE  VarOf(l) \in Vars /\ l \in Int /\ l # 0
  <2>1. CASE l \in Vars  BY <2>1, NumVarsAssumption DEF Vars, VarOf
  <2>2. CASE l \in {-v : v \in Vars}  BY <2>2, NumVarsAssumption DEF Vars, VarOf
  <2>. QED  BY <2>1, <2>2 DEF Lits
<1>. QED  BY <1>1 DEF ClauseVars

LEMMA PartVariables ==
  ASSUME NEW run, Fits(run), NEW i \in DOMAIN Cuts(run)
  PROVE  /\ VarsAt(run, i) \in SUBSET Vars
         /\ \A k \in Cuts(run)[i] :
              k \in DOMAIN run.clauses /\ run.clauses[k] \in SUBSET Lits
              /\ \A l \in run.clauses[k] : VarOf(l) \in VarsAt(run, i)
<1>1. ASSUME NEW k \in Cuts(run)[i]
      PROVE  /\ k \in DOMAIN run.clauses /\ run.clauses[k] \in SUBSET Lits
             /\ ClauseVars(run.clauses[k]) \in SUBSET Vars
  <2>1. k \in DOMAIN run.clauses /\ run.clauses \in Seq(SUBSET Lits)  BY DEF Fits, Formulas
  <2>2. run.clauses[k] \in SUBSET Lits  BY <2>1
  <2>. QED  BY <2>1, <2>2, VariablesOfLiterals
<1>. QED  BY <1>1 DEF VarsAt, VarsOf, ClauseVars

\* A part's own variables, ascending.
LEMMA OuterLists ==
  ASSUME NEW run, Fits(run), NEW i \in DOMAIN Cuts(run)
  PROVE  /\ IsFiniteSet(VarsAt(run, i)) /\ Cardinality(VarsAt(run, i)) \in Nat
         /\ Lists(LocalToOuter(run.clauses, Cuts(run)[i]), VarsAt(run, i))
<1>1. VarsAt(run, i) \in SUBSET (1 .. NumVars) /\ NumVars \in Nat
  BY PartVariables, NumVarsAssumption DEF Vars
<1>2. LocalToOuter(run.clauses, Cuts(run)[i]) = Ascending(VarsAt(run, i), <)  BY DEF LocalToOuter, VarsAt
<1>. DEFINE V == VarsAt(run, i)
<1>. HIDE DEF V
<1>3. IsFiniteSet(V) /\ Lists(Ascending(V, <), V)
  <2>1. V \in SUBSET (1 .. NumVars)  BY <1>1 DEF V
  <2>. QED  BY <1>1, <2>1, NumbersListed DEF Ascending
<1>4. Cardinality(V) \in Nat  BY <1>3, FS_CardinalityType
<1>. QED  BY <1>2, <1>3, <1>4 DEF V

LEMMA IdsMatch ==
  ASSUME NEW run, Fits(run)
  PROVE  ManifestMatches(Manifest(run), Len(run.tree))
<1>. DEFINE m == Manifest(run)
            n == Len(Cuts(run))
            outer(i) == LocalToOuter(run.clauses, Cuts(run)[i])
            seqs == [i \in DOMAIN m.entries |-> m.entries[i].map]
            parts == [i \in 1 .. n |-> VarsAt(run, i)]
            ids == FlattenSeq(seqs)
            all == UNION {parts[i] : i \in 1 .. n}
<1>1. n \in Nat /\ DOMAIN Cuts(run) = 1 .. n  BY DEF Fits
<1>2. DOMAIN m.entries = 1 .. n /\ \A i \in 1 .. n : m.entries[i] = Entry(run, i)
  BY <1>1 DEF Manifest
<1>3. \A i \in 1 .. n : Entry(run, i).map = outer(i)
  BY DEF Entry, View, LocalView
<1>4. m.free = Vars \ all
  <2>1. m.free = Vars \ UNION {VarsOf(run.clauses, Cuts(run)[i]) : i \in DOMAIN Cuts(run)}
    BY DEF Manifest, Unclaimed
  <2>. QED  BY <1>1, <2>1 DEF VarsAt
<1>. HIDE DEF m, n, outer
<1>5. seqs = [i \in 1 .. n |-> outer(i)]  BY <1>2, <1>3
<1>6. ASSUME NEW i \in 1 .. n
      PROVE  outer(i) \in Seq(Vars) /\ Enumerates(outer(i), parts[i])
  <2>. DEFINE V == VarsAt(run, i)
  <2>1. IsFiniteSet(V) /\ Lists(outer(i), V) /\ V \in SUBSET Vars
    BY <1>1, OuterLists, PartVariables DEF outer
  <2>2. parts[i] = V  OBVIOUS
  <2>. HIDE DEF V, parts
  <2>3. outer(i) \in Seq(V) /\ Len(outer(i)) = Cardinality(V)  BY <2>1, ListedSequence
  <2>4. outer(i) \in Seq(Vars)  BY <2>1, <2>3
  <2>5. Enumerates(outer(i), V)  BY <2>1, <2>3 DEF Enumerates, Lists
  <2>. QED  BY <2>2, <2>4, <2>5
<1>7. \A i, j \in 1 .. n : i # j => parts[i] \cap parts[j] = {}  BY <1>1 DEF Fits
<1>8. ListParts(seqs, parts, n, Vars)
  <2>1. seqs \in [1 .. n -> Seq(Vars)] /\ \A k \in 1 .. n : seqs[k] = outer(k)
    <3>. HIDE DEF parts
    <3>. QED  BY <1>5, <1>6
  <2>. HIDE DEF seqs, parts
  <2>. QED  BY <1>1, <1>6, <1>7, <2>1 DEF ListParts
<1>. HIDE DEF seqs, parts
<1>9. ids \in Seq(Vars) /\ Enumerates(ids, all)  BY <1>8, ListsFlattened
<1>10. all \in SUBSET Vars
  <2>1. \A i \in 1 .. n : parts[i] \in SUBSET Vars  BY <1>1, PartVariables DEF parts
  <2>. QED  BY <2>1
<1>. HIDE DEF ids, all
<1>11. DOMAIN ids = 1 .. Len(ids)  BY <1>9
<1>12. ToSet(ids) = all  BY <1>9, <1>11 DEF Enumerates, ToSet
<1>13. IsInjective(ids)  BY <1>9, <1>11 DEF Enumerates, IsInjective
<1>14. Len(run.tree) = NumVars  BY DEF Fits
<1>15. all \cap m.free = {} /\ all \cup m.free = 1 .. Len(run.tree)  BY <1>4, <1>10, <1>14 DEF Vars
<1>. QED  BY <1>12, <1>13, <1>15 DEF ManifestMatches, ids, seqs, m

LEMMA AcceptedMatch == Accepted \subseteq Matching
<1>. SUFFICES ASSUME NEW name \in Accepted PROVE name \in Matching  OBVIOUS
<1>1. ManifestMatches(Manifest(RunNamed[name]), Len(RunNamed[name].tree))  BY AcceptedFits, IdsMatch
<1>2. ManifestOf[name] = Manifest(RunNamed[name])  BY DEF ManifestOf
<1>. QED  BY <1>1, <1>2 DEF Matching

-----------------------------------------------------------------------------
(***************************************************************************)
(* Counting what is shown: formulas over different variables multiply.     *)
(***************************************************************************)

\* The clauses of G are over V.
Over(G, V) == \A c \in G : c \in SUBSET Lits /\ \A l \in c : VarOf(l) \in V

\* The models over V, as far as sh shows them.
Seen(G, V, sh) == {T \cap sh : T \in Models(G, V)}

LEMMA HoldsWithin ==
  ASSUME NEW l \in Lits, NEW V, VarOf(l) \in V, NEW T
  PROVE  Holds(l, T) <=> Holds(l, T \cap V)
<1>. l \in Int  BY VariablesOfLiterals
<1>1. CASE l > 0
  <2>1. l \in V  BY <1>1 DEF VarOf
  <2>. QED  BY <1>1, <2>1 DEF Holds
<1>2. CASE ~(l > 0)
  <2>1. -l \in V  BY <1>2 DEF VarOf
  <2>2. (Holds(l, T) <=> -l \notin T) /\ (Holds(l, T \cap V) <=> -l \notin T \cap V)  BY <1>2 DEF Holds
  <2>. QED  BY <2>1, <2>2
<1>. QED  BY <1>1, <1>2

LEMMA SatisfiesWithin ==
  ASSUME NEW G, NEW V, Over(G, V), NEW T
  PROVE  Satisfies(T, G) <=> Satisfies(T \cap V, G)
<1>1. \A c \in G : \A l \in c : Holds(l, T) <=> Holds(l, T \cap V)  BY HoldsWithin DEF Over
<1>. QED  BY <1>1 DEF Satisfies

LEMMA JoinModels ==
  ASSUME NEW G, NEW V, Over(G, V), NEW H, NEW W, Over(H, W), V \cap W = {},
         NEW p \in SUBSET V, NEW q \in SUBSET W
  PROVE  p \cup q \in Models(G \cup H, V \cup W) <=> p \in Models(G, V) /\ q \in Models(H, W)
<1>1. (p \cup q) \cap V = p /\ (p \cup q) \cap W = q  OBVIOUS
<1>2. Satisfies(p \cup q, G) <=> Satisfies(p, G)  BY <1>1, SatisfiesWithin
<1>3. Satisfies(p \cup q, H) <=> Satisfies(q, H)  BY <1>1, SatisfiesWithin
<1>4. Satisfies(p \cup q, G \cup H) <=> Satisfies(p \cup q, G) /\ Satisfies(p \cup q, H)  BY DEF Satisfies
<1>. QED  BY <1>2, <1>3, <1>4 DEF Models

\* Every pair of what the two show.
Joined(A, B) == {p[1] \cup p[2] : p \in A \X B}

\* Two formulas that share no variable show every pair of what they show.
LEMMA JoinSeen ==
  ASSUME NEW G, NEW V, Over(G, V), NEW H, NEW W, Over(H, W), V \cap W = {}, NEW sh
  PROVE  Seen(G \cup H, V \cup W, sh) = Joined(Seen(G, V, sh), Seen(H, W, sh))
<1>1. ASSUME NEW x \in Seen(G \cup H, V \cup W, sh)
      PROVE  \E p \in Seen(G, V, sh) \X Seen(H, W, sh) : x = p[1] \cup p[2]
  <2>1. PICK T \in Models(G \cup H, V \cup W) : x = T \cap sh  BY DEF Seen
  <2>. DEFINE a == T \cap V
              b == T \cap W
  <2>2. T = a \cup b  BY <2>1 DEF Models
  <2>3. a \in SUBSET V /\ b \in SUBSET W  OBVIOUS
  <2>. HIDE DEF a, b
  <2>4. a \in Models(G, V) /\ b \in Models(H, W)  BY <2>1, <2>2, <2>3, JoinModels
  <2>5. <<a \cap sh, b \cap sh>> \in Seen(G, V, sh) \X Seen(H, W, sh)  BY <2>4 DEF Seen
  <2>6. x = (a \cap sh) \cup (b \cap sh)  BY <2>1, <2>2
  <2>. QED  BY <2>5, <2>6
<1>2. ASSUME NEW p \in Seen(G, V, sh) \X Seen(H, W, sh)
      PROVE  p[1] \cup p[2] \in Seen(G \cup H, V \cup W, sh)
  <2>1. PICK a \in Models(G, V), b \in Models(H, W) : p[1] = a \cap sh /\ p[2] = b \cap sh
    BY DEF Seen
  <2>2. a \in SUBSET V /\ b \in SUBSET W  BY DEF Models
  <2>3. a \cup b \in Models(G \cup H, V \cup W)  BY <2>2, JoinModels
  <2>4. p[1] \cup p[2] = (a \cup b) \cap sh  BY <2>1
  <2>. QED  BY <2>3, <2>4 DEF Seen
<1>. DEFINE A == Seen(G, V, sh)
            B == Seen(H, W, sh)
            C == Seen(G \cup H, V \cup W, sh)
<1>3. (\A x \in C : \E p \in A \X B : x = p[1] \cup p[2]) /\ \A p \in A \X B : p[1] \cup p[2] \in C  BY <1>1, <1>2
<1>. HIDE DEF A, B, C
<1>4. C = Joined(A, B)  BY <1>3 DEF Joined
<1>. QED  BY <1>4 DEF A, B, C

LEMMA SeenIsFinite ==
  ASSUME NEW G, NEW V, IsFiniteSet(V), NEW sh
  PROVE  /\ Seen(G, V, sh) \in SUBSET (SUBSET V)
         /\ IsFiniteSet(Seen(G, V, sh)) /\ Cardinality(Seen(G, V, sh)) \in Nat
<1>1. Seen(G, V, sh) \in SUBSET (SUBSET V)  BY DEF Seen, Models
<1>2. IsFiniteSet(SUBSET V)  BY FS_SUBSET
<1>3. IsFiniteSet(Seen(G, V, sh))  BY <1>1, <1>2, FS_Subset
<1>. QED  BY <1>1, <1>3, FS_CardinalityType

LEMMA JoinCount ==
  ASSUME NEW G, NEW V, Over(G, V), NEW H, NEW W, Over(H, W), V \cap W = {}, NEW sh,
         IsFiniteSet(V), IsFiniteSet(W)
  PROVE  Cardinality(Seen(G \cup H, V \cup W, sh)) = Cardinality(Seen(G, V, sh)) * Cardinality(Seen(H, W, sh))
<1>. DEFINE A == Seen(G, V, sh)
            B == Seen(H, W, sh)
            C == Seen(G \cup H, V \cup W, sh)
            f == [p \in A \X B |-> p[1] \cup p[2]]
<1>1. A \in SUBSET (SUBSET V) /\ B \in SUBSET (SUBSET W) /\ IsFiniteSet(A) /\ IsFiniteSet(B)
  <2>1. A \in SUBSET (SUBSET V) /\ IsFiniteSet(A)  BY SeenIsFinite
  <2>2. B \in SUBSET (SUBSET W) /\ IsFiniteSet(B)  BY SeenIsFinite
  <2>. HIDE DEF A, B
  <2>. QED  BY <2>1, <2>2
<1>2. C = Joined(A, B)  BY JoinSeen
<1>. HIDE DEF A, B, C
<1>3. f \in [A \X B -> C]  BY <1>2 DEF Joined
<1>4. \A x \in C : \E p \in A \X B : f[p] = x  BY <1>2 DEF Joined
<1>5. ASSUME NEW p \in A \X B, NEW q \in A \X B, f[p] = f[q]
      PROVE  p = q
  <2>1. p[1] \in SUBSET V /\ p[2] \in SUBSET W /\ q[1] \in SUBSET V /\ q[2] \in SUBSET W  BY <1>1
  <2>2. p[1] \cup p[2] = q[1] \cup q[2]  BY <1>5
  <2>3. p[1] = (p[1] \cup p[2]) \cap V /\ q[1] = (q[1] \cup q[2]) \cap V
        /\ p[2] = (p[1] \cup p[2]) \cap W /\ q[2] = (q[1] \cup q[2]) \cap W
    BY <2>1
  <2>4. p[1] = q[1] /\ p[2] = q[2]  BY <2>2, <2>3
  <2>5. p = <<p[1], p[2]>> /\ q = <<q[1], q[2]>>  OBVIOUS
  <2>. QED  BY <2>4, <2>5
<1>. HIDE DEF f
<1>6. f \in Surjection(A \X B, C) /\ f \in Injection(A \X B, C)
  BY <1>3, <1>4, <1>5 DEF Injection, Surjection, IsInjective
<1>7. /\ IsFiniteSet(A \X B) /\ Cardinality(A \X B) = Cardinality(A) * Cardinality(B)
  BY <1>1, FS_Product
<1>8. Cardinality(C) = Cardinality(A \X B)
  <2>. DEFINE AB == A \X B
  <2>1. IsFiniteSet(AB) /\ f \in Surjection(AB, C) /\ f \in Injection(AB, C)  BY <1>6, <1>7
  <2>. HIDE DEF AB
  <2>2. Cardinality(C) = Cardinality(AB)  BY <2>1, FS_Surjection
  <2>. QED  BY <2>2 DEF AB
<1>. QED  BY <1>7, <1>8 DEF A, B, C

\* No clause: everything shown is free.
LEMMA FreeCount ==
  ASSUME NEW V, IsFiniteSet(V), NEW sh
  PROVE  Cardinality(Seen({}, V, sh)) = 2 ^ Cardinality(V \cap sh)
<1>1. \A T : Satisfies(T, {})  BY DEF Satisfies
<1>2. Seen({}, V, sh) = {T \cap sh : T \in SUBSET V}  BY <1>1 DEF Seen, Models
<1>3. {T \cap sh : T \in SUBSET V} = SUBSET (V \cap sh)
  <2>1. \A T \in SUBSET (V \cap sh) : T \in SUBSET V /\ T = T \cap sh  OBVIOUS
  <2>. QED  BY <2>1
<1>4. IsFiniteSet(V \cap sh)  BY FS_Subset
<1>. QED  BY <1>2, <1>3, <1>4, FS_SUBSET

-----------------------------------------------------------------------------
(***************************************************************************)
(* A part under its own numbers shows as many assignments.                 *)
(***************************************************************************)
\* A set under other names; what sh shows is shown under them.
Image(S, name) == {name[v] : v \in S}
Renames(name, V, n) ==
  /\ name \in [V -> 1 .. n]
  /\ \A v, w \in V : name[v] = name[w] => v = w
  /\ \A i \in 1 .. n : \E v \in V : name[v] = i
ShowsAlike(name, V, sh, to) == \A S \in SUBSET V : Image(S, name) \cap to = Image(S \cap sh, name)

LEMMA ImageHolds ==
  ASSUME NEW V \in SUBSET Vars, NEW n \in Nat, NEW name, Renames(name, V, n),
         NEW S \in SUBSET V, NEW l \in Lits, VarOf(l) \in V
  PROVE  Holds(IF l > 0 THEN name[l] ELSE -name[-l], Image(S, name)) <=> Holds(l, S)
<1>. l \in Int  BY VariablesOfLiterals
<1>0. \A v \in V : name[v] \in Int /\ name[v] > 0  BY DEF Renames
<1>1. \A v \in V : name[v] \in Image(S, name) <=> v \in S
  <2>1. ASSUME NEW v \in V, name[v] \in Image(S, name) PROVE v \in S
    <3>1. PICK w \in S : name[v] = name[w]  BY <2>1 DEF Image
    <3>. QED  BY <3>1 DEF Renames
  <2>. QED  BY <2>1 DEF Image
<1>2. CASE l > 0
  <2>1. l \in V  BY <1>2 DEF VarOf
  <2>2. name[l] > 0  BY <1>0, <2>1
  <2>3. Holds(name[l], Image(S, name)) <=> name[l] \in Image(S, name)  BY <2>2 DEF Holds
  <2>4. Holds(l, S) <=> l \in S  BY <1>2 DEF Holds
  <2>. QED  BY <1>1, <1>2, <2>1, <2>3, <2>4
<1>3. CASE ~(l > 0)
  <2>. DEFINE v == -l
  <2>1. v \in V  BY <1>3 DEF VarOf
  <2>2. ~(-name[v] > 0) /\ -(-name[v]) = name[v]
    <3>1. name[v] \in Int /\ name[v] > 0  BY <1>0, <2>1
    <3>. QED  BY <3>1
  <2>3. Holds(-name[v], Image(S, name)) <=> name[v] \notin Image(S, name)  BY <2>2 DEF Holds
  <2>4. Holds(l, S) <=> v \notin S  BY <1>3 DEF Holds
  <2>. QED  BY <1>1, <1>3, <2>1, <2>3, <2>4
<1>. QED  BY <1>2, <1>3

LEMMA ImageSatisfies ==
  ASSUME NEW V \in SUBSET Vars, NEW n \in Nat, NEW name, Renames(name, V, n),
         NEW G, Over(G, V), NEW S \in SUBSET V
  PROVE  Satisfies(Image(S, name), {Renamed(c, name) : c \in G}) <=> Satisfies(S, G)
<1>. DEFINE to(l) == IF l > 0 THEN name[l] ELSE -name[-l]
            I == Image(S, name)
<1>1. \A c \in G : \A l \in c : Holds(to(l), I) <=> Holds(l, S)
  <2>. SUFFICES ASSUME NEW c \in G, NEW l \in c PROVE Holds(to(l), I) <=> Holds(l, S)  OBVIOUS
  <2>1. l \in Lits /\ VarOf(l) \in V  BY DEF Over
  <2>. QED  BY <2>1, ImageHolds
<1>2. \A c : Renamed(c, name) = {to(l) : l \in c}  BY DEF Renamed
<1>. HIDE DEF to, I
<1>3. Satisfies(I, {Renamed(c, name) : c \in G}) <=> \A c \in G : \E m \in Renamed(c, name) : Holds(m, I)
  BY DEF Satisfies
<1>4. \A c \in G : (\E m \in Renamed(c, name) : Holds(m, I)) <=> \E l \in c : Holds(l, S)
  BY <1>1, <1>2
<1>5. Satisfies(S, G) <=> \A c \in G : \E l \in c : Holds(l, S)  BY DEF Satisfies
<1>. QED  BY <1>3, <1>4, <1>5 DEF I

\* Another numbering shows as many.
LEMMA RenamedCount ==
  ASSUME NEW V \in SUBSET Vars, IsFiniteSet(V), NEW n \in Nat, NEW name, Renames(name, V, n),
         NEW G, Over(G, V), NEW sh, NEW to, ShowsAlike(name, V, sh, to)
  PROVE  Cardinality(Seen({Renamed(c, name) : c \in G}, 1 .. n, to)) = Cardinality(Seen(G, V, sh))
<1>. DEFINE H == {Renamed(c, name) : c \in G}
            A == Seen(G, V, sh)
            B == Seen(H, 1 .. n, to)
            f == [S \in A |-> Image(S, name)]
<1>1. \A S \in SUBSET V : /\ Image(S, name) \in SUBSET (1 .. n)
                          /\ (Satisfies(Image(S, name), H) <=> Satisfies(S, G))
  <2>1. \A S \in SUBSET V : Image(S, name) \in SUBSET (1 .. n)  BY DEF Image, Renames
  <2>. QED  BY <2>1, ImageSatisfies
<1>2. \A S \in SUBSET V : Image(S, name) \in Models(H, 1 .. n) <=> S \in Models(G, V)
  <2>. HIDE DEF H
  <2>. QED  BY <1>1 DEF Models
<1>3. ASSUME NEW T \in SUBSET (1 .. n) PROVE \E S \in SUBSET V : Image(S, name) = T
  <2>. DEFINE S == {v \in V : name[v] \in T}
  <2>1. \A x \in T : \E v \in S : name[v] = x  BY DEF Renames
  <2>2. \A v \in S : name[v] \in T  OBVIOUS
  <2>3. S \in SUBSET V  OBVIOUS
  <2>. HIDE DEF S
  <2>4. Image(S, name) = T  BY <2>1, <2>2 DEF Image
  <2>. QED  BY <2>3, <2>4
<1>4. \A S, T \in SUBSET V : Image(S, name) = Image(T, name) => S = T
  <2>. SUFFICES ASSUME NEW S \in SUBSET V, NEW T \in SUBSET V, Image(S, name) = Image(T, name), NEW v \in S
                PROVE  v \in T
    OBVIOUS
  <2>1. name[v] \in Image(T, name)  BY DEF Image
  <2>2. PICK w \in T : name[w] = name[v]  BY <2>1 DEF Image
  <2>. QED  BY <2>2 DEF Renames
<1>5. A \in SUBSET (SUBSET V) /\ IsFiniteSet(A)  BY SeenIsFinite
<1>6. ASSUME NEW S \in A PROVE f[S] \in B
  <2>1. PICK T \in Models(G, V) : S = T \cap sh  BY DEF Seen
  <2>2. T \in SUBSET V  BY DEF Models
  <2>3. f[S] = Image(T, name) \cap to  BY <2>1, <2>2 DEF ShowsAlike
  <2>4. Image(T, name) \in Models(H, 1 .. n)  BY <1>2, <2>2
  <2>. QED  BY <2>3, <2>4 DEF Seen
<1>7. ASSUME NEW x \in B PROVE \E S \in A : f[S] = x
  <2>. HIDE DEF H
  <2>1. PICK T \in Models(H, 1 .. n) : x = T \cap to  BY DEF Seen
  <2>2. T \in SUBSET (1 .. n)  BY DEF Models
  <2>3. PICK S \in SUBSET V : Image(S, name) = T  BY <1>3, <2>2
  <2>4. S \in Models(G, V)  BY <1>2, <2>3
  <2>5. S \cap sh \in A  BY <2>4 DEF Seen
  <2>6. f[S \cap sh] = x  BY <2>1, <2>3, <2>5 DEF ShowsAlike
  <2>. QED  BY <2>5, <2>6
<1>8. \A S, T \in A : f[S] = f[T] => S = T
  <2>. HIDE DEF A
  <2>. QED  BY <1>4, <1>5
<1>9. f \in [A -> B]
  <2>1. f = [S \in A |-> f[S]]  OBVIOUS
  <2>. HIDE DEF f, A, B
  <2>. QED  BY <1>6, <2>1
<1>. HIDE DEF f, A, B
<1>10. f \in Surjection(A, B) /\ f \in Injection(A, B)
  BY <1>7, <1>8, <1>9 DEF Surjection, Injection, IsInjective
<1>11. Cardinality(B) = Cardinality(A)  BY <1>5, <1>10, FS_Surjection
<1>. QED  BY <1>11 DEF A, B, H

ShownVars(run) == IF run.show = None THEN Vars ELSE run.show
ClausesAt(run, i) == {run.clauses[k] : k \in Cuts(run)[i]}

\* The count of a part is that of its clauses over its variables.
LEMMA PartsCount ==
  ASSUME NEW run, Fits(run), NEW i \in DOMAIN Cuts(run)
  PROVE  PartCount(run, i) = Cardinality(Seen(ClausesAt(run, i), VarsAt(run, i), ShownVars(run)))
<1>. DEFINE C == Cuts(run)[i]
            V == VarsAt(run, i)
            n == Cardinality(V)
            r == [clauses |-> run.clauses, show |-> run.show]
            outer == LocalToOuter(run.clauses, C)
            local == [v \in ToSet(outer) |-> CHOOSE k \in DOMAIN outer : outer[k] = v]
            named == [k \in C |-> Renamed(run.clauses[k], local)]
            view == View(run, C)
            G == ClausesAt(run, i)
            H == {Renamed(c, local) : c \in G}
            to == IF run.show = None THEN 1 .. n ELSE {local[v] : v \in run.show \cap V}
<1>1. V \in SUBSET Vars /\ IsFiniteSet(V) /\ n \in Nat /\ Lists(outer, V)  BY OuterLists, PartVariables
<1>2. DOMAIN outer = 1 .. n /\ Len(outer) = n /\ ToSet(outer) = V
  <2>. HIDE DEF V, outer, n
  <2>. QED  BY <1>1, ListedSequence DEF n
<1>3. /\ view.size = Len(outer) /\ DOMAIN view.clauses = {named[k] : k \in C}
      /\ view.show = IF run.show = None THEN None ELSE {local[v] : v \in run.show \cap ToSet(outer)}
  BY DEF View, LocalView
<1>4. Manifest(run).entries[i].show = view.show  BY DEF Manifest, Entry
<1>5. PartCount(run, i) = Counted(DOMAIN view.clauses, view.size, view.show)  BY <1>4 DEF PartCount
<1>6. {named[k] : k \in C} = H
  <2>1. H = {Renamed(run.clauses[k], local) : k \in C}  BY DEF ClausesAt
  <2>. QED  BY <2>1
<1>7. Renames(local, V, n)
  <2>1. \A v \in V : \E k \in 1 .. n : outer[k] = v  BY <1>1 DEF Lists
  <2>2. local = [v \in V |-> CHOOSE k \in 1 .. n : outer[k] = v]  BY <1>2
  <2>3. \A v \in V : local[v] \in 1 .. n /\ outer[local[v]] = v
    <3>. HIDE DEF local, V, outer, n
    <3>. QED  BY <2>1, <2>2
  <2>4. local \in [V -> 1 .. n]
    <3>1. local = [v \in V |-> local[v]]  BY <2>2
    <3>. HIDE DEF local, V, outer, n
    <3>. QED  BY <2>3, <3>1
  <2>5. \A k \in 1 .. n : outer[k] \in V /\ \A j \in 1 .. n : outer[j] = outer[k] => j = k
    BY <1>1 DEF Lists
  <2>. HIDE DEF local, V, outer, n
  <2>. QED  BY <2>3, <2>4, <2>5 DEF Renames
<1>8. n <= NumVars
  <2>1. IsFiniteSet(1 .. NumVars) /\ Cardinality(1 .. NumVars) = NumVars
    <3>1. \A m \in Nat : IsFiniteSet(1 .. m) /\ Cardinality(1 .. m) = m  BY FS_Interval
    <3>. QED  BY <3>1, NumVarsAssumption
  <2>2. V \in SUBSET (1 .. NumVars)  BY <1>1 DEF Vars
  <2>. HIDE DEF V
  <2>. QED  BY <2>1, <2>2, FS_Subset
<1>. HIDE DEF view, named, outer, n
<1>9. Counted(DOMAIN view.clauses, view.size, view.show) = Cardinality(Seen(H, 1 .. n, to))
  <2>1. CASE run.show = None
    <3>1. view.show = None /\ to = 1 .. n  BY <1>3, <2>1
    <3>. HIDE DEF to, H
    <3>. QED  BY <1>2, <1>3, <1>6, <3>1 DEF Counted, Seen
  <2>2. CASE run.show # None
    <3>1. view.show = to
      <4>. HIDE DEF local, V
      <4>. QED  BY <1>2, <1>3, <2>2
    <3>2. to \in SUBSET (1 .. n)
      <4>1. to = {local[v] : v \in run.show \cap V}  BY <2>2
      <4>2. \A v \in V : local[v] \in 1 .. n
        <5>. HIDE DEF local, V
        <5>. QED  BY <1>7 DEF Renames
      <4>. HIDE DEF to, local, V
      <4>. QED  BY <4>1, <4>2
    <3>3. to # None
      <4>1. 1 .. n \subseteq Vars  BY <1>1, <1>8, NumVarsAssumption DEF Vars
      <4>. HIDE DEF to
      <4>2. to \in SUBSET Vars  BY <3>2, <4>1
      <4>. QED  BY <4>2, HostAssumption
    <3>. HIDE DEF to, H
    <3>. QED  BY <1>2, <1>3, <1>6, <3>1, <3>3 DEF Counted, Seen
  <2>. QED  BY <2>1, <2>2
<1>10. ShowsAlike(local, V, ShownVars(run), to)
  <2>1. CASE run.show = None
    <3>1. to = 1 .. n /\ ShownVars(run) = Vars  BY <2>1 DEF ShownVars
    <3>. HIDE DEF to, local, V
    <3>. QED  BY <1>1, <1>7, <3>1 DEF ShowsAlike, Renames, Image
  <2>2. CASE run.show # None
    <3>1. to = {local[v] : v \in run.show \cap V} /\ ShownVars(run) = run.show  BY <2>2 DEF ShownVars
    <3>. HIDE DEF to, local, V
    <3>2. ASSUME NEW S \in SUBSET V, NEW x \in Image(S, local), x \in to PROVE x \in Image(S \cap run.show, local)
      <4>1. PICK v \in S : x = local[v]  BY <3>2 DEF Image
      <4>2. PICK w \in run.show \cap V : x = local[w]  BY <3>1, <3>2
      <4>3. v = w  BY <1>7, <4>1, <4>2 DEF Renames
      <4>. QED  BY <4>1, <4>2, <4>3 DEF Image
    <3>3. ASSUME NEW S \in SUBSET V, NEW x \in Image(S \cap run.show, local) PROVE x \in Image(S, local) /\ x \in to
      BY <3>1 DEF Image
    <3>. QED  BY <3>1, <3>2, <3>3 DEF ShowsAlike
  <2>. QED  BY <2>1, <2>2
<1>11. Over(G, V)
  <2>1. \A k \in C : run.clauses[k] \in SUBSET Lits /\ \A l \in run.clauses[k] : VarOf(l) \in V
    BY PartVariables
  <2>. QED  BY <2>1 DEF Over, ClausesAt
<1>12. Cardinality(Seen(H, 1 .. n, to)) = Cardinality(Seen(G, V, ShownVars(run)))
  <2>. HIDE DEF V, G, to, local
  <2>1. Cardinality(Seen({Renamed(c, local) : c \in G}, 1 .. n, to)) = Cardinality(Seen(G, V, ShownVars(run)))
    BY <1>1, <1>7, <1>10, <1>11, RenamedCount
  <2>. QED  BY <2>1
<1>. QED  BY <1>5, <1>9, <1>12

-----------------------------------------------------------------------------
(***************************************************************************)
(* The counts of the parts compose: one part after the other, beside the   *)
(* free variables.                                                         *)
(***************************************************************************)
\* What a product over 1 .. n goes through.
Multiplies(p, n, f) ==
  /\ p \in [0 .. n -> Nat] /\ p[0] = 1
  /\ \A k \in 1 .. n : p[k] = p[k - 1] * f[k]

LEMMA CountsMultiply ==
  ASSUME NEW n \in Nat, NEW f \in [1 .. n -> Nat]
  PROVE  \E p : Multiplies(p, n, f) /\ p[n] = ProductOf(f)
<1>. DEFINE St == Nat
            base == 1
            step == [x \in (1 .. n) \X St |-> x[2] * f[x[1]]]
            Turn(it, T) == IF T = {} THEN 1 ELSE it[T \ {Max(T)}] * f[Max(T)]
            iter == CHOOSE it : it = [T \in SUBSET (1 .. n) |-> Turn(it, T)]
            product == ProductOf(f)
<1>1. step \in [(1 .. n) \X St -> St]
  <2>1. \A x \in (1 .. n) \X St : x[2] \in Nat /\ f[x[1]] \in Nat  OBVIOUS
  <2>2. \A a, b \in Nat : a * b \in Nat  OBVIOUS
  <2>. QED  BY <2>1, <2>2
<1>2. base \in St  OBVIOUS
<1>3. product = iter[1 .. n]
  <2>1. DOMAIN f = 1 .. n  OBVIOUS
  <2>. QED  BY <2>1, Zenon DEF ProductOf, FoldLeft, MapThenFoldSet
<1>4. \A T \in (SUBSET (1 .. n)) \ {{}} : Max(T) \in 1 .. n
  BY MaxOfNumbers
<1>5. PICK g \in [SUBSET (1 .. n) -> St] : IsIteration(g, n, base, step)
  <2>. HIDE DEF step, base, St
  <2>. QED  BY <1>1, <1>2, IterationExists
<1>7. g = [T \in SUBSET (1 .. n) |-> Turn(g, T)]
  <2>1. \A T \in SUBSET (1 .. n) : T \ {Max(T)} \in SUBSET (1 .. n)  OBVIOUS
  <2>2. \A T \in (SUBSET (1 .. n)) \ {{}} : g[T] = g[T \ {Max(T)}] * f[Max(T)]
    <3>. QED  BY <1>4, <1>5, <2>1 DEF IsIteration
  <2>3. \A T \in SUBSET (1 .. n) : g[T] = Turn(g, T)
    <3>1. g[{}] = 1  BY <1>5 DEF IsIteration
    <3>. QED  BY <2>2, <3>1
  <2>. HIDE DEF Turn
  <2>. QED  BY <2>3
<1>8. iter = [T \in SUBSET (1 .. n) |-> Turn(iter, T)]
  <2>. HIDE DEF Turn
  <2>. QED  BY <1>7
<1>9. Iterates(iter, n, St, base, step)
  <2>. HIDE DEF iter
  <2>1. iter[{}] = base  BY <1>8
  <2>2. ASSUME NEW T \in (SUBSET (1 .. n)) \ {{}}, iter[T \ {Max(T)}] \in St
        PROVE  iter[T] = step[<<Max(T), iter[T \ {Max(T)}]>>]
    <3>1. iter[T] = iter[T \ {Max(T)}] * f[Max(T)]
      <4>. QED  BY <1>4, <1>8
    <3>2. <<Max(T), iter[T \ {Max(T)}]>> \in (1 .. n) \X St  BY <1>4, <2>2
    <3>. QED  BY <3>1, <3>2
  <2>. HIDE DEF step
  <2>. QED  BY <2>1, <2>2 DEF Iterates
<1>. HIDE DEF iter
<1>10. GoesThrough(iter, n, St, step)
  <2>. HIDE DEF step, base, St
  <2>. QED  BY <1>1, <1>2, <1>9, IterationRuns
<1>. DEFINE p == [k \in 0 .. n |-> iter[1 .. k]]
<1>11. p \in [0 .. n -> Nat]  BY <1>10 DEF GoesThrough
<1>12. p[0] = 1 /\ p[n] = product
  <2>1. 1 .. 0 = {} /\ 0 \in 0 .. n /\ n \in 0 .. n  OBVIOUS
  <2>2. iter[{}] = 1  BY <1>9 DEF Iterates
  <2>. HIDE DEF product
  <2>. QED  BY <1>3, <2>1, <2>2
<1>13. ASSUME NEW k \in 1 .. n PROVE p[k] = p[k - 1] * f[k]
  <2>1. iter[1 .. k] = step[<<k, iter[1 .. k - 1]>>]  BY <1>10 DEF GoesThrough
  <2>2. k \in 0 .. n /\ k - 1 \in 0 .. n  OBVIOUS
  <2>3. p[k] = iter[1 .. k] /\ p[k - 1] = iter[1 .. k - 1] /\ p[k - 1] \in Nat  BY <1>11, <2>2
  <2>4. <<k, p[k - 1]>> \in (1 .. n) \X St  BY <2>3
  <2>. HIDE DEF p
  <2>. QED  BY <2>1, <2>3, <2>4
<1>. HIDE DEF p, product
<1>14. Multiplies(p, n, f)  BY <1>11, <1>12, <1>13 DEF Multiplies
<1>. QED  BY <1>12, <1>14 DEF product

\* The first k parts, beside the free variables.
ClausesUpTo(run, k) == UNION {ClausesAt(run, i) : i \in 1 .. k}
VarsUpTo(run, k) == Manifest(run).free \cup UNION {VarsAt(run, i) : i \in 1 .. k}

LEMMA PartsMultiply ==
  ASSUME NEW run, Fits(run), NEW p,
         Multiplies(p, Len(Cuts(run)), [i \in 1 .. Len(Cuts(run)) |-> PartCount(run, i)]),
         NEW k \in 0 .. Len(Cuts(run))
  PROVE  Cardinality(Seen(ClausesUpTo(run, k), VarsUpTo(run, k), ShownVars(run)))
           = 2 ^ Cardinality(ShownOf(Manifest(run).free, run)) * p[k]
<1>. DEFINE n == Len(Cuts(run))
            sh == ShownVars(run)
            free == Manifest(run).free
            b == 2 ^ Cardinality(ShownOf(free, run))
            G(j) == ClausesUpTo(run, j)
            V(j) == VarsUpTo(run, j)
            Good == {j \in 0 .. n : Cardinality(Seen(G(j), V(j), sh)) = b * p[j]}
            f == [i \in 1 .. n |-> PartCount(run, i)]
<1>1. n \in Nat /\ DOMAIN Cuts(run) = 1 .. n  BY DEF Fits
<1>2. /\ p \in [0 .. n -> Nat] /\ p[0] = 1
      /\ \A j \in 1 .. n : p[j] = p[j - 1] * PartCount(run, j)
  BY DEF Multiplies
<1>3. free \in SUBSET Vars /\ \A i \in 1 .. n : VarsAt(run, i) \in SUBSET Vars /\ free \cap VarsAt(run, i) = {}
  <2>1. free = Vars \ UNION {VarsAt(run, i) : i \in 1 .. n}  BY <1>1 DEF Manifest, Unclaimed, VarsAt
  <2>2. \A i \in 1 .. n : VarsAt(run, i) \in SUBSET Vars  BY <1>1, PartVariables
  <2>. HIDE DEF free, n
  <2>. QED  BY <2>1, <2>2
<1>4. IsFiniteSet(Vars)
  <2>1. \A m \in Nat : IsFiniteSet(1 .. m)  BY FS_Interval
  <2>. QED  BY <2>1, NumVarsAssumption DEF Vars
<1>5. b = Cardinality(Seen({}, free, sh)) /\ b \in Nat
  <2>1. ShownOf(free, run) = free \cap sh
    <3>. HIDE DEF free
    <3>. QED  BY <1>3 DEF ShownOf, ShownVars
  <2>2. IsFiniteSet(free)
    <3>. HIDE DEF free
    <3>. QED  BY <1>3, <1>4, FS_Subset
  <2>. HIDE DEF free, sh
  <2>3. Cardinality(Seen({}, free, sh)) = 2 ^ Cardinality(free \cap sh)  BY <2>2, FreeCount
  <2>4. Cardinality(Seen({}, free, sh)) \in Nat  BY <2>2, SeenIsFinite
  <2>. QED  BY <2>1, <2>3, <2>4
<1>6. G(0) = {} /\ V(0) = free
  <2>1. 1 .. 0 = {}  OBVIOUS
  <2>. QED  BY <2>1 DEF ClausesUpTo, VarsUpTo
<1>7. ASSUME NEW j \in 0 .. n - 1
      PROVE  /\ G(j + 1) = G(j) \cup ClausesAt(run, j + 1)
             /\ V(j + 1) = V(j) \cup VarsAt(run, j + 1)
             /\ V(j) \in SUBSET Vars /\ V(j) \cap VarsAt(run, j + 1) = {} /\ Over(G(j), V(j))
             /\ Over(ClausesAt(run, j + 1), VarsAt(run, j + 1))
  <2>1. 1 .. j + 1 = (1 .. j) \cup {j + 1} /\ \A i \in 1 .. j : i \in 1 .. n /\ i # j + 1  BY <1>1
  <2>2. j + 1 \in 1 .. n  BY <1>1
  <2>3. \A i \in 1 .. j : VarsAt(run, i) \cap VarsAt(run, j + 1) = {}  BY <1>1, <2>1, <2>2 DEF Fits
  <2>4. \A i \in 1 .. n : Over(ClausesAt(run, i), VarsAt(run, i))
    <3>. SUFFICES ASSUME NEW i \in 1 .. n PROVE Over(ClausesAt(run, i), VarsAt(run, i))  OBVIOUS
    <3>1. \A q \in Cuts(run)[i] : run.clauses[q] \in SUBSET Lits
                                  /\ \A l \in run.clauses[q] : VarOf(l) \in VarsAt(run, i)
      BY <1>1, PartVariables
    <3>. QED  BY <3>1 DEF Over, ClausesAt
  <2>. HIDE DEF free, n
  <2>5. Over(G(j), V(j))
    <3>. SUFFICES ASSUME NEW i \in 1 .. j, NEW c \in ClausesAt(run, i)
                  PROVE  c \in SUBSET Lits /\ \A l \in c : VarOf(l) \in V(j)
      BY DEF Over, ClausesUpTo
    <3>1. c \in SUBSET Lits /\ \A l \in c : VarOf(l) \in VarsAt(run, i)  BY <2>1, <2>4 DEF Over
    <3>. QED  BY <3>1 DEF VarsUpTo
  <2>6. G(j + 1) = G(j) \cup ClausesAt(run, j + 1)
    <3>1. \A x : x \in G(j + 1) <=> x \in G(j) \/ x \in ClausesAt(run, j + 1)  BY <2>1 DEF ClausesUpTo
    <3>. QED  BY <3>1
  <2>7. V(j + 1) = V(j) \cup VarsAt(run, j + 1)
    <3>1. \A x : x \in V(j + 1) <=> x \in V(j) \/ x \in VarsAt(run, j + 1)  BY <2>1 DEF VarsUpTo
    <3>. QED  BY <3>1
  <2>8. V(j) \in SUBSET Vars /\ V(j) \cap VarsAt(run, j + 1) = {}
    <3>1. V(j) = free \cup UNION {VarsAt(run, i) : i \in 1 .. j}  BY DEF VarsUpTo, free
    <3>. QED  BY <1>3, <2>1, <2>2, <2>3, <3>1
  <2>. QED  BY <2>2, <2>4, <2>5, <2>6, <2>7, <2>8
<1>8. 0 \in Good
  <2>1. b * 1 = b /\ 0 \in 0 .. n  BY <1>1, <1>5
  <2>. HIDE DEF b, free, G, V, n
  <2>. QED  BY <1>2, <1>5, <1>6, <2>1
<1>9. ASSUME NEW j \in 0 .. n - 1, j \in Good PROVE j + 1 \in Good
  <2>. DEFINE H == ClausesAt(run, j + 1)
              W == VarsAt(run, j + 1)
              A == G(j)
              U == V(j)
              e == PartCount(run, j + 1)
              a == Cardinality(Seen(A, U, sh))
  <2>1. j + 1 \in 1 .. n /\ j + 1 \in 0 .. n /\ j \in 0 .. n /\ (j + 1) - 1 = j  BY <1>1
  <2>2. e = Cardinality(Seen(H, W, sh))  BY <1>1, <2>1, PartsCount
  <2>3. IsFiniteSet(U) /\ IsFiniteSet(W)
    <3>1. U \in SUBSET Vars /\ W \in SUBSET Vars  BY <1>3, <1>7, <2>1
    <3>. HIDE DEF U, W
    <3>. QED  BY <1>4, <3>1, FS_Subset
  <2>4. Over(A, U) /\ Over(H, W) /\ U \cap W = {} /\ G(j + 1) = A \cup H /\ V(j + 1) = U \cup W  BY <1>7
  <2>5. a = b * p[j]  BY <1>9
  <2>6. p[j + 1] = p[j] * e  BY <1>2, <2>1
  <2>. HIDE DEF A, H, U, W, sh, G, V, b
  <2>7. Cardinality(Seen(A \cup H, U \cup W, sh)) = a * Cardinality(Seen(H, W, sh))
    BY <2>3, <2>4, JoinCount
  <2>8. e \in Nat /\ p[j] \in Nat  BY <1>2, <2>1, <2>2, <2>3, SeenIsFinite
  <2>. HIDE DEF e, a
  <2>9. (b * p[j]) * e = b * (p[j] * e)
    <3>1. \A x, y, z \in Nat : (x * y) * z = x * (y * z)  OBVIOUS
    <3>. QED  BY <1>5, <2>8, <3>1
  <2>10. Cardinality(Seen(G(j + 1), V(j + 1), sh)) = b * p[j + 1]  BY <2>2, <2>4, <2>5, <2>6, <2>7, <2>9
  <2>. QED  BY <2>1, <2>10
<1>. HIDE DEF Good, n
<1>10. 0 .. n \subseteq Good  BY <1>1, <1>8, <1>9, BoundedInduction
<1>. QED  BY <1>10 DEF Good, n

FreeFactor(run, left) == 2 ^ Cardinality(ShownOf(left, run))
PartCounts(run) == [i \in DOMAIN Cuts(run) |-> PartCount(run, i)]
EntryCounts(run) == [i \in DOMAIN Cuts(run) |-> EntryCount(run, i)]

LEMMA WholeCount ==
  ASSUME NEW run
  PROVE  CountOf(run) = Cardinality(Seen(ToSet(run.clauses), Vars, ShownVars(run)))
BY DEF CountOf, Counted, Seen, ShownVars, Vars

\* A build whose parts hold all the clauses: the counts of the parts compose.
LEMMA PartsCompose ==
  ASSUME NEW run, Fits(run), UNION {Cuts(run)[i] : i \in DOMAIN Cuts(run)} = DOMAIN run.clauses
  PROVE  CountOf(run) = FreeFactor(run, Manifest(run).free) * ProductOf(PartCounts(run))
<1>. DEFINE n == Len(Cuts(run))
            F == ToSet(run.clauses)
            b == FreeFactor(run, Manifest(run).free)
            counts == [i \in 1 .. n |-> PartCount(run, i)]
<1>1. n \in Nat /\ DOMAIN Cuts(run) = 1 .. n  BY DEF Fits
<1>2. \A i \in 1 .. n : PartCount(run, i) \in Nat
  <2>. SUFFICES ASSUME NEW i \in 1 .. n PROVE PartCount(run, i) \in Nat  OBVIOUS
  <2>1. IsFiniteSet(VarsAt(run, i))  BY <1>1, OuterLists
  <2>2. PartCount(run, i) = Cardinality(Seen(ClausesAt(run, i), VarsAt(run, i), ShownVars(run)))
    BY <1>1, PartsCount
  <2>3. Cardinality(Seen(ClausesAt(run, i), VarsAt(run, i), ShownVars(run))) \in Nat  BY <2>1, SeenIsFinite
  <2>. QED  BY <2>2, <2>3
<1>3. PICK p : Multiplies(p, n, counts) /\ p[n] = ProductOf(counts)
  <2>1. counts \in [1 .. n -> Nat]  BY <1>2
  <2>. HIDE DEF n, counts
  <2>. QED  BY <1>1, <2>1, CountsMultiply
<1>4. n \in 0 .. n  BY <1>1
<1>5. Cardinality(Seen(ClausesUpTo(run, n), VarsUpTo(run, n), ShownVars(run))) = b * p[n]
  BY <1>3, <1>4, PartsMultiply DEF FreeFactor
<1>6. ClausesUpTo(run, n) = F
  <2>1. F = {run.clauses[q] : q \in DOMAIN run.clauses}  BY DEF ToSet
  <2>2. ClausesUpTo(run, n) = UNION {{run.clauses[q] : q \in Cuts(run)[i]} : i \in 1 .. n}
    BY DEF ClausesUpTo, ClausesAt
  <2>. HIDE DEF n, F
  <2>3. \A q : q \in DOMAIN run.clauses <=> \E i \in 1 .. n : q \in Cuts(run)[i]  BY <1>1
  <2>. QED  BY <2>1, <2>2, <2>3
<1>7. VarsUpTo(run, n) = Vars
  <2>1. Manifest(run).free = Vars \ UNION {VarsAt(run, i) : i \in 1 .. n}
    BY <1>1 DEF Manifest, Unclaimed, VarsAt
  <2>2. \A i \in 1 .. n : VarsAt(run, i) \in SUBSET Vars  BY <1>1, PartVariables
  <2>. HIDE DEF n
  <2>. QED  BY <2>1, <2>2 DEF VarsUpTo
<1>8. counts = PartCounts(run)  BY <1>1 DEF PartCounts
<1>9. CountOf(run) = b * ProductOf(counts)  BY <1>3, <1>5, <1>6, <1>7, WholeCount
<1>. QED  BY <1>8, <1>9

\* What the files of a split run declare is what their entries' maps name.
LEMMA DeclaredByParts ==
  ASSUME NEW run, Fits(run), run.comps # None
  PROVE  Manifest(run).free \ Declared(run) = Manifest(run).free
<1>1. \A i \in DOMAIN Cuts(run) : ToSet(Manifest(run).entries[i].map) = VarsAt(run, i)
  <2>. SUFFICES ASSUME NEW i \in DOMAIN Cuts(run)
                PROVE  ToSet(Manifest(run).entries[i].map) = VarsAt(run, i)
    OBVIOUS
  <2>1. Manifest(run).entries[i].map = LocalToOuter(run.clauses, Cuts(run)[i])
    BY DEF Manifest, Entry, View, LocalView
  <2>2. Lists(LocalToOuter(run.clauses, Cuts(run)[i]), VarsAt(run, i))  BY OuterLists
  <2>3. IsFiniteSet(VarsAt(run, i))  BY OuterLists
  <2>. QED  BY <2>1, <2>2, <2>3, ListedSequence
<1>2. Declared(run) = UNION {VarsAt(run, i) : i \in DOMAIN Cuts(run)}  BY <1>1 DEF Declared
<1>3. Manifest(run).free = Vars \ UNION {VarsAt(run, i) : i \in DOMAIN Cuts(run)}
  BY DEF Manifest, Unclaimed, VarsAt
<1>. QED  BY <1>2, <1>3

\* The named files of a split run hold its parts; that of a run that was not
\* split is the formula.
LEMMA EntriesCompose ==
  ASSUME NEW run, Fits(run),
         CountOf(run) = FreeFactor(run, Manifest(run).free) * ProductOf(PartCounts(run))
  PROVE  CountOf(run) = FreeFactor(run, Manifest(run).free \ Declared(run)) * ProductOf(EntryCounts(run))
<1>1. CASE run.comps # None
  <2>1. \A i \in DOMAIN Cuts(run) : EntryCount(run, i) = PartCount(run, i)
    BY <1>1 DEF EntryCount, CnfFile, PartCount, Manifest, Entry
  <2>2. EntryCounts(run) = PartCounts(run)  BY <2>1 DEF EntryCounts, PartCounts
  <2>. QED  BY <1>1, <2>2, DeclaredByParts
<1>2. CASE run.comps = None
  <2>. DEFINE left == Manifest(run).free \ Declared(run)
              f == [i \in 1 .. 1 |-> CountOf(run)]
  <2>1. left = {}  BY <1>2 DEF Manifest, Unclaimed, Declared
  <2>2. FreeFactor(run, left) = 1
    <3>1. ShownOf(left, run) = {}  BY <2>1 DEF ShownOf
    <3>2. Cardinality(ShownOf(left, run)) = 0  BY <3>1, FS_EmptySet
    <3>. HIDE DEF left
    <3>. QED  BY <3>2 DEF FreeFactor
  <2>3. EntryCounts(run) = f
    <3>1. DOMAIN Cuts(run) = 1 .. 1  BY <1>2 DEF Cuts
    <3>2. \A i \in 1 .. 1 : EntryCount(run, i) = CountOf(run)
      BY <1>2 DEF EntryCount, CnfFile, CountOf
    <3>. QED  BY <3>1, <3>2 DEF EntryCounts
  <2>4. CountOf(run) \in Nat
    <3>1. IsFiniteSet(Vars)
      <4>1. \A m \in Nat : IsFiniteSet(1 .. m)  BY FS_Interval
      <4>. QED  BY <4>1, NumVarsAssumption DEF Vars
    <3>. QED  BY <3>1, WholeCount, SeenIsFinite
  <2>5. PICK p : Multiplies(p, 1, f) /\ p[1] = ProductOf(f)
    <3>1. f \in [1 .. 1 -> Nat]  BY <2>4
    <3>. HIDE DEF f
    <3>. QED  BY <3>1, CountsMultiply
  <2>6. p[0] = 1 /\ p[1] = p[0] * f[1]
    <3>1. 1 \in 1 .. 1 /\ 1 - 1 = 0  OBVIOUS
    <3>. HIDE DEF f
    <3>. QED  BY <2>5, <3>1 DEF Multiplies
  <2>7. ProductOf(f) = CountOf(run)
    <3>1. f[1] = CountOf(run)  OBVIOUS
    <3>. HIDE DEF f
    <3>. QED  BY <2>4, <2>5, <2>6, <3>1
  <2>. HIDE DEF left, f
  <2>8. 1 * CountOf(run) = CountOf(run)  BY <2>4
  <2>. QED  BY <2>2, <2>3, <2>7, <2>8 DEF left
<1>. QED  BY <1>1, <1>2

LEMMA OwnRunsCompose == Runs \cap Accepted \subseteq Composing
<1>. SUFFICES ASSUME NEW name \in Runs \cap Accepted PROVE name \in Composing  OBVIOUS
<1>. DEFINE run == RunNamed[name]
<1>1. Fits(run) /\ UNION {Cuts(run)[i] : i \in DOMAIN Cuts(run)} = DOMAIN run.clauses  BY AcceptedFits
<1>. HIDE DEF run
<1>2. CountOf(run) = FreeFactor(run, Manifest(run).free) * ProductOf(PartCounts(run))  BY <1>1, PartsCompose
<1>3. CountOf(run) = FreeFactor(run, Manifest(run).free \ Declared(run)) * ProductOf(EntryCounts(run))
  BY <1>1, <1>2, EntriesCompose
<1>4. Composes(run)  BY <1>2, <1>3 DEF Composes, FreeFactor, PartCounts, EntryCounts
<1>. QED  BY <1>4 DEF Composing, run

\* WrittenReadsBack (write_components_to, check_build_belongs, VitriRun::write_to):
\* for every run, way of writing and earlier content of the directory, a write
\* that reports success leaves a manifest of this run whose files are all there
\* and whole; it numbers each variable once, so the assertion after the write
\* never fires; and the counts of a run of the library compose.
THEOREM WritesAlwaysReadBack == Spec => []WrittenReadsBack
<1>1. WriteInv /\ Checked => WrittenReadsBack  BY AcceptedMatch, OwnRunsCompose, ReadsBack
<1>. QED  BY <1>1, CheckedHolds, PTL

=============================================================================
