------------------------------- MODULE Gates -------------------------------
(***************************************************************************)
(* Structural gate detection (src/src/preprocess/gates.rs): variables whose *)
(* still-active clauses are exactly the encoding of y = f(inputs).  The    *)
(* outputs found are what DVE takes as known to be defined.                *)
(***************************************************************************)
EXTENDS Cnf, SequencesExt

\* The encoding of an AND gate with output literal o > 0 and inputs X, and by
\* duality of an OR gate with output -o: inputs restated with uniform sign.
AndOr(o, X) ==
  LET in(x) == IF o > 0 THEN x ELSE -x
  IN  {{o} \cup {-in(x) : x \in X}} \cup {{-o, in(x)} : x \in X}

\* The four ternary clauses over y, a, b whose signs multiply to p.
Parity(y, a, b, p) == {{i * y, j * a, i * j * p * b} : i, j \in {1, -1}}

\* y = if s then a else b.
Ite(y, s, a, b) == {{-s, -a, y}, {-s, a, -y}, {s, -b, y}, {s, b, -y}}

\* Do the clauses occ, all the active ones that mention y, encode a gate with
\* output y over variables that are no gate's output yet?
IsGate(y, occ, outs) ==
  LET inputs == Vars \ (outs \cup {y})
  IN  \/ \E X \in SUBSET inputs \ {{}} : occ \in {AndOr(y, X), AndOr(-y, X)}
      \/ \E a, b \in inputs, p \in {1, -1} : a # b /\ occ = Parity(y, a, b, p)
      \/ \E s, a, b \in inputs : Cardinality({s, a, b}) = 3 /\ occ = Ite(y, s, a, b)

\* One look at the variable y: found is [outs, used], the outputs detected so
\* far and the clauses they consumed.
TryGate(F, found, y) ==
  LET occ == {c \in F \ found.used : y \in c \/ -y \in c}
  IN  IF y \notin found.outs /\ IsGate(y, occ, found.outs)
        THEN [outs |-> found.outs \cup {y}, used |-> found.used \cup occ]
        ELSE found

\* Every variable in ascending order, again until nothing changes: NumVars
\* sweeps are enough, since a sweep that changes anything finds an output.
DetectGates(F) ==
  LET sweeps == [i \in 1 .. NumVars * NumVars |-> 1 + ((i - 1) % NumVars)]
  IN  FoldLeft(LAMBDA found, y : TryGate(F, found, y),
               [outs |-> {}, used |-> {}], sweeps).outs

=============================================================================
