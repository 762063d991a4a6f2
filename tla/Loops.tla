-------------------------------- MODULE Loops --------------------------------
(***************************************************************************)
(* Induction over the passes of a loop.  A loop of the code is a function  *)
(* defined by recursion over 0 .. n; that the function exists, and what it *)
(* computes, is proved by induction up to n.  Both are stated with sets    *)
(* and functions, so that a proof can cite them for any loop.              *)
(***************************************************************************)
EXTENDS Integers, WellFoundedInduction, TLAPS

\* Induction up to n: what holds of 0 and is handed on holds of 0, ..., n.
LEMMA UpTo ==
  ASSUME NEW n \in Nat, NEW S, 0 \in S, \A i \in 1 .. n : i - 1 \in S => i \in S
  PROVE  \A i \in 0 .. n : i \in S
<1> DEFINE R == OpToRel(<, Nat)
           T == {i \in 0 .. n : i \notin S}
<1> SUFFICES ASSUME T # {} PROVE FALSE
  OBVIOUS
<1>1. T \subseteq Nat
  OBVIOUS
<1>2. IsWellFoundedOn(R, Nat)
  BY NatLessThanWellFounded
<1>3. PICK x \in T : \A y \in T : ~(<<y, x>> \in R)
  <2> HIDE DEF R, T
  <2> QED BY <1>1, <1>2, WFMin
<1>4. \A y \in T : ~(y < x)
  BY <1>1, <1>3 DEF OpToRel
<1>5. x \in 1 .. n /\ x - 1 \in 0 .. n
  OBVIOUS
<1>6. x - 1 \in S
  BY <1>4, <1>5
<1> QED BY <1>5, <1>6

\* f is the run of a loop that starts with first and whose i-th pass is step[i].
Runs(f, n, first, step) == f[0] = first /\ \A i \in 1 .. n : f[i] = step[i][f[i - 1]]

\* A loop of n passes has a run.
LEMMA RunExists ==
  ASSUME NEW n \in Nat, NEW X, NEW first \in X, NEW step \in [1 .. n -> [X -> X]]
  PROVE  \E f \in [0 .. n -> X] : Runs(f, n, first, step)
<1> DEFINE S == {m \in 0 .. n : \E f \in [0 .. m -> X] : Runs(f, m, first, step)}
<1>1. 0 \in S
  <2> DEFINE f == [i \in 0 .. 0 |-> first]
  <2>1. f \in [0 .. 0 -> X] /\ Runs(f, 0, first, step)
    BY DEF Runs
  <2> HIDE DEF f
  <2> QED BY <2>1
<1>2. ASSUME NEW m \in 1 .. n, m - 1 \in S PROVE m \in S
  <2>1. PICK f \in [0 .. m - 1 -> X] : Runs(f, m - 1, first, step)
    BY <1>2
  <2> DEFINE g == [i \in 0 .. m |-> IF i = m THEN step[m][f[m - 1]] ELSE f[i]]
  <2>2. f[m - 1] \in X /\ step[m] \in [X -> X]
    OBVIOUS
  <2>3. g \in [0 .. m -> X]
    BY <2>2
  <2>4. g[0] = first
    BY <2>1 DEF Runs
  <2>5. ASSUME NEW i \in 1 .. m PROVE g[i] = step[i][g[i - 1]]
    <3>1. g[i - 1] = f[i - 1]
      OBVIOUS
    <3> QED BY <2>1, <3>1 DEF Runs
  <2> HIDE DEF g
  <2>6. Runs(g, m, first, step)
    BY <2>4, <2>5 DEF Runs
  <2> QED BY <2>3, <2>6
<1>3. \A m \in 0 .. n : m \in S
  <2> HIDE DEF S
  <2> QED BY <1>1, <1>2, UpTo
<1>4. n \in S
  BY <1>3
<1> QED BY <1>4

=============================================================================
