------------------------------- MODULE Loops --------------------------------
(***************************************************************************)
(* What proofs about loops rest on: that a set of numbers has a least one, *)
(* that what holds at zero and goes over from one turn to the next holds   *)
(* after all of them, and that a loop computes something.  The loops of    *)
(* the code are recursive functions on 0 .. n in the modules.              *)
(***************************************************************************)
EXTENDS Integers, FiniteSetsExt, WellFoundedInduction, TLAPS

\* A set of numbers has a least one, which is Min of it.
LEMMA MinIs ==
    ASSUME NEW S, S \subseteq Nat, S # {}
    PROVE  /\ Min(S) \in S
           /\ \A y \in S : Min(S) <= y
<1> DEFINE R == {p \in Nat \X Nat : p[1] < p[2]}
<1>1. IsWellFoundedOn(R, Nat)
  BY NatLessThanWellFounded DEF OpToRel
<1> HIDE DEF R
<1>2. \E x \in S : \A y \in S : <<y, x>> \notin R
  BY <1>1, WFMin
<1>3. \A x, y \in S : <<y, x>> \notin R => x <= y
  BY DEF R
<1>4. \E x \in S : \A y \in S : x <= y
  BY <1>2, <1>3
<1> QED  BY <1>4, Zenon DEF Min

\* Nothing but the least number of a set is its minimum.
LEMMA MinIsOnly ==
    ASSUME NEW S, S \subseteq Nat, NEW x \in S, \A y \in S : x <= y
    PROVE  Min(S) = x
<1>1. Min(S) \in S /\ Min(S) <= x
  BY MinIs
<1>2. Min(S) \in Nat /\ x \in Nat /\ x <= Min(S)
  BY <1>1
<1> QED  BY <1>1, <1>2

\* Counting up: what holds at zero and goes over from one turn of a loop to the
\* next holds after n turns; `good` are the turns it holds after.
LEMMA CountingUp ==
    ASSUME NEW n \in Nat, NEW good, 0 \in good,
           \A k \in 1 .. n : k - 1 \in good => k \in good
    PROVE  \A k \in 0 .. n : k \in good
<1> DEFINE Left == {k \in 0 .. n : k \notin good}
<1> SUFFICES ASSUME Left # {} PROVE FALSE
  OBVIOUS
<1>1. Min(Left) \in Left /\ \A j \in Left : Min(Left) <= j
  BY MinIs
<1>2. Min(Left) \in 1 .. n /\ Min(Left) - 1 \in 0 .. n
  BY <1>1
<1>3. Min(Left) - 1 \notin Left
  BY <1>1, <1>2
<1> QED  BY <1>1, <1>2, <1>3

\* A loop that starts at base and goes on by steps, functions on S.
Runs(f, n, S, base, step) ==
    /\ f \in [0 .. n -> S]
    /\ f[0] = base
    /\ \A i \in 1 .. n : f[i] = step[i][f[i - 1]]

LEMMA LoopExists ==
    ASSUME NEW n \in Nat, NEW S, NEW base \in S, NEW step \in [1 .. n -> [S -> S]]
    PROVE  \E f : Runs(f, n, S, base, step)
<1> DEFINE good == {m \in 0 .. n : \E f : Runs(f, m, S, base, step)}
<1>1. 0 \in good
  <2>1. Runs([i \in 0 .. 0 |-> base], 0, S, base, step)
    BY DEF Runs
  <2>2. 0 \in 0 .. n
    OBVIOUS
  <2> QED  BY <2>1, <2>2
<1>2. ASSUME NEW m \in 1 .. n, m - 1 \in good PROVE m \in good
  <2>1. PICK f : Runs(f, m - 1, S, base, step)
    BY <1>2
  <2> DEFINE g == [i \in 0 .. m |-> IF i = m THEN step[m][f[m - 1]] ELSE f[i]]
  <2>2. step[m] \in [S -> S] /\ f[m - 1] \in S
    BY <2>1 DEF Runs
  <2>3. g \in [0 .. m -> S]
    BY <2>1, <2>2 DEF Runs
  <2>4. Runs(g, m, S, base, step)
    BY <2>1, <2>3 DEF Runs
  <2>5. m \in 0 .. n
    OBVIOUS
  <2> QED  BY <2>4, <2>5
<1> HIDE DEF good
<1>3. \A m \in 0 .. n : m \in good
  BY <1>1, <1>2, CountingUp
<1> QED  BY <1>3 DEF good
=============================================================================
