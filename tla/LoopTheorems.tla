---------------------------- MODULE LoopTheorems ----------------------------
(***************************************************************************)
(* Loops over the bytes of a segment are written as recursive functions    *)
(* loop[i \in 0 .. N], each value computed from the one before.  Here:     *)
(* such a function exists and its values stay in any set that the step     *)
(* preserves.  The step is given as a function, so that the facts can be   *)
(* used by name; the induction is the least counterexample.                *)
(***************************************************************************)
EXTENDS Integers, TLAPS, WellFoundedInduction

\* What loop[i] is, for a loop that starts from base.
IsLoop(f, N, base, step) ==
  f = [i \in 0 .. N |-> IF i = 0 THEN base ELSE step[<<f[i - 1], i>>]]

\* The order of the natural numbers, as a set of pairs.
Less == {p \in Nat \X Nat : p[1] < p[2]}

\* It is well-founded.
LEMMA LessWellFounded == IsWellFoundedOn(Less, Nat)
BY NatLessThanWellFounded, Zenon DEF OpToRel, Less

\* A nonempty set of numbers has a least element.
LEMMA LeastNat ==
  ASSUME NEW T \in SUBSET Nat, T # {}
  PROVE  \E n \in T : \A m \in T : n <= m
<1>1. PICK n \in T : \A m \in T : <<m, n>> \notin Less
  BY LessWellFounded, WFMin
<1>2. ASSUME NEW m \in T PROVE n <= m
  <2>1. m \in Nat /\ n \in Nat
    OBVIOUS
  <2>2. m < n => <<m, n>> \in Less
    BY <2>1 DEF Less
  <2> QED
    BY <1>1, <2>1, <2>2
<1> QED
  BY <1>2

\* A loop over any number of bytes runs to its end and stays in S.
LEMMA LoopExists ==
  ASSUME NEW S, NEW N \in Nat, NEW base \in S, NEW step \in [S \X (1 .. N) -> S]
  PROVE  \E f \in [0 .. N -> S] : IsLoop(f, N, base, step)
<1> DEFINE Runs(n) == \E f \in [0 .. n -> S] : IsLoop(f, n, base, step)
           Bad == {n \in 0 .. N : ~Runs(n)}
<1>1. SUFFICES ASSUME Bad # {} PROVE FALSE
  OBVIOUS
<1>0. Bad \in SUBSET Nat
  BY SMT
<1>2. PICK n \in Bad : \A m \in Bad : n <= m
  <2> HIDE DEF Bad
  <2> QED BY <1>0, <1>1, LeastNat
<1>3. CASE n = 0
  <2> DEFINE f == [i \in 0 .. 0 |-> base]
  <2>1. f \in [0 .. n -> S] /\ IsLoop(f, n, base, step)
    BY <1>3 DEF IsLoop
  <2> QED
    BY <2>1
<1>4. CASE n # 0
  <2>1. n - 1 \in 0 .. N /\ Runs(n - 1)
    BY <1>2, <1>4
  <2>2. PICK g \in [0 .. n - 1 -> S] : IsLoop(g, n - 1, base, step)
    BY <2>1
  <2> DEFINE f == [i \in 0 .. n |-> IF i < n THEN g[i] ELSE step[<<g[n - 1], n>>]]
  <2>3. f \in [0 .. n -> S]
    BY <1>4, <2>1, <2>2
  <2>4. ASSUME NEW i \in 0 .. n PROVE f[i] = IF i = 0 THEN base ELSE step[<<f[i - 1], i>>]
    <3>1. CASE i < n
      BY <1>4, <2>1, <2>2, <3>1, SMTT(60) DEF IsLoop
    <3>2. CASE i = n
      <4>1. f[i] = step[<<g[n - 1], n>>]
        BY <3>2
      <4>2. i - 1 \in 0 .. n /\ i - 1 < n /\ i - 1 = n - 1
        BY <1>4, <2>1, <3>2
      <4>3. f[i - 1] = g[n - 1]
        BY <4>2
      <4> QED
        BY <1>4, <3>2, <4>1, <4>3
    <3> QED
      BY <2>1, <3>1, <3>2
  <2>5. IsLoop(f, n, base, step)
    BY <2>4 DEF IsLoop
  <2> QED
    BY <2>3, <2>5
<1> QED
  BY <1>3, <1>4

\* Whatever follows the step as long as it is in S is in S.
LEMMA LoopStays ==
  ASSUME NEW S, NEW N \in Nat, NEW step \in [S \X (1 .. N) -> S], NEW f, f[0] \in S,
         \A i \in 1 .. N : f[i - 1] \in S => f[i] = step[<<f[i - 1], i>>]
  PROVE  \A i \in 0 .. N : f[i] \in S
<1> DEFINE Bad == {i \in 0 .. N : f[i] \notin S}
<1>1. SUFFICES ASSUME Bad # {} PROVE FALSE
  OBVIOUS
<1>2. Bad \in SUBSET Nat
  BY SMT
<1>3. PICK n \in Bad : \A m \in Bad : n <= m
  <2> HIDE DEF Bad
  <2> QED BY <1>1, <1>2, LeastNat
<1>4. n \in 1 .. N /\ n - 1 \in 0 .. N
  BY <1>3
<1>5. f[n - 1] \in S
  BY <1>3, <1>4
<1>6. f[n] \in S
  BY <1>4, <1>5
<1> QED
  BY <1>3, <1>6

\* What holds at 0 and from each number to the next holds up to N: the set T
\* stands for what is claimed.
LEMMA Climb ==
  ASSUME NEW N \in Nat, NEW T, 0 \in T, \A i \in 1 .. N : i - 1 \in T => i \in T
  PROVE  \A i \in 0 .. N : i \in T
<1> DEFINE Bad == {i \in 0 .. N : i \notin T}
<1>1. SUFFICES ASSUME Bad # {} PROVE FALSE
  OBVIOUS
<1>2. Bad \in SUBSET Nat
  BY SMT
<1>3. PICK n \in Bad : \A m \in Bad : n <= m
  <2> HIDE DEF Bad
  <2> QED BY <1>1, <1>2, LeastNat
<1>4. n \in 1 .. N /\ n - 1 \in 0 .. N
  BY <1>3
<1>5. n - 1 \in T
  BY <1>3, <1>4
<1> QED
  BY <1>3, <1>4, <1>5
=============================================================================
