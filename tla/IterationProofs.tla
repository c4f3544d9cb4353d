-------------------------- MODULE IterationProofs --------------------------
(***************************************************************************)
(* A recursively defined function is, by itself, only a function chosen to *)
(* satisfy its equation.  Here it is proved that Iterate satisfies its     *)
(* equation whatever Base and Step are, and that the natural numbers can   *)
(* be inducted over, in a form that needs no operator as a parameter: on a *)
(* set.  The codec's loops and recursions are instances of Iteration.      *)
(***************************************************************************)
EXTENDS Iteration, WellFoundedInduction, TLAPS

\* A set of natural numbers that is not empty has a least member.
LEMMA LeastNumber ==
    ASSUME NEW T, T \subseteq Nat, T # {}
    PROVE  \E x \in T : \A y \in T : x <= y
<1> DEFINE R == OpToRel(<, Nat)
<1>1. IsWellFoundedOn(R, Nat)
  BY NatLessThanWellFounded
<1>2. \A x, y \in Nat : y < x => <<y, x>> \in R
  BY DEF OpToRel
<1> HIDE DEF R
<1>3. PICK x \in T : \A y \in T : ~ (<<y, x>> \in R)
  BY <1>1, WFMin
<1>4. \A y \in T : ~ (y < x)
  BY <1>2, <1>3
<1>5. \A y \in T : x <= y
  BY <1>4
<1> QED
  BY <1>3, <1>5

\* Induction: a set that holds 0 and with each number the next holds them all.
LEMMA Induction ==
    ASSUME NEW T, 0 \in T, \A n \in Nat : n \in T => n + 1 \in T
    PROVE  \A n \in Nat : n \in T
<1>1. SUFFICES ASSUME Nat \ T # {} PROVE FALSE
  OBVIOUS
<1>2. PICK x \in Nat \ T : \A y \in Nat \ T : x <= y
  BY <1>1, LeastNumber
<1>3. x # 0 /\ x - 1 \in Nat
  BY <1>2
<1>4. x - 1 \in T
  BY <1>2, <1>3
<1>5. (x - 1) + 1 \in T
  BY <1>3, <1>4
<1>6. (x - 1) + 1 = x
  BY <1>2
<1> QED
  BY <1>2, <1>5, <1>6

-----------------------------------------------------------------------------
\* A function on 0 .. m that makes the first m turns.
Approximates(g, context, m) ==
    g = [n \in 0 .. m |-> IF n = 0 THEN Base(context) ELSE Step(context, g[n - 1])]

\* Every number of turns can be made.
LEMMA Approximated == \A context : \A m \in Nat : \E g : Approximates(g, context, m)
<1> SUFFICES ASSUME NEW context PROVE \A m \in Nat : \E g : Approximates(g, context, m)
  OBVIOUS
<1> DEFINE Good == {m \in Nat : \E g : Approximates(g, context, m)}
<1>1. 0 \in Good
  <2>1. Approximates([n \in 0 .. 0 |-> Base(context)], context, 0)
    BY DEF Approximates
  <2> QED
    BY <2>1
<1>2. \A n \in Nat : n \in Good => n + 1 \in Good
  <2> SUFFICES ASSUME NEW m \in Nat, m \in Good PROVE \E g : Approximates(g, context, m + 1)
    OBVIOUS
  <2>1. PICK g : Approximates(g, context, m)
    OBVIOUS
  <2> DEFINE h == [n \in 0 .. m + 1 |-> IF n = m + 1 THEN Step(context, g[m]) ELSE g[n]]
  <2>2. \A n \in 0 .. m : g[n] = IF n = 0 THEN Base(context) ELSE Step(context, g[n - 1])
    BY <2>1 DEF Approximates
  <2>3. \A n \in 0 .. m + 1 :
           h[n] = IF n = 0 THEN Base(context) ELSE Step(context, h[n - 1])
    BY <2>2
  <2>4. h = [n \in 0 .. m + 1 |-> IF n = 0 THEN Base(context) ELSE Step(context, h[n - 1])]
    BY <2>3
  <2> QED
    BY <2>4 DEF Approximates
<1>3. \A n \in Nat : n \in Good
  <2> HIDE DEF Good
  <2> QED
    BY <1>1, <1>2, Induction
<1> QED
  BY <1>3

\* Iterate makes the first turn from Base and each further one by Step: the
\* recursion has a solution, for every context.
LEMMA IterateDef ==
    \A context :
        /\ Iterate(context)[0] = Base(context)
        /\ \A n \in Nat : Iterate(context)[n + 1] = Step(context, Iterate(context)[n])
<1> SUFFICES ASSUME NEW context
             PROVE  /\ Iterate(context)[0] = Base(context)
                    /\ \A n \in Nat :
                          Iterate(context)[n + 1] = Step(context, Iterate(context)[n])
  OBVIOUS
<1> DEFINE a == [m \in Nat |-> CHOOSE g : Approximates(g, context, m)]
<1>1. \A m \in Nat : Approximates(a[m], context, m)
  BY Approximated
<1> HIDE DEF a
<1>2. \A m \in Nat : \A n \in 0 .. m :
         a[m][n] = IF n = 0 THEN Base(context) ELSE Step(context, a[m][n - 1])
  BY <1>1 DEF Approximates
<1> DEFINE Same == {n \in Nat : \A m \in Nat : n <= m => a[m][n] = a[n][n]}
<1>3. 0 \in Same
  BY <1>2
<1>4. \A n \in Nat : n \in Same => n + 1 \in Same
  <2> SUFFICES ASSUME NEW n \in Nat, n \in Same, NEW m \in Nat, n + 1 <= m
               PROVE  a[m][n + 1] = a[n + 1][n + 1]
    OBVIOUS
  <2>1. a[m][n] = a[n][n] /\ a[n + 1][n] = a[n][n]
    OBVIOUS
  <2>2. a[m][n + 1] = Step(context, a[m][(n + 1) - 1])
    BY <1>2
  <2>3. a[n + 1][n + 1] = Step(context, a[n + 1][(n + 1) - 1])
    BY <1>2
  <2>4. (n + 1) - 1 = n
    OBVIOUS
  <2> QED
    BY <2>1, <2>2, <2>3, <2>4
<1>5. \A n \in Nat : n \in Same
  <2> HIDE DEF Same
  <2> QED
    BY <1>3, <1>4, Induction
<1> DEFINE f == [n \in Nat |-> a[n][n]]
<1>6. \A n \in Nat : f[n] = IF n = 0 THEN Base(context) ELSE Step(context, f[n - 1])
  <2> SUFFICES ASSUME NEW n \in Nat
               PROVE  a[n][n] = IF n = 0 THEN Base(context) ELSE Step(context, f[n - 1])
    OBVIOUS
  <2>1. CASE n = 0
    BY <2>1, <1>2
  <2>2. CASE n # 0
    <3>1. n - 1 \in Nat /\ n - 1 <= n
      BY <2>2
    <3>2. a[n][n - 1] = a[n - 1][n - 1]
      BY <3>1, <1>5
    <3>3. a[n][n] = Step(context, a[n][n - 1])
      BY <1>2, <2>2
    <3>4. f[n - 1] = a[n - 1][n - 1]
      BY <3>1
    <3> QED
      BY <3>2, <3>3, <3>4, <2>2
  <2> QED
    BY <2>1, <2>2
<1>7. f = [n \in Nat |-> IF n = 0 THEN Base(context) ELSE Step(context, f[n - 1])]
  BY <1>6
<1> HIDE DEF f
<1>8. Iterate(context)
         = [n \in Nat |-> IF n = 0 THEN Base(context)
                                   ELSE Step(context, Iterate(context)[n - 1])]
  BY <1>7 DEF Iterate
<1>9. Iterate(context)[0] = Base(context)
  BY <1>8
<1>10. \A n \in Nat : Iterate(context)[n + 1] = Step(context, Iterate(context)[n])
  BY <1>8
<1> QED
  BY <1>9, <1>10
=============================================================================
