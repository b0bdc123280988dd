------------------------------- MODULE Counting -------------------------------
(***************************************************************************)
(* Induction over the natural numbers, from the library's theorem that     *)
(* they are well founded, and the sums and iterated functions that exist   *)
(* by it: what the proofs need to reason about a loop of the code that a   *)
(* recursive function models.                                              *)
(***************************************************************************)
EXTENDS Integers, WellFoundedInduction, TLAPS

\* A set of numbers that is not empty has a least one.
LEMMA Least ==
  ASSUME NEW T, T \subseteq Nat, T # {}
  PROVE \E m \in T : \A n \in T : m <= n
<1> DEFINE R == OpToRel(<, Nat)
<1>1. IsWellFoundedOn(R, Nat) BY NatLessThanWellFounded
<1>2. \A x, y \in Nat : x < y => <<x, y>> \in R BY DEF OpToRel
<1> HIDE DEF R
<1>3. \E x \in T : \A y \in T : ~ (<<y, x>> \in R)
  BY <1>1, WFMin
<1>4. PICK m \in T : \A y \in T : ~ (<<y, m>> \in R) BY <1>3
<1>5. \A n \in T : n \in Nat /\ m \in Nat /\ ~ (n < m) BY <1>2, <1>4
<1>6. \A n \in T : m <= n BY <1>5
<1> QED BY <1>6

\* A set with 0 and with the successor of each of its members has every number.
LEMMA Induction ==
  ASSUME NEW S, 0 \in S, \A n \in Nat : n \in S => n + 1 \in S
  PROVE Nat \subseteq S
<1> SUFFICES ASSUME Nat \ S # {} PROVE FALSE OBVIOUS
<1>1. PICK m \in Nat \ S : \A n \in Nat \ S : m <= n BY Least
<1>2. m # 0 /\ m - 1 \in Nat BY <1>1
<1>3. m - 1 \in S BY <1>1, <1>2
<1> QED BY <1>1, <1>2, <1>3

\* A set with every number whose predecessors it has, has every number.
LEMMA StrongInduction ==
  ASSUME NEW S, \A n \in Nat : (\A m \in Nat : m < n => m \in S) => n \in S
  PROVE Nat \subseteq S
<1> SUFFICES ASSUME Nat \ S # {} PROVE FALSE OBVIOUS
<1>1. PICK m \in Nat \ S : \A n \in Nat \ S : m <= n BY Least
<1>2. \A n \in Nat : n < m => n \in S BY <1>1
<1> QED BY <1>1, <1>2

\* A set of numbers with a bound that is not empty has a greatest one.
LEMMA Greatest ==
  ASSUME NEW T, NEW b \in Nat, T \subseteq 0 .. b, T # {}
  PROVE \E m \in T : \A n \in T : n <= m
<1> DEFINE U == {j \in Nat : b - j \in T}
<1>1. PICK t \in T : TRUE OBVIOUS
<1>2. b - t \in U BY <1>1
<1>3. PICK u \in U : \A j \in U : u <= j BY <1>2, Least
<1>4. \A n \in T : b - n \in U BY <1>1
<1>5. b - u \in T BY <1>3
<1>6. ASSUME NEW n \in T PROVE n <= b - u
  <2>1. u <= b - n BY <1>3, <1>4
  <2> QED BY <2>1, <1>3
<1> QED BY <1>5, <1>6

-----------------------------------------------------------------------------

\* From each value of X, a step leads to one.
StepsStay(X, step) == \A n \in Nat, v \in X : step[n][v] \in X

Iterates(X, x, step, f) ==
  f \in [Nat -> X] /\ f[0] = x /\ \A n \in Nat : f[n + 1] = step[n][f[n]]

\* There is a function given by its first value and by a step from each value to the next.
LEMMA Iteration ==
  ASSUME NEW X, NEW x \in X, NEW step, StepsStay(X, step)
  PROVE \E f : Iterates(X, x, step, f)
<1> DEFINE Upto(n, f) ==
             f \in [0 .. n -> X] /\ f[0] = x /\ \A j \in 0 .. n - 1 : f[j + 1] = step[j][f[j]]
           S == {n \in Nat : \E f \in [0 .. n -> X] : Upto(n, f)}
<1>1. 0 \in S
  <2>1. Upto(0, [j \in 0 .. 0 |-> x]) OBVIOUS
  <2> QED BY <2>1
<1>2. ASSUME NEW n \in Nat, n \in S PROVE n + 1 \in S
  <2>1. PICK f \in [0 .. n -> X] : Upto(n, f) BY <1>2
  <2>2. step[n][f[n]] \in X
    <3>1. f[n] \in X BY <2>1
    <3> QED BY <3>1 DEF StepsStay
  <2> DEFINE g == [j \in 0 .. n + 1 |-> IF j = n + 1 THEN step[n][f[n]] ELSE f[j]]
  <2>3. g \in [0 .. n + 1 -> X] BY <2>1, <2>2
  <2>4. \A j \in 0 .. n : g[j] = f[j] /\ j \in Nat /\ n \in Nat OBVIOUS
  <2>5. g[n + 1] = step[n][f[n]] OBVIOUS
  <2> HIDE DEF g
  <2>6. ASSUME NEW j \in 0 .. n PROVE g[j + 1] = step[j][g[j]]
    <3>1. CASE j = n
      <4>1. g[n] = f[n] BY <2>4
      <4> QED BY <2>5, <3>1, <4>1
    <3>2. CASE j # n
      <4>1. j \in 0 .. n - 1 /\ j + 1 \in 0 .. n BY <3>2
      <4>2. g[j + 1] = f[j + 1] /\ g[j] = f[j] BY <2>4, <4>1
      <4>3. f[j + 1] = step[j][f[j]] BY <2>1, <4>1
      <4> QED BY <4>2, <4>3
    <3> QED BY <3>1, <3>2
  <2>7. g[0] = x BY <2>1, <2>4
  <2>8. Upto(n + 1, g) BY <2>3, <2>6, <2>7
  <2> QED BY <2>3, <2>8
<1> HIDE DEF S
<1>3. Nat \subseteq S BY <1>1, <1>2, Induction
<1> DEFINE F == [n \in Nat |-> CHOOSE f \in [0 .. n -> X] : Upto(n, f)]
<1>4. ASSUME NEW n \in Nat PROVE Upto(n, F[n])
  <2>1. \E f \in [0 .. n -> X] : Upto(n, f) BY <1>3 DEF S
  <2> HIDE DEF Upto
  <2> QED BY <2>1
<1> HIDE DEF F
<1>5. ASSUME NEW n \in Nat PROVE \A j \in 0 .. n : F[n + 1][j] = F[n][j]
  <2> DEFINE T == {j \in Nat : j <= n => F[n + 1][j] = F[n][j]}
  <2>1. 0 \in T BY <1>4
  <2>2. ASSUME NEW j \in Nat, j \in T PROVE j + 1 \in T
    <3> SUFFICES ASSUME j + 1 <= n PROVE F[n + 1][j + 1] = F[n][j + 1] OBVIOUS
    <3>1. F[n + 1][j] = F[n][j] BY <2>2
    <3>2. j \in 0 .. n - 1 /\ j \in 0 .. (n + 1) - 1 /\ n + 1 \in Nat OBVIOUS
    <3>3. F[n][j + 1] = step[j][F[n][j]] BY <1>4, <3>2
    <3>4. F[n + 1][j + 1] = step[j][F[n + 1][j]] BY <1>4, <3>2
    <3> QED BY <3>1, <3>3, <3>4
  <2> HIDE DEF T
  <2>3. Nat \subseteq T BY <2>1, <2>2, Induction
  <2> QED BY <2>3 DEF T
<1> DEFINE f == [n \in Nat |-> F[n][n]]
<1>6. f \in [Nat -> X] BY <1>4
<1>7. f[0] = x BY <1>4
<1>8. ASSUME NEW n \in Nat PROVE f[n + 1] = step[n][f[n]]
  <2>1. F[n + 1][n] = F[n][n] BY <1>5
  <2>2. F[n + 1][n + 1] = step[n][F[n + 1][n]] BY <1>4
  <2> QED BY <2>1, <2>2
<1> HIDE DEF f
<1> QED BY <1>6, <1>7, <1>8 DEF Iterates

\* A loop over 1 .. n.
Turns(X, n, step) == \A j \in 1 .. n, v \in X : step[j][v] \in X

Turned(X, x, n, step, f) ==
  f \in [0 .. n -> X] /\ f[0] = x /\ \A j \in 1 .. n : f[j] = step[j][f[j - 1]]

LEMMA Loop ==
  ASSUME NEW X, NEW x \in X, NEW n \in Nat, NEW step, Turns(X, n, step)
  PROVE \E f : Turned(X, x, n, step, f)
<1> DEFINE next == [j \in Nat |-> [v \in X |-> IF j + 1 <= n THEN step[j + 1][v] ELSE v]]
<1>1. ASSUME NEW j \in Nat, NEW v \in X
      PROVE next[j][v] = IF j + 1 <= n THEN step[j + 1][v] ELSE v
  OBVIOUS
<1> HIDE DEF next
<1>2. ASSUME NEW j \in Nat, NEW v \in X PROVE next[j][v] \in X
  <2>1. CASE j + 1 <= n
    <3>1. j + 1 \in 1 .. n BY <2>1
    <3> QED BY <1>1, <2>1, <3>1 DEF Turns
  <2>2. CASE ~(j + 1 <= n) BY <1>1, <2>2
  <2> QED BY <2>1, <2>2
<1>3. PICK h : Iterates(X, x, next, h)
  <2>1. StepsStay(X, next) BY <1>2 DEF StepsStay
  <2> QED BY <2>1, Iteration
<1>4. ASSUME NEW j \in 1 .. n PROVE h[j] = step[j][h[j - 1]]
  <2>1. j - 1 \in Nat /\ (j - 1) + 1 = j /\ h[j - 1] \in X BY <1>3 DEF Iterates
  <2>2. h[j] = next[j - 1][h[j - 1]] BY <1>3, <2>1 DEF Iterates
  <2> QED BY <1>1, <2>1, <2>2
<1> DEFINE f == [j \in 0 .. n |-> h[j]]
<1>5. f \in [0 .. n -> X]
  <2>1. ASSUME NEW j \in 0 .. n PROVE h[j] \in X
    <3>1. j \in Nat OBVIOUS
    <3> QED BY <1>3, <3>1 DEF Iterates
  <2> QED BY <2>1
<1>6. f[0] = x BY <1>3 DEF Iterates
<1>7. ASSUME NEW j \in 1 .. n PROVE f[j] = step[j][f[j - 1]]
  <2>1. j \in 0 .. n /\ j - 1 \in 0 .. n OBVIOUS
  <2>2. f[j] = h[j] /\ f[j - 1] = h[j - 1] BY <2>1
  <2> QED BY <1>4, <2>2
<1> HIDE DEF f
<1> QED BY <1>5, <1>6, <1>7 DEF Turned

\* The sums of the first numbers of a list.
LEMMA PartialSums ==
  ASSUME NEW n \in Nat, NEW add \in [1 .. n -> Nat]
  PROVE \E s \in [0 .. n -> Nat] : s[0] = 0 /\ \A j \in 1 .. n : s[j] = s[j - 1] + add[j]
<1> DEFINE step == [j \in 1 .. n |-> [v \in Nat |-> v + add[j]]]
<1>1. ASSUME NEW j \in 1 .. n, NEW v \in Nat
      PROVE step[j][v] = v + add[j] /\ v + add[j] \in Nat
  OBVIOUS
<1> HIDE DEF step
<1>2. Turns(Nat, n, step) BY <1>1 DEF Turns
<1>3. PICK s : Turned(Nat, 0, n, step, s) BY <1>2, Loop
<1>4. ASSUME NEW j \in 1 .. n PROVE s[j] = s[j - 1] + add[j]
  <2>1. j - 1 \in 0 .. n OBVIOUS
  <2> QED BY <1>1, <1>3, <2>1 DEF Turned
<1> QED BY <1>3, <1>4 DEF Turned

\* What holds at the start of a loop and in each turn if it held before, holds at the end.
LEMMA LoopStays ==
  ASSUME NEW T, NEW n \in Nat, 0 \in T, \A j \in 1 .. n : j - 1 \in T => j \in T
  PROVE \A j \in 0 .. n : j \in T
<1> DEFINE U == {j \in Nat : j <= n => j \in T}
<1>1. 0 \in U OBVIOUS
<1>2. ASSUME NEW j \in Nat, j \in U PROVE j + 1 \in U
  <2> SUFFICES ASSUME j + 1 <= n PROVE j + 1 \in T OBVIOUS
  <2>1. j + 1 \in 1 .. n /\ (j + 1) - 1 = j /\ j \in T BY <1>2
  <2> QED BY <2>1
<1> HIDE DEF U
<1>3. Nat \subseteq U BY <1>1, <1>2, Induction
<1> QED BY <1>3 DEF U

=============================================================================
