--------------------------- MODULE Recursion_proofs ---------------------------
(***************************************************************************)
(* Induction and recursion over the natural numbers, stated with sets and  *)
(* functions in the place of predicates and operators; the last element of *)
(* a sequence.                                                             *)
(***************************************************************************)
EXTENDS Integers, SequencesExt, SequenceTheorems, FiniteSetTheorems,
        WellFoundedInduction, TLAPS

Less == {ss \in Nat \X Nat : ss[1] < ss[2]}

LEMMA LessIsWellFounded == IsWellFoundedOn(Less, Nat)
BY NatLessThanWellFounded DEF OpToRel, Less

(* A set of numbers with 0 and every successor has all numbers.            *)
LEMMA NatSet ==
  ASSUME NEW S, 0 \in S, \A n \in Nat : n \in S => n + 1 \in S
  PROVE  Nat \subseteq S
<1> DEFINE T == Nat \ S
<1> SUFFICES ASSUME T # {} PROVE FALSE OBVIOUS
<1>1. \E x \in T : \A y \in T : ~(<<y, x>> \in Less)
  <2>1. T \subseteq Nat OBVIOUS
  <2> HIDE DEF T
  <2> QED BY <2>1, LessIsWellFounded, WFMin
<1>2. PICK x \in T : \A y \in T : ~(<<y, x>> \in Less) BY <1>1
<1>3. x \in Nat /\ x # 0 OBVIOUS
<1>4. x - 1 \in T
  <2>1. x - 1 \in Nat /\ (x - 1) + 1 = x BY <1>3
  <2> QED BY <2>1
<1>5. <<x - 1, x>> \in Less BY <1>3, <1>4 DEF Less
<1> QED BY <1>2, <1>4, <1>5

(* A set of numbers has a least one, a bounded one has a greatest.         *)
LEMMA LeastNumber ==
  ASSUME NEW S \in SUBSET Nat, S # {}
  PROVE  \E m \in S : \A x \in S : m <= x
<1>1. PICK m \in S : \A x \in S : ~(<<x, m>> \in Less)
  BY LessIsWellFounded, WFMin
<1>2. \A x \in S : x \in Nat /\ m \in Nat /\ ~(x < m) BY <1>1 DEF Less
<1> QED BY <1>2

LEMMA GreatestNumber ==
  ASSUME NEW S \in SUBSET Nat, S # {}, NEW b \in Nat, \A x \in S : x <= b
  PROVE  \E m \in S : \A x \in S : x <= m
<1> DEFINE T == {b - x : x \in S}
<1>1. T \in SUBSET Nat /\ T # {}
  <2>1. \A x \in S : b - x \in Nat OBVIOUS
  <2> QED BY <2>1
<1>2. PICK d \in T : \A y \in T : d <= y
  <2> HIDE DEF T
  <2> QED BY <1>1, LeastNumber
<1>3. PICK m \in S : d = b - m BY <1>2
<1>4. \A x \in S : b - m <= b - x BY <1>2, <1>3
<1> QED BY <1>4

(* The numbers a function gives to the elements of a finite set.           *)
LEMMA FiniteBound ==
  ASSUME NEW S, IsFiniteSet(S), NEW f \in [S -> Nat]
  PROVE  \E b \in Nat : \A x \in S : f[x] <= b
<1>1. PICK n \in Nat : ExistsSurjection(1..n, S) BY FS_NatSurjection
<1>2. PICK g \in [1..n -> S] : \A x \in S : \E i \in 1..n : g[i] = x
  BY <1>1 DEF ExistsSurjection, Surjection
<1> DEFINE T == {k \in Nat : k <= n =>
                    \E b \in Nat : \A i \in 1..k : f[g[i]] <= b}
<1>3. 0 \in T OBVIOUS
<1>4. ASSUME NEW k \in Nat, k \in T PROVE k + 1 \in T
  <2> SUFFICES ASSUME k + 1 <= n
               PROVE  \E b \in Nat : \A i \in 1..(k + 1) : f[g[i]] <= b
    OBVIOUS
  <2>1. PICK b \in Nat : \A i \in 1..k : f[g[i]] <= b BY <1>4
  <2>2. \A i \in 1..(k + 1) : f[g[i]] \in Nat OBVIOUS
  <2>3. CASE f[g[k + 1]] <= b
    <3>1. \A i \in 1..(k + 1) : i \in 1..k \/ i = k + 1 OBVIOUS
    <3> QED BY <2>1, <2>3, <3>1
  <2>4. CASE ~(f[g[k + 1]] <= b)
    <3>1. \A i \in 1..(k + 1) : i \in 1..k \/ i = k + 1 OBVIOUS
    <3>2. \A i \in 1..(k + 1) : f[g[i]] <= f[g[k + 1]]
      BY <2>1, <2>2, <2>4, <3>1
    <3>3. k + 1 \in 1..(k + 1) OBVIOUS
    <3> QED BY <2>2, <3>2, <3>3
  <2> QED BY <2>3, <2>4
<1> HIDE DEF T
<1>5. n \in T BY <1>3, <1>4, NatSet
<1>6. PICK b \in Nat : \A i \in 1..n : f[g[i]] <= b BY <1>5 DEF T
<1> QED BY <1>2, <1>6

(* Primitive recursion: what starts with base and goes on with step.       *)
Follows(f, N, base, step) ==
  \A n \in 0..N : f[n] = IF n = 0 THEN base ELSE step[n][f[n - 1]]

LEMMA Recursion ==
  ASSUME NEW R, NEW base \in R, NEW step \in [Nat -> [R -> R]], NEW N \in Nat
  PROVE  \E f \in [0..N -> R] : Follows(f, N, base, step)
<1> USE DEF Follows
<1> DEFINE Good(n, f) == Follows(f, n, base, step)
           S == {n \in Nat : \E f \in [0..n -> R] : Good(n, f)}
<1>1. 0 \in S
  <2>1. [i \in 0..0 |-> base] \in [0..0 -> R] OBVIOUS
  <2>2. Good(0, [i \in 0..0 |-> base]) OBVIOUS
  <2> QED BY <2>1, <2>2
<1>2. ASSUME NEW n \in Nat, n \in S PROVE n + 1 \in S
  <2>1. PICK f \in [0..n -> R] : Good(n, f) BY <1>2
  <2> DEFINE g == [i \in 0..(n + 1) |-> IF i \in 0..n THEN f[i]
                                         ELSE step[n + 1][f[n]]]
  <2>2. g \in [0..(n + 1) -> R]
    <3>1. f[n] \in R BY <2>1
    <3>2. step[n + 1][f[n]] \in R BY <3>1
    <3> QED BY <2>1, <3>2
  <2>3. \A i \in 0..n : g[i] = f[i] OBVIOUS
  <2>4. g[n + 1] = step[n + 1][g[n]] OBVIOUS
  <2> HIDE DEF g
  <2>5. Good(n + 1, g)
    <3> SUFFICES ASSUME NEW i \in 0..(n + 1)
                 PROVE  g[i] = IF i = 0 THEN base ELSE step[i][g[i - 1]]
      OBVIOUS
    <3>1. CASE i = n + 1 BY <2>4, <3>1
    <3>2. CASE i \in 0..n
      <4>1. g[i] = IF i = 0 THEN base ELSE step[i][f[i - 1]] BY <2>1, <2>3, <3>2
      <4>2. i # 0 => g[i - 1] = f[i - 1] BY <2>3, <3>2
      <4> QED BY <4>1, <4>2
    <3> QED BY <3>1, <3>2
  <2> QED BY <2>2, <2>5
<1> HIDE DEF S
<1>3. Nat \subseteq S BY <1>1, <1>2, NatSet
<1> QED BY <1>3 DEF S

-----------------------------------------------------------------------------
(* Tail recursion: from x a walk goes on to next[x] until it stops, and    *)
(* with every step it has fewer hops left, or as many and less ahead.      *)
Descends(X, Stop, next, hops, ahead) ==
  /\ Stop \in SUBSET X /\ next \in [X \ Stop -> X]
  /\ hops \in [X -> Nat] /\ ahead \in [X -> Nat]
  /\ \A x \in X \ Stop :
       \/ hops[next[x]] < hops[x]
       \/ hops[next[x]] = hops[x] /\ ahead[next[x]] < ahead[x]

LEMMA WalkInduction ==
  ASSUME NEW X, NEW Stop, NEW next, NEW hops, NEW ahead,
         Descends(X, Stop, next, hops, ahead),
         NEW S, Stop \subseteq S, \A x \in X \ Stop : next[x] \in S => x \in S
  PROVE  X \subseteq S
<1> USE DEF Descends
<1> DEFINE H == {h \in Nat : \A x \in X : hops[x] <= h => x \in S}
<1>1. ASSUME NEW h \in Nat, \A x \in X : hops[x] < h => x \in S
      PROVE  \A x \in X : hops[x] <= h => x \in S
  <2> DEFINE A == {a \in Nat : \A x \in X : hops[x] <= h /\ ahead[x] <= a => x \in S}
  <2>1. 0 \in A
    <3> SUFFICES ASSUME NEW x \in X, hops[x] <= h, ahead[x] <= 0 PROVE x \in S
      OBVIOUS
    <3>1. CASE x \in Stop BY <3>1
    <3>2. CASE x \notin Stop
      <4>1. next[x] \in X /\ ahead[next[x]] \in Nat /\ ahead[x] \in Nat BY <3>2
      <4>2. hops[next[x]] < hops[x] BY <3>2, <4>1
      <4>3. hops[next[x]] \in Nat /\ hops[x] \in Nat BY <4>1
      <4> QED BY <1>1, <3>2, <4>1, <4>2, <4>3
    <3> QED BY <3>1, <3>2
  <2>2. ASSUME NEW a \in Nat, a \in A PROVE a + 1 \in A
    <3> SUFFICES ASSUME NEW x \in X, hops[x] <= h, ahead[x] <= a + 1 PROVE x \in S
      OBVIOUS
    <3>1. CASE x \in Stop BY <3>1
    <3>2. CASE x \notin Stop
      <4>1. /\ next[x] \in X /\ ahead[next[x]] \in Nat /\ ahead[x] \in Nat
            /\ hops[next[x]] \in Nat /\ hops[x] \in Nat
        BY <3>2
      <4>2. CASE hops[next[x]] < hops[x] BY <1>1, <3>2, <4>1, <4>2
      <4>3. CASE hops[next[x]] = hops[x] /\ ahead[next[x]] < ahead[x]
        BY <2>2, <3>2, <4>1, <4>3
      <4> QED BY <3>2, <4>2, <4>3
    <3> QED BY <3>1, <3>2
  <2> HIDE DEF A
  <2>3. Nat \subseteq A BY <2>1, <2>2, NatSet
  <2> QED BY <2>3 DEF A
<1>2. 0 \in H
  <2>1. \A x \in X : ~(hops[x] < 0) OBVIOUS
  <2> QED BY <1>1, <2>1
<1>3. ASSUME NEW h \in Nat, h \in H PROVE h + 1 \in H
  <2>1. \A x \in X : hops[x] < h + 1 => x \in S BY <1>3
  <2> HIDE DEF H
  <2>2. \A x \in X : hops[x] <= h + 1 => x \in S BY <1>1, <2>1
  <2> QED BY <2>2 DEF H
<1> HIDE DEF H
<1>4. Nat \subseteq H BY <1>2, <1>3, NatSet
<1>5. ASSUME NEW x \in X PROVE x \in S
  <2>1. hops[x] \in H /\ hops[x] <= hops[x] BY <1>4
  <2> QED BY <2>1 DEF H
<1> QED BY <1>5

(* The states a walk passes from x to where it stops.                      *)
Trace(X, Stop, next, x, n, g) ==
  /\ g \in [0..n -> X] /\ g[0] = x /\ g[n] \in Stop
  /\ \A i \in 0..(n - 1) : g[i] \notin Stop /\ g[i + 1] = next[g[i]]

LEMMA OneTrace ==
  ASSUME NEW X, NEW Stop, NEW next, NEW x,
         NEW n \in Nat, NEW g, Trace(X, Stop, next, x, n, g),
         NEW m \in Nat, NEW h, Trace(X, Stop, next, x, m, h)
  PROVE  g[n] = h[m]
<1> USE DEF Trace
<1> DEFINE S == {i \in Nat : i <= n /\ i <= m => g[i] = h[i]}
<1>1. 0 \in S OBVIOUS
<1>2. ASSUME NEW i \in Nat, i \in S PROVE i + 1 \in S
  <2> SUFFICES ASSUME i + 1 <= n, i + 1 <= m PROVE g[i + 1] = h[i + 1] OBVIOUS
  <2>1. i \in 0..(n - 1) /\ i \in 0..(m - 1) /\ i <= n /\ i <= m OBVIOUS
  <2>2. g[i] = h[i] BY <1>2, <2>1
  <2> QED BY <2>1, <2>2
<1> HIDE DEF S
<1>3. Nat \subseteq S BY <1>1, <1>2, NatSet
<1>4. \A i \in Nat : i <= n /\ i <= m => g[i] = h[i] BY <1>3 DEF S
<1>5. CASE n < m
  <2>1. g[n] = h[n] /\ n \in 0..(m - 1) BY <1>4, <1>5
  <2> QED BY <2>1
<1>6. CASE m < n
  <2>1. g[m] = h[m] /\ m \in 0..(n - 1) BY <1>4, <1>6
  <2> QED BY <2>1
<1>7. CASE m = n BY <1>4, <1>7
<1> QED BY <1>5, <1>6, <1>7

LEMMA TailRecursion ==
  ASSUME NEW X, NEW Stop, NEW next, NEW hops, NEW ahead,
         Descends(X, Stop, next, hops, ahead),
         NEW R, NEW result \in [Stop -> R]
  PROVE  \E f \in [X -> R] :
           \A x \in X : f[x] = IF x \in Stop THEN result[x] ELSE f[next[x]]
<1> DEFINE Ends(x, y) == \E n \in Nat : \E g : Trace(X, Stop, next, x, n, g) /\ g[n] = y
           S == {x \in X : \E y \in Stop : Ends(x, y)}
<1>1. ASSUME NEW x \in Stop PROVE Ends(x, x)
  <2> DEFINE g == [i \in 0..0 |-> x]
  <2>1. Trace(X, Stop, next, x, 0, g) BY DEF Trace, Descends
  <2>2. g[0] = x OBVIOUS
  <2> HIDE DEF g
  <2> QED BY <2>1, <2>2
<1>2. ASSUME NEW x \in X \ Stop, NEW y, Ends(next[x], y) PROVE Ends(x, y)
  <2>0. PICK n \in Nat : \E g : Trace(X, Stop, next, next[x], n, g) /\ g[n] = y
    BY <1>2
  <2>1. PICK g : Trace(X, Stop, next, next[x], n, g) /\ g[n] = y BY <2>0
  <2> DEFINE h == [i \in 0..(n + 1) |-> IF i = 0 THEN x ELSE g[i - 1]]
  <2>2. /\ \A i \in 0..n : g[i] \in X
        /\ g[0] = next[x] /\ g[n] \in Stop
        /\ \A i \in 0..(n - 1) : g[i] \notin Stop /\ g[i + 1] = next[g[i]]
    BY <2>1 DEF Trace
  <2>3. /\ h \in [0..(n + 1) -> X]
        /\ \A i \in 1..(n + 1) : h[i] = g[i - 1]
        /\ h[0] = x
    <3>1. ASSUME NEW i \in 1..(n + 1) PROVE h[i] = g[i - 1] /\ h[i] \in X
      <4>1. i \in 0..(n + 1) /\ i # 0 /\ i - 1 \in 0..n OBVIOUS
      <4>2. h[i] = g[i - 1] BY <4>1
      <4> QED BY <2>2, <4>1, <4>2
    <3>2. 0 \in 0..(n + 1) /\ h[0] = x OBVIOUS
    <3>3. \A i \in 0..(n + 1) : i = 0 \/ i \in 1..(n + 1) OBVIOUS
    <3>4. \A i \in 0..(n + 1) : h[i] \in X BY <3>1, <3>2, <3>3
    <3>5. h = [i \in 0..(n + 1) |-> h[i]] OBVIOUS
    <3> HIDE DEF h
    <3>6. h \in [0..(n + 1) -> X] BY <3>4, <3>5
    <3> QED BY <3>1, <3>2, <3>6
  <2> HIDE DEF h
  <2>4. h[n + 1] = g[n]
    <3>1. n + 1 \in 1..(n + 1) /\ (n + 1) - 1 = n OBVIOUS
    <3> QED BY <2>3, <3>1
  <2>5. ASSUME NEW i \in 0..((n + 1) - 1) PROVE h[i] \notin Stop /\ h[i + 1] = next[h[i]]
    <3>1. CASE i = 0
      <4>1. h[1] = g[0] BY <2>3
      <4> QED BY <2>2, <2>3, <3>1, <4>1
    <3>2. CASE i # 0
      <4>1. i - 1 \in 0..(n - 1) /\ (i - 1) + 1 = i /\ (i + 1) - 1 = i BY <3>2
      <4>2. h[i] = g[i - 1] /\ h[i + 1] = g[i] BY <2>3, <3>2, <4>1
      <4> QED BY <2>2, <4>1, <4>2
    <3> QED BY <3>1, <3>2
  <2>6. Trace(X, Stop, next, x, n + 1, h) BY <2>2, <2>3, <2>4, <2>5 DEF Trace
  <2> QED BY <2>1, <2>4, <2>6
<1>3. \A x \in X : \A y, z : Ends(x, y) /\ Ends(x, z) => y = z BY OneTrace
<1>4. Stop \in SUBSET X /\ next \in [X \ Stop -> X] BY DEF Descends
<1> HIDE DEF Ends
<1>5. \A x \in X : \E y \in Stop : Ends(x, y)
  <2>1. Stop \subseteq S BY <1>1, <1>4
  <2>2. \A x \in X \ Stop : next[x] \in S => x \in S BY <1>2
  <2> HIDE DEF S
  <2>3. X \subseteq S BY <2>1, <2>2, WalkInduction
  <2> QED BY <2>3 DEF S
<1> DEFINE end(x) == CHOOSE y \in Stop : Ends(x, y)
           f == [x \in X |-> result[end(x)]]
<1>6. \A x \in X : end(x) \in Stop /\ Ends(x, end(x)) BY <1>5
<1>7. \A x \in Stop : end(x) = x BY <1>1, <1>3, <1>4, <1>6
<1>8. \A x \in X \ Stop : end(x) = end(next[x]) BY <1>2, <1>3, <1>4, <1>6
<1> HIDE DEF end
<1>9. f \in [X -> R] BY <1>6
<1>10. \A x \in X : f[x] = IF x \in Stop THEN result[x] ELSE f[next[x]]
  BY <1>4, <1>7, <1>8
<1> QED BY <1>9, <1>10

-----------------------------------------------------------------------------
(* A sequence without its last element.                                    *)

LEMMA FrontIs ==
  ASSUME NEW S, NEW s \in Seq(S), s # <<>>
  PROVE  /\ Len(s) \in Nat \ {0} /\ Last(s) \in S
         /\ Front(s) \in Seq(S) /\ Len(Front(s)) = Len(s) - 1
         /\ \A i \in 1..(Len(s) - 1) : Front(s)[i] = s[i]
         /\ Append(Front(s), Last(s)) = s
<1>1. Len(s) \in Nat \ {0} OBVIOUS
<1>2. Last(s) \in S BY <1>1 DEF Last
<1>3. Front(s) = [i \in 1..(Len(s) - 1) |-> s[i]]
  <2>1. SubSeq(s, 1, Len(s) - 1) = [i \in 1..(Len(s) - 1) |-> s[i]]
    BY <1>1
  <2> QED BY <2>1 DEF Front
<1>4. /\ Front(s) \in Seq(S) /\ Len(Front(s)) = Len(s) - 1
      /\ \A i \in 1..(Len(s) - 1) : Front(s)[i] = s[i]
  BY <1>1, <1>3
<1>5. Append(Front(s), Last(s)) = s
  <2> DEFINE a == Append(Front(s), Last(s))
  <2>1. /\ a \in Seq(S) /\ Len(a) = (Len(s) - 1) + 1
        /\ \A i \in 1..(Len(s) - 1) : a[i] = Front(s)[i]
        /\ a[(Len(s) - 1) + 1] = Last(s)
    BY <1>2, <1>4, AppendProperties
  <2>2. Last(s) = s[Len(s)] BY DEF Last
  <2> HIDE DEF a
  <2>3. \A i \in 1..Len(s) : a[i] = s[i]
    <3>1. \A i \in 1..Len(s) : i \in 1..(Len(s) - 1) \/ i = (Len(s) - 1) + 1 BY <1>1
    <3>2. (Len(s) - 1) + 1 = Len(s) BY <1>1
    <3> QED BY <1>4, <2>1, <2>2, <3>1, <3>2
  <2>4. Len(a) = Len(s) BY <1>1, <2>1
  <2> QED BY <2>1, <2>3, <2>4, SeqEqual DEF a
<1> QED BY <1>1, <1>2, <1>4, <1>5

LEMMA FrontOfAppend ==
  ASSUME NEW S, NEW s \in Seq(S), NEW c \in S
  PROVE  Front(Append(s, c)) = s /\ Last(Append(s, c)) = c
<1> DEFINE t == Append(s, c)
<1>1. /\ t \in Seq(S) /\ t # <<>> /\ Len(t) = Len(s) + 1 /\ Len(s) \in Nat
      /\ \A i \in 1..Len(s) : t[i] = s[i]
      /\ t[Len(s) + 1] = c
  BY AppendProperties, LenProperties
<1> HIDE DEF t
<1>2. (Len(s) + 1) - 1 = Len(s) BY <1>1
<1>3. Front(t) \in Seq(S) /\ Len(Front(t)) = Len(s)
      /\ \A i \in 1..Len(s) : Front(t)[i] = s[i]
  BY <1>1, <1>2, FrontIs
<1>4. Front(t) = s BY <1>3, SeqEqual
<1>5. Last(t) = c BY <1>1 DEF Last
<1> QED BY <1>4, <1>5 DEF t

=============================================================================
