------------------------- MODULE CommandLine_proofs -------------------------
(***************************************************************************)
(* Proofs about App::parse: its result, when it can abort, and that the    *)
(* normalised texts lead where the given ones do.                          *)
(***************************************************************************)
EXTENDS CommandLine, Recursion_proofs

Parts == Seq(Component)

-----------------------------------------------------------------------------
(* Sequences.                                                              *)

LEMMA AppendIs ==
  ASSUME NEW S, NEW s \in Seq(S), NEW c \in S
  PROVE  /\ Append(s, c) \in Seq(S) /\ Append(s, c) # <<>>
         /\ Front(Append(s, c)) = s
BY FrontOfAppend, AppendProperties, EmptySeq

-----------------------------------------------------------------------------
(* The two recursive functions: the components that are kept, and the      *)
(* place the kernel has reached, after the first i components of a text.   *)

LEMMA PushType ==
  ASSUME NEW abs, NEW s \in Parts, NEW c \in Component
  PROVE  Push(abs, s, c) \in Parts
BY FrontIs, AppendIs DEF Push, Parts

LEMMA StepType ==
  ASSUME NEW at \in Parts, NEW c \in Component
  PROVE  Step(at, c) \in Parts
BY FrontIs, AppendIs, CommandLineAssumption DEF Step, Real, Parts

LEMMA NormalsAre ==
  ASSUME NEW text \in Text
  PROVE  /\ Normals(text) \in [0..Len(text.parts) -> Parts]
         /\ Normals(text)[0] = <<>>
         /\ \A i \in 1..Len(text.parts) :
              Normals(text)[i] =
                Push(text.abs, Normals(text)[i - 1], text.parts[i])
<1> DEFINE n == Len(text.parts)
           next(f, i) == IF i = 0 THEN <<>>
                         ELSE Push(text.abs, f[i - 1], text.parts[i])
           step == [i \in Nat |-> [s \in Parts |->
                      IF i \in 1..n THEN Push(text.abs, s, text.parts[i]) ELSE s]]
<1>1. n \in Nat /\ \A i \in 1..n : text.parts[i] \in Component BY DEF Text
<1>2. <<>> \in Parts BY DEF Parts
<1>3. step \in [Nat -> [Parts -> Parts]] BY <1>1, PushType
<1>4. PICK f \in [0..n -> Parts] : Follows(f, n, <<>>, step)
  <2> HIDE DEF step, n
  <2> QED BY <1>1, <1>2, <1>3, Recursion
<1>5. f = [i \in 0..n |-> next(f, i)]
  <2> HIDE DEF n
  <2> SUFFICES ASSUME NEW i \in 0..n PROVE f[i] = next(f, i) BY <1>4
  <2>1. CASE i = 0 BY <1>1, <1>4, <2>1 DEF Follows
  <2>2. CASE i # 0
    <3>1. i - 1 \in 0..n /\ i \in 1..n /\ i \in Nat BY <1>1, <2>2
    <3>2. f[i] = step[i][f[i - 1]] BY <1>4, <2>2 DEF Follows
    <3>3. f[i - 1] \in Parts BY <1>4, <3>1
    <3> QED BY <2>2, <3>1, <3>2, <3>3
  <2> QED BY <2>1, <2>2
<1>6. Normals(text) = CHOOSE g : g = [i \in 0..n |-> next(g, i)]
  BY DEF Normals
<1> HIDE DEF n
<1>7. Normals(text) = [i \in 0..n |-> next(Normals(text), i)]
  <2> HIDE DEF next
  <2> QED BY <1>5, <1>6
<1> DEFINE N == Normals(text)
<1> HIDE DEF N
<1>8. N = [i \in 0..n |-> next(N, i)] BY <1>7 DEF N
<1>9. N[0] = <<>> BY <1>1, <1>8
<1>10. \A i \in 1..n : N[i] = Push(text.abs, N[i - 1], text.parts[i])
  BY <1>1, <1>8
<1> DEFINE S == {i \in Nat : i \in 0..n => N[i] \in Parts}
<1>11. 0 \in S BY <1>2, <1>9
<1>12. ASSUME NEW i \in Nat, i \in S PROVE i + 1 \in S
  <2> SUFFICES ASSUME i + 1 \in 0..n PROVE N[i + 1] \in Parts OBVIOUS
  <2>1. i \in 0..n /\ i + 1 \in 1..n /\ (i + 1) - 1 = i BY <1>1
  <2>2. N[i] \in Parts BY <1>12, <2>1
  <2>3. N[i + 1] = Push(text.abs, N[i], text.parts[i + 1]) BY <1>10, <2>1
  <2> QED BY <1>1, <2>1, <2>2, <2>3, PushType
<1> HIDE DEF S
<1>13. Nat \subseteq S BY <1>11, <1>12, NatSet
<1>14. \A i \in 0..n : N[i] \in Parts BY <1>1, <1>13 DEF S
<1>15. N \in [0..n -> Parts]
  <2> HIDE DEF next
  <2> QED BY <1>8, <1>14
<1> QED BY <1>9, <1>10, <1>15 DEF N, n

Start(text) == IF text.abs THEN <<>> ELSE Cwd

LEMMA WalksAre ==
  ASSUME NEW text \in Text
  PROVE  /\ Walks(text) \in [0..Len(text.parts) -> Parts]
         /\ Walks(text)[0] = Start(text)
         /\ \A i \in 1..Len(text.parts) :
              Walks(text)[i] = Step(Walks(text)[i - 1], text.parts[i])
<1> DEFINE n == Len(text.parts)
           next(f, i) == IF i = 0 THEN IF text.abs THEN <<>> ELSE Cwd
                         ELSE Step(f[i - 1], text.parts[i])
           step == [i \in Nat |-> [at \in Parts |->
                      IF i \in 1..n THEN Step(at, text.parts[i]) ELSE at]]
<1>1. n \in Nat /\ \A i \in 1..n : text.parts[i] \in Component BY DEF Text
<1>2. Start(text) \in Parts BY CommandLineAssumption DEF Start, Parts
<1>3. step \in [Nat -> [Parts -> Parts]] BY <1>1, StepType
<1>4. PICK f \in [0..n -> Parts] : Follows(f, n, Start(text), step)
  <2> HIDE DEF step, n
  <2> QED BY <1>1, <1>2, <1>3, Recursion
<1>5. f = [i \in 0..n |-> next(f, i)]
  <2> HIDE DEF n
  <2> SUFFICES ASSUME NEW i \in 0..n PROVE f[i] = next(f, i) BY <1>4
  <2>1. CASE i = 0 BY <1>1, <1>4, <2>1 DEF Follows, Start
  <2>2. CASE i # 0
    <3>1. i - 1 \in 0..n /\ i \in 1..n /\ i \in Nat BY <1>1, <2>2
    <3>2. f[i] = step[i][f[i - 1]] BY <1>4, <2>2 DEF Follows
    <3>3. f[i - 1] \in Parts BY <1>4, <3>1
    <3> QED BY <2>2, <3>1, <3>2, <3>3
  <2> QED BY <2>1, <2>2
<1>6. Walks(text) = CHOOSE g : g = [i \in 0..n |-> next(g, i)]
  BY DEF Walks
<1> HIDE DEF n
<1>7. Walks(text) = [i \in 0..n |-> next(Walks(text), i)]
  <2> HIDE DEF next
  <2> QED BY <1>5, <1>6
<1> DEFINE W == Walks(text)
<1> HIDE DEF W
<1>8. W = [i \in 0..n |-> next(W, i)] BY <1>7 DEF W
<1>9. W[0] = Start(text) BY <1>1, <1>8 DEF Start
<1>10. \A i \in 1..n : W[i] = Step(W[i - 1], text.parts[i]) BY <1>1, <1>8
<1> DEFINE S == {i \in Nat : i \in 0..n => W[i] \in Parts}
<1>11. 0 \in S BY <1>2, <1>9
<1>12. ASSUME NEW i \in Nat, i \in S PROVE i + 1 \in S
  <2> SUFFICES ASSUME i + 1 \in 0..n PROVE W[i + 1] \in Parts OBVIOUS
  <2>1. i \in 0..n /\ i + 1 \in 1..n /\ (i + 1) - 1 = i BY <1>1
  <2>2. W[i] \in Parts BY <1>12, <2>1
  <2>3. W[i + 1] = Step(W[i], text.parts[i + 1]) BY <1>10, <2>1
  <2> QED BY <1>1, <2>1, <2>2, <2>3, StepType
<1> HIDE DEF S
<1>13. Nat \subseteq S BY <1>11, <1>12, NatSet
<1>14. \A i \in 0..n : W[i] \in Parts BY <1>1, <1>13 DEF S
<1>15. W \in [0..n -> Parts]
  <2> HIDE DEF next
  <2> QED BY <1>8, <1>14
<1> QED BY <1>9, <1>10, <1>15 DEF W, n

-----------------------------------------------------------------------------
(* Walks of texts that begin alike, that are one component longer, or that *)
(* have the working directory put in front.                                *)

LEMMA WalksAgree ==
  ASSUME NEW t \in Text, NEW u \in Text, t.abs = u.abs, NEW n \in Nat,
         n <= Len(t.parts), n <= Len(u.parts),
         \A i \in 1..n : t.parts[i] = u.parts[i]
  PROVE  \A i \in 0..n : Walks(t)[i] = Walks(u)[i]
<1> DEFINE S == {i \in Nat : i \in 0..n => Walks(t)[i] = Walks(u)[i]}
<1>1. Len(t.parts) \in Nat /\ Len(u.parts) \in Nat BY DEF Text
<1>2. 0 \in S BY WalksAre DEF Start
<1>3. ASSUME NEW i \in Nat, i \in S PROVE i + 1 \in S
  <2> SUFFICES ASSUME i + 1 \in 0..n
               PROVE  Walks(t)[i + 1] = Walks(u)[i + 1]
    OBVIOUS
  <2>1. /\ i \in 0..n /\ i + 1 \in 1..n /\ (i + 1) - 1 = i
        /\ i + 1 \in 1..Len(t.parts) /\ i + 1 \in 1..Len(u.parts)
    BY <1>1
  <2>2. Walks(t)[i] = Walks(u)[i] BY <1>3, <2>1
  <2>3. Walks(t)[i + 1] = Step(Walks(t)[i], t.parts[i + 1])
    BY <2>1, WalksAre
  <2>4. Walks(u)[i + 1] = Step(Walks(u)[i], u.parts[i + 1])
    BY <2>1, WalksAre
  <2> QED BY <2>1, <2>2, <2>3, <2>4
<1> HIDE DEF S
<1>4. Nat \subseteq S BY <1>2, <1>3, NatSet
<1> QED BY <1>4 DEF S

(* t is u with one component more.                                         *)
LEMMA OneMore ==
  ASSUME NEW u \in Text, NEW t \in Text, t.abs = u.abs, t.parts # <<>>,
         u.parts = Front(t.parts)
  PROVE  /\ Len(t.parts) = Len(u.parts) + 1 /\ Len(u.parts) \in Nat
         /\ Walked(t) = Step(Walked(u), Last(t.parts))
         /\ \A i \in 0..Len(u.parts) : Walks(t)[i] = Walks(u)[i]
         /\ \A i \in 1..Len(u.parts) : t.parts[i] = u.parts[i]
<1>1. /\ Len(t.parts) \in Nat \ {0} /\ Len(u.parts) = Len(t.parts) - 1
      /\ \A i \in 1..(Len(t.parts) - 1) : u.parts[i] = t.parts[i]
  BY FrontIs DEF Text
<1>2. \A i \in 0..Len(u.parts) : Walks(t)[i] = Walks(u)[i]
  BY <1>1, WalksAgree
<1>3. Walks(t)[Len(t.parts)] =
        Step(Walks(t)[Len(t.parts) - 1], t.parts[Len(t.parts)])
  BY <1>1, WalksAre
<1>4. Walked(t) = Step(Walked(u), Last(t.parts))
  BY <1>1, <1>2, <1>3 DEF Walked, Last
<1> QED BY <1>1, <1>2, <1>4

(* fs::absolute: the working directory is a real path.                     *)
LEMMA AbsoluteWalks ==
  ASSUME NEW t \in Text
  PROVE  Absolute(t) \in Text /\ Absolute(t).abs /\ Walked(Absolute(t)) = Walked(t)
<1>1. CASE t.abs BY <1>1 DEF Absolute
<1>2. CASE ~t.abs
  <2> DEFINE u == [abs |-> TRUE, parts |-> Cwd \o t.parts]
             m == Len(Cwd)
             n == Len(t.parts)
  <2>1. Absolute(t) = u BY <1>2 DEF Absolute
  <2>2. Cwd \in Seq(Component) /\ t.parts \in Seq(Component)
    BY CommandLineAssumption DEF Text
  <2>3. m \in Nat /\ n \in Nat BY <2>2
  <2>4. u \in Text /\ Len(u.parts) = m + n
    BY <2>2 DEF Text
  <2>5. \A i \in 1..m : u.parts[i] = Cwd[i]
    BY <2>2
  <2>6. \A i \in 1..n : u.parts[m + i] = t.parts[i]
    BY <2>2
  <2>7. u.abs = TRUE OBVIOUS
  <2> HIDE DEF u
  <2> DEFINE S == {i \in Nat : i \in 0..m => Walks(u)[i] = SubSeq(Cwd, 1, i)}
  <2>8. 0 \in S
    <3>1. Walks(u)[0] = <<>> BY <2>4, <2>7, WalksAre DEF Start
    <3>2. SubSeq(Cwd, 1, 0) = <<>> BY <2>2
    <3> QED BY <3>1, <3>2
  <2>9. ASSUME NEW i \in Nat, i \in S PROVE i + 1 \in S
    <3> SUFFICES ASSUME i + 1 \in 0..m
                 PROVE  Walks(u)[i + 1] = SubSeq(Cwd, 1, i + 1)
      OBVIOUS
    <3>1. /\ i \in 0..m /\ i + 1 \in 1..m /\ (i + 1) - 1 = i
          /\ i + 1 \in 1..Len(u.parts)
      BY <2>3, <2>4
    <3>2. Walks(u)[i + 1] = Step(SubSeq(Cwd, 1, i), Cwd[i + 1])
      BY <2>4, <2>5, <2>9, <3>1, WalksAre
    <3>3. Append(SubSeq(Cwd, 1, i), Cwd[i + 1]) = SubSeq(Cwd, 1, i + 1)
      BY <2>2, <2>3, <3>1
    <3>4. Cwd[i + 1] # ".." /\ SubSeq(Cwd, 1, i + 1) \notin DOMAIN Links
      BY <2>2, <3>1, CommandLineAssumption
    <3> QED BY <3>2, <3>3, <3>4 DEF Step, Real
  <2> HIDE DEF S
  <2>10. m \in S BY <2>3, <2>8, <2>9, NatSet
  <2>11. Walks(u)[m] = Cwd
    <3>1. Walks(u)[m] = SubSeq(Cwd, 1, m) BY <2>3, <2>10 DEF S
    <3>2. SubSeq(Cwd, 1, m) = Cwd BY <2>2
    <3> QED BY <3>1, <3>2
  <2> DEFINE T == {i \in Nat : i \in 0..n => Walks(u)[m + i] = Walks(t)[i]}
  <2>12. 0 \in T
    <3>1. Walks(t)[0] = Cwd BY <1>2, WalksAre DEF Start
    <3>2. m + 0 = m BY <2>3
    <3> QED BY <2>11, <3>1, <3>2
  <2>13. ASSUME NEW i \in Nat, i \in T PROVE i + 1 \in T
    <3> SUFFICES ASSUME i + 1 \in 0..n
                 PROVE  Walks(u)[m + (i + 1)] = Walks(t)[i + 1]
      OBVIOUS
    <3>1. /\ i \in 0..n /\ i + 1 \in 1..n /\ (i + 1) - 1 = i
          /\ m + (i + 1) \in 1..Len(u.parts) /\ (m + (i + 1)) - 1 = m + i
      BY <2>3, <2>4
    <3>2. Walks(u)[m + (i + 1)] = Step(Walks(u)[m + i], u.parts[m + (i + 1)])
      BY <2>4, <3>1, WalksAre
    <3>3. Walks(t)[i + 1] = Step(Walks(t)[i], t.parts[i + 1])
      BY <3>1, WalksAre
    <3> QED BY <2>6, <2>13, <3>1, <3>2, <3>3
  <2> HIDE DEF T
  <2>14. n \in T BY <2>3, <2>12, <2>13, NatSet
  <2>15. Walks(u)[m + n] = Walks(t)[n] BY <2>3, <2>14 DEF T
  <2> QED BY <2>1, <2>4, <2>7, <2>15 DEF Walked
<1> QED BY <1>1, <1>2 DEF Text

-----------------------------------------------------------------------------
(* Normalisation.  As long as a ".." is still to come, the components that *)
(* are kept lead nowhere through a symlink, so that dropping the last one  *)
(* of them is what ".." does to the place the kernel has reached.          *)

NoLinks(t) ==
  \A k \in 1..Len(t.parts) :
    t.parts[k] # ".." => Append(Walks(t)[k - 1], t.parts[k]) \notin DOMAIN Links

LEMMA AppendWalks ==
  ASSUME NEW t \in Text, NEW u \in Text, NEW c \in Component,
         u.abs = t.abs, u.parts = Append(t.parts, c)
  PROVE  /\ Walked(u) = Step(Walked(t), c)
         /\ NoLinks(t) /\ (c # ".." => Append(Walked(t), c) \notin DOMAIN Links)
              => NoLinks(u)
<1>1. t.parts \in Seq(Component) /\ Len(t.parts) \in Nat BY DEF Text
<1>2. u.parts # <<>> /\ Front(u.parts) = t.parts BY <1>1, AppendIs
<1>3. Len(u.parts) = Len(t.parts) + 1 /\ u.parts[Len(t.parts) + 1] = c
  BY <1>1
<1>4. Last(u.parts) = c BY <1>3 DEF Last
<1>5. Walked(u) = Step(Walked(t), c) BY <1>2, <1>4, OneMore
<1>6. ASSUME NoLinks(t), c # ".." => Append(Walked(t), c) \notin DOMAIN Links
      PROVE  NoLinks(u)
  <2> SUFFICES ASSUME NEW k \in 1..Len(u.parts), u.parts[k] # ".."
               PROVE  Append(Walks(u)[k - 1], u.parts[k]) \notin DOMAIN Links
    BY DEF NoLinks
  <2>1. CASE k = Len(t.parts) + 1
    <3>1. k - 1 = Len(t.parts) /\ k - 1 \in 0..Len(t.parts) BY <1>1, <2>1
    <3>2. Walks(u)[k - 1] = Walks(t)[k - 1] BY <1>2, <3>1, OneMore
    <3> QED BY <1>3, <1>6, <2>1, <3>1, <3>2 DEF Walked
  <2>2. CASE k # Len(t.parts) + 1
    <3>1. k \in 1..Len(t.parts) /\ k - 1 \in 0..Len(t.parts)
      BY <1>1, <1>3, <2>2
    <3>2. Walks(u)[k - 1] = Walks(t)[k - 1] /\ u.parts[k] = t.parts[k]
      BY <1>2, <3>1, OneMore
    <3> QED BY <1>6, <3>1, <3>2 DEF NoLinks
  <2> QED BY <2>1, <2>2
<1> QED BY <1>5, <1>6

LEMMA FrontWalks ==
  ASSUME NEW t \in Text, NEW u \in Text, t.parts # <<>>, Last(t.parts) # "..",
         NoLinks(t), u.abs = t.abs, u.parts = Front(t.parts)
  PROVE  Walked(u) = Step(Walked(t), "..") /\ NoLinks(u)
<1>1. /\ Len(t.parts) = Len(u.parts) + 1 /\ Len(u.parts) \in Nat
      /\ Walked(t) = Step(Walked(u), Last(t.parts))
      /\ \A i \in 0..Len(u.parts) : Walks(t)[i] = Walks(u)[i]
      /\ \A i \in 1..Len(u.parts) : t.parts[i] = u.parts[i]
  BY OneMore
<1>2. Last(t.parts) \in Component BY FrontIs DEF Text
<1>3. Walked(u) \in Parts BY <1>1, WalksAre DEF Walked
<1>4. Append(Walked(u), Last(t.parts)) \notin DOMAIN Links
  <2>1. Len(t.parts) \in 1..Len(t.parts) /\ Len(t.parts) - 1 = Len(u.parts)
    BY <1>1
  <2>2. Walks(t)[Len(t.parts) - 1] = Walked(u) BY <1>1, <2>1 DEF Walked
  <2> QED BY <2>1, <2>2 DEF NoLinks, Last
<1>5. Walked(t) = Append(Walked(u), Last(t.parts))
  BY <1>1, <1>4 DEF Step, Real
<1>6. Walked(t) # <<>> /\ Front(Walked(t)) = Walked(u)
  BY <1>2, <1>3, <1>5, AppendIs DEF Parts
<1>7. Walked(u) = Step(Walked(t), "..") BY <1>6 DEF Step
<1>8. NoLinks(u)
  <2> SUFFICES ASSUME NEW k \in 1..Len(u.parts), u.parts[k] # ".."
               PROVE  Append(Walks(u)[k - 1], u.parts[k]) \notin DOMAIN Links
    BY DEF NoLinks
  <2>1. k \in 1..Len(t.parts) /\ k - 1 \in 0..Len(u.parts) BY <1>1
  <2> QED BY <1>1, <2>1 DEF NoLinks
<1> QED BY <1>7, <1>8

(* One component, whatever Push does with it.                              *)
LEMMA PushWalks ==
  ASSUME NEW t \in Text, NEW u \in Text, NEW c \in Component,
         u.abs = t.abs, u.parts = Push(t.abs, t.parts, c), c = ".." => NoLinks(t)
  PROVE  /\ Walked(u) = Step(Walked(t), c)
         /\ NoLinks(t) /\ (c # ".." => Append(Walked(t), c) \notin DOMAIN Links)
              => NoLinks(u)
<1>1. CASE c = ".." /\ t.parts # <<>> /\ Last(t.parts) # ".."
  <2>1. u.parts = Front(t.parts) BY <1>1 DEF Push
  <2> QED BY <1>1, <2>1, FrontWalks
<1>2. CASE c = ".." /\ t.parts = <<>> /\ t.abs
  <2>1. u.parts = <<>> /\ t.parts = <<>> BY <1>2 DEF Push
  <2>2. Len(u.parts) = 0 /\ Len(t.parts) = 0 BY <2>1
  <2>3. Walked(u) = <<>> /\ Walked(t) = <<>>
    BY <1>2, <2>2, WalksAre DEF Walked, Start
  <2>4. NoLinks(u) BY <2>2 DEF NoLinks
  <2> QED BY <1>2, <2>3, <2>4 DEF Step
<1>3. CASE /\ ~(c = ".." /\ t.parts # <<>> /\ Last(t.parts) # "..")
           /\ ~(c = ".." /\ t.parts = <<>> /\ t.abs)
  <2>1. u.parts = Append(t.parts, c) BY <1>3 DEF Push
  <2> QED BY <2>1, AppendWalks
<1> QED BY <1>1, <1>2, <1>3

LEMMA NormalWalks ==
  ASSUME NEW text \in Text, ~ClimbsBehindLink(text)
  PROVE  /\ LexicallyNormal(text) \in Text
         /\ LexicallyNormal(text).abs = text.abs
         /\ Walked(LexicallyNormal(text)) = Walked(text)
<1> DEFINE n == Len(text.parts)
           N == Normals(text)
           W == Walks(text)
           kept(i) == [abs |-> text.abs, parts |-> N[i]]
           Climbs(i) == \E j \in (i + 1)..n : text.parts[j] = ".."
           Good(i) == /\ Walked(kept(i)) = W[i]
                      /\ Climbs(i) => NoLinks(kept(i))
           S == {i \in Nat : i \in 0..n => Good(i)}
<1>1. /\ n \in Nat /\ text.abs \in BOOLEAN
      /\ \A i \in 1..n : text.parts[i] \in Component
  BY DEF Text
<1>2. \A i \in 0..n : N[i] \in Parts BY NormalsAre
<1>3. \A i \in 0..n : kept(i) \in Text BY <1>1, <1>2 DEF Text, Parts
<1>4. \A i \in 0..n : kept(i).abs = text.abs /\ kept(i).parts = N[i] OBVIOUS
<1> HIDE DEF kept
<1>5. 0 \in S
  <2>1. 0 \in 0..n /\ N[0] = <<>> BY <1>1, NormalsAre
  <2>2. Len(kept(0).parts) = 0 BY <1>4, <2>1
  <2>3. Walked(kept(0)) = Start(kept(0)) BY <1>3, <2>1, <2>2, WalksAre DEF Walked
  <2>4. W[0] = Start(text) BY WalksAre
  <2>5. Start(kept(0)) = Start(text) BY <1>4, <2>1 DEF Start
  <2>6. NoLinks(kept(0)) BY <2>2 DEF NoLinks
  <2> QED BY <2>3, <2>4, <2>5, <2>6
<1>6. ASSUME NEW i \in Nat, i \in S PROVE i + 1 \in S
  <2> SUFFICES ASSUME i + 1 \in 0..n PROVE Good(i + 1) OBVIOUS
  <2> DEFINE c == text.parts[i + 1]
  <2>1. /\ i \in 0..n /\ i + 1 \in 1..n /\ (i + 1) - 1 = i BY <1>1
  <2>2. Good(i) BY <1>6, <2>1
  <2>3. N[i + 1] = Push(text.abs, N[i], c) BY <2>1, NormalsAre
  <2>4. W[i + 1] = Step(W[i], c) BY <2>1, WalksAre
  <2>5. c = ".." => Climbs(i) BY <1>1, <2>1
  <2>6. Climbs(i + 1) => Climbs(i) BY <1>1, <2>1
  <2>7. Climbs(i + 1) => Append(W[i], c) \notin DOMAIN Links
    <3> SUFFICES ASSUME NEW j \in (i + 2)..n, text.parts[j] = "..",
                        Append(W[i], c) \in DOMAIN Links
                 PROVE  FALSE
      BY <2>1
    <3>1. j \in DOMAIN text.parts /\ i + 1 \in DOMAIN text.parts /\ i + 1 < j
      BY <1>1, <2>1 DEF Text
    <3>2. Append(Walks(text)[(i + 1) - 1], text.parts[i + 1]) \in DOMAIN Links
      BY <2>1
    <3> HIDE DEF W, c
    <3> QED BY <3>1, <3>2 DEF ClimbsBehindLink
  <2>8. /\ kept(i) \in Text /\ kept(i + 1) \in Text /\ c \in Component
        /\ kept(i + 1).abs = kept(i).abs
        /\ kept(i + 1).parts = Push(kept(i).abs, kept(i).parts, c)
    BY <1>1, <1>3, <1>4, <2>1, <2>3
  <2> HIDE DEF W, N, c, Climbs
  <2>9. Walked(kept(i + 1)) = Step(Walked(kept(i)), c)
    BY <2>2, <2>5, <2>8, PushWalks
  <2>10. Climbs(i + 1) => NoLinks(kept(i + 1))
    BY <2>2, <2>5, <2>6, <2>7, <2>8, PushWalks
  <2> QED BY <2>2, <2>4, <2>9, <2>10
<1> HIDE DEF S
<1>7. n \in S BY <1>1, <1>5, <1>6, NatSet
<1>8. Walked(kept(n)) = W[n] BY <1>1, <1>7 DEF S
<1>9. LexicallyNormal(text) = kept(n)
  BY DEF LexicallyNormal, Text, kept
<1> QED BY <1>1, <1>3, <1>4, <1>8, <1>9 DEF Walked

LEMMA NormalType ==
  ASSUME NEW text \in Text
  PROVE  LexicallyNormal(text) \in Text /\ LexicallyNormal(text).abs = text.abs
<1>1. Len(text.parts) \in 0..Len(text.parts) BY DEF Text
<1>2. Normals(text)[Len(text.parts)] \in Seq(Component)
  BY <1>1, NormalsAre DEF Parts
<1> QED BY <1>2 DEF LexicallyNormal, Text

-----------------------------------------------------------------------------
(* parse.                                                                  *)

(* What becomes of a path that is given.                                   *)
Made(text) == Absolute(LexicallyNormal(text))

(* The targets are made absolute from the first to the last, then the root.*)
ProgressInv ==
  /\ \A i \in 1..Len(targets) :
       targets[i] = IF i <= made THEN Made(given.targets[i]) ELSE given.targets[i]
  /\ \A i \in 1..made : given.targets[i] # NoText
  /\ stage = "options" => made = 0
  /\ stage = "targets" => made < Len(targets)
  /\ stage \in {"root", "params"} => made = Len(targets)
  /\ fakeRoot = IF stage = "params" THEN Made(RootText(given.fakeRoot))
                ELSE given.fakeRoot

GivenType ==
  /\ given \in CommandLines /\ stage \in Stage /\ cwdGone \in BOOLEAN
  /\ targets \in Seq(Text \cup {NoText}) /\ Len(targets) = Len(given.targets)
  /\ made \in 0..Len(targets)

CliInv == GivenType /\ ProgressInv /\ AbortsHaveACause

LEMMA GivenTexts ==
  ASSUME GivenType
  PROVE  /\ given.targets \in Seq(Text \cup {NoText})
         /\ Len(targets) \in Nat /\ made \in Nat /\ made <= Len(targets)
         /\ \A i \in 1..Len(targets) : given.targets[i] \in Text \cup {NoText}
         /\ RootText(given.fakeRoot) \in Text
<1>1. given.targets \in Seq(Text \cup {NoText}) /\ given.fakeRoot \in Text \cup {NoText}
  BY CommandLineAssumption DEF GivenType
<1>2. [abs |-> FALSE, parts |-> <<>>] \in Text BY DEF Text
<1>3. RootText(given.fakeRoot) \in Text BY <1>1, <1>2 DEF RootText
<1> QED BY <1>1, <1>3 DEF GivenType

LEMMA MadeType ==
  ASSUME NEW text \in Text PROVE Made(text) \in Text /\ Made(text).abs
BY NormalType, AbsoluteWalks DEF Made

LEMMA CliInitInv == CliInit => CliInv
<1> SUFFICES ASSUME CliInit PROVE CliInv OBVIOUS
<1>1. given.targets \in Seq(Text \cup {NoText}) BY CommandLineAssumption DEF CliInit
<1>2. GivenType
  <2>1. 0 \in 0..Len(given.targets) BY <1>1
  <2> QED BY <1>1, <2>1 DEF CliInit, GivenType, Stage
<1>3. ProgressInv BY <1>1 DEF CliInit, ProgressInv
<1>4. AbortsHaveACause BY DEF CliInit, AbortsHaveACause
<1> QED BY <1>2, <1>3, <1>4 DEF CliInv

LEMMA ParseOptionsKeeps ==
  ASSUME CliInv, ParseOptions PROVE CliInv'
<1>1. UNCHANGED <<given, targets, fakeRoot, made, cwdGone>> /\ stage = "options"
  BY DEF ParseOptions, parsed
<1>2. stage' \in {"exit 0", "exit error", "targets"}
      /\ (stage' = "targets" => targets # <<>>)
  BY DEF ParseOptions
<1>3. targets # <<>> => Len(targets) # 0 BY DEF CliInv, GivenType
<1>4. GivenType' BY <1>1, <1>2 DEF CliInv, GivenType, Stage
<1>5. ProgressInv'
  <2>1. made = 0 /\ Len(targets) \in Nat
    BY <1>1, GivenTexts DEF CliInv, ProgressInv
  <2>2. stage' = "targets" => made' < Len(targets')
    BY <1>1, <1>2, <1>3, <2>1
  <2> QED BY <1>1, <1>2, <2>1, <2>2 DEF CliInv, ProgressInv
<1>6. AbortsHaveACause' BY <1>2 DEF AbortsHaveACause
<1> QED BY <1>4, <1>5, <1>6 DEF CliInv

LEMMA MakeAbsoluteKeeps ==
  ASSUME CliInv, MakeAbsolute PROVE CliInv'
<1>1. /\ UNCHANGED <<given, fakeRoot, cwdGone>> /\ stage = "targets"
      /\ made < Len(targets) /\ made' = made + 1
      /\ targets' = [targets EXCEPT ![made + 1] = Made(@)]
      /\ stage' = IF made + 1 = Len(targets) THEN "root" ELSE stage
  BY DEF MakeAbsolute, Made
<1>2. /\ Len(targets) \in Nat /\ made \in Nat /\ made + 1 \in 1..Len(targets)
      /\ targets \in Seq(Text \cup {NoText})
  BY <1>1, GivenTexts DEF CliInv, GivenType
<1>3. targets[made + 1] = given.targets[made + 1]
      /\ targets[made + 1] \in Text /\ targets[made + 1] # NoText
  <2>1. targets[made + 1] = given.targets[made + 1]
    BY <1>2 DEF CliInv, ProgressInv
  <2>2. targets[made + 1] # NoText BY DEF MakeAbsolute, Fails
  <2> QED BY <1>2, <2>1, <2>2
<1>4. targets' \in Seq(Text \cup {NoText}) /\ Len(targets') = Len(targets)
      /\ \A i \in 1..Len(targets) :
           targets'[i] = IF i = made + 1 THEN Made(given.targets[i]) ELSE targets[i]
  BY <1>1, <1>2, <1>3, MadeType
<1>5. GivenType' BY <1>1, <1>2, <1>4 DEF CliInv, GivenType, Stage
<1>6. ProgressInv'
  <2>1. ASSUME NEW i \in 1..Len(targets')
        PROVE  targets'[i] = IF i <= made' THEN Made(given'.targets[i])
                             ELSE given'.targets[i]
    <3>1. i \in 1..Len(targets) BY <1>4
    <3>2. targets[i] = IF i <= made THEN Made(given.targets[i])
                       ELSE given.targets[i]
      BY <3>1 DEF CliInv, ProgressInv
    <3>3. i <= made + 1 <=> i <= made \/ i = made + 1 BY <1>2, <3>1
    <3>4. i = made + 1 => ~(i <= made) BY <1>2
    <3> QED BY <1>1, <1>4, <3>1, <3>2, <3>3, <3>4
  <2>2. /\ stage' # "options" /\ stage' # "params"
        /\ stage' = "targets" => made' < Len(targets')
        /\ stage' = "root" => made' = Len(targets')
    <3>1. made + 1 # Len(targets) => made + 1 < Len(targets) BY <1>1, <1>2
    <3> QED BY <1>1, <1>4, <3>1
  <2>3. fakeRoot' = given'.fakeRoot BY <1>1 DEF CliInv, ProgressInv
  <2>4. \A i \in 1..made' : given'.targets[i] # NoText
    <3>1. \A i \in 1..(made + 1) : i \in 1..made \/ i = made + 1 BY <1>2
    <3>2. \A i \in 1..made : given.targets[i] # NoText BY DEF CliInv, ProgressInv
    <3> QED BY <1>1, <1>3, <3>1, <3>2
  <2> QED BY <2>1, <2>2, <2>3, <2>4 DEF ProgressInv
<1>7. AbortsHaveACause' BY <1>1 DEF AbortsHaveACause
<1> QED BY <1>5, <1>6, <1>7 DEF CliInv

LEMMA TakeRootKeeps ==
  ASSUME CliInv, TakeRoot PROVE CliInv'
<1>1. /\ UNCHANGED <<given, targets, made, cwdGone>> /\ stage = "root"
      /\ stage' = "params" /\ fakeRoot' = Made(RootText(fakeRoot))
  BY DEF TakeRoot, Made
<1>2. GivenType' BY <1>1 DEF CliInv, GivenType, Stage
<1>3. ProgressInv' BY <1>1 DEF CliInv, ProgressInv
<1>4. AbortsHaveACause'
  <2>1. made = Len(targets) BY <1>1 DEF CliInv, ProgressInv
  <2>2. \A i \in 1..Len(given.targets) : given.targets[i] # NoText
    BY <2>1 DEF CliInv, ProgressInv, GivenType
  <2>3. NoText \notin ToSet(given.targets)
    BY <2>2, GivenTexts DEF CliInv, ToSet
  <2> QED BY <1>1, <2>3 DEF AbortsHaveACause
<1> QED BY <1>2, <1>3, <1>4 DEF CliInv

LEMMA AbortKeeps ==
  ASSUME CliInv, Abort PROVE CliInv'
<1>1. UNCHANGED <<given, targets, fakeRoot, made, cwdGone>> /\ stage' = "aborted"
  BY DEF Abort, parsed
<1>2. GivenType' BY <1>1 DEF CliInv, GivenType, Stage
<1>3. stage \in {"targets", "root"} BY DEF Abort
<1>4. ProgressInv' BY <1>1, <1>3 DEF CliInv, ProgressInv
<1>5. AbortsHaveACause'
  <2>1. CASE stage = "targets" /\ Fails(targets[made + 1])
    <3>1. made + 1 \in 1..Len(targets) /\ ~(made + 1 <= made)
      BY <2>1, GivenTexts DEF CliInv, ProgressInv
    <3>2. targets[made + 1] = given.targets[made + 1]
      BY <3>1 DEF CliInv, ProgressInv
    <3> DEFINE text == given.targets[made + 1]
    <3>3. text = NoText \/ (cwdGone /\ ~text.abs) BY <2>1, <3>2 DEF Fails
    <3>4. text \in ToSet(given.targets)
      BY <3>1, GivenTexts DEF CliInv, GivenType, ToSet
    <3> HIDE DEF text
    <3> QED BY <1>1, <3>3, <3>4 DEF AbortsHaveACause
  <2>2. CASE stage = "root" /\ Fails(RootText(fakeRoot))
    <3>1. fakeRoot = given.fakeRoot BY <2>2 DEF CliInv, ProgressInv
    <3>2. RootText(fakeRoot) # NoText
      BY <3>1, GivenTexts, CommandLineAssumption DEF CliInv
    <3>3. cwdGone /\ ~RootText(fakeRoot).abs BY <2>2, <3>2 DEF Fails
    <3> QED BY <1>1, <3>1, <3>3 DEF AbortsHaveACause
  <2> QED BY <2>1, <2>2 DEF Abort
<1> QED BY <1>2, <1>4, <1>5 DEF CliInv

LEMMA RemoveCwdKeeps ==
  ASSUME CliInv, RemoveCwd PROVE CliInv'
<1>1. UNCHANGED <<given, stage, targets, fakeRoot, made>> /\ cwdGone' = TRUE
  BY DEF RemoveCwd, parsed
<1>2. GivenType' BY <1>1 DEF CliInv, GivenType
<1>3. ProgressInv' BY <1>1 DEF CliInv, ProgressInv
<1>4. AbortsHaveACause'
  BY <1>1 DEF CliInv, AbortsHaveACause
<1> QED BY <1>2, <1>3, <1>4 DEF CliInv

LEMMA CliInvariant == CliSpec => []CliInv
<1>1. ASSUME CliInv, [CliNext]_cliVars PROVE CliInv'
  <2>1. CASE ParseOptions BY <1>1, <2>1, ParseOptionsKeeps
  <2>2. CASE MakeAbsolute BY <1>1, <2>2, MakeAbsoluteKeeps
  <2>3. CASE TakeRoot BY <1>1, <2>3, TakeRootKeeps
  <2>4. CASE Abort BY <1>1, <2>4, AbortKeeps
  <2>5. CASE RemoveCwd BY <1>1, <2>5, RemoveCwdKeeps
  <2>6. CASE UNCHANGED cliVars
    <3>1. UNCHANGED <<given, stage, targets, fakeRoot, made, cwdGone>>
      BY <2>6 DEF cliVars, parsed
    <3> QED BY <1>1, <3>1 DEF CliInv, GivenType, ProgressInv,
                              AbortsHaveACause
  <2> QED BY <1>1, <2>1, <2>2, <2>3, <2>4, <2>5, <2>6 DEF CliNext
<1> QED BY <1>1, CliInitInv, PTL DEF CliSpec

-----------------------------------------------------------------------------
(* Parameters are only handed over when every path in them is absolute.    *)
THEOREM CliTypeCorrect == CliSpec => []CliTypeOK
<1>1. ASSUME CliInv PROVE CliTypeOK
  <2>1. GivenType /\ ProgressInv BY <1>1 DEF CliInv
  <2>2. ASSUME stage = "params"
        PROVE  fakeRoot.abs
               /\ \A i \in DOMAIN targets : targets[i] # NoText /\ targets[i].abs
    <3>1. fakeRoot.abs
      BY <2>1, <2>2, GivenTexts, MadeType DEF ProgressInv
    <3>2. ASSUME NEW i \in DOMAIN targets PROVE targets[i] # NoText /\ targets[i].abs
      <4>1. i \in 1..Len(targets) BY <2>1 DEF GivenType
      <4>2. i \in 1..made /\ targets[i] = Made(given.targets[i])
        BY <2>1, <2>2, <4>1, GivenTexts DEF ProgressInv
      <4>3. given.targets[i] \in Text
        BY <2>1, <4>1, <4>2, GivenTexts DEF ProgressInv
      <4> QED BY <4>2, <4>3, MadeType, CommandLineAssumption
    <3> QED BY <3>1, <3>2
  <2> QED BY <2>1, <2>2 DEF GivenType, CliTypeOK
<1> QED BY <1>1, CliInvariant, PTL

(* parse aborts the program only over an empty target text, or when the    *)
(* working directory is gone and some path of the command needs it; and no *)
(* command with an empty target gets through.                              *)
THEOREM AbortsHaveCauses == CliSpec => []AbortsHaveACause
<1>1. CliInv => AbortsHaveACause BY DEF CliInv
<1> QED BY <1>1, CliInvariant, PTL

(* The texts that are handed over lead the kernel where the given ones do, *)
(* unless a text climbs back from a symlink.                               *)
THEOREM PathsStillNameTheirFiles == CliSpec => []PathsNameTheirFiles
<1>1. ASSUME NEW text \in Text, ~ClimbsBehindLink(text)
      PROVE  Walked(Made(text)) = Walked(text)
  BY <1>1, NormalWalks, AbsoluteWalks DEF Made
<1>2. ASSUME CliInv PROVE PathsNameTheirFiles
  <2>1. GivenType /\ ProgressInv BY <1>2 DEF CliInv
  <2>2. ASSUME stage = "params", NEW i \in DOMAIN targets
        PROVE  ClimbsBehindLink(given.targets[i])
                 \/ Walked(targets[i]) = Walked(given.targets[i])
    <3>1. i \in 1..Len(targets) BY <2>1 DEF GivenType
    <3>2. i \in 1..made /\ targets[i] = Made(given.targets[i])
      BY <2>1, <2>2, <3>1, GivenTexts DEF ProgressInv
    <3>3. given.targets[i] \in Text
      BY <2>1, <3>1, <3>2, GivenTexts DEF ProgressInv
    <3> QED BY <1>1, <3>2, <3>3
  <2>3. ASSUME stage = "params"
        PROVE  ClimbsBehindLink(RootText(given.fakeRoot))
                 \/ Walked(fakeRoot) = Walked(RootText(given.fakeRoot))
    BY <1>1, <2>1, <2>3, GivenTexts DEF ProgressInv
  <2> QED BY <2>2, <2>3 DEF PathsNameTheirFiles
<1> QED BY <1>2, CliInvariant, PTL

=============================================================================
