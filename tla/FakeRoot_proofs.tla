--------------------------- MODULE FakeRoot_proofs ---------------------------
(***************************************************************************)
(* Facts about the output directory: where the kernel's walk ends, where   *)
(* create_directories and the file operations put things, and that every   *)
(* operation leaves a tree.                                                *)
(***************************************************************************)
EXTENDS FakeRoot, Recursion_proofs, SequenceTheorems

Endpoint == Location \cup {Nowhere, Outside}

-----------------------------------------------------------------------------
(* The nodes of a tree.                                                    *)

LEMMA NodeKinds ==
  /\ \A n \in BundleFile : n.kind = "file"
  /\ \A n \in BundleLink : n.kind = "link" /\ n.to \in RelPath
  /\ DirNode.kind = "dir"
BY DEF BundleFile, BundleLink, DirNode

LEMMA NodeType ==
  ASSUME NEW t, Tree(t), NEW l \in DOMAIN t
  PROVE  /\ l \in Location /\ l # <<>>
         /\ IsDirectory(t, Front(l))
         /\ t[l].kind \in {"file", "link", "dir"}
         /\ t[l].kind = "file" => t[l] \in BundleFile
         /\ t[l].kind = "link" => t[l] \in BundleLink /\ t[l].to \in RelPath
         /\ t[l].kind = "dir" => t[l] = DirNode
<1>1. /\ l \in Location \ {<<>>} /\ IsDirectory(t, Front(l))
      /\ t[l] \in BundleFile \cup BundleLink \cup {DirNode}
  BY DEF Tree
<1> QED BY <1>1, NodeKinds

LEMMA Parts ==
  /\ Location \subseteq RelPath
  /\ ".." \notin Component \cup Name
  /\ Nowhere \notin Location /\ Outside \notin Location /\ Nowhere # Outside
<1> DEFINE S == Component \cup Name
<1>1. "" \notin S /\ ".." \notin S BY RootAssumption
<1>2. Location = Seq(S) /\ RelPath = Seq(S \cup {".."}) BY DEF Location, RelPath
<1> HIDE DEF S
<1>3. Nowhere \notin Seq(S) /\ Outside \notin Seq(S)
  <2>1. ASSUME NEW x, x \notin S PROVE <<x>> \notin Seq(S)
    <3> SUFFICES ASSUME <<x>> \in Seq(S) PROVE FALSE OBVIOUS
    <3>1. <<x>>[1] = x /\ 1 \in 1..Len(<<x>>) OBVIOUS
    <3>2. <<x>>[1] \in S BY <3>1, ElementOfSeq
    <3> QED BY <2>1, <3>1, <3>2
  <2> QED BY <1>1, <2>1 DEF Nowhere, Outside
<1>4. Nowhere # Outside
  <2>1. Nowhere[1] = "" /\ Outside[1] = ".." BY DEF Nowhere, Outside
  <2> QED BY <2>1
<1>5. Seq(S) \subseteq Seq(S \cup {".."}) BY SeqMonotonic
<1> QED BY <1>1, <1>2, <1>3, <1>4, <1>5 DEF S

-----------------------------------------------------------------------------
(* The walk ends, and where.                                               *)

Stops(t, chroot) == {s \in WalkState : Halts(t, chroot, s)}
Moves(t, chroot) == [s \in WalkState \ Stops(t, chroot) |-> Advance(t, s)]
HopsOf == [s \in WalkState |-> s.hops]
AheadOf == [s \in WalkState |-> Len(s.ahead)]

LEMMA AdvanceType ==
  ASSUME NEW t, Tree(t), NEW s \in WalkState,
         s.ahead # <<>>, IsDirectory(t, s.at), ~(OnLink(t, s) /\ s.hops = 0)
  PROVE  /\ Advance(t, s) \in WalkState
         /\ IF OnLink(t, s) THEN Advance(t, s).hops = s.hops - 1
            ELSE /\ Advance(t, s).hops = s.hops
                 /\ Len(Advance(t, s).ahead) < Len(s.ahead)
<1> DEFINE S == Component \cup Name
           head == Head(s.ahead)
           tail == Tail(s.ahead)
<1>1. s.hops \in 0..MaxHops /\ s.at \in Location /\ s.ahead \in RelPath
      /\ s = [hops |-> s.hops, at |-> s.at, ahead |-> s.ahead]
  BY DEF WalkState
<1>2. /\ head \in S \cup {".."} /\ tail \in RelPath /\ Len(tail) = Len(s.ahead) - 1
      /\ Len(s.ahead) \in Nat /\ MaxHops \in Nat
  BY <1>1, HeadTailProperties, LenProperties, GeographyAssumption DEF RelPath
<1>3. CASE OnLink(t, s)
  <2>1. Here(s) \in DOMAIN t /\ t[Here(s)].kind = "link" BY <1>3 DEF OnLink
  <2>2. t[Here(s)].to \in RelPath BY <2>1, NodeType
  <2>3. t[Here(s)].to \o tail \in RelPath BY <1>2, <2>2, ConcatProperties DEF RelPath
  <2>4. Advance(t, s) = [hops |-> s.hops - 1, at |-> s.at, ahead |-> t[Here(s)].to \o tail]
    BY <1>1, <1>3 DEF Advance
  <2>5. s.hops - 1 \in 0..MaxHops BY <1>1, <1>2, <1>3
  <2> QED BY <1>1, <1>3, <2>3, <2>4, <2>5 DEF WalkState
<1>4. CASE ~OnLink(t, s)
  <2> DEFINE to == CASE head # ".." -> Here(s) [] Leaves(s) -> s.at
                     [] OTHER -> Front(s.at)
  <2>1. Advance(t, s) = [hops |-> s.hops, at |-> to, ahead |-> tail]
    BY <1>1, <1>4 DEF Advance
  <2>2. to \in Location
    <3>1. CASE head # ".."
      <4>1. head \in S BY <1>2, <3>1
      <4>2. Here(s) \in Location
        BY <1>1, <4>1, AppendProperties DEF Here, Location
      <4>3. to = Here(s) BY <3>1 DEF Leaves
      <4> QED BY <4>2, <4>3
    <3>2. CASE head = ".."
      <4>1. CASE s.at = <<>> BY <1>1, <3>2, <4>1 DEF Leaves
      <4>2. CASE s.at # <<>>
        <5>1. to = Front(s.at) BY <3>2, <4>2 DEF Leaves
        <5>2. Len(s.at) \in Nat \ {0} BY <1>1, <4>2, EmptySeq DEF Location
        <5>3. \A i \in 1..(Len(s.at) - 1) : s.at[i] \in S
          BY <1>1, <5>2, ElementOfSeq DEF Location
        <5>4. SubSeq(s.at, 1, Len(s.at) - 1) \in Seq(S)
          <6> HIDE DEF S
          <6>1. Len(s.at) - 1 \in Int BY <5>2
          <6> QED BY <5>3, <6>1, SubSeqProperties
        <5> QED BY <5>1, <5>4 DEF Front, Location
      <4> QED BY <4>1, <4>2
    <3> QED BY <3>1, <3>2
  <2> HIDE DEF to
  <2> QED BY <1>1, <1>2, <1>4, <2>1, <2>2 DEF WalkState
<1> QED BY <1>3, <1>4

LEMMA WalkDescends ==
  ASSUME NEW t, Tree(t), NEW chroot \in BOOLEAN
  PROVE  Descends(WalkState, Stops(t, chroot), Moves(t, chroot), HopsOf, AheadOf)
<1>1. \A s \in WalkState : s.hops \in Nat /\ Len(s.ahead) \in Nat
  BY GeographyAssumption, LenProperties DEF WalkState, RelPath
<1>2. HopsOf \in [WalkState -> Nat] /\ AheadOf \in [WalkState -> Nat]
  BY <1>1 DEF HopsOf, AheadOf
<1>3. Stops(t, chroot) \in SUBSET WalkState BY DEF Stops
<1>4. ASSUME NEW s \in WalkState \ Stops(t, chroot)
      PROVE  /\ Advance(t, s) \in WalkState
             /\ Moves(t, chroot)[s] = Advance(t, s)
             /\ \/ HopsOf[Advance(t, s)] < HopsOf[s]
                \/ /\ HopsOf[Advance(t, s)] = HopsOf[s]
                   /\ AheadOf[Advance(t, s)] < AheadOf[s]
  <2>1. /\ s.ahead # <<>> /\ IsDirectory(t, s.at)
        /\ ~(OnLink(t, s) /\ s.hops = 0)
    BY DEF Stops, Halts
  <2>2. /\ Advance(t, s) \in WalkState
        /\ IF OnLink(t, s) THEN Advance(t, s).hops = s.hops - 1
           ELSE /\ Advance(t, s).hops = s.hops
                /\ Len(Advance(t, s).ahead) < Len(s.ahead)
    BY <2>1, AdvanceType
  <2>3. s.hops - 1 < s.hops BY <1>1
  <2> QED BY <2>2, <2>3 DEF Moves, HopsOf, AheadOf
<1>5. Moves(t, chroot) \in [WalkState \ Stops(t, chroot) -> WalkState]
  BY <1>4 DEF Moves
<1> QED BY <1>2, <1>3, <1>4, <1>5 DEF Descends

LEMMA WalksAre ==
  ASSUME NEW t, Tree(t), NEW chroot \in BOOLEAN
  PROVE  /\ Walks(t, chroot) \in [WalkState -> Endpoint]
         /\ \A s \in WalkState :
              Walks(t, chroot)[s] =
                IF Halts(t, chroot, s) THEN Reached(t, s)
                ELSE Walks(t, chroot)[Advance(t, s)]
<1> DEFINE X == WalkState
           Stop == Stops(t, chroot)
           result == [s \in Stop |-> Reached(t, s)]
           walk(f, s) == IF Halts(t, chroot, s) THEN Reached(t, s) ELSE f[Advance(t, s)]
<1>1. result \in [Stop -> Endpoint]
  <2>1. \A s \in Stop : s.at \in Location BY DEF Stops, WalkState
  <2> QED BY <2>1 DEF Reached, Endpoint
<1>2. PICK f \in [X -> Endpoint] :
        \A s \in X : f[s] = IF s \in Stop THEN result[s] ELSE f[Moves(t, chroot)[s]]
  <2> HIDE DEF X, Stop, result
  <2>1. Descends(X, Stop, Moves(t, chroot), HopsOf, AheadOf)
    BY WalkDescends DEF X, Stop
  <2> QED BY <1>1, <2>1, TailRecursion
<1>3. f = [s \in X |-> walk(f, s)]
  <2>1. ASSUME NEW s \in X PROVE f[s] = walk(f, s)
    <3>1. s \in Stop <=> Halts(t, chroot, s) BY DEF Stops
    <3>2. s \in Stop => result[s] = Reached(t, s) OBVIOUS
    <3>3. s \notin Stop => Moves(t, chroot)[s] = Advance(t, s) BY DEF Moves
    <3> HIDE DEF X, Stop, result
    <3> QED BY <1>2, <3>1, <3>2, <3>3
  <2> HIDE DEF walk
  <2> QED BY <1>2, <2>1
<1>4. Walks(t, chroot) = CHOOSE g : g = [s \in X |-> walk(g, s)]
  BY DEF Walks
<1>5. Walks(t, chroot) = [s \in X |-> walk(Walks(t, chroot), s)]
  <2> HIDE DEF walk, X
  <2> QED BY <1>3, <1>4
<1> DEFINE W == Walks(t, chroot)
<1>6. \A s \in X : W[s] = walk(W, s)
  <2> HIDE DEF W, X
  <2>1. W = [s \in X |-> walk(W, s)] BY <1>5 DEF W
  <2> QED BY <2>1
<1> DEFINE S == {s \in X : W[s] \in Endpoint}
<1>7. X \subseteq S
  <2>1. Stop \subseteq S
    <3>1. \A s \in Stop : result[s] \in Endpoint BY <1>1
    <3>2. \A s \in Stop : s \in X /\ W[s] = result[s] BY <1>6 DEF Stops
    <3> QED BY <3>1, <3>2
  <2>2. \A s \in X \ Stop : Moves(t, chroot)[s] \in S => s \in S
    <3>1. \A s \in X \ Stop : W[s] = W[Moves(t, chroot)[s]]
      BY <1>6 DEF Moves, Stops
    <3> HIDE DEF W
    <3> QED BY <3>1
  <2>3. Descends(X, Stop, Moves(t, chroot), HopsOf, AheadOf) BY WalkDescends
  <2> HIDE DEF X, Stop, S
  <2> QED BY <2>1, <2>2, <2>3, WalkInduction
<1>8. W \in [X -> Endpoint]
  <2>1. \A s \in X : W[s] \in Endpoint BY <1>7
  <2>2. W = [s \in X |-> walk(W, s)] BY <1>5
  <2> HIDE DEF W, walk
  <2> QED BY <2>1, <2>2
<1> QED BY <1>6, <1>8

-----------------------------------------------------------------------------
(* The first k components of a path, and the others.                       *)

LEMMA PathParts ==
  ASSUME NEW S, NEW g \in Seq(S), NEW k \in 0..Len(g)
  PROVE  /\ SubSeq(g, 1, k) \in Seq(S) /\ Len(SubSeq(g, 1, k)) = k
         /\ \A i \in 1..k : SubSeq(g, 1, k)[i] = g[i]
         /\ SubSeq(g, k + 1, Len(g)) \in Seq(S)
         /\ Len(SubSeq(g, k + 1, Len(g))) = Len(g) - k
         /\ \A i \in 1..(Len(g) - k) : SubSeq(g, k + 1, Len(g))[i] = g[k + i]
         /\ k = 0 => SubSeq(g, 1, k) = <<>>
         /\ k = Len(g) => SubSeq(g, 1, k) = g /\ SubSeq(g, k + 1, Len(g)) = <<>>
<1> DEFINE L == Len(g)
<1>1. L \in Nat /\ \A i \in 1..L : g[i] \in S BY LenProperties, ElementOfSeq
<1>2. /\ SubSeq(g, 1, k) \in Seq(S) /\ Len(SubSeq(g, 1, k)) = k
      /\ \A i \in 1..k : SubSeq(g, 1, k)[i] = g[i]
  <2>1. \A i \in 1..k : g[i] \in S BY <1>1
  <2>2. /\ SubSeq(g, 1, k) \in Seq(S)
        /\ Len(SubSeq(g, 1, k)) = IF 1 <= k THEN k - 1 + 1 ELSE 0
        /\ \A i \in 1..(k - 1 + 1) : SubSeq(g, 1, k)[i] = g[1 + i - 1]
    BY <1>1, <2>1, SubSeqProperties
  <2> QED BY <1>1, <2>2
<1>3. /\ SubSeq(g, k + 1, L) \in Seq(S) /\ Len(SubSeq(g, k + 1, L)) = L - k
      /\ \A i \in 1..(L - k) : SubSeq(g, k + 1, L)[i] = g[k + i]
  <2>1. \A i \in (k + 1)..L : g[i] \in S BY <1>1
  <2>2. /\ SubSeq(g, k + 1, L) \in Seq(S)
        /\ Len(SubSeq(g, k + 1, L)) = IF k + 1 <= L THEN L - (k + 1) + 1 ELSE 0
        /\ \A i \in 1..(L - (k + 1) + 1) : SubSeq(g, k + 1, L)[i] = g[(k + 1) + i - 1]
    <3> HIDE DEF L
    <3> QED BY <1>1, <2>1, SubSeqProperties
  <2> HIDE DEF L
  <2>3. ASSUME NEW i \in 1..(L - k) PROVE SubSeq(g, k + 1, L)[i] = g[k + i]
    <3>1. i \in 1..(L - (k + 1) + 1) /\ (k + 1) + i - 1 = k + i BY <1>1
    <3>2. SubSeq(g, k + 1, L)[i] = g[(k + 1) + i - 1] BY <2>2, <3>1
    <3> QED BY <3>1, <3>2
  <2>4. Len(SubSeq(g, k + 1, L)) = L - k
    <3>1. k \in Int /\ k <= L /\ L \in Int BY <1>1 DEF L
    <3>2. k + 1 <= L => L - (k + 1) + 1 = L - k BY <3>1
    <3>3. ~(k + 1 <= L) => L - k = 0 BY <3>1
    <3> QED BY <2>2, <3>2, <3>3
  <2> QED BY <2>2, <2>3, <2>4
<1>4. k = 0 => SubSeq(g, 1, k) = <<>> BY SubSeqEmpty
<1>5. k = L => SubSeq(g, 1, k) = g /\ SubSeq(g, k + 1, L) = <<>>
  BY <1>1, SubSeqFull, SubSeqEmpty
<1> QED BY <1>2, <1>3, <1>4, <1>5

LEMMA NextPart ==
  ASSUME NEW S, NEW g \in Seq(S), NEW k \in 0..(Len(g) - 1)
  PROVE  /\ g[k + 1] \in S
         /\ SubSeq(g, k + 1, Len(g)) # <<>>
         /\ Head(SubSeq(g, k + 1, Len(g))) = g[k + 1]
         /\ Tail(SubSeq(g, k + 1, Len(g))) = SubSeq(g, k + 2, Len(g))
         /\ Append(SubSeq(g, 1, k), g[k + 1]) = SubSeq(g, 1, k + 1)
         /\ Front(SubSeq(g, 1, k + 1)) = SubSeq(g, 1, k)
         /\ SubSeq(g, 1, k + 1) # <<>>
<1>1. Len(g) \in Nat /\ k \in 0..Len(g) /\ k + 1 \in 0..Len(g) /\ k + 1 \in 1..Len(g)
  BY LenProperties
<1>2. g[k + 1] \in S BY <1>1, ElementOfSeq
<1>3. /\ Head(SubSeq(g, k + 1, Len(g))) = g[k + 1]
      /\ Tail(SubSeq(g, k + 1, Len(g))) = SubSeq(g, (k + 1) + 1, Len(g))
  BY <1>1, HeadTailOfSubSeq
<1>4. /\ Len(SubSeq(g, k + 1, Len(g))) # 0
      /\ SubSeq(g, k + 1, Len(g)) \in Seq(S)
  BY <1>1, PathParts
<1>5. SubSeq(g, 1, k + 1) = Append(SubSeq(g, 1, k), g[k + 1])
  <2>1. SubSeq(g, 1, k + 1) = SubSeq(g, 1, (k + 1) - 1) \o <<g[k + 1]>>
    BY <1>1, SubSeqRecursiveSecond
  <2>2. (k + 1) - 1 = k OBVIOUS
  <2>3. SubSeq(g, 1, k) \in Seq(S) BY <1>1, PathParts
  <2> QED BY <1>2, <2>1, <2>2, <2>3, AppendIsConcat
<1>6. SubSeq(g, 1, k) \in Seq(S) BY <1>1, PathParts
<1>7. SubSeq(g, 1, k + 1) # <<>>
  BY <1>2, <1>5, <1>6, AppendProperties
<1>8. Front(Append(SubSeq(g, 1, k), g[k + 1])) = SubSeq(g, 1, k)
  BY <1>2, <1>6, FrontOfAppend
<1>9. SubSeq(g, k + 1, Len(g)) # <<>>
  <2>1. Len(<<>>) = 0 OBVIOUS
  <2> QED BY <1>4, <2>1
<1>10. (k + 1) + 1 = k + 2 OBVIOUS
<1> QED BY <1>2, <1>3, <1>5, <1>7, <1>8, <1>9, <1>10

LinkAt(t, l) == l \in DOMAIN t /\ t[l].kind = "link"

(* The walk from at along ahead with so many hops left.                    *)
From(t, hops, at, ahead) ==
  Walks(t, FALSE)[[hops |-> hops, at |-> at, ahead |-> ahead]]

LEMMA FromType ==
  ASSUME NEW t, Tree(t), NEW h \in 0..MaxHops, NEW at \in Location, NEW q \in RelPath
  PROVE  From(t, h, at, q) \in Endpoint
BY WalksAre DEF From, WalkState

LEMMA FollowFrom ==
  ASSUME NEW t, NEW q PROVE Follow(t, q) = From(t, MaxHops, <<>>, q)
BY DEF Follow, Walking, From

(* The end of the path, and a place that is no directory.                  *)
LEMMA Arrives ==
  ASSUME NEW t, Tree(t), NEW h \in 0..MaxHops, NEW at \in Location
  PROVE  From(t, h, at, <<>>) = at
<1>1. [hops |-> h, at |-> at, ahead |-> <<>>] \in WalkState
  BY EmptySeq DEF WalkState, RelPath
<1> QED BY <1>1, WalksAre DEF From, Halts, Reached

LEMMA Blocked ==
  ASSUME NEW t, Tree(t), NEW h \in 0..MaxHops, NEW at \in Location, NEW q \in RelPath,
         q # <<>>, ~IsDirectory(t, at)
  PROVE  From(t, h, at, q) = Nowhere
<1>1. [hops |-> h, at |-> at, ahead |-> q] \in WalkState BY DEF WalkState
<1>2. at # <<>> BY DEF IsDirectory
<1> QED BY <1>1, <1>2, WalksAre DEF From, Halts, Reached, Leaves

(* One component down, one up, and one symlink.                            *)
LEMMA StepDown ==
  ASSUME NEW t, Tree(t), NEW h \in 0..MaxHops, NEW at \in Location, NEW q \in RelPath,
         q # <<>>, Head(q) # "..", IsDirectory(t, at), ~LinkAt(t, Append(at, Head(q)))
  PROVE  From(t, h, at, q) = From(t, h, Append(at, Head(q)), Tail(q))
<1> DEFINE s == [hops |-> h, at |-> at, ahead |-> q]
<1>1. s \in WalkState BY DEF WalkState
<1>2. ~OnLink(t, s) /\ ~Leaves(s) /\ Here(s) = Append(at, Head(q))
  BY DEF OnLink, LinkAt, Leaves, Here
<1>3. Advance(t, s) = [hops |-> h, at |-> Append(at, Head(q)), ahead |-> Tail(q)]
  BY <1>2 DEF Advance
<1>4. ~Halts(t, FALSE, s) BY <1>2 DEF Halts
<1> HIDE DEF s
<1>5. Walks(t, FALSE)[s] = Walks(t, FALSE)[Advance(t, s)] BY <1>1, <1>4, WalksAre
<1> QED BY <1>3, <1>5 DEF From, s

LEMMA StepUp ==
  ASSUME NEW t, Tree(t), NEW h \in 0..MaxHops, NEW at \in Location, NEW q \in RelPath,
         q # <<>>, Head(q) = "..", IsDirectory(t, at), at # <<>>
  PROVE  From(t, h, at, q) = From(t, h, Front(at), Tail(q))
<1> DEFINE s == [hops |-> h, at |-> at, ahead |-> q]
<1>1. s \in WalkState BY DEF WalkState
<1>2. ~OnLink(t, s) /\ ~Leaves(s)
  BY DEF OnLink, Leaves
<1>3. Advance(t, s) = [hops |-> h, at |-> Front(at), ahead |-> Tail(q)]
  BY <1>2 DEF Advance
<1>4. ~Halts(t, FALSE, s) BY <1>2 DEF Halts
<1> HIDE DEF s
<1>5. Walks(t, FALSE)[s] = Walks(t, FALSE)[Advance(t, s)] BY <1>1, <1>4, WalksAre
<1> QED BY <1>3, <1>5 DEF From, s

LEMMA StepLink ==
  ASSUME NEW t, Tree(t), NEW h \in 1..MaxHops, NEW at \in Location, NEW q \in RelPath,
         q # <<>>, Head(q) # "..", IsDirectory(t, at), LinkAt(t, Append(at, Head(q)))
  PROVE  From(t, h, at, q)
           = From(t, h - 1, at, t[Append(at, Head(q))].to \o Tail(q))
<1> DEFINE s == [hops |-> h, at |-> at, ahead |-> q]
<1>1. s \in WalkState BY DEF WalkState
<1>2. OnLink(t, s) /\ ~Leaves(s) /\ Here(s) = Append(at, Head(q))
  BY DEF OnLink, LinkAt, Leaves, Here
<1>3. Advance(t, s) = [hops |-> h - 1, at |-> at,
                       ahead |-> t[Append(at, Head(q))].to \o Tail(q)]
  BY <1>2 DEF Advance
<1>4. ~Halts(t, FALSE, s) BY <1>2 DEF Halts
<1> HIDE DEF s
<1>5. Walks(t, FALSE)[s] = Walks(t, FALSE)[Advance(t, s)] BY <1>1, <1>4, WalksAre
<1> QED BY <1>3, <1>5 DEF From, s

(* Down a path as long as there are directories and no symlinks.           *)
LEMMA GoesDown ==
  ASSUME NEW t, Tree(t), NEW h \in 0..MaxHops, NEW g \in Location,
         NEW n \in 0..Len(g),
         \A k \in 0..(n - 1) : /\ IsDirectory(t, SubSeq(g, 1, k))
                              /\ ~LinkAt(t, SubSeq(g, 1, k + 1))
  PROVE  From(t, h, <<>>, g) = From(t, h, SubSeq(g, 1, n), SubSeq(g, n + 1, Len(g)))
<1> DEFINE S == Component \cup Name
           after(k) == From(t, h, SubSeq(g, 1, k), SubSeq(g, k + 1, Len(g)))
           Q == {k \in Nat : k <= n => after(k) = after(0)}
<1>1. g \in Seq(S) /\ Len(g) \in Nat BY LenProperties DEF Location
<1>2. 0 \in Q OBVIOUS
<1>3. ASSUME NEW k \in Nat, k + 1 <= n PROVE after(k) = after(k + 1)
  <2> DEFINE at == SubSeq(g, 1, k)
             q == SubSeq(g, k + 1, Len(g))
  <2>1. k \in 0..Len(g) /\ k \in 0..(Len(g) - 1) /\ k \in 0..(n - 1) BY <1>1, <1>3
  <2>2. at \in Seq(S) /\ q \in Seq(S)
    <3> HIDE DEF S
    <3> QED BY <1>1, <2>1, PathParts
  <2>3. /\ g[k + 1] \in S /\ q # <<>> /\ Head(q) = g[k + 1]
        /\ Tail(q) = SubSeq(g, k + 2, Len(g))
        /\ Append(at, g[k + 1]) = SubSeq(g, 1, k + 1)
    <3> HIDE DEF S
    <3> QED BY <1>1, <2>1, NextPart
  <2>4. at \in Location /\ q \in RelPath /\ Head(q) # ".."
    BY <2>2, <2>3, Parts DEF Location
  <2>5. IsDirectory(t, at) /\ ~LinkAt(t, Append(at, Head(q))) BY <2>1, <2>3
  <2> HIDE DEF at, q
  <2>6. From(t, h, at, q) = From(t, h, Append(at, Head(q)), Tail(q))
    BY <2>3, <2>4, <2>5, StepDown
  <2>7. (k + 1) + 1 = k + 2 OBVIOUS
  <2> QED BY <2>3, <2>6, <2>7 DEF at, q
<1> HIDE DEF after
<1>4. ASSUME NEW k \in Nat, k \in Q PROVE k + 1 \in Q
  BY <1>3, <1>4
<1> HIDE DEF Q
<1>5. Nat \subseteq Q BY <1>2, <1>4, NatSet
<1>6. after(n) = after(0) BY <1>5, <1>1 DEF Q
<1>7. SubSeq(g, 1, 0) = <<>> /\ SubSeq(g, 0 + 1, Len(g)) = g
  BY <1>1, PathParts, SubSeqFull
<1> QED BY <1>6, <1>7 DEF after

(* What is above a directory of a tree is a directory.                     *)
LEMMA DirectoriesAbove ==
  ASSUME NEW t, Tree(t), NEW g \in Location, IsDirectory(t, g)
  PROVE  \A k \in 0..Len(g) : IsDirectory(t, SubSeq(g, 1, k))
<1> DEFINE S == Component \cup Name
           L == Len(g)
           Q == {j \in Nat : j <= L => IsDirectory(t, SubSeq(g, 1, L - j))}
<1>1. g \in Seq(S) /\ L \in Nat BY LenProperties DEF Location
<1>2. 0 \in Q
  <2>1. L - 0 = L BY <1>1
  <2>2. SubSeq(g, 1, L) = g
    <3> HIDE DEF S
    <3> QED BY <1>1, SubSeqFull
  <2> QED BY <2>1, <2>2
<1>3. ASSUME NEW j \in Nat, j \in Q PROVE j + 1 \in Q
  <2> SUFFICES ASSUME j + 1 <= L PROVE IsDirectory(t, SubSeq(g, 1, L - (j + 1)))
    OBVIOUS
  <2> DEFINE k == L - (j + 1)
  <2>1. k \in 0..(L - 1) /\ k + 1 = L - j BY <1>1
  <2>2. IsDirectory(t, SubSeq(g, 1, k + 1)) BY <1>1, <1>3, <2>1
  <2> HIDE DEF k
  <2>3. SubSeq(g, 1, k + 1) # <<>> /\ Front(SubSeq(g, 1, k + 1)) = SubSeq(g, 1, k)
    <3> HIDE DEF S
    <3> QED BY <1>1, <2>1, NextPart
  <2>4. IsDirectory(t, SubSeq(g, 1, k))
    BY <2>2, <2>3, NodeType DEF IsDirectory
  <2> QED BY <2>4 DEF k
<1> HIDE DEF Q
<1>4. Nat \subseteq Q BY <1>2, <1>3, NatSet
<1>5. ASSUME NEW k \in 0..L PROVE IsDirectory(t, SubSeq(g, 1, k))
  <2>1. L - k \in Nat /\ L - k <= L /\ L - (L - k) = k BY <1>1
  <2> QED BY <1>4, <2>1 DEF Q
<1> QED BY <1>5

(* A path without symlinks is where it says, if its parent is a directory. *)
LEMMA Direct ==
  ASSUME NEW t, Tree(t), NEW h \in 0..MaxHops, NEW g \in Location,
         \A k \in 1..Len(g) : ~LinkAt(t, SubSeq(g, 1, k))
  PROVE  From(t, h, <<>>, g) =
           IF g = <<>> \/ IsDirectory(t, Front(g)) THEN g ELSE Nowhere
<1> DEFINE S == Component \cup Name
           L == Len(g)
<1>1. g \in Seq(S) /\ L \in Nat BY LenProperties DEF Location
<1>2. \A k \in 0..L : SubSeq(g, 1, k) \in Location /\ SubSeq(g, k + 1, L) \in RelPath
  <2>1. \A k \in 0..L : SubSeq(g, 1, k) \in Seq(S) /\ SubSeq(g, k + 1, L) \in Seq(S)
    <3> HIDE DEF S
    <3> QED BY <1>1, PathParts
  <2> QED BY <2>1, Parts DEF Location
<1>3. SubSeq(g, 1, 0) = <<>> /\ SubSeq(g, 1, L) = g /\ SubSeq(g, L + 1, L) = <<>>
  <2> HIDE DEF S
  <2>1. 0 \in 0..L /\ L \in 0..L BY <1>1
  <2> QED BY <1>1, <2>1, PathParts
<1>4. CASE g = <<>> BY <1>4, Arrives
<1>5. CASE g # <<>> /\ IsDirectory(t, Front(g))
  <2>1. L \in Nat \ {0} /\ Front(g) = SubSeq(g, 1, L - 1)
    BY <1>1, <1>5, EmptySeq DEF Front
  <2>2. Front(g) \in Location /\ Len(Front(g)) = L - 1
    BY <1>1, <1>5, FrontIs DEF Location
  <2>3. \A k \in 0..(L - 1) : IsDirectory(t, SubSeq(g, 1, k))
    <3>1. \A k \in 0..(L - 1) : IsDirectory(t, SubSeq(Front(g), 1, k))
      BY <1>5, <2>2, DirectoriesAbove
    <3>2. ASSUME NEW k \in 0..(L - 1)
          PROVE  SubSeq(Front(g), 1, k) = SubSeq(g, 1, k)
      <4> DEFINE f == SubSeq(Front(g), 1, k)
                 e == SubSeq(g, 1, k)
      <4>1. /\ f \in Seq(S) /\ Len(f) = k
            /\ \A i \in 1..k : f[i] = Front(g)[i]
        <5>1. Front(g) \in Seq(S) /\ k \in 0..Len(Front(g)) BY <2>2 DEF Location
        <5> HIDE DEF S
        <5> QED BY <5>1, PathParts
      <4>2. /\ e \in Seq(S) /\ Len(e) = k
            /\ \A i \in 1..k : e[i] = g[i]
        <5>1. k \in 0..Len(g) BY <1>1
        <5> HIDE DEF S
        <5> QED BY <1>1, <5>1, PathParts
      <4>3. \A i \in 1..k : Front(g)[i] = g[i]
        <5>1. \A i \in 1..(L - 1) : Front(g)[i] = g[i]
          <6> HIDE DEF S
          <6> QED BY <1>1, <1>5, FrontIs
        <5> QED BY <1>1, <5>1
      <4> HIDE DEF f, e, S
      <4>4. f = e BY <4>1, <4>2, <4>3, SeqEqual
      <4> QED BY <4>4 DEF f, e
    <3> QED BY <3>1, <3>2
  <2>4. From(t, h, <<>>, g) = From(t, h, SubSeq(g, 1, L), SubSeq(g, L + 1, L))
    <3>1. \A k \in 0..(L - 1) : k + 1 \in 1..L BY <1>1
    <3>2. L \in 0..L BY <1>1
    <3> QED BY <2>3, <3>1, <3>2, GoesDown
  <2>5. From(t, h, g, <<>>) = g BY Arrives
  <2> QED BY <1>3, <1>5, <2>4, <2>5
<1>6. CASE g # <<>> /\ ~IsDirectory(t, Front(g))
  <2> DEFINE Bad == {k \in 0..(L - 1) : ~IsDirectory(t, SubSeq(g, 1, k))}
  <2>1. L \in Nat \ {0} /\ Front(g) = SubSeq(g, 1, L - 1)
    BY <1>1, <1>6, EmptySeq DEF Front
  <2>2. Bad \in SUBSET Nat /\ Bad # {} BY <1>6, <2>1
  <2>3. PICK k \in Bad : \A j \in Bad : k <= j
    <3> HIDE DEF Bad
    <3> QED BY <2>2, LeastNumber
  <2>4. k \in 0..(L - 1) /\ ~IsDirectory(t, SubSeq(g, 1, k)) /\ k \in 0..L
    BY <1>1, <2>3
  <2>5. \A j \in 0..(k - 1) : IsDirectory(t, SubSeq(g, 1, j))
    <3>1. \A j \in 0..(k - 1) : j \in 0..(L - 1) /\ ~(k <= j) BY <1>1, <2>4
    <3> QED BY <2>3, <3>1
  <2>6. From(t, h, <<>>, g) = From(t, h, SubSeq(g, 1, k), SubSeq(g, k + 1, L))
    <3>1. \A j \in 0..(k - 1) : j + 1 \in 1..L BY <1>1, <2>4
    <3> QED BY <2>4, <2>5, <3>1, GoesDown
  <2>7. SubSeq(g, k + 1, L) # <<>>
    <3> HIDE DEF S
    <3> QED BY <1>1, <2>4, NextPart
  <2> QED BY <1>2, <1>6, <2>4, <2>6, <2>7, Blocked
<1> QED BY <1>4, <1>5, <1>6

-----------------------------------------------------------------------------
(* The places of the flat layout.                                          *)

LEMMA LayoutParts ==
  /\ Redirected = {<<"lib">>, <<"usr", "lib">>, <<"usr", "lib64">>}
  /\ LayoutPlaces = Redirected \cup {<<"bin">>, <<"lib64">>, <<"usr">>}
  /\ ToSet(CompatibilitySymlinks(FlatLib64)) =
       {[at |-> <<"lib">>, to |-> <<"lib64">>],
        [at |-> <<"usr", "lib">>, to |-> <<"..", "lib64">>],
        [at |-> <<"usr", "lib64">>, to |-> <<"..", "lib64">>]}
<1>1. ToSet(CompatibilitySymlinks(FlatLib64)) =
       {[at |-> <<"lib">>, to |-> <<"lib64">>],
        [at |-> <<"usr", "lib">>, to |-> <<"..", "lib64">>],
        [at |-> <<"usr", "lib64">>, to |-> <<"..", "lib64">>]}
  <2> DEFINE a == [at |-> <<"lib">>, to |-> <<"lib64">>]
             b == [at |-> <<"usr", "lib">>, to |-> <<"..", "lib64">>]
             c == [at |-> <<"usr", "lib64">>, to |-> <<"..", "lib64">>]
  <2>1. CompatibilitySymlinks(FlatLib64) = <<a, b, c>> BY DEF CompatibilitySymlinks
  <2> HIDE DEF a, b, c
  <2>2. ToSet(<<a, b, c>>) = {a, b, c} BY DEF ToSet
  <2> QED BY <2>1, <2>2 DEF a, b, c
<1>2. Redirected = {<<"lib">>, <<"usr", "lib">>, <<"usr", "lib64">>}
  BY <1>1 DEF Redirected
<1>3. ToSet(CompatibilityDirectories(FlatLib64)) = {<<"bin">>, <<"lib64">>, <<"usr">>}
  <2> DEFINE a == <<"bin">>
             b == <<"lib64">>
             c == <<"usr">>
  <2>1. CompatibilityDirectories(FlatLib64) = <<a, b, c>> BY DEF CompatibilityDirectories
  <2> HIDE DEF a, b, c
  <2>2. ToSet(<<a, b, c>>) = {a, b, c} BY DEF ToSet
  <2> QED BY <2>1, <2>2 DEF a, b, c
<1> QED BY <1>1, <1>2, <1>3 DEF LayoutPlaces

LEMMA RedirectedParts ==
  /\ Redirected \subseteq Location
  /\ \A r \in Redirected :
       /\ Len(r) \in {1, 2} /\ r[1] # "lib64"
       /\ Len(r) = 1 => r = <<"lib">>
       /\ Len(r) = 2 => r[1] = "usr"
  /\ \A q, r \in Redirected : q[1] = r[1] => Len(q) = Len(r)
  /\ \A q, r \in Redirected : Len(q) = 2 /\ Len(r) = 2 /\ q[2] = r[2] => q = r
<1> DEFINE S == Component \cup Name
<1>1. {"lib", "usr", "lib64"} \subseteq S
  <2> DEFINE U == UNION {ToSet(Components[d]) : d \in Dir}
  <2>1. Component = U \cup {"bin", "lib64", "lib", "usr"} BY DEF Component
  <2> HIDE DEF U
  <2> QED BY <2>1
<1>2. \A x \in S : <<x>> \in Seq(S)
  <2> HIDE DEF S
  <2> QED OBVIOUS
<1>3. \A x, y \in S : <<x, y>> \in Seq(S)
  <2> HIDE DEF S
  <2> QED OBVIOUS
<1>4. Redirected \subseteq Location BY <1>1, <1>2, <1>3, LayoutParts DEF Location
<1>5. \A r \in Redirected :
        \/ r = <<"lib">> /\ Len(r) = 1 /\ r[1] = "lib"
        \/ Len(r) = 2 /\ r[1] = "usr" /\ r[2] = "lib" /\ r = <<"usr", "lib">>
        \/ Len(r) = 2 /\ r[1] = "usr" /\ r[2] = "lib64" /\ r = <<"usr", "lib64">>
  BY LayoutParts
<1>6. "lib" # "usr" /\ "lib" # "lib64" /\ "usr" # "lib64" OBVIOUS
<1> QED BY <1>4, <1>5, <1>6

(* A prefix, component by component.                                       *)
LEMMA PrefixIs ==
  ASSUME NEW S, NEW r \in Seq(S), NEW p \in Seq(S)
  PROVE  IsPrefix(r, p) <=> Len(r) <= Len(p) /\ \A i \in 1..Len(r) : r[i] = p[i]
<1>1. Len(r) \in Nat /\ Len(p) \in Nat BY LenProperties
<1>2. SubSeq(r, 1, Len(r)) = r BY SubSeqFull
<1> DEFINE q == SubSeq(p, 1, Len(r))
<1>3. ASSUME Len(r) <= Len(p)
      PROVE  q \in Seq(S) /\ Len(q) = Len(r) /\ \A i \in 1..Len(r) : q[i] = p[i]
  BY <1>1, <1>3, PathParts
<1> HIDE DEF q
<1>4. ASSUME Len(r) <= Len(p), \A i \in 1..Len(r) : r[i] = p[i] PROVE r = q
  BY <1>3, <1>4, SeqEqual
<1>5. IsPrefix(r, p) <=> Len(r) <= Len(p) /\ r = q
  BY <1>2 DEF IsPrefix, q
<1> QED BY <1>3, <1>4, <1>5

(* Where a directory symlink of the layout takes a path.                   *)
LEMMA TurnedParts ==
  ASSUME NEW S, "lib64" \in S, NEW p \in Seq(S), NEW r \in Seq(S), Len(r) <= Len(p)
  PROVE  /\ Turned(p, r) \in Seq(S) /\ Turned(p, r) # <<>>
         /\ Len(Turned(p, r)) = Len(p) - Len(r) + 1
         /\ Turned(p, r)[1] = "lib64"
         /\ \A i \in 2..(Len(p) - Len(r) + 1) : Turned(p, r)[i] = p[Len(r) + i - 1]
         /\ Turned(p, r) = <<"lib64">> \o SubSeq(p, Len(r) + 1, Len(p))
<1> DEFINE q == SubSeq(p, Len(r) + 1, Len(p))
           m == Len(r)
           L == Len(p)
           lib == <<"lib64">>
           g == lib \o q
<1>1. m \in Nat /\ L \in Nat /\ m <= L /\ m \in 0..L BY LenProperties
<1>2. q \in Seq(S) /\ Len(q) = L - m /\ \A i \in 1..(L - m) : q[i] = p[m + i]
  BY <1>1, PathParts
<1>3. lib \in Seq(S) /\ Len(lib) = 1 /\ lib[1] = "lib64" OBVIOUS
<1>4. Turned(p, r) = g BY DEF Turned
<1> HIDE DEF q, lib
<1>5. /\ g \in Seq(S) /\ Len(g) = 1 + Len(q)
      /\ \A i \in 1..(1 + Len(q)) : g[i] = IF i <= 1 THEN lib[i] ELSE q[i - 1]
  <2>1. /\ lib \o q \in Seq(S) /\ Len(lib \o q) = Len(lib) + Len(q)
        /\ \A i \in 1..(Len(lib) + Len(q)) :
             (lib \o q)[i] = IF i <= Len(lib) THEN lib[i] ELSE q[i - Len(lib)]
    BY <1>2, <1>3, ConcatProperties
  <2> QED BY <1>3, <2>1
<1> HIDE DEF g
<1>6. Len(g) = L - m + 1 BY <1>1, <1>2, <1>5
<1>7. g[1] = "lib64"
  <2>1. 1 \in 1..(1 + Len(q)) BY <1>1, <1>2
  <2> QED BY <1>3, <1>5, <2>1
<1>8. ASSUME NEW i \in 2..(L - m + 1) PROVE g[i] = p[m + i - 1]
  <2>1. i \in 1..(1 + Len(q)) /\ ~(i <= 1) /\ i - 1 \in 1..(L - m)
        /\ m + (i - 1) = m + i - 1
    BY <1>1, <1>2
  <2>2. g[i] = q[i - 1] BY <1>5, <2>1
  <2>3. q[i - 1] = p[m + (i - 1)] BY <1>2, <2>1
  <2> QED BY <2>1, <2>2, <2>3
<1>9. g # <<>>
  <2>1. Len(<<>>) = 0 /\ L - m + 1 # 0 BY <1>1
  <2> QED BY <1>6, <2>1
<1> QED BY <1>4, <1>5, <1>6, <1>7, <1>8, <1>9 DEF q, lib, g

(* The symlinks of the layout that a path meets in t, and where it goes.   *)
Turns(t, p) == {r \in Redirected : IsPrefix(r, p) /\ LinkAt(t, r)}
Goes(t, p) ==
  IF Turns(t, p) = {} THEN p ELSE Turned(p, CHOOSE r \in Turns(t, p) : TRUE)

LEMMA LocationIs ==
  /\ Location = Seq(Component \cup Name)
  /\ "lib64" \in Component \cup Name
  /\ Redirected \subseteq Seq(Component \cup Name)
<1> DEFINE S == Component \cup Name
<1>1. "lib64" \in S
  <2> DEFINE U == UNION {ToSet(Components[d]) : d \in Dir}
  <2>1. Component = U \cup {"bin", "lib64", "lib", "usr"} BY DEF Component
  <2> HIDE DEF U
  <2> QED BY <2>1
<1> QED BY <1>1, RedirectedParts DEF Location

LEMMA OneTurn ==
  ASSUME NEW p \in Location, NEW q \in Redirected, NEW r \in Redirected,
         IsPrefix(q, p), IsPrefix(r, p)
  PROVE  q = r
<1> DEFINE S == Component \cup Name
<1>1. p \in Seq(S) /\ q \in Seq(S) /\ r \in Seq(S) BY LocationIs
<1>2. /\ \A i \in 1..Len(q) : q[i] = p[i]
      /\ \A i \in 1..Len(r) : r[i] = p[i]
  <2> HIDE DEF S
  <2> QED BY <1>1, PrefixIs
<1>3. Len(q) \in {1, 2} /\ Len(r) \in {1, 2} BY RedirectedParts
<1>4. 1 \in 1..Len(q) /\ 1 \in 1..Len(r) BY <1>3
<1>5. q[1] = r[1] BY <1>2, <1>4
<1>6. Len(q) = Len(r) BY <1>5, RedirectedParts
<1>7. CASE Len(q) = 1 BY <1>6, <1>7, RedirectedParts
<1>8. CASE Len(q) = 2
  <2>1. 2 \in 1..Len(q) /\ 2 \in 1..Len(r) BY <1>6, <1>8
  <2>2. q[2] = r[2] BY <1>2, <2>1
  <2> QED BY <1>6, <1>8, <2>2, RedirectedParts
<1> QED BY <1>3, <1>7, <1>8

LEMMA GoesIs ==
  ASSUME NEW t, NEW p \in Location
  PROVE  /\ Turns(t, p) = {} => Goes(t, p) = p
         /\ \A r \in Turns(t, p) :
              /\ r \in Redirected /\ IsPrefix(r, p) /\ LinkAt(t, r)
              /\ Turns(t, p) = {r} /\ Goes(t, p) = Turned(p, r)
              /\ Len(r) <= Len(p)
         /\ Goes(t, p) \in Location /\ Goes(t, p) \in Spots(p)
<1>1. ASSUME NEW r \in Turns(t, p)
      PROVE  /\ r \in Redirected /\ IsPrefix(r, p) /\ LinkAt(t, r)
             /\ Turns(t, p) = {r} /\ Goes(t, p) = Turned(p, r)
             /\ Len(r) <= Len(p)
  <2>1. r \in Redirected /\ IsPrefix(r, p) /\ LinkAt(t, r) BY DEF Turns
  <2>2. Turns(t, p) = {r} BY <2>1, OneTurn DEF Turns
  <2>3. Goes(t, p) = Turned(p, r) BY <2>2 DEF Goes
  <2> QED BY <2>1, <2>2, <2>3 DEF IsPrefix
<1>2. Turns(t, p) = {} => Goes(t, p) = p BY DEF Goes
<1>3. Goes(t, p) \in Location /\ Goes(t, p) \in Spots(p)
  <2>1. CASE Turns(t, p) = {} BY <1>2, <2>1 DEF Spots
  <2>2. CASE Turns(t, p) # {}
    <3>1. PICK r \in Turns(t, p) : TRUE BY <2>2
    <3>2. r \in Redirected /\ IsPrefix(r, p) /\ Goes(t, p) = Turned(p, r) BY <1>1
    <3>3. Goes(t, p) \in Spots(p) BY <3>2 DEF Spots
    <3>4. Turned(p, r) \in Location
      <4> DEFINE S == Component \cup Name
      <4>1. p \in Seq(S) /\ r \in Seq(S) /\ "lib64" \in S /\ Len(r) <= Len(p)
        BY <1>1, <3>2, LocationIs
      <4>2. Turned(p, r) \in Seq(S)
        <5> HIDE DEF S
        <5> QED BY <4>1, TurnedParts
      <4> QED BY <4>2, LocationIs
    <3> QED BY <3>2, <3>3, <3>4
  <2> QED BY <2>1, <2>2
<1> QED BY <1>1, <1>2, <1>3

(* The symlinks of the layout are what the bootstrap makes.                *)
TurnsRight(t) ==
  \A r \in Redirected :
    LinkAt(t, r) =>
      /\ IsDirectory(t, <<"lib64">>)
      /\ \E link \in ToSet(CompatibilitySymlinks(FlatLib64)) :
           link.at = r /\ t[r] = LinkNode(link.to)

(* No other symlink lies on the path g.                                    *)
OnlyTurns(t, g) ==
  \A k \in 1..Len(g) : LinkAt(t, SubSeq(g, 1, k)) => SubSeq(g, 1, k) \in Redirected

LEMMA UnderLib64 ==
  ASSUME NEW t, NEW g \in Location, g # <<>>, g[1] = "lib64"
  PROVE  /\ \A k \in 1..Len(g) : SubSeq(g, 1, k) \notin Redirected
         /\ Turns(t, g) = {} /\ Goes(t, g) = g
<1> DEFINE S == Component \cup Name
<1>1. g \in Seq(S) /\ Len(g) \in Nat \ {0} BY EmptySeq, LocationIs
<1>2. ASSUME NEW k \in 1..Len(g) PROVE SubSeq(g, 1, k) \notin Redirected
  <2>1. k \in 0..Len(g) /\ 1 \in 1..k BY <1>1
  <2>2. SubSeq(g, 1, k)[1] = g[1]
    <3> HIDE DEF S
    <3> QED BY <1>1, <2>1, PathParts
  <2> QED BY <2>2, RedirectedParts
<1>3. Turns(t, g) = {}
  <2> SUFFICES ASSUME NEW r \in Redirected, IsPrefix(r, g) PROVE FALSE BY DEF Turns
  <2>1. r \in Seq(S) /\ Len(r) \in {1, 2} /\ r[1] # "lib64"
    BY LocationIs, RedirectedParts
  <2>2. \A i \in 1..Len(r) : r[i] = g[i]
    <3> HIDE DEF S
    <3> QED BY <1>1, <2>1, PrefixIs
  <2>3. 1 \in 1..Len(r) BY <2>1
  <2> QED BY <2>1, <2>2, <2>3
<1> QED BY <1>2, <1>3, GoesIs

LEMMA LinkTexts ==
  ASSUME NEW link \in ToSet(CompatibilitySymlinks(FlatLib64))
  PROVE  /\ Len(link.at) = 1 => link.to = <<"lib64">>
         /\ Len(link.at) = 2 => link.to = <<"..", "lib64">>
BY LayoutParts

LEMMA TwoMore ==
  ASSUME NEW S, NEW a \in S, NEW b \in S, NEW s \in Seq(S)
  PROVE  /\ <<a, b>> \o s \in Seq(S) /\ <<a, b>> \o s # <<>>
         /\ Head(<<a, b>> \o s) = a /\ Tail(<<a, b>> \o s) = <<b>> \o s
<1> DEFINE ab == <<a, b>>
           o == <<b>>
           g == ab \o s
           u == o \o s
<1>1. ab \in Seq(S) /\ Len(ab) = 2 /\ ab[1] = a /\ ab[2] = b
      /\ o \in Seq(S) /\ Len(o) = 1 /\ o[1] = b
  OBVIOUS
<1>2. Len(s) \in Nat BY LenProperties
<1> HIDE DEF ab, o
<1>3. /\ g \in Seq(S) /\ Len(g) = Len(ab) + Len(s)
      /\ \A i \in 1..(Len(ab) + Len(s)) :
           g[i] = IF i <= Len(ab) THEN ab[i] ELSE s[i - Len(ab)]
  BY <1>1, ConcatProperties
<1>4. /\ u \in Seq(S) /\ Len(u) = Len(o) + Len(s)
      /\ \A i \in 1..(Len(o) + Len(s)) :
           u[i] = IF i <= Len(o) THEN o[i] ELSE s[i - Len(o)]
  BY <1>1, ConcatProperties
<1> HIDE DEF g, u
<1>5. Len(g) = 2 + Len(s) /\ Len(u) = 1 + Len(s) BY <1>1, <1>3, <1>4
<1>6. g[1] = a
  <2>1. 1 \in 1..(Len(ab) + Len(s)) /\ 1 <= Len(ab) BY <1>1, <1>2
  <2> QED BY <1>1, <1>3, <2>1
<1>7. g # <<>>
  <2>1. Len(<<>>) = 0 /\ 2 + Len(s) # 0 BY <1>2
  <2> QED BY <1>5, <2>1
<1>8. Head(g) = a BY <1>3, <1>6, <1>7
<1>9. Tail(g) \in Seq(S) /\ Len(Tail(g)) = 1 + Len(s)
      /\ \A i \in 1..(1 + Len(s)) : Tail(g)[i] = g[i + 1]
  <2>1. Tail(g) \in Seq(S) /\ Len(Tail(g)) = Len(g) - 1
        /\ \A i \in 1..Len(Tail(g)) : Tail(g)[i] = g[i + 1]
    BY <1>3, <1>7, HeadTailProperties
  <2>2. Len(Tail(g)) = 1 + Len(s) BY <1>2, <1>5, <2>1
  <2> QED BY <2>1, <2>2
<1>10. ASSUME NEW i \in 1..(1 + Len(s)) PROVE g[i + 1] = u[i]
  <2>1. i + 1 \in 1..(Len(ab) + Len(s)) /\ i \in 1..(Len(o) + Len(s)) BY <1>1, <1>2
  <2>2. CASE i = 1
    <3>1. i + 1 <= Len(ab) /\ i <= Len(o) BY <1>1, <2>2
    <3>2. g[i + 1] = ab[i + 1] /\ u[i] = o[i] BY <1>3, <1>4, <2>1, <3>1
    <3> QED BY <1>1, <2>2, <3>2
  <2>3. CASE i # 1
    <3>1. ~(i + 1 <= Len(ab)) /\ ~(i <= Len(o)) /\ (i + 1) - Len(ab) = i - Len(o)
      BY <1>1, <2>3
    <3>2. g[i + 1] = s[(i + 1) - Len(ab)] /\ u[i] = s[i - Len(o)]
      BY <1>3, <1>4, <2>1, <3>1
    <3> QED BY <3>1, <3>2
  <2> QED BY <2>2, <2>3
<1>11. Tail(g) = u BY <1>4, <1>5, <1>9, <1>10, SeqEqual
<1> QED BY <1>3, <1>7, <1>8, <1>11 DEF g, u, ab, o

(* A path that meets no other symlinks ends where Goes says.               *)
LEMMA FollowGoes ==
  ASSUME NEW t, Tree(t), TurnsRight(t), NEW p \in Location, OnlyTurns(t, Goes(t, p))
  PROVE  Follow(t, p) =
           IF Goes(t, p) = <<>> \/ IsDirectory(t, Front(Goes(t, p)))
           THEN Goes(t, p) ELSE Nowhere
<1> DEFINE S == Component \cup Name
           L == Len(p)
           G == Goes(t, p)
<1>1. p \in Seq(S) /\ L \in Nat BY LenProperties, LocationIs
<1>2. MaxHops \in Nat /\ MaxHops \in 0..MaxHops /\ MaxHops - 1 \in 0..MaxHops
      /\ MaxHops \in 1..MaxHops
  BY GeographyAssumption
<1>3. CASE Turns(t, p) = {}
  <2>1. G = p BY <1>3, GoesIs
  <2>2. \A k \in 1..L : ~LinkAt(t, SubSeq(p, 1, k))
    <3> SUFFICES ASSUME NEW k \in 1..L, LinkAt(t, SubSeq(p, 1, k)) PROVE FALSE
      OBVIOUS
    <3>1. SubSeq(p, 1, k) \in Redirected BY <2>1 DEF OnlyTurns
    <3>2. IsPrefix(SubSeq(p, 1, k), p)
      <4>1. k \in 0..Len(p) BY <1>1
      <4>2. /\ SubSeq(p, 1, k) \in Seq(S) /\ Len(SubSeq(p, 1, k)) = k
            /\ \A i \in 1..k : SubSeq(p, 1, k)[i] = p[i]
        <5> HIDE DEF S
        <5> QED BY <1>1, <4>1, PathParts
      <4>3. k <= Len(p) BY <1>1
      <4> HIDE DEF S
      <4> QED BY <1>1, <4>2, <4>3, PrefixIs
    <3> QED BY <1>3, <3>1, <3>2 DEF Turns
  <2> QED BY <1>2, <2>1, <2>2, Direct, FollowFrom
<1>4. CASE Turns(t, p) # {}
  <2>1. PICK r \in Turns(t, p) : TRUE BY <1>4
  <2>2. r \in Redirected /\ LinkAt(t, r) /\ Len(r) <= L /\ IsPrefix(r, p)
        /\ G = Turned(p, r)
    BY <2>1, GoesIs
  <2>3. r \in Seq(S) /\ Len(r) \in {1, 2} BY <2>2, LocationIs, RedirectedParts
  <2>4. PICK link \in ToSet(CompatibilitySymlinks(FlatLib64)) :
          link.at = r /\ t[r] = LinkNode(link.to)
    BY <2>2 DEF TurnsRight
  <2>5. t[r].to = link.to BY <2>4 DEF LinkNode
  <2> DEFINE n == Len(r) - 1
             at == SubSeq(p, 1, n)
             q == SubSeq(p, n + 1, L)
             behind == SubSeq(p, Len(r) + 1, L)
  <2>6. n \in 0..(L - 1) /\ n \in 0..L /\ n + 1 = Len(r) /\ n + 2 = Len(r) + 1
        /\ n \in {0, 1} /\ Len(r) \in 0..L
    <3>1. CASE Len(r) = 1 BY <1>1, <2>2, <3>1
    <3>2. CASE Len(r) = 2 BY <1>1, <2>2, <3>2
    <3> QED BY <2>3, <3>1, <3>2
  <2>7. SubSeq(p, 1, Len(r)) = r
    <3>1. SubSeq(r, 1, Len(r)) = r
      <4> HIDE DEF S
      <4> QED BY <2>3, SubSeqFull
    <3> QED BY <2>2, <3>1 DEF IsPrefix
  <2>8. /\ q # <<>> /\ Head(q) = p[n + 1] /\ p[n + 1] \in S
        /\ Tail(q) = SubSeq(p, n + 2, L)
        /\ Append(at, p[n + 1]) = SubSeq(p, 1, n + 1)
        /\ Front(SubSeq(p, 1, n + 1)) = at
    <3> HIDE DEF S, n
    <3> QED BY <1>1, <2>6, NextPart
  <2>9. at \in Seq(S) /\ q \in Seq(S) /\ behind \in Seq(S)
    <3> HIDE DEF S, n
    <3> QED BY <1>1, <2>6, PathParts
  <2>10. Append(at, Head(q)) = r /\ Front(r) = at /\ Tail(q) = behind
    BY <2>6, <2>7, <2>8
  <2>11. IsDirectory(t, at) BY <2>2, <2>10, NodeType DEF LinkAt
  <2>12. at \in Location /\ q \in RelPath /\ Head(q) # ".." /\ behind \in Location
    BY <2>8, <2>9, Parts, LocationIs
  <2>13. From(t, MaxHops, <<>>, p) = From(t, MaxHops, at, q)
    <3>1. ASSUME NEW k \in 0..(n - 1)
          PROVE  IsDirectory(t, SubSeq(p, 1, k)) /\ ~LinkAt(t, SubSeq(p, 1, k + 1))
      <4>1. k = 0 /\ n = 1 BY <2>6
      <4>2. SubSeq(p, 1, 0) = <<>>
        <5>1. 0 \in 0..Len(p) BY <1>1
        <5> HIDE DEF S
        <5> QED BY <1>1, <5>1, PathParts
      <4>3. IsDirectory(t, SubSeq(p, 1, k)) BY <4>1, <4>2 DEF IsDirectory
      <4>4. SubSeq(p, 1, k + 1) = at
        <5>1. k + 1 = n BY <4>1
        <5> HIDE DEF n
        <5> QED BY <5>1
      <4>5. ~LinkAt(t, at)
        <5>1. at # <<>>
          <6>1. Len(at) = 1
            <7> HIDE DEF S
            <7> QED BY <1>1, <2>6, <4>1, PathParts
          <6> SUFFICES ASSUME at = <<>> PROVE FALSE OBVIOUS
          <6>2. Len(<<>>) = 1 BY <6>1
          <6> QED BY <6>2
        <5>2. t[at] = DirNode BY <2>11, <5>1 DEF IsDirectory
        <5> QED BY <5>2 DEF LinkAt, DirNode
      <4> QED BY <4>3, <4>4, <4>5
    <3> HIDE DEF n
    <3> QED BY <1>2, <2>6, <3>1, GoesDown
  <2> HIDE DEF at, q, behind
  <2>14. From(t, MaxHops, at, q) = From(t, MaxHops - 1, at, link.to \o behind)
    <3>1. LinkAt(t, Append(at, Head(q))) BY <2>2, <2>10
    <3>2. From(t, MaxHops, at, q)
            = From(t, MaxHops - 1, at, t[Append(at, Head(q))].to \o Tail(q))
      BY <1>2, <2>8, <2>11, <2>12, <3>1, StepLink
    <3> QED BY <2>5, <2>10, <3>2
  <2>15. Turned(p, r) = <<"lib64">> \o behind BY DEF Turned, behind
  <2>16. From(t, MaxHops - 1, at, link.to \o behind) = From(t, MaxHops - 1, <<>>, G)
    <3>1. CASE Len(r) = 1
      <4>1. link.to = <<"lib64">> BY <2>4, <3>1, LinkTexts
      <4>2. at = <<>>
        <5>1. n = 0 /\ 0 \in 0..Len(p) BY <1>1, <3>1
        <5> HIDE DEF S, n
        <5> QED BY <1>1, <5>1, PathParts DEF at
      <4> QED BY <2>2, <2>15, <4>1, <4>2
    <3>2. CASE Len(r) = 2
      <4>1. link.to = <<"..", "lib64">> BY <2>4, <3>2, LinkTexts
      <4>2. Len(at) = 1 /\ at # <<>>
        <5>1. n = 1 /\ 1 \in 0..Len(p) BY <1>1, <2>6, <3>2
        <5>2. Len(at) = 1
          <6> HIDE DEF S, n
          <6> QED BY <1>1, <5>1, PathParts DEF at
        <5> QED BY <5>2
      <4>3. Front(at) = <<>>
        <5>1. Len(at) - 1 = 0 BY <4>2
        <5>2. SubSeq(at, 1, 0) = <<>>
          <6>1. 0 \in 0..Len(at) BY <4>2
          <6> HIDE DEF S
          <6> QED BY <2>9, <6>1, PathParts
        <5> QED BY <5>1, <5>2 DEF Front
      <4> DEFINE T == S \cup {".."}
                 up == link.to \o behind
      <4>4. /\ up \in Seq(T) /\ up # <<>> /\ Head(up) = ".."
            /\ Tail(up) = <<"lib64">> \o behind
        <5>1. ".." \in T /\ "lib64" \in T BY LocationIs
        <5>2. behind \in Seq(T) BY <2>9, SeqMonotonic
        <5> HIDE DEF T
        <5> QED BY <4>1, <5>1, <5>2, TwoMore
      <4>5. up \in RelPath BY <4>4 DEF RelPath
      <4> HIDE DEF up
      <4>6. From(t, MaxHops - 1, at, up) = From(t, MaxHops - 1, Front(at), Tail(up))
        BY <1>2, <2>11, <2>12, <4>2, <4>4, <4>5, StepUp
      <4> QED BY <2>2, <2>15, <4>3, <4>4, <4>6 DEF up
    <3> QED BY <2>3, <3>1, <3>2
  <2>17. From(t, MaxHops - 1, <<>>, G)
           = IF G = <<>> \/ IsDirectory(t, Front(G)) THEN G ELSE Nowhere
    <3>1. G \in Location BY GoesIs
    <3>2. G # <<>> /\ G[1] = "lib64"
      <4>1. "lib64" \in S BY LocationIs
      <4> HIDE DEF S
      <4> QED BY <1>1, <2>2, <2>3, <4>1, TurnedParts
    <3>3. \A k \in 1..Len(G) : ~LinkAt(t, SubSeq(G, 1, k))
      BY <3>1, <3>2, UnderLib64 DEF OnlyTurns
    <3> HIDE DEF G
    <3> QED BY <1>2, <3>1, <3>3, Direct
  <2> QED BY <2>13, <2>14, <2>16, <2>17, FollowFrom
<1> QED BY <1>3, <1>4

-----------------------------------------------------------------------------
(* The location create_directories makes of a path.                        *)

LEMMA EmptyLocation == <<>> \in Location /\ <<>> \in RelPath
BY EmptySeq DEF Location, RelPath

LEMMA DirectoryIsLocation ==
  ASSUME NEW t, Tree(t), NEW l, IsDirectory(t, l) PROVE l \in Location
BY NodeType, EmptyLocation DEF IsDirectory

LEMMA OntoType ==
  ASSUME NEW t, Tree(t), NEW at \in Location, NEW c \in Component \cup Name
  PROVE  /\ Append(at, c) \in Location
         /\ Onto(t, Append(at, c)) \in Location
         /\ Onto(t, Append(at, c)) # Append(at, c) =>
              IsDirectory(t, Onto(t, Append(at, c)))
<1> DEFINE S == Component \cup Name
           here == Append(at, c)
<1>1. here \in Location
  <2>1. at \in Seq(S) /\ c \in S BY LocationIs
  <2>2. Append(at, c) \in Seq(S)
    <3> HIDE DEF S
    <3> QED BY <2>1, AppendProperties
  <2> QED BY <2>2, LocationIs
<1> HIDE DEF here
<1>2. Onto(t, here) \in Location BY <1>1, DirectoryIsLocation DEF Onto
<1>3. Onto(t, here) # here => IsDirectory(t, Onto(t, here)) BY DEF Onto
<1> QED BY <1>1, <1>2, <1>3 DEF here

(* The locations made of the first n components.                           *)
MadeOf(t, path, f) ==
  /\ f \in [0..Len(path) -> Location]
  /\ f[0] = <<>>
  /\ \A n \in 1..Len(path) : f[n] = Onto(t, Append(f[n - 1], path[n]))

LEMMA MadeSteps ==
  ASSUME NEW t, Tree(t), NEW path \in Location
  PROVE  \E f : MadeOf(t, path, f) /\ MadeAt(t, path) = f[Len(path)]
<1> DEFINE n == Len(path)
           next(f, i) == IF i = 0 THEN <<>> ELSE Onto(t, Append(f[i - 1], path[i]))
           step == [i \in Nat |-> [at \in Location |->
                      IF i \in 1..n THEN Onto(t, Append(at, path[i])) ELSE at]]
<1>1. n \in Nat /\ \A i \in 1..n : path[i] \in Component \cup Name
  BY LenProperties, ElementOfSeq, LocationIs
<1>2. step \in [Nat -> [Location -> Location]] BY <1>1, OntoType
<1>3. PICK f \in [0..n -> Location] : Follows(f, n, <<>>, step)
  <2> HIDE DEF step, n
  <2> QED BY <1>1, <1>2, EmptyLocation, Recursion
<1> HIDE DEF n
<1>4. ASSUME NEW i \in 0..n PROVE f[i] = next(f, i)
  <2>1. CASE i = 0 BY <1>1, <1>3, <2>1 DEF Follows
  <2>2. CASE i # 0
    <3>1. i - 1 \in 0..n /\ i \in 1..n /\ i \in Nat BY <1>1, <2>2
    <3>2. f[i] = step[i][f[i - 1]] BY <1>3, <2>2 DEF Follows
    <3>3. f[i - 1] \in Location BY <1>3, <3>1
    <3> QED BY <2>2, <3>1, <3>2, <3>3
  <2> QED BY <2>1, <2>2
<1>5. f = [i \in 0..n |-> next(f, i)]
  <2> HIDE DEF next
  <2> QED BY <1>3, <1>4
<1> DEFINE N == CHOOSE g : g = [i \in 0..n |-> next(g, i)]
<1>6. MadeAt(t, path) = N[n] BY DEF MadeAt, n
<1>7. N = [i \in 0..n |-> next(N, i)]
  <2> HIDE DEF next
  <2> QED BY <1>5
<1> HIDE DEF N
<1>8. N[0] = <<>> BY <1>1, <1>7
<1>9. \A i \in 1..n : N[i] = Onto(t, Append(N[i - 1], path[i])) BY <1>1, <1>7
<1> DEFINE Q == {i \in Nat : i <= n => N[i] \in Location}
<1>10. 0 \in Q BY <1>8, EmptyLocation
<1>11. ASSUME NEW i \in Nat, i \in Q PROVE i + 1 \in Q
  <2> SUFFICES ASSUME i + 1 <= n PROVE N[i + 1] \in Location OBVIOUS
  <2>1. i + 1 \in 1..n /\ (i + 1) - 1 = i /\ i <= n BY <1>1
  <2>2. N[i] \in Location BY <1>11, <2>1
  <2>3. N[i + 1] = Onto(t, Append(N[i], path[i + 1])) BY <1>9, <2>1
  <2> QED BY <1>1, <2>1, <2>2, <2>3, OntoType
<1> HIDE DEF Q
<1>12. Nat \subseteq Q BY <1>10, <1>11, NatSet
<1>13. \A i \in 0..n : N[i] \in Location BY <1>1, <1>12 DEF Q
<1>14. N \in [0..n -> Location]
  <2> HIDE DEF next
  <2> QED BY <1>7, <1>13
<1> QED BY <1>6, <1>8, <1>9, <1>14 DEF MadeOf, n

LEMMA MadeType ==
  ASSUME NEW t, Tree(t), NEW path \in Location
  PROVE  MadeAt(t, path) \in Location
<1>1. PICK f : MadeOf(t, path, f) /\ MadeAt(t, path) = f[Len(path)] BY MadeSteps
<1>2. Len(path) \in Nat BY LenProperties, LocationIs
<1> QED BY <1>1, <1>2 DEF MadeOf

LEMMA PrefixOfPrefix ==
  ASSUME NEW S, NEW g \in Seq(S), NEW n \in 0..Len(g), NEW k \in 0..n
  PROVE  SubSeq(SubSeq(g, 1, n), 1, k) = SubSeq(g, 1, k)
<1> DEFINE a == SubSeq(g, 1, n)
           b == SubSeq(g, 1, k)
           c == SubSeq(a, 1, k)
<1>1. Len(g) \in Nat /\ k \in 0..Len(g) BY LenProperties
<1>2. a \in Seq(S) /\ Len(a) = n /\ \A i \in 1..n : a[i] = g[i] BY PathParts
<1>3. b \in Seq(S) /\ Len(b) = k /\ \A i \in 1..k : b[i] = g[i] BY <1>1, PathParts
<1> HIDE DEF a
<1>4. c \in Seq(S) /\ Len(c) = k /\ \A i \in 1..k : c[i] = a[i] BY <1>2, PathParts
<1> HIDE DEF b, c
<1>5. \A i \in 1..k : i \in 1..n BY <1>1
<1>6. b = c BY <1>2, <1>3, <1>4, <1>5, SeqEqual
<1> QED BY <1>6 DEF a, b, c

LEMMA TurnedOnward ==
  ASSUME NEW S, "lib64" \in S, NEW path \in Seq(S), NEW r \in Seq(S),
         NEW n \in 0..(Len(path) - 1), Len(r) <= n
  PROVE  Append(Turned(SubSeq(path, 1, n), r), path[n + 1])
           = Turned(SubSeq(path, 1, n + 1), r)
<1> DEFINE a == SubSeq(path, 1, n)
           b == SubSeq(path, 1, n + 1)
           m == Len(r)
           u == Turned(a, r)
           v == Turned(b, r)
           w == Append(u, path[n + 1])
<1>1. Len(path) \in Nat /\ m \in Nat /\ m <= n /\ n \in 0..Len(path)
      /\ n + 1 \in 0..Len(path) /\ n \in Nat /\ n + 1 \in 1..Len(path)
  BY LenProperties
<1>2. a \in Seq(S) /\ Len(a) = n /\ \A i \in 1..n : a[i] = path[i] BY <1>1, PathParts
<1>3. b \in Seq(S) /\ Len(b) = n + 1 /\ \A i \in 1..(n + 1) : b[i] = path[i]
  BY <1>1, PathParts
<1>4. path[n + 1] \in S BY <1>1, ElementOfSeq
<1> HIDE DEF a, b
<1>5. /\ u \in Seq(S) /\ Len(u) = n - m + 1 /\ u[1] = "lib64"
      /\ \A i \in 2..(n - m + 1) : u[i] = a[m + i - 1]
  <2>1. Len(r) <= Len(a) BY <1>1, <1>2
  <2>2. /\ u \in Seq(S) /\ Len(u) = Len(a) - Len(r) + 1 /\ u[1] = "lib64"
        /\ \A i \in 2..(Len(a) - Len(r) + 1) : u[i] = a[Len(r) + i - 1]
    BY <1>2, <2>1, TurnedParts
  <2> QED BY <1>2, <2>2
<1>6. /\ v \in Seq(S) /\ Len(v) = n + 1 - m + 1 /\ v[1] = "lib64"
      /\ \A i \in 2..(n + 1 - m + 1) : v[i] = b[m + i - 1]
  <2>1. Len(r) <= Len(b) BY <1>1, <1>3
  <2>2. /\ v \in Seq(S) /\ Len(v) = Len(b) - Len(r) + 1 /\ v[1] = "lib64"
        /\ \A i \in 2..(Len(b) - Len(r) + 1) : v[i] = b[Len(r) + i - 1]
    BY <1>3, <2>1, TurnedParts
  <2> QED BY <1>3, <2>2
<1> HIDE DEF u, v, m
<1>7. /\ w \in Seq(S) /\ Len(w) = Len(u) + 1
      /\ \A i \in 1..Len(u) : w[i] = u[i]
      /\ w[Len(u) + 1] = path[n + 1]
  BY <1>4, <1>5, AppendProperties
<1> HIDE DEF w
<1>8. Len(w) = Len(v) BY <1>1, <1>5, <1>6, <1>7
<1>9. ASSUME NEW i \in 1..Len(w) PROVE w[i] = v[i]
  <2>1. Len(w) = n - m + 2 BY <1>1, <1>5, <1>7
  <2>2. CASE i = 1
    <3>1. 1 \in 1..Len(u) BY <1>1, <1>5
    <3> QED BY <1>5, <1>6, <1>7, <2>2, <3>1
  <2>3. CASE i # 1 /\ i # n - m + 2
    <3>1. i \in 2..(n - m + 1) /\ i \in 1..Len(u) /\ i \in 2..(n + 1 - m + 1)
          /\ m + i - 1 \in 1..n /\ m + i - 1 \in 1..(n + 1)
      BY <1>1, <1>5, <2>1, <2>3
    <3>2. w[i] = a[m + i - 1] /\ v[i] = b[m + i - 1] BY <1>5, <1>6, <1>7, <3>1
    <3> QED BY <1>2, <1>3, <3>1, <3>2
  <2>4. CASE i = n - m + 2
    <3>1. i = Len(u) + 1 /\ i \in 2..(n + 1 - m + 1) /\ m + i - 1 = n + 1
          /\ n + 1 \in 1..(n + 1)
      BY <1>1, <1>5, <2>4
    <3>2. w[i] = path[n + 1] BY <1>7, <3>1
    <3>3. v[i] = b[n + 1] BY <1>6, <3>1
    <3> QED BY <1>3, <3>1, <3>2, <3>3
  <2> QED BY <2>2, <2>3, <2>4
<1>10. w = v BY <1>6, <1>7, <1>8, <1>9, SeqEqual
<1> QED BY <1>10 DEF w, u, v, a, b

LEMMA GoesOnward ==
  ASSUME NEW t, NEW path \in Location, NEW n \in 0..(Len(path) - 1)
  PROVE  LET a == SubSeq(path, 1, n)
             b == SubSeq(path, 1, n + 1)
             here == Append(Goes(t, a), path[n + 1])
         IN  /\ a \in Location /\ b \in Location
             /\ Goes(t, here) = Goes(t, b)
             /\ \/ here = Goes(t, b)
                \/ Goes(t, b) = <<"lib64">> /\ Turns(t, b) # {}
<1> DEFINE S == Component \cup Name
           a == SubSeq(path, 1, n)
           b == SubSeq(path, 1, n + 1)
           here == Append(Goes(t, a), path[n + 1])
<1>1. path \in Seq(S) /\ "lib64" \in S /\ Len(path) \in Nat /\ n \in 0..Len(path)
      /\ n + 1 \in 0..Len(path) /\ n \in 0..(n + 1) /\ n \in Nat
  BY LocationIs, LenProperties
<1>2. /\ a \in Seq(S) /\ Len(a) = n /\ \A i \in 1..n : a[i] = path[i]
      /\ b \in Seq(S) /\ Len(b) = n + 1 /\ \A i \in 1..(n + 1) : b[i] = path[i]
  <2> HIDE DEF S
  <2> QED BY <1>1, PathParts
<1>3. a \in Location /\ b \in Location BY <1>2, LocationIs
<1>4. Append(a, path[n + 1]) = b
  <2> HIDE DEF S
  <2> QED BY <1>1, NextPart
<1> HIDE DEF a, b
<1>5. CASE Turns(t, a) # {}
  <2>1. PICK r \in Turns(t, a) : TRUE BY <1>5
  <2>2. r \in Redirected /\ LinkAt(t, r) /\ IsPrefix(r, a) /\ Len(r) <= Len(a)
        /\ Goes(t, a) = Turned(a, r)
    BY <1>3, <2>1, GoesIs
  <2>3. r \in Seq(S) /\ Len(r) \in Nat BY <2>2, LocationIs, LenProperties
  <2>4. IsPrefix(r, b)
    <3>1. \A i \in 1..Len(r) : r[i] = a[i]
      <4> HIDE DEF S
      <4> QED BY <1>2, <2>2, <2>3, PrefixIs
    <3>2. \A i \in 1..Len(r) : i \in 1..n /\ i \in 1..(n + 1) BY <1>1, <1>2, <2>2, <2>3
    <3>3. Len(r) <= Len(b) /\ \A i \in 1..Len(r) : r[i] = b[i]
      BY <1>1, <1>2, <2>2, <2>3, <3>1, <3>2
    <3> HIDE DEF S
    <3> QED BY <1>2, <2>3, <3>3, PrefixIs
  <2>5. r \in Turns(t, b) BY <2>2, <2>4 DEF Turns
  <2>6. Goes(t, b) = Turned(b, r) BY <1>3, <2>5, GoesIs
  <2>7. here = Turned(b, r)
    <3>1. Len(r) <= n BY <1>2, <2>2
    <3>2. Append(Turned(SubSeq(path, 1, n), r), path[n + 1])
            = Turned(SubSeq(path, 1, n + 1), r)
      <4> HIDE DEF S
      <4> QED BY <1>1, <2>3, <3>1, TurnedOnward
    <3> QED BY <2>2, <3>2 DEF a, b
  <2>8. here \in Location /\ here # <<>> /\ here[1] = "lib64"
    <3>1. Goes(t, b) \in Location BY <1>3, GoesIs
    <3>2. Len(r) <= Len(b) BY <2>4 DEF IsPrefix
    <3>3. Turned(b, r) # <<>> /\ Turned(b, r)[1] = "lib64"
      <4> HIDE DEF S
      <4> QED BY <1>1, <1>2, <2>3, <3>2, TurnedParts
    <3> QED BY <2>6, <2>7, <3>1, <3>3
  <2>9. Goes(t, here) = here BY <2>8, UnderLib64
  <2> QED BY <1>3, <2>6, <2>7, <2>9 DEF a, b
<1>6. CASE Turns(t, a) = {}
  <2>1. here = b BY <1>3, <1>4, <1>6, GoesIs
  <2>2. CASE Turns(t, b) = {}
    <3>1. Goes(t, b) = b BY <1>3, <2>2, GoesIs
    <3> QED BY <1>3, <2>1, <3>1 DEF a, b
  <2>3. CASE Turns(t, b) # {}
    <3>1. PICK r \in Turns(t, b) : TRUE BY <2>3
    <3>2. r \in Redirected /\ LinkAt(t, r) /\ IsPrefix(r, b) /\ Len(r) <= Len(b)
          /\ Goes(t, b) = Turned(b, r)
      BY <1>3, <3>1, GoesIs
    <3>3. r \in Seq(S) /\ Len(r) \in Nat BY <3>2, LocationIs, LenProperties
    <3>4. ~(Len(r) <= n)
      <4> SUFFICES ASSUME Len(r) <= n PROVE FALSE OBVIOUS
      <4>1. \A i \in 1..Len(r) : r[i] = b[i]
        <5> HIDE DEF S
        <5> QED BY <1>2, <3>2, <3>3, PrefixIs
      <4>2. \A i \in 1..Len(r) : i \in 1..n /\ i \in 1..(n + 1) BY <1>1, <3>3
      <4>3. Len(r) <= Len(a) /\ \A i \in 1..Len(r) : r[i] = a[i]
        BY <1>2, <4>1, <4>2
      <4>4. IsPrefix(r, a)
        <5> HIDE DEF S
        <5> QED BY <1>2, <3>3, <4>3, PrefixIs
      <4> QED BY <1>6, <3>2, <4>4 DEF Turns
    <3>5. Len(b) - Len(r) + 1 = 1 BY <1>1, <1>2, <3>2, <3>3, <3>4
    <3>6. Turned(b, r) \in Seq(S) /\ Len(Turned(b, r)) = 1 /\ Turned(b, r)[1] = "lib64"
      <4>1. /\ Turned(b, r) \in Seq(S)
            /\ Len(Turned(b, r)) = Len(b) - Len(r) + 1 /\ Turned(b, r)[1] = "lib64"
        <5> HIDE DEF S
        <5> QED BY <1>1, <1>2, <3>2, <3>3, TurnedParts
      <4> QED BY <3>5, <4>1
    <3>7. Turned(b, r) = <<"lib64">>
      <4> DEFINE u == Turned(b, r)
                 v == <<"lib64">>
      <4>1. v \in Seq(S) /\ Len(v) = 1 /\ v[1] = "lib64"
        <5> HIDE DEF S
        <5> QED BY <1>1
      <4>2. \A i \in 1..Len(u) : u[i] = v[i] BY <3>6
      <4> HIDE DEF u, v, S
      <4> QED BY <3>6, <4>1, <4>2, SeqEqual DEF u, v
    <3> QED BY <1>3, <2>1, <2>3, <3>2, <3>7 DEF a, b
  <2> QED BY <2>2, <2>3
<1> QED BY <1>5, <1>6

-----------------------------------------------------------------------------
(* A walk that started at a directory ends in a directory, and not on a    *)
(* symlink.                                                                *)

Clean(t, l) ==
  l \in Location =>
    ~LinkAt(t, l) /\ (l = <<>> \/ IsDirectory(t, Front(l)))

LEMMA AdvanceClean ==
  ASSUME NEW t, Tree(t), NEW s \in WalkState,
         s.ahead # <<>>, IsDirectory(t, s.at), Clean(t, s.at)
  PROVE  Clean(t, Advance(t, s).at)
<1> DEFINE S == Component \cup Name
           head == Head(s.ahead)
<1>1. /\ s.at \in Location /\ s.ahead \in RelPath
      /\ s = [hops |-> s.hops, at |-> s.at, ahead |-> s.ahead]
  BY DEF WalkState
<1>2. head \in S \cup {".."} BY <1>1, HeadTailProperties DEF RelPath
<1>3. CASE OnLink(t, s)
  <2>1. Advance(t, s).at = s.at BY <1>1, <1>3 DEF Advance
  <2> QED BY <2>1
<1>4. CASE ~OnLink(t, s) /\ head # ".."
  <2>1. Advance(t, s).at = Here(s) BY <1>1, <1>4 DEF Advance, Leaves
  <2>2. ~LinkAt(t, Here(s)) BY <1>4 DEF OnLink, LinkAt
  <2>3. head \in S BY <1>2, <1>4
  <2>4. Front(Here(s)) = s.at BY <1>1, <2>3, FrontOfAppend DEF Here, Location
  <2> QED BY <2>1, <2>2, <2>4 DEF Clean
<1>5. CASE ~OnLink(t, s) /\ head = ".." /\ s.at = <<>>
  <2>1. Advance(t, s).at = s.at BY <1>1, <1>5 DEF Advance, Leaves
  <2> QED BY <2>1
<1>6. CASE ~OnLink(t, s) /\ head = ".." /\ s.at # <<>>
  <2>1. Advance(t, s).at = Front(s.at) BY <1>1, <1>6 DEF Advance, Leaves
  <2>2. s.at \in DOMAIN t BY <1>6 DEF IsDirectory
  <2>3. IsDirectory(t, Front(s.at)) BY <2>2, NodeType
  <2>4. Front(s.at) = <<>> \/ Front(s.at) \in DOMAIN t BY <2>3 DEF IsDirectory
  <2>5. ~LinkAt(t, Front(s.at))
    <3>1. <<>> \notin DOMAIN t BY NodeType
    <3> QED BY <2>3, <3>1, NodeKinds DEF IsDirectory, LinkAt
  <2>6. Front(s.at) # <<>> => IsDirectory(t, Front(Front(s.at)))
    BY <2>4, NodeType
  <2> QED BY <2>1, <2>5, <2>6 DEF Clean
<1> QED BY <1>3, <1>4, <1>5, <1>6

LEMMA LandsClean ==
  ASSUME NEW t, Tree(t), NEW chroot \in BOOLEAN
  PROVE  \A s \in WalkState : Clean(t, s.at) => Clean(t, Walks(t, chroot)[s])
<1> DEFINE X == WalkState
           W == Walks(t, chroot)
           Stop == Stops(t, chroot)
           S == {s \in X : Clean(t, s.at) => Clean(t, W[s])}
<1>1. Stop \subseteq S
  <2> SUFFICES ASSUME NEW s \in X, Halts(t, chroot, s), Clean(t, s.at)
               PROVE  Clean(t, W[s])
    BY DEF Stops
  <2>1. W[s] = Reached(t, s) BY WalksAre
  <2>2. Reached(t, s) \in {s.at, Outside, Nowhere} BY DEF Reached
  <2> QED BY <2>1, <2>2, Parts DEF Clean
<1>2. \A s \in X \ Stop : Moves(t, chroot)[s] \in S => s \in S
  <2> SUFFICES ASSUME NEW s \in X \ Stop, Clean(t, s.at),
                      Clean(t, Advance(t, s).at) => Clean(t, W[Advance(t, s)])
               PROVE  Clean(t, W[s])
    BY DEF Moves
  <2>1. s.ahead # <<>> /\ IsDirectory(t, s.at) BY DEF Stops, Halts
  <2>2. Clean(t, Advance(t, s).at) BY <2>1, AdvanceClean
  <2>3. W[s] = W[Advance(t, s)] BY WalksAre DEF Stops
  <2> QED BY <2>2, <2>3
<1>3. Descends(X, Stop, Moves(t, chroot), HopsOf, AheadOf) BY WalkDescends
<1>4. X \subseteq S
  <2> HIDE DEF X, Stop, S
  <2> QED BY <1>1, <1>2, <1>3, WalkInduction
<1> QED BY <1>4

(* Where a path ends.                                                      *)
LEMMA FollowType ==
  ASSUME NEW t, Tree(t), NEW q \in RelPath
  PROVE  Follow(t, q) \in Endpoint /\ Clean(t, Follow(t, q))
<1> DEFINE s == [hops |-> MaxHops, at |-> <<>>, ahead |-> q]
<1>1. s \in WalkState
  BY EmptyLocation, GeographyAssumption DEF WalkState
<1>2. Clean(t, s.at)
  <2>1. <<>> \notin DOMAIN t BY NodeType
  <2> QED BY <2>1 DEF Clean, LinkAt
<1>3. Follow(t, q) = Walks(t, FALSE)[s] BY DEF Follow, Walking
<1> QED BY <1>1, <1>2, <1>3, WalksAre, LandsClean

LEMMA LocationOfType ==
  /\ \A d \in Dir : Components[d] \in Location /\ Components[d] # <<>>
  /\ \A p \in Path : /\ p.dir \in Dir /\ p.name \in Name
                     /\ LocationOf(p) \in Location /\ LocationOf(p) # <<>>
                     /\ Front(LocationOf(p)) = Components[p.dir]
                     /\ Last(LocationOf(p)) = p.name
<1>1. \A d \in Dir : Components[d] \in Location /\ Components[d] # <<>>
  BY RootAssumption
<1>2. ASSUME NEW p \in Path
      PROVE  /\ p.dir \in Dir /\ p.name \in Name
             /\ LocationOf(p) \in Location /\ LocationOf(p) # <<>>
             /\ Front(LocationOf(p)) = Components[p.dir]
             /\ Last(LocationOf(p)) = p.name
  <2> DEFINE S == Component \cup Name
  <2>1. p.dir \in Dir /\ p.name \in Name BY DEF Path
  <2>2. Components[p.dir] \in Seq(S) /\ p.name \in S BY <1>1, <2>1, LocationIs
  <2> HIDE DEF S
  <2>3. /\ Append(Components[p.dir], p.name) \in Seq(S)
        /\ Append(Components[p.dir], p.name) # <<>>
    BY <2>2, AppendProperties
  <2>4. /\ Front(Append(Components[p.dir], p.name)) = Components[p.dir]
        /\ Last(Append(Components[p.dir], p.name)) = p.name
    BY <2>2, FrontOfAppend
  <2> QED BY <2>1, <2>3, <2>4, LocationIs DEF LocationOf, S
<1> QED BY <1>1, <1>2

LEMMA EndType ==
  ASSUME NEW t, Tree(t), NEW p \in Path
  PROVE  /\ End(t, p) \in Endpoint /\ Clean(t, End(t, p))
         /\ Writable(t, p) =>
              /\ End(t, p) \in Location \ {<<>>} /\ ~IsDirectory(t, End(t, p))
              /\ ~LinkAt(t, End(t, p)) /\ IsDirectory(t, Front(End(t, p)))
<1>1. LocationOf(p) \in RelPath BY LocationOfType, Parts
<1>2. End(t, p) \in Endpoint /\ Clean(t, End(t, p))
  BY <1>1, FollowType DEF End
<1>3. ASSUME Writable(t, p)
      PROVE  End(t, p) \in Location /\ ~IsDirectory(t, End(t, p)) /\ End(t, p) # <<>>
  BY <1>2, <1>3 DEF Writable, Endpoint, IsDirectory
<1> QED BY <1>2, <1>3 DEF Clean

LEMMA PlaceType ==
  ASSUME NEW t, Tree(t), NEW p \in Path
  PROVE  /\ Place(t, p) \in Location /\ Place(t, p) # <<>>
         /\ Front(Place(t, p)) = MadeAt(t, Components[p.dir])
         /\ MadeAt(t, Components[p.dir]) \in Location
<1> DEFINE S == Component \cup Name
           m == MadeAt(t, Components[p.dir])
<1>1. m \in Location BY LocationOfType, MadeType
<1>2. m \in Seq(S) /\ p.name \in S BY <1>1, LocationOfType, LocationIs
<1> HIDE DEF S, m
<1>3. /\ Append(m, p.name) \in Seq(S) /\ Append(m, p.name) # <<>>
      /\ Front(Append(m, p.name)) = m
  BY <1>2, AppendProperties, FrontOfAppend
<1> QED BY <1>1, <1>3, LocationIs DEF Place, S, m

-----------------------------------------------------------------------------
(* The file operations leave a tree.                                       *)

LEMMA PutIs ==
  ASSUME NEW t, NEW l, NEW n
  PROVE  /\ DOMAIN Put(t, l, n) = DOMAIN t \cup {l} /\ Put(t, l, n)[l] = n
         /\ \A k \in DOMAIN t \ {l} : Put(t, l, n)[k] = t[k]
BY DEF Put

LEMMA AddedIs ==
  ASSUME NEW t, NEW new
  PROVE  /\ DOMAIN Added(t, new) = DOMAIN t \cup DOMAIN new
         /\ \A k \in DOMAIN t : Added(t, new)[k] = t[k]
         /\ \A k \in DOMAIN new \ DOMAIN t : Added(t, new)[k] = new[k]
BY DEF Added

LEMMA WriteTree ==
  ASSUME NEW t, Tree(t), NEW p \in Path, NEW file \in BundleFile
  PROVE  Tree(WriteAt(t, p, file))
<1> SUFFICES ASSUME Writable(t, p) PROVE Tree(WriteAt(t, p, file))
  BY DEF WriteAt
<1> DEFINE e == End(t, p)
           u == Put(t, e, file)
<1>1. e \in Location \ {<<>>} /\ ~IsDirectory(t, e) /\ IsDirectory(t, Front(e))
  BY EndType
<1>2. DOMAIN u = DOMAIN t \cup {e} /\ u[e] = file /\ \A k \in DOMAIN t \ {e} : u[k] = t[k]
  BY DEF Put
<1>3. \A l : IsDirectory(t, l) => IsDirectory(u, l)
  BY <1>1, <1>2 DEF IsDirectory
<1>4. WriteAt(t, p, file) = u BY DEF WriteAt
<1> HIDE DEF u, e
<1>5. Tree(u)
  BY <1>1, <1>2, <1>3 DEF Tree
<1> QED BY <1>4, <1>5

LEMMA PrefixesIs ==
  ASSUME NEW g \in Location
  PROVE  /\ \A l \in Prefixes(g) \ {<<>>} : l \in Location /\ Front(l) \in Prefixes(g)
         /\ g \in Prefixes(g) /\ Prefixes(g) \subseteq Location
<1> DEFINE S == Component \cup Name
<1>1. g \in Seq(S) /\ Len(g) \in Nat BY LocationIs, LenProperties
<1> HIDE DEF S
<1>2. SubSeq(g, 1, Len(g)) = g BY <1>1, PathParts
<1>3. \A k \in 0..Len(g) : SubSeq(g, 1, k) \in Seq(S) BY <1>1, PathParts
<1>4. ASSUME NEW l \in Prefixes(g), l # <<>> PROVE Front(l) \in Prefixes(g)
  <2>1. PICK k \in 0..Len(g) : l = SubSeq(g, 1, k) BY DEF Prefixes
  <2>2. k # 0 BY <1>1, <1>4, <2>1, PathParts
  <2>3. k - 1 \in 0..(Len(g) - 1) /\ (k - 1) + 1 = k /\ k - 1 \in 0..Len(g) BY <1>1, <2>2
  <2>4. Front(SubSeq(g, 1, (k - 1) + 1)) = SubSeq(g, 1, k - 1)
    BY <1>1, <2>3, NextPart
  <2> QED BY <2>1, <2>3, <2>4 DEF Prefixes
<1>5. Len(g) \in 0..Len(g) BY <1>1
<1> QED BY <1>2, <1>3, <1>4, <1>5, LocationIs DEF Prefixes, S

LEMMA MakeTree ==
  ASSUME NEW t, Tree(t), NEW path \in Location
  PROVE  Tree(MakeDirectories(t, path))
<1> SUFFICES ASSUME ~Obstructed(t, path) PROVE Tree(MakeDirectories(t, path))
  BY DEF MakeDirectories
<1> DEFINE g == MadeAt(t, path)
           new == [l \in Prefixes(g) \ {<<>>} |-> DirNode]
           u == Added(t, new)
<1>1. g \in Location BY MadeType
<1>2. \A l \in Prefixes(g) \cap DOMAIN t : t[l] = DirNode BY DEF Obstructed
<1>3. /\ DOMAIN u = DOMAIN t \cup (Prefixes(g) \ {<<>>})
      /\ \A k \in DOMAIN t : u[k] = t[k]
      /\ \A k \in (Prefixes(g) \ {<<>>}) \ DOMAIN t : u[k] = DirNode
  BY DEF Added
<1>4. MakeDirectories(t, path) = u BY DEF MakeDirectories
<1>5. \A l \in Prefixes(g) \ {<<>>} : l \in Location /\ Front(l) \in Prefixes(g)
  BY <1>1, PrefixesIs
<1> HIDE DEF u, g, new
<1>6. \A l : IsDirectory(t, l) => IsDirectory(u, l) BY <1>3 DEF IsDirectory
<1>7. \A l \in Prefixes(g) : IsDirectory(u, l) BY <1>2, <1>3 DEF IsDirectory
<1>8. Tree(u)
  <2> SUFFICES ASSUME NEW l \in DOMAIN u
               PROVE  /\ l \in Location \ {<<>>}
                      /\ u[l] \in BundleFile \cup BundleLink \cup {DirNode}
                      /\ IsDirectory(u, Front(l))
    BY DEF Tree
  <2>1. CASE l \in DOMAIN t BY <1>3, <1>6, <2>1 DEF Tree
  <2>2. CASE l \notin DOMAIN t
    <3>1. l \in Prefixes(g) \ {<<>>} /\ u[l] = DirNode BY <1>3, <2>2
    <3> QED BY <1>5, <1>7, <3>1
  <2> QED BY <2>1, <2>2
<1> QED BY <1>4, <1>8

(* A relative text goes up to what both paths share, and down from there.  *)
LEMMA RelativeIs ==
  ASSUME NEW a \in Location, NEW b \in Location
  PROVE  \E m \in 0..Len(b) :
           /\ m <= Len(a) /\ SubSeq(b, 1, m) = SubSeq(a, 1, m)
           /\ Relative(a, b) =
                [i \in 1..(Len(b) - m) |-> ".."] \o SubSeq(a, m + 1, Len(a))
<1> DEFINE S == Component \cup Name
           N == {n \in 0..Len(b) : IsPrefix(SubSeq(b, 1, n), a)}
           m == Max(N)
<1>1. a \in Seq(S) /\ b \in Seq(S) /\ Len(a) \in Nat /\ Len(b) \in Nat
  BY LocationIs, LenProperties
<1>2. N # {} /\ N \in SUBSET Nat /\ \A x \in N : x <= Len(b)
  <2>1. SubSeq(b, 1, 0) = <<>> BY SubSeqEmpty
  <2>2. IsPrefix(<<>>, a)
    <3>1. SubSeq(a, 1, 0) = <<>> /\ SubSeq(<<>>, 1, 0) = <<>> BY SubSeqEmpty
    <3> QED BY <1>1, <3>1 DEF IsPrefix
  <2>3. 0 \in N
    <3>1. IsPrefix(SubSeq(b, 1, 0), a) BY <2>1, <2>2
    <3>2. 0 \in 0..Len(b) BY <1>1
    <3> QED BY <3>1, <3>2
  <2> QED BY <1>1, <2>3
<1>3. m \in N
  <2> HIDE DEF N
  <2>1. \E x \in N : \A y \in N : y <= x BY <1>1, <1>2, GreatestNumber
  <2>2. \E x \in N : \A y \in N : x >= y BY <1>2, <2>1
  <2> QED BY <2>2 DEF Max
<1>4. m \in 0..Len(b) /\ m <= Len(a) /\ SubSeq(b, 1, m) = SubSeq(a, 1, m)
  <2>1. m \in 0..Len(b) /\ IsPrefix(SubSeq(b, 1, m), a) BY <1>3
  <2> HIDE DEF m, N
  <2>2. Len(SubSeq(b, 1, m)) = m /\ SubSeq(SubSeq(b, 1, m), 1, m) = SubSeq(b, 1, m)
    <3> HIDE DEF S
    <3>1. SubSeq(b, 1, m) \in Seq(S) /\ Len(SubSeq(b, 1, m)) = m
      BY <1>1, <2>1, PathParts
    <3> QED BY <3>1, SubSeqFull
  <2> QED BY <1>1, <2>1, <2>2 DEF IsPrefix
<1>5. Relative(a, b) = [i \in 1..(Len(b) - m) |-> ".."] \o SubSeq(a, m + 1, Len(a))
  BY DEF Relative
<1> HIDE DEF m
<1> QED BY <1>4, <1>5

LEMMA RelativeType ==
  ASSUME NEW a \in Location, NEW b \in Location
  PROVE  Relative(a, b) \in RelPath
<1> DEFINE S == Component \cup Name
           R == S \cup {".."}
<1>1. a \in Seq(S) /\ b \in Seq(S) /\ Len(a) \in Nat /\ Len(b) \in Nat
  BY LocationIs, LenProperties
<1>2. PICK m \in 0..Len(b) :
        /\ m <= Len(a)
        /\ Relative(a, b) =
             [i \in 1..(Len(b) - m) |-> ".."] \o SubSeq(a, m + 1, Len(a))
  BY RelativeIs
<1> DEFINE up == [i \in 1..(Len(b) - m) |-> ".."]
           down == SubSeq(a, m + 1, Len(a))
<1>3. up \in Seq(R)
  <2>1. Len(b) - m \in Nat BY <1>1
  <2> QED BY <2>1
<1>4. down \in Seq(S)
  <2>1. m \in 0..Len(a) BY <1>1, <1>2
  <2> HIDE DEF S
  <2> QED BY <1>1, <2>1, PathParts
<1>5. down \in Seq(R) BY <1>4
<1>6. Relative(a, b) = up \o down BY <1>2
<1> HIDE DEF up, down, S, R
<1>7. up \o down \in Seq(R) BY <1>3, <1>5, ConcatProperties
<1> QED BY <1>6, <1>7 DEF RelPath, R, S

LEMMA LinkType ==
  ASSUME NEW p \in Path, NEW q \in Path
  PROVE  LinkNode(LinkText(p, q)) \in BundleLink
<1>1. LinkText(p, q) \in RelPath
  BY LocationOfType, RelativeType DEF LinkText
<1> QED BY <1>1 DEF LinkNode, BundleLink

(* A symlink replaces an entry nothing is under.                           *)
LEMMA LinkTree ==
  ASSUME NEW t, Tree(t), NEW p \in Path, NEW q \in Path
  PROVE  Tree(Removed(t, p)) /\ Tree(SymlinkTo(t, p, q))
<1> SUFFICES ASSUME Linkable(t, p) PROVE Tree(Removed(t, p)) /\ Tree(SymlinkTo(t, p, q))
  BY DEF Removed, SymlinkTo
<1> DEFINE e == Place(t, p)
           n == LinkNode(LinkText(p, q))
           u == Put(t, e, n)
           r == [l \in DOMAIN t \ {e} |-> t[l]]
<1>1. e \in Location /\ e # <<>> BY PlaceType
<1>2. IsDirectory(t, Front(e)) /\ \A l \in DOMAIN t : Front(l) # e BY DEF Linkable
<1>3. Front(e) # e
  <2> DEFINE S == Component \cup Name
  <2>1. e \in Seq(S) BY <1>1, LocationIs
  <2> HIDE DEF S, e
  <2>2. Len(e) \in Nat /\ Len(Front(e)) = Len(e) - 1 BY <1>1, <2>1, FrontIs
  <2> QED BY <2>2
<1>4. n \in BundleLink BY LinkType
<1>5. SymlinkTo(t, p, q) = u /\ Removed(t, p) = r BY DEF SymlinkTo, Removed
<1>6. DOMAIN u = DOMAIN t \cup {e} /\ u[e] = n /\ \A k \in DOMAIN t \ {e} : u[k] = t[k]
  BY DEF Put
<1>7. DOMAIN r = DOMAIN t \ {e} /\ \A k \in DOMAIN t \ {e} : r[k] = t[k]
  OBVIOUS
<1> HIDE DEF e, n, u, r
<1>8. \A l : l # e /\ IsDirectory(t, l) => IsDirectory(u, l) /\ IsDirectory(r, l)
  BY <1>6, <1>7 DEF IsDirectory
<1>9. Tree(u)
  <2> SUFFICES ASSUME NEW l \in DOMAIN u
               PROVE  /\ l \in Location \ {<<>>}
                      /\ u[l] \in BundleFile \cup BundleLink \cup {DirNode}
                      /\ IsDirectory(u, Front(l))
    BY DEF Tree
  <2>1. CASE l = e BY <1>1, <1>2, <1>3, <1>4, <1>6, <1>8, <2>1
  <2>2. CASE l # e
    <3>1. l \in DOMAIN t /\ u[l] = t[l] BY <1>6, <2>2
    <3>2. Front(l) # e BY <1>2, <3>1
    <3> QED BY <1>8, <3>1, <3>2 DEF Tree
  <2> QED BY <2>1, <2>2
<1>10. Tree(r)
  <2> SUFFICES ASSUME NEW l \in DOMAIN r
               PROVE  /\ l \in Location \ {<<>>}
                      /\ r[l] \in BundleFile \cup BundleLink \cup {DirNode}
                      /\ IsDirectory(r, Front(l))
    BY DEF Tree
  <2>1. l \in DOMAIN t /\ r[l] = t[l] BY <1>7
  <2>2. Front(l) # e BY <1>2, <2>1
  <2> QED BY <1>8, <2>1, <2>2 DEF Tree
<1> QED BY <1>5, <1>9, <1>10

-----------------------------------------------------------------------------
(* The bootstrap of the layout, whole or cut short.                        *)
LEMMA Triple ==
  ASSUME NEW S, NEW f \in [1..3 -> S]
  PROVE  f \in Seq(S) /\ Len(f) = 3
<1>1. f \in UNION {[1..n -> S] : n \in Nat} OBVIOUS
<1>2. f \in Seq(S) BY <1>1, SeqDef
<1>3. DOMAIN f = 1..3 /\ DOMAIN f = 1..Len(f) /\ Len(f) \in Nat BY <1>2, LenProperties
<1> QED BY <1>2, <1>3

LEMMA StepsAre ==
  /\ BootstrapSteps(PreserveSourceTree) = <<>>
  /\ Len(BootstrapSteps(FlatLib64)) = 6
  /\ DOMAIN BootstrapSteps(FlatLib64) = 1..6
  /\ BootstrapSteps(FlatLib64) \in
       Seq({<<"bin">>, <<"lib64">>, <<"usr">>, <<"lib">>, <<"usr", "lib">>, <<"usr", "lib64">>}
             \X {DirNode, LinkNode(<<"lib64">>), LinkNode(<<"..", "lib64">>)})
  /\ BootstrapSteps(FlatLib64)[1] = <<<<"bin">>, DirNode>>
  /\ BootstrapSteps(FlatLib64)[2] = <<<<"lib64">>, DirNode>>
  /\ BootstrapSteps(FlatLib64)[3] = <<<<"usr">>, DirNode>>
  /\ BootstrapSteps(FlatLib64)[4] = <<<<"lib">>, LinkNode(<<"lib64">>)>>
  /\ BootstrapSteps(FlatLib64)[5] = <<<<"usr", "lib">>, LinkNode(<<"..", "lib64">>)>>
  /\ BootstrapSteps(FlatLib64)[6] = <<<<"usr", "lib64">>, LinkNode(<<"..", "lib64">>)>>
<1> DEFINE dirs == <<<<"bin">>, <<"lib64">>, <<"usr">>>>
           links == <<[at |-> <<"lib">>, to |-> <<"lib64">>],
                      [at |-> <<"usr", "lib">>, to |-> <<"..", "lib64">>],
                      [at |-> <<"usr", "lib64">>, to |-> <<"..", "lib64">>]>>
           D == [i \in DOMAIN dirs |-> <<dirs[i], DirNode>>]
           L == [i \in DOMAIN links |-> <<links[i].at, LinkNode(links[i].to)>>]
           S == {<<"bin">>, <<"lib64">>, <<"usr">>, <<"lib">>, <<"usr", "lib">>, <<"usr", "lib64">>}
                  \X {DirNode, LinkNode(<<"lib64">>), LinkNode(<<"..", "lib64">>)}
<1>1. BootstrapSteps(FlatLib64) = D \o L
  BY DEF BootstrapSteps, CompatibilityDirectories, CompatibilitySymlinks
<1>2. /\ D \in Seq(S) /\ Len(D) = 3
      /\ D[1] = <<<<"bin">>, DirNode>> /\ D[2] = <<<<"lib64">>, DirNode>>
      /\ D[3] = <<<<"usr">>, DirNode>>
  <2>1. DOMAIN D = 1..3 /\ 3 \in Nat OBVIOUS
  <2>2. /\ D[1] = <<<<"bin">>, DirNode>> /\ D[2] = <<<<"lib64">>, DirNode>>
        /\ D[3] = <<<<"usr">>, DirNode>>
    OBVIOUS
  <2>3. \A i \in 1..3 : D[i] \in S
    <3>1. \A i \in 1..3 : i = 1 \/ i = 2 \/ i = 3 OBVIOUS
    <3>2. D[1] \in S /\ D[2] \in S /\ D[3] \in S BY <2>2
    <3> HIDE DEF D, S
    <3> QED BY <3>1, <3>2
  <2>4. D = [i \in 1..3 |-> D[i]] BY <2>1
  <2> HIDE DEF D, S
  <2>5. D \in [1..3 -> S] BY <2>3, <2>4
  <2>6. D \in Seq(S) /\ Len(D) = 3 BY <2>5, Triple
  <2> QED BY <2>2, <2>6
<1>3. /\ L \in Seq(S) /\ Len(L) = 3
      /\ L[1] = <<<<"lib">>, LinkNode(<<"lib64">>)>>
      /\ L[2] = <<<<"usr", "lib">>, LinkNode(<<"..", "lib64">>)>>
      /\ L[3] = <<<<"usr", "lib64">>, LinkNode(<<"..", "lib64">>)>>
  <2>1. DOMAIN L = 1..3 /\ 3 \in Nat OBVIOUS
  <2>2. /\ L[1] = <<<<"lib">>, LinkNode(<<"lib64">>)>>
        /\ L[2] = <<<<"usr", "lib">>, LinkNode(<<"..", "lib64">>)>>
        /\ L[3] = <<<<"usr", "lib64">>, LinkNode(<<"..", "lib64">>)>>
    OBVIOUS
  <2>3. \A i \in 1..3 : L[i] \in S
    <3>1. \A i \in 1..3 : i = 1 \/ i = 2 \/ i = 3 OBVIOUS
    <3>2. L[1] \in S /\ L[2] \in S /\ L[3] \in S BY <2>2
    <3> HIDE DEF L, S
    <3> QED BY <3>1, <3>2
  <2>4. L = [i \in 1..3 |-> L[i]] BY <2>1
  <2> HIDE DEF L, S
  <2>5. L \in [1..3 -> S] BY <2>3, <2>4
  <2>6. L \in Seq(S) /\ Len(L) = 3 BY <2>5, Triple
  <2> QED BY <2>2, <2>6
<1> DEFINE B == D \o L
<1>4. /\ B \in Seq(S) /\ Len(B) = 6
      /\ \A i \in 1..6 : B[i] = IF i <= 3 THEN D[i] ELSE L[i - 3]
  <2> HIDE DEF D, L, S
  <2>1. /\ B \in Seq(S) /\ Len(B) = Len(D) + Len(L)
        /\ \A i \in 1..(Len(D) + Len(L)) : B[i] = IF i <= Len(D) THEN D[i] ELSE L[i - Len(D)]
    BY <1>2, <1>3, ConcatProperties
  <2> QED BY <1>2, <1>3, <2>1
<1> HIDE DEF D, L, S, B
<1>5. /\ B[1] = D[1] /\ B[2] = D[2] /\ B[3] = D[3]
      /\ B[4] = L[1] /\ B[5] = L[2] /\ B[6] = L[3]
  BY <1>4
<1>6. DOMAIN B = 1..6 BY <1>4
<1>7. BootstrapSteps(PreserveSourceTree) = <<>>
  BY DEF BootstrapSteps, CompatibilityDirectories, CompatibilitySymlinks, FlatLib64,
         PreserveSourceTree
<1>8. BootstrapSteps(FlatLib64) = B BY <1>1 DEF B
<1> QED BY <1>2, <1>3, <1>4, <1>5, <1>6, <1>7, <1>8 DEF S

LEMMA FirstSteps ==
  ASSUME NEW n \in 0..6
  PROVE  LET first == ToSet(SubSeq(BootstrapSteps(FlatLib64), 1, n)) IN
         /\ first \subseteq ToSet(BootstrapSteps(FlatLib64))
         /\ \A step \in first : Len(step[1]) = 2 => <<<<"usr">>, DirNode>> \in first
<1> DEFINE B == BootstrapSteps(FlatLib64)
           P == SubSeq(B, 1, n)
           S == {<<"bin">>, <<"lib64">>, <<"usr">>, <<"lib">>, <<"usr", "lib">>, <<"usr", "lib64">>}
                  \X {DirNode, LinkNode(<<"lib64">>), LinkNode(<<"..", "lib64">>)}
<1>1. B \in Seq(S) /\ Len(B) = 6 /\ n \in 0..Len(B) BY StepsAre
<1>2. Len(P) = n /\ P \in Seq(S) /\ \A i \in 1..n : P[i] = B[i]
  <2> HIDE DEF S, B
  <2> QED BY <1>1, PathParts
<1>3. ToSet(P) = {B[i] : i \in 1..n} /\ ToSet(B) = {B[i] : i \in 1..6}
  <2> HIDE DEF S, B, P
  <2>1. DOMAIN P = 1..n /\ DOMAIN B = 1..6 BY <1>1, <1>2
  <2> QED BY <1>2, <2>1 DEF ToSet
<1>4. ASSUME NEW i \in 1..n, Len(B[i][1]) = 2
      PROVE  <<<<"usr">>, DirNode>> \in {B[k] : k \in 1..n}
  <2>1. i \in {1, 2, 3, 4, 5, 6} OBVIOUS
  <2>2. /\ Len(<<"bin">>) = 1 /\ Len(<<"lib64">>) = 1 /\ Len(<<"usr">>) = 1 /\ Len(<<"lib">>) = 1
    OBVIOUS
  <2>3. i \in {5, 6} BY <1>4, <2>1, <2>2, StepsAre
  <2>4. 3 \in 1..n BY <2>3
  <2>5. B[3] = <<<<"usr">>, DirNode>> BY StepsAre
  <2> QED BY <2>4, <2>5
<1> HIDE DEF B, P
<1> QED BY <1>3, <1>4 DEF B, P

(* What a step of the bootstrap makes, in a directory that is there or     *)
(* was made before it.                                                     *)
StepPlaces(steps) == {step[1] : step \in ToSet(steps)}
OfBootstrap(steps) == ToSet(steps) \subseteq ToSet(BootstrapSteps(FlatLib64))

LEMMA StepsDiffer ==
  \A q, r \in ToSet(BootstrapSteps(FlatLib64)) : q[1] = r[1] => q = r
<1> DEFINE B == BootstrapSteps(FlatLib64)
<1>1. ToSet(B) = {B[1], B[2], B[3], B[4], B[5], B[6]}
  <2>1. DOMAIN B = 1..6 BY StepsAre
  <2>2. \A i \in 1..6 : i \in {1, 2, 3, 4, 5, 6} OBVIOUS
  <2> HIDE DEF B
  <2> QED BY <2>1, <2>2 DEF ToSet
<1>2. /\ <<"bin">> # <<"lib64">> /\ <<"bin">> # <<"usr">> /\ <<"bin">> # <<"lib">>
        /\ <<"lib64">> # <<"usr">> /\ <<"lib64">> # <<"lib">> /\ <<"usr">> # <<"lib">>
        /\ <<"usr", "lib">> # <<"usr", "lib64">>
    OBVIOUS
<1>3. \A c \in {"bin", "lib64", "usr", "lib"} :
          <<c>> # <<"usr", "lib">> /\ <<c>> # <<"usr", "lib64">>
    OBVIOUS
<1> HIDE DEF B
<1>4. /\ B[1][1] = <<"bin">> /\ B[2][1] = <<"lib64">> /\ B[3][1] = <<"usr">>
        /\ B[4][1] = <<"lib">> /\ B[5][1] = <<"usr", "lib">>
        /\ B[6][1] = <<"usr", "lib64">>
    BY StepsAre DEF B
<1>5. \A q, r \in ToSet(B) : q[1] = r[1] => q = r BY <1>1, <1>2, <1>3, <1>4
<1> QED BY <1>5 DEF B

LEMMA EnsuredIs ==
  ASSUME NEW t, NEW steps
  PROVE  /\ DOMAIN Ensured(t, steps) = DOMAIN t \cup StepPlaces(steps)
         /\ \A k \in DOMAIN t : Ensured(t, steps)[k] = t[k]
BY DEF Ensured, Added, StepPlaces

LEMMA EnsuredNew ==
  ASSUME NEW t, NEW steps, OfBootstrap(steps),
         NEW step, step \in ToSet(steps), step[1] \notin DOMAIN t
  PROVE  Ensured(t, steps)[step[1]] = step[2]
<1> DEFINE at == {one[1] : one \in ToSet(steps)}
           new == [l \in at |-> (CHOOSE one \in ToSet(steps) : one[1] = l)[2]]
<1>1. step[1] \in at OBVIOUS
<1>2. (CHOOSE one \in ToSet(steps) : one[1] = step[1]) = step
  BY StepsDiffer DEF OfBootstrap
<1>3. new[step[1]] = step[2] BY <1>1, <1>2
<1>4. Ensured(t, steps) = Added(t, new) BY DEF Ensured
<1>5. DOMAIN new = at OBVIOUS
<1> HIDE DEF new
<1> QED BY <1>1, <1>3, <1>4, <1>5 DEF Added

LEMMA EnsuredTree ==
  ASSUME NEW t, Tree(t), Bootable(t, FlatLib64),
         NEW steps, OfBootstrap(steps),
         \A step \in ToSet(steps) :
           Len(step[1]) = 2 => <<<<"usr">>, DirNode>> \in ToSet(steps)
  PROVE  Tree(Ensured(t, steps))
<1> DEFINE u == Ensured(t, steps)
<1>0. OfBootstrap(steps) OBVIOUS
<1>1. /\ DOMAIN u = DOMAIN t \cup StepPlaces(steps)
      /\ \A k \in DOMAIN t : u[k] = t[k]
      /\ \A step \in ToSet(steps) : step[1] \notin DOMAIN t => u[step[1]] = step[2]
  <2>1. DOMAIN u = DOMAIN t \cup StepPlaces(steps) BY ONLY <1>0, EnsuredIs, Zenon
  <2>2. \A k \in DOMAIN t : u[k] = t[k] BY ONLY <1>0, EnsuredIs, Zenon
  <2>3. ASSUME NEW step \in ToSet(steps), step[1] \notin DOMAIN t
        PROVE  Ensured(t, steps)[step[1]] = step[2]
    BY <1>0, <2>3, EnsuredNew
  <2> QED BY <2>1, <2>2, <2>3
<1> HIDE DEF u
<1>2. ASSUME NEW step \in ToSet(steps)
      PROVE  /\ step[1] \in Location \ {<<>>} /\ step[2] \in BundleLink \cup {DirNode}
             /\ IsDirectory(u, Front(step[1]))
  <2> DEFINE S == Component \cup Name
  <2>1. step \in {<<"bin">>, <<"lib64">>, <<"usr">>, <<"lib">>, <<"usr", "lib">>, <<"usr", "lib64">>}
                  \X {DirNode, LinkNode(<<"lib64">>), LinkNode(<<"..", "lib64">>)}
    <3> DEFINE T == {<<"bin">>, <<"lib64">>, <<"usr">>, <<"lib">>, <<"usr", "lib">>, <<"usr", "lib64">>}
                  \X {DirNode, LinkNode(<<"lib64">>), LinkNode(<<"..", "lib64">>)}
    <3>1. BootstrapSteps(FlatLib64) \in Seq(T) BY StepsAre
    <3>2. step \in ToSet(BootstrapSteps(FlatLib64)) BY DEF OfBootstrap
    <3> HIDE DEF T
    <3>3. step \in T
      <4>1. PICK i \in DOMAIN BootstrapSteps(FlatLib64) : step = BootstrapSteps(FlatLib64)[i]
        BY <3>2 DEF ToSet
      <4> QED BY <3>1, <4>1
    <3> QED BY <3>3 DEF T
  <2>2. {"bin", "lib64", "lib", "usr"} \subseteq S BY DEF Component
  <2>3. step[1] \in Seq(S) /\ step[1] # <<>>
    <3> HIDE DEF S
    <3>1. \A a \in S : <<a>> \in Seq(S) /\ <<a>> # <<>> OBVIOUS
    <3>2. \A a, b \in S : <<a, b>> \in Seq(S) /\ <<a, b>> # <<>> OBVIOUS
    <3>3. step[1] \in {<<"bin">>, <<"lib64">>, <<"usr">>, <<"lib">>,
                       <<"usr", "lib">>, <<"usr", "lib64">>}
      BY <2>1
    <3> QED BY <2>2, <3>1, <3>2, <3>3
  <2>4. step[2] \in BundleLink \cup {DirNode}
    <3>1. <<"lib64">> \in RelPath /\ <<"..", "lib64">> \in RelPath BY <2>2 DEF RelPath
    <3>2. step[2] \in {DirNode, LinkNode(<<"lib64">>), LinkNode(<<"..", "lib64">>)} BY <2>1
    <3> QED BY <3>1, <3>2 DEF BundleLink, LinkNode
  <2>5. CASE Len(step[1]) = 1
    <3> HIDE DEF S
    <3>1. Front(step[1]) \in Seq(S) /\ Len(Front(step[1])) = 0 BY <2>3, <2>5, FrontIs
    <3>2. Front(step[1]) = <<>> BY <3>1
    <3> QED BY <2>3, <2>4, <3>2, LocationIs DEF IsDirectory, S
  <2>6. CASE Len(step[1]) # 1
    <3>1. /\ Len(<<"bin">>) = 1 /\ Len(<<"lib64">>) = 1 /\ Len(<<"usr">>) = 1 /\ Len(<<"lib">>) = 1
      OBVIOUS
    <3>2. step[1] \in {<<"usr", "lib">>, <<"usr", "lib64">>} BY <2>1, <2>6, <3>1
    <3>3. Len(step[1]) = 2 /\ step[1][1] = "usr" BY <3>2
    <3> HIDE DEF S
    <3>4. /\ Front(step[1]) \in Seq(S) /\ Len(Front(step[1])) = 2 - 1
          /\ \A i \in 1..(2 - 1) : Front(step[1])[i] = step[1][i]
      BY <2>3, <3>3, FrontIs
    <3>5. Front(step[1]) = <<"usr">>
      <4>1. Len(Front(step[1])) = 1 /\ Front(step[1])[1] = "usr" BY <3>3, <3>4
      <4> QED BY <3>4, <4>1
    <3>6. <<<<"usr">>, DirNode>> \in ToSet(steps) BY <3>3
    <3>7. <<"usr">> \in DOMAIN t => t[<<"usr">>] = DirNode
      <4>1. <<"usr">> \in ToSet(CompatibilityDirectories(FlatLib64))
        BY DEF CompatibilityDirectories, ToSet
      <4> QED BY <4>1 DEF Bootable
    <3>8. u[<<"usr">>] = DirNode /\ <<"usr">> \in DOMAIN u
      BY <1>1, <3>6, <3>7 DEF StepPlaces
    <3> QED BY <2>3, <2>4, <3>5, <3>8, LocationIs DEF IsDirectory, S
  <2> QED BY <2>5, <2>6
<1>3. \A l : IsDirectory(t, l) => IsDirectory(u, l) BY <1>1 DEF IsDirectory
<1>4. Tree(u)
  <2> SUFFICES ASSUME NEW l \in DOMAIN u
               PROVE  /\ l \in Location \ {<<>>}
                      /\ u[l] \in BundleFile \cup BundleLink \cup {DirNode}
                      /\ IsDirectory(u, Front(l))
    BY DEF Tree
  <2>1. CASE l \in DOMAIN t BY <1>1, <1>3, <2>1 DEF Tree
  <2>2. CASE l \notin DOMAIN t
    <3>1. PICK step \in ToSet(steps) : l = step[1] BY <1>1, <2>2 DEF StepPlaces
    <3> QED BY <1>1, <1>2, <2>2, <3>1
  <2> QED BY <2>1, <2>2
<1> QED BY <1>4 DEF u

LEMMA BootstrapTree ==
  ASSUME NEW t, Tree(t), NEW p \in Policy
  PROVE  /\ Tree(Bootstrap(t, p))
         /\ \A u \in BootstrapCut(t, p) : Tree(u)
<1> DEFINE B == BootstrapSteps(FlatLib64)
<1>1. CASE p = PreserveSourceTree
  <2>1. BootstrapSteps(p) = <<>> BY <1>1, StepsAre
  <2>2. ToSet(<<>>) = {} BY DEF ToSet
  <2>3. Tree(Ensured(t, <<>>))
    <3>1. /\ DOMAIN Ensured(t, <<>>) = DOMAIN t \cup StepPlaces(<<>>)
          /\ \A k \in DOMAIN t : Ensured(t, <<>>)[k] = t[k]
      BY EnsuredIs
    <3>2. StepPlaces(<<>>) = {} BY <2>2 DEF StepPlaces
    <3> DEFINE u == Ensured(t, <<>>)
    <3>3. DOMAIN u = DOMAIN t /\ \A k \in DOMAIN t : u[k] = t[k] BY <3>1, <3>2
    <3> HIDE DEF u
    <3>4. Tree(u) BY <3>3 DEF Tree, IsDirectory
    <3> QED BY <3>4 DEF u
  <2>4. Prefixes(<<>>) = {<<>>}
    <3>1. Len(<<>>) = 0 /\ SubSeq(<<>>, 1, 0) = <<>> BY SubSeqEmpty
    <3>2. 0..0 = {0} OBVIOUS
    <3> QED BY <3>1, <3>2 DEF Prefixes
  <2> QED BY <2>1, <2>3, <2>4 DEF Bootstrap, BootstrapCut
<1>2. CASE p = FlatLib64 /\ Bootable(t, p)
  <2>1. ASSUME NEW n \in 0..6 PROVE Tree(Ensured(t, SubSeq(B, 1, n)))
    <3>1. OfBootstrap(SubSeq(B, 1, n)) BY FirstSteps DEF OfBootstrap
    <3>2. \A step \in ToSet(SubSeq(B, 1, n)) :
            Len(step[1]) = 2 => <<<<"usr">>, DirNode>> \in ToSet(SubSeq(B, 1, n))
      BY FirstSteps
    <3> HIDE DEF B
    <3> QED BY <1>2, <3>1, <3>2, EnsuredTree
  <2>2. SubSeq(B, 1, 6) = B
    <3> DEFINE T == {<<"bin">>, <<"lib64">>, <<"usr">>, <<"lib">>, <<"usr", "lib">>, <<"usr", "lib64">>}
                  \X {DirNode, LinkNode(<<"lib64">>), LinkNode(<<"..", "lib64">>)}
    <3>1. B \in Seq(T) /\ Len(B) = 6 BY StepsAre
    <3> HIDE DEF T, B
    <3> QED BY <3>1, PathParts
  <2>3. Len(B) = 6 BY StepsAre
  <2>4. Bootstrap(t, p) = Ensured(t, B) BY <1>2 DEF Bootstrap
  <2>5. BootstrapCut(t, p) = {t} \cup {Ensured(t, SubSeq(B, 1, n)) : n \in 0..6}
    <3>1. Prefixes(B) = {SubSeq(B, 1, n) : n \in 0..6} BY <2>3 DEF Prefixes
    <3>2. BootstrapCut(t, p) = {t} \cup {Ensured(t, steps) : steps \in Prefixes(B)}
      BY <1>2 DEF BootstrapCut
    <3> HIDE DEF B
    <3> QED BY <3>1, <3>2
  <2>6. 6 \in 0..6 OBVIOUS
  <2> HIDE DEF B
  <2> QED BY <2>1, <2>2, <2>4, <2>5, <2>6
<1>3. CASE ~Bootable(t, p) BY <1>3 DEF Bootstrap, BootstrapCut
<1> QED BY <1>1, <1>2, <1>3 DEF Policy

-----------------------------------------------------------------------------
(* What create_directories makes of a path, in a root with no other        *)
(* symlinks on its way than those of the layout.                           *)

LEMMA TurnedPrefix ==
  ASSUME NEW S, "lib64" \in S, NEW path \in Seq(S), NEW r \in Seq(S),
         NEW n \in 0..Len(path), Len(r) <= n
  PROVE  /\ n - Len(r) + 1 \in 0..Len(Turned(path, r))
         /\ Turned(SubSeq(path, 1, n), r) = SubSeq(Turned(path, r), 1, n - Len(r) + 1)
<1> DEFINE a == SubSeq(path, 1, n)
           k == n - Len(r) + 1
           g == Turned(path, r)
           u == Turned(a, r)
           v == SubSeq(g, 1, k)
<1>1. /\ Len(path) \in Nat /\ Len(r) \in Nat /\ n \in Nat /\ n <= Len(path) BY LenProperties
<1>2. a \in Seq(S) /\ Len(a) = n /\ \A i \in 1..n : a[i] = path[i] BY PathParts
<1>3. Len(r) <= Len(path) /\ Len(r) <= Len(a) BY <1>1, <1>2
<1>4. /\ g \in Seq(S) /\ Len(g) = Len(path) - Len(r) + 1 /\ g[1] = "lib64"
      /\ \A i \in 2..(Len(path) - Len(r) + 1) : g[i] = path[Len(r) + i - 1]
  BY <1>3, TurnedParts
<1>5. /\ u \in Seq(S) /\ Len(u) = Len(a) - Len(r) + 1 /\ u[1] = "lib64"
      /\ \A i \in 2..(Len(a) - Len(r) + 1) : u[i] = a[Len(r) + i - 1]
  <2>1. a \in Seq(S) /\ Len(r) <= Len(a) BY <1>2, <1>3
  <2> HIDE DEF a
  <2> QED BY <2>1, TurnedParts
<1> HIDE DEF g, u, a
<1>6. k \in 0..Len(g) BY <1>1, <1>4
<1>7. v \in Seq(S) /\ Len(v) = k /\ \A i \in 1..k : v[i] = g[i]
  <2> HIDE DEF k
  <2> QED BY <1>4, <1>6, PathParts
<1>8. Len(u) = k BY <1>2, <1>5
<1>9. \A i \in 1..k : u[i] = v[i]
  <2> SUFFICES ASSUME NEW i \in 1..k PROVE u[i] = v[i] OBVIOUS
  <2>1. CASE i = 1 BY <1>4, <1>5, <1>7, <2>1
  <2>2. CASE i # 1
    <3>1. /\ i \in 2..(Len(a) - Len(r) + 1) /\ i \in 2..(Len(path) - Len(r) + 1)
          /\ Len(r) + i - 1 \in 1..n
      BY <1>1, <1>2, <2>2
    <3>2. u[i] = a[Len(r) + i - 1] /\ g[i] = path[Len(r) + i - 1] BY <1>4, <1>5, <3>1
    <3> QED BY <1>2, <1>7, <3>1, <3>2
  <2> QED BY <2>1, <2>2
<1>10. u = v
  <2> HIDE DEF v, k
  <2> QED BY <1>5, <1>7, <1>8, <1>9, SeqEqual
<1> QED BY <1>6, <1>10 DEF g, u, a

LEMMA OnlyTurnsAbove ==
  ASSUME NEW t, NEW g \in Location, OnlyTurns(t, g), NEW n \in 0..Len(g)
  PROVE  OnlyTurns(t, SubSeq(g, 1, n))
<1> DEFINE S == Component \cup Name
<1>1. g \in Seq(S) BY LocationIs
<1> HIDE DEF S
<1>2. Len(SubSeq(g, 1, n)) = n /\ Len(g) \in Nat BY <1>1, PathParts, LenProperties
<1>3. \A k \in 0..n : SubSeq(SubSeq(g, 1, n), 1, k) = SubSeq(g, 1, k)
  BY <1>1, PrefixOfPrefix
<1> DEFINE a == SubSeq(g, 1, n)
<1>4. a \in Location BY <1>1, PathParts, LocationIs DEF S
<1> SUFFICES ASSUME NEW k \in 1..Len(a), LinkAt(t, SubSeq(a, 1, k))
             PROVE  SubSeq(a, 1, k) \in Redirected
  BY DEF OnlyTurns
<1>5. k \in 1..n /\ k \in 0..n /\ k \in 1..Len(g) BY <1>2
<1>6. SubSeq(a, 1, k) = SubSeq(g, 1, k) BY <1>3, <1>5
<1> QED BY <1>5, <1>6 DEF OnlyTurns

(* Where the first components of a path lead is on the way to a spot.      *)
LEMMA SpotPrefix ==
  ASSUME NEW t, NEW path \in Location, NEW n \in 0..Len(path)
  PROVE  \E g \in Spots(path) : g \in Location /\ Goes(t, SubSeq(path, 1, n)) \in Prefixes(g)
<1> DEFINE S == Component \cup Name
           a == SubSeq(path, 1, n)
<1>1. path \in Seq(S) /\ "lib64" \in S /\ Redirected \subseteq Seq(S) BY LocationIs
<1> HIDE DEF S
<1>2. a \in Seq(S) /\ Len(a) = n /\ Len(path) \in Nat BY <1>1, PathParts, LenProperties
<1>3. a \in Location BY <1>2, LocationIs DEF S
<1> HIDE DEF a
<1>4. CASE Turns(t, a) = {}
  <2>1. Goes(t, a) = a BY <1>3, <1>4, GoesIs
  <2>2. a \in Prefixes(path) BY DEF Prefixes, a
  <2>3. path \in Spots(path) BY DEF Spots
  <2> QED BY <2>1, <2>2, <2>3 DEF a
<1>5. ASSUME NEW r \in Turns(t, a)
      PROVE  \E g \in Spots(path) : g \in Location /\ Goes(t, a) \in Prefixes(g)
  <2>1. r \in Redirected /\ IsPrefix(r, a) /\ Goes(t, a) = Turned(a, r) /\ Len(r) <= Len(a)
    BY <1>3, GoesIs
  <2>2. r \in Seq(S) /\ Len(r) <= n BY <1>1, <1>2, <2>1
  <2>3. IsPrefix(r, path)
    <3>1. Len(r) <= Len(a) /\ \A i \in 1..Len(r) : r[i] = a[i]
      BY <1>2, <2>1, <2>2, PrefixIs
    <3>2. \A i \in 1..n : a[i] = path[i] BY <1>1, PathParts DEF a
    <3>3. Len(r) <= Len(path) /\ \A i \in 1..Len(r) : r[i] = path[i]
      <4>1. Len(r) \in Nat BY <2>2, LenProperties
      <4> QED BY <1>2, <2>2, <3>1, <3>2, <4>1
    <3> QED BY <1>1, <2>2, <3>3, PrefixIs
  <2>4. Turned(path, r) \in Spots(path) BY <2>1, <2>3 DEF Spots
  <2>5. /\ n - Len(r) + 1 \in 0..Len(Turned(path, r))
        /\ Turned(a, r) = SubSeq(Turned(path, r), 1, n - Len(r) + 1)
    BY <1>1, <2>2, TurnedPrefix DEF a
  <2>6. Goes(t, a) \in Prefixes(Turned(path, r)) BY <2>1, <2>5 DEF Prefixes
  <2>7. Turned(path, r) \in Location
    <3>1. Len(r) <= Len(path)
      <4>1. Len(r) \in Nat BY <2>2, LenProperties
      <4> QED BY <1>2, <2>2, <4>1
    <3>2. Turned(path, r) \in Seq(S) BY <1>1, <2>2, <3>1, TurnedParts
    <3> QED BY <3>2, LocationIs DEF S
  <2> QED BY <2>4, <2>6, <2>7
<1> QED BY <1>4, <1>5 DEF a

LEMMA MadeGoes ==
  ASSUME NEW t, Tree(t), TurnsRight(t), NEW path \in Location,
         \A g \in Spots(path) : OnlyTurns(t, g)
  PROVE  MadeAt(t, path) = Goes(t, path)
<1> DEFINE S == Component \cup Name
           N == Len(path)
<1>1. path \in Seq(S) /\ N \in Nat BY LocationIs, LenProperties
<1> HIDE DEF S
<1>2. PICK f : MadeOf(t, path, f) /\ MadeAt(t, path) = f[N] BY MadeSteps
<1>3. ASSUME NEW n \in 0..N PROVE OnlyTurns(t, Goes(t, SubSeq(path, 1, n)))
  <2>1. PICK g \in Spots(path) : g \in Location /\ Goes(t, SubSeq(path, 1, n)) \in Prefixes(g)
    BY SpotPrefix
  <2>2. PICK k \in 0..Len(g) : Goes(t, SubSeq(path, 1, n)) = SubSeq(g, 1, k)
    BY <2>1 DEF Prefixes
  <2> QED BY <2>1, <2>2, OnlyTurnsAbove
<1> DEFINE Q == {n \in Nat : n \in 0..N => f[n] = Goes(t, SubSeq(path, 1, n))}
<1>4. 0 \in Q
  <2>1. SubSeq(path, 1, 0) = <<>> BY SubSeqEmpty
  <2>2. Turns(t, <<>>) = {}
    <3> SUFFICES ASSUME NEW r \in Turns(t, <<>>) PROVE FALSE OBVIOUS
    <3>1. r \in Redirected /\ Len(r) <= Len(<<>>) BY EmptyLocation, GoesIs
    <3>2. Len(r) \in {1, 2} BY <3>1, RedirectedParts
    <3> QED BY <3>1, <3>2
  <2>3. Goes(t, <<>>) = <<>> BY <2>2, EmptyLocation, GoesIs
  <2>4. f[0] = <<>> BY <1>2 DEF MadeOf
  <2> QED BY <2>1, <2>3, <2>4
<1>5. \A n \in Nat : n \in Q => n + 1 \in Q
  <2> SUFFICES ASSUME NEW n \in Nat, n \in Q, n + 1 \in 0..N
               PROVE  f[n + 1] = Goes(t, SubSeq(path, 1, n + 1))
    OBVIOUS
  <2> DEFINE a == SubSeq(path, 1, n)
             b == SubSeq(path, 1, n + 1)
             here == Append(Goes(t, a), path[n + 1])
  <2>1. n \in 0..(N - 1) /\ n \in 0..N /\ n + 1 \in 1..N /\ (n + 1) - 1 = n BY <1>1
  <2>2. f[n] = Goes(t, a) BY <2>1
  <2>3. f[n + 1] = Onto(t, here)
    <3>1. f[n + 1] = Onto(t, Append(f[(n + 1) - 1], path[n + 1]))
      BY <1>2, <2>1 DEF MadeOf
    <3> QED BY <2>1, <2>2, <3>1
  <2>4. /\ a \in Location /\ b \in Location
        /\ Goes(t, here) = Goes(t, b)
        /\ \/ here = Goes(t, b)
           \/ Goes(t, b) = <<"lib64">> /\ Turns(t, b) # {}
    <3>1. path \in Location /\ n \in 0..(Len(path) - 1) BY <2>1
    <3> QED BY ONLY <3>1, GoesOnward
  <2>5. here \in Location
    <3>1. Goes(t, a) \in Location BY <2>4, GoesIs
    <3>2. Goes(t, a) \in Seq(S) /\ path[n + 1] \in S
      BY <1>1, <2>1, <3>1, LocationIs, ElementOfSeq DEF S
    <3> HIDE DEF a
    <3> QED BY <3>2, AppendProperties, LocationIs DEF S
  <2>6. OnlyTurns(t, Goes(t, b)) BY <1>3
  <2> HIDE DEF here, a, b
  <2>7. Follow(t, here) = IF Goes(t, b) = <<>> \/ IsDirectory(t, Front(Goes(t, b)))
                          THEN Goes(t, b) ELSE Nowhere
    BY <2>4, <2>5, <2>6, FollowGoes
  <2>8. ~IsDirectory(t, Nowhere) BY DirectoryIsLocation, Parts
  <2>9. CASE here = Goes(t, b) BY <2>3, <2>7, <2>8, <2>9 DEF Onto, b
  <2>10. CASE Goes(t, b) = <<"lib64">> /\ Turns(t, b) # {}
    <3>1. PICK r \in Turns(t, b) : TRUE BY <2>10
    <3>2. r \in Redirected /\ LinkAt(t, r) BY <2>4, <3>1, GoesIs
    <3>3. IsDirectory(t, <<"lib64">>) BY <3>2 DEF TurnsRight
    <3>4. IsDirectory(t, Front(<<"lib64">>))
      <4>1. <<"lib64">> # <<>> OBVIOUS
      <4>2. <<"lib64">> \in DOMAIN t BY <3>3, <4>1 DEF IsDirectory
      <4> QED BY <4>2, NodeType
    <3> QED BY <2>3, <2>7, <2>10, <3>3, <3>4 DEF Onto, b
  <2> QED BY <2>4, <2>9, <2>10
<1> HIDE DEF Q
<1>6. Nat \subseteq Q BY <1>4, <1>5, NatSet
<1>7. f[N] = Goes(t, SubSeq(path, 1, N)) BY <1>1, <1>6 DEF Q
<1>8. SubSeq(path, 1, N) = path BY <1>1, SubSeqFull
<1> QED BY <1>2, <1>7, <1>8

-----------------------------------------------------------------------------
(* Where an entry lies and ends, in a root with no other symlinks on the   *)
(* way to it than those of the layout.                                     *)

LEMMA ParentGoes ==
  ASSUME NEW t, NEW p \in Path, LocationOf(p) \notin Redirected
  PROVE  Append(Goes(t, Components[p.dir]), p.name) = Goes(t, LocationOf(p))
<1> DEFINE S == Component \cup Name
           b == LocationOf(p)
           d == Components[p.dir]
           n == Len(d)
<1>1. /\ d \in Location /\ b \in Location /\ b # <<>> /\ Front(b) = d /\ p.name \in Name
      /\ b = Append(d, p.name)
  BY LocationOfType DEF LocationOf
<1>2. /\ d \in Seq(S) /\ b \in Seq(S) /\ p.name \in S /\ "lib64" \in S
      /\ Redirected \subseteq Seq(S)
  BY <1>1, LocationIs
<1> HIDE DEF S, b, d
<1>3. /\ n \in Nat /\ Len(b) = n + 1 /\ b[n + 1] = p.name
      /\ \A i \in 1..n : b[i] = d[i]
  BY <1>1, <1>2, AppendProperties, LenProperties
<1>4. n \in 0..(Len(b) - 1) /\ n \in 0..Len(b) /\ n + 1 \in 0..Len(b) BY <1>3
<1>5. SubSeq(b, 1, n) = d
  <2>1. /\ SubSeq(b, 1, n) \in Seq(S) /\ Len(SubSeq(b, 1, n)) = n
        /\ \A i \in 1..n : SubSeq(b, 1, n)[i] = b[i]
    BY <1>2, <1>4, PathParts
  <2> QED BY <1>2, <1>3, <2>1, SeqEqual
<1>6. SubSeq(b, 1, n + 1) = b
  <2>1. n + 1 = Len(b) BY <1>3
  <2> QED BY <1>2, <1>4, <2>1, PathParts
<1> DEFINE here == Append(Goes(t, d), p.name)
<1>7. here = Goes(t, b) \/ (Goes(t, b) = <<"lib64">> /\ Turns(t, b) # {})
  <2> HIDE DEF n
  <2>1. \/ Append(Goes(t, SubSeq(b, 1, n)), b[n + 1]) = Goes(t, SubSeq(b, 1, n + 1))
        \/ /\ Goes(t, SubSeq(b, 1, n + 1)) = <<"lib64">>
           /\ Turns(t, SubSeq(b, 1, n + 1)) # {}
    BY <1>1, <1>4, GoesOnward
  <2> QED BY <1>3, <1>5, <1>6, <2>1
<1>8. ASSUME Goes(t, b) = <<"lib64">>, NEW r \in Turns(t, b) PROVE FALSE
  <2>1. /\ r \in Redirected /\ IsPrefix(r, b) /\ Goes(t, b) = Turned(b, r)
        /\ Len(r) <= Len(b) /\ r \in Seq(S)
    BY <1>1, <1>2, GoesIs
  <2>2. Len(Turned(b, r)) = Len(b) - Len(r) + 1
    BY <1>2, <2>1, TurnedParts
  <2>3. Len(Turned(b, r)) = 1
    <3>1. Len(<<"lib64">>) = 1 OBVIOUS
    <3> QED BY <1>8, <2>1, <3>1
  <2>4. Len(r) = Len(b)
    <3>1. Len(r) \in Nat /\ Len(b) \in Nat BY <1>2, <2>1, LenProperties
    <3>2. Len(b) - Len(r) + 1 = 1 BY <2>2, <2>3
    <3>3. \A x, y \in Nat : x - y + 1 = 1 => y = x OBVIOUS
    <3> QED BY <3>1, <3>2, <3>3
  <2>5. \A i \in 1..Len(r) : r[i] = b[i] BY <1>2, <2>1, PrefixIs
  <2>6. r = b BY <1>2, <2>1, <2>4, <2>5, SeqEqual
  <2> QED BY <2>1, <2>6 DEF b
<1> QED BY <1>7, <1>8 DEF b, d

LEMMA PlaceGoes ==
  ASSUME NEW t, Tree(t), TurnsRight(t), NEW p \in Path,
         LocationOf(p) \notin Redirected,
         \A g \in Spots(Components[p.dir]) : OnlyTurns(t, g)
  PROVE  /\ MadeAt(t, Components[p.dir]) = Goes(t, Components[p.dir])
         /\ Place(t, p) = Goes(t, LocationOf(p))
         /\ Front(Goes(t, LocationOf(p))) = Goes(t, Components[p.dir])
         /\ Goes(t, LocationOf(p)) # <<>>
<1>1. Components[p.dir] \in Location BY LocationOfType
<1>2. MadeAt(t, Components[p.dir]) = Goes(t, Components[p.dir])
  BY <1>1, MadeGoes
<1>3. Place(t, p) = Goes(t, LocationOf(p)) BY <1>2, ParentGoes DEF Place
<1> QED BY <1>2, <1>3, PlaceType

LEMMA EndGoes ==
  ASSUME NEW t, Tree(t), TurnsRight(t), NEW p \in Path,
         OnlyTurns(t, Goes(t, LocationOf(p))), Goes(t, LocationOf(p)) # <<>>
  PROVE  End(t, p) = IF IsDirectory(t, Front(Goes(t, LocationOf(p))))
                     THEN Goes(t, LocationOf(p)) ELSE Nowhere
BY LocationOfType, FollowGoes DEF End

(* Directories and the symlinks of the layout stay.                        *)
Grows(t, u) ==
  /\ \A l : IsDirectory(t, l) => IsDirectory(u, l)
  /\ \A r \in Redirected : LinkAt(t, r) => LinkAt(u, r) /\ u[r] = t[r]

(* Then an entry whose directory exists stays where it is.                 *)
LEMMA GoesStays ==
  ASSUME NEW t, Tree(t), NEW u, Tree(u), Grows(t, u), NEW p \in Path,
         LocationOf(p) \notin Redirected,
         IsDirectory(t, Front(Goes(t, LocationOf(p))))
  PROVE  Goes(u, LocationOf(p)) = Goes(t, LocationOf(p))
<1> DEFINE S == Component \cup Name
           b == LocationOf(p)
<1>1. /\ b \in Location /\ b # <<>> /\ Front(b) = Components[p.dir]
      /\ Components[p.dir] \in Location
  BY LocationOfType
<1>2. b \in Seq(S) /\ Redirected \subseteq Seq(S) /\ Front(b) \in Location
  BY <1>1, LocationIs
<1> HIDE DEF S
<1>3. CASE Turns(t, b) # {}
  <2>1. PICK r \in Turns(t, b) : TRUE BY <1>3
  <2>2. r \in Redirected /\ IsPrefix(r, b) /\ LinkAt(t, r) /\ Goes(t, b) = Turned(b, r)
    BY <1>1, <2>1, GoesIs
  <2>3. LinkAt(u, r) BY <2>2 DEF Grows
  <2>4. r \in Turns(u, b) BY <2>2, <2>3 DEF Turns
  <2>5. Goes(u, b) = Turned(b, r) BY <1>1, <2>4, GoesIs
  <2> QED BY <2>2, <2>5
<1>4. CASE Turns(t, b) = {}
  <2>1. Goes(t, b) = b BY <1>1, <1>4, GoesIs
  <2>2. ASSUME NEW r \in Turns(u, b) PROVE FALSE
    <3>1. /\ r \in Redirected /\ IsPrefix(r, b) /\ LinkAt(u, r) /\ r \in Seq(S)
          /\ Len(r) <= Len(b)
      BY <1>1, <1>2, <2>2, GoesIs
    <3>2. r # b BY <3>1
    <3>3. \A i \in 1..Len(r) : r[i] = b[i] BY <1>2, <3>1, PrefixIs
    <3>4. Len(r) \in Nat /\ Len(b) \in Nat BY <1>2, <3>1, LenProperties
    <3>5. Len(r) # Len(b) BY <1>2, <3>1, <3>2, <3>3, SeqEqual
    <3>6. /\ Front(b) \in Seq(S) /\ Len(Front(b)) = Len(b) - 1
          /\ \A i \in 1..(Len(b) - 1) : Front(b)[i] = b[i]
      <4> HIDE DEF b
      <4> QED BY <1>1, <1>2, FrontIs
    <3> DEFINE f == Front(b)
               k == Len(r)
               v == SubSeq(f, 1, k)
    <3>7. k \in 0..Len(f) /\ k \in 0..(Len(b) - 1) BY <3>1, <3>4, <3>5, <3>6
    <3>8. v = r
      <4> HIDE DEF f, b
      <4>1. v \in Seq(S) /\ Len(v) = k /\ \A i \in 1..k : v[i] = f[i]
        <5> HIDE DEF k
        <5> QED BY <3>6, <3>7, PathParts DEF f
      <4>2. \A i \in 1..k : v[i] = r[i]
        <5>1. \A i \in 1..k : i \in 1..(Len(b) - 1) BY <3>4, <3>7
        <5> QED BY <3>3, <3>6, <4>1, <5>1 DEF f
      <4> HIDE DEF v
      <4> QED BY <3>1, <4>1, <4>2, SeqEqual
    <3>9. IsDirectory(t, v)
      <4> HIDE DEF k, v
      <4>1. \A j \in 0..Len(f) : IsDirectory(t, SubSeq(f, 1, j))
        BY <1>2, <2>1, DirectoriesAbove
      <4> QED BY <3>7, <4>1 DEF v
    <3>10. IsDirectory(u, r) BY <3>8, <3>9 DEF Grows
    <3>11. r \in DOMAIN u /\ u[r].kind = "link" BY <3>1 DEF LinkAt
    <3>12. r # <<>> BY <3>11, NodeType
    <3> QED BY <3>10, <3>11, <3>12, NodeKinds DEF IsDirectory
  <2>3. Goes(u, b) = b
    <3>1. Turns(u, b) = {} BY <2>2
    <3> QED BY <1>1, <3>1, GoesIs
  <2> QED BY <2>1, <2>3
<1> QED BY <1>3, <1>4

-----------------------------------------------------------------------------
(* A path that leads somewhere leads there as long as directories and      *)
(* symlinks stay and files stay files.                                     *)

Keeps(t, u) ==
  \A l \in DOMAIN t :
    /\ l \in DOMAIN u
    /\ u[l] = t[l] \/ (u[l].kind = "file" /\ t[l].kind = "file")

LEMMA LostAbroad ==
  ASSUME NEW t, Tree(t), NEW s \in WalkState, s.at \notin DOMAIN t, s.at # <<>>
  PROVE  Walks(t, FALSE)[s] \notin DOMAIN t
<1>1. ~IsDirectory(t, s.at) BY DEF IsDirectory
<1>2. Halts(t, FALSE, s) BY <1>1 DEF Halts
<1>3. Walks(t, FALSE)[s] = Reached(t, s) BY <1>2, WalksAre
<1>4. Reached(t, s) \in {s.at, Outside, Nowhere} BY DEF Reached
<1>5. Outside \notin DOMAIN t /\ Nowhere \notin DOMAIN t BY Parts, NodeType
<1> QED BY <1>3, <1>4, <1>5

LEMMA WalkKeeps ==
  ASSUME NEW t, Tree(t), NEW u, Tree(u), Keeps(t, u)
  PROVE  \A s \in WalkState :
           Walks(t, FALSE)[s] \in DOMAIN t => Walks(u, FALSE)[s] = Walks(t, FALSE)[s]
<1> DEFINE X == WalkState
           W == Walks(t, FALSE)
           V == Walks(u, FALSE)
           Stop == Stops(t, FALSE)
           next == Moves(t, FALSE)
           S == {s \in X : W[s] \in DOMAIN t => V[s] = W[s]}
<1>1. Stop \subseteq S
  <2> SUFFICES ASSUME NEW s \in X, Halts(t, FALSE, s), W[s] \in DOMAIN t
               PROVE  V[s] = W[s]
    BY DEF Stops
  <2>1. W[s] = Reached(t, s) BY WalksAre
  <2>2. Outside \notin DOMAIN t /\ Nowhere \notin DOMAIN t BY Parts, NodeType
  <2>3. s.ahead = <<>> /\ W[s] = s.at BY <2>1, <2>2 DEF Reached
  <2>4. Halts(u, FALSE, s) /\ Reached(u, s) = s.at BY <2>3 DEF Halts, Reached
  <2> QED BY <2>3, <2>4, WalksAre
<1>2. \A s \in X \ Stop : next[s] \in S => s \in S
  <2> SUFFICES ASSUME NEW s \in X \ Stop,
                      W[Advance(t, s)] \in DOMAIN t => V[Advance(t, s)] = W[Advance(t, s)],
                      W[s] \in DOMAIN t
               PROVE  V[s] = W[s]
    BY DEF Moves
  <2>1. /\ s.ahead # <<>> /\ IsDirectory(t, s.at) /\ ~Leaves(s)
        /\ ~(OnLink(t, s) /\ s.hops = 0)
    BY DEF Stops, Halts
  <2>2. W[s] = W[Advance(t, s)] BY WalksAre DEF Stops
  <2>3. V[Advance(t, s)] = W[s] BY <2>2
  <2>4. Advance(t, s) \in WalkState BY <2>1, AdvanceType
  <2>5. IsDirectory(u, s.at)
    <3>1. CASE s.at = <<>> BY <3>1 DEF IsDirectory
    <3>2. CASE s.at # <<>>
      <4>1. s.at \in DOMAIN t /\ t[s.at] = DirNode BY <2>1, <3>2 DEF IsDirectory
      <4> QED BY <4>1, NodeKinds DEF Keeps, IsDirectory
    <3> QED BY <3>1, <3>2
  <2>6. /\ OnLink(u, s) = OnLink(t, s)
        /\ OnLink(t, s) => u[Here(s)] = t[Here(s)]
    <3>1. CASE Head(s.ahead) = ".." BY <3>1 DEF OnLink
    <3>2. CASE Head(s.ahead) # ".." /\ Here(s) \in DOMAIN t
      BY <3>2 DEF Keeps, OnLink
    <3>3. CASE Head(s.ahead) # ".." /\ Here(s) \notin DOMAIN t
      <4>1. ~OnLink(t, s) BY <3>3 DEF OnLink
      <4>2. Advance(t, s).at = Here(s)
        <5>1. s = [hops |-> s.hops, at |-> s.at, ahead |-> s.ahead] BY DEF WalkState
        <5> QED BY <3>3, <4>1, <5>1 DEF Advance, Leaves
      <4>3. Here(s) # <<>>
        <5>1. s.at \in Location /\ s.ahead \in RelPath BY DEF WalkState
        <5>2. s.at \in Seq(Component \cup Name \cup {".."})
              /\ Head(s.ahead) \in Component \cup Name \cup {".."}
          BY <2>1, <5>1, HeadTailProperties, Parts DEF RelPath
        <5>3. Here(s) = Append(s.at, Head(s.ahead)) BY DEF Here
        <5> QED BY ONLY <5>2, <5>3, AppendProperties
      <4>4. W[Advance(t, s)] \notin DOMAIN t
        BY <2>4, <3>3, <4>2, <4>3, LostAbroad
      <4> QED BY <2>2, <4>4
    <3> QED BY <3>1, <3>2, <3>3
  <2>7. Advance(u, s) = Advance(t, s)
    <3>1. CASE OnLink(t, s)
      <4>1. OnLink(u, s) /\ u[Here(s)].to = t[Here(s)].to BY <2>6, <3>1
      <4> QED BY <3>1, <4>1 DEF Advance
    <3>2. CASE ~OnLink(t, s)
      <4>1. ~OnLink(u, s) BY <2>6, <3>2
      <4> QED BY <3>2, <4>1 DEF Advance
    <3> QED BY <3>1, <3>2
  <2>8. ~Halts(u, FALSE, s) BY <2>1, <2>5, <2>6 DEF Halts
  <2>9. V[s] = V[Advance(u, s)] BY <2>8, WalksAre
  <2> QED BY <2>3, <2>7, <2>9
<1>3. Descends(X, Stop, next, HopsOf, AheadOf) BY WalkDescends
<1>4. X \subseteq S
  <2> HIDE DEF X, Stop, S, next
  <2> QED BY <1>1, <1>2, <1>3, WalkInduction
<1> QED BY <1>4

LEMMA FollowKeeps ==
  ASSUME NEW t, Tree(t), NEW u, Tree(u), Keeps(t, u), NEW q \in RelPath,
         Follow(t, q) \in DOMAIN t
  PROVE  Follow(u, q) = Follow(t, q) /\ Follow(u, q) \in DOMAIN u
<1> DEFINE s == [hops |-> MaxHops, at |-> <<>>, ahead |-> q]
<1>1. s \in WalkState
  BY EmptyLocation, GeographyAssumption DEF WalkState
<1>2. Follow(t, q) = Walks(t, FALSE)[s] /\ Follow(u, q) = Walks(u, FALSE)[s]
  BY DEF Follow, Walking
<1> HIDE DEF s
<1>3. Follow(u, q) = Follow(t, q) BY <1>1, <1>2, WalkKeeps
<1> QED BY <1>3 DEF Keeps

LEMMA SpotType ==
  ASSUME NEW path \in Location PROVE Spots(path) \subseteq Location
<1> DEFINE S == Component \cup Name
<1>1. path \in Seq(S) /\ "lib64" \in S /\ Redirected \subseteq Seq(S) BY LocationIs
<1> HIDE DEF S
<1>2. ASSUME NEW r \in Redirected, IsPrefix(r, path) PROVE Turned(path, r) \in Seq(S)
  <2>1. r \in Seq(S) /\ Len(r) <= Len(path) BY <1>1, <1>2, PrefixIs
  <2> QED BY <1>1, <2>1, TurnedParts
<1> QED BY <1>1, <1>2, LocationIs DEF Spots, S

LEMMA OnlyTurnsBelow ==
  ASSUME NEW t, NEW g \in Location, g # <<>>, OnlyTurns(t, Front(g)), ~LinkAt(t, g)
  PROVE  OnlyTurns(t, g)
<1> DEFINE S == Component \cup Name
           f == Front(g)
<1>1. g \in Seq(S) BY LocationIs
<1> HIDE DEF S
<1>2. /\ Len(g) \in Nat \ {0} /\ f \in Seq(S) /\ Len(f) = Len(g) - 1
      /\ \A i \in 1..(Len(g) - 1) : f[i] = g[i]
  BY <1>1, FrontIs
<1> HIDE DEF f
<1> SUFFICES ASSUME NEW k \in 1..Len(g), LinkAt(t, SubSeq(g, 1, k))
             PROVE  SubSeq(g, 1, k) \in Redirected
  BY DEF OnlyTurns
<1>3. CASE k = Len(g)
  <2>1. k \in 0..Len(g) BY <1>2
  <2> QED BY <1>1, <1>3, <2>1, PathParts
<1>4. CASE k # Len(g)
  <2>1. k \in 0..Len(g) /\ k \in 0..Len(f) /\ k \in 1..Len(f) /\ k \in 1..(Len(g) - 1)
    BY <1>2, <1>4
  <2> DEFINE v == SubSeq(g, 1, k)
             w == SubSeq(f, 1, k)
  <2>2. v \in Seq(S) /\ Len(v) = k /\ \A i \in 1..k : v[i] = g[i]
    BY <1>1, <2>1, PathParts
  <2>3. w \in Seq(S) /\ Len(w) = k /\ \A i \in 1..k : w[i] = f[i]
    BY <1>2, <2>1, PathParts
  <2>4. \A i \in 1..k : i \in 1..(Len(g) - 1) BY <1>2, <2>1
  <2> HIDE DEF v, w
  <2>5. v = w BY <1>2, <2>2, <2>3, <2>4, SeqEqual
  <2> QED BY <2>1, <2>5 DEF v, w, OnlyTurns, f
<1> QED BY <1>3, <1>4

-----------------------------------------------------------------------------
(* What each operation changes, place by place.                            *)

Extends(t, u) == \A l \in DOMAIN t : l \in DOMAIN u /\ u[l] = t[l]

LayoutNode(u, l) ==
  \/ u[l] = DirNode /\ l \in LayoutPlaces
  \/ /\ IsDirectory(u, <<"lib64">>)
     /\ \E link \in ToSet(CompatibilitySymlinks(FlatLib64)) :
          l = link.at /\ u[l] = LinkNode(link.to)

LEMMA StepKinds ==
  \A step \in ToSet(BootstrapSteps(FlatLib64)) :
    \/ step[2] = DirNode /\ step[1] \in LayoutPlaces
    \/ \E link \in ToSet(CompatibilitySymlinks(FlatLib64)) :
         step[1] = link.at /\ step[2] = LinkNode(link.to)
<1> DEFINE B == BootstrapSteps(FlatLib64)
<1>1. ToSet(B) = {B[1], B[2], B[3], B[4], B[5], B[6]}
  <2>1. DOMAIN B = 1..6 BY StepsAre
  <2>2. \A i \in 1..6 : i \in {1, 2, 3, 4, 5, 6} OBVIOUS
  <2> HIDE DEF B
  <2> QED BY <2>1, <2>2 DEF ToSet
<1> HIDE DEF B
<1>2. /\ B[1][2] = DirNode /\ B[1][1] \in LayoutPlaces
      /\ B[2][2] = DirNode /\ B[2][1] \in LayoutPlaces
      /\ B[3][2] = DirNode /\ B[3][1] \in LayoutPlaces
  BY StepsAre, LayoutParts DEF B
<1>3. /\ B[4][1] = <<"lib">> /\ B[4][2] = LinkNode(<<"lib64">>)
      /\ B[5][1] = <<"usr", "lib">> /\ B[5][2] = LinkNode(<<"..", "lib64">>)
      /\ B[6][1] = <<"usr", "lib64">> /\ B[6][2] = LinkNode(<<"..", "lib64">>)
  BY StepsAre DEF B
<1>4. ASSUME NEW at, NEW to,
             [at |-> at, to |-> to] \in ToSet(CompatibilitySymlinks(FlatLib64))
      PROVE  \E link \in ToSet(CompatibilitySymlinks(FlatLib64)) :
               at = link.at /\ LinkNode(to) = LinkNode(link.to)
  <2> DEFINE link == [at |-> at, to |-> to]
  <2>1. link.at = at /\ link.to = to OBVIOUS
  <2> QED BY <1>4, <2>1
<1>5. /\ [at |-> <<"lib">>, to |-> <<"lib64">>] \in ToSet(CompatibilitySymlinks(FlatLib64))
      /\ [at |-> <<"usr", "lib">>, to |-> <<"..", "lib64">>] \in ToSet(CompatibilitySymlinks(FlatLib64))
      /\ [at |-> <<"usr", "lib64">>, to |-> <<"..", "lib64">>] \in ToSet(CompatibilitySymlinks(FlatLib64))
  BY LayoutParts
<1> DEFINE OfLink(step) ==
       \E link \in ToSet(CompatibilitySymlinks(FlatLib64)) :
         step[1] = link.at /\ step[2] = LinkNode(link.to)
<1>6. OfLink(B[4]) BY <1>3, <1>4, <1>5
<1>7. OfLink(B[5]) BY <1>3, <1>4, <1>5
<1>8. OfLink(B[6]) BY <1>3, <1>4, <1>5
<1>9. \A step \in ToSet(B) : (step[2] = DirNode /\ step[1] \in LayoutPlaces) \/ OfLink(step)
  <2> HIDE DEF OfLink
  <2> QED BY <1>1, <1>2, <1>6, <1>7, <1>8
<1> QED BY <1>9 DEF B

LEMMA FirstLinks ==
  ASSUME NEW n \in 0..6,
         NEW step, step \in ToSet(SubSeq(BootstrapSteps(FlatLib64), 1, n)),
         step[2] # DirNode
  PROVE  <<<<"lib64">>, DirNode>> \in ToSet(SubSeq(BootstrapSteps(FlatLib64), 1, n))
<1> DEFINE B == BootstrapSteps(FlatLib64)
           P == SubSeq(B, 1, n)
           S == {<<"bin">>, <<"lib64">>, <<"usr">>, <<"lib">>, <<"usr", "lib">>, <<"usr", "lib64">>}
                  \X {DirNode, LinkNode(<<"lib64">>), LinkNode(<<"..", "lib64">>)}
<1>1. B \in Seq(S) /\ Len(B) = 6 /\ n \in 0..Len(B) BY StepsAre
<1>2. Len(P) = n /\ P \in Seq(S) /\ \A i \in 1..n : P[i] = B[i]
  <2> HIDE DEF S, B
  <2> QED BY <1>1, PathParts
<1>3. ToSet(P) = {B[i] : i \in 1..n}
  <2> HIDE DEF S, B, P
  <2>1. DOMAIN P = 1..n BY <1>2
  <2> QED BY <1>2, <2>1 DEF ToSet
<1> HIDE DEF P, S
<1>4. PICK i \in 1..n : step = B[i]
  <2>1. step \in ToSet(P) BY DEF P
  <2> HIDE DEF B
  <2> QED BY <1>3, <2>1
<1>5. B[1][2] = DirNode /\ B[2] = <<<<"lib64">>, DirNode>> BY StepsAre
<1> HIDE DEF B
<1>6. i # 1 BY <1>4, <1>5
<1>7. 2 \in 1..n BY <1>6
<1>8. B[2] \in ToSet(P) BY <1>3, <1>7
<1> QED BY <1>5, <1>8 DEF P, B

LEMMA EnsuredNodes ==
  ASSUME NEW t, Tree(t), Bootable(t, FlatLib64), NEW n \in 0..6
  PROVE  LET u == Ensured(t, SubSeq(BootstrapSteps(FlatLib64), 1, n))
         IN  Extends(t, u) /\ \A l \in DOMAIN u \ DOMAIN t : LayoutNode(u, l)
<1> DEFINE steps == SubSeq(BootstrapSteps(FlatLib64), 1, n)
           u == Ensured(t, steps)
<1>1. OfBootstrap(steps) BY FirstSteps DEF OfBootstrap
<1> DEFINE lib64 == <<<<"lib64">>, DirNode>>
<1>2. \A step \in ToSet(steps) : step[2] # DirNode => lib64 \in ToSet(steps)
  <2> SUFFICES ASSUME NEW step, step \in ToSet(steps), step[2] # DirNode
               PROVE  lib64 \in ToSet(steps)
    OBVIOUS
  <2> QED BY FirstLinks
<1> HIDE DEF steps
<1>3. /\ DOMAIN u = DOMAIN t \cup StepPlaces(steps)
      /\ \A k \in DOMAIN t : u[k] = t[k]
  BY EnsuredIs
<1>4. ASSUME NEW step, step \in ToSet(steps), step[1] \notin DOMAIN t
      PROVE  u[step[1]] = step[2]
  BY <1>1, <1>4, EnsuredNew
<1> HIDE DEF u
<1>5. lib64 \in ToSet(steps) => IsDirectory(u, <<"lib64">>)
  <2> SUFFICES ASSUME lib64 \in ToSet(steps) PROVE IsDirectory(u, <<"lib64">>) OBVIOUS
  <2>1. lib64[1] = <<"lib64">> /\ lib64[2] = DirNode OBVIOUS
  <2> HIDE DEF lib64
  <2>2. <<"lib64">> \in DOMAIN u BY <1>3, <2>1 DEF StepPlaces
  <2>3. <<"lib64">> \in DOMAIN t => t[<<"lib64">>] = DirNode
    <3>1. <<"lib64">> \in ToSet(CompatibilityDirectories(FlatLib64))
      BY DEF CompatibilityDirectories, ToSet
    <3> QED BY <3>1 DEF Bootable
  <2>4. u[<<"lib64">>] = DirNode BY <1>3, <1>4, <2>1, <2>3
  <2> QED BY <2>2, <2>4 DEF IsDirectory
<1> HIDE DEF lib64
<1>6. ASSUME NEW l \in DOMAIN u \ DOMAIN t PROVE LayoutNode(u, l)
  <2>1. PICK step \in ToSet(steps) : l = step[1] BY <1>3 DEF StepPlaces
  <2>2. u[l] = step[2] BY <1>4, <2>1
  <2>3. step \in ToSet(BootstrapSteps(FlatLib64)) BY <1>1, <2>1 DEF OfBootstrap
  <2>4. CASE step[2] = DirNode /\ step[1] \in LayoutPlaces
    BY <2>1, <2>2, <2>4 DEF LayoutNode
  <2>5. CASE \E link \in ToSet(CompatibilitySymlinks(FlatLib64)) :
               step[1] = link.at /\ step[2] = LinkNode(link.to)
    <3>1. step[2] # DirNode BY <2>5 DEF LinkNode, DirNode
    <3>2. IsDirectory(u, <<"lib64">>) BY <1>2, <1>5, <2>1, <3>1
    <3> QED BY <2>1, <2>2, <2>5, <3>2 DEF LayoutNode
  <2> QED BY <2>3, <2>4, <2>5, StepKinds
<1>7. Extends(t, u) BY <1>3 DEF Extends
<1> QED BY <1>6, <1>7 DEF u, steps

LEMMA BootstrapNodes ==
  ASSUME NEW t, Tree(t), NEW p \in Policy,
         NEW u, u = Bootstrap(t, p) \/ u \in BootstrapCut(t, p)
  PROVE  /\ Tree(u) /\ Extends(t, u)
         /\ \A l \in DOMAIN u \ DOMAIN t : LayoutNode(u, l) /\ p = FlatLib64
<1> DEFINE B == BootstrapSteps(FlatLib64)
<1>1. Tree(u) BY BootstrapTree
<1>2. CASE p = PreserveSourceTree
  <2>1. BootstrapSteps(p) = <<>> BY <1>2, StepsAre
  <2>2. ToSet(<<>>) = {} BY DEF ToSet
  <2>3. DOMAIN Ensured(t, <<>>) = DOMAIN t /\ Extends(t, Ensured(t, <<>>))
    <3>1. /\ DOMAIN Ensured(t, <<>>) = DOMAIN t \cup StepPlaces(<<>>)
          /\ \A k \in DOMAIN t : Ensured(t, <<>>)[k] = t[k]
      BY EnsuredIs
    <3>2. StepPlaces(<<>>) = {} BY <2>2 DEF StepPlaces
    <3> DEFINE v == Ensured(t, <<>>)
    <3>3. DOMAIN v = DOMAIN t /\ \A k \in DOMAIN t : v[k] = t[k] BY <3>1, <3>2
    <3> HIDE DEF v
    <3>4. DOMAIN v = DOMAIN t /\ Extends(t, v) BY <3>3 DEF Extends
    <3> QED BY <3>4 DEF v
  <2>4. Prefixes(<<>>) = {<<>>}
    <3>1. Len(<<>>) = 0 /\ SubSeq(<<>>, 1, 0) = <<>> BY SubSeqEmpty
    <3>2. 0..0 = {0} OBVIOUS
    <3> QED BY <3>1, <3>2 DEF Prefixes
  <2>5. u \in {t, Ensured(t, <<>>)} BY <2>1, <2>4 DEF Bootstrap, BootstrapCut
  <2> QED BY <1>1, <2>3, <2>5 DEF Extends
<1>3. CASE p = FlatLib64 /\ Bootable(t, p)
  <2>1. ASSUME NEW n \in 0..6
        PROVE  /\ Extends(t, Ensured(t, SubSeq(B, 1, n)))
               /\ \A l \in DOMAIN Ensured(t, SubSeq(B, 1, n)) \ DOMAIN t :
                    LayoutNode(Ensured(t, SubSeq(B, 1, n)), l)
    BY <1>3, EnsuredNodes
  <2>2. SubSeq(B, 1, 6) = B
    <3> DEFINE T == {<<"bin">>, <<"lib64">>, <<"usr">>, <<"lib">>, <<"usr", "lib">>, <<"usr", "lib64">>}
                  \X {DirNode, LinkNode(<<"lib64">>), LinkNode(<<"..", "lib64">>)}
    <3>1. B \in Seq(T) /\ Len(B) = 6 BY StepsAre
    <3> HIDE DEF T, B
    <3> QED BY <3>1, PathParts
  <2>3. Len(B) = 6 BY StepsAre
  <2>4. Bootstrap(t, p) = Ensured(t, B) BY <1>3 DEF Bootstrap
  <2>5. BootstrapCut(t, p) = {t} \cup {Ensured(t, SubSeq(B, 1, n)) : n \in 0..6}
    <3>1. Prefixes(B) = {SubSeq(B, 1, n) : n \in 0..6} BY <2>3 DEF Prefixes
    <3>2. BootstrapCut(t, p) = {t} \cup {Ensured(t, steps) : steps \in Prefixes(B)}
      BY <1>3 DEF BootstrapCut
    <3> HIDE DEF B
    <3> QED BY <3>1, <3>2
  <2>6. 6 \in 0..6 OBVIOUS
  <2> HIDE DEF B
  <2>7. CASE u = t BY <1>1, <2>7 DEF Extends
  <2>8. CASE \E n \in 0..6 : u = Ensured(t, SubSeq(B, 1, n))
    BY <1>1, <1>3, <2>1, <2>8
  <2> QED BY <2>2, <2>4, <2>5, <2>6, <2>7, <2>8
<1>4. CASE ~Bootable(t, p)
  <2>1. u = t BY <1>4 DEF Bootstrap, BootstrapCut
  <2> QED BY <1>1, <2>1 DEF Extends
<1> QED BY <1>2, <1>3, <1>4 DEF Policy

LEMMA MakeNodes ==
  ASSUME NEW t, Tree(t), NEW path \in Location
  PROVE  LET u == MakeDirectories(t, path)
         IN  /\ Tree(u) /\ Extends(t, u)
             /\ \A l \in DOMAIN u \ DOMAIN t :
                  u[l] = DirNode /\ l \in Prefixes(MadeAt(t, path))
<1> DEFINE u == MakeDirectories(t, path)
           g == MadeAt(t, path)
           new == [l \in Prefixes(g) \ {<<>>} |-> DirNode]
<1>1. Tree(u) BY MakeTree
<1>2. CASE Obstructed(t, path)
  <2>1. u = t BY <1>2 DEF MakeDirectories
  <2> QED BY <1>1, <2>1 DEF Extends
<1>3. CASE ~Obstructed(t, path)
  <2>1. u = Added(t, new) BY <1>3 DEF MakeDirectories
  <2>2. /\ DOMAIN u = DOMAIN t \cup (Prefixes(g) \ {<<>>})
        /\ \A k \in DOMAIN t : u[k] = t[k]
        /\ \A k \in (Prefixes(g) \ {<<>>}) \ DOMAIN t : u[k] = DirNode
    BY <2>1 DEF Added
  <2> HIDE DEF u, g, new
  <2>3. Extends(t, u) BY <2>2 DEF Extends
  <2>4. \A l \in DOMAIN u \ DOMAIN t : u[l] = DirNode /\ l \in Prefixes(g) BY <2>2
  <2> QED BY <1>1, <2>3, <2>4 DEF u, g
<1> QED BY <1>2, <1>3

LEMMA WriteNodes ==
  ASSUME NEW t, Tree(t), NEW p \in Path, NEW file \in BundleFile
  PROVE  LET u == WriteAt(t, p, file)
         IN  /\ Tree(u) /\ Keeps(t, u)
             /\ \A l \in DOMAIN u :
                  \/ l \in DOMAIN t /\ u[l] = t[l]
                  \/ l = End(t, p) /\ u[l] = file
             /\ Writable(t, p) => End(t, p) \in DOMAIN u /\ u[End(t, p)] = file
<1> DEFINE u == WriteAt(t, p, file)
           e == End(t, p)
<1>1. Tree(u) BY WriteTree
<1>2. CASE ~Writable(t, p)
  <2>1. u = t BY <1>2 DEF WriteAt
  <2> QED BY <1>1, <1>2, <2>1 DEF Keeps
<1>3. CASE Writable(t, p)
  <2>1. u = Put(t, e, file) BY <1>3 DEF WriteAt
  <2>2. /\ DOMAIN u = DOMAIN t \cup {e} /\ u[e] = file
        /\ \A k \in DOMAIN t \ {e} : u[k] = t[k]
    BY <2>1 DEF Put
  <2>3. file.kind = "file" BY NodeKinds
  <2>4. e \in DOMAIN t => t[e].kind = "file"
    <3>1. /\ ~IsDirectory(t, e) /\ ~LinkAt(t, e) /\ e # <<>> BY <1>3, EndType
    <3> HIDE DEF e
    <3> QED BY <3>1, NodeType DEF IsDirectory, LinkAt
  <2> HIDE DEF u, e
  <2>5. Keeps(t, u) BY <2>2, <2>3, <2>4 DEF Keeps
  <2>6. \A l \in DOMAIN u : (l \in DOMAIN t /\ u[l] = t[l]) \/ (l = e /\ u[l] = file)
    BY <2>2
  <2> QED BY <1>1, <2>2, <2>5, <2>6 DEF u, e
<1> QED BY <1>2, <1>3

LEMMA LinkNodes ==
  ASSUME NEW t, Tree(t), NEW p \in Path, NEW q \in Path
  PROVE  LET u == SymlinkTo(t, p, q)
             r == Removed(t, p)
         IN  /\ Tree(u) /\ Tree(r)
             /\ \A l \in DOMAIN t : l # Place(t, p) => /\ l \in DOMAIN u /\ u[l] = t[l]
                                                       /\ l \in DOMAIN r /\ r[l] = t[l]
             /\ \A l \in DOMAIN u :
                  \/ l \in DOMAIN t /\ u[l] = t[l]
                  \/ /\ Linkable(t, p)
                     /\ l = Place(t, p) /\ u[l] = LinkNode(LinkText(p, q))
             /\ \A l \in DOMAIN r : l \in DOMAIN t /\ r[l] = t[l]
             /\ Linkable(t, p) => /\ Place(t, p) \in DOMAIN u
                                  /\ u[Place(t, p)] = LinkNode(LinkText(p, q))
             /\ ~Linkable(t, p) => u = t /\ r = t
<1> DEFINE u == SymlinkTo(t, p, q)
           r == Removed(t, p)
           e == Place(t, p)
           n == LinkNode(LinkText(p, q))
<1>1. Tree(u) /\ Tree(r) BY LinkTree
<1>2. CASE ~Linkable(t, p)
  <2>1. u = t /\ r = t BY <1>2 DEF SymlinkTo, Removed
  <2> QED BY <1>1, <1>2, <2>1
<1>3. CASE Linkable(t, p)
  <2>1. u = Put(t, e, n) /\ r = [l \in DOMAIN t \ {e} |-> t[l]]
    BY <1>3 DEF SymlinkTo, Removed
  <2>2. DOMAIN u = DOMAIN t \cup {e} /\ u[e] = n /\ \A k \in DOMAIN t \ {e} : u[k] = t[k]
    BY <2>1 DEF Put
  <2>3. DOMAIN r = DOMAIN t \ {e} /\ \A k \in DOMAIN t \ {e} : r[k] = t[k] BY <2>1
  <2> HIDE DEF u, r, e, n
  <2>4. \A l \in DOMAIN u : (l \in DOMAIN t /\ u[l] = t[l]) \/ (l = e /\ u[l] = n) BY <2>2
  <2>5. \A l \in DOMAIN t : l # e => /\ l \in DOMAIN u /\ u[l] = t[l]
                                     /\ l \in DOMAIN r /\ r[l] = t[l]
    BY <2>2, <2>3
  <2>6. \A l \in DOMAIN r : l \in DOMAIN t /\ r[l] = t[l] BY <2>3
  <2> QED BY <1>1, <1>3, <2>2, <2>4, <2>5, <2>6 DEF u, r, e, n
<1> QED BY <1>2, <1>3

-----------------------------------------------------------------------------
(* Where relative texts lead.                                              *)

LEMMA ThroughDirectories ==
  ASSUME NEW t, Tree(t), NEW h \in 0..MaxHops, NEW g \in Location,
         NEW n \in 0..Len(g), IsDirectory(t, SubSeq(g, 1, n))
  PROVE  From(t, h, <<>>, g) = From(t, h, SubSeq(g, 1, n), SubSeq(g, n + 1, Len(g)))
<1> DEFINE S == Component \cup Name
           d == SubSeq(g, 1, n)
<1>1. g \in Seq(S) /\ Len(g) \in Nat BY LenProperties DEF Location
<1>2. d \in Seq(S) /\ Len(d) = n
  <2> HIDE DEF S
  <2> QED BY <1>1, PathParts
<1>3. ASSUME NEW k \in 0..n PROVE IsDirectory(t, SubSeq(g, 1, k))
  <2>1. d \in Location BY <1>2 DEF Location
  <2>2. SubSeq(d, 1, k) = SubSeq(g, 1, k)
    <3> HIDE DEF S
    <3> QED BY <1>1, PrefixOfPrefix
  <2> HIDE DEF d
  <2> QED BY <1>2, <2>1, <2>2, DirectoriesAbove DEF d
<1>4. ASSUME NEW k \in 0..(n - 1)
      PROVE  IsDirectory(t, SubSeq(g, 1, k)) /\ ~LinkAt(t, SubSeq(g, 1, k + 1))
  <2>1. k \in 0..n /\ k + 1 \in 0..n BY <1>1
  <2>2. IsDirectory(t, SubSeq(g, 1, k)) /\ IsDirectory(t, SubSeq(g, 1, k + 1))
    BY <1>3, <2>1
  <2> QED BY <2>2, NodeType, NodeKinds DEF IsDirectory, LinkAt
<1> QED BY <1>4, GoesDown

Ups(m) == [i \in 1..m |-> ".."]

LEMMA OneMoreUp ==
  ASSUME NEW m \in Nat, NEW q \in RelPath
  PROVE  /\ <<"..">> \o q \in RelPath /\ <<"..">> \o q # <<>>
         /\ Head(<<"..">> \o q) = ".." /\ Tail(<<"..">> \o q) = q
         /\ Ups(m + 1) \o q = Ups(m) \o (<<"..">> \o q)
<1> DEFINE R == Component \cup Name \cup {".."}
           u == <<"..">> \o q
<1>1. q \in Seq(R) /\ <<"..">> \in Seq(R) /\ Len(q) \in Nat /\ ".." \in R
  BY LenProperties DEF RelPath
<1> HIDE DEF R
<1>2. /\ u \in Seq(R) /\ Len(u) = Len(q) + 1 /\ u[1] = ".."
      /\ \A i \in 2..(Len(q) + 1) : u[i] = q[i - 1]
  BY <1>1
<1>3. ASSUME NEW n \in Nat
      PROVE  /\ Ups(n) \in Seq(R) /\ Len(Ups(n)) = n
             /\ \A i \in 1..n : Ups(n)[i] = ".."
  BY <1>1 DEF Ups
<1>4. u # <<>> /\ Head(u) = ".." /\ Tail(u) = q BY <1>1, <1>2
<1>5. Ups(m + 1) \o q = Ups(m) \o u
  <2> HIDE DEF u
  <2> DEFINE v == Ups(m + 1) \o q
             w == Ups(m) \o u
  <2>1. /\ v \in Seq(R) /\ Len(v) = m + 1 + Len(q)
        /\ \A i \in 1..(m + 1 + Len(q)) :
             v[i] = IF i <= m + 1 THEN ".." ELSE q[i - (m + 1)]
    <3> DEFINE a == Ups(m + 1)
    <3>1. a \in Seq(R) /\ Len(a) = m + 1 /\ \A i \in 1..(m + 1) : a[i] = ".."
      BY <1>3
    <3> HIDE DEF a
    <3>2. /\ a \o q \in Seq(R) /\ Len(a \o q) = Len(a) + Len(q)
          /\ \A i \in 1..(Len(a) + Len(q)) :
               (a \o q)[i] = IF i <= Len(a) THEN a[i] ELSE q[i - Len(a)]
      BY <1>1, <3>1, ConcatProperties
    <3> QED BY <1>1, <3>1, <3>2 DEF a
  <2>2. /\ w \in Seq(R) /\ Len(w) = m + 1 + Len(q)
        /\ \A i \in 1..(m + 1 + Len(q)) :
             w[i] = IF i <= m THEN ".." ELSE u[i - m]
    <3> DEFINE a == Ups(m)
    <3>1. a \in Seq(R) /\ Len(a) = m /\ \A i \in 1..m : a[i] = ".."
      BY <1>3
    <3> HIDE DEF a
    <3>2. /\ a \o u \in Seq(R) /\ Len(a \o u) = Len(a) + Len(u)
          /\ \A i \in 1..(Len(a) + Len(u)) :
               (a \o u)[i] = IF i <= Len(a) THEN a[i] ELSE u[i - Len(a)]
      BY <1>2, <3>1, ConcatProperties
    <3> QED BY <1>1, <1>2, <3>1, <3>2 DEF a
  <2> HIDE DEF v, w
  <2>3. ASSUME NEW i \in 1..(m + 1 + Len(q)) PROVE v[i] = w[i]
    <3>1. CASE i <= m BY <2>1, <2>2, <3>1
    <3>2. CASE i = m + 1 BY <1>2, <2>1, <2>2, <3>2
    <3>3. CASE i > m + 1
      <4>1. PICK j \in 2..(Len(q) + 1) : j = i - m /\ j - 1 = i - (m + 1)
        BY <1>1, <3>3
      <4>2. v[i] = q[j - 1] BY <2>1, <3>3, <4>1
      <4>3. w[i] = u[j] BY <2>2, <3>3, <4>1
      <4> QED BY <1>2, <4>2, <4>3
    <3> QED BY <3>1, <3>2, <3>3
  <2>4. v = w BY <2>1, <2>2, <2>3, SeqEqual
  <2> QED BY <2>4 DEF v, w
<1>6. u \in RelPath BY <1>2 DEF RelPath, R
<1> QED BY <1>4, <1>5, <1>6

LEMMA ClimbsUp ==
  ASSUME NEW t, Tree(t), NEW h \in 0..MaxHops, NEW d \in Location,
         IsDirectory(t, d), NEW n \in 0..Len(d), NEW rest0 \in RelPath
  PROVE  From(t, h, d, Ups(Len(d) - n) \o rest0) = From(t, h, SubSeq(d, 1, n), rest0)
<1> DEFINE S == Component \cup Name
           L == Len(d)
           Q == {m \in Nat : m <= L => \A q \in RelPath :
                   From(t, h, d, Ups(m) \o q) = From(t, h, SubSeq(d, 1, L - m), q)}
<1>1. d \in Seq(S) /\ L \in Nat BY LenProperties DEF Location
<1>2. 0 \in Q
  <2>1. SubSeq(d, 1, L - 0) = d
    <3> HIDE DEF S
    <3> QED BY <1>1, SubSeqFull
  <2>2. ASSUME NEW q \in RelPath PROVE Ups(0) \o q = q
    <3>1. Ups(0) = <<>> BY DEF Ups
    <3> QED BY <3>1 DEF RelPath
  <2> QED BY <2>1, <2>2
<1>3. ASSUME NEW m \in Nat, m \in Q PROVE m + 1 \in Q
  <2> SUFFICES ASSUME m + 1 <= L, NEW q \in RelPath
               PROVE  From(t, h, d, Ups(m + 1) \o q)
                        = From(t, h, SubSeq(d, 1, L - (m + 1)), q)
    OBVIOUS
  <2> DEFINE u == <<"..">> \o q
             k == L - (m + 1)
  <2>1. u \in RelPath /\ u # <<>> /\ Head(u) = ".." /\ Tail(u) = q
        /\ Ups(m + 1) \o q = Ups(m) \o u
    BY OneMoreUp
  <2> HIDE DEF u
  <2>2. From(t, h, d, Ups(m) \o u) = From(t, h, SubSeq(d, 1, L - m), u)
    BY <1>1, <1>3, <2>1
  <2>3. k \in 0..(L - 1) /\ k + 1 = L - m /\ k + 1 \in 0..L BY <1>1
  <2>4. IsDirectory(t, SubSeq(d, 1, k + 1)) BY <2>3, DirectoriesAbove
  <2> HIDE DEF k
  <2>5. /\ SubSeq(d, 1, k + 1) # <<>> /\ SubSeq(d, 1, k + 1) \in Seq(S)
        /\ Front(SubSeq(d, 1, k + 1)) = SubSeq(d, 1, k)
    <3> HIDE DEF S
    <3>1. SubSeq(d, 1, k + 1) \in Seq(S) BY <1>1, <2>3, PathParts
    <3> QED BY <1>1, <2>3, <3>1, NextPart
  <2>6. SubSeq(d, 1, k + 1) \in Location BY <2>5 DEF Location
  <2>7. From(t, h, SubSeq(d, 1, k + 1), u) = From(t, h, SubSeq(d, 1, k), q)
    <3>1. PICK v : v = SubSeq(d, 1, k + 1) OBVIOUS
    <3>2. v \in Location /\ v # <<>> /\ IsDirectory(t, v) BY <2>4, <2>5, <2>6, <3>1
    <3>3. From(t, h, v, u) = From(t, h, Front(v), Tail(u)) BY <2>1, <3>2, StepUp
    <3> QED BY <2>1, <2>5, <3>1, <3>3
  <2> QED BY <2>1, <2>2, <2>3, <2>7 DEF k
<1> HIDE DEF Q
<1>4. Nat \subseteq Q BY <1>2, <1>3, NatSet
<1>5. L - n \in Nat /\ L - n <= L /\ L - (L - n) = n BY <1>1
<1> QED BY <1>4, <1>5 DEF Q

(* A relative text leads from its directory to where the path leads from   *)
(* the top.                                                                *)
LEMMA RelativeLeads ==
  ASSUME NEW t, Tree(t), NEW h \in 0..MaxHops, NEW d \in Location,
         IsDirectory(t, d), NEW to \in Location
  PROVE  From(t, h, d, Relative(to, d)) = From(t, h, <<>>, to)
<1> DEFINE S == Component \cup Name
<1>1. d \in Seq(S) /\ Len(d) \in Nat /\ to \in Seq(S) /\ Len(to) \in Nat
  BY LenProperties DEF Location
<1>2. PICK m \in 0..Len(d) :
        /\ m <= Len(to) /\ SubSeq(d, 1, m) = SubSeq(to, 1, m)
        /\ Relative(to, d) = Ups(Len(d) - m) \o SubSeq(to, m + 1, Len(to))
  BY RelativeIs DEF Ups
<1> DEFINE q == SubSeq(to, m + 1, Len(to))
<1>3. m \in 0..Len(to) BY <1>1, <1>2
<1>4. q \in Seq(S)
  <2> HIDE DEF S
  <2> QED BY <1>1, <1>3, PathParts
<1>5. q \in RelPath BY <1>4, Parts DEF Location
<1> HIDE DEF q
<1>6. From(t, h, d, Relative(to, d)) = From(t, h, SubSeq(d, 1, m), q)
  BY <1>2, <1>5, ClimbsUp DEF q
<1>7. IsDirectory(t, SubSeq(to, 1, m)) BY <1>2, DirectoriesAbove
<1>8. From(t, h, <<>>, to) = From(t, h, SubSeq(to, 1, m), q)
  BY <1>3, <1>7, ThroughDirectories DEF q
<1> QED BY <1>2, <1>6, <1>8

(* A walk that ends in the root never was at its top with ".." ahead: a     *)
(* chroot makes no difference to it.                                        *)
LEMMA ChrootSame ==
  ASSUME NEW t, Tree(t)
  PROVE  \A s \in WalkState :
           Walks(t, FALSE)[s] \in Location => Walks(t, TRUE)[s] = Walks(t, FALSE)[s]
<1> DEFINE X == WalkState
           W == Walks(t, FALSE)
           V == Walks(t, TRUE)
           Stop == Stops(t, FALSE)
           next == Moves(t, FALSE)
           S == {s \in X : W[s] \in Location => V[s] = W[s]}
<1>1. Stop \subseteq S
  <2> SUFFICES ASSUME NEW s \in X, Halts(t, FALSE, s), W[s] \in Location
               PROVE  V[s] = W[s]
    BY DEF Stops
  <2>1. W[s] = Reached(t, s) BY WalksAre
  <2>2. s.ahead = <<>> BY <2>1, Parts DEF Reached
  <2>3. Halts(t, TRUE, s) BY <2>2 DEF Halts
  <2> QED BY <2>1, <2>3, WalksAre
<1>2. \A s \in X \ Stop : next[s] \in S => s \in S
  <2> SUFFICES ASSUME NEW s \in X \ Stop,
                      W[Advance(t, s)] \in Location => V[Advance(t, s)] = W[Advance(t, s)],
                      W[s] \in Location
               PROVE  V[s] = W[s]
    BY DEF Moves
  <2>1. ~Halts(t, FALSE, s) /\ ~Halts(t, TRUE, s) BY DEF Stops, Halts
  <2>2. W[s] = W[Advance(t, s)] /\ V[s] = V[Advance(t, s)] BY <2>1, WalksAre
  <2> QED BY <2>2
<1>3. Descends(X, Stop, next, HopsOf, AheadOf) BY WalkDescends
<1>4. X \subseteq S
  <2> HIDE DEF X, Stop, S, next
  <2> QED BY <1>1, <1>2, <1>3, WalkInduction
<1> QED BY <1>4

(* The relative text from one directory to another leads there.            *)
LEMMA RelativeReaches ==
  ASSUME NEW t, Tree(t), NEW chroot \in BOOLEAN, NEW d, IsDirectory(t, d),
         NEW to, IsDirectory(t, to)
  PROVE  Walking(t, chroot, d, Relative(to, d)) = to
<1>1. d \in Location /\ to \in Location BY DirectoryIsLocation
<1>2. MaxHops \in 0..MaxHops BY GeographyAssumption
<1>3. From(t, MaxHops, d, Relative(to, d)) = From(t, MaxHops, <<>>, to)
  BY <1>1, <1>2, RelativeLeads
<1>4. From(t, MaxHops, <<>>, to) = to
  <2> DEFINE S == Component \cup Name
  <2>1. to \in Seq(S) /\ Len(to) \in Nat BY <1>1, LenProperties DEF Location
  <2>2. Len(to) \in 0..Len(to) BY <2>1
  <2>3. SubSeq(to, 1, Len(to)) = to /\ SubSeq(to, Len(to) + 1, Len(to)) = <<>>
    <3> HIDE DEF S
    <3> QED BY <2>1, <2>2, PathParts
  <2>4. From(t, MaxHops, <<>>, to)
          = From(t, MaxHops, SubSeq(to, 1, Len(to)), SubSeq(to, Len(to) + 1, Len(to)))
    BY <1>1, <1>2, <2>2, <2>3, ThroughDirectories
  <2> QED BY <1>1, <1>2, <2>3, <2>4, Arrives
<1> DEFINE s == [hops |-> MaxHops, at |-> d, ahead |-> Relative(to, d)]
<1>5. s \in WalkState BY <1>1, <1>2, RelativeType DEF WalkState
<1>6. Walks(t, FALSE)[s] = to BY <1>3, <1>4 DEF From
<1>7. Walks(t, TRUE)[s] = Walks(t, FALSE)[s] BY <1>1, <1>5, <1>6, ChrootSame
<1> QED BY <1>6, <1>7 DEF Walking

LEMMA ToTheEntry ==
  ASSUME NEW t, Tree(t), NEW h \in 0..MaxHops, NEW p \in Path,
         IsDirectory(t, Components[p.dir])
  PROVE  /\ From(t, h, <<>>, LocationOf(p)) = From(t, h, Components[p.dir], <<p.name>>)
         /\ Append(Components[p.dir], p.name) = LocationOf(p)
         /\ <<p.name>> \in RelPath /\ p.name # ".."
<1> DEFINE S == Component \cup Name
           d == Components[p.dir]
           l == LocationOf(p)
<1>1. /\ d \in Location /\ l \in Location /\ p.name \in Name
      /\ l = Append(d, p.name)
  BY LocationOfType DEF LocationOf
<1>2. d \in Seq(S) /\ Len(d) \in Nat /\ p.name \in S
  BY <1>1, LenProperties DEF Location
<1> HIDE DEF d, S
<1>3. /\ l \in Seq(S) /\ Len(l) = Len(d) + 1 /\ l[Len(d) + 1] = p.name
      /\ \A i \in 1..Len(d) : l[i] = d[i]
  BY <1>1, <1>2, AppendProperties
<1> HIDE DEF l
<1> DEFINE k == Len(d)
           up == SubSeq(l, 1, k)
           q == SubSeq(l, k + 1, Len(l))
<1>4. k \in 0..Len(l) BY <1>2, <1>3
<1>7. /\ up \in Seq(S) /\ Len(up) = k /\ \A i \in 1..k : up[i] = l[i]
      /\ q \in Seq(S) /\ Len(q) = Len(l) - k
      /\ \A i \in 1..(Len(l) - k) : q[i] = l[k + i]
  BY <1>3, <1>4, PathParts
<1> HIDE DEF up, q
<1>8. up = d BY <1>2, <1>3, <1>7, SeqEqual
<1>9. q = <<p.name>>
  <2>1. Len(q) = 1 /\ q[1] = p.name BY <1>2, <1>3, <1>7
  <2> QED BY <1>7, <2>1
<1>10. IsDirectory(t, up) BY <1>8 DEF d
<1>5. From(t, h, <<>>, l) = From(t, h, d, <<p.name>>)
  <2>1. From(t, h, <<>>, l) = From(t, h, up, q)
    <3> HIDE DEF k
    <3>1. l \in Location /\ IsDirectory(t, SubSeq(l, 1, k)) BY <1>1, <1>10 DEF up
    <3>2. From(t, h, <<>>, l) = From(t, h, SubSeq(l, 1, k), SubSeq(l, k + 1, Len(l)))
      BY <1>4, <3>1, ThroughDirectories
    <3> QED BY <3>2 DEF up, q
  <2> QED BY <1>8, <1>9, <2>1
<1>6. <<p.name>> \in RelPath /\ p.name # ".."
  <2>1. p.name # ".." BY <1>2, Parts DEF S
  <2> QED BY <1>2, <2>1 DEF RelPath, S
<1> QED BY <1>1, <1>5, <1>6 DEF l, d

=============================================================================
