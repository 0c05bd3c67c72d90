--------------------------- MODULE Resolver_proofs ---------------------------
(***************************************************************************)
(* Lemmas about the host and the resolver that the proofs about the scan   *)
(* and about the dependency walk share: what the operators return, and     *)
(* that they return the same as long as the host stays.                    *)
(***************************************************************************)
EXTENDS Resolver, Recursion_proofs

-----------------------------------------------------------------------------
(* The host operators.                                                     *)

LEMMA AtType ==
  ASSUME NEW p \in Path PROVE At(p) \in Path
BY GeographyAssumption DEF At, Path

LEMMA CanonicalType ==
  ASSUME HostType, NEW p \in Path PROVE Canonicalize(p) \in Path
BY AtType DEF Canonicalize, Opens, HostType, RealPath

LEMMA RefDirType ==
  ASSUME NEW d \in Dir, NEW r \in DirRef PROVE RefDir(d, r) \in Dir
<1>1. CASE r \in [abs : {TRUE}, dir : Dir] BY <1>1 DEF RefDir
<1>2. CASE r \in [abs : {FALSE}, dir : RelDir]
  <2>1. r.abs = FALSE /\ r.dir \in RelDir BY <1>2
  <2>2. LexJoin[d] \in [RelDir -> Dir] BY GeographyAssumption
  <2> QED BY <2>1, <2>2 DEF RefDir
<1> QED BY <1>1, <1>2 DEF DirRef

LEMMA LinkTargetType ==
  ASSUME HostType, NEW p \in Path, IsLink(p) PROVE LinkTarget(p) \in Path
<1>1. host[At(p)] \in Symlink
  BY DEF HostType, IsLink, Exists, Node, ElfFile, Symlink, DataFile
<1>2. host[At(p)].to \in DirRef /\ host[At(p)].name \in Name /\ p.dir \in Dir
  BY <1>1 DEF Symlink, Path
<1> QED BY <1>2, RefDirType DEF LinkTarget, Path

LEMMA ParsedElf ==
  ASSUME HostType, NEW p, Parses(p) PROVE Elf(p) \in ElfFile
BY DEF HostType, Parses, IsElf, Opens, Elf, Node, Symlink, DataFile

-----------------------------------------------------------------------------
(* The kernel's walk.  It is defined by recursion on the hops left, and    *)
(* ends at a file of the host, which is no symlink, or nowhere.            *)

LEMMA AtAt ==
  ASSUME NEW p \in Path
  PROVE  /\ At(At(p)) = At(p)
         /\ Exists(At(p)) <=> Exists(p)
         /\ IsLink(At(p)) <=> IsLink(p)
<1>1. At(At(p)) = At(p) BY GeographyAssumption DEF At, Path
<1> QED BY <1>1 DEF Exists, IsLink

LEMMA NextHopType ==
  ASSUME HostType, NEW p \in Path, IsLink(p)
  PROVE  LinkTarget(At(p)) \in Path
BY AtType, AtAt, LinkTargetType

LEMMA WalkEquation ==
  ASSUME HostType
  PROVE  \A hops \in 0..MaxHops : \A p \in Path :
           Walk[hops][p] =
             IF ~Exists(p) THEN NoPath
             ELSE IF ~IsLink(p) THEN At(p)
             ELSE IF hops = 0 THEN NoPath
             ELSE Walk[hops - 1][LinkTarget(At(p))]
<1> DEFINE Row == [Path -> Path \cup {NoPath}]
           base == [p \in Path |-> IF ~Exists(p) THEN NoPath
                                   ELSE IF ~IsLink(p) THEN At(p) ELSE NoPath]
           step == [n \in Nat |-> [row \in Row |->
                      [p \in Path |-> IF ~Exists(p) THEN NoPath
                                      ELSE IF ~IsLink(p) THEN At(p)
                                      ELSE row[LinkTarget(At(p))]]]]
           next(f, hops) ==
             [p \in Path |-> IF ~Exists(p) THEN NoPath
                             ELSE IF ~IsLink(p) THEN At(p)
                             ELSE IF hops = 0 THEN NoPath
                             ELSE f[hops - 1][LinkTarget(At(p))]]
<1>1. MaxHops \in Nat BY GeographyAssumption
<1>2. base \in Row BY AtType
<1>3. step \in [Nat -> [Row -> Row]]
  <2>1. ASSUME NEW row \in Row, NEW p \in Path, IsLink(p)
        PROVE  row[LinkTarget(At(p))] \in Path \cup {NoPath}
    BY <2>1, NextHopType
  <2>2. \A row \in Row :
          [p \in Path |-> IF ~Exists(p) THEN NoPath
                          ELSE IF ~IsLink(p) THEN At(p)
                          ELSE row[LinkTarget(At(p))]] \in Row
    BY <2>1, AtType
  <2> QED BY <2>2
<1>4. PICK f \in [0..MaxHops -> Row] : Follows(f, MaxHops, base, step)
  <2> HIDE DEF Row, base, step
  <2> QED BY <1>1, <1>2, <1>3, Recursion
<1>5. f = [hops \in 0..MaxHops |-> next(f, hops)]
  <2> SUFFICES ASSUME NEW n \in 0..MaxHops PROVE f[n] = next(f, n)
    BY <1>4
  <2>1. CASE n = 0 BY <1>4, <2>1 DEF Follows
  <2>2. CASE n # 0
    <3>1. f[n - 1] \in Row BY <1>1, <1>4, <2>2
    <3>2. step[n][f[n - 1]] = next(f, n) BY <2>2, <3>1
    <3> QED BY <1>4, <2>2, <3>2 DEF Follows
  <2> QED BY <2>1, <2>2
<1>6. Walk = CHOOSE g : g = [hops \in 0..MaxHops |-> next(g, hops)]
  BY DEF Walk
<1>7. Walk = [hops \in 0..MaxHops |-> next(Walk, hops)]
  <2> HIDE DEF next
  <2> QED BY <1>5, <1>6
<1>8. ASSUME NEW hops \in 0..MaxHops, NEW p \in Path
      PROVE  Walk[hops][p] = next(Walk, hops)[p]
  <2> HIDE DEF next
  <2> QED BY <1>7
<1> QED BY <1>8

(* A place of the host that holds something else than a symlink.           *)
Final(p) == p \in Path /\ p \in DOMAIN host /\ At(p) = p /\ ~IsLink(p)

LEMMA FinalAt ==
  ASSUME NEW p \in Path, Exists(p), ~IsLink(p) PROVE Final(At(p))
BY AtType, AtAt DEF Final, Exists

LEMMA WalkEnds ==
  ASSUME HostType
  PROVE  \A hops \in 0..MaxHops : \A p \in Path :
           Walk[hops][p] = NoPath \/ Final(Walk[hops][p])
<1> DEFINE Good(n) == \A p \in Path : Walk[n][p] = NoPath \/ Final(Walk[n][p])
           S == {n \in Nat : n \in 0..MaxHops => Good(n)}
<1>1. MaxHops \in Nat BY GeographyAssumption
<1>2. 0 \in S
  <2>1. Good(0) BY <1>1, WalkEquation, FinalAt
  <2> QED BY <2>1
<1>3. ASSUME NEW n \in Nat, n \in S PROVE n + 1 \in S
  <2> SUFFICES ASSUME n + 1 \in 0..MaxHops, NEW p \in Path
               PROVE  Walk[n + 1][p] = NoPath \/ Final(Walk[n + 1][p])
    OBVIOUS
  <2>1. Good(n) BY <1>1, <1>3
  <2>2. Walk[n + 1][p] = IF ~Exists(p) THEN NoPath
                         ELSE IF ~IsLink(p) THEN At(p)
                         ELSE Walk[n][LinkTarget(At(p))]
    <3>1. n + 1 # 0 /\ (n + 1) - 1 = n OBVIOUS
    <3> QED BY <3>1, WalkEquation
  <2>3. CASE IsLink(p)
    <3>1. Exists(p) BY <2>3 DEF IsLink
    <3> QED BY <2>1, <2>2, <2>3, <3>1, NextHopType
  <2>4. CASE ~IsLink(p) BY <2>2, <2>4, FinalAt
  <2> QED BY <2>3, <2>4
<1> HIDE DEF S
<1>4. Nat \subseteq S BY <1>2, <1>3, NatSet
<1> QED BY <1>1, <1>4 DEF S

(* More hops change no walk that has ended at a file.                      *)
LEMMA WalkGoesOn ==
  ASSUME HostType
  PROVE  \A n \in Nat : n + 1 \in 0..MaxHops =>
           \A p \in Path : Walk[n][p] # NoPath => Walk[n + 1][p] = Walk[n][p]
<1> DEFINE Good(n) ==
             \A p \in Path : Walk[n][p] # NoPath => Walk[n + 1][p] = Walk[n][p]
           S == {n \in Nat : n + 1 \in 0..MaxHops => Good(n)}
<1>1. MaxHops \in Nat BY GeographyAssumption
<1>2. 0 \in S
  <2> SUFFICES ASSUME 1 \in 0..MaxHops, NEW p \in Path, Walk[0][p] # NoPath
               PROVE  Walk[1][p] = Walk[0][p]
    OBVIOUS
  <2>1. Exists(p) /\ ~IsLink(p) /\ Walk[0][p] = At(p)
    BY <1>1, WalkEquation
  <2>2. Walk[1][p] = At(p) BY <2>1, WalkEquation
  <2> QED BY <2>1, <2>2
<1>3. ASSUME NEW n \in Nat, n \in S PROVE n + 1 \in S
  <2> SUFFICES ASSUME (n + 1) + 1 \in 0..MaxHops,
                      NEW p \in Path, Walk[n + 1][p] # NoPath
               PROVE  Walk[(n + 1) + 1][p] = Walk[n + 1][p]
    OBVIOUS
  <2>1. n + 1 \in 0..MaxHops /\ Good(n) BY <1>1, <1>3
  <2>2. Walk[n + 1][p] = IF ~Exists(p) THEN NoPath
                         ELSE IF ~IsLink(p) THEN At(p)
                         ELSE Walk[n][LinkTarget(At(p))]
    <3>1. n + 1 # 0 /\ (n + 1) - 1 = n OBVIOUS
    <3> QED BY <2>1, <3>1, WalkEquation
  <2>3. Walk[(n + 1) + 1][p] = IF ~Exists(p) THEN NoPath
                               ELSE IF ~IsLink(p) THEN At(p)
                               ELSE Walk[n + 1][LinkTarget(At(p))]
    <3>1. (n + 1) + 1 # 0 /\ ((n + 1) + 1) - 1 = n + 1 OBVIOUS
    <3> QED BY <3>1, WalkEquation
  <2> HIDE DEF S
  <2>4. CASE Exists(p) /\ IsLink(p)
    <3>1. LinkTarget(At(p)) \in Path BY <2>4, NextHopType
    <3> QED BY <2>1, <2>2, <2>3, <2>4, <3>1
  <2>5. CASE ~(Exists(p) /\ IsLink(p)) BY <2>2, <2>3, <2>5
  <2> QED BY <2>4, <2>5
<1> HIDE DEF S
<1>4. Nat \subseteq S BY <1>2, <1>3, NatSet
<1> QED BY <1>4 DEF S

(* A walk depends on the place it starts at, not on how it is spelled.     *)
LEMMA WalkFromPlace ==
  ASSUME HostType, NEW p \in Path, NEW q \in Path, At(p) = At(q)
  PROVE  /\ Exists(p) <=> Exists(q)
         /\ IsLink(p) <=> IsLink(q)
         /\ \A hops \in 0..MaxHops : Walk[hops][p] = Walk[hops][q]
<1>1. (Exists(p) <=> Exists(q)) /\ (IsLink(p) <=> IsLink(q))
  BY DEF Exists, IsLink
<1> QED BY <1>1, WalkEquation

(* Opening p is the walk with all the hops there are.                      *)
LEMMA OpenIsWalk ==
  ASSUME HostType, NEW p \in Path
  PROVE  /\ Opens(p) <=> Walk[MaxHops][p] # NoPath
         /\ Opens(p) => Destination(p) = Walk[MaxHops][p]
<1>1. MaxHops \in Nat /\ MaxHops # 0 /\ MaxHops - 1 \in 0..MaxHops
  BY GeographyAssumption
<1>2. Walk[MaxHops][p] = IF ~Exists(p) THEN NoPath
                         ELSE IF ~IsLink(p) THEN At(p)
                         ELSE Walk[MaxHops - 1][LinkTarget(At(p))]
  BY <1>1, WalkEquation
<1>3. NoPath \notin DOMAIN host
  BY GeographyAssumption DEF HostType, RealPath
<1>4. At(p) # NoPath BY AtType, GeographyAssumption
<1>5. CASE IsLink(p)
  <2>1. Exists(p) BY <1>5 DEF IsLink
  <2>2. Destination(p) = Walk[MaxHops][p] BY <1>2, <1>5, <2>1 DEF Destination
  <2>3. Walk[MaxHops][p] = NoPath \/ Walk[MaxHops][p] \in DOMAIN host
    BY <1>1, WalkEnds DEF Final
  <2> QED BY <1>3, <2>2, <2>3 DEF Opens
<1>6. CASE ~IsLink(p)
  <2>1. Destination(p) = At(p) BY <1>6 DEF Destination
  <2> QED BY <1>2, <1>4, <1>6, <2>1 DEF Opens, Exists
<1> QED BY <1>5, <1>6

LEMMA DestinationIsFinal ==
  ASSUME HostType, NEW p \in Path, Opens(p) PROVE Final(Destination(p))
<1>1. MaxHops \in 0..MaxHops BY GeographyAssumption
<1> QED BY <1>1, OpenIsWalk, WalkEnds

LEMMA FinalOpens ==
  ASSUME NEW p, Final(p)
  PROVE  Opens(p) /\ Destination(p) = p /\ Canonicalize(p) = p
BY DEF Final, Opens, Destination, Canonicalize

(* weakly_canonical of what is canonical already.                          *)
LEMMA CanonicalIsFixed ==
  ASSUME HostType, NEW p \in Path, Opens(p)
  PROVE  /\ Final(Canonicalize(p))
         /\ Canonicalize(Canonicalize(p)) = Canonicalize(p)
         /\ Parses(Canonicalize(p)) <=> Parses(p)
<1>1. Canonicalize(p) = Destination(p) BY DEF Canonicalize
<1>2. Final(Destination(p)) BY DestinationIsFinal
<1> QED BY <1>1, <1>2, FinalOpens DEF Parses, IsElf

(* A file whose real path parses is a file that can be opened.             *)
LEMMA ParsedOpens ==
  ASSUME HostType, NEW p \in Path, Parses(Canonicalize(p))
  PROVE  Opens(p)
<1> SUFFICES ASSUME ~Opens(p) PROVE FALSE OBVIOUS
<1>1. Canonicalize(p) = At(p) BY DEF Canonicalize
<1>2. Opens(At(p)) BY <1>1 DEF Parses, IsElf
<1>3. At(p) \in Path /\ At(At(p)) = At(p) BY AtType, AtAt
<1>4. Walk[MaxHops][At(p)] = Walk[MaxHops][p]
  BY <1>3, WalkFromPlace, GeographyAssumption
<1> QED BY <1>2, <1>3, <1>4, OpenIsWalk

-----------------------------------------------------------------------------
(* The resolver.                                                           *)

RootList(roots) == \A i \in DOMAIN roots : roots[i] \in Dir

LEMMA VisitType ==
  ASSUME NEW roots, RootList(roots), NEW v \in Visits(roots)
  PROVE  v[2] \in Path
<1>1. PICK i \in DOMAIN roots : v \in {<<i, p>> : p \in Entries(roots[i])}
  BY DEF Visits
<1>2. Entries(roots[i]) \subseteq Path
  BY GeographyAssumption DEF RootList, Entries, Path
<1> QED BY <1>1, <1>2

LEMMA LookupType ==
  ASSUME HostType, NEW roots, RootList(roots), NEW n
  PROVE  Lookup(n, roots) \subseteq Record
<1>1. ASSUME NEW v \in LinkVisits(n, roots) PROVE LinkRecord(v[2]) \in Record
  <2>1. v[2] \in Path BY <1>1, VisitType DEF LinkVisits
  <2>2. LinkTarget(v[2]) \in Path
    BY <1>1, <2>1, LinkTargetType DEF LinkVisits, IsLinkEntry
  <2> QED BY <2>1, <2>2, CanonicalType DEF LinkRecord, Record
<1>2. ASSUME NEW v \in FileVisits(n, roots) PROVE FileRecord(v[2]) \in Record
  <2>1. v[2] \in Path BY <1>2, VisitType DEF FileVisits
  <2> QED BY <2>1, CanonicalType DEF FileRecord, Record
<1> QED BY <1>1, <1>2 DEF Lookup, LastOf, FirstOf, OrElse

LEMMA AliasLinksType ==
  ASSUME HostType, NEW roots, RootList(roots), NEW c
  PROVE  AliasLinks(c, roots) \subseteq Link
<1>1. ASSUME NEW v \in Visits(roots), IsLinkEntry(v[2])
      PROVE  [link |-> v[2], target |-> LinkTarget(v[2])] \in Link
  BY <1>1, VisitType, LinkTargetType DEF IsLinkEntry, Link
<1> QED BY <1>1 DEF AliasLinks

LEMMA ResolveInType ==
  ASSUME HostType, NEW roots, RootList(roots), NEW n \in Name
  PROVE  ResolveIn(n, roots) \subseteq Resolution
BY LookupType, AliasLinksType DEF ResolveIn, Resolution, Record

(* What an answer tells about its file and its aliases: the file is no     *)
(* symlink, and each alias is a symlink whose text leads to that file.     *)
LEMMA ResolvedLinks ==
  ASSUME HostType, NEW roots, RootList(roots), NEW n,
         NEW dep \in ResolveIn(n, roots)
  PROVE  /\ Final(dep.canonical)
         /\ \A l \in dep.links :
              /\ l.link \in Path /\ IsLink(l.link)
              /\ l.target = LinkTarget(l.link)
              /\ Canonicalize(l.target) = dep.canonical
<1>1. PICK r \in Lookup(n, roots) :
        dep = [name |-> n, alias |-> r.alias, canonical |-> r.canonical,
               links |-> AliasLinks(r.canonical, roots)]
  BY DEF ResolveIn
<1>2. Final(r.canonical)
  <2>1. ASSUME NEW v \in LinkVisits(n, roots)
        PROVE  Final(LinkRecord(v[2]).canonical)
    <3>1. v[2] \in Path BY VisitType DEF LinkVisits
    <3>2. LinkTarget(v[2]) \in Path /\ Opens(LinkTarget(v[2]))
      BY <3>1, LinkTargetType DEF LinkVisits, IsLinkEntry, IsElf
    <3> QED BY <3>2, CanonicalIsFixed DEF LinkRecord
  <2>2. ASSUME NEW v \in FileVisits(n, roots)
        PROVE  Final(FileRecord(v[2]).canonical)
    <3>1. v[2] \in Path /\ Opens(v[2])
      BY VisitType DEF FileVisits, IsFileEntry, IsElf
    <3> QED BY <3>1, CanonicalIsFixed DEF FileRecord
  <2> QED BY <2>1, <2>2 DEF Lookup, LastOf, FirstOf, OrElse
<1>3. ASSUME NEW l \in AliasLinks(r.canonical, roots)
      PROVE  /\ l.link \in Path /\ IsLink(l.link)
             /\ l.target = LinkTarget(l.link)
             /\ Canonicalize(l.target) = r.canonical
  <2>1. PICK v \in Visits(roots) :
          /\ IsLinkEntry(v[2]) /\ LinkRecord(v[2]).canonical = r.canonical
          /\ l = [link |-> v[2], target |-> LinkTarget(v[2])]
    BY DEF AliasLinks
  <2> QED BY <2>1, VisitType DEF IsLinkEntry, LinkRecord
<1> QED BY <1>1, <1>2, <1>3

-----------------------------------------------------------------------------
(* While the host stays, so does everything that is read from it.          *)

LEMMA FixedHost ==
  ASSUME UNCHANGED host
  PROVE  /\ \A p : Destination(p)' = Destination(p)
         /\ \A p : Canonicalize(p)' = Canonicalize(p)
         /\ \A p : Parses(p)' = Parses(p)
         /\ \A p : Elf(p)' = Elf(p)
         /\ \A p : LinkTarget(p)' = LinkTarget(p)
         /\ \A p : IsLinkEntry(p)' = IsLinkEntry(p)
         /\ \A p : IsFileEntry(p)' = IsFileEntry(p)
<1>1. Walk' = Walk BY DEF Walk, IsLink, Exists, At, LinkTarget
<1>2. \A p : At(p)' = At(p) BY DEF At
<1>3. \A p : LinkTarget(p)' = LinkTarget(p) /\ IsLink(p)' = IsLink(p)
  BY DEF LinkTarget, IsLink, Exists, At
<1>4. \A p : Destination(p)' = Destination(p)
  BY <1>1, <1>2, <1>3 DEF Destination
<1>5. \A p : Canonicalize(p)' = Canonicalize(p)
  BY <1>2, <1>4 DEF Canonicalize, Opens
<1>6. \A p : Parses(p)' = Parses(p) BY <1>4 DEF Parses, IsElf, Opens
<1>7. \A p : Elf(p)' = Elf(p) BY <1>4 DEF Elf
<1>8. \A p : IsElf(p)' = IsElf(p) BY <1>4 DEF IsElf, Opens
<1>9. \A p : IsLinkEntry(p)' = IsLinkEntry(p) BY <1>3, <1>8 DEF IsLinkEntry
<1>10. \A p : IsFileEntry(p)' = IsFileEntry(p) BY <1>8, <1>9 DEF IsFileEntry
<1> QED BY <1>3, <1>4, <1>5, <1>6, <1>7, <1>9, <1>10

LEMMA FixedPlaces ==
  ASSUME UNCHANGED host
  PROVE  \A p : IsLink(p)' = IsLink(p) /\ Final(p)' = Final(p)
BY DEF IsLink, Exists, At, Final

LEMMA FixedResolver ==
  ASSUME UNCHANGED host
  PROVE  /\ \A r : Visits(r)' = Visits(r)
         /\ \A p : LinkRecord(p)' = LinkRecord(p) /\ FileRecord(p)' = FileRecord(p)
         /\ \A n, r : Lookup(n, r)' = Lookup(n, r)
         /\ \A c, r : AliasLinks(c, r)' = AliasLinks(c, r)
         /\ \A n, r : ResolveIn(n, r)' = ResolveIn(n, r)
<1>1. \A p : LinkRecord(p)' = LinkRecord(p) /\ FileRecord(p)' = FileRecord(p)
  BY FixedHost DEF LinkRecord, FileRecord
<1>2. \A r : Entries(r)' = Entries(r) BY DEF Entries, Exists, At
<1>3. \A r : Visits(r)' = Visits(r) BY <1>2 DEF Visits
<1>4. \A n, r : /\ LinkVisits(n, r)' = LinkVisits(n, r)
                /\ FileVisits(n, r)' = FileVisits(n, r)
  BY <1>3, FixedHost DEF LinkVisits, FileVisits
<1>5. \A n, r : Lookup(n, r)' = Lookup(n, r)
  BY <1>1, <1>4 DEF Lookup, LastOf, FirstOf
<1>6. \A c, r : AliasLinks(c, r)' = AliasLinks(c, r)
  BY <1>1, <1>3, FixedHost DEF AliasLinks
<1>7. \A n, r : ResolveIn(n, r)' = ResolveIn(n, r)
  BY <1>5, <1>6 DEF ResolveIn
<1> QED BY <1>1, <1>3, <1>5, <1>6, <1>7

(* A finished scan has at most one answer for a name: visits are told      *)
(* apart by their root and by the rank of their path.                      *)
LEMMA OneAnswer ==
  ASSUME NEW roots, RootList(roots), DOMAIN roots \subseteq Nat, NEW n,
         NEW x \in ResolveIn(n, roots), NEW y \in ResolveIn(n, roots)
  PROVE  x = y
<1>1. ASSUME NEW v \in Visits(roots), NEW w \in Visits(roots),
             NotAfter(v, w), NotAfter(w, v)
      PROVE  v = w
  <2>1. PICK i \in DOMAIN roots : \E p \in Entries(roots[i]) : v = <<i, p>>
    BY DEF Visits
  <2>2. PICK j \in DOMAIN roots : \E q \in Entries(roots[j]) : w = <<j, q>>
    BY DEF Visits
  <2> DEFINE p == v[2]
             q == w[2]
  <2>3. /\ v = <<i, p>> /\ w = <<j, q>>
        /\ p \in Path /\ q \in Path
    BY <2>1, <2>2, VisitType
  <2> HIDE DEF p, q
  <2>4. i \in Nat /\ j \in Nat /\ Rank[p] \in Nat /\ Rank[q] \in Nat
    BY <2>3, GeographyAssumption
  <2>5. i = j /\ Rank[p] = Rank[q] BY <1>1, <2>3, <2>4 DEF NotAfter
  <2> QED BY <2>3, <2>5, GeographyAssumption
<1>2. /\ LinkVisits(n, roots) \subseteq Visits(roots)
      /\ FileVisits(n, roots) \subseteq Visits(roots)
  BY DEF LinkVisits, FileVisits
<1>3. /\ \A v, w \in LastOf(LinkVisits(n, roots)) : v = w
      /\ \A v, w \in FirstOf(FileVisits(n, roots)) : v = w
  BY <1>1, <1>2 DEF LastOf, FirstOf
<1>4. \A r, s \in Lookup(n, roots) : r = s BY <1>3 DEF Lookup, OrElse
<1> QED BY <1>4 DEF ResolveIn

=============================================================================
