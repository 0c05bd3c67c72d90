------------------------ MODULE ResolverClient_proofs ------------------------
(***************************************************************************)
(* Proofs about a resolver in the hands of a long-lived caller.            *)
(***************************************************************************)
EXTENDS ResolverClient, Resolver_proofs

-----------------------------------------------------------------------------
(* The search roots.                                                       *)

LEMMA FlattenType ==
  ASSUME NEW S, NEW seqs \in Seq(Seq(S)) PROVE FlattenSeq(seqs) \in Seq(S)
<1> DEFINE n == Len(seqs)
           next(f, i) == IF i = 1 THEN seqs[i] ELSE f[i - 1] \o seqs[i]
           flatten == CHOOSE f : f = [i \in 1..n |-> next(f, i)]
           step == [k \in Nat |-> [s \in Seq(S) |->
                      IF k + 1 \in 1..n THEN s \o seqs[k + 1] ELSE s]]
<1>1. CASE n = 0
  <2>1. seqs = <<>> BY <1>1
  <2> QED BY <1>1, <2>1 DEF FlattenSeq
<1>2. CASE n # 0
  <2>1. n \in Nat /\ n - 1 \in Nat /\ \A i \in 1..n : seqs[i] \in Seq(S)
    BY <1>2
  <2>2. step \in [Nat -> [Seq(S) -> Seq(S)]]
    <3>1. ASSUME NEW k \in Nat, NEW s \in Seq(S)
          PROVE  (IF k + 1 \in 1..n THEN s \o seqs[k + 1] ELSE s) \in Seq(S)
      BY <2>1
    <3> QED BY <3>1
  <2>3. PICK f \in [0..(n - 1) -> Seq(S)] : Follows(f, n - 1, seqs[1], step)
    <3> HIDE DEF step, n
    <3>1. seqs[1] \in Seq(S) BY <1>2, <2>1
    <3> QED BY <2>1, <2>2, <3>1, Recursion
  <2> DEFINE g == [i \in 1..n |-> f[i - 1]]
  <2>4. g = [i \in 1..n |-> next(g, i)]
    <3> SUFFICES ASSUME NEW i \in 1..n PROVE f[i - 1] = next(g, i)
      OBVIOUS
    <3>1. i - 1 \in 0..(n - 1) BY <2>1
    <3>2. CASE i = 1
      <4> HIDE DEF step, n
      <4>1. 0 \in 0..(n - 1) BY <2>1
      <4>2. f[0] = seqs[1] BY <2>3, <4>1 DEF Follows
      <4>3. g[1] = seqs[1] /\ f[i - 1] = f[0] BY <3>2, <4>2
      <4> QED BY <3>2, <4>2, <4>3
    <3>3. CASE i # 1
      <4>1. i - 1 \in 1..n /\ (i - 1) - 1 \in 0..(n - 1) /\ i - 1 # 0
            /\ i - 1 \in Nat /\ (i - 1) + 1 = i
        BY <2>1, <3>3
      <4>2. f[(i - 1) - 1] \in Seq(S) BY <2>3, <4>1
      <4>3. f[i - 1] = step[i - 1][f[(i - 1) - 1]]
        BY <2>3, <3>1, <4>1 DEF Follows
      <4>4. step[i - 1][f[(i - 1) - 1]] = f[(i - 1) - 1] \o seqs[i]
        BY <4>1, <4>2
      <4> QED BY <3>3, <4>1, <4>3, <4>4
    <3> QED BY <3>2, <3>3
  <2>5. flatten = [i \in 1..n |-> next(flatten, i)]
    <3> HIDE DEF next, g
    <3> QED BY <2>4
  <2>6. FlattenSeq(seqs) = flatten[n] BY <1>2 DEF FlattenSeq
  <2> DEFINE T == {k \in Nat : k + 1 \in 1..n => flatten[k + 1] \in Seq(S)}
  <2> HIDE DEF flatten
  <2>7. 0 \in T
    <3>1. 1 \in 1..n BY <1>2, <2>1
    <3>2. flatten[1] = seqs[1] BY <2>5, <3>1
    <3> QED BY <2>1, <3>1, <3>2
  <2>8. ASSUME NEW k \in Nat, k \in T PROVE k + 1 \in T
    <3> SUFFICES ASSUME (k + 1) + 1 \in 1..n
                 PROVE  flatten[(k + 1) + 1] \in Seq(S)
      OBVIOUS
    <3>1. k + 1 \in 1..n /\ ((k + 1) + 1) - 1 = k + 1 /\ (k + 1) + 1 # 1
      BY <2>1
    <3>2. flatten[k + 1] \in Seq(S) BY <2>8, <3>1
    <3>3. flatten[(k + 1) + 1] = flatten[k + 1] \o seqs[(k + 1) + 1]
      BY <2>5, <3>1
    <3> QED BY <2>1, <3>2, <3>3
  <2> HIDE DEF T
  <2>9. n - 1 \in T BY <2>1, <2>7, <2>8, NatSet
  <2> QED BY <2>1, <2>6, <2>9 DEF T
<1> QED BY <1>1, <1>2

MachineType ==
  /\ ldConfig \in Seq(Seq(Line)) /\ environment \in Seq(Line)
  /\ settings \in Option

(* Every search root is a directory; the system directories come first.    *)
LEMMA SearchRoots ==
  ASSUME MachineType
  PROVE  /\ \A i \in DOMAIN CollectSearchDirs :
              i \in Nat /\ CollectSearchDirs[i] \in Dir
         /\ \E n \in Nat : DOMAIN CollectSearchDirs \subseteq 1..n
         /\ settings.defaults =>
              \A i \in DOMAIN SystemRoots :
                /\ i \in DOMAIN CollectSearchDirs
                /\ CollectSearchDirs[i] = SystemRoots[i]
<1> DEFINE defaults == If(settings.defaults, SystemRoots)
           config == If(settings.ldConfig, ParseLdConfig)
           variable == If(settings.environment, environment)
           lines == defaults \o config \o variable \o settings.roots
<1>1. defaults \in Seq(Line) /\ (settings.defaults => defaults = SystemRoots)
  BY ResolverAssumption DEF If, Line
<1>2. config \in Seq(Line) BY FlattenType DEF MachineType, ParseLdConfig, If
<1>3. variable \in Seq(Line) /\ settings.roots \in Seq(Line)
  BY DEF MachineType, If, Option, Line
<1>4. CollectSearchDirs = OnlyDirs(lines) BY DEF CollectSearchDirs
<1> HIDE DEF defaults, config, variable
<1>5. CollectSearchDirs =
        [i \in {j \in DOMAIN lines : lines[j] \in Dir} |-> lines[i]]
  <2> HIDE DEF lines
  <2> QED BY <1>4 DEF OnlyDirs, RestrictValues, Restrict
<1>6. lines \in Seq(Line) BY <1>1, <1>2, <1>3
<1>7. Len(lines) \in Nat /\ DOMAIN lines = 1..Len(lines)
  <2> HIDE DEF lines
  <2> QED BY <1>6
<1>8. \A i \in DOMAIN CollectSearchDirs :
        i \in 1..Len(lines) /\ CollectSearchDirs[i] \in Dir
  <2> HIDE DEF lines
  <2> QED BY <1>5, <1>7
<1>9. ASSUME settings.defaults, NEW i \in DOMAIN SystemRoots
      PROVE  /\ i \in DOMAIN CollectSearchDirs
             /\ CollectSearchDirs[i] = SystemRoots[i]
  <2>1. SystemRoots[i] \in Dir BY ResolverAssumption, <1>9
  <2>2. i \in DOMAIN lines /\ lines[i] = SystemRoots[i]
    <3>1. /\ i \in 1..Len(defaults) /\ defaults[i] = SystemRoots[i]
          /\ defaults \o config \in Seq(Line)
      BY <1>1, <1>2, <1>9
    <3>2. /\ i \in 1..Len(defaults \o config)
          /\ (defaults \o config)[i] = SystemRoots[i]
      BY <1>1, <1>2, <3>1
    <3> DEFINE both == defaults \o config
    <3> HIDE DEF both
    <3>3. i \in 1..Len(both) /\ both[i] = SystemRoots[i] /\ both \in Seq(Line)
      BY <3>1, <3>2 DEF both
    <3>4. /\ both \o variable \in Seq(Line)
          /\ i \in 1..Len(both \o variable)
          /\ (both \o variable)[i] = SystemRoots[i]
      BY <1>3, <3>3
    <3> DEFINE three == both \o variable
    <3> HIDE DEF three
    <3>5. /\ three \in Seq(Line) /\ i \in 1..Len(three)
          /\ three[i] = SystemRoots[i]
      BY <3>4 DEF three
    <3>6. /\ i \in DOMAIN (three \o settings.roots)
          /\ (three \o settings.roots)[i] = SystemRoots[i]
      BY <1>3, <3>5
    <3> QED BY <3>6 DEF both, three
  <2> HIDE DEF lines
  <2> QED BY <1>5, <2>1, <2>2
<1> HIDE DEF lines
<1>10. \E n \in Nat : DOMAIN CollectSearchDirs \subseteq 1..n BY <1>7, <1>8
<1>11. \A i \in DOMAIN CollectSearchDirs :
         i \in Nat /\ CollectSearchDirs[i] \in Dir
  BY <1>7, <1>8
<1> QED BY <1>9, <1>10, <1>11

-----------------------------------------------------------------------------
(* The host of the last populate(), while it is the host still.            *)

(* The kernel's walk, as a function of what is stored.                     *)
WalkOn(stored) ==
  LET at(p) == [p EXCEPT !.dir = CanonDir[p.dir]]
      refDir(d, ref) == IF ref.abs THEN ref.dir ELSE LexJoin[d][ref.dir]
      target(p) == LET link == stored[at(p)]
                   IN  [dir |-> refDir(p.dir, link.to), name |-> link.name]
      exists(p) == at(p) \in DOMAIN stored
      isLink(p) == exists(p) /\ stored[at(p)].kind = "link"
      walk[hops \in 0..MaxHops] ==
        [p \in Path |-> IF ~exists(p) THEN NoPath
                        ELSE IF ~isLink(p) THEN at(p)
                        ELSE IF hops = 0 THEN NoPath
                        ELSE walk[hops - 1][target(at(p))]]
  IN  walk

LEMMA SameWalk == scanned.host = host => Then!Walk = Walk
<1>1. Walk = WalkOn(host)
  BY DEF Walk, IsLink, Exists, At, LinkTarget, RefDir, WalkOn
<1>2. Then!Walk = WalkOn(scanned.host)
  BY DEF Then!Walk, Then!IsLink, Then!Exists, Then!At, Then!LinkTarget,
         Then!RefDir, Then!Path, Path, WalkOn
<1> QED BY <1>1, <1>2

SameAnswers == \A n, r : Then!ResolveIn(n, r) = ResolveIn(n, r)

LEMMA SameHostSameAnswers == scanned.host = host => SameAnswers
<1> SUFFICES ASSUME scanned.host = host PROVE SameAnswers OBVIOUS
<1>1. \A p : /\ Then!At(p) = At(p) /\ (Then!Exists(p) <=> Exists(p))
             /\ (Then!IsLink(p) <=> IsLink(p))
             /\ Then!LinkTarget(p) = LinkTarget(p)
  BY DEF Then!At, At, Then!Exists, Exists, Then!IsLink, IsLink,
         Then!LinkTarget, LinkTarget, Then!RefDir, RefDir
<1>2. \A p : Then!Destination(p) = Destination(p)
  BY <1>1, SameWalk DEF Then!Destination, Destination
<1>3. \A p : Then!Opens(p) <=> Opens(p)
  BY <1>2 DEF Then!Opens, Opens
<1>4. \A p : /\ Then!IsElf(p) <=> IsElf(p)
             /\ Then!Canonicalize(p) = Canonicalize(p)
  BY <1>1, <1>2, <1>3 DEF Then!IsElf, IsElf, Then!Canonicalize, Canonicalize
<1>5. \A p : /\ Then!IsLinkEntry(p) <=> IsLinkEntry(p)
             /\ Then!IsFileEntry(p) <=> IsFileEntry(p)
  BY <1>1, <1>4 DEF Then!IsLinkEntry, IsLinkEntry, Then!IsFileEntry, IsFileEntry
<1>6. \A p : /\ Then!LinkRecord(p) = LinkRecord(p)
             /\ Then!FileRecord(p) = FileRecord(p)
  BY <1>1, <1>4 DEF Then!LinkRecord, LinkRecord, Then!FileRecord, FileRecord
<1>7. \A r : Then!Entries(r) = Entries(r)
  BY <1>1 DEF Then!Entries, Entries
<1>8. \A r : Then!Visits(r) = Visits(r)
  BY <1>7 DEF Then!Visits, Visits
<1>9. \A n, r : /\ Then!LinkVisits(n, r) = LinkVisits(n, r)
                /\ Then!FileVisits(n, r) = FileVisits(n, r)
  BY <1>5, <1>8 DEF Then!LinkVisits, LinkVisits, Then!FileVisits, FileVisits
<1>10. \A vs : Then!LastOf(vs) = LastOf(vs) /\ Then!FirstOf(vs) = FirstOf(vs)
  BY DEF Then!LastOf, LastOf, Then!FirstOf, FirstOf, Then!NotAfter, NotAfter
<1>11. \A n, r : Then!Lookup(n, r) = Lookup(n, r)
  BY <1>6, <1>9, <1>10 DEF Then!Lookup, Lookup, Then!OrElse, OrElse
<1>12. \A c, r : Then!AliasLinks(c, r) = AliasLinks(c, r)
  BY <1>1, <1>5, <1>6, <1>8 DEF Then!AliasLinks, AliasLinks
<1> QED
  BY <1>11, <1>12 DEF SameAnswers, Then!ResolveIn, ResolveIn

-----------------------------------------------------------------------------
(* Type correctness, and what is kept.                                     *)

(* What is kept for a name is the answer of the last populate().           *)
KeptInv ==
  \A n \in Name : cached[n] = Then!ResolveIn(n, scanned.roots)

ClientInv == ClientTypeOK /\ KeptInv /\ host \in Worlds

LEMMA ClientInitInv == ClientInit => ClientInv
<1> SUFFICES ASSUME ClientInit PROVE ClientInv OBVIOUS
<1>1. ClientTypeOK
  BY ClientAssumption DEF ClientInit, ClientTypeOK, HostType, CachedType
<1>2. \A n : Then!ResolveIn(n, <<>>) = {}
  <2>1. Then!Visits(<<>>) = {} BY DEF Then!Visits
  <2>2. \A n : Then!Lookup(n, <<>>) = {}
    BY <2>1 DEF Then!Lookup, Then!LinkVisits, Then!FileVisits, Then!LastOf,
                Then!FirstOf, Then!OrElse
  <2> QED BY <2>2 DEF Then!ResolveIn
<1>3. KeptInv BY <1>2 DEF ClientInit, KeptInv
<1> QED BY <1>1, <1>3 DEF ClientInv, ClientInit

LEMMA PopulateKeeps ==
  ASSUME ClientInv, Populate PROVE ClientInv'
<1> USE DEF ClientInv
<1>1. MachineType BY DEF ClientTypeOK, MachineType
<1>2. RootList(CollectSearchDirs) BY <1>1, SearchRoots DEF RootList
<1>3. UNCHANGED host BY DEF Populate, machine
<1>4. cached' = [n \in Name |-> ResolveIn(n, CollectSearchDirs)]
      /\ scanned'.host = host /\ scanned'.roots = CollectSearchDirs
  BY DEF Populate, Scanned
<1>5. ClientTypeOK'
  <2>1. CachedType'
    BY <1>2, <1>4, ResolveInType DEF ClientTypeOK, CachedType
  <2>2. scanned'.host \in Worlds \cup {NoEntries}
    BY <1>4 DEF ClientTypeOK
  <2> QED
    BY <1>1, <1>4, <2>1, <2>2, SearchRoots
       DEF ClientTypeOK, HostType, Populate, machine
<1>6. KeptInv'
  <2>1. (scanned.host = host => SameAnswers)' BY SameHostSameAnswers, PTL
  <2>2. SameAnswers' BY <1>3, <1>4, <2>1
  <2>3. \A n, r : ResolveIn(n, r)' = ResolveIn(n, r)
    BY <1>3, FixedResolver
  <2> QED BY <1>4, <2>2, <2>3 DEF KeptInv, SameAnswers
<1> QED BY <1>3, <1>5, <1>6

LEMMA FixedScan ==
  ASSUME UNCHANGED scanned
  PROVE  \A n, r : Then!ResolveIn(n, r)' = Then!ResolveIn(n, r)
<1>1. Then!Walk' = Then!Walk
  BY DEF Then!Walk, Then!IsLink, Then!Exists, Then!At, Then!LinkTarget,
         Then!RefDir
<1>2. \A p : /\ Then!At(p)' = Then!At(p) /\ Then!IsLink(p)' = Then!IsLink(p)
             /\ Then!LinkTarget(p)' = Then!LinkTarget(p)
  BY DEF Then!At, Then!IsLink, Then!Exists, Then!LinkTarget, Then!RefDir
<1>3. \A p : Then!Destination(p)' = Then!Destination(p)
  BY <1>1, <1>2 DEF Then!Destination
<1>4. \A p : /\ Then!Canonicalize(p)' = Then!Canonicalize(p)
             /\ Then!IsElf(p)' = Then!IsElf(p)
  BY <1>2, <1>3 DEF Then!Canonicalize, Then!Opens, Then!IsElf
<1>5. \A p : Then!IsLinkEntry(p)' = Then!IsLinkEntry(p)
  BY <1>2, <1>4 DEF Then!IsLinkEntry
<1>6. \A p : Then!IsFileEntry(p)' = Then!IsFileEntry(p)
  BY <1>4, <1>5 DEF Then!IsFileEntry
<1>7. \A p : /\ Then!LinkRecord(p)' = Then!LinkRecord(p)
             /\ Then!FileRecord(p)' = Then!FileRecord(p)
  BY <1>2, <1>4 DEF Then!LinkRecord, Then!FileRecord
<1>8. \A r : Then!Visits(r)' = Then!Visits(r)
  BY DEF Then!Visits, Then!Entries, Then!Exists, Then!At
<1>9. \A n, r : /\ Then!LinkVisits(n, r)' = Then!LinkVisits(n, r)
                /\ Then!FileVisits(n, r)' = Then!FileVisits(n, r)
  BY <1>5, <1>6, <1>8 DEF Then!LinkVisits, Then!FileVisits
<1>10. \A n, r : Then!Lookup(n, r)' = Then!Lookup(n, r)
  BY <1>7, <1>9 DEF Then!Lookup, Then!LastOf, Then!FirstOf
<1>11. \A c, r : Then!AliasLinks(c, r)' = Then!AliasLinks(c, r)
  BY <1>2, <1>5, <1>7, <1>8 DEF Then!AliasLinks
<1> QED BY <1>10, <1>11 DEF Then!ResolveIn

LEMMA MachineChangesKeeps ==
  ASSUME ClientInv, MachineChanges PROVE ClientInv'
<1>1. UNCHANGED <<environment, settings, cached, scanned>>
  BY DEF MachineChanges
<1>2. ClientTypeOK'
  BY <1>1, ClientAssumption
     DEF ClientInv, ClientTypeOK, HostType, CachedType, MachineChanges
<1>3. KeptInv' BY <1>1, FixedScan DEF ClientInv, KeptInv
<1> QED BY <1>2, <1>3 DEF ClientInv, MachineChanges

LEMMA ClientInvariant == ClientSpec => []ClientInv
<1>1. ASSUME ClientInv, [ClientNext]_clientVars PROVE ClientInv'
  <2>1. CASE Populate BY <1>1, <2>1, PopulateKeeps
  <2>2. CASE MachineChanges BY <1>1, <2>2, MachineChangesKeeps
  <2>3. CASE UNCHANGED clientVars
    <3>1. UNCHANGED <<host, ldConfig, environment, settings, cached, scanned>>
      BY <2>3 DEF clientVars, machine
    <3>2. ClientTypeOK'
      BY <1>1, <3>1 DEF ClientInv, ClientTypeOK, HostType, CachedType
    <3>3. KeptInv' BY <1>1, <3>1, FixedScan DEF ClientInv, KeptInv
    <3> QED BY <1>1, <3>1, <3>2, <3>3 DEF ClientInv
  <2> QED BY <1>1, <2>1, <2>2, <2>3 DEF ClientNext
<1> QED BY <1>1, ClientInitInv, PTL DEF ClientSpec

(* What a resolver keeps are whole answers about real files, and it stays  *)
(* so however often it is populated and the machine changes.               *)
THEOREM ClientTypeCorrect == ClientSpec => []ClientTypeOK
<1>1. ClientInv => ClientTypeOK BY DEF ClientInv
<1> QED BY <1>1, ClientInvariant, PTL

-----------------------------------------------------------------------------
(* The answers.                                                            *)

(* What resolve() returns.                                                 *)
LEMMA ResolveIs ==
  ASSUME ClientInv, NEW n \in Name, NEW asked \in Seq(Dir)
  PROVE  /\ ResolveIn(n, asked) # {} => Resolve(n, asked) \in ResolveIn(n, asked)
         /\ ResolveIn(n, asked) = {} /\ cached[n] # {} =>
              Resolve(n, asked) \in cached[n]
         /\ ResolveIn(n, asked) = {} /\ cached[n] = {} =>
              Resolve(n, asked) = NoResolution
         /\ NoResolution \notin ResolveIn(n, asked)
         /\ NoResolution \notin cached[n]
<1>1. RootList(asked) BY DEF RootList
<1>2. ResolveIn(n, asked) \subseteq Resolution
  BY <1>1, ResolveInType DEF ClientInv, ClientTypeOK
<1>3. cached[n] \subseteq Resolution
  BY DEF ClientInv, ClientTypeOK, CachedType
<1> DEFINE now == ResolveIn(n, asked)
           kept == cached[n]
<1>4. Resolve(n, asked) = The(OrElse(now, OrElse(kept, {NoResolution})))
  BY DEF Resolve
<1> HIDE DEF now, kept
<1>5. \A S : S # {} => The(S) \in S BY DEF The
<1>6. now # {} => Resolve(n, asked) \in now BY <1>4, <1>5 DEF OrElse
<1>7. now = {} /\ kept # {} => Resolve(n, asked) \in kept
  BY <1>4, <1>5 DEF OrElse
<1>8. now = {} /\ kept = {} => Resolve(n, asked) = NoResolution
  BY <1>4, <1>5 DEF OrElse
<1> QED BY <1>2, <1>3, <1>6, <1>7, <1>8, ResolverAssumption DEF now, kept

(* Every answer is what one scan said, of the roots that were asked for on *)
(* the host as it is, or of the last populate().                           *)
THEOREM AnswersComeFromOneScan == ClientSpec => []AnswersOfOneScan
<1>1. ASSUME ClientInv PROVE AnswersOfOneScan
  <2> SUFFICES ASSUME NEW name \in Name, NEW asked \in Requests
               PROVE  LET now == ResolveIn(name, asked)
                          kept == Then!ResolveIn(name, scanned.roots)
                          answer == Resolve(name, asked)
                      IN  IF answer = NoResolution THEN now = {} /\ kept = {}
                          ELSE answer \in OrElse(now, kept)
    BY DEF AnswersOfOneScan
  <2>1. asked \in Seq(Dir) BY ClientAssumption
  <2>2. cached[name] = Then!ResolveIn(name, scanned.roots)
    BY <1>1 DEF ClientInv, KeptInv
  <2> QED BY <1>1, <2>1, <2>2, ResolveIs DEF OrElse
<1> QED BY <1>1, ClientInvariant, PTL

-----------------------------------------------------------------------------
(* The order of visits has a first and a last one, for listings are finite.*)

ProperRoots(roots) ==
  /\ \A i \in DOMAIN roots : i \in Nat /\ roots[i] \in Dir
  /\ \E n \in Nat : DOMAIN roots \subseteq 1..n

LEMMA VisitShape ==
  ASSUME NEW roots, ProperRoots(roots), NEW v \in Visits(roots)
  PROVE  /\ v = <<v[1], v[2]>> /\ v[1] \in DOMAIN roots /\ v[1] \in Nat
         /\ v[2] \in Entries(roots[v[1]])
         /\ v[2] \in [dir : Listed[roots[v[1]]], name : Name]
         /\ v[2] \in Path /\ Rank[v[2]] \in Nat
<1>0. PICK i \in DOMAIN roots : v \in {<<i, p>> : p \in Entries(roots[i])}
  BY DEF Visits
<1>1. PICK p \in Entries(roots[i]) : v = <<i, p>> BY <1>0
<1>2. roots[i] \in Dir BY DEF ProperRoots
<1>3. p \in [dir : Listed[roots[i]], name : Name] BY DEF Entries
<1>4. p \in Path BY <1>2, <1>3, GeographyAssumption DEF Path
<1> QED BY <1>1, <1>3, <1>4, GeographyAssumption DEF ProperRoots

LEMMA FirstExists ==
  ASSUME NEW roots, ProperRoots(roots), NEW V \in SUBSET Visits(roots), V # {}
  PROVE  FirstOf(V) # {}
<1> DEFINE I == {v[1] : v \in V}
<1>1. I \in SUBSET Nat /\ I # {} BY VisitShape
<1>2. PICK i \in I : \A j \in I : i <= j
  <2> HIDE DEF I
  <2> QED BY <1>1, LeastNumber
<1> DEFINE W == {v \in V : v[1] = i}
           R == {Rank[v[2]] : v \in W}
<1>3. R \in SUBSET Nat /\ R # {} BY <1>2, VisitShape
<1>4. PICK r \in R : \A s \in R : r <= s
  <2> HIDE DEF R
  <2> QED BY <1>3, LeastNumber
<1>5. PICK v \in W : r = Rank[v[2]] BY <1>4
<1>6. ASSUME NEW w \in V PROVE NotAfter(v, w)
  <2>1. v[1] = i /\ i <= w[1] /\ i \in Nat /\ w[1] \in Nat
    BY <1>1, <1>2, <1>5, VisitShape
  <2>2. w[1] = i => Rank[v[2]] <= Rank[w[2]] BY <1>4, <1>5
  <2> QED BY <2>1, <2>2 DEF NotAfter
<1> QED BY <1>5, <1>6 DEF FirstOf

LEMMA LastExists ==
  ASSUME NEW roots, ProperRoots(roots), NEW V \in SUBSET Visits(roots), V # {}
  PROVE  LastOf(V) # {}
<1> DEFINE I == {v[1] : v \in V}
<1>1. I \in SUBSET Nat /\ I # {} BY VisitShape
<1>2. PICK n \in Nat : DOMAIN roots \subseteq 1..n BY DEF ProperRoots
<1>3. \A j \in I : j <= n BY <1>2, VisitShape
<1>4. PICK i \in I : \A j \in I : j <= i
  <2> HIDE DEF I
  <2> QED BY <1>1, <1>2, <1>3, GreatestNumber
<1> DEFINE W == {v \in V : v[1] = i}
           R == {Rank[v[2]] : v \in W}
<1>5. R \in SUBSET Nat /\ R # {} BY <1>4, VisitShape
<1>6. PICK b \in Nat : \A s \in R : s <= b
  <2> DEFINE S == Listed[roots[i]] \X Name
             f == [x \in S |->
                     IF [dir |-> x[1], name |-> x[2]] \in Path
                       THEN Rank[[dir |-> x[1], name |-> x[2]]] ELSE 0]
  <2>1. IsFiniteSet(S)
    <3>1. roots[i] \in Dir BY <1>4, VisitShape DEF ProperRoots
    <3> QED BY <3>1, ClientAssumption, FS_Product
  <2>2. f \in [S -> Nat] BY GeographyAssumption
  <2>3. PICK b \in Nat : \A x \in S : f[x] <= b
    <3> HIDE DEF S, f
    <3> QED BY <2>1, <2>2, FiniteBound
  <2>4. ASSUME NEW v \in W PROVE Rank[v[2]] <= b
    <3>1. v[2] \in [dir : Listed[roots[i]], name : Name] /\ v[2] \in Path
      BY VisitShape
    <3>2. <<v[2].dir, v[2].name>> \in S
          /\ v[2] = [dir |-> v[2].dir, name |-> v[2].name]
      BY <3>1
    <3>3. f[<<v[2].dir, v[2].name>>] = Rank[v[2]] BY <3>1, <3>2
    <3> QED BY <2>3, <3>2, <3>3
  <2> QED BY <2>3, <2>4
<1>7. PICK r \in R : \A s \in R : s <= r
  <2> HIDE DEF R
  <2> QED BY <1>5, <1>6, GreatestNumber
<1>8. PICK v \in W : r = Rank[v[2]] BY <1>7
<1>9. ASSUME NEW w \in V PROVE NotAfter(w, v)
  <2>1. v[1] = i /\ w[1] <= i /\ i \in Nat /\ w[1] \in Nat
    BY <1>1, <1>4, <1>8, VisitShape
  <2>2. w[1] = i => Rank[w[2]] <= Rank[v[2]] BY <1>7, <1>8
  <2> QED BY <2>1, <2>2 DEF NotAfter
<1> QED BY <1>8, <1>9 DEF LastOf

-----------------------------------------------------------------------------
(* A resolver whose records are current.                                   *)

LEMMA CurrentAnswers ==
  ASSUME ClientInv, Current, NEW n \in Name
  PROVE  /\ ProperRoots(CollectSearchDirs)
         /\ cached[n] = ResolveIn(n, CollectSearchDirs)
         /\ cached[n] = {} => GetELFPath(n) = NoPath
         /\ cached[n] # {} => \E dep \in cached[n] :
                                GetELFPath(n) = dep.canonical
         /\ \A dep \in cached[n] : dep.canonical # NoPath
<1>1. ProperRoots(CollectSearchDirs)
  BY SearchRoots DEF ClientInv, ClientTypeOK, MachineType, ProperRoots
<1>2. cached[n] = ResolveIn(n, CollectSearchDirs)
  BY SameHostSameAnswers
     DEF ClientInv, KeptInv, Current, SameAnswers
<1>3. ResolveIn(n, <<>>) = {}
  <2>1. Visits(<<>>) = {} BY DEF Visits
  <2>2. Lookup(n, <<>>) = {}
    BY <2>1 DEF Lookup, LinkVisits, FileVisits, LastOf, FirstOf, OrElse
  <2> QED BY <2>2 DEF ResolveIn
<1>4. <<>> \in Seq(Dir) OBVIOUS
<1>5. \A dep \in cached[n] : dep.canonical # NoPath
  BY GeographyAssumption
     DEF ClientInv, ClientTypeOK, CachedType, Resolution
<1>6. CASE cached[n] = {}
  BY <1>1, <1>2, <1>3, <1>4, <1>6, ResolveIs DEF GetELFPath
<1>7. CASE cached[n] # {}
  <2>1. Resolve(n, <<>>) \in cached[n] /\ Resolve(n, <<>>) # NoResolution
    BY <1>3, <1>4, <1>7, ResolveIs
  <2>2. GetELFPath(n) = Resolve(n, <<>>).canonical BY <2>1 DEF GetELFPath
  <2> QED BY <1>1, <1>2, <1>5, <1>7, <2>1, <2>2
<1> QED BY <1>6, <1>7

LEMMA RecordedIsElf ==
  ASSUME HostType, NEW roots, RootList(roots), NEW n,
         NEW dep \in ResolveIn(n, roots)
  PROVE  IsElf(dep.canonical)
<1>1. ASSUME NEW p \in Path, IsElf(p) PROVE IsElf(Canonicalize(p))
  <2>1. Opens(p) /\ Canonicalize(p) = Destination(p)
    BY <1>1 DEF IsElf, Canonicalize
  <2>2. Final(Destination(p)) BY <2>1, DestinationIsFinal
  <2> QED BY <1>1, <2>1, <2>2, FinalOpens DEF IsElf
<1>2. PICK r \in Lookup(n, roots) : dep.canonical = r.canonical
  BY DEF ResolveIn
<1>3. ASSUME NEW v \in LinkVisits(n, roots)
      PROVE  IsElf(LinkRecord(v[2]).canonical)
  <2>1. v[2] \in Path BY VisitType DEF LinkVisits
  <2>2. LinkTarget(v[2]) \in Path /\ IsElf(LinkTarget(v[2]))
    BY <2>1, LinkTargetType DEF LinkVisits, IsLinkEntry
  <2> QED BY <1>1, <2>2 DEF LinkRecord
<1>4. ASSUME NEW v \in FileVisits(n, roots)
      PROVE  IsElf(FileRecord(v[2]).canonical)
  <2>1. v[2] \in Path /\ IsElf(v[2])
    BY VisitType DEF FileVisits, IsFileEntry
  <2> QED BY <1>1, <2>1 DEF FileRecord
<1> QED BY <1>2, <1>3, <1>4 DEF Lookup, LastOf, FirstOf, OrElse

(* While nothing has changed since populate(), a path is known for exactly *)
(* the names the search roots list an ELF file for, and it is an ELF file. *)
THEOREM RecordsAreExact == ClientSpec => []CurrentRecordsAreExact
<1>1. ASSUME ClientInv, Current, NEW name \in Name
      PROVE  /\ GetELFPath(name) # NoPath <=>
                   \E v \in Visits(CollectSearchDirs) :
                     /\ v[2].name = name
                     /\ IsLinkEntry(v[2]) \/ IsFileEntry(v[2])
             /\ GetELFPath(name) # NoPath => IsElf(GetELFPath(name))
  <2> DEFINE roots == CollectSearchDirs
             links == LinkVisits(name, roots)
             files == FileVisits(name, roots)
  <2>1. ProperRoots(roots) /\ RootList(roots)
    BY <1>1, CurrentAnswers DEF ProperRoots, RootList
  <2>2. cached[name] = ResolveIn(name, roots) BY <1>1, CurrentAnswers
  <2> HIDE DEF roots
  <2>3. ResolveIn(name, roots) # {} <=> links # {} \/ files # {}
    <3>1. links \in SUBSET Visits(roots) /\ files \in SUBSET Visits(roots)
      BY DEF LinkVisits, FileVisits
    <3>2. links # {} <=> LastOf(links) # {}
      BY <2>1, <3>1, LastExists DEF LastOf
    <3>3. files # {} <=> FirstOf(files) # {}
      BY <2>1, <3>1, FirstExists DEF FirstOf
    <3>4. Lookup(name, roots) # {} <=> LastOf(links) # {} \/ FirstOf(files) # {}
      BY DEF Lookup, OrElse
    <3>5. ResolveIn(name, roots) # {} <=> Lookup(name, roots) # {}
      BY DEF ResolveIn
    <3> QED BY <3>2, <3>3, <3>4, <3>5
  <2>4. links # {} \/ files # {} <=>
          \E v \in Visits(roots) :
            v[2].name = name /\ (IsLinkEntry(v[2]) \/ IsFileEntry(v[2]))
    BY DEF LinkVisits, FileVisits
  <2>5. \A dep \in cached[name] : IsElf(dep.canonical)
    BY <1>1, <2>1, <2>2, RecordedIsElf DEF ClientInv, ClientTypeOK
  <2>6. GetELFPath(name) # NoPath <=> cached[name] # {}
    BY <1>1, CurrentAnswers
  <2> QED BY <1>1, <2>2, <2>3, <2>4, <2>5, <2>6, CurrentAnswers DEF roots
<1>2. ClientInv => CurrentRecordsAreExact
  BY <1>1 DEF CurrentRecordsAreExact
<1> QED BY <1>2, ClientInvariant, PTL

(* A regular file of a system directory is hidden by no regular file that  *)
(* LD_LIBRARY_PATH, ld.so.conf or an option adds.                          *)
THEOREM SystemDirectoriesGoFirst == ClientSpec => []SystemFilesComeFirst
<1>1. ASSUME ClientInv, Current, settings.defaults, NEW name \in Name,
             FileVisits(name, SystemRoots) # {},
             LinkVisits(name, CollectSearchDirs) = {}
      PROVE  GetELFPath(name) \in
               {Canonicalize(v[2]) : v \in FirstOf(FileVisits(name, SystemRoots))}
  <2> DEFINE roots == CollectSearchDirs
             all == FileVisits(name, roots)
             system == FileVisits(name, SystemRoots)
  <2>1. \A i \in DOMAIN SystemRoots :
          i \in DOMAIN roots /\ roots[i] = SystemRoots[i]
    BY <1>1, SearchRoots DEF ClientInv, ClientTypeOK, MachineType
  <2>2. ProperRoots(roots) /\ ProperRoots(SystemRoots)
    <3>1. ProperRoots(roots) BY <1>1, CurrentAnswers
    <3>2. DOMAIN SystemRoots = 1..Len(SystemRoots) /\ Len(SystemRoots) \in Nat
      BY ResolverAssumption
    <3>3. \A i \in DOMAIN SystemRoots : SystemRoots[i] \in Dir
      BY ResolverAssumption
    <3> QED BY <3>1, <3>2, <3>3 DEF ProperRoots
  <2> HIDE DEF roots
  <2>3. system \subseteq all
    BY <2>1 DEF FileVisits, Visits
  <2>4. ASSUME NEW v \in all, v[1] \in DOMAIN SystemRoots PROVE v \in system
    BY <2>1, <2>2, <2>4, VisitShape DEF FileVisits, Visits
  <2>5. FirstOf(all) # {}
    BY <1>1, <2>2, <2>3, FirstExists DEF FileVisits
  <2>6. FirstOf(all) \subseteq FirstOf(system)
    <3> SUFFICES ASSUME NEW v \in FirstOf(all) PROVE v \in FirstOf(system)
      OBVIOUS
    <3>1. PICK w \in system : TRUE BY <1>1
    <3>2. v[1] <= w[1] /\ w[1] \in DOMAIN SystemRoots /\ v[1] \in DOMAIN roots
      <4>1. w \in Visits(SystemRoots) /\ v \in Visits(roots)
        BY <3>1 DEF FirstOf, FileVisits
      <4>2. v[1] \in Nat /\ w[1] \in Nat /\ NotAfter(v, w)
        BY <2>2, <2>3, <3>1, <4>1, VisitShape DEF FirstOf
      <4> QED BY <2>2, <4>1, <4>2, VisitShape DEF NotAfter
    <3>3. v[1] \in DOMAIN SystemRoots
      BY <2>2, <3>2, ResolverAssumption DEF ProperRoots
    <3> QED BY <2>3, <2>4, <3>3 DEF FirstOf
  <2>7. Lookup(name, roots) = {FileRecord(v[2]) : v \in FirstOf(all)}
    BY <1>1 DEF Lookup, OrElse, LastOf, roots
  <2>8. \A dep \in ResolveIn(name, roots) :
          \E v \in FirstOf(all) : dep.canonical = Canonicalize(v[2])
    BY <2>7 DEF ResolveIn, FileRecord
  <2>9. cached[name] = ResolveIn(name, roots) /\ cached[name] # {}
    <3>1. cached[name] = ResolveIn(name, roots)
      BY <1>1, CurrentAnswers DEF roots
    <3>2. Lookup(name, roots) # {} BY <2>5, <2>7
    <3> QED BY <3>1, <3>2 DEF ResolveIn
  <2>10. PICK dep \in ResolveIn(name, roots) : GetELFPath(name) = dep.canonical
    BY <1>1, <2>9, CurrentAnswers
  <2> QED BY <2>6, <2>8, <2>10
<1>2. ClientInv => SystemFilesComeFirst
  BY <1>1 DEF SystemFilesComeFirst
<1> QED BY <1>2, ClientInvariant, PTL

=============================================================================
