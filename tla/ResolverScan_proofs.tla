------------------------- MODULE ResolverScan_proofs -------------------------
(***************************************************************************)
(* Theorems about scanRoots for every host and every list of roots: the    *)
(* loop, one listed entry at a time, computes what Resolver states without *)
(* a loop.  Then about the recursive listing of a root, for every tree of  *)
(* directories: what is returned is all that is below the root.            *)
(***************************************************************************)
EXTENDS ResolverScan, DirectoryListing, Resolver_proofs

-----------------------------------------------------------------------------
(* Types.                                                                  *)

LEMMA EntriesType ==
  ASSUME NEW d \in Dir PROVE Entries(d) \subseteq Path
BY GeographyAssumption DEF Entries, Path

LEMMA PutRecord ==
  ASSUME TypeOK, NEW n \in Name, NEW r \in Record, records' = Put(records, n, r)
  PROVE  /\ DOMAIN records' = DOMAIN records \cup {n}
         /\ DOMAIN records' \subseteq Name
         /\ records'[n] = r
         /\ \A m \in DOMAIN records : m # n => records'[m] = records[m]
         /\ \A m \in DOMAIN records' : records'[m] \in Record
BY DEF TypeOK, Put

LEMMA RecordTypes ==
  ASSUME HostType, NEW p \in Path
  PROVE  /\ FileRecord(p) \in Record
         /\ IsLinkEntry(p) => LinkRecord(p) \in Record /\ LinkTarget(p) \in Path
BY CanonicalType, LinkTargetType DEF FileRecord, LinkRecord, Record, IsLinkEntry

LEMMA InitType == Init => TypeOK
BY ScanAssumption DEF Init, TypeOK, HostType, NoEntries

LEMMA NextType ==
  ASSUME TypeOK, [Next]_vars PROVE TypeOK'
<1>1. CASE OpenRoot
  <2>1. roots[visited + 1] \in Dir BY <1>1 DEF OpenRoot, TypeOK
  <2>2. unvisited' \subseteq Path BY <1>1, <2>1, EntriesType DEF OpenRoot
  <2> QED BY <1>1, <2>2 DEF OpenRoot, TypeOK, HostType
<1>2. CASE VisitEntry
  <2>1. PICK p \in unvisited :
          /\ unvisited' = unvisited \ {p}
          /\ VisitLink(p) \/ VisitFile(p) \/ SkipEntry(p)
          /\ UNCHANGED <<host, roots, visited>>
    BY <1>2 DEF VisitEntry
  <2>2. p \in Path /\ p.name \in Name BY DEF TypeOK, Path
  <2>3. /\ HostType' /\ roots' \in Seq(Dir) /\ visited' \in 0..Len(roots')
        /\ unvisited' \subseteq Path
    BY <2>1 DEF TypeOK, HostType
  <2>4. CASE VisitLink(p)
    <3>1. LinkRecord(p) \in Record /\ LinkTarget(p) \in Path
      BY <2>2, <2>4, RecordTypes DEF TypeOK, VisitLink
    <3>2. aliasLinks' \subseteq FiledLink
      BY <2>2, <2>4, <3>1 DEF VisitLink, TypeOK, FiledLink, Record
    <3>3. /\ DOMAIN records' \subseteq Name
          /\ \A m \in DOMAIN records' : records'[m] \in Record
      BY <2>2, <2>4, <3>1, PutRecord DEF VisitLink
    <3> QED BY <2>3, <3>2, <3>3 DEF TypeOK
  <2>5. CASE VisitFile(p)
    <3>1. /\ DOMAIN records' \subseteq Name
          /\ \A m \in DOMAIN records' : records'[m] \in Record
      BY <2>2, <2>5, RecordTypes, PutRecord DEF VisitFile, TypeOK
    <3> QED BY <2>3, <2>5, <3>1 DEF TypeOK, VisitFile
  <2>6. CASE SkipEntry(p) BY <2>3, <2>6 DEF TypeOK, SkipEntry
  <2> QED BY <2>1, <2>4, <2>5, <2>6
<1>3. CASE UNCHANGED vars BY <1>3 DEF vars, TypeOK, HostType
<1> QED BY <1>1, <1>2, <1>3 DEF Next

(* Every state of the scan is well typed.                                  *)
THEOREM ScanTypeCorrect == Spec => []TypeOK
BY InitType, NextType, PTL DEF Spec

-----------------------------------------------------------------------------
(* Precedence of the loop, as an action property.                          *)

LEMMA RebindStep ==
  ASSUME TypeOK, [Next]_vars
  PROVE  /\ \A n \in DOMAIN records :
              /\ n \in DOMAIN records'
              /\ records'[n] # records[n] => IsLinkEntry(records'[n].alias)
         /\ aliasLinks \subseteq aliasLinks'
<1>1. CASE VisitEntry
  <2>1. PICK p \in unvisited : VisitLink(p) \/ VisitFile(p) \/ SkipEntry(p)
    BY <1>1 DEF VisitEntry
  <2>2. p \in Path /\ p.name \in Name BY DEF TypeOK, Path
  <2>3. CASE VisitLink(p)
    <3>1. LinkRecord(p) \in Record /\ LinkRecord(p).alias = p
      BY <2>2, <2>3, RecordTypes DEF TypeOK, VisitLink, LinkRecord
    <3>2. aliasLinks \subseteq aliasLinks' BY <2>3 DEF VisitLink
    <3>3. records' = Put(records, p.name, LinkRecord(p)) /\ IsLinkEntry(p)
      BY <2>3 DEF VisitLink
    <3>4. /\ DOMAIN records' = DOMAIN records \cup {p.name}
          /\ records'[p.name] = LinkRecord(p)
          /\ \A m \in DOMAIN records : m # p.name => records'[m] = records[m]
      BY <2>2, <3>1, <3>3, PutRecord
    <3> QED BY <3>1, <3>2, <3>3, <3>4
  <2>4. CASE VisitFile(p)
    BY <2>2, <2>4, RecordTypes, PutRecord DEF VisitFile, TypeOK
  <2>5. CASE SkipEntry(p) BY <2>5 DEF SkipEntry
  <2> QED BY <2>1, <2>3, <2>4, <2>5
<1>2. CASE UNCHANGED <<records, aliasLinks>> BY <1>2
<1> QED BY <1>1, <1>2 DEF Next, OpenRoot, vars

(* Whatever the host and the roots, a name once bound stays bound, only a  *)
(* symlink takes it over, and no filed symlink is dropped.                 *)
THEOREM OnlyLinksRebindNames == Spec => OnlyLinksRebind
BY ScanTypeCorrect, RebindStep, PTL DEF Spec, OnlyLinksRebind

-----------------------------------------------------------------------------
(* What the loop has seen.  The invariant says of the visits done so far   *)
(* what Resolver says of all visits.                                       *)

Done ==
  {v \in Visits(roots) :
     v[1] < visited \/ (v[1] = visited /\ v[2] \notin unvisited)}
DoneLinks(n) == {v \in Done : v[2].name = n /\ IsLinkEntry(v[2])}
DoneFiles(n) == {v \in Done : v[2].name = n /\ IsFileEntry(v[2])}

(* Entries are visited in string order.                                    *)
OrderInv ==
  /\ unvisited # {} => visited \in DOMAIN roots
  /\ unvisited \subseteq Entries(roots[visited])
  /\ \A p \in Entries(roots[visited]) \ unvisited :
       \A q \in unvisited : Rank[p] <= Rank[q]

(* The last symlink done has the record of its name, else the first file.  *)
BoundByLink(n) ==
  \E v \in DoneLinks(n) :
    records[n] = LinkRecord(v[2]) /\ \A w \in DoneLinks(n) : NotAfter(w, v)
BoundByFile(n) ==
  /\ DoneLinks(n) = {}
  /\ \E v \in DoneFiles(n) :
       records[n] = FileRecord(v[2]) /\ \A w \in DoneFiles(n) : NotAfter(v, w)
RecordInv ==
  \A n \in Name :
    IF n \in DOMAIN records THEN BoundByLink(n) \/ BoundByFile(n)
    ELSE DoneLinks(n) = {} /\ DoneFiles(n) = {}

FiledAs(p) ==
  [canonical |-> LinkRecord(p).canonical, link |-> p, target |-> LinkTarget(p)]
FiledInv ==
  aliasLinks = {FiledAs(v[2]) : v \in {w \in Done : IsLinkEntry(w[2])}}

ScanInv == OrderInv /\ RecordInv /\ FiledInv

LEMMA VisitsAre ==
  ASSUME NEW rs
  PROVE  /\ \A i \in DOMAIN rs : \A p \in Entries(rs[i]) : <<i, p>> \in Visits(rs)
         /\ \A v \in Visits(rs) : /\ v[1] \in DOMAIN rs
                                  /\ v[2] \in Entries(rs[v[1]])
                                  /\ v = <<v[1], v[2]>>
BY DEF Visits

LEMMA RootsType ==
  ASSUME TypeOK
  PROVE  /\ DOMAIN roots = 1..Len(roots) /\ Len(roots) \in Nat /\ visited \in Nat
         /\ \A i \in DOMAIN roots : roots[i] \in Dir
         /\ \A v \in Visits(roots) : v[1] \in Nat /\ v[2] \in Path
<1>1. /\ DOMAIN roots = 1..Len(roots) /\ Len(roots) \in Nat /\ visited \in Nat
      /\ \A i \in DOMAIN roots : roots[i] \in Dir
  BY DEF TypeOK
<1> QED BY <1>1, VisitsAre, EntriesType

LEMMA ScanInvInit == Init => ScanInv
<1> SUFFICES ASSUME Init PROVE ScanInv OBVIOUS
<1>1. TypeOK BY InitType
<1>2. Done = {}
  <2>1. ASSUME NEW v \in Visits(roots) PROVE v[1] \in Nat /\ v[1] >= 1
    BY <1>1, RootsType, VisitsAre
  <2>2. visited = 0 BY DEF Init
  <2> QED BY <2>1, <2>2 DEF Done
<1>3. OrderInv BY DEF OrderInv, Init
<1>4. RecordInv BY <1>2 DEF RecordInv, DoneLinks, DoneFiles, Init, NoEntries
<1>5. FiledInv BY <1>2 DEF FiledInv, Init
<1> QED BY <1>3, <1>4, <1>5 DEF ScanInv

(* Opening a root does nothing that counts as done.                        *)
LEMMA OpenRootKeeps ==
  ASSUME TypeOK, ScanInv, OpenRoot PROVE ScanInv'
<1>1. /\ UNCHANGED <<host, roots, records, aliasLinks>>
      /\ visited' = visited + 1 /\ unvisited = {}
      /\ visited' \in DOMAIN roots /\ unvisited' = Entries(roots[visited'])
  BY RootsType DEF OpenRoot
<1>2. UNCHANGED Visits(roots) BY <1>1, FixedResolver
<1>3. UNCHANGED Done
  <2>1. ASSUME NEW v \in Visits(roots)
        PROVE  v[1] < visited \/ (v[1] = visited /\ v[2] \notin unvisited) <=>
               v[1] < visited' \/ (v[1] = visited' /\ v[2] \notin unvisited')
    <3>1. v[1] \in Nat /\ visited \in Nat /\ v[2] \in Entries(roots[v[1]])
      BY RootsType, VisitsAre
    <3> QED BY <1>1, <3>1
  <2> QED BY <1>2, <2>1 DEF Done
<1>4. \A n : UNCHANGED <<DoneLinks(n), DoneFiles(n)>>
  BY <1>1, <1>3, FixedHost DEF DoneLinks, DoneFiles
<1>5. OrderInv'
  <2>1. \A r : Entries(r)' = Entries(r) BY <1>1 DEF Entries, Exists, At
  <2> QED BY <1>1, <2>1 DEF OrderInv
<1>6. RecordInv'
  BY <1>1, <1>4, FixedResolver DEF ScanInv, RecordInv, BoundByLink, BoundByFile
<1>7. FiledInv'
  BY <1>1, <1>3, FixedHost, FixedResolver DEF ScanInv, FiledInv, FiledAs
<1> QED BY <1>5, <1>6, <1>7 DEF ScanInv

(* Visiting an entry adds one visit, after all that are done.              *)
LEMMA OneMoreVisit ==
  ASSUME TypeOK, OrderInv, NEW p \in unvisited, FirstUnvisited(p),
         unvisited' = unvisited \ {p}, UNCHANGED <<host, roots, visited>>
  PROVE  /\ Done' = Done \cup {<<visited, p>>}
         /\ \A w \in Done : NotAfter(w, <<visited, p>>)
         /\ OrderInv'
<1>1. /\ visited \in DOMAIN roots /\ p \in Entries(roots[visited])
      /\ <<visited, p>> \in Visits(roots)
  BY VisitsAre DEF OrderInv
<1>2. UNCHANGED Visits(roots) BY FixedResolver
<1>3. \A v \in Visits(roots) : v[1] = visited /\ v[2] = p => v = <<visited, p>>
  BY VisitsAre
<1>4. Done' = Done \cup {<<visited, p>>}
  BY <1>1, <1>2, <1>3, RootsType DEF Done
<1>5. ASSUME NEW w \in Done PROVE NotAfter(w, <<visited, p>>)
  <2>1. w[2] \in Entries(roots[w[1]]) BY VisitsAre DEF Done
  <2>2. w[1] < visited \/ (w[1] = visited /\ w[2] \notin unvisited) BY DEF Done
  <2> QED BY <2>1, <2>2 DEF OrderInv, NotAfter
<1>6. OrderInv'
  <2>1. \A r : Entries(r)' = Entries(r) BY DEF Entries, Exists, At
  <2> QED BY <2>1 DEF OrderInv, FirstUnvisited
<1> QED BY <1>4, <1>5, <1>6

(* A visited entry is recorded as the code's three cases say.              *)
LEMMA VisitEntryKeeps ==
  ASSUME TypeOK, ScanInv, VisitEntry PROVE ScanInv'
<1>1. PICK p \in unvisited :
        /\ FirstUnvisited(p)
        /\ unvisited' = unvisited \ {p}
        /\ VisitLink(p) \/ VisitFile(p) \/ SkipEntry(p)
        /\ UNCHANGED <<host, roots, visited>>
  BY DEF VisitEntry
<1> DEFINE v == <<visited, p>>
<1>2. p \in Path /\ p.name \in Name BY DEF TypeOK, Path
<1>3. /\ Done' = Done \cup {v}
      /\ \A w \in Done : NotAfter(w, v)
      /\ OrderInv'
  BY <1>1, OneMoreVisit DEF ScanInv
<1>4. NotAfter(v, v) BY <1>2, GeographyAssumption DEF NotAfter
<1>5. v[2] = p OBVIOUS
<1>6. ASSUME NEW n
      PROVE  /\ DoneLinks(n)' = IF p.name = n /\ IsLinkEntry(p)
                                THEN DoneLinks(n) \cup {v} ELSE DoneLinks(n)
             /\ DoneFiles(n)' = IF p.name = n /\ IsFileEntry(p)
                                THEN DoneFiles(n) \cup {v} ELSE DoneFiles(n)
  BY <1>1, <1>3, <1>5, FixedHost DEF DoneLinks, DoneFiles
<1>7. \A q : /\ LinkRecord(q)' = LinkRecord(q) /\ FileRecord(q)' = FileRecord(q)
             /\ FiledAs(q)' = FiledAs(q)
  BY <1>1, FixedHost, FixedResolver DEF FiledAs
<1>8. \A n : DoneLinks(n) \subseteq Done /\ DoneFiles(n) \subseteq Done
  BY DEF DoneLinks, DoneFiles
<1> HIDE DEF v
<1>9. ASSUME NEW n \in Name, p.name # n \/ ~(IsLinkEntry(p) \/ IsFileEntry(p)),
             n \in DOMAIN records <=> n \in DOMAIN records',
             n \in DOMAIN records => records'[n] = records[n]
      PROVE  IF n \in DOMAIN records' THEN (BoundByLink(n) \/ BoundByFile(n))'
             ELSE (DoneLinks(n) = {} /\ DoneFiles(n) = {})'
  <2>1. UNCHANGED <<DoneLinks(n), DoneFiles(n)>> BY <1>6, <1>9
  <2> QED BY <1>7, <1>9, <2>1 DEF ScanInv, RecordInv, BoundByLink, BoundByFile
<1>10. CASE VisitLink(p)
  <2>1. IsLinkEntry(p) /\ ~IsFileEntry(p) BY <1>10 DEF VisitLink, IsFileEntry
  <2>2. LinkRecord(p) \in Record BY <1>2, <2>1, RecordTypes DEF TypeOK
  <2>3. /\ DOMAIN records' = DOMAIN records \cup {p.name}
        /\ records'[p.name] = LinkRecord(p)
        /\ \A m \in DOMAIN records : m # p.name => records'[m] = records[m]
    BY <1>2, <1>10, <2>2, PutRecord DEF VisitLink
  <2>4. BoundByLink(p.name)'
    <3>1. DoneLinks(p.name)' = DoneLinks(p.name) \cup {v} BY <1>6, <2>1
    <3>2. \A w \in DoneLinks(p.name)' : NotAfter(w, v)
      BY <1>3, <1>4, <1>8, <3>1
    <3> QED BY <1>5, <1>7, <2>3, <3>1, <3>2 DEF BoundByLink, NotAfter
  <2>5. RecordInv' BY <1>9, <2>3, <2>4 DEF RecordInv
  <2>6. aliasLinks' = aliasLinks \cup {FiledAs(p)}
    BY <1>10 DEF VisitLink, FiledAs
  <2>7. FiledInv'
    BY <1>1, <1>3, <1>5, <1>7, <2>1, <2>6, FixedHost DEF ScanInv, FiledInv
  <2> QED BY <1>3, <2>5, <2>7 DEF ScanInv
<1>11. ASSUME ~IsLinkEntry(p), UNCHANGED aliasLinks PROVE FiledInv'
  BY <1>1, <1>3, <1>5, <1>7, <1>11, FixedHost DEF ScanInv, FiledInv
<1>12. CASE VisitFile(p)
  <2>1. IsFileEntry(p) /\ ~IsLinkEntry(p) /\ p.name \notin DOMAIN records
    BY <1>12 DEF VisitFile, IsFileEntry
  <2>2. FileRecord(p) \in Record BY <1>2, RecordTypes DEF TypeOK
  <2>3. /\ DOMAIN records' = DOMAIN records \cup {p.name}
        /\ records'[p.name] = FileRecord(p)
        /\ \A m \in DOMAIN records : m # p.name => records'[m] = records[m]
    BY <1>2, <1>12, <2>2, PutRecord DEF VisitFile
  <2>4. BoundByFile(p.name)'
    <3>1. DoneLinks(p.name) = {} /\ DoneFiles(p.name) = {}
      BY <1>2, <2>1 DEF ScanInv, RecordInv
    <3>2. DoneLinks(p.name)' = {} /\ DoneFiles(p.name)' = {v}
      BY <1>6, <2>1, <3>1
    <3> QED BY <1>4, <1>5, <1>7, <2>3, <3>2 DEF BoundByFile, NotAfter
  <2>5. RecordInv' BY <1>9, <2>3, <2>4 DEF RecordInv
  <2> QED BY <1>3, <1>11, <1>12, <2>1, <2>5 DEF ScanInv, VisitFile
<1>13. CASE SkipEntry(p)
  <2>1. ~IsLinkEntry(p) /\ UNCHANGED <<records, aliasLinks>>
    BY <1>13 DEF SkipEntry
  <2>2. ASSUME IsFileEntry(p) PROVE (BoundByLink(p.name) \/ BoundByFile(p.name))'
    <3>1. BoundByLink(p.name) \/ BoundByFile(p.name)
      BY <1>2, <1>13, <2>2 DEF SkipEntry, ScanInv, RecordInv
    <3>2. /\ DoneLinks(p.name)' = DoneLinks(p.name)
          /\ DoneFiles(p.name)' = DoneFiles(p.name) \cup {v}
      BY <1>6, <2>1, <2>2
    <3>3. CASE BoundByLink(p.name)
      BY <1>7, <2>1, <3>2, <3>3 DEF BoundByLink, NotAfter
    <3>4. CASE BoundByFile(p.name)
      BY <1>3, <1>7, <1>8, <2>1, <3>2, <3>4 DEF BoundByFile, NotAfter
    <3> QED BY <3>1, <3>3, <3>4
  <2>3. RecordInv'
    <3>1. IsFileEntry(p) => p.name \in DOMAIN records' BY <1>13 DEF SkipEntry
    <3> QED BY <1>9, <2>1, <2>2, <3>1 DEF RecordInv
  <2> QED BY <1>3, <1>11, <2>1, <2>3 DEF ScanInv
<1> QED BY <1>1, <1>10, <1>12, <1>13

LEMMA ScanInvStep ==
  ASSUME TypeOK, ScanInv, [Next]_vars PROVE ScanInv'
<1>1. CASE UNCHANGED vars
  <2>1. UNCHANGED host BY <1>1 DEF vars
  <2>2. UNCHANGED Done BY <1>1, <2>1, FixedResolver DEF vars, Done
  <2>3. \A n : UNCHANGED <<DoneLinks(n), DoneFiles(n)>>
    BY <2>1, <2>2, FixedHost DEF DoneLinks, DoneFiles
  <2>4. OrderInv'
    <3>1. \A r : Entries(r)' = Entries(r) BY <2>1 DEF Entries, Exists, At
    <3> QED BY <1>1, <3>1 DEF vars, ScanInv, OrderInv
  <2>5. RecordInv'
    BY <1>1, <2>1, <2>3, FixedResolver
    DEF vars, ScanInv, RecordInv, BoundByLink, BoundByFile
  <2>6. FiledInv'
    BY <1>1, <2>1, <2>2, FixedHost, FixedResolver
    DEF vars, ScanInv, FiledInv, FiledAs
  <2> QED BY <2>4, <2>5, <2>6 DEF ScanInv
<1> QED BY <1>1, OpenRootKeeps, VisitEntryKeeps DEF Next

LEMMA ScanInvariant == Spec => [](TypeOK /\ ScanInv)
BY InitType, NextType, ScanInvInit, ScanInvStep, PTL DEF Spec

-----------------------------------------------------------------------------
(* What the invariant says of a state, and of the last one.                *)

LEMMA FiledWhileBound ==
  ASSUME TypeOK, ScanInv PROVE AliasIsFiled
<1> SUFFICES ASSUME NEW n \in DOMAIN records
             PROVE  /\ records[n].alias.name = n
                    /\ IsLinkEntry(records[n].alias) =>
                         [canonical |-> records[n].canonical,
                          link |-> records[n].alias,
                          target |-> LinkTarget(records[n].alias)] \in aliasLinks
  BY DEF AliasIsFiled
<1>1. n \in Name BY DEF TypeOK
<1>2. CASE BoundByLink(n)
  <2>1. PICK v \in DoneLinks(n) : records[n] = LinkRecord(v[2])
    BY <1>2 DEF BoundByLink
  <2>2. v \in Done /\ v[2].name = n /\ IsLinkEntry(v[2]) BY DEF DoneLinks
  <2>3. FiledAs(v[2]) \in aliasLinks BY <2>2 DEF ScanInv, FiledInv
  <2> QED BY <2>1, <2>2, <2>3 DEF FiledAs, LinkRecord
<1>3. CASE BoundByFile(n)
  <2>1. PICK v \in DoneFiles(n) : records[n] = FileRecord(v[2])
    BY <1>3 DEF BoundByFile
  <2> QED BY <2>1 DEF DoneFiles, FileRecord, IsFileEntry
<1> QED BY <1>1, <1>2, <1>3 DEF ScanInv, RecordInv

(* Whatever the host and the roots, a record taken from a symlink has that *)
(* symlink filed under its canonical path at every moment of the scan.     *)
THEOREM AliasesAreFiled == Spec => []AliasIsFiled
BY ScanInvariant, FiledWhileBound, PTL

(* The order of the visits is total, so there is one last and one first.   *)
LEMMA OneVisit ==
  ASSUME TypeOK, NEW v \in Visits(roots), NEW w \in Visits(roots),
         NotAfter(v, w), NotAfter(w, v)
  PROVE  v = w
<1>1. v[1] \in Nat /\ w[1] \in Nat /\ v[2] \in Path /\ w[2] \in Path
  BY RootsType
<1>2. Rank[v[2]] \in Nat /\ Rank[w[2]] \in Nat BY <1>1, GeographyAssumption
<1>3. v[1] = w[1] /\ Rank[v[2]] = Rank[w[2]] BY <1>1, <1>2 DEF NotAfter
<1>4. v[2] = w[2] BY <1>1, <1>3, GeographyAssumption
<1> QED BY <1>3, <1>4, VisitsAre

LEMMA FinishedScan ==
  ASSUME TypeOK, ScanInv, Finished
  PROVE  /\ \A n \in Name :
              Lookup(n, roots) = IF n \in DOMAIN records THEN {records[n]} ELSE {}
         /\ \A c \in Path :
              AliasLinks(c, roots) =
                {[link |-> a.link, target |-> a.target] :
                   a \in {b \in aliasLinks : b.canonical = c}}
<1>1. Done = Visits(roots)
  <2>1. ASSUME NEW v \in Visits(roots)
        PROVE  v[1] < visited \/ (v[1] = visited /\ v[2] \notin unvisited)
    BY RootsType, VisitsAre DEF Finished
  <2> QED BY <2>1 DEF Done
<1>2. ASSUME NEW n \in Name
      PROVE  Lookup(n, roots) = IF n \in DOMAIN records THEN {records[n]} ELSE {}
  <2>1. /\ LinkVisits(n, roots) = DoneLinks(n)
        /\ FileVisits(n, roots) = DoneFiles(n)
    BY <1>1 DEF LinkVisits, FileVisits, DoneLinks, DoneFiles
  <2>2. DoneLinks(n) \subseteq Visits(roots) /\ DoneFiles(n) \subseteq Visits(roots)
    BY DEF DoneLinks, DoneFiles, Done
  <2>3. CASE n \notin DOMAIN records
    <3>1. DoneLinks(n) = {} /\ DoneFiles(n) = {}
      BY <2>3 DEF ScanInv, RecordInv
    <3> QED BY <2>1, <2>3, <3>1 DEF Lookup, OrElse, LastOf, FirstOf
  <2>4. CASE n \in DOMAIN records /\ BoundByLink(n)
    <3>1. PICK v \in DoneLinks(n) : /\ records[n] = LinkRecord(v[2])
                                    /\ \A w \in DoneLinks(n) : NotAfter(w, v)
      BY <2>4 DEF BoundByLink
    <3>2. LastOf(DoneLinks(n)) = {v} BY <2>2, <3>1, OneVisit DEF LastOf
    <3>3. {LinkRecord(w[2]) : w \in LastOf(DoneLinks(n))} = {records[n]}
      BY <3>1, <3>2
    <3> QED BY <2>1, <2>4, <3>3 DEF Lookup, OrElse
  <2>5. CASE n \in DOMAIN records /\ BoundByFile(n)
    <3>1. PICK v \in DoneFiles(n) : /\ records[n] = FileRecord(v[2])
                                    /\ \A w \in DoneFiles(n) : NotAfter(v, w)
      BY <2>5 DEF BoundByFile
    <3>2. FirstOf(DoneFiles(n)) = {v} BY <2>2, <3>1, OneVisit DEF FirstOf
    <3>3. {FileRecord(w[2]) : w \in FirstOf(DoneFiles(n))} = {records[n]}
      BY <3>1, <3>2
    <3>4. LastOf(DoneLinks(n)) = {} BY <2>5 DEF BoundByFile, LastOf
    <3> QED BY <2>1, <2>5, <3>3, <3>4 DEF Lookup, OrElse
  <2> QED BY <2>3, <2>4, <2>5 DEF ScanInv, RecordInv
<1>3. ASSUME NEW c \in Path
      PROVE  AliasLinks(c, roots) =
               {[link |-> a.link, target |-> a.target] :
                  a \in {b \in aliasLinks : b.canonical = c}}
  <2>1. aliasLinks = {FiledAs(v[2]) : v \in {w \in Visits(roots) : IsLinkEntry(w[2])}}
    BY <1>1 DEF ScanInv, FiledInv
  <2>2. \A q : /\ FiledAs(q).canonical = LinkRecord(q).canonical
               /\ FiledAs(q).link = q /\ FiledAs(q).target = LinkTarget(q)
    BY DEF FiledAs
  <2> QED BY <2>1, <2>2 DEF AliasLinks
<1> QED BY <1>2, <1>3

(* Whatever the host and the roots, a finished loop holds for every name   *)
(* the record that Lookup states, and under every canonical path the       *)
(* symlinks that AliasLinks states.                                        *)
THEOREM ScanComputesTheLookup == Spec => []ScanComputesLookup
<1>1. TypeOK /\ ScanInv => ScanComputesLookup
  BY FinishedScan DEF ScanComputesLookup
<1> QED BY <1>1, ScanInvariant, PTL

-----------------------------------------------------------------------------
(* The listing of a root.  ListingInv: the directories that are open have  *)
(* listed what is no longer left in them, and every listed path that can   *)
(* be opened is open, is the one the iterator stands on, or has all its    *)
(* entries listed.                                                         *)

Entry == UNION {tree[d] : d \in DOMAIN tree}
Below == paths \cup {<<>>}
Frame == [path : Seq(Entry), hops : Nat, left : SUBSET Entry]

(* An open directory has listed all that is not left in it.                *)
FrameRight(f) ==
  /\ f.path \in Below /\ IsOpen(f.path) /\ f.hops = Crossed(f.path)
  /\ f.left \subseteq EntriesOf(Leads(f.path))
  /\ \A e \in EntriesOf(Leads(f.path)) \ f.left : Append(f.path, e) \in paths

(* A directory whose contents are not all listed is still open, or is the  *)
(* entry the iterator stands on.                                           *)
OpenNow(p) == \E i \in DOMAIN stack : stack[i].path = p
Waiting(p) == \E e \in pending : p = Append(Top.path, e)

ListingTypes ==
  /\ tree \in Trees /\ root \in Roots
  /\ outcome \in {"listing", "returned", "thrown"}
  /\ outcome = "listing" <=> stack # <<>>
  /\ stack \in Seq(Frame) /\ paths \subseteq Seq(Entry) /\ pending \subseteq Entry

PendingInv ==
  /\ \A e \in pending : stack # <<>> /\ Append(Top.path, e) \in paths
  /\ \A e, f \in pending : e = f
ListedInv == \A p \in paths : p # <<>> /\ Front(p) \in Below /\ p \in Within(Front(p))
ContentsInv ==
  outcome # "thrown" /\ (outcome = "listing" \/ paths # {}) =>
    \A p \in Below : OpenNow(p) \/ Waiting(p) \/ Within(p) \subseteq paths
FramesInv == \A i \in DOMAIN stack : FrameRight(stack[i])
ListingInv == ListingTypes /\ FramesInv /\ PendingInv /\ ListedInv /\ ContentsInv

LEMMA EntryIs ==
  ASSUME ListingTypes
  PROVE  /\ \A d \in DOMAIN tree : EntriesOf(d) \subseteq Entry
         /\ \A e \in Entry : /\ e.node \in {"file", "dir", "link"}
                             /\ e.node # "file" => e.to \in DOMAIN tree
         /\ root.dir \in DOMAIN tree /\ root.hops \in Nat /\ MaxSymlinks \in Nat
         /\ root.hops <= MaxSymlinks
<1>1. /\ \A d \in DOMAIN tree : EntriesOf(d) \subseteq Entry
  BY DEF EntriesOf, Entry
<1>2. \A e \in Entry : /\ e.node \in {"file", "dir", "link"}
                       /\ e.node # "file" => e.to \in DOMAIN tree
  BY ListingAssumption DEF ListingTypes, Entry
<1>3. root.dir \in DOMAIN tree /\ root.hops \in 0..MaxSymlinks /\ MaxSymlinks \in Nat
  BY ListingAssumption DEF ListingTypes
<1> QED BY <1>1, <1>2, <1>3

(* One more entry on a path is one more symlink or none.                   *)
LEMMA CrossedIs ==
  ASSUME ListingTypes, NEW p \in Seq(Entry)
  PROVE  /\ Crossed(p) \in Nat
         /\ \A e \in Entry : Crossed(Append(p, e)) = Crossed(p) + Hops(e)
         /\ Crossed(<<>>) = root.hops
<1> DEFINE S == Entry
           Links(q) == {i \in DOMAIN q : q[i].node = "link"}
<1>1. IsFiniteSet(Links(p)) /\ Len(p) \in Nat
  <2>1. Links(p) \subseteq 1..Len(p) /\ Len(p) \in Nat BY LenProperties
  <2>2. IsFiniteSet(1..Len(p)) BY <2>1, FS_Interval
  <2> QED BY <2>1, <2>2, FS_Subset
<1>2. Cardinality(Links(p)) \in Nat BY <1>1, FS_CardinalityType
<1>3. root.hops \in Nat BY EntryIs
<1>4. ASSUME NEW e \in S
      PROVE  Cardinality(Links(Append(p, e))) = Cardinality(Links(p)) + Hops(e)
  <2> DEFINE q == Append(p, e)
             n == Len(p) + 1
  <2>1. /\ DOMAIN q = 1..n /\ DOMAIN p = 1..Len(p) /\ q[n] = e
        /\ \A i \in 1..Len(p) : q[i] = p[i]
    <3> HIDE DEF S
    <3> QED BY AppendProperties, LenProperties
  <2>2. n \notin Links(p) /\ DOMAIN q = DOMAIN p \cup {n} /\ n \notin DOMAIN p
    BY <1>1, <2>1
  <2> HIDE DEF q, n
  <2>3. CASE e.node = "link"
    <3>1. Links(q) = Links(p) \cup {n} BY <2>1, <2>2, <2>3
    <3>2. Cardinality(Links(p) \cup {n}) = Cardinality(Links(p)) + 1
      BY <1>1, <2>2, FS_AddElement
    <3> QED BY <2>3, <3>1, <3>2 DEF Hops, q
  <2>4. CASE e.node # "link"
    <3>1. Links(q) = Links(p) BY <2>1, <2>2, <2>4
    <3>2. Hops(e) = 0 BY <2>4 DEF Hops
    <3> HIDE DEF Links
    <3>3. Cardinality(Links(q)) = Cardinality(Links(p)) + 0 BY <1>2, <3>1
    <3> QED BY <3>2, <3>3 DEF q
  <2> QED BY <2>3, <2>4
<1>5. \A e \in S : Hops(e) \in Nat BY DEF Hops
<1>6. Crossed(<<>>) = root.hops
  <2>1. Links(<<>>) = {} OBVIOUS
  <2>2. Cardinality(Links(<<>>)) = 0 BY <2>1, FS_EmptySet
  <2>3. Crossed(<<>>) = root.hops + Cardinality(Links(<<>>)) BY DEF Crossed
  <2> HIDE DEF Links
  <2> QED BY <1>3, <2>2, <2>3
<1>7. Crossed(p) = root.hops + Cardinality(Links(p)) BY DEF Crossed
<1>8. ASSUME NEW e \in S PROVE Crossed(Append(p, e)) = Crossed(p) + Hops(e)
  <2>1. Crossed(Append(p, e)) = root.hops + Cardinality(Links(Append(p, e)))
    BY DEF Crossed
  <2> HIDE DEF Links, S
  <2> QED BY <1>2, <1>3, <1>4, <1>5, <1>7, <2>1
<1> HIDE DEF Links
<1> QED BY <1>2, <1>3, <1>6, <1>7, <1>8

(* What is in a directory, seen from one of its entries.                   *)
LEMMA EntryOf ==
  ASSUME ListingTypes, NEW p \in Seq(Entry), NEW e \in Entry
  PROVE  /\ Append(p, e) \in Seq(Entry) /\ Append(p, e) # <<>>
         /\ Front(Append(p, e)) = p /\ Last(Append(p, e)) = e
         /\ Leads(Append(p, e)) = e.to
         /\ IsOpen(Append(p, e)) <=> Recurses(e, Crossed(p))
<1>1. Append(p, e) \in Seq(Entry) /\ Append(p, e) # <<>>
  BY AppendProperties, EmptySeq
<1>2. Front(Append(p, e)) = p /\ Last(Append(p, e)) = e BY FrontOfAppend
<1>3. Crossed(Append(p, e)) = Crossed(p) + Hops(e) BY CrossedIs
<1> QED BY <1>1, <1>2, <1>3 DEF Leads, IsOpen, Recurses

LEMMA LeadsType ==
  ASSUME ListingTypes, NEW p \in Seq(Entry), IsOpen(p)
  PROVE  Leads(p) \in DOMAIN tree /\ EntriesOf(Leads(p)) \subseteq Entry
<1>1. CASE p = <<>> BY <1>1, EntryIs DEF Leads
<1>2. CASE p # <<>>
  <2>1. Last(p) \in Entry BY <1>2, FrontIs
  <2>2. Leads(p) \in DOMAIN tree BY <1>2, <2>1, EntryIs DEF Leads, IsOpen
  <2> QED BY <2>2, EntryIs
<1> QED BY <1>1, <1>2

(* The open directories after one more is opened, or the last changes.     *)
LEMMA TopIs ==
  ASSUME ListingTypes, stack # <<>>
  PROVE  /\ Top \in Frame /\ Front(stack) \in Seq(Frame)
         /\ Len(stack) \in DOMAIN stack /\ Top = stack[Len(stack)]
         /\ \A i \in DOMAIN Front(stack) : i \in DOMAIN stack /\ Front(stack)[i] = stack[i]
         /\ \A i \in DOMAIN stack : i = Len(stack) \/ i \in DOMAIN Front(stack)
         /\ Front(stack) = <<>> <=> Len(stack) = 1
<1>1. /\ Len(stack) \in Nat \ {0} /\ Last(stack) \in Frame
      /\ Front(stack) \in Seq(Frame) /\ Len(Front(stack)) = Len(stack) - 1
      /\ \A i \in 1..(Len(stack) - 1) : Front(stack)[i] = stack[i]
  BY FrontIs DEF ListingTypes
<1>2. DOMAIN stack = 1..Len(stack) /\ DOMAIN Front(stack) = 1..(Len(stack) - 1)
  BY <1>1, LenProperties DEF ListingTypes
<1>3. Top = stack[Len(stack)] BY DEF Top, Last
<1>4. Front(stack) = <<>> <=> Len(Front(stack)) = 0
  <2> HIDE DEF Frame
  <2> QED BY <1>1, EmptySeq
<1> QED BY <1>1, <1>2, <1>3, <1>4 DEF Top

LEMMA PushedIs ==
  ASSUME NEW S, NEW q \in Seq(S), NEW f \in S
  PROVE  /\ Append(q, f) \in Seq(S) /\ Append(q, f) # <<>> /\ Last(Append(q, f)) = f
         /\ \A i \in DOMAIN Append(q, f) :
              Append(q, f)[i] = f \/ (i \in DOMAIN q /\ Append(q, f)[i] = q[i])
         /\ \A i \in DOMAIN q : i \in DOMAIN Append(q, f) /\ Append(q, f)[i] = q[i]
         /\ \E i \in DOMAIN Append(q, f) : Append(q, f)[i] = f
<1>1. /\ Append(q, f) \in Seq(S) /\ Append(q, f) # <<>> /\ Last(Append(q, f)) = f
  BY AppendProperties, EmptySeq, FrontOfAppend
<1>2. DOMAIN q = 1..Len(q) /\ Len(q) \in Nat /\ DOMAIN Append(q, f) = 1..(Len(q) + 1)
  BY <1>1, LenProperties, AppendProperties
<1> QED BY <1>1, <1>2, AppendProperties

-----------------------------------------------------------------------------
(* The steps.                                                              *)

LEMMA FixedTree ==
  ASSUME UNCHANGED <<tree, root>>
  PROVE  /\ Entry' = Entry /\ Frame' = Frame
         /\ \A p : /\ Within(p)' = Within(p) /\ IsOpen(p)' = IsOpen(p)
                   /\ Leads(p)' = Leads(p) /\ Crossed(p)' = Crossed(p)
         /\ \A d : EntriesOf(d)' = EntriesOf(d)
BY DEF Entry, Frame, Within, IsOpen, Leads, Crossed, EntriesOf

(* The iterator does not go on from a directory it stands on.              *)
LEMMA SettledIs ==
  ASSUME ListingInv, Settled, NEW p, Waiting(p)
  PROVE  Within(p) = {}
<1>1. PICK e \in pending : p = Append(Top.path, e) BY DEF Waiting
<1>2. Top \in Frame /\ FrameRight(Top) /\ e \in Entry
  BY TopIs DEF ListingInv, ListingTypes, FramesInv, Settled
<1>3. ~Recurses(e, Crossed(Top.path)) BY <1>2 DEF Settled, FrameRight
<1>4. ~IsOpen(p) BY <1>1, <1>2, <1>3, EntryOf DEF ListingInv, Frame
<1> QED BY <1>4 DEF Within

LEMMA ListingInvInit == ListingInit => ListingInv
<1> SUFFICES ASSUME ListingInit PROVE ListingInv OBVIOUS
<1> DEFINE f == Opened(root.dir, <<>>, root.hops)
<1>1. /\ tree \in Trees /\ root \in Roots /\ stack = <<f>> /\ pending = {} /\ paths = {}
      /\ outcome = "listing"
  BY DEF ListingInit, NoPending
<1>2. /\ root.dir \in DOMAIN tree /\ root.hops \in Nat
      /\ EntriesOf(root.dir) \subseteq Entry
  BY <1>1, ListingAssumption DEF Entry, EntriesOf
<1>3. f \in Frame BY <1>2 DEF Opened, Frame
<1>4. stack \in Seq(Frame) /\ stack # <<>> /\ stack[1] = f /\ DOMAIN stack = {1}
  <2> HIDE DEF f, Frame
  <2> QED BY <1>1, <1>3
<1>5. ListingTypes BY <1>1, <1>4 DEF ListingTypes
<1>6. FrameRight(f)
  <2>1. <<>> \in Seq(Entry) OBVIOUS
  <2>2. Crossed(<<>>) = root.hops BY <1>5, <2>1, CrossedIs
  <2> QED BY <1>2, <2>2 DEF FrameRight, Opened, IsOpen, Leads, Below
<1>7. FramesInv BY <1>4, <1>6 DEF FramesInv
<1>8. ContentsInv BY <1>1, <1>4 DEF ContentsInv, Below, OpenNow, Opened
<1>9. PendingInv /\ ListedInv BY <1>1 DEF PendingInv, ListedInv
<1> QED BY <1>5, <1>7, <1>8, <1>9 DEF ListingInv

(* Entering: the entry the iterator stands on is the new open directory.   *)
LEMMA EnterStep ==
  ASSUME ListingInv, Enter PROVE ListingInv'
<1>1. PICK e \in pending :
        /\ Recurses(e, Top.hops)
        /\ stack' = Append(stack, Opened(e.to, Append(Top.path, e), Top.hops + Hops(e)))
        /\ pending' = {} /\ UNCHANGED <<tree, root, paths, outcome>>
  BY DEF Enter, NoPending
<1>2. ListingTypes /\ FramesInv /\ PendingInv /\ ListedInv /\ ContentsInv
  BY DEF ListingInv
<1>3. stack # <<>> /\ outcome = "listing" /\ e \in Entry
  BY <1>1, <1>2 DEF PendingInv, ListingTypes
<1>4. Top \in Frame /\ FrameRight(Top) BY <1>2, <1>3, TopIs DEF FramesInv
<1> DEFINE q == Append(Top.path, e)
           f == Opened(e.to, q, Top.hops + Hops(e))
<1>5. /\ q \in Seq(Entry) /\ q \in paths /\ IsOpen(q) /\ Leads(q) = e.to
      /\ Crossed(q) = Top.hops + Hops(e) /\ Crossed(q) \in Nat
  <2>1. Top.path \in Seq(Entry) BY <1>4 DEF Frame
  <2>2. q \in paths BY <1>2 DEF PendingInv
  <2>3. q \in Seq(Entry) /\ Leads(q) = e.to BY <1>2, <1>3, <2>1, EntryOf
  <2>4. IsOpen(q) BY <1>1, <1>2, <1>3, <1>4, <2>1, EntryOf DEF FrameRight
  <2>5. Crossed(q) = Top.hops + Hops(e)
    BY <1>2, <1>3, <1>4, <2>1, CrossedIs DEF FrameRight
  <2>6. Crossed(q) \in Nat BY <1>2, <2>3, CrossedIs
  <2> HIDE DEF q
  <2> QED BY <2>2, <2>3, <2>4, <2>5, <2>6
<1>6. f.path = q /\ f.hops = Crossed(q) /\ f.left = EntriesOf(Leads(q))
  BY <1>5 DEF Opened
<1>7. f \in Frame
  <2>1. f.left \subseteq Entry BY <1>2, <1>5, <1>6, LeadsType
  <2>2. f = [path |-> f.path, hops |-> f.hops, left |-> f.left] BY DEF Opened
  <2> HIDE DEF f, q
  <2> QED BY <1>5, <1>6, <2>1, <2>2 DEF Frame
<1> HIDE DEF f
<1>8. /\ stack' \in Seq(Frame) /\ stack' # <<>>
      /\ \A i \in DOMAIN stack' : stack'[i] = f \/ (i \in DOMAIN stack /\ stack'[i] = stack[i])
      /\ \A i \in DOMAIN stack : i \in DOMAIN stack' /\ stack'[i] = stack[i]
      /\ \E i \in DOMAIN stack' : stack'[i] = f
  <2>1. stack \in Seq(Frame) /\ stack' = Append(stack, f)
    BY <1>1, <1>2 DEF ListingTypes, f
  <2> HIDE DEF Frame
  <2> QED BY <1>7, <2>1, PushedIs
<1>9. /\ Entry' = Entry /\ Frame' = Frame
      /\ \A p : /\ Within(p)' = Within(p) /\ IsOpen(p)' = IsOpen(p)
                /\ Leads(p)' = Leads(p) /\ Crossed(p)' = Crossed(p)
      /\ \A d : EntriesOf(d)' = EntriesOf(d)
  BY <1>1, FixedTree
<1>10. ListingTypes' BY <1>1, <1>2, <1>3, <1>8, <1>9 DEF ListingTypes
<1>11. Below' = Below BY <1>1 DEF Below
<1>12. FrameRight(f) BY <1>5, <1>6 DEF FrameRight, Below
<1>13. \A g : FrameRight(g)' <=> FrameRight(g)
  BY <1>1, <1>9, <1>11 DEF FrameRight
<1>14. FramesInv' BY <1>2, <1>8, <1>12, <1>13 DEF FramesInv
<1>15. PendingInv' BY <1>1 DEF PendingInv
<1>16. ListedInv' BY <1>1, <1>2, <1>9, <1>11 DEF ListedInv
<1>17. ContentsInv'
  <2> SUFFICES ASSUME NEW p \in Below PROVE OpenNow(p)' \/ Within(p) \subseteq paths
    BY <1>1, <1>9, <1>11 DEF ContentsInv
  <2>1. CASE OpenNow(p) BY <1>8, <2>1 DEF OpenNow
  <2>2. CASE Waiting(p)
    <3>1. PICK d \in pending : p = Append(Top.path, d) BY <2>2 DEF Waiting
    <3>2. p = q BY <1>2, <3>1 DEF PendingInv
    <3> QED BY <1>6, <1>8, <3>2 DEF OpenNow
  <2> QED BY <1>2, <1>3, <2>1, <2>2 DEF ContentsInv
<1> QED BY <1>10, <1>14, <1>15, <1>16, <1>17 DEF ListingInv

(* Listing an entry: it is left no more.                                   *)
LEMMA ListStep ==
  ASSUME ListingInv, ListEntry PROVE ListingInv'
<1>1. PICK e \in Top.left, f \in {[Top EXCEPT !.left = @ \ {e}] : e \in Top.left} :
        /\ Settled /\ f = [Top EXCEPT !.left = @ \ {e}]
        /\ paths' = paths \cup {Append(Top.path, e)}
        /\ stack' = Append(Front(stack), f)
        /\ pending' = {e} /\ UNCHANGED <<tree, root, outcome>>
  BY DEF ListEntry
<1>2. ListingTypes /\ FramesInv /\ PendingInv /\ ListedInv /\ ContentsInv
  BY DEF ListingInv
<1>3. stack # <<>> /\ outcome = "listing"
  BY <1>1, <1>2 DEF Settled, ListingTypes
<1>4. Top \in Frame /\ FrameRight(Top) BY <1>2, <1>3, TopIs DEF FramesInv
<1> DEFINE q == Append(Top.path, e)
<1>5. /\ e \in Entry /\ Top.path \in Seq(Entry)
      /\ f.path = Top.path /\ f.hops = Top.hops /\ f.left = Top.left \ {e} /\ f \in Frame
  BY <1>1, <1>4 DEF Frame
<1>6. q \in Seq(Entry) /\ q # <<>> /\ Front(q) = Top.path BY <1>2, <1>5, EntryOf
<1>7. q \in Within(Top.path) BY <1>4 DEF FrameRight, Within
<1> HIDE DEF q
<1>8. /\ stack' \in Seq(Frame) /\ stack' # <<>> /\ Last(stack') = f
      /\ \A i \in DOMAIN stack' : stack'[i] = f \/ (i \in DOMAIN stack /\ stack'[i] = stack[i])
      /\ \A i \in DOMAIN stack : \E j \in DOMAIN stack' : stack'[j].path = stack[i].path
  <2>1. stack' = Append(Front(stack), f) BY <1>1
  <2>2. /\ Front(stack) \in Seq(Frame) /\ Top = stack[Len(stack)]
        /\ \A i \in DOMAIN Front(stack) : i \in DOMAIN stack /\ Front(stack)[i] = stack[i]
        /\ \A i \in DOMAIN stack : i = Len(stack) \/ i \in DOMAIN Front(stack)
    BY <1>2, <1>3, TopIs
  <2>3. /\ stack' \in Seq(Frame) /\ stack' # <<>> /\ Last(stack') = f
        /\ \A i \in DOMAIN stack' : stack'[i] = f
             \/ (i \in DOMAIN Front(stack) /\ stack'[i] = Front(stack)[i])
        /\ \A i \in DOMAIN Front(stack) : i \in DOMAIN stack' /\ stack'[i] = Front(stack)[i]
        /\ \E i \in DOMAIN stack' : stack'[i] = f
    <3> HIDE DEF Frame
    <3> QED BY <1>5, <2>1, <2>2, PushedIs
  <2> QED BY <1>5, <2>2, <2>3
<1>9. /\ Entry' = Entry /\ Frame' = Frame
      /\ \A p : /\ Within(p)' = Within(p) /\ IsOpen(p)' = IsOpen(p)
                /\ Leads(p)' = Leads(p) /\ Crossed(p)' = Crossed(p)
      /\ \A d : EntriesOf(d)' = EntriesOf(d)
  BY <1>1, FixedTree
<1>10. paths' = paths \cup {q} /\ Below' = Below \cup {q} BY <1>1 DEF Below, q
<1>11. ListingTypes'
  BY <1>1, <1>2, <1>3, <1>5, <1>6, <1>8, <1>9, <1>10 DEF ListingTypes
<1>12. ASSUME NEW g, FrameRight(g) PROVE FrameRight(g)'
  BY <1>9, <1>10, <1>12 DEF FrameRight
<1>13. FrameRight(f)'
  <2>1. /\ Top.path \in Below /\ IsOpen(Top.path) /\ Top.hops = Crossed(Top.path)
        /\ Top.left \subseteq EntriesOf(Leads(Top.path))
        /\ \A d \in EntriesOf(Leads(Top.path)) \ Top.left : Append(Top.path, d) \in paths
    BY <1>4 DEF FrameRight
  <2>2. /\ f.path \in Below' /\ IsOpen(f.path)' /\ f.hops = Crossed(f.path)'
        /\ f.left \subseteq EntriesOf(Leads(f.path))
    BY <1>5, <1>9, <1>10, <2>1
  <2>3. ASSUME NEW d \in EntriesOf(Leads(f.path)) \ f.left PROVE Append(f.path, d) \in paths'
    <3>1. CASE d = e BY <1>5, <1>10, <3>1 DEF q
    <3>2. CASE d # e BY <1>5, <1>10, <2>1, <3>2
    <3> QED BY <3>1, <3>2
  <2>4. \A d : EntriesOf(Leads(f.path))' = EntriesOf(Leads(f.path)) BY <1>9
  <2> QED BY <2>2, <2>3, <2>4 DEF FrameRight
<1>14. FramesInv'
  <2> SUFFICES ASSUME NEW i \in DOMAIN stack', NEW g, g = stack'[i] PROVE FrameRight(g)'
    BY DEF FramesInv
  <2>1. CASE g = f BY <1>13, <2>1
  <2>2. CASE i \in DOMAIN stack /\ g = stack[i]
    <3>1. FrameRight(g) BY <1>2, <2>2 DEF FramesInv
    <3> QED BY <1>12, <3>1
  <2> QED BY <1>8, <2>1, <2>2
<1>15. Top' = f BY <1>8 DEF Top
<1>16. PendingInv' BY <1>1, <1>5, <1>8, <1>10, <1>15 DEF PendingInv, q
<1>17. ListedInv'
  <2>1. Top.path \in Below BY <1>4 DEF FrameRight
  <2> QED BY <1>2, <1>6, <1>7, <1>9, <1>10, <2>1 DEF ListedInv
<1>18. ContentsInv'
  <2> SUFFICES ASSUME NEW p \in Below \cup {q}
               PROVE OpenNow(p)' \/ Waiting(p)' \/ Within(p) \subseteq paths'
    BY <1>9, <1>10 DEF ContentsInv
  <2>1. CASE p = q BY <1>1, <1>5, <1>15, <2>1 DEF Waiting, q
  <2>2. CASE p \in Below /\ OpenNow(p)
    <3>1. PICK i \in DOMAIN stack : stack[i].path = p BY <2>2 DEF OpenNow
    <3> QED BY <1>8, <3>1 DEF OpenNow
  <2>3. CASE p \in Below /\ Waiting(p) BY <1>1, <2>3, SettledIs
  <2>4. CASE p \in Below /\ ~OpenNow(p) /\ ~Waiting(p)
    BY <1>2, <1>3, <1>10, <2>4 DEF ContentsInv
  <2> QED BY <2>1, <2>2, <2>3, <2>4
<1> QED BY <1>11, <1>14, <1>16, <1>17, <1>18 DEF ListingInv

(* Leaving: all that is in the directory has been listed.                  *)
LEMMA LeaveStep ==
  ASSUME ListingInv, Leave PROVE ListingInv'
<1>1. /\ Settled /\ Top.left = {} /\ stack' = Front(stack) /\ pending' = {}
      /\ outcome' = IF Len(stack) = 1 THEN "returned" ELSE outcome
      /\ UNCHANGED <<tree, root, paths>>
  BY DEF Leave, NoPending
<1>2. ListingTypes /\ FramesInv /\ PendingInv /\ ListedInv /\ ContentsInv
  BY DEF ListingInv
<1>3. stack # <<>> /\ outcome = "listing"
  BY <1>1, <1>2 DEF Settled, ListingTypes
<1>4. /\ Top \in Frame /\ Front(stack) \in Seq(Frame)
      /\ Len(stack) \in DOMAIN stack /\ Top = stack[Len(stack)]
      /\ \A i \in DOMAIN Front(stack) : i \in DOMAIN stack /\ Front(stack)[i] = stack[i]
      /\ \A i \in DOMAIN stack : i = Len(stack) \/ i \in DOMAIN Front(stack)
      /\ Front(stack) = <<>> <=> Len(stack) = 1
  BY <1>2, <1>3, TopIs
<1>5. /\ Entry' = Entry /\ Frame' = Frame
      /\ \A p : /\ Within(p)' = Within(p) /\ IsOpen(p)' = IsOpen(p)
                /\ Leads(p)' = Leads(p) /\ Crossed(p)' = Crossed(p)
      /\ \A d : EntriesOf(d)' = EntriesOf(d)
  BY <1>1, FixedTree
<1>6. ListingTypes' BY <1>1, <1>2, <1>3, <1>4, <1>5 DEF ListingTypes
<1>7. Below' = Below BY <1>1 DEF Below
<1>8. \A g : FrameRight(g)' <=> FrameRight(g)
  BY <1>1, <1>5, <1>7 DEF FrameRight
<1>9. FramesInv' BY <1>1, <1>2, <1>4, <1>8 DEF FramesInv
<1>10. PendingInv' BY <1>1 DEF PendingInv
<1>11. ListedInv' BY <1>1, <1>2, <1>5, <1>7 DEF ListedInv
<1>12. Within(Top.path) \subseteq paths
  BY <1>1, <1>2, <1>4 DEF FramesInv, FrameRight, Within
<1>13. ContentsInv'
  <2> SUFFICES ASSUME NEW p \in Below PROVE OpenNow(p)' \/ Within(p) \subseteq paths
    <3>1. \A p \in Below' : Within(p)' = Within(p) /\ p \in Below BY <1>5, <1>7
    <3> QED BY <1>1, <3>1 DEF ContentsInv
  <2>1. CASE OpenNow(p)
    <3>1. PICK i \in DOMAIN stack : stack[i].path = p BY <2>1 DEF OpenNow
    <3>2. CASE i = Len(stack) BY <1>4, <1>12, <3>1, <3>2
    <3>3. CASE i \in DOMAIN Front(stack) BY <1>1, <1>4, <3>1, <3>3 DEF OpenNow
    <3> QED BY <1>4, <3>2, <3>3
  <2>2. CASE Waiting(p) BY <1>1, <2>2, SettledIs
  <2> QED BY <1>2, <1>3, <2>1, <2>2 DEF ContentsInv
<1> QED BY <1>6, <1>9, <1>10, <1>11, <1>13 DEF ListingInv

LEMMA ListingInvStep ==
  ASSUME ListingInv, [ListingNext]_listVars PROVE ListingInv'
<1>1. ListingTypes /\ FramesInv /\ PendingInv /\ ListedInv /\ ContentsInv
  BY DEF ListingInv
<1>2. CASE RootFails \/ EnterFails
  <2>1. /\ stack' = <<>> /\ pending' = {} /\ UNCHANGED <<tree, root, paths>>
        /\ \/ outcome' = "returned" /\ paths = {}
           \/ outcome' = "thrown"
    BY <1>2 DEF RootFails, EnterFails, NoPending
  <2>2. /\ Entry' = Entry /\ Frame' = Frame
        /\ \A p : Within(p)' = Within(p)
    BY <2>1, FixedTree
  <2>3. ListingTypes'
    <3>1. stack' \in Seq(Frame) BY <2>1
    <3> QED BY <1>1, <2>1, <2>2, <3>1 DEF ListingTypes
  <2>4. FramesInv' /\ PendingInv' BY <2>1 DEF FramesInv, PendingInv
  <2>5. ListedInv' BY <1>1, <2>1, <2>2 DEF ListedInv, Below
  <2>6. ContentsInv' BY <2>1 DEF ContentsInv
  <2> QED BY <2>3, <2>4, <2>5, <2>6 DEF ListingInv
<1>3. CASE UNCHANGED listVars
  <2>1. UNCHANGED <<tree, root, stack, pending, paths, outcome>> BY <1>3 DEF listVars
  <2>2. /\ Entry' = Entry /\ Frame' = Frame
        /\ \A p : /\ Within(p)' = Within(p) /\ IsOpen(p)' = IsOpen(p)
                  /\ Leads(p)' = Leads(p) /\ Crossed(p)' = Crossed(p)
        /\ \A d : EntriesOf(d)' = EntriesOf(d)
    BY <2>1, FixedTree
  <2>3. Below' = Below /\ Top' = Top BY <2>1 DEF Below, Top
  <2>4. ListingTypes' BY <1>1, <2>1, <2>2 DEF ListingTypes
  <2>5. \A g : FrameRight(g)' <=> FrameRight(g) BY <2>1, <2>2, <2>3 DEF FrameRight
  <2>6. FramesInv' BY <1>1, <2>1, <2>5 DEF FramesInv
  <2>7. PendingInv' BY <1>1, <2>1, <2>3 DEF PendingInv
  <2>8. ListedInv' BY <1>1, <2>1, <2>2, <2>3 DEF ListedInv
  <2>9. \A p : (OpenNow(p)' <=> OpenNow(p)) /\ (Waiting(p)' <=> Waiting(p))
    BY <2>1, <2>3 DEF OpenNow, Waiting
  <2>10. ContentsInv' BY <1>1, <2>1, <2>2, <2>3, <2>9 DEF ContentsInv
  <2> QED BY <2>4, <2>6, <2>7, <2>8, <2>10 DEF ListingInv
<1> QED BY <1>2, <1>3, EnterStep, ListStep, LeaveStep DEF ListingNext

(* No directory is opened behind more symlinks than the system follows.    *)
LEMMA ListingTyped == ListingInv => ListingTypeOK
<1> SUFFICES ASSUME ListingInv, NEW i \in DOMAIN stack
             PROVE  stack[i].hops \in 0..MaxSymlinks
  BY DEF ListingInv, ListingTypes, ListingTypeOK
<1>1. ListingTypes /\ FrameRight(stack[i]) BY DEF ListingInv, FramesInv
<1>2. stack[i].path \in Seq(Entry) /\ stack[i].hops \in Nat
  <2>1. stack[i] \in Frame BY <1>1 DEF ListingTypes
  <2> QED BY <2>1 DEF Frame
<1>3. stack[i].hops <= MaxSymlinks
  <2>1. /\ stack[i].hops = Crossed(stack[i].path)
        /\ stack[i].path = <<>> \/ Crossed(stack[i].path) <= MaxSymlinks
    BY <1>1 DEF FrameRight, IsOpen
  <2>2. Crossed(<<>>) = root.hops
    <3>1. <<>> \in Seq(Entry) OBVIOUS
    <3> QED BY <1>1, <3>1, CrossedIs
  <2>3. root.hops <= MaxSymlinks BY <1>1, EntryIs
  <2> QED BY <2>1, <2>2, <2>3
<1> QED BY <1>1, <1>2, <1>3, EntryIs

LEMMA ListingWhole == ListingInv => NoPartialListing
<1> SUFFICES ASSUME ListingInv, outcome = "returned", paths # {}
             PROVE  paths = UNION {Within(p) : p \in Below}
  BY DEF NoPartialListing, Below
<1>1. ListingTypes /\ PendingInv /\ ListedInv /\ ContentsInv BY DEF ListingInv
<1>2. stack = <<>> BY <1>1 DEF ListingTypes
<1>3. pending = {} BY <1>1, <1>2 DEF PendingInv
<1>4. \A p \in Below : Within(p) \subseteq paths
  BY <1>1, <1>2, <1>3 DEF ContentsInv, OpenNow, Waiting
<1>5. \A p \in paths : \E q \in Below : p \in Within(q) BY <1>1 DEF ListedInv
<1> QED BY <1>4, <1>5

(* What is in the root and in every path of the set that can be opened is  *)
(* one set: it does not say in which order it was found.                   *)
Whole(P) == P = UNION {Within(p) : p \in P \cup {<<>>}}

LEMMA OneWhole ==
  ASSUME ListingTypes, NEW P \in SUBSET Seq(Entry), NEW Q \in SUBSET Seq(Entry),
         Whole(P), Whole(Q)
  PROVE  P \subseteq Q
<1> DEFINE Lengths == {Len(p) : p \in P \ Q}
<1> SUFFICES ASSUME P \ Q # {} PROVE FALSE OBVIOUS
<1>1. \A p \in P : Len(p) \in Nat
  <2> DEFINE S == Entry
  <2>1. P \subseteq Seq(S) OBVIOUS
  <2> HIDE DEF S
  <2> QED BY <2>1, LenProperties
<1>2. PICK n \in Lengths : \A m \in Lengths : n <= m
  <2>1. Lengths \in SUBSET Nat /\ Lengths # {} BY <1>1
  <2> HIDE DEF Lengths
  <2> QED BY <2>1, LeastNumber
<1>3. PICK p \in P \ Q : n = Len(p) BY <1>2
<1>4. PICK q \in P \cup {<<>>} : p \in Within(q) BY <1>3 DEF Whole
<1>5. PICK e \in EntriesOf(Leads(q)) : IsOpen(q) /\ p = Append(q, e)
  BY <1>4 DEF Within
<1>6. q \in Seq(Entry)
  <2>1. <<>> \in Seq(Entry) OBVIOUS
  <2> QED BY <2>1
<1>7. e \in Entry BY <1>5, <1>6, LeadsType
<1>8. Len(p) = Len(q) + 1 /\ Len(q) \in Nat
  <2> DEFINE S == Entry
  <2>1. q \in Seq(S) /\ e \in S BY <1>6, <1>7
  <2> HIDE DEF S
  <2> QED BY <1>5, <2>1, LenProperties, AppendProperties
<1>9. q \in Q \cup {<<>>}
  <2> SUFFICES ASSUME q \in P \ Q PROVE FALSE BY <1>4
  <2>1. Len(q) \in Lengths OBVIOUS
  <2> HIDE DEF Lengths
  <2>2. Len(p) <= Len(q) BY <1>2, <1>3, <2>1
  <2> QED BY <1>8, <2>2
<1> QED BY <1>3, <1>4, <1>9 DEF Whole

LEMMA ListingAgrees ==
  ListingInv => (outcome = "returned" /\ paths # {} =>
    \A P \in SUBSET Seq(Entry) : Whole(P) => P = paths)
<1> SUFFICES ASSUME ListingInv, outcome = "returned", paths # {},
                    NEW P \in SUBSET Seq(Entry), Whole(P)
             PROVE  P = paths
  OBVIOUS
<1>1. ListingTypes /\ paths \in SUBSET Seq(Entry) BY DEF ListingInv, ListingTypes
<1>2. Whole(paths) BY ListingWhole DEF NoPartialListing, Whole
<1> HIDE DEF Whole
<1>3. P \subseteq paths /\ paths \subseteq P BY <1>1, <1>2, OneWhole
<1> QED BY <1>3

(* collect_sorted_paths keeps an iterator over directories that can be     *)
(* open, and it returns or throws exactly when none is open any more.      *)
THEOREM ListingTypeCorrect == ListingSpec => []ListingTypeOK
BY ListingInvInit, ListingInvStep, ListingTyped, PTL DEF ListingSpec

(* What collect_sorted_paths returns is whole, symlinked directories and   *)
(* cycles of them included, or it is empty because the root was gone.      *)
THEOREM ListingIsWhole == ListingSpec => []NoPartialListing
BY ListingInvInit, ListingInvStep, ListingWhole, PTL DEF ListingSpec

(* The order in which the system returns the entries of a directory does   *)
(* not show in what is returned: there is one whole listing of a tree.     *)
THEOREM ListingIsDetermined ==
  ListingSpec => [](outcome = "returned" /\ paths # {} =>
    \A P \in SUBSET Seq(Entry) : Whole(P) => P = paths)
BY ListingInvInit, ListingInvStep, ListingAgrees, PTL DEF ListingSpec

=============================================================================
