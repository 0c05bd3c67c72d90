---------------------------- MODULE ResolverScan ----------------------------
(***************************************************************************)
(* The loop of Resolver::Impl::scanRoots, one listed entry at a time, over *)
(* any list of roots (populate() gives it the system roots, resolve() the  *)
(* RUNPATH roots of the requesting ELF).                                   *)
(***************************************************************************)
EXTENDS Resolver

CONSTANTS Worlds,     \* host file systems to start from
          RootLists   \* lists of roots to scan

VARIABLES
  roots,       \* searchDirs
  visited,     \* roots whose listing has been taken
  unvisited,   \* entries of the current root still to visit
  records,     \* result.records
  aliasLinks   \* result.aliasLinksByCanonical, as a relation

vars == <<host, roots, visited, unvisited, records, aliasLinks>>

FiledLink == [canonical : Path, link : Path, target : Path]

(* The types of the locals of scanRoots: a name has at most one record, an *)
(* alias link is filed under a path.                                       *)
TypeOK ==
  /\ HostType
  /\ roots \in Seq(Dir)
  /\ visited \in 0..Len(roots)
  /\ unvisited \subseteq Path
  /\ DOMAIN records \subseteq Name
  /\ \A n \in DOMAIN records : records[n] \in Record
  /\ aliasLinks \subseteq FiledLink

ASSUME ScanAssumption ==
  /\ \A h \in Worlds : /\ DOMAIN h \subseteq RealPath
                       /\ \A p \in DOMAIN h : h[p] \in Node
  /\ RootLists \subseteq Seq(Dir)

Init ==
  /\ host \in Worlds
  /\ roots \in RootLists
  /\ visited = 0
  /\ unvisited = {}
  /\ records = NoEntries
  /\ aliasLinks = {}

-----------------------------------------------------------------------------
(* Mutation: the loop advances by two roots.                              *)
OpenRoot_SkipsRoot ==
  /\ unvisited = {} /\ visited < Len(roots)
  /\ visited' = visited + 2
  /\ unvisited' = Entries(roots[visited + 1])
  /\ UNCHANGED <<host, roots, records, aliasLinks>>

(* collect_sorted_paths of the next root; a missing root lists nothing.    *)
OpenRoot ==
  /\ unvisited = {}
  /\ visited < Len(roots)
  /\ visited' = visited + 1
  /\ unvisited' = Entries(roots[visited + 1])
  /\ UNCHANGED <<host, roots, records, aliasLinks>>

FirstUnvisited(p) == \A q \in unvisited : Rank[p] <= Rank[q]

(* Mutation: the alias is filed under its one-hop target instead of the   *)
(* canonical path.                                                        *)
VisitLink_FilesUnderTarget(p) ==
  /\ IsLinkEntry(p)
  /\ records' = Put(records, p.name, LinkRecord(p))
  /\ aliasLinks' = aliasLinks \cup
       {[canonical |-> LinkTarget(p), link |-> p, target |-> LinkTarget(p)]}

(* insert_or_assign and register_alias_link.                               *)
VisitLink(p) ==
  /\ IsLinkEntry(p)
  /\ records' = Put(records, p.name, LinkRecord(p))
  /\ aliasLinks' = aliasLinks \cup
       {[canonical |-> LinkRecord(p).canonical,
         link |-> p, target |-> LinkTarget(p)]}

(* Mutation: a regular file takes a name over too.                        *)
VisitFile_Overrides(p) ==
  /\ IsFileEntry(p)
  /\ records' = Put(records, p.name, FileRecord(p))
  /\ UNCHANGED aliasLinks

(* A regular ELF file, or a link that only the kernel resolves to one.     *)
VisitFile(p) ==
  /\ IsFileEntry(p)
  /\ p.name \notin DOMAIN records
  /\ records' = Put(records, p.name, FileRecord(p))
  /\ UNCHANGED aliasLinks

SkipEntry(p) ==
  /\ ~IsLinkEntry(p)
  /\ IsFileEntry(p) => p.name \in DOMAIN records
  /\ UNCHANGED <<records, aliasLinks>>

VisitEntry ==
  \E p \in unvisited :
    /\ FirstUnvisited(p)
    /\ unvisited' = unvisited \ {p}
    /\ VisitLink(p) \/ VisitFile(p) \/ SkipEntry(p)
    /\ UNCHANGED <<host, roots, visited>>

Next == OpenRoot \/ VisitEntry

Spec == Init /\ [][Next]_vars

Finished == visited = Len(roots) /\ unvisited = {}

-----------------------------------------------------------------------------
(* The loop computes the declared outcome of a scan: for every name the    *)
(* last ELF symlink if there is one, else the first regular ELF file, and  *)
(* under every canonical path exactly the symlinks that lead to it.        *)
ScanComputesLookup ==
  Finished =>
    /\ \A n \in Name :
         Lookup(n, roots) = IF n \in DOMAIN records THEN {records[n]} ELSE {}
    /\ \A c \in Path :
         AliasLinks(c, roots) =
           {[link |-> a.link, target |-> a.target] :
              a \in {b \in aliasLinks : b.canonical = c}}

(* A record taken from a symlink always has that symlink filed under its   *)
(* canonical path: whoever bundles the payload of the record also learns   *)
(* the name it was asked by (the alias list of ResolvedDependency).        *)
AliasIsFiled ==
  \A n \in DOMAIN records :
    /\ records[n].alias.name = n
    /\ IsLinkEntry(records[n].alias) =>
         [canonical |-> records[n].canonical, link |-> records[n].alias,
          target |-> LinkTarget(records[n].alias)] \in aliasLinks

(* Search-root precedence of the loop: a name once bound is never unbound, *)
(* a binding is only ever replaced by a symlink entry, and filed symlinks  *)
(* are never dropped.                                                      *)
OnlyLinksRebind ==
  [][/\ \A n \in DOMAIN records :
          /\ n \in DOMAIN records'
          /\ records'[n] # records[n] => IsLinkEntry(records'[n].alias)
     /\ aliasLinks \subseteq aliasLinks']_vars

=============================================================================
