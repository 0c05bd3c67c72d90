------------------------------ MODULE Resolver ------------------------------
(***************************************************************************)
(* Library lookup.  A scan of a list of search roots visits every listed   *)
(* entry, root after root and in string order within a root.  A symlink    *)
(* whose one-hop target is an ELF file always takes over the record of its *)
(* name, so the LAST such symlink wins; a regular ELF file only gets a     *)
(* name that has no record yet, so the FIRST one wins and never against a  *)
(* symlink.  Every accepted symlink is also filed under the canonical path *)
(* of the file it leads to.                                                *)
(*                                                                         *)
(* This module states the outcome of a scan; ResolverScan models the loop  *)
(* and is checked to compute it.                                           *)
(***************************************************************************)
EXTENDS HostFS

CONSTANTS SystemRoots,   \* collectSearchDirs(): the roots populate() scans
          NoResolution   \* "not found"

Link == [link : Path, target : Path]
Record == [alias : Path, canonical : Path]
Resolution == [name : Name, alias : Path, canonical : Path,
               links : SUBSET Link]

ASSUME ResolverAssumption ==
  /\ SystemRoots \in Seq(Dir)
  /\ NoResolution \notin Resolution

-----------------------------------------------------------------------------
(* An optional value is a set of at most one element.                      *)
OrElse(optional, default) == IF optional # {} THEN optional ELSE default
The(optional) == CHOOSE x \in optional : TRUE

-----------------------------------------------------------------------------
(* What collect_sorted_paths(root) lists, files only.                      *)
Entries(root) == {p \in [dir : Listed[root], name : Name] : Exists(p)}

IsLinkEntry(p) == IsLink(p) /\ IsElf(LinkTarget(p))
IsFileEntry(p) == ~IsLinkEntry(p) /\ IsElf(p)

LinkRecord(p) == [alias |-> p, canonical |-> Canonicalize(LinkTarget(p))]
FileRecord(p) == [alias |-> p, canonical |-> Canonicalize(p)]

-----------------------------------------------------------------------------
(* Visits of a scan: entry p of the i-th root, in the order of the loop.   *)
(* A list of roots is a function on indices; it may have gaps.             *)
Visits(roots) ==
  UNION {{<<i, p>> : p \in Entries(roots[i])} : i \in DOMAIN roots}

NotAfter(v, w) == \/ v[1] < w[1]
                  \/ v[1] = w[1] /\ Rank[v[2]] <= Rank[w[2]]

LinkVisits(name, roots) ==
  {v \in Visits(roots) : v[2].name = name /\ IsLinkEntry(v[2])}
FileVisits(name, roots) ==
  {v \in Visits(roots) : v[2].name = name /\ IsFileEntry(v[2])}

LastOf(visits) == {v \in visits : \A w \in visits : NotAfter(w, v)}
FirstOf(visits) == {v \in visits : \A w \in visits : NotAfter(v, w)}

(* The record (at most one) a finished scan holds for a name.              *)
Lookup(name, roots) ==
  OrElse({LinkRecord(v[2]) : v \in LastOf(LinkVisits(name, roots))},
         {FileRecord(v[2]) : v \in FirstOf(FileVisits(name, roots))})

(* Mutation: the alias lists of all payloads are merged.                  *)
AliasLinks_Merged(canonical, roots) ==
  {[link |-> v[2], target |-> LinkTarget(v[2])] :
     v \in {w \in Visits(roots) : IsLinkEntry(w[2])}}

(* The symlinks a finished scan has filed under a canonical path.          *)
AliasLinks(canonical, roots) ==
  {[link |-> v[2], target |-> LinkTarget(v[2])] :
     v \in {w \in Visits(roots) :
              /\ IsLinkEntry(w[2])
              /\ LinkRecord(w[2]).canonical = canonical}}

ResolveIn(name, roots) ==
  {[name |-> name, alias |-> r.alias, canonical |-> r.canonical,
    links |-> AliasLinks(r.canonical, roots)] : r \in Lookup(name, roots)}

=============================================================================
