------------------------------- MODULE HostFS -------------------------------
(***************************************************************************)
(* The host file system dynpax reads: ELF files, other files and symlinks  *)
(* in a fixed geography of directories.  A path is a spelling: a directory *)
(* as it was written down and a file name.  Two spellings name the same    *)
(* directory entry when one directory is reached through a directory       *)
(* symlink, e.g. /lib -> usr/lib; CanonDir says which real directory a     *)
(* spelling leads to.                                                      *)
(*                                                                         *)
(* What the code does LEXICALLY (normalize_link_target) and what the       *)
(* kernel does PHYSICALLY (opening a file) are kept apart on purpose: they *)
(* differ when a ".." follows a directory symlink.                         *)
(***************************************************************************)
EXTENDS Naturals, Sequences, FiniteSets, SequencesExt

CONSTANTS
  Dir,        \* spellings of directories
  RelDir,     \* relative directory spellings that occur in links and RUNPATHs
  Name,       \* file names
  CanonDir,   \* the real directory a spelling leads to
  LexJoin,    \* LexJoin[d][r]: the lexically normal form of d/r
  Listed,     \* Listed[d]: spellings a recursive listing of d walks through
  Rank,       \* string order of the spelled paths
  MaxHops,    \* symlinks the kernel follows before it gives up
  NoPath      \* "no such path"

VARIABLE host \* what is stored at each real path that exists

Path == [dir : Dir, name : Name]
RealPath == {p \in Path : CanonDir[p.dir] = p.dir}

(* A directory written in a link or a RUNPATH: absolute, or relative to    *)
(* the directory of its owner.                                             *)
DirRef == [abs : {TRUE}, dir : Dir] \cup [abs : {FALSE}, dir : RelDir]

ElfFile == [kind : {"elf"}, parses : BOOLEAN, needed : Seq(Name),
            runpath : Seq(DirRef), rpath : Seq(DirRef),
            interp : Path \cup {NoPath}]
Symlink == [kind : {"link"}, to : DirRef, name : Name]
DataFile == [kind : {"data"}]
Node == ElfFile \cup Symlink \cup DataFile

ASSUME GeographyAssumption ==
  /\ CanonDir \in [Dir -> Dir]
  /\ \A d \in Dir : CanonDir[CanonDir[d]] = CanonDir[d]
  /\ LexJoin \in [Dir -> [RelDir -> Dir]]
  /\ Listed \in [Dir -> SUBSET Dir]
  /\ Rank \in [Path -> Nat]
  /\ \A p, q \in Path : Rank[p] = Rank[q] => p = q
  /\ MaxHops \in Nat \ {0}
  /\ NoPath \notin Path

HostType == /\ DOMAIN host \subseteq RealPath
            /\ \A p \in DOMAIN host : host[p] \in Node

-----------------------------------------------------------------------------
At(p) == [p EXCEPT !.dir = CanonDir[p.dir]]
Exists(p) == At(p) \in DOMAIN host
IsLink(p) == Exists(p) /\ host[At(p)].kind = "link"

RefDir(d, ref) == IF ref.abs THEN ref.dir ELSE LexJoin[d][ref.dir]

(* normalize_link_target: one hop from the spelled link, lexically.        *)
LinkTarget(p) ==
  LET link == host[At(p)]
  IN  [dir |-> RefDir(p.dir, link.to), name |-> link.name]

(* The kernel's walk from p: the real path of the file an open ends at, or *)
(* NoPath when the chain dangles or is longer than MaxHops.                *)
Walk[hops \in 0..MaxHops] ==
  [p \in Path |->
     IF ~Exists(p) THEN NoPath
     ELSE IF ~IsLink(p) THEN At(p)
     ELSE IF hops = 0 THEN NoPath
     ELSE Walk[hops - 1][LinkTarget(At(p))]]

(* Where an open of p ends, and whether it opens a file there.             *)
Destination(p) ==
  IF IsLink(p) THEN Walk[MaxHops - 1][LinkTarget(At(p))] ELSE At(p)
Opens(p) == Destination(p) \in DOMAIN host

IsElf(p) == Opens(p) /\ host[Destination(p)].kind = "elf"

(* weakly_canonical: the file's real path, or the real directory when the  *)
(* last component does not lead to a file.                                 *)
Canonicalize(p) == IF Opens(p) THEN Destination(p) ELSE At(p)

(* LIEF parses p as an ELF binary.                                         *)
Parses(p) == IsElf(p) /\ host[Destination(p)].parses
Elf(p) == host[Destination(p)]

-----------------------------------------------------------------------------
(* insert_or_assign on a map held as a function.                           *)
Put(f, key, value) ==
  [k \in DOMAIN f \cup {key} |-> IF k = key THEN value ELSE f[k]]
NoEntries == [k \in {} |-> k]

=============================================================================
