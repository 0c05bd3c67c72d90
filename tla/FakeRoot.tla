------------------------------ MODULE FakeRoot ------------------------------
(***************************************************************************)
(* The output directory: a tree of directories, files made from host ELF   *)
(* files and relative symlinks.  A bundle path is only where the code      *)
(* wants an entry; where it ends up is for the kernel to say, which        *)
(* follows the symlinks the root holds, the compatibility symlinks of the  *)
(* flat layout among them.                                                 *)
(*                                                                         *)
(* Nothing here replaces a file atomically: a copy or a rewrite is written *)
(* to whatever the destination leads to, through symlinks.                 *)
(***************************************************************************)
EXTENDS BundleLayout

CONSTANT Components  \* the components of a directory, from the root down

VARIABLE root        \* what is stored at each location of the tree

Component ==
  (UNION {ToSet(Components[d]) : d \in Dir}) \cup {"bin", "lib64", "lib", "usr"}
Location == Seq(Component \cup Name)
RelPath == Seq(Component \cup Name \cup {".."})

(* Where a path leads when it leads to no place in the root.               *)
Nowhere == <<"">>
Outside == <<"..">>

ASSUME RootAssumption ==
  /\ DOMAIN Components = Dir
  /\ \A d \in Dir : Components[d] \in Location \ {<<>>}
  /\ \A d, e \in Dir : Components[d] = Components[e] => d = e
  /\ {"", ".."} \cap (Component \cup Name) = {}
  /\ Components["/bin"] = <<"bin">> /\ Components["/lib64"] = <<"lib64">>

DirNode == [kind |-> "dir"]
LinkNode(to) == [kind |-> "link", to |-> to]

(* A file: does LIEF parse it, are all bytes there that were to be there,  *)
(* which host file is it made from, and what LIEF reads in it.             *)
BundleFile == [kind : {"file"}, parses : BOOLEAN, whole : BOOLEAN, source : Path,
               runpath : Seq(DirRef \cup [origin : RelPath]),
               rpath : Seq(DirRef \cup [text : {""}]),
               interp : Path \cup {NoPath}]
BundleLink == [kind : {"link"}, to : RelPath]

IsDirectory(t, l) == l = <<>> \/ (l \in DOMAIN t /\ t[l] = DirNode)

(* A tree: whatever it holds is in a directory it holds.                   *)
Tree(t) ==
  \A l \in DOMAIN t :
    /\ l \in Location \ {<<>>}
    /\ t[l] \in BundleFile \cup BundleLink \cup {DirNode}
    /\ IsDirectory(t, Front(l))
RootType == Tree(root)

-----------------------------------------------------------------------------
LocationOf(p) == Append(Components[p.dir], p.name)

(* lexically_relative on normal forms.                                     *)
Relative(to, from) ==
  LET shared == Max({n \in 0..Len(from) : IsPrefix(SubSeq(from, 1, n), to)})
  IN  [i \in 1..(Len(from) - shared) |-> ".."] \o SubSeq(to, shared + 1, Len(to))

LinkText(p, target) == Relative(LocationOf(target), Components[p.dir])

(* make_origin_runpath_entry, and the one entry the flat layout writes.    *)
Origin(owner, d) == [origin |-> Relative(Components[d], Components[owner.dir])]
FlatOrigin == [origin |-> <<"..", "lib64">>]

-----------------------------------------------------------------------------
(* The kernel's walk: where it is, what is ahead of it, and how many       *)
(* symlinks it may still follow.                                           *)
WalkState == [hops : 0..MaxHops, at : Location, ahead : RelPath]

Here(s) == Append(s.at, Head(s.ahead))
OnLink(t, s) ==
  Head(s.ahead) # ".." /\ Here(s) \in DOMAIN t /\ t[Here(s)].kind = "link"

(* The walk is over; the last component need not exist.  A chroot stays    *)
(* below the root where a plain process leaves it.                         *)
Leaves(s) == s.at = <<>> /\ Head(s.ahead) = ".."
Halts(t, chroot, s) ==
  \/ s.ahead = <<>> \/ ~IsDirectory(t, s.at)
  \/ Leaves(s) /\ ~chroot
  \/ OnLink(t, s) /\ s.hops = 0
Reached(t, s) ==
  CASE s.ahead = <<>> -> s.at
    [] s.ahead # <<>> /\ Leaves(s) -> Outside
    [] OTHER -> Nowhere

Advance(t, s) ==
  IF OnLink(t, s)
  THEN [s EXCEPT !.hops = @ - 1, !.ahead = t[Here(s)].to \o Tail(@)]
  ELSE [s EXCEPT !.at = CASE Head(s.ahead) # ".." -> Here(s)
                          [] Leaves(s) -> @
                          [] OTHER -> Front(@),
                 !.ahead = Tail(@)]

Walks(t, chroot) ==
  LET walk[s \in WalkState] ==
        IF Halts(t, chroot, s) THEN Reached(t, s) ELSE walk[Advance(t, s)]
  IN  walk
Walking(t, chroot, from, path) ==
  Walks(t, chroot)[[hops |-> MaxHops, at |-> from, ahead |-> path]]

Follow(t, path) == Walking(t, FALSE, <<>>, path)
End(t, p) == Follow(t, LocationOf(p))
Bundled(t, p) == End(t, p) \in DOMAIN t

(* The location create_directories makes of a path: what exists of it is   *)
(* followed, the rest is appended.                                         *)
Onto(t, here) ==
  IF IsDirectory(t, Follow(t, here)) THEN Follow(t, here) ELSE here
MadeAt(t, path) ==
  LET made[n \in 0..Len(path)] ==
        IF n = 0 THEN <<>> ELSE Onto(t, Append(made[n - 1], path[n]))
  IN  made[Len(path)]

(* What the root holds stays, what it does not hold yet is added.          *)
Added(t, new) ==
  [l \in DOMAIN t \cup DOMAIN new |-> IF l \in DOMAIN t THEN t[l] ELSE new[l]]

(* create_directories fails where something else is in the way.            *)
Obstructed(t, path) ==
  \E l \in Prefixes(MadeAt(t, path)) : l \in DOMAIN t /\ t[l] # DirNode
MakeDirectories(t, path) ==
  IF Obstructed(t, path) THEN t
  ELSE Added(t, [l \in Prefixes(MadeAt(t, path)) \ {<<>>} |-> DirNode])

(* The directory entry of a bundle path, not followed if it is a symlink.  *)
Place(t, p) == Append(MadeAt(t, Components[p.dir]), p.name)

-----------------------------------------------------------------------------
(* An open for writing at p creates a file, even through a dangling        *)
(* symlink, wherever the path leads if the directory is there.  That of p  *)
(* itself was just made; directories outside the root are taken to be      *)
(* missing.                                                                *)
Writable(t, p) == End(t, p) \notin {Nowhere, Outside} /\ ~IsDirectory(t, End(t, p))

WriteAt(t, p, file) == IF Writable(t, p) THEN Put(t, End(t, p), file) ELSE t

CopyOf(source) ==
  IF Parses(source)
  THEN [kind |-> "file", parses |-> TRUE, whole |-> TRUE,
        source |-> Destination(source),
        runpath |-> Elf(source).runpath, rpath |-> Elf(source).rpath,
        interp |-> Elf(source).interp]
  ELSE [kind |-> "file", parses |-> FALSE, whole |-> TRUE,
        source |-> Destination(source),
        runpath |-> <<>>, rpath |-> <<>>, interp |-> NoPath]

(* An empty file, or one cut off in its headers.                           *)
Truncated(source) ==
  [kind |-> "file", parses |-> FALSE, whole |-> FALSE, source |-> source,
   runpath |-> <<>>, rpath |-> <<>>, interp |-> NoPath]

(* What is left of a file when its writing is cut short.  Behind the       *)
(* headers strings may be missing that they refer to, or nothing that LIEF *)
(* reads back: then only the bytes tell that the file is not whole.        *)
CutOff(file) ==
  {Truncated(file.source)} \cup
  {[file EXCEPT !.whole = FALSE, !.runpath = texts, !.interp = path] :
     texts \in {<<>>, file.runpath}, path \in {NoPath, file.interp}}

(* Mutation: a file that is there already is not copied again.            *)
CopyTo_Keeps(t, source, p) ==
  IF Bundled(t, p) THEN t ELSE WriteAt(t, p, CopyOf(source))

(* copy_file with overwrite_existing.                                      *)
CopyTo(t, source, p) == WriteAt(t, p, CopyOf(source))
TouchTo(t, source, p) == WriteAt(t, p, Truncated(source))

(* remove, then create_symlink; Removed is what a cut between them leaves. *)
(* A directory is only removed when it is empty.                           *)
Linkable(t, p) ==
  /\ IsDirectory(t, Front(Place(t, p)))
  /\ \A l \in DOMAIN t : Front(l) # Place(t, p)
Removed(t, p) ==
  IF Linkable(t, p) THEN [l \in DOMAIN t \ {Place(t, p)} |-> t[l]] ELSE t
SymlinkTo(t, p, target) ==
  IF Linkable(t, p) THEN Put(t, Place(t, p), LinkNode(LinkText(p, target))) ELSE t

-----------------------------------------------------------------------------
(* create_directories and ensure_directory_symlink, in this order.  What   *)
(* the symlinks lead to is made first, so that a path exists when the tree *)
(* has an entry there, and whatever that is is taken for the symlink.  No  *)
(* alias is planned at the top of the root: what is there is a directory   *)
(* or makes create_directories fail.                                       *)
BootstrapSteps(policy) ==
  LET dirs == CompatibilityDirectories(policy)
      links == CompatibilitySymlinks(policy)
  IN  [i \in DOMAIN dirs |-> <<dirs[i], DirNode>>]
      \o [i \in DOMAIN links |-> <<links[i].at, LinkNode(links[i].to)>>]

Bootable(t, policy) ==
  \A dir \in ToSet(CompatibilityDirectories(policy)) :
    dir \in DOMAIN t => t[dir] = DirNode

Ensured(t, steps) ==
  LET at == {step[1] : step \in ToSet(steps)}
  IN  Added(t, [l \in at |-> (CHOOSE step \in ToSet(steps) : step[1] = l)[2]])

Bootstrap(t, policy) ==
  IF Bootable(t, policy) THEN Ensured(t, BootstrapSteps(policy)) ELSE t
BootstrapCut(t, policy) ==
  {t} \cup (IF Bootable(t, policy)
            THEN {Ensured(t, steps) : steps \in Prefixes(BootstrapSteps(policy))}
            ELSE {})

-----------------------------------------------------------------------------
(* Where the flat layout has directories and directory symlinks, and where *)
(* a path can end up in a root that this layout has been in.               *)
Redirected == {link.at : link \in ToSet(CompatibilitySymlinks(FlatLib64))}
LayoutPlaces == Redirected \cup ToSet(CompatibilityDirectories(FlatLib64))
Turned(path, r) == <<"lib64">> \o SubSeq(path, Len(r) + 1, Len(path))
Spots(path) ==
  {path} \cup {Turned(path, r) : r \in {d \in Redirected : IsPrefix(d, path)}}

=============================================================================
