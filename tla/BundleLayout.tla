---------------------------- MODULE BundleLayout ----------------------------
(***************************************************************************)
(* Where a manifest entry goes inside the fake root, and the RUNPATH each  *)
(* bundled ELF is to search, under the two layout policies.  Directories   *)
(* here are directories of the bundle; FakeRoot turns them into the        *)
(* relative "$ORIGIN/..." entries that are written.                        *)
(***************************************************************************)
EXTENDS HostFS

CONSTANTS Preserved,  \* host directories below /bin /sbin /usr /opt /lib /lib64
          NoDir       \* "no fallback directory"

FlatLib64 == "flat-lib64"
PreserveSourceTree == "preserve-source-tree"
Policy == {FlatLib64, PreserveSourceTree}

Kind == {"Executable", "SharedObject", "Interpreter", "SymlinkAlias"}

ASSUME LayoutAssumption ==
  /\ {"/bin", "/lib64", "/usr/lib"} \subseteq Dir
  /\ {"/bin", "/lib64", "/usr/lib"} \subseteq Preserved
  /\ Preserved \subseteq Dir
  /\ NoDir \notin Dir

-----------------------------------------------------------------------------
ShouldPreserveSourcePath(p) == p.dir \in Preserved

(* Mutation: only shared objects go to /lib64.                            *)
FlatBundlePath_OnlyObjects(kind, p) ==
  [p EXCEPT !.dir = IF kind = "SharedObject" THEN "/lib64" ELSE "/bin"]

FlatBundlePath(kind, p) ==
  [p EXCEPT !.dir = IF kind = "Executable" THEN "/bin" ELSE "/lib64"]

(* Mutation: the fallback directory is used without a default.            *)
FallbackPath_NoDefault(kind, p, fallback) ==
  [p EXCEPT !.dir = IF kind = "Executable" THEN "/bin" ELSE fallback]

FallbackPath(kind, p, fallback) ==
  [p EXCEPT !.dir = CASE kind = "Executable" -> "/bin"
                      [] kind # "Executable" /\ fallback # NoDir -> fallback
                      [] OTHER -> "/usr/lib"]

(* Mutation: nothing is preserved.                                        *)
BundlePathFor_PreservesNothing(policy, kind, p, fallback) ==
  IF policy = FlatLib64 THEN FlatBundlePath(kind, p)
  ELSE FallbackPath(kind, p, fallback)

BundlePathFor(policy, kind, p, fallback) ==
  IF policy = FlatLib64 THEN FlatBundlePath(kind, p)
  ELSE IF ShouldPreserveSourcePath(p) THEN p
  ELSE FallbackPath(kind, p, fallback)

-----------------------------------------------------------------------------
AppendUnique(dirs, d) == IF Contains(dirs, d) THEN dirs ELSE Append(dirs, d)

(* Mutation: only the first directory is kept.                            *)
BundledLibraryDirectories_First(manifest, policy) ==
  LET objects == SelectSeq(manifest, LAMBDA e : e.kind = "SharedObject")
  IN  IF policy = FlatLib64 \/ objects = <<>> THEN <<"/lib64">>
      ELSE <<objects[1].bundled.dir>>

(* Only SharedObject entries contribute: not aliases, not the interpreter. *)
BundledLibraryDirectories(manifest, policy) ==
  LET found[n \in 0..Len(manifest)] ==
        IF n = 0 THEN <<>>
        ELSE IF manifest[n].kind = "SharedObject"
             THEN AppendUnique(found[n - 1], manifest[n].bundled.dir)
             ELSE found[n - 1]
      dirs == found[Len(manifest)]
  IN  IF policy = FlatLib64 \/ dirs = <<>> THEN <<"/lib64">> ELSE dirs

BundleRunpath(manifest, entry, policy) ==
  IF entry.kind \in {"Executable", "SharedObject"}
  THEN BundledLibraryDirectories(manifest, policy)
  ELSE <<>>

(* What every flat bundle carries so that a chroot works: directories and  *)
(* directory symlinks, as paths below the root.                            *)
CompatibilityDirectories(policy) ==
  IF policy = FlatLib64 THEN <<<<"bin">>, <<"lib64">>, <<"usr">>>> ELSE <<>>

CompatibilitySymlinks(policy) ==
  IF policy = FlatLib64
  THEN <<[at |-> <<"lib">>, to |-> <<"lib64">>],
         [at |-> <<"usr", "lib">>, to |-> <<"..", "lib64">>],
         [at |-> <<"usr", "lib64">>, to |-> <<"..", "lib64">>]>>
  ELSE <<>>

=============================================================================
