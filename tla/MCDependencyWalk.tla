-------------------------- MODULE MCDependencyWalk --------------------------
(***************************************************************************)
(* One executable outside the system trees, libraries in a system root, in *)
(* a version directory of /opt and in a directory only a RUNPATH names,    *)
(* and a loader behind a symlink, as Debian has it.                        *)
(***************************************************************************)
EXTENDS DependencyWalk, MCHost

MCDirOrder ==
  <<"/app", "/bin", "/home/lib", "/lib", "/lib64", "/opt/a", "/opt/v",
    "/usr/home/lib", "/usr/lib">>
MCNameOrder == <<"app", "ld.so", "liba.so", "liba.so.1", "libb.so", "libc.so.6">>

MCDir == ToSet(MCDirOrder)
MCRelDir == {".", "../home/lib"}
MCName == ToSet(MCNameOrder)
MCCanonDir == [d \in MCDir |-> IF d = "/lib" THEN "/usr/lib" ELSE d]
MCLexJoin == [d \in MCDir |-> [r \in MCRelDir |->
                CASE r = "." -> d
                  [] r = "../home/lib" /\ d = "/usr/lib" -> "/usr/home/lib"
                  [] OTHER -> "/home/lib"]]
MCListed == [d \in MCDir |-> {d}]
MCRank == RankBy(MCDirOrder, MCNameOrder)
MCPreserved == {"/bin", "/lib", "/lib64", "/opt/a", "/opt/v", "/usr/lib"}
MCSystemRoots == <<"/lib", "/lib64", "/usr/lib">>

AppPath == File("/app", "app")
BinPath == File("/bin", "app")
LibPath == File("/usr/lib", "libb.so")
MCTargets == {AppPath, BinPath, LibPath}

App(needed, refs) ==
  [Library(needed) EXCEPT !.runpath = refs, !.interp = File("/lib64", "ld.so")]

Loader ==
  File("/lib64", "ld.so") :> {Into("/usr/lib", "ld.so")} @@
  File("/usr/lib", "ld.so") :> {Library(<<>>)} @@
  File("/usr/lib", "libc.so.6") :> {Library(<<"ld.so">>)}

(* Aliases, cycles, a missing and an unparseable library, a library that   *)
(* the RUNPATH directory shadows, and an alias chain through a directory   *)
(* nobody scans.                                                           *)
Libraries ==
  File("/usr/lib", "liba.so") :> {Sibling("liba.so.1"), Library(<<"libb.so">>)} @@
  File("/usr/lib", "liba.so.1") :> {Library(<<>>), Library(<<"libb.so">>), Corrupt} @@
  File("/usr/lib", "libb.so") :>
    {Absent, Library(<<"liba.so", "liba.so.1">>), Into("/opt/v", "libb.so")} @@
  File("/opt/v", "libb.so") :>
    {Library(<<"liba.so.1", "libc.so.6">>), Into("/home/lib", "libb.so")} @@
  File("/home/lib", "libb.so") :> {Library(<<"liba.so">>)} @@
  File("/home/lib", "liba.so") :>
    {Absent, Library(<<"libb.so">>), Into("/usr/lib", "liba.so.1")}

(* /lib is a symlink to usr/lib: the relative symlink listed as            *)
(* /lib/libb.so has another target than as /usr/lib/libb.so.               *)
MergedWorlds ==
  HostsOf(Loader @@
    BinPath :> {App(<<"libc.so.6", "liba.so">>, <<Abs("/opt/a")>>),
                App(<<"liba.so", "libb.so">>, <<Abs("/opt/a")>>)} @@
    File("/opt/a", "liba.so") :> {Into("/lib", "libb.so")} @@
    File("/usr/lib", "libb.so") :> {LinkTo(Rel("../home/lib"), "libb.so")} @@
    File("/home/lib", "libb.so") :>
      {Absent, Library(<<"libc.so.6">>), Into("/usr/lib", "libc.so.6")} @@
    File("/usr/home/lib", "libb.so") :> {Library(<<>>)})

MCWorlds ==
  MergedWorlds \cup
  HostsOf(Loader @@ Libraries @@ AppPath :>
    {App(<<"liba.so">>, <<>>), App(<<"liba.so">>, <<Rel("../home/lib")>>),
     App(<<"libc.so.6", "libb.so">>, <<Rel("../home/lib")>>)})
  \cup
  HostsOf(Loader @@ Libraries @@ BinPath :> {App(<<"libb.so", "liba.so">>, <<>>)})

(* A vendor tree: the library lives in a version directory, and the name   *)
(* it is imported by is a symlink in the directory the RUNPATH names.      *)
VendorWorlds ==
  HostsOf(Loader @@
    BinPath :> {App(<<"liba.so", "libc.so.6">>, <<Abs("/opt/a")>>)} @@
    File("/opt/a", "liba.so") :> {Into("/opt/v", "liba.so.1")} @@
    File("/opt/v", "liba.so.1") :> {Library(<<>>)})

(* A C library that imports the loader, and the loader behind a symlink.   *)
LoaderWorlds == HostsOf(Loader @@ BinPath :> {App(<<"libc.so.6">>, <<>>)})

=============================================================================
