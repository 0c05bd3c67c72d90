------------------------------ MODULE MCDynpax ------------------------------
(***************************************************************************)
(* Two executables of one name and a third, libraries they share, and one  *)
(* fake root.                                                              *)
(***************************************************************************)
EXTENDS Dynpax, MCHost

MCDirOrder ==
  <<"/app", "/bin", "/home/lib", "/lib64", "/opt/a", "/usr/lib",
    "/usr/lib/app", "/usr/local/lib">>
MCNameOrder == <<"app", "ld.so", "liba.so", "liba.so.1", "liba.so.2",
                 "libb.so", "tool">>

MCDir == ToSet(MCDirOrder)
MCComponents ==
  "/app" :> <<"app">> @@ "/bin" :> <<"bin">> @@ "/home/lib" :> <<"home", "lib">> @@
  "/lib64" :> <<"lib64">> @@ "/opt/a" :> <<"opt", "a">> @@
  "/usr/lib" :> <<"usr", "lib">> @@
  "/usr/lib/app" :> <<"usr", "lib", "app">> @@ "/usr/local/lib" :> <<"usr", "local", "lib">>
MCRelDir == {"."}
MCName == ToSet(MCNameOrder)
MCCanonDir == [d \in MCDir |-> d]
MCLexJoin == [d \in MCDir |-> [r \in MCRelDir |-> d]]
MCListed == [d \in MCDir |-> {d}]
MCRank == RankBy(MCDirOrder, MCNameOrder)
MCPreserved ==
  {"/bin", "/lib64", "/opt/a", "/usr/lib", "/usr/lib/app", "/usr/local/lib"}
MCSystemRoots == <<"/lib64", "/usr/lib">>

AppPath == File("/app", "app")
BinPath == File("/bin", "app")
ToolPath == File("/bin", "tool")
MCTargets == {AppPath, BinPath, ToolPath}

Linked(needed, refs, loaderDir) ==
  [Library(needed) EXCEPT !.runpath = refs, !.interp = File(loaderDir, "ld.so")]

Loader ==
  File("/lib64", "ld.so") :> {Into("/usr/lib", "ld.so")} @@
  File("/usr/lib", "ld.so") :> {Library(<<>>)}

(* liba.so is an alias in the system directories.                          *)
Common(loaderDir) ==
  Loader @@
  File("/usr/lib", "liba.so") :> {Sibling("liba.so.1")} @@
  BinPath :> {Linked(<<"liba.so", "liba.so.1">>, <<>>, loaderDir)} @@
  ToolPath :> {Linked(<<"liba.so">>, <<Abs("/home/lib")>>, loaderDir)}

(* Nothing collides under either layout.                                   *)
PlainWorlds ==
  HostsOf(Common("/usr/lib") @@
    File("/usr/lib", "liba.so.1") :> {Library(<<"libb.so">>)} @@
    File("/usr/lib", "libb.so") :>
      {[Library(<<>>) EXCEPT !.rpath = <<Abs("/home/lib")>>]})

(* liba.so is a real file where the RUNPATH of the tool leads, and a       *)
(* library imports the loader and has a legacy RPATH.                      *)
VendorWorlds ==
  HostsOf(Common("/lib64") @@
    File("/usr/lib", "liba.so.1") :> {Library(<<"libb.so">>)} @@
    File("/usr/lib", "libb.so") :>
      {[Library(<<"ld.so">>) EXCEPT !.rpath = <<Abs("/home/lib")>>]} @@
    File("/home/lib", "liba.so") :> {Library(<<"libb.so">>)})

(* Libraries of two trees that import each other, one through an alias,    *)
(* and a loader of its own in a directory that is not preserved.           *)
TwoTreeWorlds ==
  HostsOf(Common("/home/lib") @@
    File("/home/lib", "ld.so") :> {Library(<<>>)} @@
    File("/usr/lib", "liba.so.1") :> {Library(<<"libb.so">>)} @@
    File("/usr/lib", "libb.so") :> {Into("/opt/a", "libb.so")} @@
    File("/opt/a", "libb.so") :> {Library(<<"liba.so.1">>)})

(* The alias leads to a file that cannot be parsed.                        *)
CorruptWorlds == HostsOf(Common("/usr/lib") @@ File("/usr/lib", "liba.so.1") :> {Corrupt})

(* The tool needs a library that is missing, the other target does not.    *)
MissingWorlds ==
  HostsOf(Common("/usr/lib") @@
    File("/usr/lib", "liba.so.1") :> {Library(<<>>)} @@
    File("/home/lib", "liba.so") :> {Library(<<"libb.so">>)})

(* A plugin called app from a directory that is not preserved is to go     *)
(* where app has its private libraries.                                    *)
PluginWorlds ==
  HostsOf(
    ToolPath :> {Linked(names, <<Abs("/home/lib"), Abs("/usr/lib/app")>>, "/usr/lib") :
                   names \in {<<"app", "libb.so">>, <<"libb.so", "app">>}} @@
    File("/home/lib", "app") :> {Library(<<>>), Into("/home/lib", "liba.so")} @@
    File("/home/lib", "liba.so") :> {Library(<<>>)} @@
    File("/usr/lib/app", "libb.so") :> {Library(<<>>)} @@
    BinPath :> {Linked(<<>>, <<>>, "/usr/lib")} @@ Loader)

MCWorlds ==
  PluginWorlds \cup
  PlainWorlds \cup VendorWorlds \cup TwoTreeWorlds \cup CorruptWorlds
    \cup MissingWorlds
MCCommands == {<<BinPath, ToolPath>>, <<ToolPath, BinPath>>}

(* A library in /usr/local, and one reached through an alias that leads to *)
(* another tree: under preserve-source-tree the texts that are written     *)
(* climb out of /usr/lib.                                                  *)
LayoutWorlds ==
  HostsOf(Common("/usr/lib") @@
    File("/usr/lib", "liba.so.1") :>
      {[Library(<<"libb.so">>) EXCEPT !.runpath = <<Abs("/usr/local/lib")>>]} @@
    File("/usr/local/lib", "libb.so") :> {Absent, Library(<<>>)} @@
    File("/usr/lib", "libb.so") :> {Into("/opt/a", "libb.so"), Library(<<>>)} @@
    File("/opt/a", "libb.so") :> {Library(<<>>)})

(* liba.so leads to one file, then to another, and the first is removed;   *)
(* libb.so is there in one version of the host only.                       *)
Version(file, more) ==
  HostsOf(Loader @@ more @@
    File("/usr/lib", "liba.so") :> {Sibling(file)} @@
    File("/usr/lib", file) :> {Library(<<"libb.so">>)} @@
    BinPath :> {Linked(<<"libb.so">>, <<>>, "/usr/lib")} @@
    ToolPath :> {Linked(<<"liba.so">>, <<Abs("/home/lib")>>, "/usr/lib")})
InSystem == File("/usr/lib", "libb.so") :> {Library(<<>>)}
OfVendor == File("/opt/a", "libb.so") :> {Library(<<>>)} @@
            File("/usr/lib", "libb.so") :> {Into("/opt/a", "libb.so")}
OldWorlds == Version("liba.so.1", InSystem)
NewWorlds == Version("liba.so.2", InSystem) \cup Version("liba.so.2", OfVendor)
VersionWorlds == OldWorlds \cup NewWorlds
MCUpgrades == (OldWorlds \X NewWorlds) \cup (NewWorlds \X OldWorlds)

(* Both executables are called app and both are to go to /bin.             *)
NamesakeCommands == {<<AppPath, BinPath>>}
NamesakeWorlds ==
  HostsOf(Loader @@
    File("/usr/lib", "libb.so") :> {Library(<<>>)} @@
    AppPath :> {Linked(<<"libb.so">>, <<>>, "/lib64")} @@
    BinPath :> {Linked(<<"libb.so">>, <<>>, "/lib64")})

=============================================================================
