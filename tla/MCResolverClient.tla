-------------------------- MODULE MCResolverClient --------------------------
(***************************************************************************)
(* A library in a system directory, one in a directory that only ld.so.conf*)
(* or LD_LIBRARY_PATH names, and an alias that may lead to either.         *)
(***************************************************************************)
EXTENDS ResolverClient, MCHost

MCDirOrder == <<"/lib", "/opt/lib", "/usr/lib">>
MCNameOrder == <<"liba.so", "liba.so.1">>

MCDir == ToSet(MCDirOrder)
MCRelDir == {"."}
MCName == ToSet(MCNameOrder)
MCCanonDir == [d \in MCDir |-> IF d = "/lib" THEN "/usr/lib" ELSE d]
MCLexJoin == [d \in MCDir |-> [r \in MCRelDir |-> d]]
MCListed == [d \in MCDir |-> {d}]
MCRank == RankBy(MCDirOrder, MCNameOrder)
MCSystemRoots == <<"/lib", "/usr/lib">>

MCWorlds == HostsOf(
  File("/usr/lib", "liba.so") :>
    {Absent, Library(<<>>), Sibling("liba.so.1"), Into("/opt/lib", "liba.so.1")} @@
  File("/usr/lib", "liba.so.1") :> {Absent, Library(<<>>)} @@
  File("/opt/lib", "liba.so") :> {Absent, Library(<<>>), Sibling("liba.so.1")} @@
  File("/opt/lib", "liba.so.1") :> {Absent, Library(<<>>)})

MCConfigs == {<<>>, <<<<OtherLine>>, <<"/opt/lib", OtherLine>>>>}
MCEnvironments == {<<OtherLine, "/opt/lib">>, <<>>}
Options(d, c, e, roots) ==
  [defaults |-> d, ldConfig |-> c, environment |-> e, roots |-> roots]
MCSettings ==
  {Options(TRUE, TRUE, TRUE, <<>>), Options(FALSE, FALSE, FALSE, <<"/opt/lib">>)}
MCRequests == {<<>>, <<"/opt/lib">>, <<"/usr/lib", "/opt/lib">>}

=============================================================================
