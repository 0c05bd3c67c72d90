--------------------------- MODULE MCResolverScan ---------------------------
(***************************************************************************)
(* A merged-/usr host: /lib is a symlink to /usr/lib, so every file of     *)
(* /usr/lib is listed under two spellings, and "../share" written in a     *)
(* link of /usr/lib means /usr/share to the kernel but /share to a reader  *)
(* of the spelling /lib/<link>.                                            *)
(***************************************************************************)
EXTENDS ResolverScan, MCHost

MCDirOrder == <<"/lib", "/opt/lib", "/share", "/usr/lib", "/usr/share">>
MCNameOrder == <<"liba.so", "liba.so.1">>

MCDir == ToSet(MCDirOrder)
MCRelDir == {".", "../share"}
MCName == ToSet(MCNameOrder)
MCCanonDir == [d \in MCDir |-> IF d = "/lib" THEN "/usr/lib" ELSE d]
MCLexJoin ==
  [d \in MCDir |-> [r \in MCRelDir |->
     CASE r = "." -> d
       [] r = "../share" /\ d = "/usr/lib" -> "/usr/share"
       [] OTHER -> "/share"]]
MCListed == [d \in MCDir |-> {d}]
MCRank == RankBy(MCDirOrder, MCNameOrder)

MCWorlds == HostsOf(
  File("/usr/lib", "liba.so") :>
    {Absent, Library(<<>>), Sibling("liba.so.1"),
     LinkTo(Rel("../share"), "liba.so.1"), Into("/opt/lib", "liba.so.1")} @@
  File("/usr/lib", "liba.so.1") :>
    {Absent, Library(<<>>), Data, Sibling("liba.so"),
     Into("/opt/lib", "liba.so.1")} @@
  File("/opt/lib", "liba.so") :>
    {Absent, Library(<<>>), Into("/lib", "liba.so")} @@
  File("/opt/lib", "liba.so.1") :>
    {Absent, Library(<<>>), Into("/usr/lib", "liba.so.1")} @@
  File("/usr/share", "liba.so.1") :> {Absent, Library(<<>>)})

MCRootLists == {<<"/lib", "/usr/lib">>, <<"/opt/lib", "/usr/lib">>,
                <<"/usr/lib", "/opt/lib">>, <<"/lib", "/opt/lib", "/lib">>}
MCSystemRoots == <<"/lib", "/usr/lib">>

=============================================================================
