------------------------- MODULE MCDirectoryListing -------------------------
(***************************************************************************)
(* A library directory with a symlink to itself, or to its parent, or to a *)
(* directory elsewhere that leads back.                                    *)
(***************************************************************************)
EXTENDS DirectoryListing

File(n) == [name |-> n, node |-> "file"]
Sub(n, d) == [name |-> n, node |-> "dir", to |-> d]
Link(n, d) == [name |-> n, node |-> "link", to |-> d]

Tree(inLib, inSub, elsewhere) ==
  [d \in {"lib", "sub", "locked", "opt"} |->
     CASE d = "lib" -> {File("liba.so"), Sub("sub", "sub")} \cup inLib
       [] d = "sub" -> {File("libb.so")} \cup inSub
       [] d = "locked" -> {File("libc.so")}
       [] d = "opt" -> {File("libd.so")} \cup elsewhere]

MCTrees ==
  {Tree(l, s, o) : l \in {{}, {Link("self", "lib")}, {Sub("locked", "locked")}},
                   s \in {{}, {Link("up", "lib")}, {Link("opt", "opt")}},
                   o \in {{}, {Link("back", "lib")}}}
MCRoots == {[dir |-> "lib", hops |-> h] : h \in {0, 1}}

=============================================================================
