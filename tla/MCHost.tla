------------------------------- MODULE MCHost -------------------------------
(***************************************************************************)
(* Building blocks for small host file systems: what a real path may hold, *)
(* and the hosts that choices of that kind describe.                       *)
(***************************************************************************)
EXTENDS HostFS

Index(seq, x) == CHOOSE i \in DOMAIN seq : seq[i] = x

(* Strings sort by directory first as long as no name sorts below "/".     *)
RankBy(dirOrder, nameOrder) ==
  [p \in [dir : ToSet(dirOrder), name : ToSet(nameOrder)] |->
     100 * Index(dirOrder, p.dir) + Index(nameOrder, p.name)]

File(d, n) == [dir |-> d, name |-> n]
Abs(d) == [abs |-> TRUE, dir |-> d]
Rel(r) == [abs |-> FALSE, dir |-> r]

Library(needed) ==
  [kind |-> "elf", parses |-> TRUE, needed |-> needed,
   runpath |-> <<>>, rpath |-> <<>>, interp |-> NoPath]
Corrupt == [Library(<<>>) EXCEPT !.parses = FALSE]
LinkTo(ref, n) == [kind |-> "link", to |-> ref, name |-> n]
Sibling(n) == LinkTo(Rel("."), n)
Into(d, n) == LinkTo(Abs(d), n)
Data == [kind |-> "data"]
Absent == [kind |-> "absent"]

Holding(h, p, node) == IF node = Absent THEN h ELSE Put(h, p, node)

(* Every host in which path p holds one of options[p].                     *)
HostsOf(options) ==
  FoldSet(LAMBDA p, hosts : {Holding(h, p, o) : h \in hosts, o \in options[p]},
          {NoEntries}, DOMAIN options)

=============================================================================
