---------------------------- MODULE ResolverCache ----------------------------
(***************************************************************************)
(* The populated resolver: populate() scans once and keeps what it found,  *)
(* resolve() reads the roots of the requesting ELF anew on every call but  *)
(* falls back to what was kept, however old that is.                       *)
(***************************************************************************)
EXTENDS Resolver

VARIABLE cached  \* what the kept records answer for a name, at most one answer

CachedType == cached \in [Name -> SUBSET Resolution]

(* What populate() keeps: records and alias lists, joined by name.         *)
Scanned(roots) == [n \in Name |-> ResolveIn(n, roots)]

(* resolve(): the additional roots first, then the kept records.           *)
Resolve(name, additionalRoots) ==
  The(OrElse(ResolveIn(name, additionalRoots),
             OrElse(cached[name], {NoResolution})))

=============================================================================
