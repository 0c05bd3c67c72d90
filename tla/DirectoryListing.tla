-------------------------- MODULE DirectoryListing --------------------------
(***************************************************************************)
(* collect_sorted_paths: a recursive listing that follows directory        *)
(* symlinks.  The iterator is a stack of open directories; it lists every  *)
(* entry of the top one, in whatever order the system returns them, and    *)
(* enters an entry before it goes on when that is a directory, a symlink   *)
(* to one included.  What ends the recursion on a cycle of symlinks is the *)
(* system alone: a path with more than MaxSymlinks symlinks is no          *)
(* directory.  The names in a directory differ, so a path below the root   *)
(* is the sequence of the entries it goes through.                         *)
(***************************************************************************)
EXTENDS Naturals, Sequences, FiniteSets, SequencesExt

CONSTANTS Trees,       \* entries of each real directory: name, node, where to
          Roots,       \* directories to list, with the symlinks in their path
          Unreadable,  \* real directories that may not be opened
          MaxSymlinks  \* symlinks the system follows in one path

VARIABLES tree,     \* the host's directories
          root,     \* the search root
          stack,    \* open directories: path, symlinks in it, entries left
          pending,  \* the last listed entry, not yet entered
          paths,    \* what has been listed
          outcome   \* "listing", "returned" or "thrown"

listVars == <<tree, root, stack, pending, paths, outcome>>

ASSUME ListingAssumption ==
  /\ MaxSymlinks \in Nat
  /\ \A t \in Trees : \A d \in DOMAIN t : \A e \in t[d] :
       /\ e.node \in {"file", "dir", "link"}
       /\ e.node # "file" => e.to \in DOMAIN t
       /\ \A f \in t[d] : e.name = f.name => e = f
  /\ \A r \in Roots : /\ r.hops \in 0..MaxSymlinks
                      /\ \A t \in Trees : r.dir \in DOMAIN t

(* No open directory is behind more symlinks than the system follows, and  *)
(* the iterator is used up exactly when the listing is over.               *)
ListingTypeOK ==
  /\ outcome \in {"listing", "returned", "thrown"}
  /\ \A i \in DOMAIN stack : stack[i].hops \in 0..MaxSymlinks
  /\ outcome = "listing" <=> stack # <<>>

-----------------------------------------------------------------------------
Hops(e) == IF e.node = "link" THEN 1 ELSE 0

(* Mutation: directory symlinks are listed, not followed.                 *)
Recurses_NoFollow(e, hops) == e.node = "dir"

(* Mutation: one symlink too many is followed.                            *)
Recurses_OneMore(e, hops) == e.node # "file" /\ hops <= MaxSymlinks

(* follow_directory_symlink: the entry's path leads to a directory.        *)
Recurses(e, hops) == e.node # "file" /\ hops + Hops(e) <= MaxSymlinks

(* skip_permission_denied: a directory that may not be read is empty.      *)
EntriesOf(d) == IF d \in Unreadable THEN {} ELSE tree[d]

Opened(d, path, hops) == [path |-> path, hops |-> hops, left |-> EntriesOf(d)]
NoPending == {}

Top == Last(stack)

ListingInit ==
  /\ tree \in Trees /\ root \in Roots
  /\ stack = <<Opened(root.dir, <<>>, root.hops)>>
  /\ pending = NoPending /\ paths = {} /\ outcome = "listing"

(* The error code of the constructor is ignored: a root that is gone when  *)
(* it is opened has no entries.                                            *)
RootFails ==
  /\ outcome = "listing" /\ pending = NoPending /\ paths = {}
  /\ outcome' = "returned" /\ stack' = <<>>
  /\ UNCHANGED <<tree, root, pending, paths>>

(* increment() first enters the entry it stands on.                        *)
Enter ==
  \E e \in pending :
    /\ Recurses(e, Top.hops)
    /\ stack' = Append(stack, Opened(e.to, Append(Top.path, e), Top.hops + Hops(e)))
    /\ pending' = NoPending
    /\ UNCHANGED <<tree, root, paths, outcome>>

(* The directory is gone when it is opened: increment() throws, and what   *)
(* was listed so far is lost.                                              *)
EnterFails ==
  \E e \in pending :
    /\ Recurses(e, Top.hops)
    /\ outcome' = "thrown" /\ stack' = <<>> /\ pending' = NoPending
    /\ UNCHANGED <<tree, root, paths>>

Settled == stack # <<>> /\ \A e \in pending : ~Recurses(e, Top.hops)

ListEntry ==
  /\ Settled
  /\ \E e \in Top.left :
       /\ paths' = paths \cup {Append(Top.path, e)}
       /\ stack' = Append(Front(stack), [Top EXCEPT !.left = @ \ {e}])
       /\ pending' = {e}
  /\ UNCHANGED <<tree, root, outcome>>

(* Mutation: an exhausted directory is not left.                          *)
Leave_Stays ==
  /\ Settled /\ Top.left = {}
  /\ pending' = NoPending
  /\ UNCHANGED <<tree, root, stack, paths, outcome>>

(* An exhausted directory is left; after the root the paths are sorted and *)
(* returned.                                                               *)
Leave ==
  /\ Settled /\ Top.left = {}
  /\ stack' = Front(stack) /\ pending' = NoPending
  /\ outcome' = IF Len(stack) = 1 THEN "returned" ELSE outcome
  /\ UNCHANGED <<tree, root, paths>>

ListingNext == RootFails \/ Enter \/ EnterFails \/ ListEntry \/ Leave
ListingSpec == ListingInit /\ [][ListingNext]_listVars /\ WF_listVars(ListingNext)

-----------------------------------------------------------------------------
(* Where a path leads, and how many symlinks the system follows to get     *)
(* there; what is in it when that is a directory.                          *)
Leads(p) == IF p = <<>> THEN root.dir ELSE Last(p).to
Crossed(p) == root.hops + Cardinality({i \in DOMAIN p : p[i].node = "link"})
IsOpen(p) == p = <<>> \/ (Last(p).node # "file" /\ Crossed(p) <= MaxSymlinks)
Within(p) == IF IsOpen(p) THEN {Append(p, e) : e \in EntriesOf(Leads(p))} ELSE {}

(* All or nothing: a listing that is returned has all that is in the root  *)
(* and in every listed path the system can open, and nothing else, in      *)
(* whatever order the directories were read, or it is empty because the    *)
(* root was gone.  One that loses a directory on its way is not cut short  *)
(* but not returned.                                                       *)
NoPartialListing ==
  outcome = "returned" /\ paths # {} =>
    paths = UNION {Within(p) : p \in paths \cup {<<>>}}

(* The listing ends, on cycles of directory symlinks too.                  *)
ListingEnds == <>(outcome # "listing")

=============================================================================
