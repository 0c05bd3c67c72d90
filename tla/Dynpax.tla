------------------------------- MODULE Dynpax -------------------------------
(***************************************************************************)
(* The program: for each target of the command, plan, build and verify in  *)
(* one shared fake root, stopping at the first that fails.  The process    *)
(* may be killed between and inside file operations, and the same command  *)
(* may be given again over whatever the root holds, perhaps with another   *)
(* layout policy.                                                          *)
(***************************************************************************)
EXTENDS BundleBuilder

CONSTANTS Commands,     \* the target lists that are tried
          Relayout,     \* whether a repeated command may ask for another layout
          Upgrades      \* pairs of worlds: what the host may change to

VARIABLES command,    \* params.targets
          rest,       \* the targets after the current one
          delivered,  \* manifests of the targets verified in this run
          ledger,     \* entries ever planned for this root (history)
          upgraded    \* the host has changed since populate() (history)

programVars == <<command, rest, delivered, ledger, upgraded>>
dynpaxVars == <<vars, buildVars, programVars>>

ASSUME DynpaxAssumption ==
  /\ Commands \subseteq Seq(Targets) \ {<<>>} /\ Relayout \in BOOLEAN
  /\ Upgrades \subseteq Worlds \X Worlds

Ended == stage \in {"success", "error", "killed"}

(* The types of main and build: the root is a tree, a rewrite writes only  *)
(* texts an ELF file can hold, the position stays inside the manifest.     *)
DynpaxTypeOK ==
  /\ TypeOK /\ RootType
  /\ stage \in {"plan", "materialize", "rewrite", "verify",
                "success", "error", "killed"}
  /\ next \in 1..(Len(manifest) + 1)
  /\ interpreterBundlePath \in Path \cup {NoPath}
  /\ command \in Commands /\ rest \in Seq(Targets)
  /\ delivered \in Seq(Seq(Entry)) /\ ledger \subseteq Entry
  /\ upgraded \in BOOLEAN
  /\ runs \in 1..MaxRuns /\ disturbed \subseteq 1..runs
  /\ lost \subseteq Location \cup {Nowhere, Outside}

EntriesOf(m) == {m[i] : i \in DOMAIN m}

-----------------------------------------------------------------------------
DynpaxInit ==
  /\ Init
  /\ command \in Commands
  /\ exe = Head(command) /\ rest = Tail(command)
  /\ stage = "plan" /\ next = 1
  /\ interpreterBundlePath = NoPath
  /\ root = NoEntries
  /\ delivered = <<>> /\ ledger = {} /\ upgraded = FALSE
  /\ runs = 1 /\ disturbed = {} /\ lost = {}

(* Mutation: the position in the manifest is not reset.                   *)
Take_KeepsPosition(t) ==
  /\ exe' = t /\ next' = next
  /\ interpreterBundlePath' = NoPath
  /\ phase' = "open" /\ fallback' = NoDir /\ todo' = <<>> /\ current' = NoResolution
  /\ links' = {} /\ pending' = <<>>
  /\ bySource' = NoEntries /\ byCanonical' = NoEntries
  /\ seenPayloads' = {} /\ seenAliases' = {} /\ manifest' = <<>>
  /\ UNCHANGED <<host, includeInterpreter>>

(* A fresh Executable and a fresh build result for target t.               *)
Take(t) ==
  /\ exe' = t /\ next' = 1
  /\ interpreterBundlePath' = NoPath
  /\ phase' = "open" /\ fallback' = NoDir /\ todo' = <<>> /\ current' = NoResolution
  /\ links' = {} /\ pending' = <<>>
  /\ bySource' = NoEntries /\ byCanonical' = NoEntries
  /\ seenPayloads' = {} /\ seenAliases' = {} /\ manifest' = <<>>
  /\ UNCHANGED <<host, includeInterpreter>>

(* Mutation: the records of the first populate() are kept on disk.         *)
Restart_KeepsRecords ==
  /\ Take(Head(command)) /\ rest' = Tail(command)
  /\ delivered' = <<>> /\ lost' = {}
  /\ cached' = cached /\ upgraded' = FALSE

(* The program at its start, after populate(), with nothing else in memory.*)
Restart ==
  /\ Take(Head(command)) /\ rest' = Tail(command)
  /\ delivered' = <<>> /\ lost' = {}
  /\ cached' = Scanned(SystemRoots) /\ upgraded' = FALSE

Plan ==
  /\ stage = "plan" /\ Next
  /\ UNCHANGED <<buildVars, programVars>>

PlanDone ==
  /\ stage = "plan" /\ phase = "planned"
  /\ stage' = "materialize"
  /\ ledger' = ledger \cup EntriesOf(manifest)
  /\ UNCHANGED <<vars, root, next, interpreterBundlePath, bounds,
                 command, rest, delivered, upgraded>>

PlanFails ==
  /\ stage = "plan" /\ phase = "failed"
  /\ stage' = "error"
  /\ UNCHANGED <<vars, root, next, interpreterBundlePath, bounds, programVars>>

BuildStep == Build /\ UNCHANGED programVars

VerifyFails ==
  /\ stage = "verify" /\ ~Verified
  /\ stage' = "error"
  /\ UNCHANGED <<vars, root, next, interpreterBundlePath, bounds, programVars>>

(* Mutation: a target is delivered without a look at the report.          *)
NextTarget_Unverified ==
  /\ stage = "verify" /\ rest # <<>>
  /\ delivered' = Append(delivered, manifest)
  /\ rest' = Tail(rest)
  /\ Take(Head(rest)) /\ stage' = "plan"
  /\ UNCHANGED <<cached, policy, root, bounds, command, ledger, upgraded>>

NextTarget ==
  /\ stage = "verify" /\ Verified /\ rest # <<>>
  /\ delivered' = Append(delivered, manifest)
  /\ rest' = Tail(rest)
  /\ Take(Head(rest)) /\ stage' = "plan"
  /\ UNCHANGED <<cached, policy, root, bounds, command, ledger, upgraded>>

LastTarget ==
  /\ stage = "verify" /\ Verified /\ rest = <<>>
  /\ delivered' = Append(delivered, manifest)
  /\ stage' = "success"
  /\ UNCHANGED <<vars, root, next, interpreterBundlePath, bounds,
                 command, rest, ledger, upgraded>>

Program ==
  \/ Plan \/ PlanDone \/ PlanFails
  \/ BuildStep
  \/ VerifyFails \/ NextTarget \/ LastTarget

(* The process dies; the operation under way may be half done.             *)
Kill ==
  /\ ~Ended /\ Disturb
  /\ root' \in Torn
  /\ stage' = "killed"
  /\ Restart
  /\ UNCHANGED <<policy, runs, command, ledger>>

(* The same command again, over the same root.                             *)
GiveAgain ==
  /\ Ended /\ runs < MaxRuns
  /\ runs' = runs + 1
  /\ stage' = "plan"
  /\ Restart
  /\ policy' \in IF Relayout THEN Policies ELSE {policy}
  /\ UNCHANGED <<root, disturbed, command, ledger>>

(* Libraries are installed or removed, between two targets or two runs.    *)
HostChanges ==
  /\ (stage = "plan" /\ phase = "open") \/ Ended
  /\ \E change \in Upgrades : change[1] = host /\ host' = change[2]
  /\ upgraded' = TRUE
  /\ UNCHANGED <<cached, exe, includeInterpreter, walkVars, buildVars,
                 command, rest, delivered, ledger>>

DynpaxNext == Program \/ Kill \/ GiveAgain \/ HostChanges

(* The program runs on unless it is killed.                                *)
DynpaxSpec == DynpaxInit /\ [][DynpaxNext]_dynpaxVars /\ WF_dynpaxVars(Program)

-----------------------------------------------------------------------------
Success == stage = "success"
Delivered == UNION {EntriesOf(delivered[k]) : k \in DOMAIN delivered}

PlaceOf(e) == Place(root, e.bundled)
AliasText(e) ==
  IF e.kind = "SymlinkAlias" THEN LinkText(e.bundled, e.target) ELSE <<>>

(* The directories that are made or passed on the way to an entry.         *)
Ways(e) == UNION {Prefixes(d) : d \in Spots(Components[e.bundled.dir])}

(* No entry is planned where the way to another leads, or the layout has   *)
(* a directory.                                                            *)
WaysClear ==
  \A e \in ledger : \A l \in Spots(LocationOf(e.bundled)) :
    l \notin LayoutPlaces /\ \A f \in ledger : l \notin Ways(f)

(* No place in the root was ever planned for two different things, neither *)
(* within a manifest nor by the manifests of two targets or two layouts.   *)
NoCollision ==
  /\ WaysClear
  /\ LET place == [e \in ledger |-> PlaceOf(e)]
     IN  \A e, f \in ledger :
           place[e] = place[f] =>
             e.source = f.source /\ e.kind = f.kind /\ AliasText(e) = AliasText(f)

FileAt(p) == root[End(root, p)]

(* What entry e was to become is what the root holds for it.               *)
Holds(e) ==
  LET node == root[PlaceOf(e)]
  IN  /\ Bundled(root, e.bundled)
      /\ IF e.kind = "SymlinkAlias" THEN node = LinkNode(AliasText(e))
         ELSE /\ node.kind = "file" /\ node.source = Destination(e.source)
              /\ e.kind # "Interpreter" => node.parses /\ node.rpath = <<>>

(* A target was delivered and the next one is about to be planned.         *)
HandedOver == stage = "plan" /\ phase = "open" /\ delivered # <<>>

(* What follows compares the bundle with the host, which must be the one   *)
(* this run has seen from its start; earlier runs may have seen another.   *)
Comparable == ~upgraded /\ NoCollision

(* No part is missing in the file that entry e has become.                 *)
Complete(e) ==
  LET place == PlaceOf(e)
  IN  place \in DOMAIN root /\ root[place].kind = "file" => root[place].whole

(* Exit status 0 means that every target of the command was delivered, and *)
(* before the next target is touched every earlier one still is: at each   *)
(* planned path the root holds the planned alias, or a file made from the  *)
(* planned one, whatever was lost, cut off or left by earlier runs.  Only  *)
(* a file whose own rewrite was silently lost in this run may lack a part, *)
(* one that the verifier does not read.                                    *)
SuccessDeliversAll ==
  (Success \/ HandedOver) /\ Comparable =>
    /\ Success => Len(delivered) = Len(command)
    /\ \A e \in Delivered : Holds(e) /\ (Complete(e) \/ PlaceOf(e) \in lost)

(* The same without that exception: what exit status 0 reports is whole.   *)
SuccessIsComplete ==
  Success /\ Comparable => \A e \in Delivered : Complete(e)

(* The same without the restriction to plans that do not collide.          *)
SuccessDeliversAlways == Success => \A e \in Delivered : Holds(e)

(* A bundled loader is the one the executable asks for: the interpreter    *)
(* path left in it leads, inside the root, to a copy of the host's.        *)
BundledLoaderIsUsed ==
  Success /\ Comparable /\ includeInterpreter =>
    \A e \in Delivered :
      e.kind = "Executable" /\ e.hasInterp =>
        LET loader == FileAt(e.bundled).interp
            end == Follow(root, LocationOf(loader))
        IN  end \in DOMAIN root
            /\ root[end].source = Destination(Elf(e.source).interp)

(* Libraries that target m bundles for the imports of its entry e.  A file *)
(* that is the loader of some target is left out: it is in memory before   *)
(* anything is searched for, and that target, which has it as interpreter  *)
(* and not as a library, writes no RUNPATH that leads there.               *)
Wanted(m, e) ==
  {f \in EntriesOf(m) :
     /\ f.kind = "SharedObject"
     /\ \E name \in ToSet(ImportedLibraries(e.source)) :
          \E dep \in {Dependency(e.source, name)} :
            dep # NoResolution /\ dep.canonical = f.source
     /\ \A g \in Delivered :
          g.kind = "Interpreter" => Canonicalize(g.source) # f.source}

(* The loader's search for f on behalf of e: one of the RUNPATH entries    *)
(* that are written in e's file leads to a directory with a copy of f.     *)
Finds(chroot, e, f) ==
  \E g \in Delivered :
    /\ g.kind = "SharedObject" /\ g.source = f.source
    /\ \E text \in ToSet(FileAt(e.bundled).runpath) :
         Walking(root, chroot, Front(PlaceOf(e)), text.origin) = Front(PlaceOf(g))

AllLoad(chroot) ==
  \A k \in DOMAIN delivered : \A e \in EntriesOf(delivered[k]) :
    e.kind \in {"Executable", "SharedObject"} =>
      \A f \in Wanted(delivered[k], e) : Finds(chroot, e, f)

(* Entry e lies where its bundle path says, not behind a directory symlink *)
(* of the root: its relative texts were computed for that place.           *)
Straight(e) == PlaceOf(e) = LocationOf(e.bundled)

(* A later target rewrites the libraries it shares with an earlier one,    *)
(* and writes relative texts.  Wherever the bundle is put, or chrooted     *)
(* into, the RUNPATH left in every delivered file leads the loader to each *)
(* library its target bundled for it.                                      *)
SharedLibrariesStillLoad ==
  Success /\ Comparable /\ (\A e \in Delivered : Straight(e)) =>
    \A chroot \in BOOLEAN : AllLoad(chroot)

(* A flat bundle serves programs that look in /lib, /usr/lib and           *)
(* /usr/lib64: each leads to what was delivered in /lib64.                 *)
FlatBundleServesChroot ==
  Success /\ policy = FlatLib64 =>
    \A e \in Delivered : \A dir \in {<<"lib">>, <<"usr", "lib">>, <<"usr", "lib64">>} :
      e.kind = "SharedObject" =>
        Follow(root, Append(dir, e.bundled.name)) = End(root, e.bundled)

(* What entry e of manifest m needs from the bundle, on the host as it is: *)
(* a file for every imported name that leads to a library there, the       *)
(* loader aside.                                                           *)
Required(m, e) ==
  {name \in ToSet(ImportedLibraries(e.source)) :
     \E dep \in OrElse(ResolveIn(name, LoaderSearchRoots(e.source)),
                       ResolveIn(name, SystemRoots)) :
       /\ Parses(dep.canonical)
       /\ \A f \in EntriesOf(m) :
            f.kind = "Interpreter" => Canonicalize(f.source) # dep.canonical}

ImportsDelivered ==
  \A k \in DOMAIN delivered : \A e \in EntriesOf(delivered[k]) :
    e.kind \in {"Executable", "SharedObject"} =>
      \A name \in Required(delivered[k], e) :
        \E f \in EntriesOf(delivered[k]) :
          f.bundled.name = name /\ Bundled(root, f.bundled)

(* Exit status 0 means that the bundle has a file for every library its    *)
(* ELF files import, provided the host has not changed since the program   *)
(* was started; what changed before that, between two runs, is noticed.    *)
(* A symlink whose text leads elsewhere than the kernel goes is scanned as *)
(* a file, and then its name is not planned.                               *)
FreshRecordsDeliverImports ==
  Success /\ ~upgraded /\ LexicalIsPhysical => ImportsDelivered

(* Nothing on the host keeps the current target from being bundled: its    *)
(* loader and every symlink among its libraries open, and the text of each *)
(* symlink, which is what an alias is made from, names what the kernel     *)
(* opens.                                                                  *)
Bundleable ==
  /\ phase # "failed"
  /\ LexicalIsPhysical
  /\ InterpreterPath # NoPath => Parses(InterpreterPath)
  /\ \A i \in OfKind("SymlinkAlias") : Parses(manifest[i].source)

(* The two traces another layout leaves in a root that this one cannot     *)
(* live with: a directory where a symlink is to be, an alias that lands    *)
(* behind a directory symlink.                                             *)
DirectoryInTheWay ==
  \E link \in ToSet(CompatibilitySymlinks(policy)) : IsDirectory(root, link.at)
AliasMisplaced == \E i \in OfKind("SymlinkAlias") : ~Straight(manifest[i])

(* Builder and verifier agree: without an I/O error a bundleable target    *)
(* whose plan does not collide is never refused, on a fresh root or on one *)
(* an interrupted or failed run has left, except for those two traces.     *)
RerunSucceeds ==
  stage = "error" /\ runs \notin disturbed /\ ~upgraded /\ Bundleable =>
    \/ ~NoCollision
    \/ Relayout /\ (DirectoryInTheWay \/ AliasMisplaced)

(* A file operation for one target changes no file or symlink of the root  *)
(* but those planned for that target; all else it adds are directories and *)
(* the compatibility symlinks.                                             *)
PlannedPlaces == {Place(root', manifest[i].bundled) : i \in DOMAIN manifest}
Unplanned(l) ==
  \/ l \in DOMAIN root /\ ~(l \in DOMAIN root' /\ root'[l] = root[l])
  \/ /\ l \in DOMAIN root' \ DOMAIN root
     /\ root'[l] # DirNode
     /\ \A link \in ToSet(CompatibilitySymlinks(policy)) :
          root'[l] # LinkNode(link.to)
OnlyPlannedPathsChange ==
  [][root' # root /\ (\E l \in DOMAIN root' \cup DOMAIN root :
                        Unplanned(l) /\ l \notin PlannedPlaces)
       => ~NoCollision]_dynpaxVars

(* The program as Delivery sees it.  What is held and whole counts at the  *)
(* end of a delivery, work may spoil it at once.  Plans that collide and   *)
(* runs that saw the host change are left out, but for the parts missing   *)
(* where a rewrite was lost.                                               *)
Promise ==
  INSTANCE Delivery WITH
    Goals <- Commands, goal <- command, count <- Len(delivered),
    state <- IF Ended THEN stage ELSE "running",
    lossy <- lost # {},
    held <- {k \in DOMAIN delivered :
               /\ Success \/ HandedOver
               /\ Comparable => \A e \in EntriesOf(delivered[k]) : Holds(e)},
    whole <- {k \in DOMAIN delivered :
                /\ Success \/ HandedOver
                /\ Comparable => \A e \in EntriesOf(delivered[k]) : Holds(e)
                /\ Comparable \/ lost # {} =>
                     \A e \in EntriesOf(delivered[k]) : Complete(e)}

(* Faults, kills and repeated commands included, the program implements    *)
(* Delivery: targets in order, each delivery with all earlier ones held,   *)
(* and whole while no rewrite was lost, and always on to a delivery or an  *)
(* error.                                                                  *)
ImplementsDelivery == Promise!DeliverySpec

(* Every run of the command ends, and after the last one nothing runs.     *)
CommandEnds == <>[]Ended

=============================================================================
