--------------------------- MODULE DependencyWalk ---------------------------
(***************************************************************************)
(* Executable::dependencyManifest: the queue of imported names, the seen   *)
(* sets, the maps from source paths to planned bundle paths, and the       *)
(* manifest they produce.  One pass of the queue loop is                   *)
(*                                                                         *)
(*   dequeue -> (skip | fail | plan the payload) -> register its aliases   *)
(*           -> resolve the targets of those aliases -> dequeue            *)
(*                                                                         *)
(* The alias loops are steps of their own: which alias is registered first *)
(* decides which one a shared bundle path goes to.                         *)
(***************************************************************************)
EXTENDS Executable, BundleLayout

CONSTANTS Worlds,    \* host file systems to plan on
          Targets,   \* executables to bundle
          Policies   \* layout policies to plan for

VARIABLES
  policy,          \* layoutPolicy
  fallback,        \* fallbackLibraryDirectory
  phase,           \* where the loop stands
  todo,            \* the queue of pending imports
  current,         \* the dependency being planned
  links,           \* its aliasLinks still to register
  pending,         \* pendingAliasEntries
  bySource,        \* plannedBundlePathsBySource
  byCanonical,     \* plannedBundlePathsByCanonical
  seenPayloads, seenAliases,
  manifest         \* manifest.entries

walkVars == <<policy, fallback, phase, todo, current, links, pending, bySource,
              byCanonical, seenPayloads, seenAliases, manifest>>
inputs == <<host, cached, exe, includeInterpreter>>
vars == <<inputs, walkVars>>

Phase == {"open", "dequeue", "aliases", "targets", "planned", "failed"}
Import == [name : Name, owner : Path]
Entry == [kind : Kind, source : Path, bundled : Path, requested : Name,
          target : Path \cup {NoPath}, hasInterp : BOOLEAN]
PendingAlias == [link : Path, target : Path, bundled : Path]

ASSUME WalkAssumption ==
  /\ \A h \in Worlds : /\ DOMAIN h \subseteq RealPath
                       /\ \A p \in DOMAIN h : h[p] \in Node
  /\ Targets \subseteq Path
  /\ Policies \subseteq Policy

PathMap(f) == DOMAIN f \subseteq Path /\ \A p \in DOMAIN f : f[p] \in Path

(* The types of the locals of dependencyManifest: the queue, the maps, the *)
(* seen sets and the manifest hold paths and entries of the right kind.    *)
TypeOK ==
  /\ HostType /\ CachedType /\ exe \in Path /\ includeInterpreter \in BOOLEAN
  /\ policy \in Policy /\ fallback \in Dir \cup {NoDir}
  /\ phase \in Phase
  /\ todo \in Seq(Import)
  /\ current \in Resolution \cup {NoResolution}
  /\ links \subseteq Link
  /\ pending \in Seq(PendingAlias)
  /\ PathMap(bySource) /\ PathMap(byCanonical)
  /\ seenPayloads \subseteq Path /\ seenAliases \subseteq Path
  /\ manifest \in Seq(Entry)

-----------------------------------------------------------------------------
HasInterpreter(p) == Parses(p) /\ Elf(p).interp # NoPath

MakeEntry(kind, source, requested, bundledPath) ==
  [kind |-> kind, source |-> source, bundled |-> bundledPath,
   requested |-> requested, target |-> NoPath,
   hasInterp |-> HasInterpreter(source)]

AliasEntry(alias, target) ==
  [kind |-> "SymlinkAlias", source |-> alias.link, bundled |-> alias.bundled,
   requested |-> alias.link.name, target |-> target, hasInterp |-> FALSE]

Imports(owner) ==
  LET names == ImportedLibraries(owner)
  IN  [i \in DOMAIN names |-> [name |-> names[i], owner |-> owner]]

(* Where libraries from outside the preserved trees go: next to the C      *)
(* library the executable imports, else next to its interpreter.           *)
FallbackDirectory ==
  LET libcs == {Dependency(exe, n) : n \in FallbackLibcName(ImportedLibraries(exe))}
      ofLibc == {BundlePathFor(policy, "SharedObject", r.canonical, NoDir).dir :
                   r \in libcs \ {NoResolution}}
      ofLoader == {BundlePathFor(policy, "Interpreter", p, NoDir).dir :
                     p \in {InterpreterPath} \ {NoPath}}
  IN  IF policy = FlatLib64 THEN NoDir
      ELSE The(OrElse(ofLibc, OrElse(ofLoader, {NoDir})))

LibraryPath(p) == BundlePathFor(policy, "SharedObject", p, fallback)
AliasPath(p) == BundlePathFor(policy, "SymlinkAlias", p, fallback)

(* Mutation: targets are planned from their raw source paths.             *)
PlannedLinkTarget_FromSource(target) == AliasPath(target)

(* Mutation: a target that is only known by its real path is missed.      *)
PlannedLinkTarget_NotCanonical(target) ==
  IF target \in DOMAIN bySource THEN bySource[target] ELSE AliasPath(target)

(* resolvePlannedLinkTarget: a planned path under the very spelling of the *)
(* target, else under its real path, else where the policy would put it.   *)
PlannedLinkTarget(target) ==
  CASE target \in DOMAIN bySource -> bySource[target]
    [] target \notin DOMAIN bySource /\ Canonicalize(target) \in DOMAIN byCanonical ->
         byCanonical[Canonicalize(target)]
    [] OTHER -> AliasPath(target)

-----------------------------------------------------------------------------
Init ==
  /\ host \in Worlds /\ cached = Scanned(SystemRoots)
  /\ exe \in Targets /\ includeInterpreter \in BOOLEAN
  /\ policy \in Policies /\ fallback = NoDir
  /\ phase = "open"
  /\ todo = <<>> /\ current = NoResolution
  /\ links = {} /\ pending = <<>>
  /\ bySource = NoEntries /\ byCanonical = NoEntries
  /\ seenPayloads = {} /\ seenAliases = {}
  /\ manifest = <<>>

(* The executable's own entry, and its imports as the initial queue.       *)
Open ==
  /\ phase = "open" /\ Parses(exe)
  /\ manifest' = <<MakeEntry("Executable", exe, exe.name,
                             BundlePathFor(policy, "Executable", exe, NoDir))>>
  /\ fallback' = FallbackDirectory
  /\ todo' = Imports(exe)
  /\ phase' = "dequeue"
  /\ UNCHANGED <<inputs, policy, current, links, pending, bySource,
                 byCanonical, seenPayloads, seenAliases>>

(* build() gives up on a target that LIEF cannot parse.  One that LIEF     *)
(* parses but that is no ELF file has an empty manifest, which build()     *)
(* refuses before it touches the root: the same outcome.                   *)
OpenFails ==
  /\ phase = "open" /\ ~Parses(exe)
  /\ phase' = "failed"
  /\ UNCHANGED <<inputs, policy, fallback, todo, current, links, pending, bySource,
                 byCanonical, seenPayloads, seenAliases, manifest>>

ResolveFails(dep) ==
  /\ dep = NoResolution
  /\ phase' = "failed"
  /\ UNCHANGED <<inputs, policy, fallback, todo, current, links, pending, bySource,
                 byCanonical, seenPayloads, seenAliases, manifest>>

(* The interpreter gets its own entry at the end; its aliases get none.    *)
SkipInterpreter(dep) ==
  /\ dep # NoResolution /\ dep.canonical \in InterpreterFile
  /\ todo' = Tail(todo)
  /\ UNCHANGED <<inputs, policy, fallback, phase, current, links, pending, bySource,
                 byCanonical, seenPayloads, seenAliases, manifest>>

(* Mutation: payloads are deduplicated by the path they were asked for    *)
(* by.                                                                    *)
RegisterPayload_ByAlias(dep) ==
  /\ dep # NoResolution /\ dep.canonical \notin InterpreterFile
  /\ bySource' = Put(bySource, dep.canonical, LibraryPath(dep.canonical))
  /\ byCanonical' = Put(byCanonical, Canonicalize(dep.canonical),
                        LibraryPath(dep.canonical))
  /\ seenPayloads' = seenPayloads \cup {dep.alias}

(* registerPlannedPayloadPath comes before the payload is even parsed.     *)
RegisterPayload(dep) ==
  /\ dep # NoResolution /\ dep.canonical \notin InterpreterFile
  /\ bySource' = Put(bySource, dep.canonical, LibraryPath(dep.canonical))
  /\ byCanonical' = Put(byCanonical, Canonicalize(dep.canonical),
                        LibraryPath(dep.canonical))
  /\ seenPayloads' = seenPayloads \cup {dep.canonical}

(* ELF magic but no ELF: no entry, and this time no aliases either.        *)
SkipUnparseable(dep) ==
  /\ RegisterPayload(dep)
  /\ dep.canonical \notin seenPayloads /\ ~Parses(dep.canonical)
  /\ todo' = Tail(todo)
  /\ UNCHANGED <<inputs, policy, fallback, phase, current, links, pending,
                 seenAliases, manifest>>

PlanAliasesOf(dep) ==
  /\ current' = dep /\ links' = dep.links
  /\ phase' = "aliases"
  /\ UNCHANGED <<inputs, policy, fallback, pending, seenAliases>>

(* Mutation: the imports of a library are not queued.                     *)
NewPayload_NotTransitive(dep) ==
  /\ RegisterPayload(dep)
  /\ dep.canonical \notin seenPayloads /\ Parses(dep.canonical)
  /\ manifest' = Append(manifest,
                    MakeEntry("SharedObject", dep.canonical, dep.name,
                              LibraryPath(dep.canonical)))
  /\ todo' = Tail(todo)
  /\ PlanAliasesOf(dep)

NewPayload(dep) ==
  /\ RegisterPayload(dep)
  /\ dep.canonical \notin seenPayloads /\ Parses(dep.canonical)
  /\ manifest' = Append(manifest,
                    MakeEntry("SharedObject", dep.canonical, dep.name,
                              LibraryPath(dep.canonical)))
  /\ todo' = Tail(todo) \o Imports(dep.canonical)
  /\ PlanAliasesOf(dep)

(* Mutation: a known payload stays at the head of the queue.              *)
SeenPayload_NotDequeued(dep) ==
  /\ RegisterPayload(dep)
  /\ dep.canonical \in seenPayloads
  /\ PlanAliasesOf(dep)
  /\ UNCHANGED <<todo, manifest>>

SeenPayload(dep) ==
  /\ RegisterPayload(dep)
  /\ dep.canonical \in seenPayloads
  /\ todo' = Tail(todo)
  /\ PlanAliasesOf(dep)
  /\ UNCHANGED manifest

Dequeue ==
  /\ phase = "dequeue" /\ todo # <<>>
  /\ \E dep \in {Dependency(Head(todo).owner, Head(todo).name)} :
       \/ ResolveFails(dep) \/ SkipInterpreter(dep) \/ SkipUnparseable(dep)
       \/ NewPayload(dep) \/ SeenPayload(dep)

-----------------------------------------------------------------------------
(* Mutation: aliases are told apart by their source path, not by their    *)
(* bundle path.                                                           *)
RegisterAlias_BySource ==
  \E a \in links :
    /\ phase = "aliases"
    /\ \A b \in links : Rank[a.link] <= Rank[b.link]
    /\ links' = links \ {a}
    /\ IF a.link \in seenAliases
       THEN UNCHANGED <<seenAliases, bySource, pending>>
       ELSE /\ seenAliases' = seenAliases \cup {a.link}
            /\ bySource' = Put(bySource, a.link, AliasPath(a.link))
            /\ pending' = Append(pending, [link |-> a.link, target |-> a.target,
                                           bundled |-> AliasPath(a.link)])
    /\ UNCHANGED <<inputs, policy, fallback, phase, todo, current, byCanonical,
                   seenPayloads, manifest>>

(* aliasLinks are sorted by the spelling of the link.                      *)
RegisterAlias ==
  \E a \in links :
    /\ phase = "aliases"
    /\ \A b \in links : Rank[a.link] <= Rank[b.link]
    /\ links' = links \ {a}
    /\ IF AliasPath(a.link) \in seenAliases
       THEN UNCHANGED <<seenAliases, bySource, pending>>
       ELSE /\ seenAliases' = seenAliases \cup {AliasPath(a.link)}
            /\ bySource' = Put(bySource, a.link, AliasPath(a.link))
            /\ pending' = Append(pending, [link |-> a.link, target |-> a.target,
                                           bundled |-> AliasPath(a.link)])
    /\ UNCHANGED <<inputs, policy, fallback, phase, todo, current, byCanonical,
                   seenPayloads, manifest>>

AliasesRegistered ==
  /\ phase = "aliases" /\ links = {}
  /\ phase' = "targets"
  /\ UNCHANGED <<inputs, policy, fallback, todo, current, links, pending, bySource,
                 byCanonical, seenPayloads, seenAliases, manifest>>

PlanTarget ==
  /\ phase = "targets" /\ pending # <<>>
  /\ manifest' = Append(manifest, AliasEntry(Head(pending),
                                    PlannedLinkTarget(Head(pending).target)))
  /\ pending' = Tail(pending)
  /\ UNCHANGED <<inputs, policy, fallback, phase, todo, current, links, bySource,
                 byCanonical, seenPayloads, seenAliases>>

TargetsPlanned ==
  /\ phase = "targets" /\ pending = <<>>
  /\ phase' = "dequeue" /\ current' = NoResolution
  /\ UNCHANGED <<inputs, policy, fallback, todo, links, pending, bySource,
                 byCanonical, seenPayloads, seenAliases, manifest>>

(* The interpreter goes last, and not to the fallback directory.           *)
Finish ==
  /\ phase = "dequeue" /\ todo = <<>>
  /\ phase' = "planned"
  /\ manifest' =
       IF InterpreterPath = NoPath THEN manifest
       ELSE Append(manifest,
              MakeEntry("Interpreter", InterpreterPath, InterpreterPath.name,
                BundlePathFor(policy, "Interpreter", InterpreterPath, NoDir)))
  /\ UNCHANGED <<inputs, policy, fallback, todo, current, links, pending, bySource,
                 byCanonical, seenPayloads, seenAliases>>

Next ==
  \/ Open \/ OpenFails
  \/ Dequeue
  \/ RegisterAlias \/ AliasesRegistered
  \/ PlanTarget \/ TargetsPlanned
  \/ Finish

Spec == Init /\ [][Next]_vars /\ WF_vars(Next)

-----------------------------------------------------------------------------
OfKind(kind) == {i \in DOMAIN manifest : manifest[i].kind = kind}
Planned == phase = "planned"

(* One payload per file: however many names and owners lead to a library,  *)
(* it is copied and rewritten once (seen_payloads).                        *)
OnePayloadPerFile ==
  \A i, j \in OfKind("SharedObject") :
    manifest[i].source = manifest[j].source => i = j

(* The loader that --interpreter bundles is never a library payload too,   *)
(* under whatever name it was imported, and it has exactly one entry.      *)
InterpreterBundledOnce ==
  /\ InterpreterPath # NoPath =>
       \A i \in OfKind("SharedObject") :
         manifest[i].source # Canonicalize(InterpreterPath)
  /\ Planned => Cardinality(OfKind("Interpreter")) =
                  IF InterpreterPath = NoPath THEN 0 ELSE 1

(* No two aliases are planned at one bundle path (seen_aliases), whatever  *)
(* the number of scans that report them and of directories they come from. *)
AliasPathsDistinct ==
  \A i, j \in OfKind("SymlinkAlias") :
    manifest[i].bundled = manifest[j].bundled => i = j

(* The file an alias stands for: where its one-hop target leads.           *)
AliasedFile(e) == Canonicalize(LinkTarget(e.source))

(* Entries are materialised in manifest order.  An alias comes after the   *)
(* payload it stands for, unless that file could not be parsed.            *)
PayloadPrecedesAlias ==
  \A i \in OfKind("SymlinkAlias") :
    Parses(AliasedFile(manifest[i])) =>
      \E j \in OfKind("SharedObject") :
        j < i /\ manifest[j].source = AliasedFile(manifest[i])

(* A finished plan has no alias that points at nothing: its target is the  *)
(* bundle path of some entry, unless the file could not be parsed.         *)
NoDanglingAlias ==
  Planned =>
    \A i \in OfKind("SymlinkAlias") :
      Parses(AliasedFile(manifest[i])) =>
        \E j \in DOMAIN manifest : manifest[j].bundled = manifest[i].target

(* Following planned targets from entry i, in as many hops as the kernel   *)
(* follows at most.                                                        *)
LeadsTo(i, source) ==
  LET hop[n \in 0..MaxHops] ==
        [path \in Path |->
           \E j \in DOMAIN manifest :
             /\ manifest[j].bundled = path
             /\ IF manifest[j].kind = "SymlinkAlias"
                THEN n > 0 /\ hop[n - 1][manifest[j].target]
                ELSE manifest[j].source = source]
  IN  hop[MaxHops][manifest[i].target]

PathsDistinct ==
  \A i, j \in DOMAIN manifest : manifest[i].bundled = manifest[j].bundled => i = j

(* On this host the text of a link target names the place the kernel goes  *)
(* to: no relative symlink is listed behind a directory symlink that       *)
(* changes where it leads.                                                 *)
LexicalIsPhysical ==
  \A p \in Path : IsLink(p) => At(LinkTarget(p)) = At(LinkTarget(At(p)))

(* Every alias chain of a finished plan ends at the copy of the very file  *)
(* the chain leads to on the host, and is no longer than the kernel will   *)
(* follow.  Targets are read off the link's text, so this needs text and   *)
(* kernel to agree.                                                        *)
AliasLeadsToItsFile ==
  Planned /\ LexicalIsPhysical =>
    \A i \in OfKind("SymlinkAlias") :
      Parses(AliasedFile(manifest[i])) => LeadsTo(i, AliasedFile(manifest[i]))

(* PreserveSourceTree gives every entry a bundle path of its own as long   *)
(* as everything comes from the preserved trees and the executable is not  *)
(* among its own libraries.  The interpreter has to lead to a file: behind *)
(* a chain one hop too long it could be a library's alias as well.         *)
PreservedPathsDistinct ==
  (/\ Planned /\ policy = PreserveSourceTree /\ LexicalIsPhysical
   /\ \A i \in DOMAIN manifest : ShouldPreserveSourcePath(manifest[i].source)
   /\ \A i \in DOMAIN manifest :
        manifest[i].source = exe => manifest[i].kind = "Executable"
   /\ InterpreterPath # NoPath => Opens(InterpreterPath))
    => PathsDistinct

(* The bundle has a file of that name in one of these directories.         *)
ServedFrom(dirs, name) ==
  \E j \in DOMAIN manifest :
    manifest[j].bundled.name = name /\ manifest[j].bundled.dir \in dirs

(* What the loader has to find as a file of the bundle: everything entry i *)
(* imports except the interpreter and files that cannot be parsed.         *)
MustBeServed(i) ==
  {name \in ToSet(ImportedLibraries(manifest[i].source)) :
     \E dep \in {Dependency(manifest[i].source, name)} :
       /\ dep # NoResolution
       /\ Parses(dep.canonical)
       /\ dep.canonical \notin InterpreterFile}

RunpathDirs(i) == ToSet(BundleRunpath(manifest, manifest[i], policy))
BundledElfs == OfKind("Executable") \cup OfKind("SharedObject")

(* In a finished flat plan every bundled ELF finds each name it imports,   *)
(* be it a file name or an alias, in the directory its RUNPATH will name.  *)
(* A symlink whose text leads elsewhere than the kernel goes is scanned as *)
(* a file, and then its name is not planned.                               *)
FlatPlanServesImports ==
  Planned /\ policy = FlatLib64 /\ LexicalIsPhysical =>
    \A i \in BundledElfs : \A name \in MustBeServed(i) :
      ServedFrom(RunpathDirs(i), name)

(* Under either policy the loader finds every imported name in the bundle, *)
(* on the RUNPATH or in the directories it searches anyway.                *)
LoaderFindsImports ==
  Planned =>
    \A i \in BundledElfs : \A name \in MustBeServed(i) :
      ServedFrom(RunpathDirs(i) \cup {"/lib", "/lib64", "/usr/lib", "/usr/lib64"},
                 name)

(* No alias is planned at the bundle path of a payload: materialising it   *)
(* would replace the copied library by a symlink.                          *)
AliasNeverReplacesPayload ==
  \A i \in OfKind("SymlinkAlias"), j \in OfKind("SharedObject") :
    manifest[i].bundled # manifest[j].bundled

(* The dependency walk ends, on cyclic imports too.                        *)
PlanningEnds == <>(phase \in {"planned", "failed"})

(* The walk as DependencyClosure sees it.                                  *)
Closure ==
  INSTANCE DependencyClosure WITH
    bundled <- {manifest[i].source : i \in OfKind("SharedObject")},
    outcome <- IF phase \in {"planned", "failed"} THEN phase ELSE "planning"
(* dependencyManifest implements the closure of DependencyClosure: no      *)
(* order of the queue, no seen set or map makes it miss or add a library.  *)
ImplementsClosure == Closure!ClosureSpec

=============================================================================
