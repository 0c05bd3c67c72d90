----------------------- MODULE DependencyWalk_proofs -----------------------
(***************************************************************************)
(* Theorems about the dependency walk, for every host, every executable,   *)
(* every policy and every list of system roots.  First what the operators  *)
(* on the host return, then the type invariant, then the properties.       *)
(***************************************************************************)
EXTENDS DependencyWalk, Resolver_proofs, SequenceTheorems, FiniteSetTheorems

-----------------------------------------------------------------------------
(* What the populated resolver answers.                                    *)

LEMMA ResolveType ==
  ASSUME HostType, CachedType, NEW roots, RootList(roots), NEW n \in Name
  PROVE  Resolve(n, roots) \in Resolution \cup {NoResolution}
<1>1. ResolveIn(n, roots) \subseteq Resolution BY ResolveInType
<1>2. cached[n] \subseteq Resolution BY DEF CachedType
<1>3. ASSUME NEW s, NEW t, NEW x, s \subseteq Resolution, t \subseteq Resolution
      PROVE  The(OrElse(s, OrElse(t, {x}))) \in Resolution \cup {x}
  BY <1>3 DEF The, OrElse
<1> QED BY <1>1, <1>2, <1>3 DEF Resolve

(* What populate() keeps has the type of the kept records.                 *)
LEMMA ScannedType ==
  ASSUME HostType, cached = Scanned(SystemRoots)
  PROVE  CachedType
<1>1. RootList(SystemRoots) BY ResolverAssumption DEF RootList
<1> QED BY <1>1, ResolveInType DEF CachedType, Scanned

-----------------------------------------------------------------------------
(* What the walk reads from an ELF file.                                   *)

LEMMA ImportedType ==
  ASSUME HostType, NEW p PROVE ImportedLibraries(p) \in Seq(Name)
BY ParsedElf DEF ImportedLibraries, ElfFile

LEMMA SearchRootsType ==
  ASSUME HostType, NEW p \in Path PROVE RootList(LoaderSearchRoots(p))
<1> DEFINE elf == Elf(p)
           refs == IF elf.runpath # <<>> THEN elf.runpath ELSE elf.rpath
<1>1. CASE ~Parses(p) BY <1>1 DEF LoaderSearchRoots, RootList
<1>2. CASE Parses(p)
  <2>1. refs \in Seq(DirRef) BY <1>2, ParsedElf DEF ElfFile
  <2>2. ASSUME NEW r \in DirRef PROVE ExpandDynamicRoot(r, p) \in Dir
    <3>1. CanonDir[p.dir] \in Dir BY GeographyAssumption DEF Path
    <3>2. RefDir(CanonDir[p.dir], r) \in Dir BY <3>1, RefDirType
    <3> QED BY <3>2, GeographyAssumption DEF ExpandDynamicRoot
  <2>3. \A i \in DOMAIN refs : refs[i] \in DirRef BY <2>1
  <2>4. RootList(Expanded(refs, p)) BY <2>2, <2>3 DEF RootList, Expanded
  <2> HIDE DEF refs
  <2>5. RootList(FirstOccurrences(Expanded(refs, p)))
    BY <2>4 DEF RootList, FirstOccurrences
  <2> QED BY <1>2, <2>5 DEF LoaderSearchRoots, refs
<1> QED BY <1>1, <1>2

LEMMA DependencyType ==
  ASSUME HostType, CachedType, NEW p \in Path, NEW n \in Name
  PROVE  Dependency(p, n) \in Resolution \cup {NoResolution}
BY SearchRootsType, ResolveType DEF Dependency

LEMMA InterpreterType ==
  ASSUME HostType
  PROVE  InterpreterPath \in Path \cup {NoPath}
BY ParsedElf DEF InterpreterPath, ElfFile

-----------------------------------------------------------------------------
(* The bundle paths of the plan.                                           *)

LEMMA BundlePathType ==
  ASSUME NEW pol, NEW kind, NEW p \in Path, NEW fb \in Dir \cup {NoDir}
  PROVE  /\ BundlePathFor(pol, kind, p, fb) \in Path
         /\ BundlePathFor(pol, kind, p, fb).dir \in Dir
BY LayoutAssumption DEF BundlePathFor, FlatBundlePath, FallbackPath, Path

LEMMA FallbackType ==
  ASSUME HostType, CachedType, exe \in Path
  PROVE  FallbackDirectory \in Dir \cup {NoDir}
<1> DEFINE libcs == {Dependency(exe, n) :
                        n \in FallbackLibcName(ImportedLibraries(exe))}
           ofLibc == {BundlePathFor(policy, "SharedObject", r.canonical, NoDir).dir :
                        r \in libcs \ {NoResolution}}
           ofLoader == {BundlePathFor(policy, "Interpreter", p, NoDir).dir :
                          p \in {InterpreterPath} \ {NoPath}}
<1>1. FallbackLibcName(ImportedLibraries(exe)) \subseteq Name
  <2>1. ImportedLibraries(exe) \in Seq(Name) BY ImportedType
  <2> QED BY <2>1 DEF FallbackLibcName, Contains
<1>2. libcs \subseteq Resolution \cup {NoResolution} BY <1>1, DependencyType
<1> HIDE DEF libcs
<1>3. ofLibc \subseteq Dir
  <2>1. \A r \in libcs \ {NoResolution} : r.canonical \in Path
    BY <1>2 DEF Resolution
  <2> QED BY <2>1, BundlePathType
<1>4. ofLoader \subseteq Dir BY InterpreterType, BundlePathType
<1> HIDE DEF ofLibc, ofLoader
<1>5. The(OrElse(ofLibc, OrElse(ofLoader, {NoDir}))) \in Dir \cup {NoDir}
  BY <1>3, <1>4 DEF The, OrElse
<1> QED BY <1>5 DEF FallbackDirectory, libcs, ofLibc, ofLoader

LEMMA PlannedPathType ==
  ASSUME fallback \in Dir \cup {NoDir}, NEW p \in Path
  PROVE  LibraryPath(p) \in Path /\ AliasPath(p) \in Path
BY BundlePathType DEF LibraryPath, AliasPath

LEMMA PlannedTargetType ==
  ASSUME fallback \in Dir \cup {NoDir}, PathMap(bySource), PathMap(byCanonical),
         NEW p \in Path
  PROVE  PlannedLinkTarget(p) \in Path
BY PlannedPathType DEF PlannedLinkTarget, PathMap

LEMMA PutType ==
  ASSUME NEW f, PathMap(f), NEW k \in Path, NEW v \in Path
  PROVE  PathMap(Put(f, k, v))
BY DEF PathMap, Put

LEMMA MakeEntryType ==
  ASSUME NEW k \in Kind, NEW p \in Path, NEW n \in Name, NEW b \in Path
  PROVE  MakeEntry(k, p, n, b) \in Entry
BY DEF MakeEntry, Entry, HasInterpreter

LEMMA ImportsType ==
  ASSUME HostType, NEW p \in Path PROVE Imports(p) \in Seq(Import)
<1> DEFINE names == ImportedLibraries(p)
<1>1. names \in Seq(Name) BY ImportedType
<1>2. DOMAIN names = 1..Len(names) /\ Len(names) \in Nat BY <1>1, LenProperties
<1>3. \A i \in 1..Len(names) : names[i] \in Name BY <1>1, ElementOfSeq
<1> HIDE DEF names
<1>4. [i \in 1..Len(names) |-> [name |-> names[i], owner |-> p]]
        \in [1..Len(names) -> Import]
  BY <1>3 DEF Import
<1> QED BY <1>2, <1>4, SeqDef DEF Imports, names

-----------------------------------------------------------------------------
(* The type invariant, one step per action.                                *)

LEMMA InitType == Init => TypeOK
<1> SUFFICES ASSUME Init PROVE TypeOK OBVIOUS
<1>1. HostType BY WalkAssumption DEF Init, HostType
<1>2. exe \in Path /\ policy \in Policy BY WalkAssumption DEF Init
<1>3. PathMap(bySource) /\ PathMap(byCanonical)
  BY DEF Init, NoEntries, PathMap
<1>4. CachedType BY <1>1, ScannedType DEF Init
<1> QED BY <1>1, <1>2, <1>3, <1>4 DEF Init, TypeOK, Phase

LEMMA DequeueType ==
  ASSUME TypeOK, Dequeue PROVE TypeOK'
<1> USE DEF TypeOK
<1> DEFINE head == Head(todo)
           dep == Dependency(head.owner, head.name)
<1>1. head \in Import /\ Tail(todo) \in Seq(Import)
  BY HeadTailProperties DEF Dequeue
<1>2. dep \in Resolution \cup {NoResolution}
  BY <1>1, DependencyType DEF Import
<1> HIDE DEF dep
<1>3. ASSUME RegisterPayload(dep)
      PROVE  /\ dep \in Resolution /\ dep.canonical \in Path
             /\ PathMap(bySource') /\ PathMap(byCanonical')
             /\ seenPayloads' \subseteq Path
  <2>1. dep \in Resolution BY <1>2, <1>3 DEF RegisterPayload
  <2>2. dep.canonical \in Path BY <2>1 DEF Resolution
  <2>3. LibraryPath(dep.canonical) \in Path BY <2>2, PlannedPathType
  <2>4. Canonicalize(dep.canonical) \in Path BY <2>2, CanonicalType
  <2> QED BY <1>3, <2>1, <2>2, <2>3, <2>4, PutType DEF RegisterPayload
<1>4. CASE ResolveFails(dep)
  BY <1>4 DEF ResolveFails, inputs, Phase, HostType, CachedType, PathMap
<1>5. CASE SkipInterpreter(dep)
  BY <1>1, <1>5 DEF SkipInterpreter, inputs, HostType, CachedType, PathMap
<1>6. CASE SkipUnparseable(dep)
  BY <1>1, <1>3, <1>6 DEF SkipUnparseable, inputs, HostType, CachedType, PathMap
<1>7. ASSUME PlanAliasesOf(dep), dep \in Resolution
      PROVE  /\ HostType' /\ CachedType'
             /\ exe' \in Path /\ includeInterpreter' \in BOOLEAN
             /\ policy' \in Policy /\ fallback' \in Dir \cup {NoDir}
             /\ phase' \in Phase
             /\ current' \in Resolution /\ links' \subseteq Link
             /\ pending' \in Seq(PendingAlias) /\ seenAliases' \subseteq Path
  BY <1>7 DEF PlanAliasesOf, inputs, Phase, HostType, CachedType, Resolution
<1>8. CASE NewPayload(dep)
  <2>1. RegisterPayload(dep) /\ PlanAliasesOf(dep) BY <1>8 DEF NewPayload
  <2>2. dep \in Resolution /\ dep.canonical \in Path BY <1>3, <2>1
  <2>3. dep.name \in Name BY <2>2 DEF Resolution
  <2>4. MakeEntry("SharedObject", dep.canonical, dep.name,
                  LibraryPath(dep.canonical)) \in Entry
    BY <2>2, <2>3, PlannedPathType, MakeEntryType DEF Kind
  <2>5. manifest' \in Seq(Entry)
    BY <1>8, <2>4, AppendProperties DEF NewPayload
  <2>6. todo' \in Seq(Import)
    BY <1>1, <1>8, <2>2, ImportsType, ConcatProperties DEF NewPayload
  <2> QED BY <1>3, <1>7, <2>1, <2>2, <2>5, <2>6
<1>9. CASE SeenPayload(dep)
  <2>1. RegisterPayload(dep) /\ PlanAliasesOf(dep) BY <1>9 DEF SeenPayload
  <2> QED BY <1>1, <1>3, <1>7, <1>9, <2>1 DEF SeenPayload
<1> QED BY <1>4, <1>5, <1>6, <1>8, <1>9 DEF Dequeue, dep

LEMMA RegisterAliasType ==
  ASSUME TypeOK, RegisterAlias PROVE TypeOK'
<1> USE DEF TypeOK
<1>1. PICK a \in links :
        /\ links' = links \ {a}
        /\ IF AliasPath(a.link) \in seenAliases
           THEN UNCHANGED <<seenAliases, bySource, pending>>
           ELSE /\ seenAliases' = seenAliases \cup {AliasPath(a.link)}
                /\ bySource' = Put(bySource, a.link, AliasPath(a.link))
                /\ pending' = Append(pending,
                     [link |-> a.link, target |-> a.target,
                      bundled |-> AliasPath(a.link)])
        /\ UNCHANGED <<inputs, policy, fallback, phase, todo, current, byCanonical,
                       seenPayloads, manifest>>
  BY DEF RegisterAlias
<1>2. a.link \in Path /\ a.target \in Path BY DEF Link
<1>3. AliasPath(a.link) \in Path BY <1>2, PlannedPathType
<1>4. PathMap(bySource') BY <1>1, <1>2, <1>3, PutType
<1>5. [link |-> a.link, target |-> a.target, bundled |-> AliasPath(a.link)]
         \in PendingAlias
  BY <1>2, <1>3 DEF PendingAlias
<1> DEFINE alias == [link |-> a.link, target |-> a.target,
                     bundled |-> AliasPath(a.link)]
<1>6. pending' \in Seq(PendingAlias)
  <2>1. pending' = pending \/ pending' = Append(pending, alias) BY <1>1
  <2>2. alias \in PendingAlias BY <1>5
  <2> HIDE DEF alias
  <2>3. Append(pending, alias) \in Seq(PendingAlias) BY <2>2, AppendProperties
  <2> QED BY <2>1, <2>3
<1>7. seenAliases' \subseteq Path /\ links' \subseteq Link BY <1>1, <1>3
<1> QED BY <1>1, <1>4, <1>6, <1>7 DEF inputs, HostType, CachedType, PathMap

LEMMA PlanTargetType ==
  ASSUME TypeOK, PlanTarget PROVE TypeOK'
<1> USE DEF TypeOK
<1> DEFINE alias == Head(pending)
<1>1. alias \in PendingAlias /\ Tail(pending) \in Seq(PendingAlias)
  BY HeadTailProperties DEF PlanTarget
<1> HIDE DEF alias
<1>2. PlannedLinkTarget(alias.target) \in Path
  BY <1>1, PlannedTargetType DEF PendingAlias
<1>3. AliasEntry(alias, PlannedLinkTarget(alias.target)) \in Entry
  BY <1>1, <1>2 DEF AliasEntry, Entry, Kind, PendingAlias, Path
<1>4. manifest' \in Seq(Entry)
  BY <1>3, AppendProperties DEF PlanTarget, alias
<1> QED BY <1>1, <1>4 DEF PlanTarget, inputs, HostType, CachedType, PathMap, alias

LEMMA FinishType ==
  ASSUME TypeOK, Finish PROVE TypeOK'
<1> USE DEF TypeOK
<1>1. ASSUME InterpreterPath # NoPath
      PROVE  MakeEntry("Interpreter", InterpreterPath, InterpreterPath.name,
               BundlePathFor(policy, "Interpreter", InterpreterPath, NoDir))
               \in Entry
  <2>1. InterpreterPath \in Path BY <1>1, InterpreterType
  <2>2. InterpreterPath.name \in Name BY <2>1 DEF Path
  <2> QED BY <2>1, <2>2, BundlePathType, MakeEntryType DEF Kind
<1>2. manifest' \in Seq(Entry) BY <1>1, AppendProperties DEF Finish
<1> QED BY <1>2 DEF Finish, inputs, HostType, CachedType, PathMap, Phase

LEMMA OpenType ==
  ASSUME TypeOK, Open PROVE TypeOK'
<1> USE DEF TypeOK
<1>1. MakeEntry("Executable", exe, exe.name,
                BundlePathFor(policy, "Executable", exe, NoDir)) \in Entry
  BY BundlePathType, MakeEntryType DEF Kind, Path
<1>2. Imports(exe) \in Seq(Import) BY ImportsType
<1>3. fallback' \in Dir \cup {NoDir} BY FallbackType DEF Open
<1> QED BY <1>1, <1>2, <1>3 DEF Open, inputs, HostType, CachedType, PathMap, Phase

LEMMA NextType == TypeOK /\ [Next]_vars => TypeOK'
<1> SUFFICES ASSUME TypeOK, [Next]_vars PROVE TypeOK' OBVIOUS
<1>1. CASE Open BY <1>1, OpenType
<1>2. CASE OpenFails
  BY <1>2 DEF OpenFails, TypeOK, inputs, HostType, CachedType, PathMap, Phase
<1>3. CASE Dequeue BY <1>3, DequeueType
<1>4. CASE RegisterAlias BY <1>4, RegisterAliasType
<1>5. CASE AliasesRegistered
  BY <1>5 DEF AliasesRegistered, TypeOK, inputs, HostType, CachedType, PathMap, Phase
<1>6. CASE PlanTarget BY <1>6, PlanTargetType
<1>7. CASE TargetsPlanned
  BY <1>7 DEF TargetsPlanned, TypeOK, inputs, HostType, CachedType, PathMap, Phase
<1>8. CASE Finish BY <1>8, FinishType
<1>9. CASE UNCHANGED vars
  BY <1>9 DEF vars, walkVars, TypeOK, inputs, HostType, CachedType, PathMap
<1> QED BY <1>1, <1>2, <1>3, <1>4, <1>5, <1>6, <1>7, <1>8, <1>9 DEF Next

(* Every state of the walk is well typed: what the resolver returns, every *)
(* queued import, every planned path and every manifest entry.             *)
THEOREM TypeCorrect == Spec => []TypeOK
BY InitType, NextType, PTL DEF Spec

-----------------------------------------------------------------------------
(* Steps seen from the manifest: it stays, or one entry is appended.       *)

LEMMA AppendedEntry ==
  ASSUME TypeOK, NEW e, manifest' = Append(manifest, e)
  PROVE  /\ DOMAIN manifest = 1..Len(manifest) /\ Len(manifest) \in Nat
         /\ DOMAIN manifest' = DOMAIN manifest \cup {Len(manifest) + 1}
         /\ \A i \in DOMAIN manifest : manifest'[i] = manifest[i]
         /\ manifest'[Len(manifest) + 1] = e
BY DEF TypeOK

LEMMA AppendedKind ==
  ASSUME TypeOK, NEW e, manifest' = Append(manifest, e), NEW kind
  PROVE  /\ OfKind(kind)' = IF e.kind = kind
                             THEN OfKind(kind) \cup {Len(manifest) + 1}
                             ELSE OfKind(kind)
         /\ \A i \in OfKind(kind) : manifest'[i] = manifest[i]
         /\ Len(manifest) + 1 \notin OfKind(kind)
BY AppendedEntry DEF OfKind

-----------------------------------------------------------------------------
(* No step changes the host, so none changes an answer read from it.       *)

LEMMA FixedDependency ==
  ASSUME UNCHANGED <<host, cached>>
  PROVE  /\ \A p : ImportedLibraries(p)' = ImportedLibraries(p)
         /\ \A p, n : Dependency(p, n)' = Dependency(p, n)
<1>1. \A p : LoaderSearchRoots(p)' = LoaderSearchRoots(p)
  BY FixedHost DEF LoaderSearchRoots
<1>2. \A n, r : Resolve(n, r)' = Resolve(n, r) BY FixedResolver DEF Resolve
<1>3. \A p : ImportedLibraries(p)' = ImportedLibraries(p)
  BY FixedHost DEF ImportedLibraries
<1> QED BY <1>1, <1>2, <1>3 DEF Dependency

LEMMA FixedInterpreter ==
  ASSUME UNCHANGED inputs
  PROVE  UNCHANGED <<InterpreterPath, InterpreterFile>>
<1>1. InterpreterPath' = InterpreterPath
  BY FixedHost DEF inputs, InterpreterPath
<1> QED BY <1>1, FixedHost DEF inputs, InterpreterFile

LEMMA InputsStay == [Next]_vars => UNCHANGED inputs /\ UNCHANGED policy
BY DEF Next, vars, inputs, walkVars, Open, OpenFails, Dequeue, ResolveFails,
       SkipInterpreter, SkipUnparseable, NewPayload, SeenPayload,
       PlanAliasesOf, RegisterAlias, AliasesRegistered, PlanTarget,
       TargetsPlanned, Finish

-----------------------------------------------------------------------------
(* Payloads.  That a file gets one payload rests on seen_payloads covering *)
(* every payload planned so far; that the interpreter gets none, on the    *)
(* check coming before the payload is registered.                          *)

PayloadInv ==
  /\ \A i \in OfKind("SharedObject") :
       manifest[i].source \in seenPayloads \ InterpreterFile
  /\ OnePayloadPerFile

(* A step that plans no payload.                                           *)
LEMMA KeepsPayloads ==
  ASSUME PayloadInv, UNCHANGED inputs,
         OfKind("SharedObject")' = OfKind("SharedObject"),
         \A i \in OfKind("SharedObject") : manifest'[i] = manifest[i],
         seenPayloads \subseteq seenPayloads'
  PROVE  PayloadInv'
BY FixedInterpreter DEF PayloadInv, OnePayloadPerFile

LEMMA SameManifest ==
  ASSUME UNCHANGED manifest
  PROVE  /\ \A kind : OfKind(kind)' = OfKind(kind)
         /\ \A i : manifest'[i] = manifest[i]
BY DEF OfKind

LEMMA PayloadStep ==
  ASSUME TypeOK, PayloadInv, [Next]_vars PROVE PayloadInv'
<1> USE InputsStay
<1>1. CASE Open
  <2>1. OfKind("SharedObject")' = {} BY <1>1 DEF Open, OfKind, MakeEntry
  <2> QED BY <2>1 DEF PayloadInv, OnePayloadPerFile
<1>2. CASE Dequeue
  <2> DEFINE dep == Dependency(Head(todo).owner, Head(todo).name)
  <2> HIDE DEF dep
  <2>1. CASE NewPayload(dep)
    <3> DEFINE e == MakeEntry("SharedObject", dep.canonical, dep.name,
                              LibraryPath(dep.canonical))
    <3>1. manifest' = Append(manifest, e) BY <2>1 DEF NewPayload
    <3>2. e.kind = "SharedObject" /\ e.source = dep.canonical BY DEF MakeEntry
    <3> HIDE DEF e
    <3>3. /\ OfKind("SharedObject")' = OfKind("SharedObject") \cup {Len(manifest) + 1}
          /\ \A i \in OfKind("SharedObject") : manifest'[i] = manifest[i]
          /\ manifest'[Len(manifest) + 1] = e
      BY <3>1, <3>2, AppendedKind, AppendedEntry
    <3>4. /\ dep.canonical \notin InterpreterFile
          /\ dep.canonical \notin seenPayloads
          /\ seenPayloads' = seenPayloads \cup {dep.canonical}
      BY <2>1 DEF NewPayload, RegisterPayload
    <3>5. InterpreterFile' = InterpreterFile BY FixedInterpreter
    <3> QED BY <3>2, <3>3, <3>4, <3>5 DEF PayloadInv, OnePayloadPerFile
  <2>2. ASSUME UNCHANGED manifest, seenPayloads \subseteq seenPayloads'
        PROVE  PayloadInv'
    BY <2>2, SameManifest, KeepsPayloads
  <2> QED BY <1>2, <2>1, <2>2 DEF Dequeue, ResolveFails, SkipInterpreter,
             SkipUnparseable, SeenPayload, RegisterPayload, dep
<1>3. CASE PlanTarget
  <2> DEFINE e == AliasEntry(Head(pending), PlannedLinkTarget(Head(pending).target))
  <2>1. manifest' = Append(manifest, e) /\ UNCHANGED seenPayloads
    BY <1>3 DEF PlanTarget
  <2>2. e.kind # "SharedObject" BY DEF AliasEntry
  <2> HIDE DEF e
  <2> QED BY <2>1, <2>2, AppendedKind, KeepsPayloads
<1>4. CASE Finish
  <2> DEFINE e == MakeEntry("Interpreter", InterpreterPath, InterpreterPath.name,
                    BundlePathFor(policy, "Interpreter", InterpreterPath, NoDir))
  <2>1. /\ UNCHANGED seenPayloads
        /\ UNCHANGED manifest \/ manifest' = Append(manifest, e)
    BY <1>4 DEF Finish
  <2>2. e.kind # "SharedObject" BY DEF MakeEntry
  <2> HIDE DEF e
  <2> QED BY <2>1, <2>2, AppendedKind, SameManifest, KeepsPayloads
<1>5. CASE /\ UNCHANGED <<manifest, seenPayloads>>
  BY <1>5, SameManifest, KeepsPayloads
<1> QED BY <1>1, <1>2, <1>3, <1>4, <1>5 DEF Next, OpenFails, RegisterAlias,
           AliasesRegistered, TargetsPlanned, vars, walkVars

LEMMA PayloadInit == Init => PayloadInv
BY DEF Init, PayloadInv, OnePayloadPerFile, OfKind

(* However many names, owners and scans lead to a library, the plan copies *)
(* its file once: seen_payloads covers every payload planned so far.       *)
THEOREM PayloadsAreDistinct == Spec => []OnePayloadPerFile
<1>1. PayloadInv => OnePayloadPerFile BY DEF PayloadInv
<1> QED BY TypeCorrect, PayloadInit, PayloadStep, <1>1, PTL DEF Spec

-----------------------------------------------------------------------------
(* The interpreter.  Its entry is the last one planned, and payloads stay  *)
(* clear of its file by PayloadInv.                                        *)

InterpreterInv ==
  /\ OfKind("Interpreter") # {} => Planned
  /\ Planned => Cardinality(OfKind("Interpreter")) =
                  IF InterpreterPath = NoPath THEN 0 ELSE 1

LEMMA InterpreterInit == Init => InterpreterInv
BY DEF Init, InterpreterInv, OfKind, Planned

(* A step that neither ends planning nor plans an interpreter.             *)
LEMMA KeepsInterpreter ==
  ASSUME InterpreterInv, UNCHANGED inputs, phase # "planned",
         phase' # "planned",
         OfKind("Interpreter")' = OfKind("Interpreter")
  PROVE  InterpreterInv'
BY DEF InterpreterInv, Planned

LEMMA FinishInterpreter ==
  ASSUME TypeOK, InterpreterInv, Finish PROVE InterpreterInv'
<1>1. OfKind("Interpreter") = {} /\ phase' = "planned"
  BY DEF Finish, InterpreterInv, Planned
<1>2. InterpreterPath' = InterpreterPath BY FixedInterpreter DEF Finish
<1>3. CASE InterpreterPath = NoPath
  <2>1. OfKind("Interpreter")' = {} BY <1>1, <1>3 DEF Finish, OfKind
  <2> QED BY <1>1, <1>2, <1>3, <2>1, FS_EmptySet DEF InterpreterInv, Planned
<1>4. CASE InterpreterPath # NoPath
  <2> DEFINE e == MakeEntry("Interpreter", InterpreterPath, InterpreterPath.name,
                    BundlePathFor(policy, "Interpreter", InterpreterPath, NoDir))
  <2>1. manifest' = Append(manifest, e) BY <1>4 DEF Finish
  <2>2. e.kind = "Interpreter" BY DEF MakeEntry
  <2> HIDE DEF e
  <2>3. OfKind("Interpreter")' = {Len(manifest) + 1}
    BY <1>1, <2>1, <2>2, AppendedKind
  <2>4. Cardinality({Len(manifest) + 1}) = 1 BY FS_Singleton
  <2> QED BY <1>1, <1>2, <1>4, <2>3, <2>4 DEF InterpreterInv, Planned
<1> QED BY <1>3, <1>4

LEMMA InterpreterStep ==
  ASSUME TypeOK, InterpreterInv, [Next]_vars PROVE InterpreterInv'
<1> USE InputsStay
<1>1. CASE Finish BY <1>1, FinishInterpreter
<1>2. CASE UNCHANGED vars
  <2>1. UNCHANGED <<manifest, phase, inputs>> BY <1>2 DEF vars, walkVars
  <2> QED BY <2>1, SameManifest, FixedInterpreter DEF InterpreterInv, Planned
<1>3. CASE Open
  <2>1. OfKind("Interpreter")' = {} BY <1>3 DEF Open, OfKind, MakeEntry
  <2> QED BY <1>3, <2>1 DEF Open, InterpreterInv, Planned
<1>4. CASE Dequeue
  <2> DEFINE dep == Dependency(Head(todo).owner, Head(todo).name)
  <2> HIDE DEF dep
  <2>1. phase # "planned" /\ phase' # "planned"
    BY <1>4 DEF Dequeue, ResolveFails, SkipInterpreter, SkipUnparseable,
                NewPayload, SeenPayload, PlanAliasesOf
  <2>2. CASE NewPayload(dep)
    <3> DEFINE e == MakeEntry("SharedObject", dep.canonical, dep.name,
                              LibraryPath(dep.canonical))
    <3>1. manifest' = Append(manifest, e) /\ e.kind # "Interpreter"
      BY <2>2 DEF NewPayload, MakeEntry
    <3> HIDE DEF e
    <3> QED BY <2>1, <3>1, AppendedKind, KeepsInterpreter
  <2>3. CASE UNCHANGED manifest BY <2>1, <2>3, SameManifest, KeepsInterpreter
  <2> QED BY <1>4, <2>2, <2>3 DEF Dequeue, ResolveFails, SkipInterpreter,
             SkipUnparseable, SeenPayload, dep
<1>5. CASE PlanTarget
  <2> DEFINE e == AliasEntry(Head(pending), PlannedLinkTarget(Head(pending).target))
  <2>1. /\ manifest' = Append(manifest, e) /\ e.kind # "Interpreter"
        /\ phase # "planned" /\ phase' # "planned"
    BY <1>5 DEF PlanTarget, AliasEntry
  <2> HIDE DEF e
  <2> QED BY <2>1, AppendedKind, KeepsInterpreter
<1>6. CASE OpenFails \/ RegisterAlias \/ AliasesRegistered \/ TargetsPlanned
  <2>1. UNCHANGED manifest /\ phase # "planned" /\ phase' # "planned"
    BY <1>6 DEF OpenFails, RegisterAlias, AliasesRegistered, TargetsPlanned
  <2> QED BY <2>1, SameManifest, KeepsInterpreter
<1> QED BY <1>1, <1>2, <1>3, <1>4, <1>5, <1>6 DEF Next

(* With --interpreter the loader is one entry of the finished plan, and no *)
(* name it is imported under makes a library payload of its file.          *)
THEOREM InterpreterIsBundledOnce == Spec => []InterpreterBundledOnce
<1>1. PayloadInv /\ InterpreterInv => InterpreterBundledOnce
  BY DEF PayloadInv, InterpreterInv, InterpreterBundledOnce, InterpreterFile
<1> QED BY TypeCorrect, PayloadInit, PayloadStep, InterpreterInit,
           InterpreterStep, <1>1, PTL DEF Spec

-----------------------------------------------------------------------------
(* Aliases.  Between its registration and its entry in the manifest an     *)
(* alias waits in pending; seen_aliases covers the paths of both.          *)

AliasInv ==
  /\ \A i \in OfKind("SymlinkAlias") : manifest[i].bundled \in seenAliases
  /\ \A k \in DOMAIN pending : pending[k].bundled \in seenAliases
  /\ \A k, l \in DOMAIN pending : pending[k].bundled = pending[l].bundled => k = l
  /\ \A i \in OfKind("SymlinkAlias") : \A k \in DOMAIN pending :
       manifest[i].bundled # pending[k].bundled
  /\ AliasPathsDistinct

LEMMA AliasInit == Init => AliasInv
BY DEF Init, AliasInv, AliasPathsDistinct, OfKind

(* A step that neither registers nor plans an alias.                       *)
LEMMA KeepsAliases ==
  ASSUME AliasInv, UNCHANGED <<pending, seenAliases>>,
         OfKind("SymlinkAlias")' = OfKind("SymlinkAlias"),
         \A i \in OfKind("SymlinkAlias") : manifest'[i] = manifest[i]
  PROVE  AliasInv'
BY DEF AliasInv, AliasPathsDistinct

LEMMA RegisterAliasKeeps ==
  ASSUME TypeOK, AliasInv, RegisterAlias PROVE AliasInv'
<1>1. UNCHANGED manifest BY DEF RegisterAlias
<1>2. CASE UNCHANGED <<pending, seenAliases>>
  BY <1>1, <1>2, SameManifest, KeepsAliases
<1>3. CASE ~UNCHANGED <<pending, seenAliases>>
  <2>1. PICK a \in links :
          /\ AliasPath(a.link) \notin seenAliases
          /\ seenAliases' = seenAliases \cup {AliasPath(a.link)}
          /\ pending' = Append(pending,
                          [link |-> a.link, target |-> a.target,
                           bundled |-> AliasPath(a.link)])
    BY <1>3 DEF RegisterAlias
  <2> DEFINE new == [link |-> a.link, target |-> a.target,
                     bundled |-> AliasPath(a.link)]
             n == Len(pending) + 1
  <2>2. new.bundled \notin seenAliases /\ seenAliases' = seenAliases \cup {new.bundled}
    BY <2>1
  <2>3. pending' = Append(pending, new) BY <2>1
  <2> HIDE DEF new
  <2>4. /\ DOMAIN pending' = DOMAIN pending \cup {n}
        /\ n \notin DOMAIN pending
        /\ \A k \in DOMAIN pending : pending'[k] = pending[k]
        /\ pending'[n] = new
    BY <2>3 DEF TypeOK
  <2> HIDE DEF n
  <2> QED BY <1>1, <2>2, <2>4, SameManifest DEF AliasInv, AliasPathsDistinct
<1> QED BY <1>2, <1>3

LEMMA PlanTargetKeeps ==
  ASSUME TypeOK, AliasInv, PlanTarget PROVE AliasInv'
<1> DEFINE e == AliasEntry(Head(pending), PlannedLinkTarget(Head(pending).target))
           n == Len(manifest) + 1
<1>1. /\ manifest' = Append(manifest, e) /\ pending' = Tail(pending)
      /\ pending # <<>> /\ UNCHANGED seenAliases
  BY DEF PlanTarget
<1>2. e.kind = "SymlinkAlias" /\ e.bundled = pending[1].bundled
  BY <1>1 DEF AliasEntry, TypeOK
<1> HIDE DEF e
<1>3. /\ OfKind("SymlinkAlias")' = OfKind("SymlinkAlias") \cup {n}
      /\ \A i \in OfKind("SymlinkAlias") : manifest'[i] = manifest[i]
      /\ manifest'[n] = e
  BY <1>1, <1>2, AppendedKind, AppendedEntry
<1> HIDE DEF n
<1>4. \A k \in DOMAIN pending' :
        /\ k \in Nat /\ k + 1 \in DOMAIN pending /\ k + 1 # 1
        /\ pending'[k] = pending[k + 1]
  BY <1>1 DEF TypeOK
<1>5. 1 \in DOMAIN pending BY <1>1 DEF TypeOK
<1>6. \A k \in DOMAIN pending' : pending'[k].bundled # e.bundled
  BY <1>2, <1>4, <1>5 DEF AliasInv
<1>7. \A k, l \in DOMAIN pending' : pending'[k].bundled = pending'[l].bundled => k = l
  <2> SUFFICES ASSUME NEW k \in DOMAIN pending', NEW l \in DOMAIN pending',
                      pending'[k].bundled = pending'[l].bundled
               PROVE  k = l
    OBVIOUS
  <2>1. k + 1 = l + 1 BY <1>4 DEF AliasInv
  <2> QED BY <1>4, <2>1
<1>8. \A i \in OfKind("SymlinkAlias") : manifest[i].bundled # e.bundled
  BY <1>2, <1>5 DEF AliasInv
<1>9. AliasPathsDistinct' BY <1>3, <1>8 DEF AliasInv, AliasPathsDistinct
<1>10. \A i \in OfKind("SymlinkAlias")' : manifest'[i].bundled \in seenAliases'
  <2>1. e.bundled \in seenAliases BY <1>2, <1>5 DEF AliasInv
  <2>2. \A i \in OfKind("SymlinkAlias") : manifest[i].bundled \in seenAliases
    BY DEF AliasInv
  <2>3. seenAliases' = seenAliases BY <1>1
  <2> QED BY <1>3, <2>1, <2>2, <2>3
<1>11. \A k \in DOMAIN pending' : pending'[k].bundled \in seenAliases'
  BY <1>1, <1>4 DEF AliasInv
<1>12. \A i \in OfKind("SymlinkAlias")' : \A k \in DOMAIN pending' :
         manifest'[i].bundled # pending'[k].bundled
  <2> SUFFICES ASSUME NEW i \in OfKind("SymlinkAlias")', NEW k \in DOMAIN pending'
               PROVE  manifest'[i].bundled # pending'[k].bundled
    OBVIOUS
  <2>1. CASE i \in OfKind("SymlinkAlias")
    <3>1. k + 1 \in DOMAIN pending /\ pending'[k] = pending[k + 1] BY <1>4
    <3>2. manifest[i].bundled # pending[k + 1].bundled
      BY <2>1, <3>1 DEF AliasInv
    <3> QED BY <1>3, <2>1, <3>1, <3>2
  <2>2. CASE i = n BY <1>3, <1>6, <2>2
  <2> QED BY <1>3, <2>1, <2>2
<1> QED BY <1>7, <1>9, <1>10, <1>11, <1>12 DEF AliasInv

LEMMA AliasStep ==
  ASSUME TypeOK, AliasInv, [Next]_vars PROVE AliasInv'
<1>1. CASE RegisterAlias BY <1>1, RegisterAliasKeeps
<1>2. CASE PlanTarget BY <1>2, PlanTargetKeeps
<1>3. CASE Open
  <2>1. OfKind("SymlinkAlias")' = {} /\ UNCHANGED <<pending, seenAliases>>
    BY <1>3 DEF Open, OfKind, MakeEntry
  <2> QED BY <2>1 DEF AliasInv, AliasPathsDistinct
<1>4. CASE Dequeue
  <2> DEFINE dep == Dependency(Head(todo).owner, Head(todo).name)
  <2> HIDE DEF dep
  <2>1. UNCHANGED <<pending, seenAliases>>
    BY <1>4 DEF Dequeue, ResolveFails, SkipInterpreter, SkipUnparseable,
                NewPayload, SeenPayload, PlanAliasesOf
  <2>2. CASE NewPayload(dep)
    <3> DEFINE e == MakeEntry("SharedObject", dep.canonical, dep.name,
                              LibraryPath(dep.canonical))
    <3>1. manifest' = Append(manifest, e) /\ e.kind # "SymlinkAlias"
      BY <2>2 DEF NewPayload, MakeEntry
    <3> HIDE DEF e
    <3> QED BY <2>1, <3>1, AppendedKind, KeepsAliases
  <2>3. CASE UNCHANGED manifest BY <2>1, <2>3, SameManifest, KeepsAliases
  <2> QED BY <1>4, <2>2, <2>3 DEF Dequeue, ResolveFails, SkipInterpreter,
             SkipUnparseable, SeenPayload, dep
<1>5. CASE Finish
  <2> DEFINE e == MakeEntry("Interpreter", InterpreterPath, InterpreterPath.name,
                    BundlePathFor(policy, "Interpreter", InterpreterPath, NoDir))
  <2>1. /\ UNCHANGED <<pending, seenAliases>>
        /\ UNCHANGED manifest \/ manifest' = Append(manifest, e)
    BY <1>5 DEF Finish
  <2>2. e.kind # "SymlinkAlias" BY DEF MakeEntry
  <2> HIDE DEF e
  <2> QED BY <2>1, <2>2, AppendedKind, SameManifest, KeepsAliases
<1>6. CASE UNCHANGED <<manifest, pending, seenAliases>>
  BY <1>6, SameManifest, KeepsAliases
<1> QED BY <1>1, <1>2, <1>3, <1>4, <1>5, <1>6 DEF Next, OpenFails,
           AliasesRegistered, TargetsPlanned, vars, walkVars

(* Whichever scans report an alias and however often, its bundle path is   *)
(* planned once, for the first that claims it.                             *)
THEOREM AliasesAreDistinct == Spec => []AliasPathsDistinct
<1>1. AliasInv => AliasPathsDistinct BY DEF AliasInv
<1> QED BY TypeCorrect, AliasInit, AliasStep, <1>1, PTL DEF Spec

-----------------------------------------------------------------------------
(* DependencyClosure reads the same host with operators of its own name    *)
(* space; they return what those of the walk return.                       *)

LEMMA SameHost ==
  /\ \A p : Closure!Canonicalize(p) = Canonicalize(p)
  /\ \A p : Closure!Parses(p) = Parses(p)
  /\ \A p : Closure!Elf(p) = Elf(p)
  /\ \A p : Closure!LinkTarget(p) = LinkTarget(p)
  /\ \A p : Closure!IsLinkEntry(p) = IsLinkEntry(p)
  /\ \A p : Closure!IsFileEntry(p) = IsFileEntry(p)
  /\ \A p : Closure!Exists(p) = Exists(p)
<1>1. \A p : Closure!At(p) = At(p) BY DEF Closure!At, At
<1>2. \A p : Closure!Exists(p) = Exists(p) /\ Closure!IsLink(p) = IsLink(p)
  BY <1>1 DEF Closure!Exists, Exists, Closure!IsLink, IsLink
<1>3. \A p : Closure!LinkTarget(p) = LinkTarget(p)
  BY <1>1 DEF Closure!LinkTarget, LinkTarget, Closure!RefDir, RefDir
<1>4. Closure!Walk = Walk
  BY DEF Closure!Walk, Walk, Closure!IsLink, IsLink, Closure!Exists, Exists,
         Closure!At, At, Closure!LinkTarget, LinkTarget, Closure!RefDir, RefDir,
         Closure!Path, Path
<1>5. \A p : Closure!Destination(p) = Destination(p)
  BY <1>1, <1>2, <1>3, <1>4 DEF Closure!Destination, Destination
<1>6. \A p : Closure!Opens(p) = Opens(p) BY <1>5 DEF Closure!Opens, Opens
<1>7. \A p : Closure!Canonicalize(p) = Canonicalize(p)
  BY <1>1, <1>5, <1>6 DEF Closure!Canonicalize, Canonicalize
<1>8. \A p : Closure!IsElf(p) = IsElf(p)
  BY <1>5, <1>6 DEF Closure!IsElf, IsElf
<1>9. \A p : Closure!Parses(p) = Parses(p) /\ Closure!Elf(p) = Elf(p)
  BY <1>5, <1>8 DEF Closure!Parses, Parses, Closure!Elf, Elf
<1>10. \A p : Closure!IsLinkEntry(p) = IsLinkEntry(p)
  BY <1>2, <1>3, <1>8 DEF Closure!IsLinkEntry, IsLinkEntry
<1>11. \A p : Closure!IsFileEntry(p) = IsFileEntry(p)
  BY <1>8, <1>10 DEF Closure!IsFileEntry, IsFileEntry
<1> QED BY <1>2, <1>3, <1>7, <1>9, <1>10, <1>11

LEMMA SameAnswers ==
  /\ \A p : Closure!ImportedLibraries(p) = ImportedLibraries(p)
  /\ \A p, n : Closure!Dependency(p, n) = Dependency(p, n)
  /\ Closure!InterpreterFile = InterpreterFile
<1>1. \A p : Closure!LoaderSearchRoots(p) = LoaderSearchRoots(p)
  <2>1. \A r, p : Closure!ExpandDynamicRoot(r, p) = ExpandDynamicRoot(r, p)
    BY DEF Closure!ExpandDynamicRoot, ExpandDynamicRoot, Closure!RefDir, RefDir
  <2>2. \A s, p : Closure!Expanded(s, p) = Expanded(s, p)
    BY <2>1 DEF Closure!Expanded, Expanded
  <2>3. \A s : Closure!FirstOccurrences(s) = FirstOccurrences(s)
    BY DEF Closure!FirstOccurrences, FirstOccurrences
  <2> QED BY SameHost, <2>2, <2>3 DEF Closure!LoaderSearchRoots, LoaderSearchRoots
<1>2. \A p : /\ Closure!LinkRecord(p) = LinkRecord(p)
             /\ Closure!FileRecord(p) = FileRecord(p)
  BY SameHost DEF Closure!LinkRecord, LinkRecord, Closure!FileRecord, FileRecord
<1>3. \A r : Closure!Entries(r) = Entries(r)
  BY SameHost DEF Closure!Entries, Entries
<1>4. \A r : Closure!Visits(r) = Visits(r) BY <1>3 DEF Closure!Visits, Visits
<1>5. \A n, r : /\ Closure!LinkVisits(n, r) = LinkVisits(n, r)
                /\ Closure!FileVisits(n, r) = FileVisits(n, r)
  BY <1>4, SameHost DEF Closure!LinkVisits, LinkVisits, Closure!FileVisits, FileVisits
<1>6. \A s : Closure!LastOf(s) = LastOf(s) /\ Closure!FirstOf(s) = FirstOf(s)
  BY DEF Closure!LastOf, LastOf, Closure!FirstOf, FirstOf,
         Closure!NotAfter, NotAfter
<1>7. \A n, r : Closure!Lookup(n, r) = Lookup(n, r)
  BY <1>2, <1>5, <1>6 DEF Closure!Lookup, Lookup, Closure!OrElse, OrElse
<1>8. \A c, r : Closure!AliasLinks(c, r) = AliasLinks(c, r)
  BY <1>2, <1>4, SameHost DEF Closure!AliasLinks, AliasLinks
<1>9. \A n, r : Closure!ResolveIn(n, r) = ResolveIn(n, r)
  BY <1>7, <1>8 DEF Closure!ResolveIn, ResolveIn
<1>10. \A n, r : Closure!Resolve(n, r) = Resolve(n, r)
  BY <1>9 DEF Closure!Resolve, Resolve, Closure!OrElse, OrElse, Closure!The, The
<1>11. \A p, n : Closure!Dependency(p, n) = Dependency(p, n)
  BY <1>1, <1>10 DEF Closure!Dependency, Dependency
<1>12. \A p : Closure!ImportedLibraries(p) = ImportedLibraries(p)
  BY SameHost DEF Closure!ImportedLibraries, ImportedLibraries
<1>13. Closure!InterpreterFile = InterpreterFile
  BY SameHost DEF Closure!InterpreterFile, InterpreterFile,
                  Closure!InterpreterPath, InterpreterPath
<1> QED BY <1>11, <1>12, <1>13

-----------------------------------------------------------------------------
(* The inductive invariant: whatever something bundled imports is in the   *)
(* queue or settled, and the queue holds nothing else.                     *)

Payloads == {manifest[i].source : i \in OfKind("SharedObject")}
Needed == UNION {ToSet(Imports(owner)) : owner \in Payloads \cup {exe}}
Answer(import) == Dependency(import.owner, import.name)
Settled(dep) ==
  /\ dep # NoResolution
  /\ \/ dep.canonical \in InterpreterFile
     \/ ~Parses(dep.canonical)
     \/ dep.canonical \in Payloads
Opened == phase \notin {"open", "failed"}

ClosureInv ==
  /\ phase = "open" => manifest = <<>> /\ todo = <<>> /\ seenPayloads = {}
  /\ Opened => Parses(exe)
  /\ \A p \in seenPayloads : p \in Payloads \/ ~Parses(p)
  /\ ToSet(todo) \subseteq Needed
  /\ Opened => \A w \in Needed : w \in ToSet(todo) \/ Settled(Answer(w))

(* The queue as a set.                                                     *)
LEMMA Popped ==
  ASSUME NEW S, NEW q \in Seq(S), q # <<>>
  PROVE  ToSet(q) = {Head(q)} \cup ToSet(Tail(q))
<1>1. /\ Len(q) \in Nat /\ Len(q) >= 1 /\ DOMAIN q = 1..Len(q)
      /\ Head(q) = q[1]
      /\ DOMAIN Tail(q) = 1..(Len(q) - 1)
      /\ \A i \in 1..(Len(q) - 1) : Tail(q)[i] = q[i + 1]
  OBVIOUS
<1>2. ASSUME NEW i \in DOMAIN q PROVE q[i] \in {Head(q)} \cup ToSet(Tail(q))
  <2>1. CASE i = 1 BY <1>1, <2>1
  <2>2. CASE i # 1
    <3>1. i - 1 \in 1..(Len(q) - 1) /\ (i - 1) + 1 = i BY <1>1, <2>2
    <3>2. Tail(q)[i - 1] = q[i] BY <1>1, <3>1
    <3> QED BY <1>1, <3>1, <3>2 DEF ToSet
  <2> QED BY <2>1, <2>2
<1>3. ASSUME NEW i \in DOMAIN Tail(q) PROVE Tail(q)[i] \in ToSet(q)
  <2>1. i + 1 \in DOMAIN q /\ Tail(q)[i] = q[i + 1] BY <1>1
  <2> QED BY <2>1 DEF ToSet
<1>4. Head(q) \in ToSet(q) BY <1>1 DEF ToSet
<1> QED BY <1>2, <1>3, <1>4 DEF ToSet

LEMMA Concatenated ==
  ASSUME NEW S, NEW s \in Seq(S), NEW t \in Seq(S)
  PROVE  ToSet(s \o t) = ToSet(s) \cup ToSet(t)
<1>1. /\ Len(s) \in Nat /\ Len(t) \in Nat
      /\ DOMAIN s = 1..Len(s) /\ DOMAIN t = 1..Len(t)
      /\ DOMAIN (s \o t) = 1..(Len(s) + Len(t))
      /\ \A i \in 1..(Len(s) + Len(t)) :
           (s \o t)[i] = IF i <= Len(s) THEN s[i] ELSE t[i - Len(s)]
  OBVIOUS
<1>2. ASSUME NEW i \in DOMAIN (s \o t) PROVE (s \o t)[i] \in ToSet(s) \cup ToSet(t)
  <2>1. CASE i <= Len(s) BY <1>1, <2>1 DEF ToSet
  <2>2. CASE ~(i <= Len(s))
    <3>1. i - Len(s) \in DOMAIN t BY <1>1, <2>2
    <3> QED BY <1>1, <2>2, <3>1 DEF ToSet
  <2> QED BY <2>1, <2>2
<1>3. ASSUME NEW i \in DOMAIN s PROVE s[i] \in ToSet(s \o t)
  <2>1. i \in DOMAIN (s \o t) /\ (s \o t)[i] = s[i] BY <1>1
  <2> QED BY <2>1 DEF ToSet
<1>4. ASSUME NEW i \in DOMAIN t PROVE t[i] \in ToSet(s \o t)
  <2>1. /\ i + Len(s) \in DOMAIN (s \o t) /\ ~(i + Len(s) <= Len(s))
        /\ (i + Len(s)) - Len(s) = i
    BY <1>1
  <2>2. (s \o t)[i + Len(s)] = t[i] BY <1>1, <2>1
  <2> QED BY <2>1, <2>2 DEF ToSet
<1> QED BY <1>2, <1>3, <1>4 DEF ToSet

(* No step changes what the invariant reads from the host.                 *)
LEMMA FixedNeeds ==
  ASSUME UNCHANGED inputs
  PROVE  /\ \A o : Imports(o)' = Imports(o)
         /\ \A w : Answer(w)' = Answer(w)
         /\ \A p : Parses(p)' = Parses(p)
         /\ UNCHANGED <<InterpreterFile, exe>>
BY FixedHost, FixedDependency, FixedInterpreter DEF inputs, Imports, Answer

LEMMA SamePayloads ==
  ASSUME OfKind("SharedObject")' = OfKind("SharedObject"),
         \A i \in OfKind("SharedObject") : manifest'[i] = manifest[i]
  PROVE  UNCHANGED Payloads
BY DEF Payloads

-----------------------------------------------------------------------------
LEMMA ClosureInvInit == Init => ClosureInv
BY DEF Init, ClosureInv, Opened, ToSet

(* A step that leaves queue and payloads alone, and may give up.           *)
LEMMA KeepsClosure ==
  ASSUME ClosureInv, UNCHANGED <<inputs, Payloads, todo, seenPayloads>>,
         phase' # "open", Opened' => Opened
  PROVE  ClosureInv'
<1>1. UNCHANGED Needed BY FixedNeeds DEF Needed
<1>2. \A w : Settled(Answer(w))' = Settled(Answer(w)) BY FixedNeeds DEF Settled
<1>3. ToSet(todo)' = ToSet(todo) OBVIOUS
<1> QED BY <1>1, <1>2, <1>3, FixedNeeds DEF ClosureInv

(* A step that takes an import off the queue because it is settled.        *)
LEMMA DropsSettled ==
  ASSUME TypeOK, ClosureInv, UNCHANGED <<inputs, Payloads>>,
         Opened, phase' # "open", todo # <<>>, todo' = Tail(todo),
         Settled(Answer(Head(todo))),
         \A p \in seenPayloads' : p \in Payloads \/ ~Parses(p)
  PROVE  ClosureInv'
<1>1. UNCHANGED Needed BY FixedNeeds DEF Needed
<1>2. \A w : Settled(Answer(w))' = Settled(Answer(w)) BY FixedNeeds DEF Settled
<1>3. ToSet(todo) = {Head(todo)} \cup ToSet(todo)' BY Popped DEF TypeOK
<1> QED BY <1>1, <1>2, <1>3, FixedNeeds DEF ClosureInv

LEMMA OpenClosure ==
  ASSUME TypeOK, ClosureInv, Open
  PROVE  ClosureInv' /\ UNCHANGED Payloads /\ Needed' = ToSet(todo)'
<1>1. OfKind("SharedObject")' = {} /\ OfKind("SharedObject") = {}
  BY DEF Open, OfKind, MakeEntry, ClosureInv
<1>2. Payloads = {} /\ Payloads' = {} BY <1>1 DEF Payloads
<1>3. UNCHANGED inputs BY DEF Open
<1>4. Needed' = ToSet(Imports(exe)) BY <1>2, <1>3, FixedNeeds DEF Needed
<1>5. ToSet(todo)' = ToSet(Imports(exe)) BY DEF Open
<1>6. seenPayloads' = {} BY DEF Open, ClosureInv
<1>7. phase' = "dequeue" /\ Parses(exe)' BY <1>3, FixedNeeds DEF Open
<1> QED BY <1>2, <1>4, <1>5, <1>6, <1>7 DEF ClosureInv

LEMMA NewPayloadClosure ==
  ASSUME TypeOK, ClosureInv, phase = "dequeue", todo # <<>>,
         NEW dep, dep = Answer(Head(todo)), NewPayload(dep), UNCHANGED inputs
  PROVE  /\ ClosureInv' /\ Payloads' = Payloads \cup {dep.canonical}
         /\ Needed' = Needed \cup ToSet(Imports(dep.canonical))
         /\ ToSet(todo) = {Head(todo)} \cup ToSet(Tail(todo))
         /\ ToSet(todo)' = ToSet(Tail(todo)) \cup ToSet(Imports(dep.canonical))
<1> DEFINE e == MakeEntry("SharedObject", dep.canonical, dep.name,
                          LibraryPath(dep.canonical))
           c == dep.canonical
<1>1. manifest' = Append(manifest, e) BY DEF NewPayload
<1>2. e.kind = "SharedObject" /\ e.source = c BY DEF MakeEntry
<1>3. todo' = Tail(todo) \o Imports(c) BY DEF NewPayload
<1>4. /\ dep # NoResolution /\ seenPayloads' = seenPayloads \cup {c}
      /\ phase' = "aliases" /\ Parses(c)
  BY DEF NewPayload, RegisterPayload, PlanAliasesOf
<1>5. c \in Path
  <2>1. Head(todo) \in Import BY DEF TypeOK
  <2>2. dep \in Resolution BY <1>4, <2>1, DependencyType DEF Answer, Import, TypeOK
  <2> QED BY <2>2 DEF Resolution
<1> HIDE DEF e, c
<1>6. /\ OfKind("SharedObject")' = OfKind("SharedObject") \cup {Len(manifest) + 1}
      /\ \A i \in OfKind("SharedObject") : manifest'[i] = manifest[i]
      /\ manifest'[Len(manifest) + 1] = e
  BY <1>1, <1>2, AppendedKind, AppendedEntry
<1>7. Payloads' = Payloads \cup {c} BY <1>2, <1>6 DEF Payloads
<1>8. Needed' = Needed \cup ToSet(Imports(c)) BY <1>7, FixedNeeds DEF Needed
<1>9. /\ ToSet(todo) = {Head(todo)} \cup ToSet(Tail(todo))
      /\ ToSet(todo)' = ToSet(Tail(todo)) \cup ToSet(Imports(c))
  <2>1. todo \in Seq(Import) /\ Tail(todo) \in Seq(Import) BY DEF TypeOK
  <2>2. Imports(c) \in Seq(Import) BY <1>5, ImportsType DEF TypeOK
  <2>3. ToSet(todo)' = ToSet(Tail(todo) \o Imports(c)) BY <1>3
  <2>4. ToSet(todo) = {Head(todo)} \cup ToSet(Tail(todo)) BY <2>1, Popped
  <2>5. ToSet(Tail(todo) \o Imports(c)) = ToSet(Tail(todo)) \cup ToSet(Imports(c))
    BY <2>1, <2>2, Concatenated
  <2> QED BY <2>3, <2>4, <2>5
<1>10. \A w : Answer(w) = dep => Settled(Answer(w))'
  BY <1>4, <1>7, FixedNeeds DEF Settled, c
<1>11. \A w : Settled(Answer(w)) => Settled(Answer(w))'
  BY <1>7, FixedNeeds DEF Settled
<1>12. ClosureInv'
  <2>1. \A p \in seenPayloads' : p \in Payloads' \/ ~Parses(p)'
    BY <1>4, <1>7, FixedNeeds DEF ClosureInv
  <2>2. ToSet(todo)' \subseteq Needed' BY <1>8, <1>9 DEF ClosureInv
  <2>3. \A w \in Needed' : w \in ToSet(todo)' \/ Settled(Answer(w))'
    BY <1>8, <1>9, <1>10, <1>11 DEF ClosureInv, Opened
  <2>4. phase' = "aliases" /\ Parses(exe)'
    BY <1>4, FixedNeeds DEF ClosureInv, Opened
  <2> QED BY <2>1, <2>2, <2>3, <2>4 DEF ClosureInv
<1> QED BY <1>7, <1>8, <1>9, <1>12 DEF c

(* The five outcomes of taking an import off the queue.                    *)
LEMMA DequeueClosure ==
  ASSUME TypeOK, ClosureInv, Dequeue PROVE ClosureInv'
<1> DEFINE dep == Dependency(Head(todo).owner, Head(todo).name)
<1>1. /\ phase = "dequeue" /\ todo # <<>> /\ Opened
      /\ \/ ResolveFails(dep) \/ SkipInterpreter(dep) \/ SkipUnparseable(dep)
         \/ NewPayload(dep) \/ SeenPayload(dep)
  BY DEF Dequeue, Opened
<1>2. dep = Answer(Head(todo)) BY DEF Answer
<1> HIDE DEF dep
<1>3. UNCHANGED inputs BY InputsStay DEF Next
<1>4. ASSUME UNCHANGED manifest PROVE UNCHANGED Payloads
  BY <1>4, SameManifest, SamePayloads
<1>5. CASE ResolveFails(dep)
  <2>1. UNCHANGED <<manifest, todo, seenPayloads>> /\ phase' = "failed"
    BY <1>5 DEF ResolveFails
  <2> QED BY <1>3, <1>4, <2>1, KeepsClosure DEF Opened
<1>6. CASE SkipInterpreter(dep)
  <2>1. /\ UNCHANGED <<manifest, phase, seenPayloads>> /\ todo' = Tail(todo)
        /\ Settled(dep)
    BY <1>6 DEF SkipInterpreter, Settled
  <2>2. \A p \in seenPayloads' : p \in Payloads \/ ~Parses(p)
    BY <2>1 DEF ClosureInv
  <2> QED BY <1>1, <1>2, <1>3, <1>4, <2>1, <2>2, DropsSettled
<1>7. CASE SkipUnparseable(dep)
  <2>1. /\ UNCHANGED <<manifest, phase>> /\ todo' = Tail(todo)
        /\ ~Parses(dep.canonical) /\ Settled(dep)
        /\ seenPayloads' = seenPayloads \cup {dep.canonical}
    BY <1>7 DEF SkipUnparseable, RegisterPayload, Settled
  <2>2. \A p \in seenPayloads' : p \in Payloads \/ ~Parses(p)
    BY <2>1 DEF ClosureInv
  <2> QED BY <1>1, <1>2, <1>3, <1>4, <2>1, <2>2, DropsSettled
<1>8. CASE NewPayload(dep) BY <1>1, <1>2, <1>3, <1>8, NewPayloadClosure
<1>9. CASE SeenPayload(dep)
  <2>1. /\ UNCHANGED manifest /\ phase' = "aliases" /\ todo' = Tail(todo)
        /\ dep # NoResolution /\ dep.canonical \in seenPayloads
        /\ seenPayloads' = seenPayloads \cup {dep.canonical}
    BY <1>9 DEF SeenPayload, RegisterPayload, PlanAliasesOf
  <2>2. \A p \in seenPayloads' : p \in Payloads \/ ~Parses(p)
    BY <2>1 DEF ClosureInv
  <2>3. Settled(dep) BY <2>1 DEF ClosureInv, Settled
  <2> QED BY <1>1, <1>2, <1>3, <1>4, <2>1, <2>2, <2>3, DropsSettled
<1> QED BY <1>1, <1>5, <1>6, <1>7, <1>8, <1>9

(* The other steps plan no library.                                        *)
LEMMA OtherSteps ==
  ASSUME TypeOK, [Next]_vars, ~Open, ~Dequeue
  PROVE  UNCHANGED <<inputs, Payloads, todo, seenPayloads>>
<1>1. UNCHANGED inputs BY InputsStay
<1>2. UNCHANGED <<todo, seenPayloads>>
  BY DEF Next, OpenFails, RegisterAlias, AliasesRegistered, PlanTarget,
         TargetsPlanned, Finish, vars, walkVars
<1>3. CASE PlanTarget
  <2> DEFINE e == AliasEntry(Head(pending), PlannedLinkTarget(Head(pending).target))
  <2>1. manifest' = Append(manifest, e) /\ e.kind # "SharedObject"
    BY <1>3 DEF PlanTarget, AliasEntry
  <2> HIDE DEF e
  <2> QED BY <1>1, <1>2, <2>1, AppendedKind, SamePayloads
<1>4. CASE Finish
  <2> DEFINE e == MakeEntry("Interpreter", InterpreterPath, InterpreterPath.name,
                    BundlePathFor(policy, "Interpreter", InterpreterPath, NoDir))
  <2>1. UNCHANGED manifest \/ manifest' = Append(manifest, e)
    BY <1>4 DEF Finish
  <2>2. e.kind # "SharedObject" BY DEF MakeEntry
  <2> HIDE DEF e
  <2> QED BY <1>1, <1>2, <2>1, <2>2, AppendedKind, SameManifest, SamePayloads
<1>5. CASE UNCHANGED manifest
  BY <1>1, <1>2, <1>5, SameManifest, SamePayloads
<1> QED BY <1>3, <1>4, <1>5 DEF Next, OpenFails, RegisterAlias,
           AliasesRegistered, TargetsPlanned, vars, walkVars

LEMMA ClosureInvStep ==
  ASSUME TypeOK, ClosureInv, [Next]_vars PROVE ClosureInv'
<1>1. CASE Open BY <1>1, OpenClosure
<1>2. CASE Dequeue BY <1>2, DequeueClosure
<1>3. CASE UNCHANGED vars
  <2>1. UNCHANGED <<inputs, manifest, todo, seenPayloads, phase>>
    BY <1>3 DEF vars, walkVars
  <2>2. UNCHANGED Payloads BY <2>1, SameManifest, SamePayloads
  <2>3. CASE phase = "open" BY <2>1, <2>2, <2>3 DEF ClosureInv, Opened, ToSet
  <2>4. CASE phase # "open" BY <2>1, <2>2, <2>4, KeepsClosure DEF Opened
  <2> QED BY <2>3, <2>4
<1>4. CASE ~Open /\ ~Dequeue /\ Next
  <2>1. UNCHANGED <<inputs, Payloads, todo, seenPayloads>> BY <1>4, OtherSteps
  <2>2. phase' # "open" /\ (Opened' => Opened)
    BY <1>4 DEF Next, OpenFails, RegisterAlias, AliasesRegistered, PlanTarget,
                TargetsPlanned, Finish, Opened
  <2> QED BY <2>1, <2>2, KeepsClosure
<1> QED BY <1>1, <1>2, <1>3, <1>4

-----------------------------------------------------------------------------
(* The refinement.                                                         *)

Outcome == IF phase \in {"planned", "failed"} THEN phase ELSE "planning"

LEMMA AnswersNeeded == Closure!Answers = {Answer(w) : w \in Needed}
<1>1. \A o : Closure!Needs(o) = ToSet(ImportedLibraries(o))
  BY SameAnswers DEF Closure!Needs, Closure!ToSet, ToSet
<1>2. Closure!Owners = Payloads \cup {exe} BY DEF Closure!Owners, Payloads
<1>3. \A o : ToSet(Imports(o)) =
               {[name |-> n, owner |-> o] : n \in ToSet(ImportedLibraries(o))}
  BY DEF ToSet, Imports
<1>4. Closure!Answers =
        UNION {{Dependency(o, n) : n \in ToSet(ImportedLibraries(o))} :
                 o \in Payloads \cup {exe}}
  BY <1>1, <1>2, SameAnswers DEF Closure!Answers
<1>5. ASSUME NEW w \in Needed PROVE Answer(w) \in Closure!Answers
  <2>1. PICK o \in Payloads \cup {exe} : w \in ToSet(Imports(o))
    BY DEF Needed
  <2>2. PICK n \in ToSet(ImportedLibraries(o)) : w = [name |-> n, owner |-> o]
    BY <1>3, <2>1
  <2>3. Answer(w) = Dependency(o, n) BY <2>2 DEF Answer
  <2> QED BY <1>4, <2>3
<1>6. ASSUME NEW a \in Closure!Answers PROVE \E w \in Needed : a = Answer(w)
  <2>1. PICK o \in Payloads \cup {exe} :
          a \in {Dependency(o, n) : n \in ToSet(ImportedLibraries(o))}
    BY <1>4
  <2>2. PICK n \in ToSet(ImportedLibraries(o)) : a = Dependency(o, n) BY <2>1
  <2> DEFINE w == [name |-> n, owner |-> o]
  <2>3. w \in ToSet(Imports(o)) BY <1>3
  <2>4. w \in Needed BY <2>3 DEF Needed
  <2>5. a = Answer(w) BY <2>2 DEF Answer
  <2> QED BY <2>4, <2>5
<1> QED BY <1>5, <1>6

LEMMA SettledIsCovered ==
  \A dep : /\ Settled(dep) <=> Closure!Covered(dep)
           /\ Closure!NoPayload(dep) <=>
                dep.canonical \in InterpreterFile \/ ~Parses(dep.canonical)
BY SameHost, SameAnswers DEF Settled, Closure!Covered, Closure!NoPayload, Payloads

LEMMA ClosureStep ==
  ASSUME TypeOK, ClosureInv, [Next]_vars
  PROVE  [Closure!ClosureNext]_(Closure!closureVars)
<1>1. UNCHANGED <<host, cached, exe, includeInterpreter>> BY InputsStay DEF inputs
<1>2. ASSUME UNCHANGED <<Payloads, Outcome>>
      PROVE  UNCHANGED Closure!closureVars
  BY <1>1, <1>2 DEF Closure!closureVars, Payloads, Outcome
<1>3. CASE Open
  <2>1. UNCHANGED Outcome BY <1>3 DEF Open, Outcome
  <2> QED BY <1>2, <1>3, <2>1, OpenClosure
<1>4. CASE OpenFails
  <2>1. /\ ~Closure!Parses(exe) /\ Outcome = "planning" /\ Outcome' = "failed"
    BY <1>4, SameHost DEF OpenFails, Outcome
  <2>2. UNCHANGED Payloads BY <1>4, SameManifest, SamePayloads DEF OpenFails
  <2> QED BY <1>1, <2>1, <2>2
          DEF Closure!ClosureNext, Closure!GiveUp, Outcome, Payloads
<1>5. CASE Dequeue
  <2> DEFINE dep == Dependency(Head(todo).owner, Head(todo).name)
  <2>1. /\ phase = "dequeue" /\ todo # <<>>
        /\ \/ ResolveFails(dep) \/ SkipInterpreter(dep) \/ SkipUnparseable(dep)
           \/ NewPayload(dep) \/ SeenPayload(dep)
    BY <1>5 DEF Dequeue
  <2>2. dep \in Closure!Answers
    <3>1. Head(todo) \in Needed
      BY <2>1, Popped DEF TypeOK, ClosureInv
    <3> QED BY <3>1, AnswersNeeded DEF Answer
  <2>3. dep = Answer(Head(todo)) BY DEF Answer
  <2> HIDE DEF dep
  <2>4. CASE ResolveFails(dep)
    <3>1. /\ dep = NoResolution /\ Outcome = "planning" /\ Outcome' = "failed"
          /\ UNCHANGED manifest
      BY <2>1, <2>4 DEF ResolveFails, Outcome
    <3>2. UNCHANGED Payloads BY <3>1, SameManifest, SamePayloads
    <3> QED BY <1>1, <2>2, <3>1, <3>2
            DEF Closure!ClosureNext, Closure!GiveUp, Outcome, Payloads
  <2>5. CASE NewPayload(dep)
    <3>1. /\ dep # NoResolution /\ ~Closure!NoPayload(dep)
          /\ Outcome = "planning" /\ Outcome' = "planning"
      BY <2>1, <2>5, SettledIsCovered
         DEF NewPayload, RegisterPayload, PlanAliasesOf, Outcome
    <3>2. Payloads' = Payloads \cup {dep.canonical}
      BY <1>1, <2>1, <2>3, <2>5, NewPayloadClosure DEF inputs
    <3> QED BY <1>1, <2>2, <3>1, <3>2
            DEF Closure!ClosureNext, Closure!AddLibrary, Outcome, Payloads
  <2>6. CASE SkipInterpreter(dep) \/ SkipUnparseable(dep) \/ SeenPayload(dep)
    <3>1. UNCHANGED manifest /\ UNCHANGED Outcome
      BY <2>1, <2>6 DEF SkipInterpreter, SkipUnparseable, SeenPayload,
                        PlanAliasesOf, Outcome
    <3>2. UNCHANGED Payloads BY <3>1, SameManifest, SamePayloads
    <3> QED BY <1>2, <3>1, <3>2
  <2> QED BY <2>1, <2>4, <2>5, <2>6
<1>6. CASE Finish
  <2>1. /\ Outcome = "planning" /\ Outcome' = "planned"
        /\ todo = <<>> /\ Opened
    BY <1>6 DEF Finish, Outcome, Opened
  <2>2. ToSet(todo) = {} BY <2>1 DEF ToSet
  <2>3. Closure!Parses(exe) BY <2>1, SameHost DEF ClosureInv
  <2>4. \A dep \in Closure!Answers : Closure!Covered(dep)
    BY <2>1, <2>2, AnswersNeeded, SettledIsCovered DEF ClosureInv
  <2>5. UNCHANGED Payloads
    <3>1. ~Open /\ ~Dequeue BY <1>6, <2>1 DEF Finish, Open, Dequeue
    <3> QED BY <3>1, OtherSteps
  <2> QED BY <1>1, <2>1, <2>3, <2>4, <2>5
          DEF Closure!ClosureNext, Closure!Complete, Outcome, Payloads
<1>7. CASE RegisterAlias \/ AliasesRegistered \/ PlanTarget \/ TargetsPlanned
  <2>1. ~Open /\ ~Dequeue /\ UNCHANGED Outcome
    BY <1>7 DEF RegisterAlias, AliasesRegistered, PlanTarget, TargetsPlanned,
                Open, Dequeue, Outcome
  <2> QED BY <1>2, <2>1, OtherSteps
<1>8. CASE UNCHANGED vars
  <2>1. UNCHANGED <<manifest, phase>> BY <1>8 DEF vars, walkVars
  <2> QED BY <1>2, <2>1, SameManifest, SamePayloads DEF Outcome
<1> QED BY <1>3, <1>4, <1>5, <1>6, <1>7, <1>8 DEF Next

(* The walk implements the closure: it plans a library only when something *)
(* planned needs it, ends only when nothing needed is left out, and gives  *)
(* up only for an unresolvable need or a target that is no ELF binary.     *)
THEOREM WalkImplementsClosure == Spec => ImplementsClosure
<1>1. Init => Closure!ClosureInit
  BY DEF Init, Closure!ClosureInit, OfKind
<1>2. ClosureInv /\ TypeOK /\ [Next]_vars => [Closure!ClosureNext]_(Closure!closureVars)
  BY ClosureStep
<1> QED BY TypeCorrect, ClosureInvInit, ClosureInvStep, <1>1, <1>2, PTL
        DEF Spec, ImplementsClosure, Closure!ClosureSpec

-----------------------------------------------------------------------------
(* What the walk learns from an answer.                                    *)

ScanKept == cached = Scanned(SystemRoots)

LEMMA AnswerIsResolved ==
  ASSUME HostType, ScanKept, NEW p \in Path, NEW n \in Name,
         Dependency(p, n) # NoResolution
  PROVE  \E roots : RootList(roots) /\ Dependency(p, n) \in ResolveIn(n, roots)
<1> DEFINE own == LoaderSearchRoots(p)
<1>1. RootList(own) BY SearchRootsType
<1>2. RootList(SystemRoots) BY ResolverAssumption DEF RootList
<1>3. cached[n] = ResolveIn(n, SystemRoots) BY DEF ScanKept, Scanned
<1>4. Dependency(p, n) =
        The(OrElse(ResolveIn(n, own), OrElse(ResolveIn(n, SystemRoots), {NoResolution})))
  BY <1>3 DEF Dependency, Resolve
<1> HIDE DEF own
<1>5. ASSUME NEW s, NEW t, NEW x, The(OrElse(s, OrElse(t, {x}))) # x
      PROVE  The(OrElse(s, OrElse(t, {x}))) \in s \cup t
  BY <1>5 DEF The, OrElse
<1>6. Dependency(p, n) \in ResolveIn(n, own) \cup ResolveIn(n, SystemRoots)
  BY <1>4, <1>5
<1> QED BY <1>1, <1>2, <1>6

LEMMA AnswerLinks ==
  ASSUME HostType, ScanKept, NEW p \in Path, NEW n \in Name,
         NEW dep, dep = Dependency(p, n), dep # NoResolution
  PROVE  /\ Final(dep.canonical)
         /\ \A l \in dep.links :
              /\ l.link \in Path /\ IsLink(l.link)
              /\ l.target = LinkTarget(l.link)
              /\ Canonicalize(l.target) = dep.canonical
BY AnswerIsResolved, ResolvedLinks

(* Library and alias paths are planned by one rule.                        *)
LEMMA OneLibraryRule == \A p : AliasPath(p) = LibraryPath(p)
BY DEF AliasPath, LibraryPath, BundlePathFor, FlatBundlePath, FallbackPath

LEMMA PathsStay ==
  ASSUME UNCHANGED <<policy, fallback>>
  PROVE  \A p : LibraryPath(p)' = LibraryPath(p) /\ AliasPath(p)' = AliasPath(p)
BY DEF AliasPath, LibraryPath

-----------------------------------------------------------------------------
(* The inductive invariant.                                                *)

(* A symlink the plan knows: the file its text leads to is registered.     *)
KnownLink(link, target) ==
  /\ IsLink(link) /\ target = LinkTarget(link)
  /\ Canonicalize(target) \in seenPayloads

(* What gave a source path its planned bundle path.                        *)
Registered(p) ==
  \/ p \in seenPayloads
  \/ \E k \in DOMAIN pending : pending[k].link = p
  \/ \E i \in OfKind("SymlinkAlias") : manifest[i].source = p

LinksInv ==
  /\ \A l \in links : KnownLink(l.link, l.target)
  /\ \A k \in DOMAIN pending :
       /\ KnownLink(pending[k].link, pending[k].target)
       /\ pending[k].bundled = AliasPath(pending[k].link)

MapsInv ==
  /\ \A p \in seenPayloads : Final(p) /\ p \in DOMAIN byCanonical
  /\ \A p \in DOMAIN byCanonical : byCanonical[p] = LibraryPath(p)
  /\ \A p \in DOMAIN bySource : bySource[p] = AliasPath(p) /\ Registered(p)

(* The target planned for a symlink: the bundle path of the next link of   *)
(* its chain, or that of the file at the end.                              *)
PlannedFor(e, target) ==
  \/ target \in DOMAIN bySource /\ e.target = AliasPath(target)
  \/ e.target = LibraryPath(Canonicalize(target))

AliasEntryInv(e) ==
  /\ KnownLink(e.source, LinkTarget(e.source))
  /\ e.bundled = AliasPath(e.source)
  /\ PlannedFor(e, LinkTarget(e.source))

EntriesInv ==
  /\ \A i \in OfKind("SymlinkAlias") : AliasEntryInv(manifest[i])
  /\ \A i \in OfKind("SharedObject") :
       /\ manifest[i].source \in seenPayloads
       /\ manifest[i].bundled = LibraryPath(manifest[i].source)

PhaseInv ==
  /\ links # {} => phase = "aliases"
  /\ pending # <<>> => phase \in {"aliases", "targets"}
  /\ phase = "open" => /\ bySource = NoEntries /\ byCanonical = NoEntries
                       /\ seenPayloads = {} /\ seenAliases = {}
                       /\ manifest = <<>>

PlanInv ==
  ScanKept /\ PhaseInv /\ LinksInv /\ MapsInv /\ EntriesInv /\ PayloadPrecedesAlias

LEMMA PlanInit == Init => PlanInv
BY DEF Init, PlanInv, ScanKept, PhaseInv, LinksInv, MapsInv, EntriesInv,
       PayloadPrecedesAlias, NoEntries, OfKind

-----------------------------------------------------------------------------
(* What a step preserves that only adds to the plan.                       *)

LEMMA KnownStays ==
  ASSUME UNCHANGED host, seenPayloads \subseteq seenPayloads'
  PROVE  \A l, t : KnownLink(l, t) => KnownLink(l, t)'
BY FixedHost, FixedPlaces DEF KnownLink

LEMMA EntryStays ==
  ASSUME UNCHANGED <<host, policy, fallback>>, seenPayloads \subseteq seenPayloads',
         DOMAIN bySource \subseteq DOMAIN bySource'
  PROVE  \A e : AliasEntryInv(e) => AliasEntryInv(e)'
<1>1. \A p : Canonicalize(p)' = Canonicalize(p) /\ LinkTarget(p)' = LinkTarget(p)
  BY FixedHost
<1> QED BY <1>1, KnownStays, PathsStay DEF AliasEntryInv, PlannedFor

LEMMA ScanStays ==
  ASSUME ScanKept, UNCHANGED inputs PROVE ScanKept'
BY FixedResolver DEF ScanKept, Scanned, inputs

(* Entries that are no alias do not disturb the order of the others.       *)
LEMMA OrderStays ==
  ASSUME PayloadPrecedesAlias, UNCHANGED host,
         OfKind("SymlinkAlias")' = OfKind("SymlinkAlias"),
         OfKind("SharedObject") \subseteq OfKind("SharedObject")',
         \A i \in DOMAIN manifest : manifest'[i] = manifest[i]
  PROVE  PayloadPrecedesAlias'
<1>1. \A e : AliasedFile(e)' = AliasedFile(e) BY FixedHost DEF AliasedFile
<1>2. \A i \in OfKind("SymlinkAlias") : manifest'[i] = manifest[i] BY DEF OfKind
<1>3. \A i \in OfKind("SharedObject") : manifest'[i] = manifest[i] BY DEF OfKind
<1> QED BY <1>1, <1>2, <1>3, FixedHost DEF PayloadPrecedesAlias

-----------------------------------------------------------------------------
(* One lemma per action that changes what the invariant speaks of.         *)

LEMMA OpenPlan ==
  ASSUME TypeOK, ClosureInv, PlanInv, Open PROVE PlanInv'
<1>1. /\ links = {} /\ pending = <<>> /\ bySource = NoEntries
      /\ byCanonical = NoEntries /\ seenPayloads = {} /\ manifest = <<>>
  BY DEF Open, PlanInv, PhaseInv
<1>2. /\ UNCHANGED <<inputs, links, pending, bySource, byCanonical, seenPayloads>>
      /\ phase' = "dequeue"
  BY DEF Open
<1>3. OfKind("SymlinkAlias")' = {} /\ OfKind("SharedObject")' = {}
  BY DEF Open, OfKind, MakeEntry
<1>4. ScanKept' BY <1>2, ScanStays DEF PlanInv
<1> QED BY <1>1, <1>2, <1>3, <1>4
        DEF PlanInv, PhaseInv, LinksInv, MapsInv, EntriesInv,
            PayloadPrecedesAlias, NoEntries

(* A step that leaves the plan alone.                                      *)
LEMMA KeepsPlan ==
  ASSUME PlanInv, PhaseInv',
         UNCHANGED <<inputs, policy, fallback, links, pending, bySource,
                     byCanonical, seenPayloads, manifest>>
  PROVE  PlanInv'
<1>1. /\ \A kind : OfKind(kind)' = OfKind(kind)
      /\ \A i : manifest'[i] = manifest[i]
  BY SameManifest
<1>2. ScanKept' BY ScanStays DEF PlanInv
<1>3. LinksInv' BY KnownStays, PathsStay DEF PlanInv, LinksInv, inputs
<1>4. MapsInv'
  <2>1. \A p : Registered(p)' = Registered(p) BY <1>1 DEF Registered
  <2> QED BY <2>1, FixedPlaces, PathsStay DEF PlanInv, MapsInv, inputs
<1>5. EntriesInv'
  BY <1>1, EntryStays, PathsStay DEF PlanInv, EntriesInv, inputs
<1>6. PayloadPrecedesAlias' BY <1>1, OrderStays DEF PlanInv, inputs
<1> QED BY <1>2, <1>3, <1>4, <1>5, <1>6 DEF PlanInv

(* Registering a payload, with or without an entry for it.                 *)
LEMMA RegisterPayloadPlan ==
  ASSUME TypeOK, PlanInv, NEW p \in Path, NEW n \in Name,
         NEW dep, dep = Dependency(p, n), RegisterPayload(dep),
         UNCHANGED <<inputs, policy, fallback, pending>>,
         links' = links \/ links' = dep.links,
         OfKind("SymlinkAlias")' = OfKind("SymlinkAlias"),
         \A i \in OfKind("SymlinkAlias") : manifest'[i] = manifest[i]
  PROVE  /\ ScanKept' /\ LinksInv' /\ MapsInv'
         /\ \A i \in OfKind("SymlinkAlias")' : AliasEntryInv(manifest[i])'
<1> DEFINE c == dep.canonical
<1>1. /\ dep # NoResolution
      /\ bySource' = Put(bySource, c, LibraryPath(c))
      /\ byCanonical' = Put(byCanonical, Canonicalize(c), LibraryPath(c))
      /\ seenPayloads' = seenPayloads \cup {c}
  BY DEF RegisterPayload
<1>2. /\ Final(c)
      /\ \A l \in dep.links : /\ l.link \in Path /\ IsLink(l.link)
                             /\ l.target = LinkTarget(l.link)
                             /\ Canonicalize(l.target) = c
  BY <1>1, AnswerLinks DEF TypeOK, PlanInv
<1>3. Canonicalize(c) = c BY <1>2, FinalOpens
<1> HIDE DEF c
<1>4. /\ DOMAIN bySource' = DOMAIN bySource \cup {c}
      /\ DOMAIN byCanonical' = DOMAIN byCanonical \cup {c}
      /\ \A k \in DOMAIN bySource' :
           bySource'[k] = IF k = c THEN LibraryPath(c) ELSE bySource[k]
      /\ \A k \in DOMAIN byCanonical' :
           byCanonical'[k] = IF k = c THEN LibraryPath(c) ELSE byCanonical[k]
  BY <1>1, <1>3 DEF Put
<1>5. ScanKept' BY ScanStays DEF PlanInv
<1>6. \A l, t : KnownLink(l, t) => KnownLink(l, t)'
  BY <1>1, KnownStays DEF inputs
<1>7. \A l \in dep.links : KnownLink(l.link, l.target)'
  BY <1>1, <1>2, FixedHost, FixedPlaces DEF KnownLink, inputs
<1>8. LinksInv'
  BY <1>6, <1>7, PathsStay DEF PlanInv, LinksInv
<1>9. MapsInv'
  <2>1. \A q : Registered(q) => Registered(q)'
    BY <1>1 DEF Registered
  <2>2. Registered(c)' BY <1>1 DEF Registered
  <2>3. \A q \in seenPayloads' : Final(q)' /\ q \in DOMAIN byCanonical'
    BY <1>1, <1>2, <1>4, FixedPlaces DEF PlanInv, MapsInv, inputs
  <2>4. \A q \in DOMAIN byCanonical' : byCanonical'[q] = LibraryPath(q)'
    BY <1>4, PathsStay DEF PlanInv, MapsInv
  <2>5. \A q \in DOMAIN bySource' : bySource'[q] = AliasPath(q)' /\ Registered(q)'
    BY <1>4, <2>1, <2>2, PathsStay, OneLibraryRule DEF PlanInv, MapsInv
  <2> QED BY <2>3, <2>4, <2>5 DEF MapsInv
<1>10. \A i \in OfKind("SymlinkAlias")' : AliasEntryInv(manifest[i])'
  <2>1. DOMAIN bySource \subseteq DOMAIN bySource' BY <1>4
  <2>2. \A e : AliasEntryInv(e) => AliasEntryInv(e)'
    BY <1>1, <2>1, EntryStays DEF inputs
  <2>3. \A i \in OfKind("SymlinkAlias") : AliasEntryInv(manifest[i])
    BY DEF PlanInv, EntriesInv
  <2>4. ASSUME NEW i \in OfKind("SymlinkAlias") PROVE AliasEntryInv(manifest[i])'
    <3>1. AliasEntryInv(manifest[i]) BY <2>3
    <3>2. manifest'[i] = manifest[i] OBVIOUS
    <3> QED BY <2>2, <3>1, <3>2 DEF AliasEntryInv, KnownLink, PlannedFor
  <2> QED BY <2>4
<1> QED BY <1>5, <1>8, <1>9, <1>10

LEMMA DequeuePlan ==
  ASSUME TypeOK, PlanInv, Dequeue PROVE PlanInv'
<1> DEFINE head == Head(todo)
           dep == Dependency(head.owner, head.name)
<1>1. /\ phase = "dequeue" /\ todo # <<>>
      /\ \/ ResolveFails(dep) \/ SkipInterpreter(dep) \/ SkipUnparseable(dep)
         \/ NewPayload(dep) \/ SeenPayload(dep)
  BY DEF Dequeue
<1>2. head.owner \in Path /\ head.name \in Name
  <2>1. todo \in Seq(Import) BY DEF TypeOK
  <2>2. head \in Import BY <1>1, <2>1, HeadTailProperties
  <2> QED BY <2>2 DEF Import
<1>3. dep = Dependency(head.owner, head.name) OBVIOUS
<1>4. UNCHANGED inputs BY InputsStay DEF Next
<1>5. links = {} /\ pending = <<>> BY <1>1 DEF PlanInv, PhaseInv
<1> HIDE DEF dep, head
<1>6. CASE ResolveFails(dep) \/ SkipInterpreter(dep)
  <2>1. /\ UNCHANGED <<policy, fallback, links, pending, bySource, byCanonical,
                       seenPayloads, manifest>>
        /\ phase' # "open"
    BY <1>1, <1>6 DEF ResolveFails, SkipInterpreter
  <2>2. PhaseInv' BY <1>5, <2>1 DEF PhaseInv
  <2> QED BY <1>4, <2>1, <2>2, KeepsPlan
<1>7. CASE SkipUnparseable(dep)
  <2>1. /\ RegisterPayload(dep)
        /\ UNCHANGED <<policy, fallback, phase, links, pending, manifest>>
    BY <1>7 DEF SkipUnparseable
  <2>2. /\ \A kind : OfKind(kind)' = OfKind(kind)
        /\ \A i : manifest'[i] = manifest[i]
    BY <2>1, SameManifest
  <2>3. /\ ScanKept' /\ LinksInv' /\ MapsInv'
        /\ \A i \in OfKind("SymlinkAlias")' : AliasEntryInv(manifest[i])'
    BY <1>2, <1>3, <1>4, <2>1, <2>2, RegisterPayloadPlan
  <2>4. PhaseInv' BY <1>1, <1>5, <2>1 DEF PhaseInv
  <2>5. PayloadPrecedesAlias' BY <1>4, <2>2, OrderStays DEF PlanInv, inputs
  <2>6. seenPayloads \subseteq seenPayloads' BY <2>1 DEF RegisterPayload
  <2>7. EntriesInv'
    BY <2>1, <2>2, <2>3, <2>6, PathsStay DEF PlanInv, EntriesInv
  <2> QED BY <2>3, <2>4, <2>5, <2>7 DEF PlanInv
<1>8. CASE SeenPayload(dep)
  <2>1. /\ RegisterPayload(dep) /\ links' = dep.links /\ phase' = "aliases"
        /\ UNCHANGED <<policy, fallback, pending, manifest>>
    BY <1>8 DEF SeenPayload, PlanAliasesOf
  <2>2. /\ \A kind : OfKind(kind)' = OfKind(kind)
        /\ \A i : manifest'[i] = manifest[i]
    BY <2>1, SameManifest
  <2>3. /\ ScanKept' /\ LinksInv' /\ MapsInv'
        /\ \A i \in OfKind("SymlinkAlias")' : AliasEntryInv(manifest[i])'
    BY <1>2, <1>3, <1>4, <2>1, <2>2, RegisterPayloadPlan
  <2>4. PhaseInv' BY <2>1 DEF PhaseInv
  <2>5. PayloadPrecedesAlias' BY <1>4, <2>2, OrderStays DEF PlanInv, inputs
  <2>6. seenPayloads \subseteq seenPayloads' BY <2>1 DEF RegisterPayload
  <2>7. EntriesInv'
    BY <2>1, <2>2, <2>3, <2>6, PathsStay DEF PlanInv, EntriesInv
  <2> QED BY <2>3, <2>4, <2>5, <2>7 DEF PlanInv
<1>9. CASE NewPayload(dep)
  <2> DEFINE e == MakeEntry("SharedObject", dep.canonical, dep.name,
                            LibraryPath(dep.canonical))
             n == Len(manifest) + 1
  <2>1. /\ RegisterPayload(dep) /\ links' = dep.links /\ phase' = "aliases"
        /\ manifest' = Append(manifest, e)
        /\ UNCHANGED <<policy, fallback, pending>>
    BY <1>9 DEF NewPayload, PlanAliasesOf
  <2>2. /\ e.kind = "SharedObject" /\ e.source = dep.canonical
        /\ e.bundled = LibraryPath(dep.canonical)
    BY DEF MakeEntry
  <2> HIDE DEF e
  <2>3. /\ OfKind("SymlinkAlias")' = OfKind("SymlinkAlias")
        /\ OfKind("SharedObject")' = OfKind("SharedObject") \cup {n}
        /\ \A i \in DOMAIN manifest : manifest'[i] = manifest[i]
        /\ manifest'[n] = e
    BY <2>1, <2>2, AppendedKind, AppendedEntry DEF TypeOK
  <2> HIDE DEF n
  <2>4. /\ \A i \in OfKind("SymlinkAlias") : manifest'[i] = manifest[i]
        /\ \A i \in OfKind("SharedObject") : manifest'[i] = manifest[i]
    BY <2>3 DEF OfKind
  <2>5. /\ ScanKept' /\ LinksInv' /\ MapsInv'
        /\ \A i \in OfKind("SymlinkAlias")' : AliasEntryInv(manifest[i])'
    BY <1>2, <1>3, <1>4, <2>1, <2>3, <2>4, RegisterPayloadPlan
  <2>6. PhaseInv' BY <2>1 DEF PhaseInv
  <2>7. PayloadPrecedesAlias' BY <1>4, <2>3, OrderStays DEF PlanInv, inputs
  <2>8. EntriesInv'
    <3>1. seenPayloads' = seenPayloads \cup {dep.canonical}
      BY <2>1 DEF RegisterPayload
    <3>2. \A p : LibraryPath(p)' = LibraryPath(p) BY <2>1, PathsStay
    <3>3. \A i \in OfKind("SharedObject")' :
            /\ manifest'[i].source \in seenPayloads'
            /\ manifest'[i].bundled = LibraryPath(manifest'[i].source)
      BY <2>2, <2>3, <2>4, <3>1 DEF PlanInv, EntriesInv
    <3> QED BY <2>5, <3>2, <3>3 DEF EntriesInv, LibraryPath
  <2> QED BY <2>5, <2>6, <2>7, <2>8 DEF PlanInv
<1> QED BY <1>1, <1>6, <1>7, <1>8, <1>9

LEMMA RegisterAliasPlan ==
  ASSUME TypeOK, PlanInv, RegisterAlias PROVE PlanInv'
<1>1. PICK a \in links :
        /\ phase = "aliases" /\ links' = links \ {a}
        /\ IF AliasPath(a.link) \in seenAliases
           THEN UNCHANGED <<seenAliases, bySource, pending>>
           ELSE /\ seenAliases' = seenAliases \cup {AliasPath(a.link)}
                /\ bySource' = Put(bySource, a.link, AliasPath(a.link))
                /\ pending' = Append(pending,
                     [link |-> a.link, target |-> a.target,
                      bundled |-> AliasPath(a.link)])
        /\ UNCHANGED <<inputs, policy, fallback, phase, byCanonical,
                       seenPayloads, manifest>>
  BY DEF RegisterAlias
<1>2. KnownLink(a.link, a.target) BY DEF PlanInv, LinksInv
<1>3. PhaseInv' BY <1>1 DEF PlanInv, PhaseInv
<1>4. ScanKept' BY <1>1, ScanStays DEF PlanInv
<1>5. \A l, t : KnownLink(l, t) => KnownLink(l, t)' BY <1>1, KnownStays DEF inputs
<1>6. /\ \A kind : OfKind(kind)' = OfKind(kind)
      /\ \A i : manifest'[i] = manifest[i]
  BY <1>1, SameManifest
<1>7. PayloadPrecedesAlias' BY <1>1, <1>6, OrderStays DEF PlanInv, inputs
<1>8. \A p : LibraryPath(p)' = LibraryPath(p) /\ AliasPath(p)' = AliasPath(p)
  BY <1>1, PathsStay
<1>9. CASE UNCHANGED <<bySource, pending>>
  <2>1. \A p : Registered(p)' = Registered(p) BY <1>1, <1>6, <1>9 DEF Registered
  <2>2. LinksInv' BY <1>1, <1>5, <1>8, <1>9 DEF PlanInv, LinksInv
  <2>3. MapsInv'
    BY <1>1, <1>8, <1>9, <2>1, FixedPlaces DEF PlanInv, MapsInv, inputs
  <2>4. EntriesInv'
    BY <1>1, <1>6, <1>8, <1>9, EntryStays DEF PlanInv, EntriesInv, inputs
  <2> QED BY <1>3, <1>4, <1>7, <2>2, <2>3, <2>4 DEF PlanInv
<1>10. CASE ~UNCHANGED <<bySource, pending>>
  <2> DEFINE new == [link |-> a.link, target |-> a.target,
                     bundled |-> AliasPath(a.link)]
             n == Len(pending) + 1
  <2>1. /\ bySource' = Put(bySource, a.link, AliasPath(a.link))
        /\ pending' = Append(pending, new)
    BY <1>1, <1>10
  <2>2. new.link = a.link /\ new.target = a.target /\ new.bundled = AliasPath(a.link)
    OBVIOUS
  <2> HIDE DEF new
  <2>3. /\ DOMAIN pending' = DOMAIN pending \cup {n}
        /\ \A k \in DOMAIN pending : pending'[k] = pending[k]
        /\ pending'[n] = new
    BY <2>1 DEF TypeOK
  <2> HIDE DEF n
  <2>4. /\ DOMAIN bySource' = DOMAIN bySource \cup {a.link}
        /\ \A k \in DOMAIN bySource' :
             bySource'[k] = IF k = a.link THEN AliasPath(a.link) ELSE bySource[k]
    BY <2>1 DEF Put
  <2>5. LinksInv'
    <3>1. \A l \in links' : KnownLink(l.link, l.target)'
      BY <1>1, <1>5 DEF PlanInv, LinksInv
    <3>2. ASSUME NEW k \in DOMAIN pending'
          PROVE  /\ KnownLink(pending[k].link, pending[k].target)'
                 /\ pending'[k].bundled = AliasPath(pending'[k].link)
      <4>1. CASE k = n
        BY <1>2, <1>5, <2>2, <2>3, <4>1 DEF KnownLink
      <4>2. CASE k # n
        <5>1. k \in DOMAIN pending /\ pending'[k] = pending[k] BY <2>3, <4>2
        <5>2. /\ KnownLink(pending[k].link, pending[k].target)
              /\ pending[k].bundled = AliasPath(pending[k].link)
          BY <5>1 DEF PlanInv, LinksInv
        <5> QED BY <1>5, <5>1, <5>2 DEF KnownLink
      <4> QED BY <4>1, <4>2
    <3> QED BY <1>8, <3>1, <3>2 DEF LinksInv
  <2>6. MapsInv'
    <3>1. \A p : Registered(p) => Registered(p)'
      BY <1>1, <1>6, <2>3 DEF Registered
    <3>2. Registered(a.link)' BY <2>2, <2>3 DEF Registered
    <3> QED BY <1>1, <1>8, <2>4, <3>1, <3>2, FixedPlaces
            DEF PlanInv, MapsInv, inputs
  <2>7. EntriesInv'
    <3>1. DOMAIN bySource \subseteq DOMAIN bySource' BY <2>4
    <3>2. \A e : AliasEntryInv(e) => AliasEntryInv(e)'
      BY <1>1, <3>1, EntryStays DEF inputs
    <3> QED BY <1>1, <1>6, <1>8, <3>2 DEF PlanInv, EntriesInv
  <2> QED BY <1>3, <1>4, <1>7, <2>5, <2>6, <2>7 DEF PlanInv
<1> QED BY <1>9, <1>10

LEMMA PlanTargetPlan ==
  ASSUME TypeOK, ClosureInv, PlanInv, PlanTarget PROVE PlanInv'
<1> DEFINE a == pending[1]
           e == AliasEntry(Head(pending), PlannedLinkTarget(Head(pending).target))
           n == Len(manifest) + 1
<1>1. /\ phase = "targets" /\ pending # <<>>
      /\ manifest' = Append(manifest, e) /\ pending' = Tail(pending)
      /\ UNCHANGED <<inputs, policy, fallback, phase, links, bySource, byCanonical,
                     seenPayloads, seenAliases>>
  BY DEF PlanTarget
<1>2. /\ e.kind = "SymlinkAlias" /\ e.source = a.link /\ e.bundled = a.bundled
      /\ e.target = PlannedLinkTarget(a.target)
  BY <1>1 DEF AliasEntry, TypeOK
<1>3. 1 \in DOMAIN pending BY <1>1 DEF TypeOK
<1>4. \A k \in DOMAIN pending' :
        /\ k \in Nat /\ k + 1 \in DOMAIN pending /\ pending'[k] = pending[k + 1]
  BY <1>1 DEF TypeOK
<1>5. \A k \in DOMAIN pending : k = 1 \/ \E l \in DOMAIN pending' : k = l + 1
  <2> SUFFICES ASSUME NEW k \in DOMAIN pending, k # 1
               PROVE  k - 1 \in DOMAIN pending' /\ k = (k - 1) + 1
    OBVIOUS
  <2> QED BY <1>1 DEF TypeOK
<1> HIDE DEF e
<1>6. /\ OfKind("SymlinkAlias")' = OfKind("SymlinkAlias") \cup {n}
      /\ OfKind("SharedObject")' = OfKind("SharedObject")
      /\ \A i \in DOMAIN manifest : manifest'[i] = manifest[i]
      /\ \A i \in DOMAIN manifest : i < n
      /\ manifest'[n] = e
  BY <1>1, <1>2, AppendedKind, AppendedEntry DEF TypeOK
<1>7. /\ \A i \in OfKind("SymlinkAlias") : manifest'[i] = manifest[i]
      /\ \A i \in OfKind("SharedObject") : manifest'[i] = manifest[i] /\ i < n
  BY <1>6 DEF OfKind
<1> HIDE DEF n, a
<1>8. /\ KnownLink(a.link, a.target) /\ a.bundled = AliasPath(a.link)
      /\ a.target = LinkTarget(a.link)
  BY <1>3 DEF PlanInv, LinksInv, KnownLink, a
<1>9. \A l, t : KnownLink(l, t)' = KnownLink(l, t)
  BY <1>1, FixedHost, FixedPlaces DEF KnownLink, inputs
<1>10. \A p : LibraryPath(p)' = LibraryPath(p) /\ AliasPath(p)' = AliasPath(p)
  BY <1>1, PathsStay
<1>11. AliasEntryInv(e)
  <2>1. CASE a.target \in DOMAIN bySource
    <3>1. e.target = AliasPath(a.target)
      BY <1>2, <2>1 DEF PlannedLinkTarget, PlanInv, MapsInv
    <3> QED BY <1>2, <1>8, <2>1, <3>1 DEF AliasEntryInv, PlannedFor
  <2>2. CASE a.target \notin DOMAIN bySource
    <3>1. Canonicalize(a.target) \in DOMAIN byCanonical
      BY <1>8 DEF KnownLink, PlanInv, MapsInv
    <3>2. e.target = byCanonical[Canonicalize(a.target)]
      BY <1>2, <2>2, <3>1 DEF PlannedLinkTarget
    <3>3. e.target = LibraryPath(Canonicalize(a.target))
      BY <3>1, <3>2 DEF PlanInv, MapsInv
    <3> QED BY <1>2, <1>8, <3>3 DEF AliasEntryInv, PlannedFor
  <2> QED BY <2>1, <2>2
<1>12. PhaseInv' BY <1>1 DEF PlanInv, PhaseInv
<1>13. ScanKept' BY <1>1, ScanStays DEF PlanInv
<1>14. LinksInv'
  BY <1>1, <1>4, <1>9, <1>10 DEF PlanInv, LinksInv
<1>15. MapsInv'
  <2>1. ASSUME NEW p, Registered(p) PROVE Registered(p)'
    <3>1. CASE p \in seenPayloads BY <1>1, <3>1 DEF Registered
    <3>2. CASE \E k \in DOMAIN pending : pending[k].link = p
      <4>1. PICK k \in DOMAIN pending : pending[k].link = p BY <3>2
      <4>2. CASE k = 1 BY <1>2, <1>6, <4>1, <4>2 DEF Registered, a
      <4>3. CASE k # 1
        <5>1. PICK l \in DOMAIN pending' : k = l + 1 BY <1>5, <4>3
        <5>2. pending'[l].link = p BY <1>4, <4>1, <5>1
        <5> QED BY <5>2 DEF Registered
      <4> QED BY <4>2, <4>3
    <3>3. CASE \E i \in OfKind("SymlinkAlias") : manifest[i].source = p
      BY <1>6, <1>7, <3>3 DEF Registered
    <3> QED BY <2>1, <3>1, <3>2, <3>3 DEF Registered
  <2> QED BY <1>1, <1>10, <2>1, FixedPlaces DEF PlanInv, MapsInv, inputs
<1>16. EntriesInv'
  <2>1. \A f : AliasEntryInv(f) => AliasEntryInv(f)' BY <1>1, EntryStays DEF inputs
  <2>2. ASSUME NEW m, m = n PROVE AliasEntryInv(manifest[m])'
    BY <1>6, <1>11, <2>1, <2>2 DEF AliasEntryInv, KnownLink, PlannedFor
  <2>3. \A i \in OfKind("SymlinkAlias") : AliasEntryInv(manifest[i])
    BY DEF PlanInv, EntriesInv
  <2>4. \A i \in OfKind("SymlinkAlias") : AliasEntryInv(manifest[i])'
    <3> SUFFICES ASSUME NEW i \in OfKind("SymlinkAlias")
                 PROVE  AliasEntryInv(manifest[i])'
      OBVIOUS
    <3>1. AliasEntryInv(manifest[i]) /\ manifest'[i] = manifest[i] BY <1>7, <2>3
    <3> QED BY <2>1, <3>1 DEF AliasEntryInv, KnownLink, PlannedFor
  <2> QED BY <1>1, <1>6, <1>7, <1>10, <2>2, <2>4 DEF PlanInv, EntriesInv
<1>17. PayloadPrecedesAlias'
  <2>1. \A f : AliasedFile(f)' = AliasedFile(f)
    BY <1>1, FixedHost DEF AliasedFile, inputs
  <2>2. \A p : Parses(p)' = Parses(p) BY <1>1, FixedHost DEF inputs
  <2>3. ASSUME Parses(AliasedFile(e))
        PROVE  \E j \in OfKind("SharedObject") : manifest[j].source = AliasedFile(e)
    <3>1. AliasedFile(e) \in seenPayloads
      BY <1>11 DEF AliasEntryInv, KnownLink, AliasedFile
    <3> QED BY <2>3, <3>1 DEF ClosureInv, Payloads
  <2> QED BY <1>6, <1>7, <2>1, <2>2, <2>3 DEF PlanInv, PayloadPrecedesAlias
<1> QED BY <1>12, <1>13, <1>14, <1>15, <1>16, <1>17 DEF PlanInv

LEMMA FinishPlan ==
  ASSUME TypeOK, PlanInv, Finish PROVE PlanInv'
<1> DEFINE e == MakeEntry("Interpreter", InterpreterPath, InterpreterPath.name,
                  BundlePathFor(policy, "Interpreter", InterpreterPath, NoDir))
<1>1. /\ UNCHANGED <<inputs, policy, fallback, links, pending, bySource,
                     byCanonical, seenPayloads, seenAliases>>
      /\ UNCHANGED manifest \/ manifest' = Append(manifest, e)
      /\ phase = "dequeue" /\ phase' = "planned"
  BY DEF Finish
<1>2. e.kind = "Interpreter" BY DEF MakeEntry
<1> HIDE DEF e
<1>3. PhaseInv' BY <1>1 DEF PlanInv, PhaseInv
<1>4. CASE UNCHANGED manifest BY <1>1, <1>3, <1>4, KeepsPlan
<1>5. CASE manifest' = Append(manifest, e)
  <2>1. /\ OfKind("SymlinkAlias")' = OfKind("SymlinkAlias")
        /\ OfKind("SharedObject")' = OfKind("SharedObject")
        /\ \A i \in DOMAIN manifest : manifest'[i] = manifest[i]
    BY <1>2, <1>5, AppendedKind, AppendedEntry DEF TypeOK
  <2>2. /\ \A i \in OfKind("SymlinkAlias") : manifest'[i] = manifest[i]
        /\ \A i \in OfKind("SharedObject") : manifest'[i] = manifest[i]
    BY <2>1 DEF OfKind
  <2>3. ScanKept' BY <1>1, ScanStays DEF PlanInv
  <2>4. LinksInv' BY <1>1, KnownStays, PathsStay DEF PlanInv, LinksInv, inputs
  <2>5. MapsInv'
    <3>1. \A p : Registered(p)' = Registered(p)
      BY <1>1, <2>1, <2>2 DEF Registered
    <3> QED BY <1>1, <3>1, FixedPlaces, PathsStay DEF PlanInv, MapsInv, inputs
  <2>6. EntriesInv'
    <3>1. \A f : AliasEntryInv(f) => AliasEntryInv(f)'
      BY <1>1, EntryStays DEF inputs
    <3>2. \A i \in OfKind("SymlinkAlias") : AliasEntryInv(manifest[i])'
      <4> SUFFICES ASSUME NEW i \in OfKind("SymlinkAlias")
                   PROVE  AliasEntryInv(manifest[i])'
        OBVIOUS
      <4>1. AliasEntryInv(manifest[i]) /\ manifest'[i] = manifest[i]
        BY <2>2 DEF PlanInv, EntriesInv
      <4> QED BY <3>1, <4>1 DEF AliasEntryInv, KnownLink, PlannedFor
    <3> QED BY <1>1, <2>1, <2>2, <3>2, PathsStay DEF PlanInv, EntriesInv
  <2>7. PayloadPrecedesAlias' BY <1>1, <2>1, OrderStays DEF PlanInv, inputs
  <2> QED BY <1>3, <2>3, <2>4, <2>5, <2>6, <2>7 DEF PlanInv
<1> QED BY <1>1, <1>4, <1>5

LEMMA PlanStep ==
  ASSUME TypeOK, ClosureInv, PlanInv, [Next]_vars PROVE PlanInv'
<1>1. CASE Open BY <1>1, OpenPlan
<1>2. CASE Dequeue BY <1>2, DequeuePlan
<1>3. CASE RegisterAlias BY <1>3, RegisterAliasPlan
<1>4. CASE PlanTarget BY <1>4, PlanTargetPlan
<1>5. CASE Finish BY <1>5, FinishPlan
<1>6. CASE OpenFails \/ AliasesRegistered \/ TargetsPlanned \/ UNCHANGED vars
  <2>1. UNCHANGED <<inputs, policy, fallback, links, pending, bySource, byCanonical,
                    seenPayloads, seenAliases, manifest>>
    BY <1>6 DEF OpenFails, AliasesRegistered, TargetsPlanned, vars, walkVars
  <2>2. PhaseInv'
    BY <1>6, <2>1 DEF OpenFails, AliasesRegistered, TargetsPlanned, vars, walkVars,
                      PlanInv, PhaseInv
  <2> QED BY <2>1, <2>2, KeepsPlan
<1> QED BY <1>1, <1>2, <1>3, <1>4, <1>5, <1>6 DEF Next

-----------------------------------------------------------------------------
(* Planned targets.                                                        *)

LEMMA PayloadEntry ==
  ASSUME ClosureInv, PlanInv, NEW c \in seenPayloads, Parses(c)
  PROVE  \E j \in OfKind("SharedObject") :
           manifest[j].source = c /\ manifest[j].bundled = LibraryPath(c)
<1>1. PICK j \in OfKind("SharedObject") : manifest[j].source = c
  BY DEF ClosureInv, Payloads
<1>2. manifest[j].bundled = LibraryPath(c) BY <1>1 DEF PlanInv, EntriesInv
<1> QED BY <1>1, <1>2

(* Where an alias of a finished plan points: at the copy of its file, or   *)
(* at the alias of the next link of its chain.                             *)
LEMMA PlannedTargets ==
  ASSUME TypeOK, ClosureInv, PlanInv, Planned,
         NEW i \in OfKind("SymlinkAlias"), Parses(AliasedFile(manifest[i]))
  PROVE  \/ \E j \in OfKind("SharedObject") :
              /\ manifest[j].source = AliasedFile(manifest[i])
              /\ manifest[j].bundled = manifest[i].target
         \/ \E j \in OfKind("SymlinkAlias") :
              /\ manifest[j].source = LinkTarget(manifest[i].source)
              /\ manifest[j].bundled = manifest[i].target
<1> DEFINE t == LinkTarget(manifest[i].source)
           c == AliasedFile(manifest[i])
<1>1. /\ c = Canonicalize(t) /\ c \in seenPayloads
      /\ PlannedFor(manifest[i], t)
  BY DEF PlanInv, EntriesInv, AliasEntryInv, KnownLink, AliasedFile
<1>2. PICK j \in OfKind("SharedObject") :
        manifest[j].source = c /\ manifest[j].bundled = LibraryPath(c)
  BY <1>1, PayloadEntry
<1>3. Parses(c) OBVIOUS
<1> HIDE DEF c, t
<1>4. CASE manifest[i].target = LibraryPath(c) BY <1>2, <1>4 DEF c
<1>5. CASE t \in DOMAIN bySource /\ manifest[i].target = AliasPath(t)
  <2>1. Registered(t) BY <1>5 DEF PlanInv, MapsInv
  <2>2. pending = <<>> BY DEF PlanInv, PhaseInv, Planned
  <2>3. CASE t \in seenPayloads
    <3>1. Final(t) BY <2>3 DEF PlanInv, MapsInv
    <3>2. c = t BY <1>1, <3>1, FinalOpens
    <3>3. manifest[i].target = LibraryPath(c) BY <1>5, <3>2, OneLibraryRule
    <3> QED BY <1>2, <3>3 DEF c
  <2>4. CASE \E k \in OfKind("SymlinkAlias") : manifest[k].source = t
    <3>1. PICK k \in OfKind("SymlinkAlias") : manifest[k].source = t BY <2>4
    <3>2. manifest[k].bundled = AliasPath(t)
      BY <3>1 DEF PlanInv, EntriesInv, AliasEntryInv
    <3> QED BY <1>5, <3>1, <3>2 DEF t
  <2> QED BY <2>1, <2>2, <2>3, <2>4 DEF Registered
<1> QED BY <1>1, <1>4, <1>5 DEF PlannedFor

LEMMA NoDangling ==
  TypeOK /\ ClosureInv /\ PlanInv => NoDanglingAlias
BY PlannedTargets DEF NoDanglingAlias, OfKind

-----------------------------------------------------------------------------
(* Alias chains.                                                           *)

(* The recursion of LeadsTo, one row per number of hops left.              *)
Leads(f, c) ==
  \A n \in 0..MaxHops : \A path \in Path :
    f[n][path] <=> \E j \in DOMAIN manifest :
                     /\ manifest[j].bundled = path
                     /\ IF manifest[j].kind = "SymlinkAlias"
                        THEN n > 0 /\ f[n - 1][manifest[j].target]
                        ELSE manifest[j].source = c

LEMMA LeadsEquation ==
  ASSUME TypeOK, NEW c, NEW i \in DOMAIN manifest
  PROVE  \E f : Leads(f, c) /\ (LeadsTo(i, c) <=> f[MaxHops][manifest[i].target])
<1> DEFINE Row == [Path -> BOOLEAN]
           base == [path \in Path |->
                      \E j \in DOMAIN manifest :
                        /\ manifest[j].bundled = path
                        /\ manifest[j].kind # "SymlinkAlias"
                        /\ manifest[j].source = c]
           step == [n \in Nat |-> [row \in Row |->
                      [path \in Path |->
                         \E j \in DOMAIN manifest :
                           /\ manifest[j].bundled = path
                           /\ IF manifest[j].kind = "SymlinkAlias"
                              THEN row[manifest[j].target]
                              ELSE manifest[j].source = c]]]
           next(f, n) ==
             [path \in Path |->
                \E j \in DOMAIN manifest :
                  /\ manifest[j].bundled = path
                  /\ IF manifest[j].kind = "SymlinkAlias"
                     THEN n > 0 /\ f[n - 1][manifest[j].target]
                     ELSE manifest[j].source = c]
           Eq(f) == f = [n \in 0..MaxHops |-> next(f, n)]
<1>1. MaxHops \in Nat BY GeographyAssumption
<1>2. base \in Row OBVIOUS
<1>3. step \in [Nat -> [Row -> Row]] OBVIOUS
<1>4. PICK f \in [0..MaxHops -> Row] : Follows(f, MaxHops, base, step)
  <2> HIDE DEF Row, base, step
  <2> QED BY <1>1, <1>2, <1>3, Recursion
<1>5. Eq(f)
  <2> SUFFICES ASSUME NEW n \in 0..MaxHops PROVE f[n] = next(f, n)
    BY <1>4
  <2>1. CASE n = 0
    <3>1. f[n] = base BY <1>4, <2>1 DEF Follows
    <3>2. base = next(f, n) BY <2>1
    <3> QED BY <3>1, <3>2
  <2>2. CASE n # 0
    <3>1. f[n - 1] \in Row /\ n > 0 /\ n \in Nat BY <1>1, <1>4, <2>2
    <3>2. step[n][f[n - 1]] = next(f, n) BY <3>1
    <3>3. f[n] = step[n][f[n - 1]]
      <4> HIDE DEF step, base, Row, next
      <4> QED BY <1>4, <2>2 DEF Follows
    <3> QED BY <3>2, <3>3
  <2> QED BY <2>1, <2>2
<1>6. LeadsTo(i, c) <=> (CHOOSE g : Eq(g))[MaxHops][manifest[i].target]
  BY DEF LeadsTo
<1> DEFINE h == CHOOSE g : Eq(g)
<1>7. Eq(h)
  <2> HIDE DEF Eq
  <2> QED BY <1>5
<1> HIDE DEF h
<1>8. Leads(h, c)
  <2>1. \A n \in 0..MaxHops : h[n] = next(h, n)
    <3> HIDE DEF next
    <3> QED BY <1>7
  <2> HIDE DEF Eq
  <2>2. ASSUME NEW n \in 0..MaxHops, NEW path \in Path
        PROVE  h[n][path] = next(h, n)[path]
    <3> HIDE DEF next
    <3> QED BY <2>1
  <2> QED BY <2>2, Zenon DEF Leads
<1> QED BY <1>6, <1>8 DEF h

(* Where text and kernel agree, a hop goes to the target as it is spelled. *)
LEMMA LexicalHop ==
  ASSUME HostType, LexicalIsPhysical, NEW p \in Path, IsLink(p),
         NEW n \in 0..MaxHops, n # 0
  PROVE  Walk[n][p] = Walk[n - 1][LinkTarget(p)]
<1>1. n - 1 \in 0..MaxHops BY GeographyAssumption
<1>2. Exists(p) BY DEF IsLink
<1>3. Walk[n][p] = Walk[n - 1][LinkTarget(At(p))] BY <1>2, WalkEquation
<1>4. LinkTarget(p) \in Path /\ LinkTarget(At(p)) \in Path
  BY LinkTargetType, NextHopType
<1>5. At(LinkTarget(p)) = At(LinkTarget(At(p))) BY DEF LexicalIsPhysical
<1> QED BY <1>1, <1>3, <1>4, <1>5, WalkFromPlace

(* A symlink that opens leads to the file its text leads to.               *)
LEMMA SymlinkFile ==
  ASSUME HostType, LexicalIsPhysical, NEW p \in Path, IsLink(p), Opens(p)
  PROVE  Opens(LinkTarget(p)) /\ Destination(LinkTarget(p)) = Destination(p)
<1> DEFINE t == LinkTarget(p)
           m == MaxHops - 1
<1>1. MaxHops \in 0..MaxHops /\ MaxHops # 0 /\ m \in Nat /\ m + 1 = MaxHops
  BY GeographyAssumption
<1>2. t \in Path BY LinkTargetType
<1>3. Walk[MaxHops][p] = Walk[m][t] BY <1>1, LexicalHop
<1>4. Walk[MaxHops][p] # NoPath /\ Destination(p) = Walk[MaxHops][p] BY OpenIsWalk
<1> HIDE DEF t, m
<1>5. Walk[MaxHops][t] = Walk[m][t] BY <1>1, <1>2, <1>3, <1>4, WalkGoesOn
<1>6. Opens(t) /\ Destination(t) = Destination(p)
  BY <1>2, <1>3, <1>4, <1>5, OpenIsWalk
<1> QED BY <1>6 DEF t

(* A planned chain needs no more hops than the host's.                     *)
LEMMA ChainsLead ==
  ASSUME TypeOK, ClosureInv, PlanInv, Planned, LexicalIsPhysical,
         NEW c \in Path, Parses(c), NEW f, Leads(f, c)
  PROVE  \A n \in 0..MaxHops : \A i \in OfKind("SymlinkAlias") :
           Walk[n][LinkTarget(manifest[i].source)] = c => f[n][manifest[i].target]
<1> DEFINE Good(n) ==
             \A i \in OfKind("SymlinkAlias") :
               Walk[n][LinkTarget(manifest[i].source)] = c => f[n][manifest[i].target]
           S == {n \in Nat : n \in 0..MaxHops => Good(n)}
<1>1. MaxHops \in Nat /\ MaxHops \in 0..MaxHops BY GeographyAssumption
<1>2. c # NoPath
  BY GeographyAssumption
<1>3. ASSUME NEW n \in 0..MaxHops,
             n # 0 => Good(n - 1),
             NEW i \in OfKind("SymlinkAlias"),
             Walk[n][LinkTarget(manifest[i].source)] = c
      PROVE  f[n][manifest[i].target]
  <2> DEFINE t == LinkTarget(manifest[i].source)
  <2>1. i \in DOMAIN manifest /\ manifest[i] \in Entry BY DEF OfKind, TypeOK
  <2>2. manifest[i].source \in Path /\ IsLink(manifest[i].source)
    BY <2>1 DEF Entry, PlanInv, EntriesInv, AliasEntryInv, KnownLink
  <2>3. t \in Path BY <2>2, LinkTargetType DEF TypeOK
  <2>4. Walk[MaxHops][t] = c
    <3>1. \A m \in 0..MaxHops : m >= n => Walk[m][t] = c
      <4> DEFINE T == {m \in Nat : m \in 0..MaxHops /\ m >= n => Walk[m][t] = c}
      <4>1. n \in Nat OBVIOUS
      <4>2. 0 \in T
        <5>1. 0 >= n => n = 0 BY <4>1
        <5> QED BY <1>3, <5>1
      <4>3. ASSUME NEW m \in Nat, m \in T PROVE m + 1 \in T
        <5> SUFFICES ASSUME m + 1 \in 0..MaxHops, m + 1 >= n
                     PROVE  Walk[m + 1][t] = c
          OBVIOUS
        <5>1. CASE m + 1 = n BY <1>3, <5>1
        <5>2. CASE m + 1 # n
          <6>1. m >= n /\ m \in 0..MaxHops BY <1>1, <4>1, <5>2
          <6>2. Walk[m][t] = c BY <4>3, <6>1
          <6> HIDE DEF t
          <6> QED BY <1>2, <2>3, <6>2, WalkGoesOn DEF TypeOK
        <5> QED BY <5>1, <5>2
      <4> HIDE DEF T
      <4>4. Nat \subseteq T BY <4>2, <4>3, NatSet
      <4> QED BY <1>1, <4>4 DEF T
    <3> QED BY <1>1, <3>1
  <2>5. Opens(t) /\ Canonicalize(t) = c
    BY <1>2, <2>3, <2>4, OpenIsWalk DEF Canonicalize, TypeOK
  <2>6. AliasedFile(manifest[i]) = c BY <2>5 DEF AliasedFile
  <2>7. manifest[i].target \in Path \/ manifest[i].target = NoPath
    BY <2>1 DEF Entry
  <2>8. manifest[i].target \in Path
    <3>1. Canonicalize(t) \in Path BY <2>3, CanonicalType DEF TypeOK
    <3>2. \A p \in Path : LibraryPath(p) \in Path /\ AliasPath(p) \in Path
      BY PlannedPathType DEF TypeOK
    <3> QED BY <2>3, <3>1, <3>2
            DEF PlanInv, EntriesInv, AliasEntryInv, PlannedFor
  <2>9. CASE \E j \in OfKind("SharedObject") :
               /\ manifest[j].source = c
               /\ manifest[j].bundled = manifest[i].target
    BY <2>8, <2>9 DEF Leads, OfKind
  <2>10. CASE \E j \in OfKind("SymlinkAlias") :
                /\ manifest[j].source = t
                /\ manifest[j].bundled = manifest[i].target
    <3>1. PICK j \in OfKind("SymlinkAlias") :
            manifest[j].source = t /\ manifest[j].bundled = manifest[i].target
      BY <2>10
    <3>2. IsLink(t) BY <3>1 DEF PlanInv, EntriesInv, AliasEntryInv, KnownLink
    <3>3. n # 0
      <4>1. Exists(t) BY <3>2 DEF IsLink
      <4>2. 0 \in 0..MaxHops BY <1>1
      <4>3. Walk[0][t] = NoPath BY <2>3, <3>2, <4>1, <4>2, WalkEquation DEF TypeOK
      <4> QED BY <1>2, <1>3, <4>3
    <3>4. Walk[n - 1][LinkTarget(t)] = c
      BY <1>3, <2>3, <3>2, <3>3, LexicalHop DEF TypeOK
    <3>5. f[n - 1][manifest[j].target] BY <1>3, <3>1, <3>3, <3>4
    <3>6. /\ j \in DOMAIN manifest /\ manifest[j].kind = "SymlinkAlias"
          /\ n > 0
      BY <3>1, <3>3 DEF OfKind
    <3> QED BY <2>8, <3>1, <3>5, <3>6 DEF Leads
  <2> QED BY <2>6, <2>9, <2>10, PlannedTargets
<1>4. 0 \in S BY <1>3
<1>5. ASSUME NEW n \in Nat, n \in S PROVE n + 1 \in S
  <2> SUFFICES ASSUME n + 1 \in 0..MaxHops PROVE Good(n + 1) OBVIOUS
  <2>1. Good(n) BY <1>1, <1>5
  <2>2. (n + 1) - 1 = n BY <1>5
  <2>3. n + 1 # 0 => Good((n + 1) - 1) BY <2>1, <2>2
  <2> QED BY <1>3, <2>3
<1> HIDE DEF S
<1>6. Nat \subseteq S BY <1>4, <1>5, NatSet
<1> QED BY <1>1, <1>6 DEF S

LEMMA AliasesLead ==
  TypeOK /\ ClosureInv /\ PlanInv => AliasLeadsToItsFile
<1> SUFFICES ASSUME TypeOK, ClosureInv, PlanInv, Planned, LexicalIsPhysical,
                    NEW i \in OfKind("SymlinkAlias"), Parses(AliasedFile(manifest[i]))
             PROVE  LeadsTo(i, AliasedFile(manifest[i]))
  BY DEF AliasLeadsToItsFile
<1> DEFINE c == AliasedFile(manifest[i])
           t == LinkTarget(manifest[i].source)
<1>1. i \in DOMAIN manifest /\ manifest[i] \in Entry BY DEF OfKind, TypeOK
<1>2. manifest[i].source \in Path /\ IsLink(manifest[i].source)
  BY <1>1 DEF Entry, PlanInv, EntriesInv, AliasEntryInv, KnownLink
<1>3. t \in Path BY <1>2, LinkTargetType DEF TypeOK
<1>4. Canonicalize(t) = c /\ Parses(c) /\ c \in Path
  BY <1>3, CanonicalType DEF AliasedFile, TypeOK
<1>5. Opens(t) BY <1>3, <1>4, ParsedOpens DEF TypeOK
<1>6. Walk[MaxHops][t] = c
  BY <1>3, <1>4, <1>5, OpenIsWalk DEF Canonicalize, TypeOK
<1>7. PICK f : Leads(f, c) /\ (LeadsTo(i, c) <=> f[MaxHops][manifest[i].target])
  BY <1>1, LeadsEquation
<1>8. MaxHops \in 0..MaxHops BY GeographyAssumption
<1> HIDE DEF c
<1>9. f[MaxHops][manifest[i].target]
  BY <1>4, <1>6, <1>7, <1>8, ChainsLead DEF t
<1> QED BY <1>7, <1>9 DEF c

(* In the order of the manifest every alias of a library comes after the   *)
(* copy of its file: the file was registered and planned when the alias    *)
(* was found.                                                              *)
THEOREM PayloadsPrecedeAliases == Spec => []PayloadPrecedesAlias
<1>1. PlanInv => PayloadPrecedesAlias BY DEF PlanInv
<1> QED BY TypeCorrect, ClosureInvInit, ClosureInvStep, PlanInit, PlanStep,
           <1>1, PTL DEF Spec

(* The two maps of resolvePlannedLinkTarget give an alias the path of the  *)
(* next alias or of the copied file, and that entry is in the plan.        *)
THEOREM AliasesDoNotDangle == Spec => []NoDanglingAlias
BY TypeCorrect, ClosureInvInit, ClosureInvStep, PlanInit, PlanStep,
   NoDangling, PTL DEF Spec

(* The chain of planned targets ends at the copied file, within the hops   *)
(* the kernel follows, wherever link texts name the kernel's places.       *)
THEOREM AliasesLeadToTheirFiles == Spec => []AliasLeadsToItsFile
BY TypeCorrect, ClosureInvInit, ClosureInvStep, PlanInit, PlanStep,
   AliasesLead, PTL DEF Spec

-----------------------------------------------------------------------------
(* What the loader finds.  The aliases of whatever has been asked for are  *)
(* still to register or have an entry at their bundle path.                *)

Served(dep) ==
  Parses(dep.canonical) /\ dep.canonical \notin InterpreterFile =>
    \A l \in dep.links : l \in links \/ AliasPath(l.link) \in seenAliases

ImportsServed ==
  Opened => \A w \in Needed : w \in ToSet(todo) \/ Served(Answer(w))

AliasesCovered ==
  \A path \in seenAliases :
    \/ \E k \in DOMAIN pending : pending[k].bundled = path
    \/ \E i \in OfKind("SymlinkAlias") : manifest[i].bundled = path

(* The executable's entry is the first, the interpreter's is the last.     *)
EndsInv ==
  /\ \A i \in OfKind("Executable") :
       /\ i = 1 /\ manifest[i].source = exe
       /\ manifest[i].bundled = BundlePathFor(policy, "Executable", exe, NoDir)
  /\ \A i \in OfKind("Interpreter") :
       /\ Planned /\ i = Len(manifest) /\ InterpreterPath # NoPath
       /\ manifest[i].source = InterpreterPath
       /\ manifest[i].bundled =
            BundlePathFor(policy, "Interpreter", InterpreterPath, NoDir)

ServedInv == ImportsServed /\ AliasesCovered /\ EndsInv

LEMMA ServedInit == Init => ServedInv
BY DEF Init, ServedInv, ImportsServed, AliasesCovered, EndsInv, Opened, OfKind

LEMMA ServedStays ==
  ASSUME UNCHANGED <<inputs, policy, fallback>>,
         seenAliases \subseteq seenAliases',
         \A l \in links : l \in links' \/ AliasPath(l.link) \in seenAliases'
  PROVE  \A w : Served(Answer(w)) => Served(Answer(w))'
BY FixedNeeds, PathsStay DEF Served

LEMMA CoverStays ==
  ASSUME AliasesCovered, UNCHANGED <<seenAliases, pending>>,
         OfKind("SymlinkAlias")' = OfKind("SymlinkAlias"),
         \A i \in OfKind("SymlinkAlias") : manifest'[i] = manifest[i]
  PROVE  AliasesCovered'
BY DEF AliasesCovered

LEMMA EndsStay ==
  ASSUME EndsInv, UNCHANGED <<inputs, policy>>, phase # "planned",
         OfKind("Executable")' = OfKind("Executable"),
         OfKind("Interpreter")' = OfKind("Interpreter"),
         \A i \in OfKind("Executable") : manifest'[i] = manifest[i]
  PROVE  EndsInv'
<1>1. OfKind("Interpreter") = {} BY DEF EndsInv, Planned
<1> QED BY <1>1 DEF EndsInv, inputs

LEMMA OpenServed ==
  ASSUME TypeOK, ClosureInv, PlanInv, ServedInv, Open PROVE ServedInv'
<1>1. ImportsServed' BY OpenClosure DEF ImportsServed
<1>2. AliasesCovered' BY DEF Open, PlanInv, PhaseInv, AliasesCovered
<1>3. EndsInv'
  <2> DEFINE e == MakeEntry("Executable", exe, exe.name,
                            BundlePathFor(policy, "Executable", exe, NoDir))
  <2>1. manifest' = <<e>> /\ exe' = exe /\ policy' = policy BY DEF Open, inputs
  <2>2. /\ e.kind = "Executable" /\ e.source = exe
        /\ e.bundled = BundlePathFor(policy, "Executable", exe, NoDir)
    BY DEF MakeEntry
  <2> HIDE DEF e
  <2>3. DOMAIN manifest' = {1} /\ manifest'[1] = e BY <2>1
  <2> QED BY <2>1, <2>2, <2>3 DEF EndsInv, OfKind
<1> QED BY <1>1, <1>2, <1>3 DEF ServedInv

LEMMA DequeueServed ==
  ASSUME TypeOK, ClosureInv, PlanInv, ServedInv, Dequeue PROVE ServedInv'
<1> DEFINE dep == Dependency(Head(todo).owner, Head(todo).name)
<1>1. /\ phase = "dequeue" /\ todo # <<>> /\ Opened
      /\ \/ ResolveFails(dep) \/ SkipInterpreter(dep) \/ SkipUnparseable(dep)
         \/ NewPayload(dep) \/ SeenPayload(dep)
  BY DEF Dequeue, Opened
<1>2. dep = Answer(Head(todo)) BY DEF Answer
<1> HIDE DEF dep
<1>3. UNCHANGED inputs BY InputsStay DEF Next
<1>4. links = {} BY <1>1 DEF PlanInv, PhaseInv
<1>5. /\ UNCHANGED <<policy, fallback, pending, seenAliases>>
      /\ phase' # "open"
  BY <1>1 DEF ResolveFails, SkipInterpreter, SkipUnparseable, NewPayload,
              SeenPayload, PlanAliasesOf
<1>6. \A w : Served(Answer(w)) => Served(Answer(w))'
  BY <1>3, <1>4, <1>5, ServedStays
<1>7. ToSet(todo) = {Head(todo)} \cup ToSet(Tail(todo)) BY <1>1, Popped DEF TypeOK
<1>8. CASE NewPayload(dep)
  <2> DEFINE e == MakeEntry("SharedObject", dep.canonical, dep.name,
                            LibraryPath(dep.canonical))
  <2>1. manifest' = Append(manifest, e) /\ links' = dep.links
    BY <1>8 DEF NewPayload, PlanAliasesOf
  <2>2. e.kind = "SharedObject" BY DEF MakeEntry
  <2> HIDE DEF e
  <2>3. /\ OfKind("SymlinkAlias")' = OfKind("SymlinkAlias")
        /\ OfKind("Executable")' = OfKind("Executable")
        /\ OfKind("Interpreter")' = OfKind("Interpreter")
        /\ \A i \in DOMAIN manifest : manifest'[i] = manifest[i]
    BY <2>1, <2>2, AppendedKind, AppendedEntry DEF TypeOK
  <2>4. /\ \A i \in OfKind("SymlinkAlias") : manifest'[i] = manifest[i]
        /\ \A i \in OfKind("Executable") : manifest'[i] = manifest[i]
    BY <2>3 DEF OfKind
  <2>5. /\ Needed' = Needed \cup ToSet(Imports(dep.canonical))
        /\ ToSet(todo)' = ToSet(Tail(todo)) \cup ToSet(Imports(dep.canonical))
    BY <1>1, <1>2, <1>3, <1>8, NewPayloadClosure
  <2>6. \A w : Answer(w) = dep => Served(Answer(w))'
    BY <1>3, <2>1, FixedNeeds DEF Served
  <2>7. ImportsServed'
    BY <1>1, <1>2, <1>6, <1>7, <2>5, <2>6 DEF ServedInv, ImportsServed
  <2>8. AliasesCovered' BY <1>5, <2>3, <2>4, CoverStays DEF ServedInv
  <2>9. EndsInv' BY <1>1, <1>3, <1>5, <2>3, <2>4, EndsStay DEF ServedInv
  <2> QED BY <2>7, <2>8, <2>9 DEF ServedInv
<1>9. CASE ~NewPayload(dep)
  <2>1. UNCHANGED manifest
    BY <1>1, <1>9 DEF ResolveFails, SkipInterpreter, SkipUnparseable, SeenPayload
  <2>2. /\ \A kind : OfKind(kind)' = OfKind(kind)
        /\ \A i : manifest'[i] = manifest[i]
    BY <2>1, SameManifest
  <2>3. AliasesCovered' BY <1>5, <2>2, CoverStays DEF ServedInv
  <2>4. EndsInv' BY <1>1, <1>3, <1>5, <2>2, EndsStay DEF ServedInv
  <2>5. UNCHANGED Needed
    <3>1. UNCHANGED Payloads BY <2>2, SamePayloads
    <3> QED BY <1>3, <3>1, FixedNeeds DEF Needed
  <2>6. CASE ResolveFails(dep)
    <3>1. ImportsServed' BY <2>6 DEF ResolveFails, ImportsServed, Opened
    <3> QED BY <2>3, <2>4, <3>1 DEF ServedInv
  <2>7. CASE SkipInterpreter(dep) \/ SkipUnparseable(dep) \/ SeenPayload(dep)
    <3>1. todo' = Tail(todo)
      BY <2>7 DEF SkipInterpreter, SkipUnparseable, SeenPayload
    <3>2. ASSUME NEW w, Answer(w) = dep PROVE Served(Answer(w))'
      <4>1. CASE SkipInterpreter(dep)
        BY <1>3, <3>2, <4>1, FixedNeeds DEF SkipInterpreter, Served
      <4>2. CASE SkipUnparseable(dep)
        BY <1>3, <3>2, <4>2, FixedNeeds DEF SkipUnparseable, Served
      <4>3. CASE SeenPayload(dep)
        BY <1>3, <3>2, <4>3, FixedNeeds DEF SeenPayload, PlanAliasesOf, Served
      <4> QED BY <2>7, <4>1, <4>2, <4>3
    <3>3. ImportsServed'
      BY <1>1, <1>2, <1>6, <1>7, <2>5, <3>1, <3>2 DEF ServedInv, ImportsServed
    <3> QED BY <2>3, <2>4, <3>3 DEF ServedInv
  <2> QED BY <1>1, <1>9, <2>6, <2>7
<1> QED BY <1>8, <1>9

LEMMA RegisterAliasServed ==
  ASSUME TypeOK, ServedInv, RegisterAlias PROVE ServedInv'
<1>1. PICK a \in links :
        /\ links' = links \ {a}
        /\ IF AliasPath(a.link) \in seenAliases
           THEN UNCHANGED <<seenAliases, bySource, pending>>
           ELSE /\ seenAliases' = seenAliases \cup {AliasPath(a.link)}
                /\ bySource' = Put(bySource, a.link, AliasPath(a.link))
                /\ pending' = Append(pending,
                     [link |-> a.link, target |-> a.target,
                      bundled |-> AliasPath(a.link)])
  BY DEF RegisterAlias
<1>2. /\ UNCHANGED <<inputs, policy, fallback, todo, manifest>>
      /\ phase = "aliases" /\ phase' = "aliases"
  BY DEF RegisterAlias
<1>3. /\ \A kind : OfKind(kind)' = OfKind(kind)
      /\ \A i : manifest'[i] = manifest[i]
  BY <1>2, SameManifest
<1>4. EndsInv' BY <1>2, <1>3, EndsStay DEF ServedInv
<1>5. ImportsServed'
  <2>1. UNCHANGED Needed
    <3>1. UNCHANGED Payloads BY <1>3, SamePayloads
    <3> QED BY <1>2, <3>1, FixedNeeds DEF Needed
  <2>2. \A w : Served(Answer(w)) => Served(Answer(w))'
    BY <1>1, <1>2, ServedStays
  <2> QED BY <1>2, <2>1, <2>2 DEF ServedInv, ImportsServed, Opened
<1>6. AliasesCovered'
  <2>1. CASE UNCHANGED <<seenAliases, pending>>
    BY <1>3, <2>1, CoverStays DEF ServedInv
  <2>2. CASE ~UNCHANGED <<seenAliases, pending>>
    <3> DEFINE new == [link |-> a.link, target |-> a.target,
                       bundled |-> AliasPath(a.link)]
               n == Len(pending) + 1
    <3>1. /\ seenAliases' = seenAliases \cup {new.bundled}
          /\ pending' = Append(pending, new)
      BY <1>1, <2>2
    <3> HIDE DEF new
    <3>2. /\ DOMAIN pending' = DOMAIN pending \cup {n}
          /\ \A k \in DOMAIN pending : pending'[k] = pending[k]
          /\ pending'[n] = new
      BY <3>1 DEF TypeOK
    <3> HIDE DEF n
    <3> QED BY <1>3, <3>1, <3>2 DEF ServedInv, AliasesCovered
  <2> QED BY <2>1, <2>2
<1> QED BY <1>4, <1>5, <1>6 DEF ServedInv

LEMMA PlanTargetServed ==
  ASSUME TypeOK, ServedInv, PlanTarget PROVE ServedInv'
<1> DEFINE e == AliasEntry(Head(pending), PlannedLinkTarget(Head(pending).target))
           n == Len(manifest) + 1
<1>1. /\ phase = "targets" /\ phase' = "targets" /\ pending # <<>>
      /\ manifest' = Append(manifest, e) /\ pending' = Tail(pending)
      /\ UNCHANGED <<inputs, policy, fallback, todo, links, seenAliases>>
  BY DEF PlanTarget
<1>2. /\ e.kind = "SymlinkAlias" /\ e.bundled = pending[1].bundled
  BY <1>1 DEF AliasEntry, TypeOK
<1> HIDE DEF e
<1>3. /\ OfKind("SymlinkAlias")' = OfKind("SymlinkAlias") \cup {n}
      /\ OfKind("SharedObject")' = OfKind("SharedObject")
      /\ OfKind("Executable")' = OfKind("Executable")
      /\ OfKind("Interpreter")' = OfKind("Interpreter")
      /\ \A i \in DOMAIN manifest : manifest'[i] = manifest[i]
      /\ manifest'[n] = e
  BY <1>1, <1>2, AppendedKind, AppendedEntry DEF TypeOK
<1>4. /\ \A i \in OfKind("SymlinkAlias") : manifest'[i] = manifest[i]
      /\ \A i \in OfKind("SharedObject") : manifest'[i] = manifest[i]
      /\ \A i \in OfKind("Executable") : manifest'[i] = manifest[i]
  BY <1>3 DEF OfKind
<1> HIDE DEF n
<1>5. EndsInv' BY <1>1, <1>3, <1>4, EndsStay DEF ServedInv
<1>6. ImportsServed'
  <2>1. UNCHANGED Needed
    <3>1. UNCHANGED Payloads BY <1>3, <1>4, SamePayloads
    <3> QED BY <1>1, <3>1, FixedNeeds DEF Needed
  <2>2. \A w : Served(Answer(w)) => Served(Answer(w))'
    BY <1>1, ServedStays
  <2> QED BY <1>1, <2>1, <2>2 DEF ServedInv, ImportsServed, Opened
<1>7. AliasesCovered'
  <2>1. \A k \in DOMAIN pending :
          k = 1 \/ (k - 1 \in DOMAIN pending' /\ pending'[k - 1] = pending[k])
    BY <1>1 DEF TypeOK
  <2>2. ASSUME NEW path \in seenAliases,
               \E k \in DOMAIN pending : pending[k].bundled = path
        PROVE  \/ \E k \in DOMAIN pending' : pending'[k].bundled = path
               \/ \E i \in OfKind("SymlinkAlias")' : manifest'[i].bundled = path
    <3>1. PICK k \in DOMAIN pending : pending[k].bundled = path BY <2>2
    <3>2. CASE k = 1 BY <1>2, <1>3, <3>1, <3>2
    <3>3. CASE k # 1 BY <2>1, <3>1, <3>3
    <3> QED BY <3>2, <3>3
  <2>3. ASSUME NEW path,
               \E i \in OfKind("SymlinkAlias") : manifest[i].bundled = path
        PROVE  \E i \in OfKind("SymlinkAlias")' : manifest'[i].bundled = path
    BY <1>3, <1>4, <2>3
  <2> QED BY <1>1, <2>2, <2>3 DEF ServedInv, AliasesCovered
<1> QED BY <1>5, <1>6, <1>7 DEF ServedInv

LEMMA FinishServed ==
  ASSUME TypeOK, ServedInv, Finish PROVE ServedInv'
<1> DEFINE e == MakeEntry("Interpreter", InterpreterPath, InterpreterPath.name,
                  BundlePathFor(policy, "Interpreter", InterpreterPath, NoDir))
           n == Len(manifest) + 1
<1>1. /\ UNCHANGED <<inputs, policy, fallback, todo, links, pending, seenAliases>>
      /\ phase = "dequeue" /\ phase' = "planned"
      /\ IF InterpreterPath = NoPath THEN UNCHANGED manifest
         ELSE manifest' = Append(manifest, e)
  BY DEF Finish
<1>2. /\ e.kind = "Interpreter" /\ e.source = InterpreterPath
      /\ e.bundled = BundlePathFor(policy, "Interpreter", InterpreterPath, NoDir)
  BY DEF MakeEntry
<1> HIDE DEF e
<1>3. /\ OfKind("SymlinkAlias")' = OfKind("SymlinkAlias")
      /\ OfKind("SharedObject")' = OfKind("SharedObject")
      /\ OfKind("Executable")' = OfKind("Executable")
      /\ \A i \in DOMAIN manifest : manifest'[i] = manifest[i]
  BY <1>1, <1>2, AppendedKind, AppendedEntry, SameManifest DEF TypeOK
<1>4. /\ \A i \in OfKind("SymlinkAlias") : manifest'[i] = manifest[i]
      /\ \A i \in OfKind("SharedObject") : manifest'[i] = manifest[i]
      /\ \A i \in OfKind("Executable") : manifest'[i] = manifest[i]
  BY <1>3 DEF OfKind
<1>5. AliasesCovered' BY <1>1, <1>3, <1>4, CoverStays DEF ServedInv
<1>6. ImportsServed'
  <2>1. UNCHANGED Needed
    <3>1. UNCHANGED Payloads BY <1>3, <1>4, SamePayloads
    <3> QED BY <1>1, <3>1, FixedNeeds DEF Needed
  <2>2. \A w : Served(Answer(w)) => Served(Answer(w))'
    BY <1>1, ServedStays
  <2> QED BY <1>1, <2>1, <2>2 DEF ServedInv, ImportsServed, Opened
<1>7. EndsInv'
  <2>1. UNCHANGED <<exe, InterpreterPath>> BY <1>1, FixedInterpreter DEF inputs
  <2>2. OfKind("Interpreter") = {} BY <1>1 DEF ServedInv, EndsInv, Planned
  <2>3. CASE InterpreterPath = NoPath
    <3>1. OfKind("Interpreter")' = {} BY <1>1, <2>2, <2>3, SameManifest
    <3> QED BY <1>1, <1>3, <1>4, <2>1, <3>1 DEF ServedInv, EndsInv
  <2>4. CASE InterpreterPath # NoPath
    <3>1. /\ manifest' = Append(manifest, e)
          /\ OfKind("Interpreter")' = {n} /\ manifest'[n] = e
      BY <1>1, <1>2, <2>2, <2>4, AppendedKind, AppendedEntry DEF TypeOK
    <3>2. Len(manifest') = n BY <3>1 DEF TypeOK
    <3> HIDE DEF n
    <3> QED BY <1>1, <1>2, <1>3, <1>4, <2>1, <2>4, <3>1, <3>2
            DEF ServedInv, EndsInv, Planned
  <2> QED BY <2>3, <2>4
<1> QED BY <1>5, <1>6, <1>7 DEF ServedInv

LEMMA ServedStep ==
  ASSUME TypeOK, ClosureInv, PlanInv, ServedInv, [Next]_vars PROVE ServedInv'
<1>1. CASE Open BY <1>1, OpenServed
<1>2. CASE Dequeue BY <1>2, DequeueServed
<1>3. CASE RegisterAlias BY <1>3, RegisterAliasServed
<1>4. CASE PlanTarget BY <1>4, PlanTargetServed
<1>5. CASE Finish BY <1>5, FinishServed
<1>6. CASE OpenFails \/ AliasesRegistered \/ TargetsPlanned \/ UNCHANGED vars
  <2>1. /\ UNCHANGED <<inputs, policy, fallback, todo, links, pending,
                       seenAliases, manifest>>
        /\ phase' = phase \/ (phase # "planned" /\ phase' # "planned")
        /\ Opened' => Opened
    BY <1>6 DEF OpenFails, AliasesRegistered, TargetsPlanned, vars, walkVars, Opened
  <2>2. /\ \A kind : OfKind(kind)' = OfKind(kind)
        /\ \A i : manifest'[i] = manifest[i]
    BY <2>1, SameManifest
  <2>3. UNCHANGED Needed
    <3>1. UNCHANGED Payloads BY <2>2, SamePayloads
    <3> QED BY <2>1, <3>1, FixedNeeds DEF Needed
  <2>4. \A w : Served(Answer(w)) => Served(Answer(w))' BY <2>1, ServedStays
  <2>5. ImportsServed' BY <2>1, <2>3, <2>4 DEF ServedInv, ImportsServed
  <2>6. AliasesCovered' BY <2>1, <2>2, CoverStays DEF ServedInv
  <2>7. EndsInv'
    <3>1. UNCHANGED <<exe, InterpreterPath, policy>>
      BY <2>1, FixedInterpreter DEF inputs
    <3> QED BY <2>1, <2>2, <3>1 DEF ServedInv, EndsInv, Planned
  <2> QED BY <2>5, <2>6, <2>7 DEF ServedInv
<1> QED BY <1>1, <1>2, <1>3, <1>4, <1>5, <1>6 DEF Next

-----------------------------------------------------------------------------
(* The flat bundle.                                                        *)

(* An answer's name is that of its file, or that of one of its aliases.    *)
LEMMA ResolvedName ==
  ASSUME HostType, LexicalIsPhysical, NEW roots, RootList(roots), NEW n,
         NEW dep \in ResolveIn(n, roots)
  PROVE  dep.canonical.name = n \/ \E l \in dep.links : l.link.name = n
<1>1. PICK r \in Lookup(n, roots) :
        dep = [name |-> n, alias |-> r.alias, canonical |-> r.canonical,
               links |-> AliasLinks(r.canonical, roots)]
  BY DEF ResolveIn
<1>2. ASSUME NEW v \in LinkVisits(n, roots), r = LinkRecord(v[2])
      PROVE  \E l \in dep.links : l.link.name = n
  <2>1. [link |-> v[2], target |-> LinkTarget(v[2])] \in AliasLinks(r.canonical, roots)
    BY <1>2 DEF AliasLinks, LinkVisits
  <2>2. v[2].name = n BY DEF LinkVisits
  <2> QED BY <1>1, <2>1, <2>2
<1>3. ASSUME NEW v \in FileVisits(n, roots), r = FileRecord(v[2])
      PROVE  dep.canonical.name = n
  <2> DEFINE p == v[2]
  <2>1. /\ p \in Path /\ p.name = n /\ IsElf(p) /\ Opens(p)
        /\ ~(IsLink(p) /\ IsElf(LinkTarget(p)))
    BY VisitType DEF FileVisits, IsFileEntry, IsLinkEntry, IsElf
  <2> HIDE DEF p
  <2>2. ~IsLink(p) BY <2>1, SymlinkFile DEF IsElf
  <2>3. Destination(p) = At(p) BY <2>2 DEF Destination
  <2>4. Canonicalize(p) = At(p) BY <2>1, <2>3 DEF Canonicalize
  <2>5. r.canonical = At(p) BY <1>3, <2>4 DEF FileRecord, p
  <2>6. At(p).name = p.name BY <2>1 DEF At, Path
  <2> QED BY <1>1, <2>1, <2>5, <2>6
<1>4. \/ \E v \in LinkVisits(n, roots) : r = LinkRecord(v[2])
      \/ \E v \in FileVisits(n, roots) : r = FileRecord(v[2])
  BY DEF Lookup, LastOf, FirstOf, OrElse
<1> QED BY <1>2, <1>3, <1>4

LEMMA FlatPath ==
  ASSUME policy = FlatLib64, NEW p \in Path
  PROVE  /\ LibraryPath(p).name = p.name /\ LibraryPath(p).dir = "/lib64"
         /\ AliasPath(p).name = p.name /\ AliasPath(p).dir = "/lib64"
BY DEF LibraryPath, AliasPath, BundlePathFor, FlatBundlePath, Path

(* A finished plan leaves nothing in the queue.                            *)
DoneInv == Planned => todo = <<>>

LEMMA DoneStep ==
  ASSUME DoneInv, [Next]_vars PROVE DoneInv'
BY DEF Next, Open, OpenFails, Dequeue, ResolveFails, SkipInterpreter,
       SkipUnparseable, NewPayload, SeenPayload, PlanAliasesOf, RegisterAlias,
       AliasesRegistered, PlanTarget, TargetsPlanned, Finish, vars, walkVars,
       DoneInv, Planned

(* A finished plan has an entry of the name of everything an ELF file that *)
(* is bundled imports: the copied file or one of its aliases.              *)
LEMMA NamesPlanned ==
  ASSUME TypeOK, ClosureInv, PlanInv, ServedInv, DoneInv, Planned, LexicalIsPhysical,
         NEW i \in BundledElfs, NEW name \in MustBeServed(i)
  PROVE  \E j \in DOMAIN manifest, p \in Path :
           /\ p.name = name
           /\ manifest[j].bundled \in {LibraryPath(p), AliasPath(p)}
<1> DEFINE owner == manifest[i].source
           dep == Dependency(owner, name)
           w == [name |-> name, owner |-> owner]
<1>1. /\ i \in DOMAIN manifest /\ manifest[i].kind \in {"Executable", "SharedObject"}
      /\ manifest[i] \in Entry
  BY DEF BundledElfs, OfKind, TypeOK
<1>2. /\ name \in ToSet(ImportedLibraries(owner)) /\ dep # NoResolution
      /\ Parses(dep.canonical) /\ dep.canonical \notin InterpreterFile
  BY DEF MustBeServed
<1>3. owner \in Path /\ name \in Name
  <2>1. ImportedLibraries(owner) \in Seq(Name) BY ImportedType DEF TypeOK
  <2> QED BY <1>1, <1>2, <2>1 DEF Entry, ToSet
<1>4. w \in Needed
  <2>1. owner \in Payloads \cup {exe}
    BY <1>1 DEF BundledElfs, Payloads, ServedInv, EndsInv, OfKind
  <2>2. w \in ToSet(Imports(owner)) BY <1>2 DEF ToSet, Imports
  <2> HIDE DEF w, owner
  <2> QED BY <2>1, <2>2 DEF Needed
<1>5. Opened /\ w \notin ToSet(todo) BY DEF Planned, Opened, DoneInv, ToSet
<1>6. Answer(w) = dep BY DEF Answer
<1> HIDE DEF w
<1>7. dep.canonical \in seenPayloads /\ Settled(dep)
  <2>1. Settled(dep) BY <1>4, <1>5, <1>6 DEF ClosureInv
  <2>2. dep.canonical \in Payloads BY <1>2, <2>1 DEF Settled
  <2> QED BY <2>1, <2>2 DEF Payloads, PlanInv, EntriesInv
<1>8. \A l \in dep.links :
        \E j \in OfKind("SymlinkAlias") : manifest[j].bundled = AliasPath(l.link)
  <2>1. links = {} /\ pending = <<>> BY DEF PlanInv, PhaseInv, Planned
  <2>2. Served(dep) BY <1>4, <1>5, <1>6 DEF ServedInv, ImportsServed
  <2>3. \A l \in dep.links : AliasPath(l.link) \in seenAliases
    BY <1>2, <2>1, <2>2 DEF Served
  <2> QED BY <2>1, <2>3 DEF ServedInv, AliasesCovered
<1>9. /\ dep.canonical \in Path
      /\ \A l \in dep.links : l.link \in Path
      /\ dep.canonical.name = name \/ \E l \in dep.links : l.link.name = name
  <2>1. PICK roots : RootList(roots) /\ dep \in ResolveIn(name, roots)
    BY <1>2, <1>3, AnswerIsResolved DEF TypeOK, PlanInv
  <2> HIDE DEF dep
  <2> QED BY <2>1, ResolvedLinks, ResolvedName DEF TypeOK, Final
<1> HIDE DEF dep, owner
<1>10. CASE dep.canonical.name = name
  <2>1. PICK j \in OfKind("SharedObject") :
          manifest[j].bundled = LibraryPath(dep.canonical)
    BY <1>2, <1>7, PayloadEntry
  <2> QED BY <1>9, <1>10, <2>1 DEF OfKind
<1>11. CASE \E l \in dep.links : l.link.name = name
  BY <1>8, <1>9, <1>11 DEF OfKind
<1> QED BY <1>9, <1>10, <1>11

LEMMA FlatServes ==
  TypeOK /\ ClosureInv /\ PlanInv /\ ServedInv /\ DoneInv => FlatPlanServesImports
<1> SUFFICES ASSUME TypeOK, ClosureInv, PlanInv, ServedInv, DoneInv, Planned,
                    policy = FlatLib64, LexicalIsPhysical,
                    NEW i \in BundledElfs, NEW name \in MustBeServed(i)
             PROVE  ServedFrom(RunpathDirs(i), name)
  BY DEF FlatPlanServesImports
<1>1. RunpathDirs(i) = {"/lib64"}
  <2>1. BundleRunpath(manifest, manifest[i], policy) = <<"/lib64">>
    BY DEF BundleRunpath, BundledLibraryDirectories, BundledElfs, OfKind
  <2> QED BY <2>1 DEF RunpathDirs, ToSet
<1>2. PICK j \in DOMAIN manifest, p \in Path :
        /\ p.name = name
        /\ manifest[j].bundled \in {LibraryPath(p), AliasPath(p)}
  BY NamesPlanned
<1> QED BY <1>1, <1>2, FlatPath DEF ServedFrom

(* The loader of a flat bundle finds every imported name in the one        *)
(* directory on the RUNPATH: as the copied file or as one of its aliases.  *)
THEOREM FlatPlansServeImports == Spec => []FlatPlanServesImports
<1>1. Init => DoneInv BY DEF Init, DoneInv, Planned
<1> QED BY TypeCorrect, ClosureInvInit, ClosureInvStep, PlanInit, PlanStep,
           ServedInit, ServedStep, <1>1, DoneStep, FlatServes, PTL DEF Spec

-----------------------------------------------------------------------------
(* The preserved source tree.                                              *)

LEMMA PreservedPath ==
  ASSUME policy = PreserveSourceTree, NEW p, ShouldPreserveSourcePath(p)
  PROVE  /\ LibraryPath(p) = p /\ AliasPath(p) = p
         /\ \A kind, fb : BundlePathFor(policy, kind, p, fb) = p
BY DEF LibraryPath, AliasPath, BundlePathFor, FlatLib64, PreserveSourceTree

(* The file of the interpreter is registered for no library.               *)
LoaderApart == seenPayloads \cap InterpreterFile = {}

LEMMA LoaderStep ==
  ASSUME LoaderApart, [Next]_vars PROVE LoaderApart'
<1>1. InterpreterFile' = InterpreterFile BY InputsStay, FixedInterpreter
<1>2. CASE UNCHANGED seenPayloads BY <1>1, <1>2 DEF LoaderApart
<1>3. ASSUME NEW dep, RegisterPayload(dep) PROVE LoaderApart'
  BY <1>1, <1>3 DEF RegisterPayload, LoaderApart
<1> QED BY <1>2, <1>3 DEF Next, Open, OpenFails, Dequeue, ResolveFails,
           SkipInterpreter, SkipUnparseable, NewPayload, SeenPayload,
           RegisterAlias, AliasesRegistered, PlanTarget, TargetsPlanned, Finish,
           vars, walkVars

LEMMA PreservedDistinct ==
  TypeOK /\ PayloadInv /\ AliasInv /\ PlanInv /\ ServedInv /\ LoaderApart
    => PreservedPathsDistinct
<1> SUFFICES ASSUME TypeOK, PayloadInv, AliasInv, PlanInv, ServedInv, LoaderApart,
                    Planned, policy = PreserveSourceTree, LexicalIsPhysical,
                    \A i \in DOMAIN manifest :
                      ShouldPreserveSourcePath(manifest[i].source),
                    \A i \in DOMAIN manifest :
                      manifest[i].source = exe => manifest[i].kind = "Executable",
                    InterpreterPath # NoPath => Opens(InterpreterPath)
             PROVE  PathsDistinct
  BY DEF PreservedPathsDistinct
<1>1. \A i \in DOMAIN manifest : manifest[i] \in Entry BY DEF TypeOK
<1>2. \A i \in DOMAIN manifest : manifest[i].source \in Path
                               /\ manifest[i].kind \in Kind
  BY <1>1 DEF Entry
<1>3. DOMAIN manifest = OfKind("Executable") \cup OfKind("SharedObject")
                          \cup OfKind("Interpreter") \cup OfKind("SymlinkAlias")
  BY <1>2 DEF OfKind, Kind
<1>4. \A i \in DOMAIN manifest : manifest[i].bundled = manifest[i].source
  BY <1>2, <1>3, PreservedPath
     DEF PlanInv, EntriesInv, AliasEntryInv, ServedInv, EndsInv, OfKind
<1>5. \A i \in OfKind("SharedObject") :
        /\ Final(manifest[i].source)
        /\ manifest[i].source \notin InterpreterFile
  BY DEF PayloadInv, PlanInv, EntriesInv, MapsInv
<1>6. \A i \in OfKind("SymlinkAlias") :
        /\ IsLink(manifest[i].source)
        /\ Canonicalize(LinkTarget(manifest[i].source)) \notin InterpreterFile
  BY DEF PlanInv, EntriesInv, AliasEntryInv, KnownLink, LoaderApart
<1>7. \A i \in OfKind("Interpreter") :
        /\ i = Len(manifest) /\ manifest[i].source = InterpreterPath
        /\ InterpreterPath # NoPath /\ Opens(InterpreterPath)
        /\ InterpreterPath \in Path
        /\ Canonicalize(InterpreterPath) \in InterpreterFile
  BY InterpreterType DEF ServedInv, EndsInv, InterpreterFile, TypeOK
<1>8. \A i \in OfKind("Executable") : i = 1 /\ manifest[i].source = exe
  BY DEF ServedInv, EndsInv
<1>9. \A i \in OfKind("SharedObject"), j \in OfKind("SymlinkAlias") :
        manifest[i].source # manifest[j].source
  BY <1>5, <1>6 DEF Final
<1>10. \A i \in OfKind("SharedObject"), j \in OfKind("Interpreter") :
         manifest[i].source # manifest[j].source
  BY <1>5, <1>7, FinalOpens
<1>11. \A i \in OfKind("SymlinkAlias"), j \in OfKind("Interpreter") :
         manifest[i].source # manifest[j].source
  <2> SUFFICES ASSUME NEW i \in OfKind("SymlinkAlias"), NEW j \in OfKind("Interpreter"),
                      manifest[i].source = InterpreterPath
               PROVE  FALSE
    BY <1>7
  <2>1. /\ InterpreterPath \in Path /\ Opens(InterpreterPath)
        /\ IsLink(InterpreterPath)
    BY <1>6, <1>7
  <2>2. Canonicalize(LinkTarget(InterpreterPath)) = Canonicalize(InterpreterPath)
    BY <2>1, SymlinkFile DEF Canonicalize, TypeOK
  <2> QED BY <1>6, <1>7, <2>2
<1>12. \A i, j \in OfKind("SharedObject") :
         manifest[i].source = manifest[j].source => i = j
  BY DEF PayloadInv, OnePayloadPerFile
<1>13. \A i, j \in OfKind("SymlinkAlias") :
         manifest[i].bundled = manifest[j].bundled => i = j
  BY DEF AliasInv, AliasPathsDistinct
<1>14. \A i, j \in DOMAIN manifest :
         i \in OfKind("Executable") /\ manifest[i].source = manifest[j].source => i = j
  BY <1>8 DEF OfKind
<1> SUFFICES ASSUME NEW i \in DOMAIN manifest, NEW j \in DOMAIN manifest,
                    manifest[i].bundled = manifest[j].bundled
             PROVE  i = j
  BY DEF PathsDistinct
<1>15. manifest[i].source = manifest[j].source BY <1>4
<1> QED BY <1>3, <1>7, <1>9, <1>10, <1>11, <1>12, <1>13, <1>14, <1>15

(* Preserving source trees plans no path twice: payloads are no symlinks,  *)
(* aliases are, and neither leads to the interpreter's file.               *)
THEOREM PreservedPathsAreDistinct == Spec => []PreservedPathsDistinct
<1>1. Init => LoaderApart BY DEF Init, LoaderApart
<1> QED BY TypeCorrect, PayloadInit, PayloadStep, AliasInit, AliasStep,
           ClosureInvInit, ClosureInvStep, PlanInit, PlanStep, ServedInit,
           ServedStep, <1>1, LoaderStep, PreservedDistinct, PTL DEF Spec

=============================================================================
