---------------------------- MODULE Dynpax_proofs ----------------------------
(***************************************************************************)
(* Theorems about the program, for every host, every list of targets and   *)
(* every bound on runs, faults and upgrades.                               *)
(***************************************************************************)
EXTENDS Dynpax, DependencyWalk_proofs, FakeRoot_proofs

-----------------------------------------------------------------------------
(* What the plan of a target is made of: an alias has a target, a file to  *)
(* be rewritten is an ELF file of the host.                                *)

AliasTargets ==
  \A i \in DOMAIN manifest :
    manifest[i].kind = "SymlinkAlias" => manifest[i].target \in Path
ElfSources ==
  \A i \in DOMAIN manifest :
    manifest[i].kind \in {"Executable", "SharedObject"} =>
      Parses(manifest[i].source)
PlanFacts ==
  /\ phase = "open" => manifest = <<>>
  /\ AliasTargets /\ ElfSources

LEMMA SameManifestFacts ==
  ASSUME PlanFacts, UNCHANGED <<host, manifest>>, phase' # "open"
  PROVE  PlanFacts'
BY FixedHost DEF PlanFacts, AliasTargets, ElfSources

LEMMA AppendedFacts ==
  ASSUME TypeOK, PlanFacts, UNCHANGED host, phase' # "open",
         NEW e, manifest' = Append(manifest, e),
         e.kind = "SymlinkAlias" => e.target \in Path,
         e.kind \in {"Executable", "SharedObject"} => Parses(e.source)
  PROVE  PlanFacts'
BY AppendedEntry, FixedHost DEF PlanFacts, AliasTargets, ElfSources

LEMMA PlanFactsStep ==
  ASSUME TypeOK, PlanFacts, Next PROVE PlanFacts'
<1>0. UNCHANGED host BY InputsStay DEF inputs
<1>1. CASE Open
  <2> DEFINE e == MakeEntry("Executable", exe, exe.name,
                            BundlePathFor(policy, "Executable", exe, NoDir))
  <2>1. manifest' = <<e>> /\ Parses(exe) /\ phase' = "dequeue" BY <1>1 DEF Open
  <2>2. e.kind = "Executable" /\ e.source = exe BY DEF MakeEntry
  <2> HIDE DEF e
  <2>3. DOMAIN manifest' = {1} /\ manifest'[1] = e BY <2>1
  <2> QED BY <1>0, <2>1, <2>2, <2>3, FixedHost DEF PlanFacts, AliasTargets, ElfSources
<1>2. CASE OpenFails BY <1>0, <1>2, SameManifestFacts DEF OpenFails
<1>3. CASE Dequeue
  <2> DEFINE dep == Dependency(Head(todo).owner, Head(todo).name)
  <2>1. CASE NewPayload(dep)
    <3> DEFINE e == MakeEntry("SharedObject", dep.canonical, dep.name,
                              LibraryPath(dep.canonical))
    <3>1. manifest' = Append(manifest, e) /\ Parses(dep.canonical)
          /\ phase' = "aliases"
      BY <2>1 DEF NewPayload, PlanAliasesOf
    <3>2. e.kind = "SharedObject" /\ e.source = dep.canonical BY DEF MakeEntry
    <3> HIDE DEF e, dep
    <3> QED BY <1>0, <3>1, <3>2, AppendedFacts
  <2>2. CASE ~NewPayload(dep)
    <3>1. UNCHANGED manifest /\ phase' # "open"
      BY <1>3, <2>2 DEF Dequeue, ResolveFails, SkipInterpreter, SkipUnparseable,
                        SeenPayload, PlanAliasesOf
    <3> QED BY <1>0, <3>1, SameManifestFacts
  <2> QED BY <2>1, <2>2
<1>4. CASE RegisterAlias BY <1>0, <1>4, SameManifestFacts DEF RegisterAlias
<1>5. CASE AliasesRegistered
  BY <1>0, <1>5, SameManifestFacts DEF AliasesRegistered
<1>6. CASE PlanTarget
  <2> DEFINE alias == Head(pending)
             e == AliasEntry(alias, PlannedLinkTarget(alias.target))
  <2>1. alias \in PendingAlias BY <1>6, HeadTailProperties DEF PlanTarget, TypeOK
  <2>2. PlannedLinkTarget(alias.target) \in Path
    BY <2>1, PlannedTargetType DEF PendingAlias, TypeOK
  <2>3. manifest' = Append(manifest, e) /\ phase' # "open" BY <1>6 DEF PlanTarget
  <2>4. e.kind = "SymlinkAlias" /\ e.target = PlannedLinkTarget(alias.target)
    BY DEF AliasEntry
  <2> HIDE DEF e
  <2> QED BY <1>0, <2>2, <2>3, <2>4, AppendedFacts
<1>7. CASE TargetsPlanned BY <1>0, <1>7, SameManifestFacts DEF TargetsPlanned
<1>8. CASE Finish
  <2> DEFINE e == MakeEntry("Interpreter", InterpreterPath, InterpreterPath.name,
                    BundlePathFor(policy, "Interpreter", InterpreterPath, NoDir))
  <2>1. phase' # "open" /\ (manifest' = manifest \/ manifest' = Append(manifest, e))
    BY <1>8 DEF Finish
  <2>2. e.kind = "Interpreter" BY DEF MakeEntry
  <2> HIDE DEF e
  <2> QED BY <1>0, <2>1, <2>2, SameManifestFacts, AppendedFacts
<1> QED BY <1>1, <1>2, <1>3, <1>4, <1>5, <1>6, <1>7, <1>8 DEF Next

-----------------------------------------------------------------------------
(* The texts and files that are written.                                   *)

(* How the list of directories grows along the manifest.                    *)
Grown(m, n, d) ==
  IF m[n].kind = "SharedObject" THEN AppendUnique(d, m[n].bundled.dir) ELSE d

LEMMA DirectoriesGrow ==
  ASSUME NEW m \in Seq(Entry), NEW p \in Policy
  PROVE  \E f \in [0..Len(m) -> Seq(Dir)] :
           /\ f[0] = <<>>
           /\ \A n \in 1..Len(m) : f[n] = Grown(m, n, f[n - 1])
           /\ BundledLibraryDirectories(m, p)
                = IF p = FlatLib64 \/ f[Len(m)] = <<>> THEN <<"/lib64">> ELSE f[Len(m)]
<1> DEFINE N == Len(m)
           R == Seq(Dir)
           grown(n, d) == Grown(m, n, d)
           step == [n \in Nat |-> [d \in R |-> IF n \in 1..N THEN grown(n, d) ELSE d]]
           build(f) == [n \in 0..N |-> IF n = 0 THEN <<>> ELSE grown(n, f[n - 1])]
           found == CHOOSE f : f = build(f)
<1>1. N \in Nat /\ <<>> \in R BY EmptySeq, LenProperties
<1>2. ASSUME NEW n \in 1..N, NEW d \in R PROVE grown(n, d) \in R
  <2>1. m[n] \in Entry BY ElementOfSeq
  <2>2. m[n].bundled.dir \in Dir BY <2>1 DEF Entry, Path
  <2>3. Append(d, m[n].bundled.dir) \in R BY <2>2, AppendProperties
  <2> QED BY <2>3 DEF AppendUnique, Grown
<1>3. step \in [Nat -> [R -> R]]
  <2> HIDE DEF grown, R, N
  <2> QED BY <1>2
<1>4. PICK f \in [0..N -> R] : Follows(f, N, <<>>, step)
  <2> HIDE DEF step, R, N
  <2> QED BY <1>1, <1>3, Recursion
<1>5. f = build(f)
  <2>1. ASSUME NEW n \in 0..N
        PROVE  f[n] = IF n = 0 THEN <<>> ELSE grown(n, f[n - 1])
    <3>1. f[n] = IF n = 0 THEN <<>> ELSE step[n][f[n - 1]] BY <1>4 DEF Follows
    <3>2. ASSUME n # 0 PROVE step[n][f[n - 1]] = grown(n, f[n - 1])
      <4>1. n \in 1..N /\ n \in Nat /\ n - 1 \in 0..N BY <1>1, <3>2
      <4>2. f[n - 1] \in R BY <1>4, <4>1
      <4> HIDE DEF grown, R, N
      <4> QED BY <4>1, <4>2
    <3> HIDE DEF step, grown
    <3> QED BY <3>1, <3>2
  <2> HIDE DEF grown, R, N
  <2> QED BY <1>4, <2>1
<1>6. found = build(found)
  <2> HIDE DEF build
  <2> QED BY <1>5
<1>7. \A n \in 0..N : found[n] = IF n = 0 THEN <<>> ELSE grown(n, found[n - 1])
  <2> HIDE DEF grown, N
  <2>1. \A n \in 0..N : build(found)[n] = IF n = 0 THEN <<>> ELSE grown(n, found[n - 1])
    OBVIOUS
  <2> HIDE DEF build, found
  <2> QED BY <1>6, <2>1
<1>8. \A n \in 0..N : found[n] \in R
  <2> DEFINE S == {n \in Nat : n \in 0..N => found[n] \in R}
  <2>1. 0 \in S
    <3>1. found[0] = <<>>
      <4> HIDE DEF found, grown
      <4> QED BY <1>1, <1>7
    <3> HIDE DEF found
    <3> QED BY <1>1, <3>1
  <2>2. \A n \in Nat : n \in S => n + 1 \in S
    <3> SUFFICES ASSUME NEW n \in Nat, n \in S, n + 1 \in 0..N
                 PROVE  found[n + 1] \in R
      OBVIOUS
    <3>1. n + 1 \in 1..N /\ n \in 0..N /\ (n + 1) - 1 = n /\ n + 1 # 0 BY <1>1
    <3>2. found[n + 1] = grown(n + 1, found[n])
      <4> HIDE DEF grown, N, found
      <4>1. found[n + 1] = grown(n + 1, found[(n + 1) - 1]) BY <1>7, <3>1
      <4> QED BY <3>1, <4>1
    <3>3. found[n] \in R BY <3>1
    <3> HIDE DEF grown, found, R, N
    <3> QED BY <1>2, <3>1, <3>2, <3>3
  <2> HIDE DEF S
  <2>3. Nat \subseteq S BY <2>1, <2>2, NatSet
  <2> QED BY <1>1, <2>3 DEF S
<1> DEFINE g == [n \in 0..N |-> found[n]]
<1>9. g \in [0..N -> R] /\ \A n \in 0..N : g[n] = found[n]
  <2> HIDE DEF found, R, N
  <2> QED BY <1>8
<1>10. BundledLibraryDirectories(m, p)
         = IF p = FlatLib64 \/ found[N] = <<>> THEN <<"/lib64">> ELSE found[N]
  BY DEF BundledLibraryDirectories, Grown
<1>11. /\ N \in 0..N /\ 0 \in 0..N
       /\ \A n \in 1..N : n \in 0..N /\ n - 1 \in 0..N /\ n # 0
  <2> HIDE DEF N
  <2> QED BY <1>1
<1>12. /\ g[0] = <<>>
       /\ \A n \in 1..N : g[n] = Grown(m, n, g[n - 1])
  <2> HIDE DEF found, g, N
  <2> QED BY <1>7, <1>9, <1>11
<1> HIDE DEF found, g
<1> QED BY <1>9, <1>10, <1>11, <1>12

LEMMA BundledDirectories ==
  ASSUME NEW m \in Seq(Entry), NEW p \in Policy
  PROVE  BundledLibraryDirectories(m, p) \in Seq(Dir)
<1> DEFINE R == Seq(Dir)
<1>1. Len(m) \in Nat BY LenProperties
<1>2. <<"/lib64">> \in R BY LayoutAssumption
<1>3. PICK f \in [0..Len(m) -> R] :
        BundledLibraryDirectories(m, p)
          = IF p = FlatLib64 \/ f[Len(m)] = <<>> THEN <<"/lib64">> ELSE f[Len(m)]
  BY DirectoriesGrow
<1>4. f[Len(m)] \in R BY <1>1
<1> HIDE DEF R
<1> QED BY <1>2, <1>3, <1>4 DEF R

(* Under the other layout every directory with a bundled library is listed. *)
LEMMA DirectoryIsListed ==
  ASSUME NEW m \in Seq(Entry), NEW j \in DOMAIN m, m[j].kind = "SharedObject"
  PROVE  m[j].bundled.dir
           \in ToSet(BundledLibraryDirectories(m, PreserveSourceTree))
<1> DEFINE N == Len(m)
           d == m[j].bundled.dir
<1>1. N \in Nat /\ DOMAIN m = 1..N BY LenProperties
<1>2. PICK f \in [0..N -> Seq(Dir)] :
        /\ f[0] = <<>>
        /\ \A n \in 1..N : f[n] = Grown(m, n, f[n - 1])
        /\ BundledLibraryDirectories(m, PreserveSourceTree)
             = IF f[N] = <<>> THEN <<"/lib64">> ELSE f[N]
  <2>1. PreserveSourceTree \in Policy /\ PreserveSourceTree # FlatLib64
    BY DEF Policy, PreserveSourceTree, FlatLib64
  <2> QED BY <2>1, DirectoriesGrow
<1>3. ASSUME NEW s \in Seq(Dir), NEW a \in Dir
      PROVE  /\ a \in ToSet(AppendUnique(s, a)) /\ ToSet(s) \subseteq ToSet(AppendUnique(s, a))
  <2>1. CASE Contains(s, a) BY <2>1 DEF AppendUnique, Contains, ToSet
  <2>2. CASE ~Contains(s, a)
    <3>1. /\ Append(s, a) \in Seq(Dir) /\ Len(Append(s, a)) = Len(s) + 1
          /\ \A i \in 1..Len(s) : Append(s, a)[i] = s[i]
          /\ Append(s, a)[Len(s) + 1] = a
      BY AppendProperties
    <3>2. /\ Len(s) \in Nat /\ DOMAIN s = 1..Len(s)
          /\ DOMAIN Append(s, a) = 1..(Len(s) + 1)
      BY <3>1, LenProperties
    <3>3. Len(s) + 1 \in 1..(Len(s) + 1) /\ 1..Len(s) \subseteq 1..(Len(s) + 1)
      BY <3>2
    <3>4. AppendUnique(s, a) = Append(s, a) BY <2>2 DEF AppendUnique
    <3> QED BY <3>1, <3>2, <3>3, <3>4 DEF ToSet
  <2> QED BY <2>1, <2>2
<1>4. ASSUME NEW n \in 1..N PROVE m[n] \in Entry /\ m[n].bundled.dir \in Dir
  <2>1. m[n] \in Entry BY <1>1, ElementOfSeq
  <2> QED BY <2>1 DEF Entry, Path
<1> DEFINE S == {n \in Nat : n \in j..N => d \in ToSet(f[n])}
<1>5. 0 \in S BY <1>1
<1>6. ASSUME NEW n \in Nat, n \in S PROVE n + 1 \in S
  <2> SUFFICES ASSUME n + 1 \in j..N PROVE d \in ToSet(f[n + 1])
    OBVIOUS
  <2>1. n + 1 \in 1..N /\ n \in 0..N /\ (n + 1) - 1 = n BY <1>1
  <2>2. f[n + 1] = Grown(m, n + 1, f[n]) /\ f[n] \in Seq(Dir)
    BY <1>2, <2>1
  <2>3. CASE n + 1 = j
    <3>1. f[n + 1] = AppendUnique(f[n], d) BY <2>2, <2>3 DEF Grown
    <3> QED BY <1>3, <1>4, <2>1, <2>2, <2>3, <3>1
  <2>4. CASE n + 1 # j
    <3>1. d \in ToSet(f[n]) BY <1>1, <1>6, <2>1, <2>4
    <3> QED BY <1>3, <1>4, <2>1, <2>2, <3>1 DEF Grown
  <2> QED BY <2>3, <2>4
<1> HIDE DEF S
<1>7. Nat \subseteq S BY <1>5, <1>6, NatSet
<1>8. d \in ToSet(f[N]) BY <1>1, <1>7 DEF S
<1>9. f[N] # <<>> BY <1>8 DEF ToSet
<1> QED BY <1>2, <1>8, <1>9

LEMMA RunpathTextsType ==
  ASSUME TypeOK, NEW e \in Entry
  PROVE  RunpathTexts(e) \in Seq(DirRef \cup [origin : RelPath])
<1> DEFINE T == DirRef \cup [origin : RelPath]
           dirs == BundleRunpath(manifest, e, policy)
           texts == [i \in DOMAIN dirs |-> Origin(e.bundled, dirs[i])]
<1>1. CASE policy = FlatLib64
  <2>1. <<"..", "lib64">> \in RelPath
    <3>1. "lib64" \in Component BY DEF Component
    <3> QED BY <3>1 DEF RelPath
  <2>2. FlatOrigin \in T BY <2>1 DEF FlatOrigin
  <2> HIDE DEF T
  <2>3. <<FlatOrigin>> \in Seq(T) BY <2>2
  <2> QED BY <1>1, <2>3 DEF RunpathTexts, T
<1>2. CASE policy # FlatLib64
  <2>1. BundledLibraryDirectories(manifest, policy) \in Seq(Dir)
    BY BundledDirectories DEF TypeOK
  <2>2. dirs \in Seq(Dir) BY <2>1, EmptySeq DEF BundleRunpath
  <2> HIDE DEF dirs
  <2>3. DOMAIN dirs = 1..Len(dirs) /\ Len(dirs) \in Nat BY <2>2, LenProperties
  <2>4. ASSUME NEW i \in 1..Len(dirs) PROVE Origin(e.bundled, dirs[i]) \in T
    <3>1. dirs[i] \in Dir BY <2>2, ElementOfSeq
    <3>2. e.bundled.dir \in Dir BY DEF Entry, Path
    <3>3. Relative(Components[dirs[i]], Components[e.bundled.dir]) \in RelPath
      BY <3>1, <3>2, LocationOfType, RelativeType
    <3> QED BY <3>3 DEF Origin
  <2> HIDE DEF T
  <2>5. texts \in [1..Len(dirs) -> T] BY <2>3, <2>4
  <2>6. texts \in Seq(T) BY <2>3, <2>5, SeqDef
  <2> QED BY <1>2, <2>6 DEF RunpathTexts, T, dirs
<1> QED BY <1>1, <1>2

LEMMA CopyType ==
  ASSUME HostType, NEW p \in Path, Opens(p) PROVE CopyOf(p) \in BundleFile
<1>1. Destination(p) \in Path BY DEF Opens, HostType, RealPath
<1>2. ASSUME Parses(p) PROVE Elf(p) \in ElfFile BY <1>2, ParsedElf
<1>3. CASE Parses(p)
  <2>1. /\ Elf(p).runpath \in Seq(DirRef) /\ Elf(p).rpath \in Seq(DirRef)
        /\ Elf(p).interp \in Path \cup {NoPath}
    BY <1>2, <1>3 DEF ElfFile
  <2>2. /\ Elf(p).runpath \in Seq(DirRef \cup [origin : RelPath])
        /\ Elf(p).rpath \in Seq(DirRef \cup [text : {""}])
    BY <2>1, SeqMonotonic
  <2> QED BY <1>1, <1>3, <2>1, <2>2 DEF CopyOf, BundleFile
<1>4. CASE ~Parses(p)
  <2>1. /\ <<>> \in Seq(DirRef \cup [origin : RelPath])
        /\ <<>> \in Seq(DirRef \cup [text : {""}])
    BY EmptySeq
  <2> QED BY <1>1, <1>4, <2>1 DEF CopyOf, BundleFile
<1> QED BY <1>3, <1>4

LEMMA TruncatedType ==
  ASSUME NEW p \in Path PROVE Truncated(p) \in BundleFile
<1>1. /\ <<>> \in Seq(DirRef \cup [origin : RelPath])
      /\ <<>> \in Seq(DirRef \cup [text : {""}])
  BY EmptySeq
<1> QED BY <1>1 DEF Truncated, BundleFile

LEMMA CutOffType ==
  ASSUME NEW file \in BundleFile, NEW cut \in CutOff(file)
  PROVE  cut \in BundleFile /\ cut.source = file.source
<1>1. file.source \in Path BY DEF BundleFile
<1>2. CASE cut = Truncated(file.source)
  BY <1>1, <1>2, TruncatedType DEF Truncated
<1>3. ASSUME NEW texts \in {<<>>, file.runpath}, NEW path \in {NoPath, file.interp},
             cut = [file EXCEPT !.whole = FALSE, !.runpath = texts, !.interp = path]
      PROVE  cut \in BundleFile /\ cut.source = file.source
  <2>1. texts \in Seq(DirRef \cup [origin : RelPath]) BY EmptySeq DEF BundleFile
  <2>2. path \in Path \cup {NoPath} BY DEF BundleFile
  <2> QED BY <1>3, <2>1, <2>2 DEF BundleFile
<1> QED BY <1>2, <1>3 DEF CutOff

LEMMA RewriteType ==
  ASSUME NEW file \in BundleFile, NEW texts \in Seq(DirRef \cup [origin : RelPath])
  PROVE  /\ SetRunpath(SetRpath(file), texts) \in BundleFile
         /\ SetRunpath(SetRpath(file), texts).source = file.source
         /\ SetRunpath(SetRpath(file), texts).whole = file.whole
         /\ \A p \in Path : /\ SetInterpreter(file, p) \in BundleFile
                            /\ SetInterpreter(file, p).source = file.source
                            /\ SetInterpreter(file, p).whole = file.whole
<1>1. <<>> \in Seq(DirRef \cup [text : {""}]) BY EmptySeq
<1> QED BY <1>1 DEF SetRunpath, SetRpath, SetInterpreter, BundleFile

-----------------------------------------------------------------------------
(* The state invariant: the types, and where the position stands and what  *)
(* the manifest is made of, which the type of the root rests on.           *)

DynpaxInv ==
  /\ DynpaxTypeOK
  /\ stage = "plan" => next = 1
  /\ phase = "open" => manifest = <<>>
  /\ AliasTargets
  /\ ~Ended => ElfSources

LEMMA EntryFacts ==
  ASSUME DynpaxInv, More
  PROVE  /\ next \in DOMAIN manifest /\ next \in Nat /\ Len(manifest) \in Nat
         /\ entry \in Entry /\ entry = manifest[next]
         /\ entry.source \in Path /\ entry.bundled \in Path
         /\ entry.bundled.dir \in Dir
         /\ Components[entry.bundled.dir] \in Location
         /\ entry.kind \in Kind
         /\ entry.kind = "SymlinkAlias" => entry.target \in Path
         /\ entry.kind \in {"Executable", "SharedObject"} /\ ~Ended =>
              Parses(entry.source) /\ Opens(entry.source)
<1>1. manifest \in Seq(Entry) /\ next \in 1..(Len(manifest) + 1)
  BY DEF DynpaxInv, DynpaxTypeOK, TypeOK
<1>2. /\ next \in 1..Len(manifest) /\ next \in Nat /\ Len(manifest) \in Nat
      /\ DOMAIN manifest = 1..Len(manifest)
  BY <1>1, LenProperties DEF More
<1>3. entry \in Entry BY <1>1, <1>2, ElementOfSeq DEF entry
<1>4. /\ entry.source \in Path /\ entry.bundled \in Path /\ entry.kind \in Kind
  BY <1>3 DEF Entry
<1>5. entry.bundled.dir \in Dir BY <1>4 DEF Path
<1>6. Parses(entry.source) => Opens(entry.source) BY DEF Parses, IsElf
<1> QED BY <1>2, <1>3, <1>4, <1>5, <1>6, LocationOfType
    DEF entry, DynpaxInv, AliasTargets, ElfSources

(* What an operation works on and leaves, torn or whole.                   *)
LEMMA PreparedTree ==
  ASSUME DynpaxInv, More, NEW t \in Prepared PROVE Tree(t)
<1>1. Tree(root) /\ policy \in Policy
  BY DEF DynpaxInv, DynpaxTypeOK, RootType, TypeOK
<1>2. Tree(Bootstrap(root, policy)) BY <1>1, BootstrapTree
<1>3. t = MakeDirectories(Bootstrap(root, policy), Components[entry.bundled.dir])
  BY DEF Prepared
<1> QED BY <1>2, <1>3, EntryFacts, MakeTree

-----------------------------------------------------------------------------
(* One lemma per kind of step.                                             *)

LEMMA WalkKept ==
  ASSUME DynpaxInv, UNCHANGED vars
  PROVE  /\ TypeOK'
         /\ phase' = "open" => manifest' = <<>>
         /\ AliasTargets'
         /\ ElfSources => ElfSources'
<1>1. TypeOK' BY NextType DEF DynpaxInv, DynpaxTypeOK
<1>2. UNCHANGED <<host, manifest, phase>> BY DEF vars, inputs, walkVars
<1> QED BY <1>1, <1>2, FixedHost DEF DynpaxInv, AliasTargets, ElfSources

(* A step that leaves the walk and what main keeps alone.                  *)
LEMMA KeepsDynpaxInv ==
  ASSUME DynpaxInv, UNCHANGED <<vars, programVars, runs>>, Tree(root)',
         stage' \in {"plan", "materialize", "rewrite", "verify",
                     "success", "error", "killed"},
         stage' = "plan" => next' = 1,
         Ended => Ended',
         next' \in 1..(Len(manifest) + 1),
         interpreterBundlePath' \in Path \cup {NoPath},
         disturbed' \subseteq 1..runs, lost' \subseteq Endpoint
  PROVE  DynpaxInv'
<1>1. UNCHANGED manifest BY DEF vars, walkVars
<1> QED BY <1>1, WalkKept
    DEF DynpaxInv, DynpaxTypeOK, RootType, programVars, Endpoint

LEMMA MaterializedTree ==
  ASSUME DynpaxInv, Materializing, NEW t \in Prepared, Makeable(t)
  PROVE  /\ Copied => Tree(CopyTo(t, entry.source, entry.bundled))
         /\ Tree(TouchTo(t, entry.source, entry.bundled))
         /\ entry.kind = "SymlinkAlias" =>
              Tree(SymlinkTo(t, entry.bundled, entry.target))
<1>1. More /\ Tree(t) BY PreparedTree DEF Materializing
<1>2. /\ entry.bundled \in Path /\ entry.source \in Path
      /\ entry.kind = "SymlinkAlias" => entry.target \in Path
  BY <1>1, EntryFacts
<1>3. HostType BY DEF DynpaxInv, DynpaxTypeOK, TypeOK
<1>4. Copied => Opens(entry.source) BY DEF Makeable
<1> QED BY <1>1, <1>2, <1>3, <1>4, WriteTree, CopyType, TruncatedType, LinkTree
    DEF CopyTo, TouchTo

LEMMA RewrittenFiles ==
  ASSUME DynpaxInv, Rewriting
  PROVE  /\ entry.kind = "Executable" =>
              /\ RewrittenExecutable \in BundleFile
              /\ RewrittenExecutable.source = Destination(entry.source)
              /\ RewrittenExecutable.whole
         /\ entry.kind = "SharedObject" /\ Reopens(entry.bundled) =>
              /\ RewrittenLibrary \in BundleFile
              /\ RewrittenLibrary.source = root[End(root, entry.bundled)].source
              /\ RewrittenLibrary.whole = root[End(root, entry.bundled)].whole
<1>1. /\ More /\ ~Ended /\ Tree(root) /\ HostType /\ TypeOK
      /\ interpreterBundlePath \in Path \cup {NoPath}
  BY DEF DynpaxInv, DynpaxTypeOK, TypeOK, RootType, Rewriting, Ended
<1>2. entry \in Entry /\ entry.source \in Path /\ entry.bundled \in Path
  BY <1>1, EntryFacts
<1>3. RunpathTexts(entry) \in Seq(DirRef \cup [origin : RelPath])
  BY <1>1, <1>2, RunpathTextsType
<1>4. ASSUME entry.kind = "Executable"
      PROVE  /\ RewrittenExecutable \in BundleFile
             /\ RewrittenExecutable.source = Destination(entry.source)
             /\ RewrittenExecutable.whole
  <2> DEFINE file == CopyOf(entry.source)
             with == IF interpreterBundlePath # NoPath /\ entry.hasInterp
                     THEN SetInterpreter(file, interpreterBundlePath) ELSE file
  <2>1. file \in BundleFile /\ file.source = Destination(entry.source) /\ file.whole
    BY <1>1, <1>2, <1>4, EntryFacts, CopyType DEF CopyOf
  <2> HIDE DEF file
  <2>2. with \in BundleFile /\ with.source = file.source /\ with.whole = file.whole
    <3>1. interpreterBundlePath # NoPath => interpreterBundlePath \in Path BY <1>1
    <3> QED BY <1>3, <2>1, <3>1, RewriteType
  <2>3. RewrittenExecutable = SetRunpath(SetRpath(with), RunpathTexts(entry))
    BY DEF RewrittenExecutable, file
  <2> HIDE DEF with
  <2> QED BY <1>3, <2>1, <2>2, <2>3, RewriteType
<1>5. ASSUME Reopens(entry.bundled)
      PROVE  /\ RewrittenLibrary \in BundleFile
             /\ RewrittenLibrary.source = root[End(root, entry.bundled)].source
             /\ RewrittenLibrary.whole = root[End(root, entry.bundled)].whole
  <2> DEFINE l == End(root, entry.bundled)
  <2>1. l \in DOMAIN root /\ root[l].kind = "file"
    BY <1>5 DEF Reopens, Bundled
  <2>2. root[l] \in BundleFile BY <1>1, <2>1, NodeType
  <2> QED BY <1>3, <2>2, RewriteType DEF RewrittenLibrary
<1> QED BY <1>4, <1>5

LEMMA RewrittenTree ==
  ASSUME DynpaxInv, Rewriting
  PROVE  /\ entry.kind = "Executable" =>
              Tree(WriteAt(root, entry.bundled, RewrittenExecutable))
         /\ entry.kind = "SharedObject" /\ Reopens(entry.bundled) =>
              Tree(WriteAt(root, entry.bundled, RewrittenLibrary))
<1>1. More /\ Tree(root) BY DEF DynpaxInv, DynpaxTypeOK, RootType, Rewriting
<1> QED BY <1>1, EntryFacts, RewrittenFiles, WriteTree

(* What is cut short: a link that is only removed, or a file.              *)
TornLink(t) ==
  /\ Materializing /\ entry.kind = "SymlinkAlias"
  /\ \E u \in Prepared : t = Removed(u, entry.bundled)
TornFile(t) ==
  /\ More /\ entry.kind # "SymlinkAlias"
  /\ \E file \in BundleFile : \E u \in Prepared \cup {root} :
       /\ t = WriteAt(u, entry.bundled, file)
       /\ IF stage = "materialize" THEN u \in Prepared
          ELSE /\ stage = "rewrite" /\ u = root
               /\ Rewrites /\ file.source = NewFile.source

LEMMA TornIs ==
  ASSUME DynpaxInv, NEW t \in Torn
  PROVE  \/ t = root
         \/ Materializing /\ t \in BootstrapCut(root, policy) \cup Prepared
         \/ TornLink(t) \/ TornFile(t)
<1>1. HostType BY DEF DynpaxInv, DynpaxTypeOK, TypeOK
<1>2. CASE Materializing
  <2>1. t \in TornMaterialize /\ More /\ stage = "materialize"
    BY <1>2 DEF Torn, Materializing
  <2>2. CASE t \in BootstrapCut(root, policy) \cup Prepared BY <1>2, <2>2
  <2>3. ASSUME NEW u \in Prepared, t \in TornEntry(u)
        PROVE  TornLink(t) \/ TornFile(t)
    <3>1. entry.source \in Path /\ entry.kind \in Kind BY <2>1, EntryFacts
    <3>2. CASE entry.kind = "SymlinkAlias"
      <4>1. t = Removed(u, entry.bundled) BY <2>3, <3>2 DEF TornEntry, Copied
      <4> QED BY <1>2, <3>2, <4>1 DEF TornLink
    <3>3. CASE entry.kind = "Executable"
      <4>1. t = TouchTo(u, entry.source, entry.bundled)
        BY <2>3, <3>3 DEF TornEntry, Copied
      <4>2. Truncated(entry.source) \in BundleFile BY <3>1, TruncatedType
      <4>3. t = WriteAt(u, entry.bundled, Truncated(entry.source))
        BY <4>1 DEF TouchTo
      <4> QED BY <2>1, <2>3, <3>3, <4>2, <4>3 DEF TornFile
    <3>4. CASE Copied /\ Opens(entry.source)
      <4>1. PICK file \in CutOff(CopyOf(entry.source)) : t = WriteAt(u, entry.bundled, file)
        BY <2>3, <3>4 DEF TornEntry, Copied
      <4>2. file \in BundleFile BY <1>1, <3>1, <3>4, <4>1, CopyType, CutOffType
      <4> QED BY <2>1, <2>3, <3>4, <4>1, <4>2 DEF TornFile, Copied
    <3>5. CASE /\ entry.kind \notin {"SymlinkAlias", "Executable"}
               /\ ~(Copied /\ Opens(entry.source))
      <4>1. TornEntry(u) = {} BY <3>5 DEF TornEntry
      <4> QED BY <2>3, <4>1
    <3> QED BY <3>2, <3>3, <3>4, <3>5
  <2> QED BY <2>1, <2>2, <2>3 DEF TornMaterialize
<1>3. CASE ~Materializing /\ Rewriting
  <2>1. t \in TornRewrite /\ More /\ stage = "rewrite" BY <1>3 DEF Torn, Rewriting
  <2>2. CASE t = root BY <2>2
  <2>3. CASE Rewrites /\ t # root
    <3>1. PICK file \in CutOff(NewFile) : t = WriteAt(root, entry.bundled, file)
      BY <2>1, <2>3 DEF TornRewrite
    <3>2. NewFile \in BundleFile
      BY <1>3, <2>3, RewrittenFiles DEF Rewrites, Rewritable, NewFile
    <3>3. file \in BundleFile /\ file.source = NewFile.source BY <3>1, <3>2, CutOffType
    <3> QED BY <2>1, <2>3, <3>1, <3>3 DEF TornFile, Rewrites, Rewritable
  <2>4. CASE ~Rewrites BY <2>1, <2>4 DEF TornRewrite
  <2> QED BY <2>2, <2>3, <2>4
<1>4. CASE ~Materializing /\ ~Rewriting BY <1>4 DEF Torn
<1> QED BY <1>2, <1>3, <1>4

LEMMA TornTree ==
  ASSUME DynpaxInv, NEW t \in Torn PROVE Tree(t)
<1>1. Tree(root) /\ policy \in Policy
  BY DEF DynpaxInv, DynpaxTypeOK, RootType, TypeOK
<1>2. CASE Materializing /\ t \in BootstrapCut(root, policy) \cup Prepared
  BY <1>1, <1>2, BootstrapTree, PreparedTree DEF Materializing
<1>3. CASE TornLink(t)
  <2>1. PICK u \in Prepared : t = Removed(u, entry.bundled) BY <1>3 DEF TornLink
  <2>2. More BY <1>3 DEF TornLink, Materializing
  <2> QED BY <2>1, <2>2, PreparedTree, EntryFacts, LinkTree
<1>4. CASE TornFile(t)
  <2>1. PICK file \in BundleFile : \E u \in Prepared \cup {root} :
          t = WriteAt(u, entry.bundled, file)
    BY <1>4 DEF TornFile
  <2>2. PICK u \in Prepared \cup {root} : t = WriteAt(u, entry.bundled, file)
    BY <2>1
  <2>3. More BY <1>4 DEF TornFile
  <2>4. Tree(u) BY <1>1, <2>3, PreparedTree
  <2> QED BY <2>2, <2>3, <2>4, EntryFacts, WriteTree
<1> QED BY <1>1, <1>2, <1>3, <1>4, TornIs

LEMMA BuildInv ==
  ASSUME DynpaxInv, Build, UNCHANGED programVars
  PROVE  DynpaxInv'
<1> DEFINE N == Len(manifest)
           Stages == {"plan", "materialize", "rewrite", "verify",
                      "success", "error", "killed"}
<1>1. /\ Tree(root) /\ stage \in Stages /\ next \in 1..(N + 1) /\ N \in Nat
      /\ interpreterBundlePath \in Path \cup {NoPath} /\ disturbed \subseteq 1..runs
      /\ runs \in Nat /\ 1 <= runs /\ lost \subseteq Endpoint
  <2>1. manifest \in Seq(Entry) BY DEF DynpaxInv, DynpaxTypeOK, TypeOK
  <2> QED BY <2>1, BuilderAssumption DEF DynpaxInv, DynpaxTypeOK, RootType, Endpoint
<1>2. More => next + 1 \in 1..(N + 1) BY <1>1 DEF More
<1>3. ASSUME CopyEntry PROVE DynpaxInv'
  <2>1. PICK t \in Prepared :
          Makeable(t) /\ root' = CopyTo(t, entry.source, entry.bundled)
    BY <1>3 DEF CopyEntry
  <2>2. /\ Materializing /\ More /\ Copied /\ stage = "materialize" /\ ~Ended
        /\ UNCHANGED <<vars, stage, bounds>> /\ next' = next + 1
        /\ interpreterBundlePath' =
             IF entry.kind = "Interpreter" THEN entry.bundled ELSE interpreterBundlePath
    BY <1>3 DEF CopyEntry, Materializing, vars, Ended
  <2>3. Tree(root') BY <2>1, <2>2, MaterializedTree
  <2>4. interpreterBundlePath' \in Path \cup {NoPath} BY <1>1, <2>2, EntryFacts
  <2> QED BY <1>1, <1>2, <2>2, <2>3, <2>4, KeepsDynpaxInv DEF bounds, Ended
<1>4. ASSUME TouchExecutable PROVE DynpaxInv'
  <2>1. PICK t \in Prepared :
          Makeable(t) /\ root' = TouchTo(t, entry.source, entry.bundled)
    BY <1>4 DEF TouchExecutable
  <2>2. /\ Materializing /\ More /\ stage = "materialize" /\ ~Ended
        /\ UNCHANGED <<vars, stage, bounds, interpreterBundlePath>> /\ next' = next + 1
    BY <1>4 DEF TouchExecutable, Materializing, vars, Ended
  <2>3. Tree(root') BY <2>1, <2>2, MaterializedTree
  <2> QED BY <1>1, <1>2, <2>2, <2>3, KeepsDynpaxInv DEF bounds, Ended
<1>5. ASSUME LinkAlias PROVE DynpaxInv'
  <2>1. PICK t \in Prepared :
          Makeable(t) /\ root' = SymlinkTo(t, entry.bundled, entry.target)
    BY <1>5 DEF LinkAlias
  <2>2. /\ Materializing /\ More /\ stage = "materialize" /\ ~Ended
        /\ entry.kind = "SymlinkAlias"
        /\ UNCHANGED <<vars, stage, bounds, interpreterBundlePath>> /\ next' = next + 1
    BY <1>5 DEF LinkAlias, Materializing, vars, Ended
  <2>3. Tree(root') BY <2>1, <2>2, MaterializedTree
  <2> QED BY <1>1, <1>2, <2>2, <2>3, KeepsDynpaxInv DEF bounds, Ended
<1>6. ASSUME MaterializeFails PROVE DynpaxInv'
  <2>1. /\ More /\ stage = "materialize" /\ ~Ended /\ stage' = "error" /\ root' \in Prepared
        /\ UNCHANGED <<vars, bounds, interpreterBundlePath, next>>
    BY <1>6 DEF MaterializeFails, Materializing, vars, Ended
  <2>2. Tree(root') BY <2>1, PreparedTree
  <2> QED BY <1>1, <2>1, <2>2, KeepsDynpaxInv DEF bounds, Ended
<1>7. ASSUME Materialized \/ Rewritten PROVE DynpaxInv'
  <2>1. /\ ~Ended /\ stage' \in {"rewrite", "verify"} /\ next' = 1
        /\ UNCHANGED <<vars, root, bounds, interpreterBundlePath>>
    BY <1>7 DEF Materialized, Rewritten, vars, Ended
  <2> QED BY <1>1, <2>1, KeepsDynpaxInv DEF bounds, Ended
<1>8. ASSUME SkipRewrite PROVE DynpaxInv'
  <2>1. /\ ~Ended /\ stage = "rewrite" /\ next' = next + 1 /\ More
        /\ UNCHANGED <<vars, root, bounds, stage, interpreterBundlePath>>
    BY <1>8 DEF SkipRewrite, Rewriting, vars, Ended
  <2> QED BY <1>1, <1>2, <2>1, KeepsDynpaxInv DEF bounds, Ended
<1>9. ASSUME RewriteExecutable \/ RewriteLibrary PROVE DynpaxInv'
  <2>1. /\ ~Ended /\ stage = "rewrite" /\ next' = next + 1 /\ More
        /\ UNCHANGED <<vars, bounds, stage, interpreterBundlePath>>
    BY <1>9 DEF RewriteExecutable, RewriteLibrary, Rewriting, vars, Ended
  <2>2. Tree(root')
    BY <1>9, RewrittenTree DEF RewriteExecutable, RewriteLibrary
  <2> QED BY <1>1, <1>2, <2>1, <2>2, KeepsDynpaxInv DEF bounds, Ended
<1>10. ASSUME ReopenFails PROVE DynpaxInv'
  <2>1. /\ ~Ended /\ stage' = "error"
        /\ UNCHANGED <<vars, root, bounds, next, interpreterBundlePath>>
    BY <1>10 DEF ReopenFails, Rewriting, vars, Ended
  <2> QED BY <1>1, <2>1, KeepsDynpaxInv DEF bounds, Ended
<1>11. ASSUME MaterializeFault \/ RewriteFault PROVE DynpaxInv'
  <2>1. /\ ~Ended /\ stage' = "error" /\ root' \in Torn
        /\ disturbed' = disturbed \cup {runs}
        /\ UNCHANGED <<vars, runs, next, interpreterBundlePath, lost>>
    BY <1>11 DEF MaterializeFault, RewriteFault, Materializing, Rewriting, Disturb,
                 vars, Ended
  <2>2. Tree(root') BY <2>1, TornTree
  <2> QED BY <1>1, <2>1, <2>2, KeepsDynpaxInv DEF Ended
<1>12. ASSUME RewriteLost PROVE DynpaxInv'
  <2>1. /\ ~Ended /\ stage = "rewrite" /\ root' \in Torn /\ More /\ next' = next + 1
        /\ disturbed' = disturbed \cup {runs}
        /\ lost' = lost \cup {End(root, entry.bundled)}
        /\ UNCHANGED <<vars, stage, runs, interpreterBundlePath>>
    BY <1>12 DEF RewriteLost, Rewriting, Disturb, vars, Ended
  <2>2. Tree(root') BY <2>1, TornTree
  <2>3. End(root, entry.bundled) \in Endpoint BY <1>1, <2>1, EntryFacts, EndType
  <2>4. lost' \subseteq Endpoint BY <1>1, <2>1, <2>3
  <2> QED BY <1>1, <1>2, <2>1, <2>2, <2>4, KeepsDynpaxInv DEF Ended
<1> QED BY <1>3, <1>4, <1>5, <1>6, <1>7, <1>8, <1>9, <1>10, <1>11, <1>12 DEF Build

(* A target is opened anew, after populate() or with the records there are.*)
LEMMA TakeInv ==
  ASSUME DynpaxInv, NEW t \in Path, Take(t), CachedType', policy' \in Policy
  PROVE  /\ TypeOK' /\ next' = 1 /\ Len(manifest') = 0
         /\ interpreterBundlePath' = NoPath
         /\ manifest' = <<>> /\ AliasTargets' /\ ElfSources'
<1>1. HostType' /\ includeInterpreter' \in BOOLEAN
  BY DEF DynpaxInv, DynpaxTypeOK, TypeOK, HostType, Take
<1>2. PathMap(bySource') /\ PathMap(byCanonical')
  BY DEF Take, NoEntries, PathMap
<1>3. TypeOK' BY <1>1, <1>2 DEF Take, TypeOK, Phase
<1>4. manifest' = <<>> /\ DOMAIN <<>> = {} /\ Len(<<>>) = 0 BY DEF Take
<1> QED BY <1>3, <1>4 DEF Take, AliasTargets, ElfSources

LEMMA RestartInv ==
  ASSUME DynpaxInv, Restart, policy' \in Policy, UNCHANGED command
  PROVE  /\ TypeOK' /\ next' = 1 /\ Len(manifest') = 0
         /\ interpreterBundlePath' = NoPath
         /\ manifest' = <<>> /\ AliasTargets' /\ ElfSources'
         /\ rest' \in Seq(Targets) /\ delivered' = <<>> /\ upgraded' = FALSE
<1>1. command \in Seq(Targets) /\ command # <<>>
  BY DynpaxAssumption DEF DynpaxInv, DynpaxTypeOK
<1>2. Head(command) \in Path /\ Tail(command) \in Seq(Targets)
  BY <1>1, HeadTailProperties, WalkAssumption
<1>3. CachedType'
  <2>1. RootList(SystemRoots) BY ResolverAssumption DEF RootList
  <2>2. HostType BY DEF DynpaxInv, DynpaxTypeOK, TypeOK
  <2>3. Scanned(SystemRoots) \in [Name -> SUBSET Resolution]
    BY <2>1, <2>2, ResolveInType DEF Scanned
  <2> QED BY <2>3 DEF Restart, CachedType
<1> QED BY <1>2, <1>3, TakeInv DEF Restart

LEMMA FreshInv ==
  ASSUME DynpaxInv, Restart, policy' \in Policy, UNCHANGED <<command, ledger>>,
         Tree(root'), stage' \in {"plan", "killed"},
         runs' \in 1..MaxRuns, disturbed' \subseteq 1..runs'
  PROVE  DynpaxInv'
<1>1. /\ TypeOK' /\ next' = 1 /\ Len(manifest') = 0
      /\ interpreterBundlePath' = NoPath
      /\ manifest' = <<>> /\ AliasTargets' /\ ElfSources'
      /\ rest' \in Seq(Targets) /\ delivered' = <<>> /\ upgraded' = FALSE
  BY RestartInv
<1>2. next' \in 1..(Len(manifest') + 1) BY <1>1
<1>3. <<>> \in Seq(Seq(Entry)) BY EmptySeq
<1>4. command' \in Commands /\ ledger' \subseteq Entry BY DEF DynpaxInv, DynpaxTypeOK
<1>5. lost' = {} BY DEF Restart
<1> QED BY <1>1, <1>2, <1>3, <1>4, <1>5 DEF DynpaxInv, DynpaxTypeOK, RootType

LEMMA OtherStepsInv ==
  ASSUME DynpaxInv, DynpaxNext, ~BuildStep
  PROVE  DynpaxInv'
<1> USE DEF Ended
<1>1. /\ Tree(root) /\ HostType /\ CachedType /\ TypeOK /\ policy \in Policy
      /\ stage \in {"plan", "materialize", "rewrite", "verify",
                    "success", "error", "killed"}
      /\ next \in 1..(Len(manifest) + 1) /\ manifest \in Seq(Entry)
      /\ Len(manifest) \in Nat
      /\ interpreterBundlePath \in Path \cup {NoPath} /\ disturbed \subseteq 1..runs
      /\ runs \in 1..MaxRuns /\ MaxRuns \in Nat
      /\ rest \in Seq(Targets) /\ delivered \in Seq(Seq(Entry))
      /\ ledger \subseteq Entry /\ lost \subseteq Endpoint
  BY BuilderAssumption DEF DynpaxInv, DynpaxTypeOK, RootType, TypeOK, Endpoint
<1>2. ASSUME Plan PROVE DynpaxInv'
  <2>1. /\ Next /\ UNCHANGED <<buildVars, programVars>> /\ stage = "plan"
    BY <1>2 DEF Plan
  <2>2. TypeOK' BY <1>1, <2>1, NextType
  <2>3. PlanFacts BY <2>1 DEF DynpaxInv, PlanFacts
  <2>4. PlanFacts' BY <1>1, <2>1, <2>3, PlanFactsStep
  <2>5. next = 1 BY <2>1 DEF DynpaxInv
  <2>6. Len(manifest') \in Nat
    BY <2>2, LenProperties DEF TypeOK
  <2> QED BY <2>1, <2>2, <2>4, <2>5, <2>6
      DEF DynpaxInv, DynpaxTypeOK, RootType, buildVars, bounds, programVars, PlanFacts
<1>3. ASSUME PlanDone PROVE DynpaxInv'
  <2>1. /\ stage' = "materialize" /\ stage = "plan"
        /\ ledger' = ledger \cup EntriesOf(manifest)
        /\ UNCHANGED <<vars, root, next, interpreterBundlePath, bounds,
                       command, rest, delivered, upgraded>>
    BY <1>3 DEF PlanDone
  <2>2. EntriesOf(manifest) \subseteq Entry BY <1>1 DEF EntriesOf
  <2>3. UNCHANGED manifest BY <2>1 DEF vars, walkVars
  <2> QED BY <1>1, <2>1, <2>2, <2>3, WalkKept
      DEF DynpaxInv, DynpaxTypeOK, RootType, bounds
<1>4. ASSUME PlanFails \/ VerifyFails PROVE DynpaxInv'
  <2>1. /\ stage' = "error"
        /\ UNCHANGED <<vars, root, next, interpreterBundlePath, bounds, programVars>>
    BY <1>4 DEF PlanFails, VerifyFails
  <2> QED BY <1>1, <2>1, KeepsDynpaxInv DEF bounds
<1>5. ASSUME NextTarget PROVE DynpaxInv'
  <2>1. /\ rest # <<>> /\ delivered' = Append(delivered, manifest) /\ rest' = Tail(rest)
        /\ Take(Head(rest)) /\ stage' = "plan"
        /\ UNCHANGED <<cached, policy, root, bounds, command, ledger, upgraded>>
    BY <1>5 DEF NextTarget
  <2>2. Head(rest) \in Path /\ Tail(rest) \in Seq(Targets)
    BY <1>1, <2>1, HeadTailProperties, WalkAssumption
  <2>3. delivered' \in Seq(Seq(Entry)) BY <1>1, <2>1, AppendProperties
  <2>4. CachedType' BY <1>1, <2>1 DEF CachedType
  <2> QED BY <1>1, <2>1, <2>2, <2>3, <2>4, TakeInv
      DEF DynpaxInv, DynpaxTypeOK, RootType, bounds
<1>6. ASSUME LastTarget PROVE DynpaxInv'
  <2>1. /\ stage' = "success" /\ delivered' = Append(delivered, manifest)
        /\ UNCHANGED <<vars, root, next, interpreterBundlePath, bounds,
                       command, rest, ledger, upgraded>>
    BY <1>6 DEF LastTarget
  <2>2. delivered' \in Seq(Seq(Entry)) BY <1>1, <2>1, AppendProperties
  <2>3. UNCHANGED manifest BY <2>1 DEF vars, walkVars
  <2> QED BY <1>1, <2>1, <2>2, <2>3, WalkKept
      DEF DynpaxInv, DynpaxTypeOK, RootType, bounds
<1>7. ASSUME Kill PROVE DynpaxInv'
  <2>1. /\ root' \in Torn /\ stage' = "killed" /\ Restart
        /\ disturbed' = disturbed \cup {runs}
        /\ UNCHANGED <<policy, runs, command, ledger>>
    BY <1>7 DEF Kill, Disturb
  <2>2. Tree(root') BY <2>1, TornTree
  <2>3. policy' \in Policy /\ Restart /\ UNCHANGED command BY <1>1, <2>1
  <2>4. disturbed' \subseteq 1..runs' /\ runs' \in 1..MaxRuns BY <1>1, <2>1
  <2> QED BY <1>1, <2>1, <2>2, <2>3, <2>4, FreshInv
<1>8. ASSUME GiveAgain PROVE DynpaxInv'
  <2>1. /\ runs < MaxRuns /\ runs' = runs + 1 /\ stage' = "plan" /\ Restart
        /\ policy' \in (IF Relayout THEN Policies ELSE {policy})
        /\ UNCHANGED <<root, disturbed, command, ledger>>
    BY <1>8 DEF GiveAgain
  <2>2. policy' \in Policy BY <1>1, <2>1, WalkAssumption
  <2>3. runs' \in 1..MaxRuns /\ disturbed' \subseteq 1..runs' BY <1>1, <2>1
  <2> QED BY <1>1, <2>1, <2>2, <2>3, FreshInv
<1>9. ASSUME HostChanges PROVE DynpaxInv'
  <2>1. /\ (stage = "plan" /\ phase = "open") \/ Ended
        /\ upgraded' = TRUE
        /\ UNCHANGED <<cached, exe, includeInterpreter, walkVars, buildVars,
                       command, rest, delivered, ledger>>
    BY <1>9 DEF HostChanges
  <2>2. host' \in Worlds
    <3>1. PICK change \in Upgrades : host' = change[2] BY <1>9 DEF HostChanges
    <3> QED BY <3>1, DynpaxAssumption
  <2>3. HostType' BY <2>2, WalkAssumption DEF HostType
  <2>4. TypeOK'
    BY <1>1, <2>1, <2>3 DEF TypeOK, walkVars, CachedType, PathMap
  <2>5. AliasTargets' BY <2>1 DEF DynpaxInv, AliasTargets, walkVars
  <2>6. ~Ended' => ElfSources'
    <3>1. UNCHANGED <<stage, manifest>> BY <2>1 DEF buildVars, walkVars
    <3>2. CASE ~Ended
      <4>1. manifest = <<>> BY <2>1, <3>2 DEF DynpaxInv
      <4>2. DOMAIN manifest' = {} BY <3>1, <4>1
      <4> QED BY <4>2 DEF ElfSources
    <3>3. CASE Ended BY <3>1, <3>3
    <3> QED BY <3>2, <3>3
  <2> QED BY <1>1, <2>1, <2>4, <2>5, <2>6
      DEF DynpaxInv, DynpaxTypeOK, RootType, walkVars, buildVars, bounds
<1> QED BY <1>2, <1>3, <1>4, <1>5, <1>6, <1>7, <1>8, <1>9 DEF DynpaxNext, Program

LEMMA DynpaxInvInit == DynpaxInit => DynpaxInv
<1> SUFFICES ASSUME DynpaxInit PROVE DynpaxInv OBVIOUS
<1>1. TypeOK /\ phase = "open" /\ manifest = <<>> BY InitType DEF DynpaxInit, Init
<1>2. command \in Seq(Targets) /\ command # <<>> BY DynpaxAssumption DEF DynpaxInit
<1>3. rest \in Seq(Targets) BY <1>2, HeadTailProperties DEF DynpaxInit
<1>4. Tree(root) BY DEF DynpaxInit, NoEntries, Tree
<1>5. DOMAIN manifest = {} /\ Len(manifest) = 0 BY <1>1
<1>6. AliasTargets /\ ElfSources BY <1>5 DEF AliasTargets, ElfSources
<1>7. <<>> \in Seq(Seq(Entry)) BY EmptySeq
<1>8. runs \in 1..MaxRuns /\ disturbed \subseteq 1..runs
  BY BuilderAssumption DEF DynpaxInit
<1>9. next = 1 /\ next \in 1..(Len(manifest) + 1) BY <1>5 DEF DynpaxInit
<1> QED BY <1>1, <1>3, <1>4, <1>6, <1>7, <1>8, <1>9
    DEF DynpaxInit, DynpaxInv, DynpaxTypeOK, RootType

LEMMA DynpaxInvStep == DynpaxInv /\ [DynpaxNext]_dynpaxVars => DynpaxInv'
<1> SUFFICES ASSUME DynpaxInv, [DynpaxNext]_dynpaxVars PROVE DynpaxInv' OBVIOUS
<1>1. CASE BuildStep BY <1>1, BuildInv DEF BuildStep
<1>2. CASE DynpaxNext /\ ~BuildStep BY <1>2, OtherStepsInv
<1>3. CASE UNCHANGED dynpaxVars
  <2>1. UNCHANGED <<vars, buildVars, programVars>> BY <1>3 DEF dynpaxVars
  <2>2. UNCHANGED manifest BY <2>1 DEF vars, walkVars
  <2> QED BY <2>1, <2>2, WalkKept
      DEF DynpaxInv, DynpaxTypeOK, RootType, buildVars, bounds, programVars, Ended
<1> QED BY <1>1, <1>2, <1>3

(* Whatever is given, killed, upgraded or given again: the root is a tree  *)
(* of directories, files and relative symlinks, everything written into a  *)
(* file is a text an ELF file can hold, and the position in the manifest   *)
(* stays inside it.                                                        *)
THEOREM ProgramTypeCorrect == DynpaxSpec => []DynpaxTypeOK
<1>1. DynpaxInv => DynpaxTypeOK BY DEF DynpaxInv
<1> QED BY <1>1, DynpaxInvInit, DynpaxInvStep, PTL DEF DynpaxSpec

-----------------------------------------------------------------------------
(* The geography of a root in which no planned entry lies on the way to    *)
(* another: every symlink is one of the layout or a planned alias, every   *)
(* directory one of the layout or on the way to a planned entry.           *)

Lies(t, e) == Goes(t, LocationOf(e.bundled))
Made(t, e) == IsDirectory(t, Front(Lies(t, e)))
Same(e, f) ==
  e.source = f.source /\ e.kind = f.kind /\ AliasText(e) = AliasText(f)

PlannedLink(t, l) ==
  \E e \in ledger : /\ e.kind = "SymlinkAlias" /\ l = Lies(t, e)
                    /\ t[l] = LinkNode(AliasText(e))
PlannedFile(t, l) == \E e \in ledger : e.kind # "SymlinkAlias" /\ l = Lies(t, e)
PlannedWay(l) == \E e \in ledger : l \in Ways(e)

LinksPlanned(t) ==
  \A l : LinkAt(t, l) => l \in Redirected \/ PlannedLink(t, l)
DirectoriesPlanned(t) ==
  \A l \in DOMAIN t : t[l] = DirNode => l \in LayoutPlaces \/ PlannedWay(l)
FilesPlanned(t) ==
  \A l \in DOMAIN t : t[l].kind = "file" => PlannedFile(t, l)

Geography(t) ==
  Tree(t) /\ TurnsRight(t) /\ LinksPlanned(t) /\ DirectoriesPlanned(t)

(* Two plans for one place that can be reached.                            *)
Clash(t) ==
  \E e, f \in ledger : Lies(t, e) = Lies(t, f) /\ Made(t, e) /\ ~Same(e, f)

Clear == ledger \subseteq Entry /\ WaysClear

LEMMA EntryLies ==
  ASSUME Clear, NEW t, NEW e \in ledger
  PROVE  /\ e.bundled \in Path /\ LocationOf(e.bundled) \in Location
         /\ LocationOf(e.bundled) \notin Redirected
         /\ Lies(t, e) \in Location /\ Lies(t, e) \notin LayoutPlaces
         /\ Lies(t, e) \notin Redirected
         /\ \A f \in ledger : Lies(t, e) \notin Ways(f)
<1>1. e.bundled \in Path BY DEF Clear, Entry
<1>2. LocationOf(e.bundled) \in Location BY <1>1, LocationOfType
<1>3. Lies(t, e) \in Location /\ Lies(t, e) \in Spots(LocationOf(e.bundled))
  BY <1>2, GoesIs DEF Lies
<1>4. LocationOf(e.bundled) \in Spots(LocationOf(e.bundled)) BY DEF Spots
<1>5. Redirected \subseteq LayoutPlaces BY DEF LayoutPlaces
<1> QED BY <1>1, <1>2, <1>3, <1>4, <1>5 DEF Clear, WaysClear

LEMMA OnTheWay ==
  ASSUME Clear, NEW t, Geography(t), NEW f \in ledger,
         NEW g \in Spots(Components[f.bundled.dir])
  PROVE  OnlyTurns(t, g)
<1> SUFFICES ASSUME NEW k \in 1..Len(g), LinkAt(t, SubSeq(g, 1, k))
             PROVE  SubSeq(g, 1, k) \in Redirected
  BY DEF OnlyTurns
<1>1. SubSeq(g, 1, k) \in Prefixes(g)
  <2>1. g \in Seq(Component \cup Name)
    <3>1. Components[f.bundled.dir] \in Location
      BY LocationOfType DEF Clear, Entry
    <3> QED BY <3>1, SpotType, LocationIs
  <2>2. k \in 0..Len(g) BY <2>1, LenProperties
  <2> QED BY <2>2 DEF Prefixes
<1>2. SubSeq(g, 1, k) \in Ways(f) BY <1>1 DEF Ways
<1>3. SubSeq(g, 1, k) \in Redirected \/ PlannedLink(t, SubSeq(g, 1, k))
  BY DEF Geography, LinksPlanned
<1> QED BY <1>2, <1>3, EntryLies DEF PlannedLink

LEMMA EntryPlace ==
  ASSUME Clear, NEW t, Geography(t), NEW e \in ledger
  PROVE  /\ Place(t, e.bundled) = Lies(t, e) /\ Lies(t, e) # <<>>
         /\ MadeAt(t, Components[e.bundled.dir]) = Goes(t, Components[e.bundled.dir])
         /\ Front(Lies(t, e)) = Goes(t, Components[e.bundled.dir])
BY EntryLies, OnTheWay, PlaceGoes DEF Geography, Lies

LEMMA NoDirectoryThere ==
  ASSUME Clear, NEW t, Geography(t), NEW e \in ledger
  PROVE  ~IsDirectory(t, Lies(t, e))
BY EntryPlace, EntryLies DEF Geography, DirectoriesPlanned, IsDirectory, PlannedWay

LEMMA NoLinkThere ==
  ASSUME Clear, NEW t, Geography(t), ~Clash(t), NEW e \in ledger,
         e.kind # "SymlinkAlias"
  PROVE  ~LinkAt(t, Lies(t, e))
<1> SUFFICES ASSUME LinkAt(t, Lies(t, e)) PROVE FALSE OBVIOUS
<1>1. PICK f \in ledger : f.kind = "SymlinkAlias" /\ Lies(t, e) = Lies(t, f)
  BY EntryLies DEF Geography, LinksPlanned, PlannedLink
<1>2. Made(t, e) BY NodeType DEF LinkAt, Geography, Made
<1> QED BY <1>1, <1>2 DEF Clash, Same

LEMMA EndLies ==
  ASSUME Clear, NEW t, Geography(t), NEW e \in ledger, ~LinkAt(t, Lies(t, e))
  PROVE  End(t, e.bundled) = IF Made(t, e) THEN Lies(t, e) ELSE Nowhere
<1>1. Lies(t, e) \in Location /\ Lies(t, e) # <<>> /\ e.bundled \in Path
  BY EntryLies, EntryPlace
<1>2. OnlyTurns(t, Front(Lies(t, e)))
  <2>1. Components[e.bundled.dir] \in Location BY <1>1, LocationOfType
  <2>2. Front(Lies(t, e)) \in Spots(Components[e.bundled.dir])
    BY <2>1, EntryPlace, GoesIs
  <2> QED BY <2>2, OnTheWay
<1>3. OnlyTurns(t, Lies(t, e)) BY <1>1, <1>2, OnlyTurnsBelow
<1> QED BY <1>1, <1>3, EndGoes DEF Geography, Lies, Made

LEMMA EntryWritable ==
  ASSUME Clear, NEW t, Geography(t), ~Clash(t), NEW e \in ledger,
         e.kind # "SymlinkAlias", Made(t, e) \/ End(t, e.bundled) # Nowhere
  PROVE  Writable(t, e.bundled) /\ End(t, e.bundled) = Lies(t, e)
<1>1. End(t, e.bundled) = Lies(t, e) BY NoLinkThere, EndLies
<1>2. Lies(t, e) \notin {Nowhere, Outside} BY EntryLies, Parts
<1>3. ~IsDirectory(t, Lies(t, e)) BY NoDirectoryThere
<1> QED BY <1>1, <1>2, <1>3 DEF Writable

-----------------------------------------------------------------------------
(* What a root that has grown keeps.                                       *)

LEMMA LiesStays ==
  ASSUME Clear, NEW t, Tree(t), NEW u, Tree(u), Grows(t, u),
         NEW e \in ledger, Made(t, e)
  PROVE  Lies(u, e) = Lies(t, e) /\ Made(u, e)
BY EntryLies, GoesStays DEF Made, Lies, Grows

LEMMA LiesWithin ==
  ASSUME Clear, NEW t, Tree(t), NEW u, Tree(u), Grows(t, u),
         NEW e \in ledger, Lies(t, e) \in DOMAIN t
  PROVE  Lies(u, e) = Lies(t, e) /\ Made(t, e) /\ Made(u, e)
<1>1. Made(t, e) BY NodeType DEF Made
<1> QED BY <1>1, LiesStays

LEMMA ClashStays ==
  ASSUME Clear, NEW t, Tree(t), NEW u, Tree(u), Grows(t, u), Clash(t)
  PROVE  Clash(u)
<1>1. PICK e, f \in ledger : Lies(t, e) = Lies(t, f) /\ Made(t, e) /\ ~Same(e, f)
  BY DEF Clash
<1>2. Made(t, f) BY <1>1 DEF Made
<1> QED BY <1>1, <1>2, LiesStays DEF Clash

(* What may be new in a root that has grown.                               *)
Expected(u, l) ==
  \/ LayoutNode(u, l)
  \/ u[l] = DirNode /\ PlannedWay(l)
  \/ PlannedLink(u, l)
  \/ u[l].kind = "file"

LEMMA GeographyStays ==
  ASSUME Clear, NEW t, Geography(t), NEW u, Tree(u), Grows(t, u),
         \A l \in DOMAIN u : (l \in DOMAIN t /\ u[l] = t[l]) \/ Expected(u, l)
  PROVE  Geography(u)
<1>1. Tree(t) BY DEF Geography
<1>2. ASSUME NEW e \in ledger PROVE LinkNode(AliasText(e)) # DirNode
  BY DEF LinkNode, DirNode
<1>3. LinksPlanned(u)
  <2> SUFFICES ASSUME NEW l, LinkAt(u, l) PROVE l \in Redirected \/ PlannedLink(u, l)
    BY DEF LinksPlanned
  <2>1. l \in DOMAIN u /\ u[l].kind = "link" BY DEF LinkAt
  <2>2. CASE l \in DOMAIN t /\ u[l] = t[l]
    <3>1. LinkAt(t, l) BY <2>1, <2>2 DEF LinkAt
    <3>2. CASE PlannedLink(t, l)
      <4>1. PICK e \in ledger : /\ e.kind = "SymlinkAlias" /\ l = Lies(t, e)
                                /\ t[l] = LinkNode(AliasText(e))
        BY <3>2 DEF PlannedLink
      <4>2. Lies(u, e) = l BY <1>1, <2>2, <4>1, LiesWithin
      <4> QED BY <2>2, <4>1, <4>2 DEF PlannedLink
    <3> QED BY <3>1, <3>2 DEF Geography, LinksPlanned
  <2>3. CASE LayoutNode(u, l)
    <3>1. u[l] # DirNode BY <2>1, NodeKinds
    <3> QED BY <2>3, <3>1 DEF LayoutNode, Redirected
  <2>4. CASE u[l] = DirNode \/ u[l].kind = "file" BY <2>1, <2>4, NodeKinds
  <2> QED BY <2>1, <2>2, <2>3, <2>4 DEF Expected
<1>4. DirectoriesPlanned(u)
  <2> SUFFICES ASSUME NEW l \in DOMAIN u, u[l] = DirNode
               PROVE  l \in LayoutPlaces \/ PlannedWay(l)
    BY DEF DirectoriesPlanned
  <2>1. CASE l \in DOMAIN t /\ u[l] = t[l]
    BY <2>1 DEF Geography, DirectoriesPlanned
  <2>2. CASE LayoutNode(u, l)
    BY <2>2 DEF LayoutNode, LayoutPlaces, Redirected
  <2>3. CASE PlannedLink(u, l) BY <1>2, <2>3 DEF PlannedLink
  <2>4. CASE u[l].kind = "file" BY <2>4, NodeKinds
  <2> QED BY <2>1, <2>2, <2>3, <2>4 DEF Expected
<1>5. TurnsRight(u)
  <2> SUFFICES ASSUME NEW r \in Redirected, LinkAt(u, r)
               PROVE  /\ IsDirectory(u, <<"lib64">>)
                      /\ \E link \in ToSet(CompatibilitySymlinks(FlatLib64)) :
                           link.at = r /\ u[r] = LinkNode(link.to)
    BY DEF TurnsRight
  <2>1. r \in DOMAIN u /\ u[r].kind = "link" BY DEF LinkAt
  <2>2. CASE r \in DOMAIN t /\ u[r] = t[r]
    <3>1. LinkAt(t, r) BY <2>1, <2>2 DEF LinkAt
    <3> QED BY <2>2, <3>1 DEF Geography, TurnsRight, Grows
  <2>3. CASE LayoutNode(u, r)
    <3>1. u[r] # DirNode BY <2>1, NodeKinds
    <3> QED BY <2>3, <3>1 DEF LayoutNode
  <2>4. CASE PlannedLink(u, r) BY <2>4, EntryLies DEF PlannedLink
  <2>5. CASE u[r] = DirNode \/ u[r].kind = "file" BY <2>1, <2>5, NodeKinds
  <2> QED BY <2>1, <2>2, <2>3, <2>4, <2>5 DEF Expected
<1> QED BY <1>3, <1>4, <1>5 DEF Geography

LEMMA FilesStay ==
  ASSUME Clear, NEW t, Tree(t), NEW u, Tree(u), Grows(t, u), FilesPlanned(t),
         \A l \in DOMAIN u : u[l].kind = "file" =>
           (l \in DOMAIN t /\ u[l] = t[l]) \/ PlannedFile(u, l)
  PROVE  FilesPlanned(u)
<1> SUFFICES ASSUME NEW l \in DOMAIN u, u[l].kind = "file" PROVE PlannedFile(u, l)
  BY DEF FilesPlanned
<1>1. CASE l \in DOMAIN t /\ u[l] = t[l]
  <2>1. PICK e \in ledger : e.kind # "SymlinkAlias" /\ l = Lies(t, e)
    BY <1>1 DEF FilesPlanned, PlannedFile
  <2>2. Lies(u, e) = l BY <1>1, <2>1, LiesWithin
  <2> QED BY <2>1, <2>2 DEF PlannedFile
<1> QED BY <1>1

-----------------------------------------------------------------------------
(* What a file operation for a planned entry does to the root.  It never   *)
(* leaves the geography; unless plans clash it only changes the node where *)
(* its entry lies, and a path that led somewhere still leads there.        *)

Onward(t, u) ==
  /\ Geography(u) /\ Grows(t, u)
  /\ ~Clash(u) /\ FilesPlanned(t) => FilesPlanned(u)
Steady(t, u, e) ==
  ~Clash(u) /\ FilesPlanned(t) =>
    /\ Keeps(t, u)
    /\ \A l \in DOMAIN t : u[l] = t[l] \/ l = Lies(u, e)

LEMMA OnwardAgain ==
  ASSUME Clear, NEW t, Geography(t), NEW u, Onward(t, u), NEW v, Onward(u, v)
  PROVE  Onward(t, v)
<1>1. Tree(t) /\ Tree(u) /\ Tree(v) BY DEF Onward, Geography
<1>2. Grows(t, v) BY DEF Onward, Grows
<1>3. ~Clash(v) => ~Clash(u) BY <1>1, ClashStays DEF Onward
<1> QED BY <1>2, <1>3 DEF Onward

LEMMA OnwardSame == ASSUME NEW t, Geography(t) PROVE Onward(t, t)
BY DEF Onward, Grows

LEMMA ExtendsFurther ==
  ASSUME NEW t, NEW u, Extends(t, u), NEW v, Extends(u, v) PROVE Extends(t, v)
BY DEF Extends

LEMMA ExtendsOnward ==
  ASSUME Clear, NEW t, Geography(t), NEW u, Tree(u), Extends(t, u),
         \A l \in DOMAIN u \ DOMAIN t :
           LayoutNode(u, l) \/ (u[l] = DirNode /\ PlannedWay(l))
  PROVE  Onward(t, u)
<1>1. Grows(t, u) BY DEF Grows, Extends, IsDirectory, LinkAt
<1>2. Geography(u)
  <2>1. \A l \in DOMAIN u : (l \in DOMAIN t /\ u[l] = t[l]) \/ Expected(u, l)
    BY DEF Expected, Extends
  <2> QED BY <1>1, <2>1, GeographyStays
<1>3. ASSUME FilesPlanned(t) PROVE FilesPlanned(u)
  <2>1. ASSUME NEW l \in DOMAIN u, u[l].kind = "file", l \notin DOMAIN t PROVE FALSE
    <3>1. u[l] # DirNode BY <2>1, NodeKinds
    <3>2. PICK link : u[l] = LinkNode(link.to) BY <2>1, <3>1 DEF LayoutNode
    <3> QED BY <2>1, <3>2 DEF LinkNode
  <2>2. \A l \in DOMAIN u : u[l].kind = "file" => l \in DOMAIN t /\ u[l] = t[l]
    BY <2>1 DEF Extends
  <2>3. Tree(t) BY DEF Geography
  <2> QED BY <1>1, <1>3, <2>2, <2>3, FilesStay
<1> QED BY <1>1, <1>2, <1>3 DEF Onward

LEMMA BootstrapOnward ==
  ASSUME Clear, NEW t, Geography(t), NEW p \in Policy,
         NEW u, u = Bootstrap(t, p) \/ u \in BootstrapCut(t, p)
  PROVE  Onward(t, u) /\ Extends(t, u)
<1>1. Tree(t) BY DEF Geography
<1>2. /\ Tree(u) /\ Extends(t, u)
      /\ \A l \in DOMAIN u \ DOMAIN t : LayoutNode(u, l)
  BY <1>1, BootstrapNodes
<1> QED BY <1>2, ExtendsOnward

LEMMA MakeOnward ==
  ASSUME Clear, NEW t, Geography(t), NEW e \in ledger,
         NEW u, u = MakeDirectories(t, Components[e.bundled.dir])
  PROVE  Onward(t, u) /\ Extends(t, u)
<1> DEFINE d == Components[e.bundled.dir]
<1>1. Tree(t) BY DEF Geography
<1>2. d \in Location BY LocationOfType DEF Clear, Entry
<1>3. /\ Tree(u) /\ Extends(t, u)
      /\ \A l \in DOMAIN u \ DOMAIN t : u[l] = DirNode /\ l \in Prefixes(MadeAt(t, d))
  BY <1>1, <1>2, MakeNodes
<1>4. MadeAt(t, d) \in Spots(d) BY <1>2, EntryPlace, GoesIs
<1>5. \A l \in Prefixes(MadeAt(t, d)) : PlannedWay(l) BY <1>4 DEF PlannedWay, Ways
<1> QED BY <1>3, <1>5, ExtendsOnward

LEMMA KeepsGrows ==
  ASSUME NEW t, NEW u, Keeps(t, u) PROVE Grows(t, u)
<1>1. ASSUME NEW l \in DOMAIN t, t[l] = DirNode PROVE l \in DOMAIN u /\ u[l] = DirNode
  BY <1>1, NodeKinds DEF Keeps
<1>2. ASSUME NEW l \in DOMAIN t, t[l].kind = "link" PROVE l \in DOMAIN u /\ u[l] = t[l]
  BY <1>2 DEF Keeps
<1> QED BY <1>1, <1>2 DEF Grows, IsDirectory, LinkAt

LEMMA WriteOnward ==
  ASSUME Clear, NEW t, Geography(t), NEW e \in ledger, e.kind # "SymlinkAlias",
         NEW file \in BundleFile, NEW u, u = WriteAt(t, e.bundled, file)
  PROVE  /\ Onward(t, u) /\ Steady(t, u, e)
         /\ ~Clash(u) =>
              /\ \A l \in DOMAIN u :
                   (l \in DOMAIN t /\ u[l] = t[l]) \/ (l = Lies(u, e) /\ u[l] = file)
              /\ Writable(t, e.bundled) =>
                   Lies(u, e) \in DOMAIN u /\ u[Lies(u, e)] = file
<1>1. Tree(t) /\ e.bundled \in Path BY EntryLies DEF Geography
<1>2. /\ Tree(u) /\ Keeps(t, u)
      /\ \A l \in DOMAIN u :
           (l \in DOMAIN t /\ u[l] = t[l]) \/ (l = End(t, e.bundled) /\ u[l] = file)
      /\ Writable(t, e.bundled) =>
           End(t, e.bundled) \in DOMAIN u /\ u[End(t, e.bundled)] = file
  BY <1>1, WriteNodes
<1>3. Grows(t, u) BY <1>2, KeepsGrows
<1>4. file.kind = "file" BY NodeKinds
<1>5. Geography(u)
  <2>1. \A l \in DOMAIN u : (l \in DOMAIN t /\ u[l] = t[l]) \/ Expected(u, l)
    BY <1>2, <1>4 DEF Expected
  <2> QED BY <1>2, <1>3, <2>1, GeographyStays
<1>6. ASSUME ~Clash(u), End(t, e.bundled) \in DOMAIN u
      PROVE  End(t, e.bundled) = Lies(u, e)
  <2>1. ~Clash(t) BY <1>1, <1>2, <1>3, <1>6, ClashStays
  <2>2. End(t, e.bundled) = IF Made(t, e) THEN Lies(t, e) ELSE Nowhere
    BY <2>1, NoLinkThere, EndLies
  <2>3. Nowhere \notin DOMAIN u BY <1>2, Parts, NodeType
  <2> QED BY <1>1, <1>2, <1>3, <1>6, <2>2, <2>3, LiesStays
<1>7. ASSUME ~Clash(u), FilesPlanned(t) PROVE FilesPlanned(u)
  <2>1. \A l \in DOMAIN u : u[l].kind = "file" =>
          (l \in DOMAIN t /\ u[l] = t[l]) \/ PlannedFile(u, l)
    BY <1>2, <1>6, <1>7 DEF PlannedFile
  <2> QED BY <1>1, <1>2, <1>3, <1>7, <2>1, FilesStay
<1>8. Steady(t, u, e) BY <1>2, <1>6 DEF Steady, Keeps
<1> QED BY <1>2, <1>3, <1>5, <1>6, <1>7, <1>8 DEF Onward

LEMMA LinkOnward ==
  ASSUME Clear, NEW t, Geography(t), NEW e \in ledger, e.kind = "SymlinkAlias",
         e.target \in Path,
         NEW u, u = SymlinkTo(t, e.bundled, e.target)
  PROVE  /\ Onward(t, u) /\ Steady(t, u, e)
         /\ \A l \in DOMAIN u :
              (l \in DOMAIN t /\ u[l] = t[l])
              \/ (l = Lies(u, e) /\ u[l] = LinkNode(AliasText(e)))
         /\ Linkable(t, e.bundled) =>
              Lies(u, e) \in DOMAIN u /\ u[Lies(u, e)] = LinkNode(AliasText(e))
<1> DEFINE place == Lies(t, e)
<1>1. Tree(t) /\ e.bundled \in Path BY EntryLies DEF Geography
<1>2. Place(t, e.bundled) = place BY EntryPlace
<1>3. /\ Tree(u)
      /\ \A l \in DOMAIN t : l # place => l \in DOMAIN u /\ u[l] = t[l]
      /\ \A l \in DOMAIN u :
           \/ l \in DOMAIN t /\ u[l] = t[l]
           \/ /\ Linkable(t, e.bundled)
              /\ l = place /\ u[l] = LinkNode(AliasText(e))
      /\ Linkable(t, e.bundled) =>
           place \in DOMAIN u /\ u[place] = LinkNode(AliasText(e))
      /\ ~Linkable(t, e.bundled) => u = t
  BY <1>1, <1>2, LinkNodes DEF AliasText
<1>4. Grows(t, u)
  <2>1. ~IsDirectory(t, place) BY NoDirectoryThere
  <2>2. place \notin Redirected BY EntryLies
  <2>3. \A l \in DOMAIN t : IsDirectory(t, l) \/ l \in Redirected =>
          l \in DOMAIN u /\ u[l] = t[l]
    BY <1>3, <2>1, <2>2
  <2> QED BY <2>3 DEF Grows, IsDirectory, LinkAt
<1>5. ASSUME Linkable(t, e.bundled) PROVE Made(t, e) /\ Lies(u, e) = place
  <2>1. Made(t, e) BY <1>2, <1>5 DEF Linkable, Made
  <2> QED BY <1>1, <1>3, <1>4, <2>1, LiesStays
<1>6. Geography(u)
  <2>1. \A l \in DOMAIN u : (l \in DOMAIN t /\ u[l] = t[l]) \/ Expected(u, l)
    BY <1>3, <1>5 DEF Expected, PlannedLink
  <2> QED BY <1>3, <1>4, <2>1, GeographyStays
<1>7. ASSUME FilesPlanned(t) PROVE FilesPlanned(u)
  <2>1. ASSUME NEW l \in DOMAIN u, u[l].kind = "file"
        PROVE  l \in DOMAIN t /\ u[l] = t[l]
    BY <1>3, <2>1 DEF LinkNode
  <2> QED BY <1>1, <1>3, <1>4, <1>7, <2>1, FilesStay
<1>8. ASSUME ~Clash(u), FilesPlanned(t), place \in DOMAIN t, Linkable(t, e.bundled)
      PROVE  t[place] = LinkNode(AliasText(e))
  <2>1. ~Clash(t) BY <1>1, <1>3, <1>4, <1>8, ClashStays
  <2>2. Made(t, e) BY <1>5, <1>8
  <2>3. \A f \in ledger : Lies(t, f) = place => Same(e, f) BY <2>1, <2>2 DEF Clash
  <2>4. t[place].kind # "file"
    BY <1>8, <2>3 DEF FilesPlanned, PlannedFile, Same
  <2>5. t[place].kind # "dir"
    BY <1>1, <1>8, NodeType, NoDirectoryThere DEF IsDirectory
  <2>6. LinkAt(t, place) BY <1>1, <1>8, <2>4, <2>5, NodeType DEF LinkAt
  <2>7. PlannedLink(t, place) BY <2>6, EntryLies DEF Geography, LinksPlanned
  <2> QED BY <2>3, <2>7 DEF PlannedLink, Same
<1>9. Steady(t, u, e)
  <2> SUFFICES ASSUME ~Clash(u), FilesPlanned(t)
               PROVE  \A l \in DOMAIN t : l \in DOMAIN u /\ u[l] = t[l]
    BY DEF Steady, Keeps
  <2> QED BY <1>3, <1>8
<1> QED BY <1>3, <1>4, <1>5, <1>6, <1>7, <1>9 DEF Onward

LEMMA RemovedOnward ==
  ASSUME Clear, NEW t, Geography(t), NEW e \in ledger, e.kind = "SymlinkAlias",
         e.target \in Path,
         NEW u, u = Removed(t, e.bundled)
  PROVE  Onward(t, u)
<1> DEFINE place == Lies(t, e)
<1>1. Tree(t) /\ e.bundled \in Path BY EntryLies DEF Geography
<1>2. Place(t, e.bundled) = place BY EntryPlace
<1>3. /\ Tree(u)
      /\ \A l \in DOMAIN t : l # place => l \in DOMAIN u /\ u[l] = t[l]
      /\ \A l \in DOMAIN u : l \in DOMAIN t /\ u[l] = t[l]
  BY <1>1, <1>2, LinkNodes
<1>4. Grows(t, u)
  <2>1. ~IsDirectory(t, place) BY NoDirectoryThere
  <2>2. place \notin Redirected BY EntryLies
  <2>3. \A l \in DOMAIN t : IsDirectory(t, l) \/ l \in Redirected =>
          l \in DOMAIN u /\ u[l] = t[l]
    BY <1>3, <2>1, <2>2
  <2> QED BY <2>3 DEF Grows, IsDirectory, LinkAt
<1>5. Geography(u) BY <1>3, <1>4, GeographyStays
<1>6. ASSUME FilesPlanned(t) PROVE FilesPlanned(u)
  BY <1>1, <1>3, <1>4, <1>6, FilesStay
<1> QED BY <1>4, <1>5, <1>6 DEF Onward

-----------------------------------------------------------------------------
(* What a delivered file keeps.                                            *)

Fits(file, e) == file.parses => file.source = Destination(e.source)

(* Something was put where entry e lies, and it can only be read as e.     *)
Written(t, e) ==
  /\ Lies(t, e) \in DOMAIN t
  /\ t[Lies(t, e)].kind = "file" => Fits(t[Lies(t, e)], e)

(* A file for entry e has all its parts, or lies at one of these places.   *)
Sound(t, e, places) ==
  t[Lies(t, e)].kind = "file" => t[Lies(t, e)].whole \/ Lies(t, e) \in places

(* The path of e leads somewhere, and there is an alias or a file for e.   *)
Stays(t, e) ==
  /\ Bundled(t, e.bundled) /\ Lies(t, e) \in DOMAIN t
  /\ IF e.kind = "SymlinkAlias" THEN t[Lies(t, e)] = LinkNode(AliasText(e))
     ELSE t[Lies(t, e)].kind = "file"

(* The loader that belongs to an executable, and its path in the bundle.    *)
LoaderPath(e) == BundlePathFor(policy, "Interpreter", Elf(e.source).interp, NoDir)
Loader(e) ==
  MakeEntry("Interpreter", Elf(e.source).interp, Elf(e.source).interp.name, LoaderPath(e))
WithLoader(e) ==
  e.kind = "Executable" /\ includeInterpreter /\ HasInterpreter(e.source)

(* And it is what e was to become, with the path of its loader in it; the   *)
(* RUNPATH is the same in every file of a flat bundle.                      *)
Whole(t, e) ==
  LET node == t[Lies(t, e)]
  IN  e.kind # "SymlinkAlias" =>
        /\ node.source = Destination(e.source)
        /\ e.kind # "Interpreter" => node.parses /\ node.rpath = <<>>
        /\ node.whole \/ Lies(t, e) \in lost
        /\ e.kind # "Interpreter" /\ policy = FlatLib64 => node.runpath = <<FlatOrigin>>
        /\ WithLoader(e) => node.interp = LoaderPath(e)

(* The RUNPATH that manifest m has for its entry e, when bundle paths are   *)
(* source paths, and that it is one a delivered target wrote there.         *)
TextsOf(m, e) ==
  LET dirs == BundledLibraryDirectories(m, policy)
  IN  [i \in DOMAIN dirs |-> Origin(e.bundled, dirs[i])]
Routed(t, e) ==
  policy = PreserveSourceTree /\ e.kind \in {"Executable", "SharedObject"} =>
    \E k \in DOMAIN delivered : \E f \in EntriesOf(delivered[k]) :
      /\ Same(f, e) /\ Lies(t, f) = Lies(t, e)
      /\ t[Lies(t, e)].runpath = TextsOf(delivered[k], f)

LEMMA FixedLoader ==
  ASSUME UNCHANGED <<host, includeInterpreter, policy>>
  PROVE  \A e : /\ LoaderPath(e)' = LoaderPath(e) /\ Loader(e)' = Loader(e)
                /\ WithLoader(e)' = WithLoader(e)
                /\ HasInterpreter(e.source)' = HasInterpreter(e.source)
<1>1. \A p : HasInterpreter(p)' = HasInterpreter(p) BY FixedHost DEF HasInterpreter
<1>2. \A e : LoaderPath(e)' = LoaderPath(e) BY FixedHost DEF LoaderPath
<1>3. \A e : Loader(e)' = Loader(e) BY <1>1, <1>2, FixedHost DEF Loader, MakeEntry
<1> QED BY <1>1, <1>2, <1>3 DEF WithLoader

LEMMA WrittenStays ==
  ASSUME Clear, NEW t, Geography(t), FilesPlanned(t), NEW e \in ledger, NEW u,
         Onward(t, u), Steady(t, u, e), ~Clash(u),
         \A l \in DOMAIN t :
           u[l] = t[l] \/ (l = Lies(u, e) /\ (u[l].kind = "file" => Fits(u[l], e))),
         NEW f \in ledger, Written(t, f)
  PROVE  Written(u, f)
<1> DEFINE l == Lies(t, f)
<1>1. Tree(t) /\ Tree(u) /\ Grows(t, u) BY DEF Onward, Geography
<1>2. l \in DOMAIN t /\ Lies(u, f) = l /\ Made(u, f) BY <1>1, LiesWithin DEF Written
<1>3. l \in DOMAIN u BY <1>2 DEF Steady, Keeps
<1>4. CASE u[l] = t[l] BY <1>2, <1>3, <1>4 DEF Written
<1>5. CASE l = Lies(u, e) /\ (u[l].kind = "file" => Fits(u[l], e))
  <2>1. Same(f, e) BY <1>2, <1>5 DEF Clash
  <2> QED BY <1>2, <1>3, <1>5, <2>1 DEF Written, Fits, Same
<1> QED BY <1>2, <1>4, <1>5 DEF Written

LEMMA SoundStays ==
  ASSUME Clear, NEW t, Geography(t), NEW e \in ledger, NEW u,
         Onward(t, u), ~Clash(u),
         \A l \in DOMAIN t : u[l] = t[l] \/ l = Lies(u, e),
         NEW places, NEW more, places \subseteq more,
         NEW f \in ledger, Written(t, f), Sound(t, f, places),
         Same(f, e) => Sound(u, e, more)
  PROVE  Sound(u, f, more)
<1> DEFINE l == Lies(t, f)
<1>1. Tree(t) /\ Tree(u) /\ Grows(t, u) BY DEF Onward, Geography
<1>2. l \in DOMAIN t /\ Lies(u, f) = l /\ Made(u, f) BY <1>1, LiesWithin DEF Written
<1>3. CASE u[l] = t[l] BY <1>2, <1>3 DEF Sound
<1>4. CASE l = Lies(u, e)
  <2>1. Same(f, e) BY <1>2, <1>4 DEF Clash
  <2> QED BY <1>2, <1>4, <2>1 DEF Sound
<1> QED BY <1>2, <1>3, <1>4

LEMMA StaysStays ==
  ASSUME Clear, NEW t, Geography(t), FilesPlanned(t), NEW e \in ledger, NEW u,
         Onward(t, u), Steady(t, u, e), ~Clash(u),
         NEW f \in ledger, Stays(t, f)
  PROVE  /\ Stays(u, f) /\ Lies(u, f) = Lies(t, f)
         /\ \/ u[Lies(u, f)] = t[Lies(t, f)] /\ (Whole(t, f) => Whole(u, f))
            \/ Lies(u, e) = Lies(u, f)
<1> DEFINE l == Lies(t, f)
<1>1. Tree(t) /\ Tree(u) /\ Grows(t, u) BY DEF Onward, Geography
<1>2. l \in DOMAIN t /\ Lies(u, f) = l BY <1>1, LiesWithin DEF Stays
<1>3. Keeps(t, u) /\ (u[l] = t[l] \/ l = Lies(u, e)) BY <1>2 DEF Steady
<1>4. l \in DOMAIN u BY <1>2, <1>3 DEF Keeps
<1>5. Bundled(u, f.bundled)
  <2>1. LocationOf(f.bundled) \in RelPath BY EntryLies, Parts
  <2> QED BY <1>1, <1>3, <2>1, FollowKeeps DEF Stays, Bundled, End
<1>6. Stays(u, f)
  <2>1. CASE f.kind = "SymlinkAlias"
    <3>1. t[l] = LinkNode(AliasText(f)) BY <2>1 DEF Stays
    <3>2. t[l].kind # "file" BY <3>1 DEF LinkNode
    <3>3. u[l] = t[l] BY <1>2, <1>3, <3>2 DEF Keeps
    <3> QED BY <1>2, <1>4, <1>5, <2>1, <3>1, <3>3 DEF Stays
  <2>2. CASE f.kind # "SymlinkAlias"
    <3>1. t[l].kind = "file" BY <2>2 DEF Stays
    <3>2. u[l].kind = "file" BY <1>2, <1>3, <3>1 DEF Keeps
    <3> QED BY <1>2, <1>4, <1>5, <2>2, <3>2 DEF Stays
  <2> QED BY <2>1, <2>2
<1>7. Whole(t, f) /\ u[l] = t[l] => Whole(u, f) BY <1>2 DEF Whole
<1> QED BY <1>2, <1>3, <1>6, <1>7

LEMMA RoutedStays ==
  ASSUME Clear, NEW t, Geography(t), NEW u, Onward(t, u), Delivered \subseteq ledger,
         NEW e, Lies(t, e) \in DOMAIN t, Lies(u, e) = Lies(t, e),
         u[Lies(u, e)] = t[Lies(t, e)], Routed(t, e)
  PROVE  Routed(u, e)
<1> SUFFICES ASSUME policy = PreserveSourceTree,
                    e.kind \in {"Executable", "SharedObject"}
             PROVE  \E k \in DOMAIN delivered : \E f \in EntriesOf(delivered[k]) :
                      /\ Same(f, e) /\ Lies(u, f) = Lies(u, e)
                      /\ u[Lies(u, e)].runpath = TextsOf(delivered[k], f)
  BY DEF Routed
<1>0. PICK k \in DOMAIN delivered : \E f \in EntriesOf(delivered[k]) :
        /\ Same(f, e) /\ Lies(t, f) = Lies(t, e)
        /\ t[Lies(t, e)].runpath = TextsOf(delivered[k], f)
  BY DEF Routed
<1>1. PICK f \in EntriesOf(delivered[k]) :
        /\ Same(f, e) /\ Lies(t, f) = Lies(t, e)
        /\ t[Lies(t, e)].runpath = TextsOf(delivered[k], f)
  BY <1>0
<1>2. f \in ledger BY DEF Delivered
<1>3. Lies(u, f) = Lies(t, f) BY <1>1, <1>2, LiesWithin DEF Onward, Geography
<1> QED BY <1>1, <1>3

-----------------------------------------------------------------------------
(* The invariant behind SuccessDeliversAll.  It speaks of roots whose plans *)
(* are clear of each other, which those of an earlier moment then were too, *)
(* and of what this run did: the planned files that were materialised can   *)
(* only be read as copies of what the plan names, those finished lack a     *)
(* part only where a rewrite was lost, and a delivered entry is what it was *)
(* to become, or lies where the target being built has an entry.            *)

Stopped == stage \in {"error", "killed"}
Working == stage \in {"materialize", "rewrite", "verify"}
PastRewrite(i) ==
  \/ manifest[i].kind # "Executable"
  \/ stage = "rewrite" /\ i < next
  \/ stage = "verify"
Done == CASE stage = "materialize" -> 1..(next - 1)
          [] stage \in {"rewrite", "verify"} -> DOMAIN manifest
          [] OTHER -> {}

(* The loaders: while the host is the one of the records, a finished plan  *)
(* has the loader of its executable, the path kept for the rewrite is that *)
(* loader's, and what was delivered came with its loader.                  *)
LoaderOfTarget ==
  MakeEntry("Interpreter", InterpreterPath, InterpreterPath.name,
            BundlePathFor(policy, "Interpreter", InterpreterPath, NoDir))
TargetEntry(e) ==
  /\ e.kind = "Executable" => e.source = exe /\ e.hasInterp = HasInterpreter(exe)
  /\ e.kind = "Interpreter" => e = LoaderOfTarget
LoaderPlanned ==
  /\ \A i \in DOMAIN manifest : TargetEntry(manifest[i])
  /\ phase = "planned" /\ InterpreterPath # NoPath =>
       \E i \in DOMAIN manifest : manifest[i] = LoaderOfTarget
LoaderKept ==
  \A i \in Done :
    manifest[i].kind = "Interpreter" => interpreterBundlePath = manifest[i].bundled
LoadersDelivered ==
  \A e \in Delivered :
    e.kind = "Executable" =>
      /\ e.hasInterp = HasInterpreter(e.source)
      /\ WithLoader(e) => Loader(e) \in Delivered

LoaderInv ==
  /\ Working => phase = "planned"
  /\ ~upgraded => LoaderPlanned /\ LoaderKept /\ LoadersDelivered

Reworked(e) ==
  Working /\ \E i \in DOMAIN manifest : Lies(root, manifest[i]) = Lies(root, e)
Kept(e) ==
  /\ e \in ledger /\ Stays(root, e)
  /\ (Whole(root, e) /\ Routed(root, e)) \/ Reworked(e)

RootInv == WaysClear => Geography(root) /\ (~Clash(root) => FilesPlanned(root))
LedgerInv == Working => EntriesOf(manifest) \subseteq ledger
CountInv ==
  /\ ~Stopped =>
       Len(delivered) + (IF stage = "success" THEN 0 ELSE 1) + Len(rest) = Len(command)
  /\ stage = "success" => rest = <<>>
CopyInv ==
  \A i \in Done :
    manifest[i].kind # "SymlinkAlias" =>
      /\ Written(root, manifest[i])
      /\ PastRewrite(i) => Sound(root, manifest[i], lost)
DeliveredInv == \A e \in Delivered : Kept(e)
ContentInv ==
  WaysClear /\ ~Clash(root) /\ ~upgraded /\ ~Stopped => CopyInv /\ DeliveredInv

DeliveryInv ==
  /\ DynpaxInv /\ LoaderInv
  /\ RootInv /\ LedgerInv /\ CountInv /\ ContentInv

LEMMA FixedTarget ==
  ASSUME UNCHANGED inputs, UNCHANGED policy
  PROVE  /\ LoaderOfTarget' = LoaderOfTarget /\ InterpreterPath' = InterpreterPath
         /\ \A e : TargetEntry(e)' <=> TargetEntry(e)
<1>1. UNCHANGED <<host, exe, includeInterpreter>> BY DEF inputs
<1>2. InterpreterPath' = InterpreterPath BY FixedInterpreter
<1>3. \A p : HasInterpreter(p)' = HasInterpreter(p) BY <1>1, FixedHost DEF HasInterpreter
<1>4. LoaderOfTarget' = LoaderOfTarget BY <1>2, <1>3 DEF LoaderOfTarget, MakeEntry
<1> QED BY <1>1, <1>2, <1>3, <1>4 DEF TargetEntry

(* Planning.                                                               *)
LEMMA LoaderAppended ==
  ASSUME TypeOK, LoaderPlanned, UNCHANGED inputs, UNCHANGED policy,
         NEW e, manifest' = Append(manifest, e), TargetEntry(e),
         phase' = "planned" /\ InterpreterPath # NoPath => e = LoaderOfTarget
  PROVE  LoaderPlanned'
<1>1. /\ DOMAIN manifest' = DOMAIN manifest \cup {Len(manifest) + 1}
      /\ \A i \in DOMAIN manifest : manifest'[i] = manifest[i]
      /\ manifest'[Len(manifest) + 1] = e
  BY AppendedEntry
<1>2. \A i \in DOMAIN manifest' : TargetEntry(manifest'[i])
  BY <1>1 DEF LoaderPlanned
<1>3. \A i \in DOMAIN manifest' : TargetEntry(manifest[i])' BY <1>2, FixedTarget
<1>4. phase' = "planned" /\ InterpreterPath # NoPath =>
        \E i \in DOMAIN manifest' : manifest'[i] = LoaderOfTarget
  BY <1>1
<1> QED BY <1>3, <1>4, FixedTarget DEF LoaderPlanned

LEMMA LoaderSame ==
  ASSUME LoaderPlanned, UNCHANGED inputs, UNCHANGED <<policy, manifest>>,
         phase' = "planned" => phase = "planned" \/ InterpreterPath = NoPath
  PROVE  LoaderPlanned'
<1>1. \A i \in DOMAIN manifest' : TargetEntry(manifest[i])'
  BY FixedTarget DEF LoaderPlanned
<1> QED BY <1>1, FixedTarget DEF LoaderPlanned

LEMMA LoaderPlanStep ==
  ASSUME DynpaxInv, LoaderPlanned, Next
  PROVE  LoaderPlanned'
<1>0. /\ UNCHANGED inputs /\ UNCHANGED policy /\ TypeOK
      /\ phase = "open" => manifest = <<>>
  BY InputsStay DEF DynpaxInv, DynpaxTypeOK
<1>1. CASE Open
  <2> DEFINE e == MakeEntry("Executable", exe, exe.name,
                            BundlePathFor(policy, "Executable", exe, NoDir))
  <2>1. manifest = <<>> /\ manifest' = <<e>> /\ phase' = "dequeue" BY <1>0, <1>1 DEF Open
  <2>2. TargetEntry(e) BY DEF MakeEntry, TargetEntry
  <2> HIDE DEF e
  <2>3. manifest' = Append(manifest, e) BY <2>1
  <2> QED BY <1>0, <2>1, <2>2, <2>3, LoaderAppended
<1>2. CASE OpenFails BY <1>0, <1>2, LoaderSame DEF OpenFails
<1>3. CASE Dequeue
  <2> DEFINE dep == Dependency(Head(todo).owner, Head(todo).name)
  <2>1. CASE NewPayload(dep)
    <3> DEFINE e == MakeEntry("SharedObject", dep.canonical, dep.name,
                              LibraryPath(dep.canonical))
    <3>1. manifest' = Append(manifest, e) /\ phase' = "aliases"
      BY <2>1 DEF NewPayload, PlanAliasesOf
    <3>2. TargetEntry(e) BY DEF MakeEntry, TargetEntry
    <3> HIDE DEF e, dep
    <3> QED BY <1>0, <3>1, <3>2, LoaderAppended
  <2>2. CASE ~NewPayload(dep)
    <3>1. UNCHANGED manifest /\ phase' # "planned"
      BY <1>3, <2>2 DEF Dequeue, ResolveFails, SkipInterpreter, SkipUnparseable,
                        SeenPayload, PlanAliasesOf
    <3> QED BY <1>0, <3>1, LoaderSame
  <2> QED BY <2>1, <2>2
<1>4. CASE RegisterAlias BY <1>0, <1>4, LoaderSame DEF RegisterAlias
<1>5. CASE AliasesRegistered BY <1>0, <1>5, LoaderSame DEF AliasesRegistered
<1>6. CASE PlanTarget
  <2> DEFINE e == AliasEntry(Head(pending), PlannedLinkTarget(Head(pending).target))
  <2>1. manifest' = Append(manifest, e) /\ phase' = phase /\ phase = "targets"
    BY <1>6 DEF PlanTarget
  <2>2. TargetEntry(e) BY DEF AliasEntry, TargetEntry
  <2> HIDE DEF e
  <2> QED BY <1>0, <2>1, <2>2, LoaderAppended
<1>7. CASE TargetsPlanned BY <1>0, <1>7, LoaderSame DEF TargetsPlanned
<1>8. CASE Finish
  <2>1. IF InterpreterPath = NoPath THEN manifest' = manifest
        ELSE manifest' = Append(manifest, LoaderOfTarget)
    BY <1>8 DEF Finish, LoaderOfTarget
  <2>2. TargetEntry(LoaderOfTarget) BY DEF TargetEntry, LoaderOfTarget, MakeEntry
  <2>3. CASE InterpreterPath = NoPath BY <1>0, <2>1, <2>3, LoaderSame
  <2>4. CASE InterpreterPath # NoPath BY <1>0, <2>1, <2>2, <2>4, LoaderAppended
  <2> QED BY <2>3, <2>4
<1>9. LoaderPlanned'
  BY <1>1, <1>2, <1>3, <1>4, <1>5, <1>6, <1>7, <1>8 DEF Next
<1> QED BY <1>9

(* Building and delivering.                                                *)
LEMMA LoaderBuilt ==
  ASSUME LoaderInv, UNCHANGED <<vars, delivered, upgraded>>,
         Working' => phase = "planned",
         ~upgraded =>
           \A i \in Done' :
             manifest[i].kind = "Interpreter" =>
               \/ i \in Done /\ UNCHANGED interpreterBundlePath
               \/ interpreterBundlePath' = manifest[i].bundled
  PROVE  LoaderInv'
<1>1. UNCHANGED inputs /\ UNCHANGED <<host, includeInterpreter, policy, manifest, phase>>
  BY DEF vars, inputs, walkVars
<1>2. ASSUME ~upgraded PROVE LoaderPlanned' /\ LoaderKept' /\ LoadersDelivered'
  <2>1. LoaderPlanned' BY <1>1, <1>2, LoaderSame DEF LoaderInv
  <2>2. LoaderKept' BY <1>1, <1>2 DEF LoaderInv, LoaderKept
  <2>3. LoadersDelivered'
    BY <1>1, <1>2, FixedLoader DEF LoaderInv, LoadersDelivered, Delivered, EntriesOf
  <2> QED BY <2>1, <2>2, <2>3
<1> QED BY <1>1, <1>2 DEF LoaderInv

LEMMA LoaderTaken ==
  ASSUME manifest' = <<>>, phase' = "open", ~Working',
         ~upgraded' => LoadersDelivered'
  PROVE  LoaderInv'
<1>1. Done' = {}
  BY DEF Done, Working
<1> QED BY <1>1 DEF LoaderInv, LoaderPlanned, LoaderKept

LEMMA LoaderDelivered ==
  ASSUME DynpaxInv, LoaderInv, stage = "verify", ~upgraded,
         delivered' = Append(delivered, manifest),
         UNCHANGED <<host, includeInterpreter, policy>>
  PROVE  LoadersDelivered'
<1>1. LoaderPlanned /\ LoadersDelivered /\ phase = "planned"
  BY DEF LoaderInv, Working
<1>2. /\ delivered \in Seq(Seq(Entry)) /\ manifest \in Seq(Entry)
  BY DEF DynpaxInv, DynpaxTypeOK, TypeOK
<1>3. /\ \A f : f \in Delivered' <=> f \in Delivered \/ \E i \in DOMAIN manifest : f = manifest[i]
  <2>1. /\ DOMAIN delivered' = DOMAIN delivered \cup {Len(delivered) + 1}
        /\ \A k \in DOMAIN delivered : delivered'[k] = delivered[k]
        /\ delivered'[Len(delivered) + 1] = manifest
    BY <1>2, AppendProperties, LenProperties
  <2> QED BY <2>1 DEF Delivered, EntriesOf
<1>4. ASSUME NEW e \in Delivered', e.kind = "Executable"
      PROVE  e.hasInterp = HasInterpreter(e.source) /\ (WithLoader(e) => Loader(e) \in Delivered')
  <2>1. CASE e \in Delivered BY <1>1, <1>3, <1>4, <2>1 DEF LoadersDelivered
  <2>2. CASE \E i \in DOMAIN manifest : e = manifest[i]
    <3>1. e.source = exe /\ e.hasInterp = HasInterpreter(exe)
      BY <1>1, <1>4, <2>2 DEF LoaderPlanned, TargetEntry
    <3>2. ASSUME WithLoader(e) PROVE Loader(e) \in Delivered'
      <4>1. InterpreterPath = Elf(exe).interp /\ InterpreterPath # NoPath
        BY <3>1, <3>2 DEF WithLoader, HasInterpreter, InterpreterPath
      <4>2. Loader(e) = LoaderOfTarget
        BY <3>1, <4>1 DEF Loader, LoaderPath, LoaderOfTarget
      <4> QED BY <1>1, <1>3, <4>1, <4>2 DEF LoaderPlanned
    <3> QED BY <3>1, <3>2
  <2> QED BY <1>3, <1>4, <2>1, <2>2
<1> QED BY <1>4, FixedLoader DEF LoadersDelivered

LEMMA LoaderBuildStep ==
  ASSUME DynpaxInv, LoaderInv, Build, UNCHANGED programVars PROVE LoaderInv'
<1>1. /\ UNCHANGED <<vars, delivered, upgraded>>
      /\ Working /\ phase = "planned"
  BY DEF Build, vars, programVars, LoaderInv, Working, CopyEntry, TouchExecutable,
         LinkAlias, MaterializeFails, Materialized, SkipRewrite, RewriteExecutable,
         RewriteLibrary, ReopenFails, Rewritten, MaterializeFault, RewriteFault,
         RewriteLost, Materializing, Rewriting
<1>2. /\ next \in Nat /\ DOMAIN manifest = 1..Len(manifest) /\ Len(manifest) \in Nat
      /\ next \in 1..(Len(manifest) + 1)
  <2>1. manifest \in Seq(Entry) /\ next \in 1..(Len(manifest) + 1)
    BY DEF DynpaxInv, DynpaxTypeOK, TypeOK
  <2> QED BY <2>1, LenProperties
<1>3. CASE Done' \subseteq Done /\ UNCHANGED interpreterBundlePath
  BY <1>1, <1>3, LoaderBuilt
<1>4. CASE TouchExecutable \/ LinkAlias
  <2>1. /\ stage = "materialize" /\ UNCHANGED <<stage, interpreterBundlePath>>
        /\ next' = next + 1 /\ manifest[next].kind # "Interpreter"
    BY <1>4 DEF TouchExecutable, LinkAlias, Materializing, entry
  <2>2. \A i \in Done' : i \in Done \/ i = next BY <1>2, <2>1 DEF Done
  <2> QED BY <1>1, <2>1, <2>2, LoaderBuilt
<1>5. CASE CopyEntry
  <2>1. /\ stage = "materialize" /\ UNCHANGED stage /\ next' = next + 1
        /\ next \in DOMAIN manifest
        /\ interpreterBundlePath' =
             IF manifest[next].kind = "Interpreter" THEN manifest[next].bundled
             ELSE interpreterBundlePath
    BY <1>2, <1>5 DEF CopyEntry, Materializing, entry, More
  <2>2. \A i \in Done' : i \in DOMAIN manifest /\ (i \in Done \/ i = next)
    BY <1>2, <2>1 DEF Done
  <2>3. ASSUME ~upgraded, NEW i \in Done', manifest[i].kind = "Interpreter"
        PROVE  \/ i \in Done /\ UNCHANGED interpreterBundlePath
               \/ interpreterBundlePath' = manifest[i].bundled
    <3>1. \A j \in DOMAIN manifest :
            manifest[j].kind = "Interpreter" => manifest[j] = LoaderOfTarget
      BY <2>3 DEF LoaderInv, LoaderPlanned, TargetEntry
    <3>2. manifest[next].kind = "Interpreter" => manifest[next] = manifest[i]
      BY <2>1, <2>2, <2>3, <3>1
    <3> QED BY <2>1, <2>2, <2>3, <3>2
  <2> QED BY <1>1, <2>3, LoaderBuilt
<1>6. ASSUME \/ MaterializeFails \/ Materialized \/ SkipRewrite \/ RewriteExecutable
             \/ RewriteLibrary \/ ReopenFails \/ Rewritten \/ MaterializeFault
             \/ RewriteFault \/ RewriteLost
      PROVE  Done' \subseteq Done /\ UNCHANGED interpreterBundlePath
  <2>1. /\ UNCHANGED <<manifest, interpreterBundlePath>>
        /\ \/ stage' = "error"
           \/ stage = "materialize" /\ ~More /\ stage' = "rewrite"
           \/ stage = "rewrite" /\ stage' \in {"rewrite", "verify"}
    BY <1>6 DEF walkVars, MaterializeFails, Materialized, SkipRewrite, RewriteExecutable,
         RewriteLibrary, ReopenFails, Rewritten, MaterializeFault, RewriteFault,
         RewriteLost, Rewriting
  <2> QED BY <1>2, <2>1 DEF Done, More
<1> QED BY <1>3, <1>4, <1>5, <1>6 DEF Build

LEMMA LoaderInvStep ==
  ASSUME DynpaxInv, LoaderInv, [DynpaxNext]_dynpaxVars PROVE LoaderInv'
<1>1. CASE Plan
  <2>1. /\ stage = "plan" /\ stage' = "plan" /\ Next
        /\ UNCHANGED <<delivered, upgraded>>
    BY <1>1 DEF Plan, buildVars, programVars
  <2>2. UNCHANGED <<host, includeInterpreter, policy>>
    BY <2>1, InputsStay DEF inputs
  <2>3. Done' = {} /\ ~Working' BY <2>1 DEF Done, Working
  <2>4. ~upgraded => LoaderPlanned' BY <2>1, LoaderPlanStep DEF LoaderInv
  <2>5. ~upgraded => LoadersDelivered'
    BY <2>1, <2>2, FixedLoader DEF LoaderInv, LoadersDelivered, Delivered, EntriesOf
  <2> QED BY <2>1, <2>3, <2>4, <2>5 DEF LoaderInv, LoaderKept
<1>2. CASE BuildStep BY <1>2, LoaderBuildStep DEF BuildStep
<1>3. CASE PlanDone \/ PlanFails \/ VerifyFails
  <2>1. /\ UNCHANGED <<vars, delivered, upgraded>>
        /\ \/ stage' = "error"
           \/ stage' = "materialize" /\ phase = "planned" /\ next' = next /\ stage = "plan"
    BY <1>3 DEF PlanDone, PlanFails, VerifyFails, programVars, vars
  <2>2. Done' = {} BY <2>1 DEF Done, DynpaxInv
  <2>3. Working' => phase = "planned" BY <2>1 DEF Working
  <2> QED BY <2>1, <2>2, <2>3, LoaderBuilt
<1>4. CASE NextTarget
  <2>1. /\ stage = "verify" /\ stage' = "plan" /\ manifest' = <<>> /\ phase' = "open"
        /\ delivered' = Append(delivered, manifest)
        /\ UNCHANGED <<host, includeInterpreter, policy, upgraded>>
    BY <1>4 DEF NextTarget, Take
  <2>2. ~upgraded => LoadersDelivered' BY <2>1, LoaderDelivered
  <2> QED BY <2>1, <2>2, LoaderTaken DEF Working
<1>5. CASE LastTarget
  <2>1. /\ stage = "verify" /\ stage' = "success"
        /\ delivered' = Append(delivered, manifest)
        /\ UNCHANGED inputs /\ UNCHANGED <<policy, manifest, phase, upgraded>>
        /\ UNCHANGED <<host, includeInterpreter, policy>>
    BY <1>5 DEF LastTarget, vars, walkVars, inputs
  <2>2. ~upgraded => LoadersDelivered' BY <2>1, LoaderDelivered
  <2>3. ~upgraded => LoaderPlanned' BY <2>1, LoaderSame DEF LoaderInv
  <2>4. Done' = {} /\ ~Working' BY <2>1 DEF Done, Working
  <2> QED BY <2>1, <2>2, <2>3, <2>4 DEF LoaderInv, LoaderKept
<1>6. CASE Kill \/ GiveAgain
  <2>1. /\ stage' \in {"killed", "plan"} /\ manifest' = <<>> /\ phase' = "open"
        /\ delivered' = <<>>
    BY <1>6 DEF Kill, GiveAgain, Restart, Take
  <2>2. LoadersDelivered' BY <2>1 DEF LoadersDelivered, Delivered
  <2> QED BY <2>1, <2>2, LoaderTaken DEF Working
<1>7. CASE HostChanges
  <2>1. upgraded' = TRUE /\ UNCHANGED <<phase, stage>>
    BY <1>7 DEF HostChanges, walkVars, buildVars
  <2> QED BY <2>1 DEF LoaderInv, Working
<1>8. CASE UNCHANGED dynpaxVars
  <2>1. /\ UNCHANGED <<vars, delivered, upgraded>>
        /\ UNCHANGED <<stage, next, manifest, interpreterBundlePath>>
    BY <1>8 DEF dynpaxVars, vars, walkVars, buildVars, programVars
  <2>2. Done' = Done /\ (Working' => Working) BY <2>1 DEF Done, Working
  <2> QED BY <2>1, <2>2, LoaderBuilt DEF LoaderInv
<1> QED BY <1>1, <1>2, <1>3, <1>4, <1>5, <1>6, <1>7, <1>8 DEF DynpaxNext, Program

-----------------------------------------------------------------------------
(* The root and the ledger.                                                *)

LEMMA SameLedger ==
  ASSUME UNCHANGED ledger
  PROVE  /\ Geography(root)' <=> Geography(root')
         /\ FilesPlanned(root)' <=> FilesPlanned(root')
         /\ Clash(root)' <=> Clash(root')
         /\ WaysClear' <=> WaysClear
BY DEF Geography, LinksPlanned, PlannedLink, DirectoriesPlanned, PlannedWay,
       FilesPlanned, PlannedFile, Clash, WaysClear

LEMMA MoreLedger ==
  ASSUME ledger \subseteq ledger', UNCHANGED root
  PROVE  /\ Geography(root) => Geography(root)'
         /\ FilesPlanned(root) => FilesPlanned(root)'
         /\ Clash(root) => Clash(root)'
         /\ WaysClear' => WaysClear
BY DEF Geography, LinksPlanned, PlannedLink, DirectoriesPlanned, PlannedWay,
       FilesPlanned, PlannedFile, Clash, WaysClear

LEMMA SameWhole ==
  ASSUME UNCHANGED <<host, policy, includeInterpreter>>, lost \subseteq lost',
         NEW e, Whole(root', e)
  PROVE  Whole(root, e)'
<1>1. /\ WithLoader(e)' <=> WithLoader(e)
      /\ LoaderPath(e)' = LoaderPath(e)
  BY FixedLoader
<1> QED BY <1>1, FixedHost DEF Whole

LEMMA SameRouted ==
  ASSUME UNCHANGED <<policy, delivered>>, NEW e
  PROVE  Routed(root, e)' <=> Routed(root', e)
BY DEF Routed, TextsOf, EntriesOf

LEMMA RootStep ==
  ASSUME DynpaxInv, RootInv, UNCHANGED ledger, WaysClear => Onward(root, root')
  PROVE  RootInv'
<1> SUFFICES ASSUME WaysClear
             PROVE  Geography(root') /\ (~Clash(root') => FilesPlanned(root'))
  BY SameLedger DEF RootInv
<1>1. Clear BY DEF Clear, DynpaxInv, DynpaxTypeOK
<1>2. Geography(root) /\ Tree(root) BY DEF RootInv, Geography
<1>3. Onward(root, root') /\ Tree(root') /\ Grows(root, root')
  BY DEF Onward, Geography
<1>4. ~Clash(root') => ~Clash(root) BY <1>1, <1>2, <1>3, ClashStays
<1> QED BY <1>3, <1>4 DEF RootInv, Onward

(* A step of the builder that goes on to the next entry.                    *)
LEMMA EntryStep ==
  ASSUME DeliveryInv, More, stage \in {"materialize", "rewrite"},
         UNCHANGED <<host, policy, includeInterpreter,
                     manifest, stage, ledger, delivered, upgraded>>,
         next' = next + 1,
         WaysClear =>
           /\ Onward(root, root') /\ Steady(root, root', entry)
           /\ ~Clash(root') /\ ~upgraded =>
                \A l \in DOMAIN root :
                  \/ root'[l] = root[l]
                  \/ /\ l = Lies(root', entry)
                     /\ root'[l].kind = "file" => Fits(root'[l], entry),
         lost \subseteq lost',
         WaysClear /\ ~Clash(root') /\ ~upgraded /\ entry.kind # "SymlinkAlias" =>
           /\ stage = "materialize" => Written(root', entry)
           /\ \/ stage = "materialize" /\ entry.kind = "Executable"
              \/ Sound(root', entry, lost')
  PROVE  RootInv' /\ ContentInv'
<1>1. RootInv' BY RootStep DEF DeliveryInv
<1>2. ASSUME WaysClear, ~Clash(root'), ~upgraded PROVE CopyInv' /\ DeliveredInv'
  <2>1. Clear /\ DynpaxInv BY <1>2 DEF Clear, DeliveryInv, DynpaxInv, DynpaxTypeOK
  <2>2. /\ Geography(root) /\ Onward(root, root') /\ Steady(root, root', entry)
        /\ Tree(root) /\ Tree(root') /\ Grows(root, root')
    BY <1>2 DEF DeliveryInv, RootInv, Geography, Onward
  <2>3. ~Clash(root) BY <2>1, <2>2, <1>2, ClashStays
  <2>4. FilesPlanned(root) BY <1>2, <2>3 DEF DeliveryInv, RootInv
  <2>5. /\ next \in DOMAIN manifest /\ next \in Nat /\ entry = manifest[next]
        /\ DOMAIN manifest = 1..Len(manifest) /\ Len(manifest) \in Nat
    <3>1. manifest \in Seq(Entry) BY <2>1 DEF DynpaxInv, DynpaxTypeOK, TypeOK
    <3> QED BY <2>1, <3>1, EntryFacts, LenProperties
  <2>6. Working /\ ~Stopped BY DEF Working, Stopped
  <2>7. EntriesOf(manifest) \subseteq ledger BY <2>6 DEF DeliveryInv, LedgerInv
  <2>8. entry \in ledger BY <2>5, <2>7 DEF EntriesOf
  <2>9. CopyInv /\ DeliveredInv BY <1>2, <2>3, <2>6 DEF DeliveryInv, ContentInv
  <2>10. CopyInv'
    <3> SUFFICES ASSUME NEW i \in Done', manifest[i].kind # "SymlinkAlias"
                 PROVE  /\ Written(root', manifest[i])
                        /\ PastRewrite(i)' => Sound(root', manifest[i], lost')
      BY FixedHost DEF CopyInv, Written, Fits, Sound
    <3>1. i \in Done \/ (stage = "materialize" /\ i = next)
      BY <2>5 DEF Done
    <3>2. CASE i \in Done
      <4>1. Written(root, manifest[i]) BY <2>9, <3>2 DEF CopyInv
      <4>2. i \in DOMAIN manifest /\ i \in Nat BY <2>5, <3>2 DEF Done
      <4>3. manifest[i] \in ledger BY <2>7, <4>2 DEF EntriesOf
      <4>4. Written(root', manifest[i])
        BY <1>2, <2>1, <2>2, <2>4, <2>8, <4>1, <4>3, WrittenStays
      <4>5. ASSUME PastRewrite(i)' PROVE Sound(root', manifest[i], lost')
        <5>1. CASE stage = "rewrite" /\ i = next BY <1>2, <2>5, <5>1
        <5>2. CASE ~(stage = "rewrite" /\ i = next)
          <6>1. PastRewrite(i) BY <2>5, <4>2, <4>5, <5>2 DEF PastRewrite
          <6>2. Sound(root, manifest[i], lost) BY <2>9, <3>2, <6>1 DEF CopyInv
          <6>3. ASSUME Same(manifest[i], entry) PROVE Sound(root', entry, lost')
            <7>1. stage = "materialize" => entry.kind # "Executable"
              BY <6>1, <6>3 DEF PastRewrite, Same
            <7> QED BY <1>2, <6>3, <7>1 DEF Same
          <6>4. \A l \in DOMAIN root : root'[l] = root[l] \/ l = Lies(root', entry)
            BY <1>2
          <6> QED BY <1>2, <2>1, <2>2, <2>8, <4>1, <4>3, <6>2, <6>3, <6>4, SoundStays
        <5> QED BY <5>1, <5>2
      <4> QED BY <4>4, <4>5
    <3>3. CASE stage = "materialize" /\ i = next
      BY <1>2, <2>5, <3>3 DEF PastRewrite
    <3> QED BY <3>1, <3>2, <3>3
  <2>11. DeliveredInv'
    <3> SUFFICES ASSUME NEW f \in Delivered PROVE Kept(f)'
      BY DEF DeliveredInv, Delivered, EntriesOf
    <3>1. Kept(f) /\ f \in ledger /\ Stays(root, f) BY <2>9 DEF DeliveredInv, Kept
    <3>2. /\ Stays(root', f) /\ Lies(root', f) = Lies(root, f)
          /\ \/ /\ root'[Lies(root', f)] = root[Lies(root, f)]
                /\ Whole(root, f) => Whole(root', f)
             \/ Lies(root', entry) = Lies(root', f)
      BY <1>2, <2>1, <2>2, <2>4, <2>8, <3>1, StaysStays
    <3>3. CASE /\ Whole(root, f) /\ Routed(root, f)
               /\ root'[Lies(root', f)] = root[Lies(root, f)]
               /\ Whole(root, f) => Whole(root', f)
      <4>1. Delivered \subseteq ledger BY <2>9 DEF DeliveredInv, Kept
      <4>2. Routed(root', f)
        BY <2>1, <2>2, <3>1, <3>2, <3>3, <4>1, RoutedStays DEF Stays
      <4> QED BY <3>1, <3>2, <3>3, <4>2, SameWhole, SameRouted DEF Kept
    <3>4. CASE Lies(root', entry) = Lies(root', f)
      <4>1. Reworked(f)' BY <2>5, <2>6, <3>4 DEF Reworked, Working
      <4> QED BY <3>1, <3>2, <4>1, SameWhole DEF Kept
    <3>5. CASE Reworked(f)
      <4>1. PICK i \in DOMAIN manifest : Lies(root, manifest[i]) = Lies(root, f)
        BY <3>5 DEF Reworked
      <4>2. manifest[i] \in ledger BY <2>7 DEF EntriesOf
      <4>3. Lies(root', manifest[i]) = Lies(root, manifest[i])
        BY <2>1, <2>2, <3>1, <4>1, <4>2, LiesWithin DEF Stays
      <4>4. Reworked(f)' BY <2>6, <3>2, <4>1, <4>3 DEF Reworked, Working
      <4> QED BY <3>1, <3>2, <4>4, SameWhole DEF Kept
    <3> QED BY <3>1, <3>2, <3>3, <3>4, <3>5 DEF Kept
  <2> QED BY <2>10, <2>11
<1>3. ContentInv' BY <1>2, SameLedger DEF ContentInv
<1> QED BY <1>1, <1>3

-----------------------------------------------------------------------------
(* The steps of the builder.                                               *)

LEMMA SteadyAfter ==
  ASSUME Clear, NEW t, Geography(t), NEW u, Onward(t, u), Extends(t, u),
         NEW v, Onward(u, v), NEW e, Steady(u, v, e)
  PROVE  Steady(t, v, e)
<1> SUFFICES ASSUME ~Clash(v), FilesPlanned(t)
             PROVE  /\ Keeps(t, v)
                    /\ \A l \in DOMAIN t : v[l] = t[l] \/ l = Lies(v, e)
  BY DEF Steady
<1>1. ~Clash(u) BY ClashStays DEF Onward, Geography
<1>2. FilesPlanned(u) BY <1>1 DEF Onward
<1>3. /\ Keeps(u, v)
      /\ \A l \in DOMAIN u : v[l] = u[l] \/ l = Lies(v, e)
  BY <1>2 DEF Steady
<1> QED BY <1>3 DEF Keeps, Extends

LEMMA AtWork ==
  ASSUME DeliveryInv, More, stage \in {"materialize", "rewrite"}
  PROVE  /\ DynpaxInv /\ Tree(root) /\ HostType /\ policy \in Policy /\ ~Ended
         /\ entry \in ledger /\ entry.source \in Path /\ entry.bundled \in Path
         /\ entry.kind = "SymlinkAlias" => entry.target \in Path
         /\ WaysClear => Clear /\ Geography(root)
         /\ next \in DOMAIN manifest /\ entry = manifest[next]
<1>1. Working /\ ~Ended BY DEF Working, Ended
<1>2. DynpaxInv /\ EntriesOf(manifest) \subseteq ledger BY <1>1 DEF DeliveryInv, LedgerInv
<1>3. /\ next \in DOMAIN manifest /\ entry = manifest[next]
      /\ entry.source \in Path /\ entry.bundled \in Path
      /\ entry.kind = "SymlinkAlias" => entry.target \in Path
  BY <1>2, EntryFacts
<1>4. entry \in ledger BY <1>2, <1>3 DEF EntriesOf
<1>5. WaysClear => Clear /\ Geography(root)
  BY DEF DeliveryInv, RootInv, Clear, DynpaxInv, DynpaxTypeOK
<1> QED BY <1>1, <1>2, <1>3, <1>4, <1>5 DEF DynpaxInv, DynpaxTypeOK, RootType, TypeOK

LEMMA PreparedOnward ==
  ASSUME DeliveryInv, More, stage = "materialize", WaysClear, NEW t \in Prepared
  PROVE  Onward(root, t) /\ Extends(root, t)
<1>1. Clear /\ Geography(root) /\ policy \in Policy /\ entry \in ledger BY AtWork
<1> DEFINE u == Bootstrap(root, policy)
<1>2. Onward(root, u) /\ Extends(root, u) BY <1>1, BootstrapOnward
<1>3. t = MakeDirectories(u, Components[entry.bundled.dir]) BY DEF Prepared
<1> HIDE DEF u
<1>4. Onward(u, t) /\ Extends(u, t) BY <1>1, <1>2, <1>3, MakeOnward DEF Onward
<1> QED BY <1>1, <1>2, <1>4, OnwardAgain, ExtendsFurther

(* What the operations leave behind, whole or torn, after directories were  *)
(* made or not.                                                             *)
LEMMA WriteStep ==
  ASSUME DeliveryInv, More, stage \in {"materialize", "rewrite"}, WaysClear,
         entry.kind # "SymlinkAlias",
         NEW t, Onward(root, t), Extends(root, t),
         NEW file \in BundleFile,
         NEW u, u = WriteAt(t, entry.bundled, file)
  PROVE  /\ Onward(root, u) /\ Steady(root, u, entry)
         /\ ~Clash(u) =>
              /\ \A l \in DOMAIN root :
                   u[l] = root[l] \/ (l = Lies(u, entry) /\ u[l] = file)
              /\ Writable(t, entry.bundled) =>
                   Lies(u, entry) \in DOMAIN u /\ u[Lies(u, entry)] = file
<1>1. Clear /\ Geography(root) /\ entry \in ledger BY AtWork
<1>2. Geography(t) BY DEF Onward
<1>3. /\ Onward(t, u) /\ Steady(t, u, entry)
      /\ ~Clash(u) =>
           /\ \A l \in DOMAIN u :
                (l \in DOMAIN t /\ u[l] = t[l]) \/ (l = Lies(u, entry) /\ u[l] = file)
           /\ Writable(t, entry.bundled) =>
                Lies(u, entry) \in DOMAIN u /\ u[Lies(u, entry)] = file
  BY <1>1, <1>2, WriteOnward
<1>4. Onward(root, u) BY <1>1, <1>3, OnwardAgain
<1>5. Steady(root, u, entry) BY <1>1, <1>3, SteadyAfter
<1>6. ASSUME ~Clash(u), NEW l \in DOMAIN root
      PROVE  u[l] = root[l] \/ (l = Lies(u, entry) /\ u[l] = file)
  <2>1. Keeps(t, u) \/ ~FilesPlanned(t) BY <1>3, <1>6 DEF Steady
  <2>2. ~Clash(t) /\ ~Clash(root)
    BY <1>1, <1>2, <1>3, <1>4, <1>6, ClashStays DEF Onward, Geography
  <2>3. FilesPlanned(t) BY <1>1, <2>2 DEF DeliveryInv, RootInv, Onward
  <2>4. l \in DOMAIN t /\ t[l] = root[l] /\ l \in DOMAIN u
    BY <2>1, <2>3 DEF Extends, Keeps
  <2> QED BY <1>3, <1>6, <2>4
<1> QED BY <1>3, <1>4, <1>5, <1>6

LEMMA TornOnward ==
  ASSUME DeliveryInv, WaysClear, NEW t \in Torn
  PROVE  Onward(root, t)
<1>1. Geography(root) /\ Clear /\ DynpaxInv /\ policy \in Policy
  BY DEF DeliveryInv, RootInv, Clear, DynpaxInv, DynpaxTypeOK, TypeOK
<1>2. ASSUME NEW u \in Prepared, More, stage = "materialize"
      PROVE  Onward(root, u) /\ Extends(root, u) /\ Geography(u)
  BY <1>2, PreparedOnward DEF Onward
<1>3. CASE t = root BY <1>1, <1>3, OnwardSame
<1>4. CASE Materializing /\ t \in BootstrapCut(root, policy) \cup Prepared
  BY <1>1, <1>2, <1>4, BootstrapOnward DEF Materializing
<1>5. CASE TornLink(t)
  <2>1. PICK u \in Prepared : t = Removed(u, entry.bundled) BY <1>5 DEF TornLink
  <2>2. /\ More /\ stage = "materialize" /\ entry.kind = "SymlinkAlias"
        /\ entry \in ledger /\ entry.target \in Path
    BY <1>5, AtWork DEF TornLink, Materializing
  <2>3. Onward(root, u) /\ Geography(u) BY <1>2, <2>2
  <2>4. Onward(u, t) BY <1>1, <2>1, <2>2, <2>3, RemovedOnward
  <2> QED BY <1>1, <2>3, <2>4, OnwardAgain
<1>6. CASE TornFile(t)
  <2>1. /\ More /\ entry.kind # "SymlinkAlias" /\ stage \in {"materialize", "rewrite"}
        /\ \E file \in BundleFile : \E u :
             /\ t = WriteAt(u, entry.bundled, file)
             /\ IF stage = "materialize" THEN u \in Prepared ELSE u = root
    BY <1>6 DEF TornFile
  <2>2. PICK file \in BundleFile : \E u :
          /\ t = WriteAt(u, entry.bundled, file)
          /\ IF stage = "materialize" THEN u \in Prepared ELSE u = root
    BY <2>1
  <2>3. PICK u : /\ t = WriteAt(u, entry.bundled, file)
                 /\ IF stage = "materialize" THEN u \in Prepared ELSE u = root
    BY <2>2
  <2>4. Onward(root, u) /\ Extends(root, u)
    BY <1>1, <1>2, <2>1, <2>3, OnwardSame DEF Extends
  <2> QED BY <2>1, <2>3, <2>4, WriteStep
<1> QED BY <1>1, <1>3, <1>4, <1>5, <1>6, TornIs

(* A step that stops the program.                                           *)
LEMMA StopStep ==
  ASSUME DeliveryInv, UNCHANGED ledger, stage' \in {"error", "killed"},
         root' = root \/ root' \in Torn
  PROVE  RootInv' /\ LedgerInv' /\ CountInv' /\ ContentInv'
<1>1. WaysClear => Onward(root, root')
  BY TornOnward, OnwardSame DEF DeliveryInv, RootInv
<1>2. RootInv' BY <1>1, RootStep DEF DeliveryInv
<1> QED BY <1>2 DEF LedgerInv, CountInv, ContentInv, Stopped, Working

(* An operation on the current entry, and on to the next.                   *)
LEMMA FileStep ==
  ASSUME DeliveryInv, More, stage \in {"materialize", "rewrite"},
         UNCHANGED <<vars, programVars, stage>>, next' = next + 1,
         entry.kind # "SymlinkAlias", lost \subseteq lost',
         NEW t, WaysClear => Onward(root, t) /\ Extends(root, t),
         NEW file \in BundleFile,
         root' = WriteAt(t, entry.bundled, file),
         WaysClear /\ ~Clash(root') /\ ~upgraded =>
           /\ Fits(file, entry)
           /\ Writable(t, entry.bundled)
           /\ \/ stage = "materialize" /\ entry.kind = "Executable"
              \/ file.whole \/ Lies(root', entry) \in lost'
  PROVE  RootInv' /\ LedgerInv' /\ CountInv' /\ ContentInv'
<1>1. UNCHANGED <<host, policy, includeInterpreter,
                  manifest, ledger, delivered, upgraded, rest, command>>
  BY DEF vars, inputs, walkVars, programVars
<1>2. ASSUME WaysClear
      PROVE  /\ Onward(root, root') /\ Steady(root, root', entry)
             /\ ~Clash(root') =>
                  /\ \A l \in DOMAIN root :
                       root'[l] = root[l] \/ (l = Lies(root', entry) /\ root'[l] = file)
                  /\ Writable(t, entry.bundled) =>
                       Lies(root', entry) \in DOMAIN root'
                       /\ root'[Lies(root', entry)] = file
  BY <1>2, WriteStep
<1>3. WaysClear =>
        /\ Onward(root, root') /\ Steady(root, root', entry)
        /\ ~Clash(root') /\ ~upgraded =>
             \A l \in DOMAIN root :
               \/ root'[l] = root[l]
               \/ /\ l = Lies(root', entry)
                  /\ root'[l].kind = "file" => Fits(root'[l], entry)
  BY <1>2
<1>4. WaysClear /\ ~Clash(root') /\ ~upgraded /\ entry.kind # "SymlinkAlias" =>
        /\ stage = "materialize" => Written(root', entry)
        /\ \/ stage = "materialize" /\ entry.kind = "Executable"
           \/ Sound(root', entry, lost')
  BY <1>2 DEF Written, Sound
<1>5. RootInv' /\ ContentInv' BY <1>1, <1>3, <1>4, EntryStep
<1>6. LedgerInv' /\ CountInv'
  BY <1>1 DEF DeliveryInv, LedgerInv, CountInv, Working, Stopped, EntriesOf
<1> QED BY <1>5, <1>6

(* The position moves to the next phase of the build.                       *)
LEMMA PhaseStep ==
  ASSUME DeliveryInv, UNCHANGED <<vars, programVars, root, lost>>,
         \/ stage = "materialize" /\ ~More /\ stage' = "rewrite" /\ next' = 1
         \/ stage = "rewrite" /\ ~More /\ stage' = "verify"
         \/ /\ stage = "rewrite" /\ stage' = "rewrite" /\ next' = next + 1
            /\ entry.kind # "Executable"
  PROVE  RootInv' /\ LedgerInv' /\ CountInv' /\ ContentInv'
<1>1. UNCHANGED <<host, policy, includeInterpreter,
                  manifest, ledger, delivered, upgraded, rest, command>>
  BY DEF vars, inputs, walkVars, programVars
<1>2. Working /\ Working' /\ ~Stopped /\ ~Stopped' BY DEF Working, Stopped
<1>3. RootInv' /\ LedgerInv'
  <2>1. WaysClear => Onward(root, root') BY OnwardSame DEF DeliveryInv, RootInv
  <2> QED BY <1>1, <1>2, <2>1, RootStep DEF DeliveryInv, LedgerInv, EntriesOf
<1>4. CountInv' BY <1>1, <1>2 DEF DeliveryInv, CountInv
<1>5. ASSUME WaysClear, ~Clash(root), ~upgraded PROVE CopyInv' /\ DeliveredInv'
  <2>1. CopyInv /\ DeliveredInv BY <1>2, <1>5 DEF DeliveryInv, ContentInv
  <2>2. /\ next \in Nat /\ DOMAIN manifest = 1..Len(manifest) /\ Len(manifest) \in Nat
    <3>1. manifest \in Seq(Entry) /\ next \in 1..(Len(manifest) + 1)
      BY DEF DeliveryInv, DynpaxInv, DynpaxTypeOK, TypeOK
    <3> QED BY <3>1, LenProperties
  <2>3. CopyInv'
    <3> SUFFICES ASSUME NEW i \in Done', manifest[i].kind # "SymlinkAlias"
                 PROVE  /\ Written(root, manifest[i])
                        /\ PastRewrite(i)' => Sound(root, manifest[i], lost)
      BY <1>1, FixedHost DEF CopyInv, Written, Fits, Sound
    <3>1. i \in Done /\ i \in 1..Len(manifest) BY <1>1, <2>2 DEF Done, More
    <3>2. PastRewrite(i)' => PastRewrite(i)
      BY <1>1, <2>2, <3>1 DEF PastRewrite, More, entry
    <3> QED BY <2>1, <3>1, <3>2 DEF CopyInv
  <2>4. DeliveredInv'
    <3> SUFFICES ASSUME NEW f \in Delivered PROVE Kept(f)'
      BY <1>1 DEF DeliveredInv, Delivered, EntriesOf
    <3>1. Kept(f) BY <2>1 DEF DeliveredInv
    <3>2. /\ Whole(root, f) => Whole(root, f)'
          /\ Routed(root, f)' <=> Routed(root, f)
      BY <1>1, SameWhole, SameRouted DEF programVars
    <3>3. Reworked(f) => Reworked(f)' BY <1>1, <1>2 DEF Reworked
    <3> QED BY <1>1, <3>1, <3>2, <3>3 DEF Kept
  <2> QED BY <2>3, <2>4
<1>6. ContentInv' BY <1>1, <1>5, SameLedger DEF ContentInv
<1> QED BY <1>3, <1>4, <1>6

LEMMA LinkStep ==
  ASSUME DeliveryInv, LinkAlias, UNCHANGED programVars
  PROVE  RootInv' /\ LedgerInv' /\ CountInv' /\ ContentInv'
<1>1. /\ stage = "materialize" /\ More /\ entry.kind = "SymlinkAlias"
      /\ next' = next + 1
      /\ UNCHANGED <<host, policy, includeInterpreter,
                     manifest, stage, ledger, delivered, upgraded, rest, command, lost>>
  BY DEF LinkAlias, Materializing, inputs, walkVars, programVars, bounds
<1>2. PICK t \in Prepared : root' = SymlinkTo(t, entry.bundled, entry.target)
  BY DEF LinkAlias
<1>3. ASSUME WaysClear
      PROVE  /\ Onward(root, root') /\ Steady(root, root', entry)
             /\ ~Clash(root') =>
                  \A l \in DOMAIN root :
                    \/ root'[l] = root[l]
                    \/ /\ l = Lies(root', entry)
                       /\ root'[l].kind = "file" => Fits(root'[l], entry)
  <2>1. /\ Clear /\ Geography(root) /\ entry \in ledger /\ entry.target \in Path
    BY <1>1, <1>3, AtWork
  <2>2. Onward(root, t) /\ Extends(root, t) BY <1>1, <1>3, PreparedOnward
  <2>3. Geography(t) BY <2>2 DEF Onward
  <2>4. /\ Onward(t, root') /\ Steady(t, root', entry)
        /\ \A l \in DOMAIN root' :
             (l \in DOMAIN t /\ root'[l] = t[l])
             \/ (l = Lies(root', entry) /\ root'[l] = LinkNode(AliasText(entry)))
    BY <1>1, <1>2, <2>1, <2>3, LinkOnward
  <2>5. Onward(root, root') BY <2>1, <2>2, <2>4, OnwardAgain
  <2>6. Steady(root, root', entry) BY <2>1, <2>2, <2>4, SteadyAfter
  <2>7. ASSUME ~Clash(root'), NEW l \in DOMAIN root
        PROVE  \/ root'[l] = root[l]
               \/ /\ l = Lies(root', entry)
                  /\ root'[l].kind = "file" => Fits(root'[l], entry)
    <3>1. ~Clash(root) BY <2>1, <2>5, <2>7, ClashStays DEF Onward, Geography
    <3>2. FilesPlanned(root) BY <1>3, <3>1 DEF DeliveryInv, RootInv
    <3>3. l \in DOMAIN root' /\ (root'[l] = root[l] \/ l = Lies(root', entry))
      BY <2>6, <2>7, <3>2 DEF Steady, Keeps
    <3>4. l \in DOMAIN t /\ t[l] = root[l] BY <2>2 DEF Extends
    <3>5. root'[l] = root[l] \/ root'[l] = LinkNode(AliasText(entry))
      BY <2>4, <3>3, <3>4
    <3>6. LinkNode(AliasText(entry)).kind # "file" BY DEF LinkNode
    <3> QED BY <3>3, <3>5, <3>6
  <2> QED BY <2>5, <2>6, <2>7
<1>4. RootInv' /\ ContentInv' BY <1>1, <1>3, EntryStep
<1>5. LedgerInv' /\ CountInv'
  BY <1>1 DEF DeliveryInv, LedgerInv, CountInv, Working, Stopped, EntriesOf
<1> QED BY <1>4, <1>5

(* A write that gets as far as a file gets to where its entry lies.         *)
LEMMA WayThere ==
  ASSUME DeliveryInv, More, stage \in {"materialize", "rewrite"}, WaysClear,
         entry.kind # "SymlinkAlias",
         NEW t, Onward(root, t),
         NEW file \in BundleFile,
         NEW u, u = WriteAt(t, entry.bundled, file), ~Clash(u),
         End(t, entry.bundled) # Nowhere
  PROVE  Writable(t, entry.bundled) /\ End(t, entry.bundled) = Lies(u, entry)
<1>1. Clear /\ Geography(t) /\ entry \in ledger BY AtWork DEF Onward
<1>2. Onward(t, u) BY <1>1, WriteOnward
<1>3. Tree(t) /\ Tree(u) /\ Grows(t, u) BY <1>1, <1>2 DEF Onward, Geography
<1>4. ~Clash(t) BY <1>1, <1>3, ClashStays
<1>5. Writable(t, entry.bundled) /\ End(t, entry.bundled) = Lies(t, entry)
  BY <1>1, <1>4, EntryWritable
<1>6. Made(t, entry) BY <1>1, <1>4, NoLinkThere, EndLies
<1> QED BY <1>1, <1>3, <1>5, <1>6, LiesStays

(* What is rewritten was materialised before.                               *)
LEMMA RewriteFits ==
  ASSUME DeliveryInv, Rewriting, Rewrites, WaysClear, ~Clash(root), ~upgraded
  PROVE  /\ End(root, entry.bundled) = Lies(root, entry)
         /\ End(root, entry.bundled) # Nowhere
         /\ NewFile.whole \/ Lies(root, entry) \in lost
         /\ \A file : file.source = NewFile.source => Fits(file, entry)
<1>1. /\ More /\ stage = "rewrite" /\ entry.kind \in {"Executable", "SharedObject"}
      /\ entry.kind = "SharedObject" => Reopens(entry.bundled)
  BY DEF Rewriting, Rewrites, Rewritable
<1>2. /\ DynpaxInv /\ Clear /\ Geography(root) /\ Tree(root) /\ entry \in ledger
      /\ next \in DOMAIN manifest /\ entry = manifest[next]
  BY <1>1, AtWork
<1>3. /\ Written(root, entry)
      /\ entry.kind = "SharedObject" => Sound(root, entry, lost)
  <2>1. CopyInv /\ next \in Done
    BY <1>1, <1>2 DEF DeliveryInv, ContentInv, Stopped, Done
  <2> QED BY <1>1, <1>2, <2>1 DEF CopyInv, PastRewrite
<1>4. Lies(root, entry) \in DOMAIN root /\ Made(root, entry)
  BY <1>2, <1>3, NodeType DEF Written, Made
<1>5. End(root, entry.bundled) = Lies(root, entry) BY <1>1, <1>2, <1>4, EntryWritable
<1>6. Lies(root, entry) # Nowhere BY <1>2, EntryLies, Parts
<1>7. NewFile.whole \/ Lies(root, entry) \in lost
  BY <1>1, <1>2, <1>3, <1>5, RewrittenFiles DEF NewFile, Sound, Reopens
<1>8. ASSUME NEW file, file.source = NewFile.source PROVE Fits(file, entry)
  <2>1. CASE entry.kind = "Executable"
    BY <1>2, <1>8, <2>1, RewrittenFiles DEF NewFile, Fits
  <2>2. CASE entry.kind = "SharedObject"
    <3>1. file.source = root[Lies(root, entry)].source
      BY <1>1, <1>2, <1>5, <1>8, <2>2, RewrittenFiles DEF NewFile
    <3>2. root[Lies(root, entry)].kind = "file" /\ root[Lies(root, entry)].parses
      BY <1>1, <1>5, <2>2 DEF Reopens
    <3> QED BY <1>3, <3>1, <3>2 DEF Written, Fits
  <2> QED BY <1>1, <2>1, <2>2
<1> QED BY <1>5, <1>6, <1>7, <1>8

LEMMA RewriteStep ==
  ASSUME DeliveryInv, RewriteExecutable \/ RewriteLibrary, UNCHANGED programVars
  PROVE  RootInv' /\ LedgerInv' /\ CountInv' /\ ContentInv'
<1>1. /\ Rewriting /\ Rewrites /\ stage = "rewrite" /\ More /\ next' = next + 1
      /\ UNCHANGED <<vars, stage, lost>> /\ entry.kind # "SymlinkAlias"
      /\ root' = WriteAt(root, entry.bundled, NewFile)
  BY DEF RewriteExecutable, RewriteLibrary, Rewriting, Rewrites, Rewritable, NewFile,
         vars, bounds
<1>2. NewFile \in BundleFile
  BY <1>1, RewrittenFiles DEF DeliveryInv, Rewrites, Rewritable, NewFile
<1>3. WaysClear => Onward(root, root) /\ Extends(root, root)
  BY OnwardSame DEF DeliveryInv, RootInv, Extends
<1>4. ASSUME WaysClear, ~Clash(root'), ~upgraded
      PROVE  /\ Fits(NewFile, entry) /\ Writable(root, entry.bundled)
             /\ NewFile.whole \/ Lies(root', entry) \in lost'
  <2>1. Clear /\ Geography(root) /\ entry \in ledger BY <1>1, <1>4, AtWork
  <2>2. Onward(root, root') BY <1>1, <1>2, <1>3, <1>4, WriteStep
  <2>3. ~Clash(root) BY <1>4, <2>1, <2>2, ClashStays DEF Onward, Geography
  <2>4. /\ End(root, entry.bundled) = Lies(root, entry)
        /\ End(root, entry.bundled) # Nowhere
        /\ NewFile.whole \/ Lies(root, entry) \in lost
        /\ Fits(NewFile, entry)
    BY <1>1, <1>4, <2>3, RewriteFits
  <2>5. Writable(root, entry.bundled) /\ End(root, entry.bundled) = Lies(root', entry)
    BY <1>1, <1>2, <1>3, <1>4, <2>4, WayThere
  <2> QED BY <1>1, <2>4, <2>5
<1> QED BY <1>1, <1>2, <1>3, <1>4, FileStep

(* A rewrite that is lost leaves the file as it was, or cuts it off.        *)
LEMMA LostStep ==
  ASSUME DeliveryInv, RewriteLost, UNCHANGED programVars
  PROVE  RootInv' /\ LedgerInv' /\ CountInv' /\ ContentInv'
<1>1. /\ Rewriting /\ Rewrites /\ ~Materializing /\ stage = "rewrite" /\ More
      /\ next' = next + 1 /\ UNCHANGED <<vars, stage>> /\ entry.kind # "SymlinkAlias"
      /\ root' \in Torn /\ lost' = lost \cup {End(root, entry.bundled)}
  BY DEF RewriteLost, Rewriting, Rewrites, Rewritable, Materializing, vars
<1>2. WaysClear => Onward(root, root) /\ Extends(root, root)
  BY OnwardSame DEF DeliveryInv, RootInv, Extends
<1>3. CASE root' = root
  <2>1. UNCHANGED <<host, policy, includeInterpreter,
                    manifest, stage, ledger, delivered, upgraded, rest, command>>
    BY <1>1 DEF vars, inputs, walkVars, programVars
  <2>2. WaysClear => Steady(root, root', entry) BY <1>3 DEF Steady, Keeps
  <2>3. ASSUME WaysClear, ~Clash(root'), ~upgraded PROVE Sound(root', entry, lost')
    <3>1. End(root, entry.bundled) = Lies(root, entry)
      BY <1>1, <1>3, <2>3, RewriteFits
    <3> QED BY <1>1, <1>3, <3>1 DEF Sound
  <2>4. RootInv' /\ ContentInv'
    BY <1>1, <1>2, <1>3, <2>1, <2>2, <2>3, EntryStep
  <2>5. LedgerInv' /\ CountInv'
    BY <1>1, <2>1 DEF DeliveryInv, LedgerInv, CountInv, Working, Stopped, EntriesOf
  <2> QED BY <2>4, <2>5
<1>4. CASE root' # root
  <2>1. TornFile(root') BY <1>1, <1>4, TornIs DEF DeliveryInv, TornLink
  <2>2. PICK file \in BundleFile : /\ root' = WriteAt(root, entry.bundled, file)
                                   /\ file.source = NewFile.source
    BY <1>1, <2>1 DEF TornFile
  <2>3. ASSUME WaysClear, ~Clash(root'), ~upgraded
        PROVE  /\ Fits(file, entry) /\ Writable(root, entry.bundled)
               /\ Lies(root', entry) \in lost'
    <3>1. Clear /\ Geography(root) /\ entry \in ledger BY <1>1, <2>3, AtWork
    <3>2. Onward(root, root') BY <1>1, <1>2, <2>2, <2>3, WriteStep
    <3>3. ~Clash(root) BY <2>3, <3>1, <3>2, ClashStays DEF Onward, Geography
    <3>4. End(root, entry.bundled) # Nowhere /\ Fits(file, entry)
      BY <1>1, <2>2, <2>3, <3>3, RewriteFits
    <3>5. Writable(root, entry.bundled) /\ End(root, entry.bundled) = Lies(root', entry)
      BY <1>1, <1>2, <2>2, <2>3, <3>4, WayThere
    <3> QED BY <1>1, <3>4, <3>5
  <2>4. lost \subseteq lost' BY <1>1
  <2> QED BY <1>1, <1>2, <2>2, <2>3, <2>4, FileStep
<1> QED BY <1>3, <1>4

LEMMA BuildDelivers ==
  ASSUME DeliveryInv, Build, UNCHANGED programVars
  PROVE  RootInv' /\ LedgerInv' /\ CountInv' /\ ContentInv'
<1> DEFINE Goal == RootInv /\ LedgerInv /\ CountInv /\ ContentInv
<1>0. DynpaxInv /\ HostType BY DEF DeliveryInv, DynpaxInv, DynpaxTypeOK, TypeOK
<1>1. ASSUME CopyEntry \/ TouchExecutable PROVE Goal'
  <2>1. PICK t \in Prepared :
          /\ Makeable(t)
          /\ root' = WriteAt(t, entry.bundled,
               IF entry.kind = "Executable" THEN Truncated(entry.source)
               ELSE CopyOf(entry.source))
    BY <1>1 DEF CopyEntry, TouchExecutable, Copied, CopyTo, TouchTo
  <2>2. /\ stage = "materialize" /\ More /\ next' = next + 1
        /\ UNCHANGED <<vars, stage, lost>> /\ entry.kind # "SymlinkAlias"
        /\ entry.kind # "Executable" => Copied
    BY <1>1 DEF CopyEntry, TouchExecutable, Copied, Materializing, vars, bounds
  <2>3. PICK file : file = IF entry.kind = "Executable" THEN Truncated(entry.source)
                           ELSE CopyOf(entry.source)
    OBVIOUS
  <2>4. file \in BundleFile
    BY <1>0, <2>1, <2>2, <2>3, AtWork, CopyType, TruncatedType DEF Makeable
  <2>5. Fits(file, entry) /\ (entry.kind # "Executable" => file.whole)
    BY <2>3 DEF Fits, CopyOf, Truncated
  <2>6. End(t, entry.bundled) # Nowhere BY <2>1, <2>2 DEF Makeable, Writable
  <2>7. WaysClear => Onward(root, t) /\ Extends(root, t) BY <2>2, PreparedOnward
  <2>8. WaysClear /\ ~Clash(root') => Writable(t, entry.bundled)
    BY <2>1, <2>2, <2>3, <2>4, <2>6, <2>7, WayThere
  <2> QED BY <2>1, <2>2, <2>3, <2>4, <2>5, <2>7, <2>8, FileStep
<1>2. ASSUME LinkAlias PROVE Goal' BY <1>2, LinkStep
<1>3. ASSUME MaterializeFails \/ ReopenFails \/ MaterializeFault \/ RewriteFault
      PROVE  Goal'
  <2>1. stage' = "error" /\ UNCHANGED ledger /\ (root' = root \/ root' \in Torn)
    BY <1>3 DEF MaterializeFails, ReopenFails, MaterializeFault, RewriteFault, Torn,
                TornMaterialize, programVars
  <2> QED BY <2>1, StopStep
<1>4. ASSUME Materialized \/ SkipRewrite \/ Rewritten PROVE Goal'
  <2>1. /\ UNCHANGED <<vars, programVars, root, lost>>
        /\ \/ stage = "materialize" /\ ~More /\ stage' = "rewrite" /\ next' = 1
           \/ stage = "rewrite" /\ ~More /\ stage' = "verify"
           \/ /\ stage = "rewrite" /\ stage' = "rewrite" /\ next' = next + 1
              /\ entry.kind # "Executable"
    BY <1>4 DEF Materialized, SkipRewrite, Rewritten, Rewriting, Rewritable, vars, bounds
  <2> QED BY <2>1, PhaseStep
<1>5. ASSUME RewriteExecutable \/ RewriteLibrary PROVE Goal' BY <1>5, RewriteStep
<1>6. ASSUME RewriteLost PROVE Goal' BY <1>6, LostStep
<1> QED BY <1>1, <1>2, <1>3, <1>4, <1>5, <1>6 DEF Build

-----------------------------------------------------------------------------
(* The steps of main.                                                      *)

LEMMA QuietStep ==
  ASSUME DeliveryInv,
         UNCHANGED <<host, policy, includeInterpreter, lost,
                     root, stage, ledger, delivered, upgraded, rest, command>>,
         Working => UNCHANGED <<manifest, next>>
  PROVE  RootInv' /\ LedgerInv' /\ CountInv' /\ ContentInv'
<1>1. RootInv'
  <2>1. WaysClear => Onward(root, root') BY OnwardSame DEF DeliveryInv, RootInv
  <2> QED BY <2>1, RootStep DEF DeliveryInv
<1>2. LedgerInv' /\ CountInv'
  BY DEF DeliveryInv, LedgerInv, CountInv, Working, Stopped, EntriesOf
<1>3. ASSUME WaysClear, ~Clash(root), ~upgraded, ~Stopped PROVE CopyInv' /\ DeliveredInv'
  <2>1. CopyInv /\ DeliveredInv BY <1>3 DEF DeliveryInv, ContentInv
  <2>2. CopyInv'
    <3> SUFFICES ASSUME NEW i \in Done', (manifest[i].kind # "SymlinkAlias")'
                 PROVE  /\ Written(root, manifest[i])'
                        /\ PastRewrite(i)' => Sound(root, manifest[i], lost)'
      BY DEF CopyInv
    <3>1. Working BY DEF Done, Working
    <3>2. i \in Done BY <3>1 DEF Done
    <3>3. PastRewrite(i)' => PastRewrite(i) BY <3>1 DEF PastRewrite
    <3>4. /\ Written(root, manifest[i])
          /\ PastRewrite(i) => Sound(root, manifest[i], lost)
      BY <2>1, <3>1, <3>2 DEF CopyInv
    <3> QED BY <3>1, <3>3, <3>4, FixedHost DEF Written, Fits, Sound
  <2>3. DeliveredInv'
    <3> SUFFICES ASSUME NEW f \in Delivered PROVE Kept(f)'
      BY DEF DeliveredInv, Delivered, EntriesOf
    <3>1. Kept(f) BY <2>1 DEF DeliveredInv
    <3>2. /\ Whole(root, f) => Whole(root, f)'
          /\ Routed(root, f)' <=> Routed(root, f)
      BY SameWhole, SameRouted
    <3>3. Reworked(f) => Reworked(f)' BY DEF Reworked, Working
    <3> QED BY <3>1, <3>2, <3>3 DEF Kept
  <2> QED BY <2>2, <2>3
<1>4. ContentInv' BY <1>3, SameLedger DEF ContentInv, Stopped
<1> QED BY <1>1, <1>2, <1>4

LEMMA PlanDoneStep ==
  ASSUME DeliveryInv, PlanDone
  PROVE  RootInv' /\ LedgerInv' /\ CountInv' /\ ContentInv'
<1>1. /\ stage = "plan" /\ stage' = "materialize" /\ next' = next
      /\ ledger' = ledger \cup EntriesOf(manifest)
      /\ UNCHANGED <<host, policy, includeInterpreter, lost,
                     manifest, root, command, rest, delivered, upgraded>>
  BY DEF PlanDone, vars, inputs, walkVars, bounds
<1>2. next = 1 BY <1>1 DEF DeliveryInv, DynpaxInv
<1>3. RootInv' BY <1>1, MoreLedger DEF DeliveryInv, RootInv
<1>4. LedgerInv' /\ CountInv'
  BY <1>1 DEF DeliveryInv, LedgerInv, CountInv, Stopped, EntriesOf
<1>5. ASSUME WaysClear', ~Clash(root)', ~upgraded PROVE CopyInv' /\ DeliveredInv'
  <2>1. WaysClear /\ ~Clash(root) BY <1>1, <1>5, MoreLedger
  <2>2. DeliveredInv BY <1>1, <1>5, <2>1 DEF DeliveryInv, ContentInv, Stopped
  <2>3. Done' = {} BY <1>1, <1>2 DEF Done
  <2>4. ASSUME NEW f \in Delivered PROVE Kept(f)'
    <3>1. Kept(f) /\ ~Working BY <1>1, <2>2 DEF DeliveredInv, Working
    <3>2. Whole(root, f) /\ Routed(root, f) /\ Stays(root, f) /\ f \in ledger
      BY <3>1 DEF Kept, Reworked
    <3>3. Whole(root, f)' /\ Routed(root, f)' BY <1>1, <3>2, SameWhole, SameRouted
    <3> QED BY <1>1, <3>2, <3>3 DEF Kept
  <2>5. Delivered' = Delivered BY <1>1 DEF Delivered, EntriesOf
  <2> QED BY <2>3, <2>4, <2>5 DEF CopyInv, DeliveredInv
<1>6. ContentInv' BY <1>1, <1>5 DEF ContentInv
<1> QED BY <1>3, <1>4, <1>6

(* The path that the verifier compares with is that of the loader.          *)
LEMMA PlannedLoader ==
  ASSUME DeliveryInv, stage = "verify", ~upgraded,
         NEW i \in DOMAIN manifest, WithLoader(manifest[i])
  PROVE  /\ manifest[i].hasInterp
         /\ interpreterBundlePath = LoaderPath(manifest[i])
         /\ LoaderPath(manifest[i]) # NoPath
<1>1. LoaderPlanned /\ LoaderKept /\ phase = "planned" /\ manifest \in Seq(Entry)
  BY DEF DeliveryInv, LoaderInv, Working, DynpaxInv, DynpaxTypeOK, TypeOK
<1>2. /\ manifest[i].source = exe /\ includeInterpreter /\ HasInterpreter(exe)
      /\ manifest[i].hasInterp = HasInterpreter(exe)
  BY <1>1 DEF LoaderPlanned, TargetEntry, WithLoader
<1>3. InterpreterPath = Elf(exe).interp /\ InterpreterPath # NoPath
  BY <1>2 DEF HasInterpreter, InterpreterPath
<1>4. PICK j \in DOMAIN manifest : manifest[j] = LoaderOfTarget
  BY <1>1, <1>3 DEF LoaderPlanned
<1>5. manifest[j].kind = "Interpreter" /\ manifest[j].bundled = LoaderPath(manifest[i])
  BY <1>2, <1>3, <1>4 DEF LoaderOfTarget, MakeEntry, LoaderPath
<1>6. interpreterBundlePath = manifest[j].bundled
  BY <1>1, <1>5 DEF LoaderKept, Done
<1>7. manifest[j].bundled # NoPath
  <2>1. manifest[j] \in Entry BY <1>1, ElementOfSeq
  <2> QED BY <2>1, GeographyAssumption DEF Entry
<1> QED BY <1>2, <1>5, <1>6, <1>7

(* What the verifier has accepted is whole.                                 *)
LEMMA VerifiedIsWhole ==
  ASSUME DeliveryInv, stage = "verify", Verified, WaysClear, ~Clash(root), ~upgraded,
         NEW i \in DOMAIN manifest
  PROVE  /\ manifest[i] \in ledger
         /\ Stays(root, manifest[i]) /\ Whole(root, manifest[i])
         /\ policy = PreserveSourceTree /\ manifest[i].kind \in {"Executable", "SharedObject"}
              => root[Lies(root, manifest[i])].runpath = TextsOf(manifest, manifest[i])
<1> DEFINE e == manifest[i]
<1>1. /\ Clear /\ Geography(root) /\ Tree(root)
  BY DEF DeliveryInv, DynpaxInv, DynpaxTypeOK, RootType, RootInv, Clear
<1>2. e \in ledger
  BY DEF DeliveryInv, LedgerInv, Working, EntriesOf
<1>3. EntryVerified(e) /\ Bundled(root, e.bundled) BY DEF Verified, EntryVerified
<1> HIDE DEF e
<1>4. CASE e.kind = "SymlinkAlias"
  <2>1. Place(root, e.bundled) = Lies(root, e) BY <1>1, <1>2, EntryPlace
  <2>2. Lies(root, e) \in DOMAIN root /\ root[Lies(root, e)] = LinkNode(AliasText(e))
    BY <1>3, <1>4, <2>1 DEF EntryVerified, AliasVerified, AliasText
  <2> QED BY <1>2, <1>3, <1>4, <2>2 DEF Stays, Whole, e
<1>5. CASE e.kind # "SymlinkAlias"
  <2> DEFINE l == End(root, e.bundled)
  <2>1. /\ root[l].kind = "file" /\ root[l].parses
        /\ e.kind # "Interpreter" => root[l].rpath = <<>>
        /\ e.kind # "Interpreter" /\ policy = FlatLib64 => root[l].runpath = <<FlatOrigin>>
    BY <1>3, <1>5 DEF EntryVerified, RunpathVerified, RunpathTexts
  <2>2. l \in DOMAIN root /\ l = Lies(root, e)
    <3>1. l = IF Made(root, e) THEN Lies(root, e) ELSE Nowhere
      BY <1>1, <1>2, <1>5, NoLinkThere, EndLies
    <3>2. l \in DOMAIN root BY <1>3 DEF Bundled
    <3>3. Nowhere \notin DOMAIN root BY <1>1, Parts, NodeType
    <3> QED BY <3>1, <3>2, <3>3
  <2>3. Written(root, e) /\ Sound(root, e, lost)
    <3>1. CopyInv /\ i \in Done BY DEF DeliveryInv, ContentInv, Stopped, Done
    <3> QED BY <1>5, <3>1 DEF CopyInv, PastRewrite, e
  <2>4. root[l].source = Destination(e.source)
    BY <2>1, <2>2, <2>3 DEF Written, Fits
  <2>5. ASSUME WithLoader(e) PROVE root[l].interp = LoaderPath(e)
    <3>1. e.hasInterp /\ interpreterBundlePath = LoaderPath(e) /\ LoaderPath(e) # NoPath
      BY <2>5, PlannedLoader DEF e
    <3>2. InterpreterVerified(e, root[l])
      BY <1>3, <2>5 DEF EntryVerified, WithLoader
    <3> QED BY <3>1, <3>2 DEF InterpreterVerified
  <2>6. ASSUME policy = PreserveSourceTree, e.kind \in {"Executable", "SharedObject"}
        PROVE  root[l].runpath = TextsOf(manifest, e)
    BY <1>3, <1>5, <2>6
    DEF EntryVerified, RunpathVerified, RunpathTexts, BundleRunpath, TextsOf,
        PreserveSourceTree, FlatLib64
  <2>7. root[l].whole \/ l \in lost BY <2>1, <2>2, <2>3 DEF Sound
  <2> QED BY <1>2, <1>3, <1>5, <2>1, <2>2, <2>4, <2>5, <2>6, <2>7 DEF Stays, Whole, e
<1> QED BY <1>4, <1>5

LEMMA RoutedIs ==
  ASSUME UNCHANGED <<policy, root>>
  PROVE  \A f : Routed(root, f)' <=>
           (policy = PreserveSourceTree /\ f.kind \in {"Executable", "SharedObject"} =>
              \E k \in DOMAIN delivered' : \E g \in EntriesOf(delivered'[k]) :
                /\ Same(g, f) /\ Lies(root, g) = Lies(root, f)
                /\ root[Lies(root, f)].runpath = TextsOf(delivered'[k], g))
BY DEF Routed, TextsOf, EntriesOf

LEMMA DeliverStep ==
  ASSUME DeliveryInv, stage = "verify", Verified,
         delivered' = Append(delivered, manifest), stage' \in {"plan", "success"},
         UNCHANGED <<host, policy, includeInterpreter, lost,
                     root, ledger, upgraded, command>>,
         IF stage' = "plan" THEN rest # <<>> /\ rest' = Tail(rest)
         ELSE rest = <<>> /\ UNCHANGED rest
  PROVE  RootInv' /\ LedgerInv' /\ CountInv' /\ ContentInv'
<1>1. /\ delivered \in Seq(Seq(Entry)) /\ manifest \in Seq(Entry)
      /\ rest \in Seq(Targets) /\ Tree(root) /\ (WaysClear => Clear)
  BY DEF DeliveryInv, DynpaxInv, DynpaxTypeOK, TypeOK, RootType, Clear
<1>2. RootInv'
  <2>1. WaysClear => Onward(root, root') BY OnwardSame DEF DeliveryInv, RootInv
  <2> QED BY <2>1, RootStep DEF DeliveryInv
<1>3. LedgerInv' BY DEF LedgerInv, Working
<1>4. CountInv'
  <2>1. Len(delivered') = Len(delivered) + 1 /\ Len(delivered) \in Nat
    BY <1>1, AppendProperties, LenProperties
  <2>2. Len(delivered) + 1 + Len(rest) = Len(command)
    BY DEF DeliveryInv, CountInv, Stopped
  <2>3. Len(rest) \in Nat /\ (rest # <<>> => Len(Tail(rest)) = Len(rest) - 1)
        /\ (rest = <<>> => Len(rest) = 0)
    BY <1>1, HeadTailProperties, LenProperties
  <2>4. ~Stopped' /\ (stage' = "success" => rest' = <<>>) BY DEF Stopped
  <2>5. Len(delivered') + (IF stage' = "success" THEN 0 ELSE 1) + Len(rest')
          = Len(command)
    <3>1. CASE stage' = "plan"
      <4>1. rest # <<>> /\ rest' = Tail(rest) /\ stage' # "success" BY <3>1
      <4>2. Len(rest') = Len(rest) - 1 BY <2>3, <4>1
      <4>3. Len(rest) \in Nat BY <1>1, LenProperties
      <4>4. \A a, r \in Nat : a + 1 + 1 + (r - 1) = a + 1 + r OBVIOUS
      <4>5. Len(delivered) + 1 + 1 + (Len(rest) - 1) = Len(command)
        BY <2>1, <2>2, <4>3, <4>4
      <4> QED BY <2>1, <3>1, <4>2, <4>5
    <3>2. CASE stage' = "success"
      <4>1. rest = <<>> /\ rest' = rest BY <3>2
      <4> QED BY <2>1, <2>2, <2>3, <3>2, <4>1
    <3> QED BY <3>1, <3>2
  <2> QED BY <2>4, <2>5 DEF CountInv
<1>5. ASSUME WaysClear, ~Clash(root), ~upgraded PROVE CopyInv' /\ DeliveredInv'
  <2>1. CopyInv /\ DeliveredInv BY <1>5 DEF DeliveryInv, ContentInv, Stopped
  <2>2. Done' = {} BY DEF Done
  <2>3. \A f \in Delivered' : f \in Delivered \/ \E i \in DOMAIN manifest : f = manifest[i]
    <3>1. ASSUME NEW k \in DOMAIN delivered'
          PROVE  \/ k \in DOMAIN delivered /\ delivered'[k] = delivered[k]
                 \/ delivered'[k] = manifest
      BY <1>1, AppendProperties, LenProperties
    <3> QED BY <3>1 DEF Delivered, EntriesOf
  <2>4. ASSUME NEW f, f \in ledger, Stays(root, f), Whole(root, f), Routed(root, f)'
        PROVE  Kept(f)'
    <3>1. Whole(root, f)' BY <2>4, SameWhole
    <3> QED BY <2>4, <3>1 DEF Kept
  <2>8. /\ DOMAIN delivered \subseteq DOMAIN delivered'
        /\ \A k \in DOMAIN delivered : delivered'[k] = delivered[k]
        /\ \E k \in DOMAIN delivered' : delivered'[k] = manifest
    <3>1. /\ DOMAIN delivered = 1..Len(delivered) /\ Len(delivered) \in Nat
          /\ DOMAIN delivered' = 1..(Len(delivered) + 1)
      BY <1>1, AppendProperties, LenProperties
    <3>2. Len(delivered) + 1 \in DOMAIN delivered' BY <3>1
    <3> DEFINE S == Seq(Entry)
    <3>3. delivered \in Seq(S) /\ manifest \in S BY <1>1
    <3> HIDE DEF S
    <3>4. /\ \A k \in 1..Len(delivered) : delivered'[k] = delivered[k]
          /\ delivered'[Len(delivered) + 1] = manifest
      BY <3>3, AppendProperties
    <3>5. DOMAIN delivered \subseteq DOMAIN delivered' BY <3>1
    <3> QED BY <3>1, <3>2, <3>4, <3>5
  <2>9. ASSUME NEW f, Routed(root, f) PROVE Routed(root, f)'
    <3> SUFFICES ASSUME policy = PreserveSourceTree,
                        f.kind \in {"Executable", "SharedObject"}
                 PROVE  \E k \in DOMAIN delivered' : \E g \in EntriesOf(delivered'[k]) :
                          /\ Same(g, f) /\ Lies(root, g) = Lies(root, f)
                          /\ root[Lies(root, f)].runpath = TextsOf(delivered'[k], g)
      BY RoutedIs
    <3>1. PICK k \in DOMAIN delivered : \E g \in EntriesOf(delivered[k]) :
            /\ Same(g, f) /\ Lies(root, g) = Lies(root, f)
            /\ root[Lies(root, f)].runpath = TextsOf(delivered[k], g)
      BY <2>9 DEF Routed
    <3>2. k \in DOMAIN delivered' /\ delivered'[k] = delivered[k] BY <2>8
    <3> QED BY <3>1, <3>2
  <2>10. ASSUME NEW i \in DOMAIN manifest, NEW f, Same(manifest[i], f),
                Lies(root, manifest[i]) = Lies(root, f)
         PROVE  Routed(root, f)'
    <3> SUFFICES ASSUME policy = PreserveSourceTree,
                        f.kind \in {"Executable", "SharedObject"}
                 PROVE  \E k \in DOMAIN delivered' : \E g \in EntriesOf(delivered'[k]) :
                          /\ Same(g, f) /\ Lies(root, g) = Lies(root, f)
                          /\ root[Lies(root, f)].runpath = TextsOf(delivered'[k], g)
      BY RoutedIs
    <3>1. root[Lies(root, f)].runpath = TextsOf(manifest, manifest[i])
      BY <1>5, <2>10, VerifiedIsWhole DEF Same
    <3>2. manifest[i] \in EntriesOf(manifest) BY DEF EntriesOf
    <3> QED BY <2>8, <2>10, <3>1, <3>2
  <2>5. ASSUME NEW f \in Delivered PROVE Kept(f)'
    <3>1. Kept(f) /\ f \in ledger /\ Stays(root, f) BY <2>1 DEF DeliveredInv, Kept
    <3>2. ASSUME Reworked(f) PROVE Whole(root, f) /\ Routed(root, f)'
      <4>1. PICK i \in DOMAIN manifest : Lies(root, manifest[i]) = Lies(root, f)
        BY <3>2 DEF Reworked
      <4>2. manifest[i] \in ledger /\ Whole(root, manifest[i])
        BY <1>5, VerifiedIsWhole
      <4>3. Made(root, manifest[i])
        BY <1>1, <3>1, <4>1, NodeType DEF Stays, Made
      <4>4. Same(manifest[i], f) BY <1>5, <3>1, <4>1, <4>2, <4>3 DEF Clash
      <4>5. Routed(root, f)' BY <2>10, <4>1, <4>4
      <4> QED BY <4>1, <4>2, <4>4, <4>5 DEF Whole, Same, WithLoader, LoaderPath
    <3> QED BY <2>4, <2>9, <3>1, <3>2 DEF Kept
  <2>6. ASSUME NEW f, NEW i \in DOMAIN manifest, f = manifest[i] PROVE Kept(f)'
    <3>1. Routed(root, f)' BY <2>6, <2>10 DEF Same
    <3> QED BY <1>5, <2>4, <2>6, <3>1, VerifiedIsWhole
  <2>7. ASSUME NEW f \in Delivered' PROVE Kept(f)' BY <2>3, <2>5, <2>6
  <2> QED BY <2>2, <2>7 DEF CopyInv, DeliveredInv
<1>6. ContentInv' BY <1>5, SameLedger DEF ContentInv, Stopped
<1> QED BY <1>2, <1>3, <1>4, <1>6

LEMMA OtherStepsDeliver ==
  ASSUME DeliveryInv, DynpaxNext, ~BuildStep
  PROVE  RootInv' /\ LedgerInv' /\ CountInv' /\ ContentInv'
<1> DEFINE Goal == RootInv /\ LedgerInv /\ CountInv /\ ContentInv
<1>1. ASSUME Plan PROVE Goal'
  <2>1. stage = "plan" /\ UNCHANGED <<host, policy, includeInterpreter,
                                      buildVars, programVars>>
    BY <1>1, InputsStay DEF Plan, inputs
  <2> QED BY <2>1, QuietStep DEF buildVars, bounds, programVars, Working
<1>2. ASSUME PlanDone PROVE Goal' BY <1>2, PlanDoneStep
<1>3. ASSUME PlanFails \/ VerifyFails PROVE Goal'
  <2>1. stage' = "error" /\ UNCHANGED <<root, ledger>>
    BY <1>3 DEF PlanFails, VerifyFails, programVars
  <2> QED BY <2>1, StopStep
<1>4. ASSUME NextTarget PROVE Goal'
  <2>1. /\ stage = "verify" /\ Verified /\ stage' = "plan"
        /\ delivered' = Append(delivered, manifest) /\ rest # <<>> /\ rest' = Tail(rest)
        /\ UNCHANGED <<host, policy, includeInterpreter,
                       root, ledger, upgraded, command, lost>>
    BY <1>4 DEF NextTarget, Take, bounds
  <2> QED BY <2>1, DeliverStep
<1>5. ASSUME LastTarget PROVE Goal'
  <2>1. /\ stage = "verify" /\ Verified /\ stage' = "success"
        /\ delivered' = Append(delivered, manifest) /\ rest = <<>> /\ UNCHANGED rest
        /\ UNCHANGED <<host, policy, includeInterpreter,
                       root, ledger, upgraded, command, lost>>
    BY <1>5 DEF LastTarget, vars, walkVars, inputs, bounds
  <2> QED BY <2>1, DeliverStep
<1>6. ASSUME Kill PROVE Goal'
  <2>1. stage' = "killed" /\ root' \in Torn /\ UNCHANGED ledger BY <1>6 DEF Kill
  <2> QED BY <2>1, StopStep
<1>7. ASSUME GiveAgain PROVE Goal'
  <2>1. /\ stage' = "plan" /\ UNCHANGED <<root, ledger, command>>
        /\ delivered' = <<>> /\ rest' = Tail(command)
    BY <1>7 DEF GiveAgain, Restart
  <2>2. RootInv'
    <3>1. WaysClear => Onward(root, root') BY <2>1, OnwardSame DEF DeliveryInv, RootInv
    <3> QED BY <2>1, <3>1, RootStep DEF DeliveryInv
  <2>3. CountInv'
    <3>1. command \in Seq(Targets) /\ command # <<>>
      BY DynpaxAssumption DEF DeliveryInv, DynpaxInv, DynpaxTypeOK
    <3>2. Len(command) \in Nat /\ Len(Tail(command)) = Len(command) - 1
      BY <3>1, HeadTailProperties, LenProperties
    <3> QED BY <2>1, <3>2 DEF CountInv
  <2>4. Done' = {} /\ Delivered' = {} BY <2>1 DEF Done, Delivered
  <2> QED BY <2>1, <2>2, <2>3, <2>4 DEF LedgerInv, Working, ContentInv, CopyInv, DeliveredInv
<1>8. ASSUME HostChanges PROVE Goal'
  <2>1. /\ upgraded' = TRUE /\ (stage = "plan" \/ Ended)
        /\ UNCHANGED <<manifest, stage, root, next, command, rest, delivered, ledger>>
    BY <1>8 DEF HostChanges, walkVars, buildVars
  <2>2. RootInv'
    <3>1. WaysClear => Onward(root, root') BY <2>1, OnwardSame DEF DeliveryInv, RootInv
    <3> QED BY <2>1, <3>1, RootStep DEF DeliveryInv
  <2> QED BY <2>1, <2>2
      DEF DeliveryInv, LedgerInv, CountInv, ContentInv, Working, Stopped, EntriesOf
<1> QED BY <1>1, <1>2, <1>3, <1>4, <1>5, <1>6, <1>7, <1>8 DEF DynpaxNext, Program

LEMMA DeliveryInvInit == DynpaxInit => DeliveryInv
<1> SUFFICES ASSUME DynpaxInit PROVE DeliveryInv OBVIOUS
<1>1. DynpaxInv BY DynpaxInvInit
<1>2. /\ stage = "plan" /\ root = NoEntries /\ delivered = <<>> /\ ledger = {}
      /\ rest = Tail(command)
  BY DEF DynpaxInit
<1>3. CountInv
  <2>1. command \in Seq(Targets) /\ command # <<>>
    BY DynpaxAssumption DEF DynpaxInit
  <2>2. Len(command) \in Nat /\ Len(Tail(command)) = Len(command) - 1
    BY <2>1, HeadTailProperties, LenProperties
  <2> QED BY <1>2, <2>2 DEF CountInv
<1>4. DOMAIN root = {} BY <1>2 DEF NoEntries
<1>5. Geography(root) /\ FilesPlanned(root)
  BY <1>4 DEF Geography, Tree, TurnsRight, LinksPlanned, DirectoriesPlanned,
              FilesPlanned, LinkAt
<1>6. Done = {} /\ Delivered = {} BY <1>2 DEF Done, Delivered
<1>7. LoaderInv
  <2>1. manifest = <<>> /\ phase = "open" BY DEF DynpaxInit, Init
  <2> QED BY <1>2, <1>6, <2>1
      DEF LoaderInv, LoaderPlanned, LoaderKept, LoadersDelivered, Working
<1> QED BY <1>1, <1>2, <1>3, <1>5, <1>6, <1>7
    DEF DeliveryInv, RootInv, LedgerInv, ContentInv, CopyInv, DeliveredInv, Working

LEMMA DeliveryInvStep == DeliveryInv /\ [DynpaxNext]_dynpaxVars => DeliveryInv'
<1> SUFFICES ASSUME DeliveryInv, [DynpaxNext]_dynpaxVars PROVE DeliveryInv' OBVIOUS
<1>1. DynpaxInv' /\ LoaderInv' BY DynpaxInvStep, LoaderInvStep DEF DeliveryInv
<1>2. CASE BuildStep BY <1>1, <1>2, BuildDelivers DEF BuildStep, DeliveryInv
<1>3. CASE DynpaxNext /\ ~BuildStep BY <1>1, <1>3, OtherStepsDeliver DEF DeliveryInv
<1>4. CASE UNCHANGED dynpaxVars
  <2>1. UNCHANGED <<host, policy, includeInterpreter,
                    manifest, next, root, stage, ledger, delivered, upgraded,
                    rest, command, lost>>
    BY <1>4 DEF dynpaxVars, vars, inputs, walkVars, buildVars, bounds, programVars
  <2> QED BY <1>1, <2>1, QuietStep DEF DeliveryInv
<1> QED BY <1>2, <1>3, <1>4

(* When paths do not clash, what the run has delivered is whole.            *)
LEMMA ClearOfClashes ==
  ASSUME DeliveryInv, Comparable
  PROVE  /\ Clear /\ Geography(root) /\ Tree(root) /\ WaysClear
         /\ ~Clash(root) /\ ~upgraded
<1>1. Clear /\ Geography(root) /\ Tree(root) /\ WaysClear /\ ~upgraded
  BY DEF Comparable, NoCollision, Clear, DeliveryInv, DynpaxInv, DynpaxTypeOK, RootInv,
         Geography
<1>2. \A e \in ledger : PlaceOf(e) = Lies(root, e) BY <1>1, EntryPlace DEF PlaceOf
<1> QED BY <1>1, <1>2 DEF Clash, Same, Comparable, NoCollision

LEMMA DeliveredIsWhole ==
  ASSUME DeliveryInv, Comparable, Success \/ HandedOver, NEW e \in Delivered
  PROVE  e \in ledger /\ Stays(root, e) /\ Whole(root, e) /\ Routed(root, e)
<1>1. ~Stopped /\ ~Working BY DEF Success, HandedOver, Stopped, Working
<1>2. DeliveredInv BY <1>1, ClearOfClashes DEF DeliveryInv, ContentInv
<1> QED BY <1>1, <1>2 DEF DeliveredInv, Kept, Reworked

LEMMA KeptIsDelivered ==
  DeliveryInv => SuccessDeliversAll
<1> SUFFICES ASSUME DeliveryInv, Success \/ HandedOver, Comparable
             PROVE  /\ Success => Len(delivered) = Len(command)
                    /\ \A e \in Delivered :
                         Holds(e) /\ (Complete(e) \/ PlaceOf(e) \in lost)
  BY DEF SuccessDeliversAll
<1>1. ~Stopped BY DEF Success, HandedOver, Stopped
<1>2. ASSUME NEW e \in Delivered
      PROVE  Holds(e) /\ (Complete(e) \/ PlaceOf(e) \in lost)
  <2>1. e \in ledger /\ Stays(root, e) /\ Whole(root, e) BY DeliveredIsWhole
  <2>2. PlaceOf(e) = Lies(root, e) BY <2>1, ClearOfClashes, EntryPlace DEF PlaceOf
  <2>3. Complete(e) \/ PlaceOf(e) \in lost
    <3>1. CASE e.kind = "SymlinkAlias"
      BY <2>1, <2>2, <3>1 DEF Complete, Stays, LinkNode
    <3>2. CASE e.kind # "SymlinkAlias" BY <2>1, <2>2, <3>2 DEF Complete, Whole
    <3> QED BY <3>1, <3>2
  <2> QED BY <2>1, <2>2, <2>3 DEF Holds, Stays, Whole
<1>3. ASSUME Success PROVE Len(delivered) = Len(command)
  <2>1. Len(delivered) + 0 + Len(rest) = Len(command) /\ rest = <<>>
    BY <1>1, <1>3 DEF DeliveryInv, CountInv, Success
  <2>2. Len(delivered) \in Nat /\ Len(rest) = 0
    BY <2>1, LenProperties DEF DeliveryInv, DynpaxInv, DynpaxTypeOK
  <2> QED BY <2>1, <2>2
<1> QED BY <1>2, <1>3

(* With exit status 0, and whenever the next target is taken up, the root  *)
(* holds every entry of every target verified so far, whatever faults,     *)
(* kills and earlier runs it has seen, unless planned paths clash; only a  *)
(* file whose rewrite was silently lost in this run may lack a part, which *)
(* no step of the program reads back.                                      *)
THEOREM SuccessIsDelivery == DynpaxSpec => []SuccessDeliversAll
BY DeliveryInvInit, DeliveryInvStep, KeptIsDelivered, PTL DEF DynpaxSpec

LEMMA LoaderIsDelivered ==
  DeliveryInv => BundledLoaderIsUsed
<1> SUFFICES ASSUME DeliveryInv, Success, Comparable, includeInterpreter,
                    NEW e \in Delivered, e.kind = "Executable", e.hasInterp
             PROVE  LET end == Follow(root, LocationOf(FileAt(e.bundled).interp))
                    IN  /\ end \in DOMAIN root
                        /\ root[end].source = Destination(Elf(e.source).interp)
  BY DEF BundledLoaderIsUsed
<1>1. Clear /\ Geography(root) /\ ~Clash(root) /\ Tree(root)
  BY ClearOfClashes
<1>2. ASSUME NEW f \in Delivered
      PROVE  f \in ledger /\ Stays(root, f) /\ Whole(root, f)
  BY DeliveredIsWhole
<1>3. ASSUME NEW f \in Delivered, f.kind # "SymlinkAlias"
      PROVE  End(root, f.bundled) = Lies(root, f) /\ Lies(root, f) \in DOMAIN root
  <2>1. f \in ledger /\ Lies(root, f) \in DOMAIN root BY <1>2 DEF Stays
  <2>2. Made(root, f) BY <1>1, <2>1, NodeType DEF Made
  <2> QED BY <1>1, <1>3, <2>1, <2>2, NoLinkThere, EndLies
<1>4. WithLoader(e) /\ Loader(e) \in Delivered
  <2>1. LoadersDelivered BY DEF DeliveryInv, LoaderInv, Comparable
  <2> QED BY <2>1 DEF LoadersDelivered, WithLoader
<1>5. FileAt(e.bundled).interp = LoaderPath(e)
  BY <1>2, <1>3, <1>4 DEF Whole, FileAt
<1> DEFINE f == Loader(e)
<1>6. /\ f.kind = "Interpreter" /\ f.bundled = LoaderPath(e)
      /\ f.source = Elf(e.source).interp
  BY DEF Loader, MakeEntry
<1> HIDE DEF f
<1>7. /\ Follow(root, LocationOf(f.bundled)) = Lies(root, f)
      /\ Lies(root, f) \in DOMAIN root
  BY <1>3, <1>4, <1>6 DEF End, f
<1>8. root[Lies(root, f)].source = Destination(f.source)
  BY <1>2, <1>4, <1>6 DEF Whole, f
<1> QED BY <1>5, <1>6, <1>7, <1>8

(* With --interpreter and exit status 0, the interpreter path in each      *)
(* delivered executable leads, inside the root, to the copy of the loader  *)
(* the executable names on the host.                                       *)
THEOREM LoaderIsUsed == DynpaxSpec => []BundledLoaderIsUsed
BY DeliveryInvInit, DeliveryInvStep, LoaderIsDelivered, PTL DEF DynpaxSpec

-----------------------------------------------------------------------------
(* What the bundle has for imported names.  Until the host changes, each    *)
(* target is planned as by a program that has just scanned it, so that the  *)
(* invariants of the dependency walk hold of the plan; what they say of a   *)
(* finished plan is kept for every manifest that was delivered.             *)

NamesServed(m) ==
  \A e \in EntriesOf(m) :
    e.kind \in {"Executable", "SharedObject"} =>
      \A name \in Required(m, e) : \E f \in EntriesOf(m) : f.bundled.name = name

PlansAreFresh == ClosureInv /\ PlanInv /\ ServedInv /\ DoneInv
NamesInv ==
  /\ host \in Worlds /\ policy \in Policies
  /\ ~upgraded =>
       /\ PlansAreFresh
       /\ LexicalIsPhysical => \A k \in DOMAIN delivered : NamesServed(delivered[k])

LEMMA FreshPlan == Init => PlansAreFresh
<1>1. Init => DoneInv BY DEF Init, DoneInv, Planned
<1> QED BY <1>1, ClosureInvInit, PlanInit, ServedInit DEF PlansAreFresh

LEMMA FreshPlanStep ==
  ASSUME TypeOK, PlansAreFresh, [Next]_vars PROVE PlansAreFresh'
BY ClosureInvStep, PlanStep, ServedStep, DoneStep DEF PlansAreFresh

LEMMA FixedRequired ==
  ASSUME UNCHANGED host
  PROVE  /\ \A m : NamesServed(m)' <=> NamesServed(m)
         /\ LexicalIsPhysical' <=> LexicalIsPhysical
         /\ Scanned(SystemRoots)' = Scanned(SystemRoots)
<1>1. \A m, e : Required(m, e)' = Required(m, e)
  <2>1. \A o : /\ ImportedLibraries(o)' = ImportedLibraries(o)
               /\ LoaderSearchRoots(o)' = LoaderSearchRoots(o)
    BY FixedHost DEF ImportedLibraries, LoaderSearchRoots
  <2> QED BY <2>1, FixedHost, FixedResolver DEF Required
<1>2. LexicalIsPhysical' <=> LexicalIsPhysical
  BY FixedHost, FixedPlaces DEF LexicalIsPhysical, At
<1>3. Scanned(SystemRoots)' = Scanned(SystemRoots) BY FixedResolver DEF Scanned
<1> QED BY <1>1, <1>2, <1>3 DEF NamesServed

(* A finished plan has an entry for each name that is required of it.       *)
LEMMA PlanServesNames ==
  ASSUME TypeOK, LoaderPlanned, PlansAreFresh, Planned, LexicalIsPhysical
  PROVE  NamesServed(manifest)
<1> SUFFICES ASSUME NEW e \in EntriesOf(manifest),
                    e.kind \in {"Executable", "SharedObject"},
                    NEW name \in Required(manifest, e)
             PROVE  \E f \in EntriesOf(manifest) : f.bundled.name = name
  BY DEF NamesServed
<1>1. PICK i \in DOMAIN manifest : e = manifest[i] BY DEF EntriesOf
<1>2. i \in BundledElfs BY <1>1 DEF BundledElfs, OfKind
<1>3. /\ name \in ToSet(ImportedLibraries(e.source)) /\ name \in Name
      /\ ImportedLibraries(e.source) \in Seq(Name)
  <2>1. ImportedLibraries(e.source) \in Seq(Name) BY ImportedType DEF TypeOK
  <2> QED BY <2>1 DEF Required, ToSet
<1> DEFINE own == ResolveIn(name, LoaderSearchRoots(e.source))
           system == ResolveIn(name, SystemRoots)
<1>4. PICK dep \in OrElse(own, system) :
        /\ Parses(dep.canonical)
        /\ \A f \in EntriesOf(manifest) :
             f.kind = "Interpreter" => Canonicalize(f.source) # dep.canonical
  BY DEF Required
<1>5. Dependency(e.source, name) = dep /\ dep # NoResolution
  <2>1. /\ RootList(LoaderSearchRoots(e.source)) /\ RootList(SystemRoots)
        /\ DOMAIN LoaderSearchRoots(e.source) \subseteq Nat
        /\ DOMAIN SystemRoots \subseteq Nat
    <3>1. e.source \in Path /\ HostType
      <4>1. manifest \in Seq(Entry) /\ HostType BY DEF TypeOK
      <4>2. e \in Entry BY <1>1, <4>1
      <4> QED BY <4>1, <4>2 DEF Entry
    <3>2. DOMAIN LoaderSearchRoots(e.source) \subseteq Nat
      <4>1. CASE ~Parses(e.source) BY <4>1 DEF LoaderSearchRoots
      <4>2. CASE Parses(e.source)
        <5>1. Elf(e.source).runpath \in Seq(DirRef) /\ Elf(e.source).rpath \in Seq(DirRef)
          BY <3>1, <4>2, ParsedElf DEF ElfFile
        <5> DEFINE refs == IF Elf(e.source).runpath # <<>> THEN Elf(e.source).runpath
                           ELSE Elf(e.source).rpath
                   dirs == Expanded(refs, e.source)
        <5>2. refs \in Seq(DirRef) BY <5>1
        <5> HIDE DEF refs
        <5>3. DOMAIN refs \subseteq Nat BY <5>2, LenProperties
        <5>4. DOMAIN dirs = DOMAIN refs BY DEF Expanded
        <5> HIDE DEF dirs
        <5>5. DOMAIN FirstOccurrences(dirs) \subseteq DOMAIN dirs BY DEF FirstOccurrences
        <5>6. LoaderSearchRoots(e.source) = FirstOccurrences(dirs)
          BY <4>2 DEF LoaderSearchRoots, dirs, refs
        <5> QED BY <5>3, <5>4, <5>5, <5>6
      <4> QED BY <4>1, <4>2
    <3> QED BY <3>1, <3>2, SearchRootsType, ResolverAssumption DEF RootList
  <2>2. /\ \A x, y \in own : x = y
        /\ \A x, y \in system : x = y
    BY <2>1, OneAnswer
  <2>3. system = cached[name] BY <1>3 DEF PlansAreFresh, PlanInv, ScanKept, Scanned
  <2>4. system \subseteq Resolution /\ own \subseteq Resolution
    BY <1>3, <2>1, ResolveInType DEF TypeOK
  <2>5. Dependency(e.source, name) = The(OrElse(own, OrElse(system, {NoResolution})))
    BY <2>3 DEF Dependency, Resolve
  <2> HIDE DEF own, system
  <2>6. The(OrElse(own, OrElse(system, {NoResolution}))) = dep
    <3>1. ASSUME NEW s, NEW t, NEW d, d \in OrElse(s, t), NEW z,
                 \A x, y \in s : x = y, \A x, y \in t : x = y
          PROVE  The(OrElse(s, OrElse(t, {z}))) = d
      BY <3>1 DEF The, OrElse
    <3> QED BY <1>4, <2>2, <3>1
  <2>7. dep \in Resolution BY <1>4, <2>4 DEF OrElse
  <2> QED BY <2>5, <2>6, <2>7, ResolverAssumption
<1>6. dep.canonical \notin InterpreterFile
  <2> SUFFICES ASSUME InterpreterPath # NoPath,
                      Canonicalize(InterpreterPath) = dep.canonical
               PROVE  FALSE
    BY DEF InterpreterFile
  <2>1. PICK j \in DOMAIN manifest : manifest[j] = LoaderOfTarget
    BY DEF LoaderPlanned, Planned
  <2>2. manifest[j].kind = "Interpreter" /\ manifest[j].source = InterpreterPath
    BY <2>1 DEF LoaderOfTarget, MakeEntry
  <2> QED BY <1>4, <2>2 DEF EntriesOf
<1>7. name \in MustBeServed(i) BY <1>1, <1>3, <1>4, <1>5, <1>6 DEF MustBeServed
<1>8. PICK j \in DOMAIN manifest, p \in Path :
        /\ p.name = name
        /\ manifest[j].bundled \in {LibraryPath(p), AliasPath(p)}
  BY <1>2, <1>7, NamesPlanned DEF PlansAreFresh
<1>9. LibraryPath(p).name = name /\ AliasPath(p).name = name
  BY <1>8 DEF LibraryPath, AliasPath, BundlePathFor, FlatBundlePath, FallbackPath, Path
<1> QED BY <1>8, <1>9 DEF EntriesOf

LEMMA NamesInvInit == DynpaxInit => NamesInv
BY FreshPlan DEF DynpaxInit, Init, NamesInv

(* A target is taken up with the records of the scan.                       *)
LEMMA TakenPlan ==
  ASSUME DynpaxInv, NamesInv, NEW t \in Targets, Take(t),
         cached' = Scanned(SystemRoots), policy' \in Policies
  PROVE  PlansAreFresh'
<1>1. Scanned(SystemRoots)' = Scanned(SystemRoots) BY FixedRequired DEF Take
<1>2. Init'
  <2>1. host' \in Worlds /\ includeInterpreter' \in BOOLEAN
    BY DEF NamesInv, Take, DynpaxInv, DynpaxTypeOK, TypeOK
  <2> QED BY <1>1, <2>1 DEF Take, Init
<1>3. (Init => PlansAreFresh)' BY FreshPlan, PTL
<1> QED BY <1>2, <1>3

LEMMA NamesDelivered ==
  ASSUME DynpaxInv, LoaderInv, NamesInv, stage = "verify", ~upgraded,
         delivered' = Append(delivered, manifest), UNCHANGED host, LexicalIsPhysical'
  PROVE  (\A k \in DOMAIN delivered : NamesServed(delivered[k]))'
<1>1. /\ delivered \in Seq(Seq(Entry)) /\ manifest \in Seq(Entry) /\ TypeOK
  BY DEF DynpaxInv, DynpaxTypeOK, TypeOK
<1>2. NamesServed(manifest)
  BY <1>1, FixedRequired, PlanServesNames DEF NamesInv, LoaderInv, Working, Planned
<1>3. \A k \in DOMAIN delivered' :
        \/ delivered'[k] = manifest
        \/ k \in DOMAIN delivered /\ delivered'[k] = delivered[k]
  BY <1>1, AppendProperties, LenProperties
<1> QED BY <1>2, <1>3, FixedRequired DEF NamesInv

LEMMA NamesInvStep ==
  ASSUME DynpaxInv, LoaderInv, NamesInv, [DynpaxNext]_dynpaxVars PROVE NamesInv'
<1>0. TypeOK BY DEF DynpaxInv, DynpaxTypeOK
<1>1. ASSUME [Next]_vars, UNCHANGED <<delivered, upgraded>> PROVE NamesInv'
  <2>1. UNCHANGED <<host, policy>>
    BY <1>1, InputsStay DEF inputs
  <2> QED BY <1>0, <1>1, <2>1, FreshPlanStep, FixedRequired DEF NamesInv
<1>2. CASE Plan BY <1>1, <1>2 DEF Plan, programVars
<1>3. CASE PlanDone \/ PlanFails \/ VerifyFails \/ BuildStep \/ UNCHANGED dynpaxVars
  <2>1. UNCHANGED vars /\ UNCHANGED <<delivered, upgraded>>
    BY <1>3 DEF PlanDone, PlanFails, VerifyFails, BuildStep, programVars, dynpaxVars, vars,
         Build, CopyEntry, TouchExecutable, LinkAlias, MaterializeFails, Materialized,
         SkipRewrite, RewriteExecutable, RewriteLibrary, ReopenFails, Rewritten,
         MaterializeFault, RewriteFault, RewriteLost
  <2> QED BY <1>1, <2>1
<1>4. CASE NextTarget
  <2>1. /\ stage = "verify" /\ rest # <<>> /\ Take(Head(rest))
        /\ delivered' = Append(delivered, manifest)
        /\ UNCHANGED <<cached, policy, upgraded>>
    BY <1>4 DEF NextTarget
  <2>2. Head(rest) \in Targets
    BY <2>1, HeadTailProperties DEF DynpaxInv, DynpaxTypeOK
  <2>3. UNCHANGED host BY <2>1 DEF Take
  <2>4. ~upgraded => PlansAreFresh'
    BY <2>1, <2>2, TakenPlan DEF NamesInv, PlansAreFresh, PlanInv, ScanKept
  <2> QED BY <2>1, <2>3, <2>4, NamesDelivered DEF NamesInv
<1>5. CASE LastTarget
  <2>1. /\ stage = "verify" /\ UNCHANGED vars
        /\ delivered' = Append(delivered, manifest) /\ UNCHANGED upgraded
    BY <1>5 DEF LastTarget
  <2>2. UNCHANGED <<host, policy>> BY <2>1 DEF vars, inputs, walkVars
  <2>3. ~upgraded => PlansAreFresh' BY <1>0, <2>1, FreshPlanStep DEF NamesInv
  <2> QED BY <2>1, <2>2, <2>3, NamesDelivered DEF NamesInv
<1>6. CASE Kill \/ GiveAgain
  <2>1. /\ Take(Head(command)) /\ cached' = Scanned(SystemRoots)
        /\ delivered' = <<>> /\ policy' \in Policies
    BY <1>6 DEF Kill, GiveAgain, Restart, NamesInv
  <2>2. Head(command) \in Targets
    <3>1. command \in Seq(Targets) /\ command # <<>>
      BY DynpaxAssumption DEF DynpaxInv, DynpaxTypeOK
    <3> QED BY <3>1, HeadTailProperties
  <2>3. PlansAreFresh' BY <2>1, <2>2, TakenPlan
  <2> QED BY <2>1, <2>3 DEF NamesInv, Take
<1>7. CASE HostChanges
  <2>1. upgraded' = TRUE /\ UNCHANGED policy BY <1>7 DEF HostChanges, walkVars
  <2>2. host' \in Worlds
    <3>1. PICK change \in Upgrades : host' = change[2] BY <1>7 DEF HostChanges
    <3> QED BY <3>1, DynpaxAssumption
  <2> QED BY <2>1, <2>2 DEF NamesInv
<1> QED BY <1>2, <1>3, <1>4, <1>5, <1>6, <1>7 DEF DynpaxNext, Program

LEMMA ImportsAreDelivered ==
  DeliveryInv /\ NamesInv => (NoCollision => FreshRecordsDeliverImports)
<1> SUFFICES ASSUME DeliveryInv, NamesInv, NoCollision, Success, ~upgraded,
                    LexicalIsPhysical, NEW k \in DOMAIN delivered,
                    NEW e \in EntriesOf(delivered[k]),
                    e.kind \in {"Executable", "SharedObject"},
                    NEW name \in Required(delivered[k], e)
             PROVE  \E f \in EntriesOf(delivered[k]) :
                      f.bundled.name = name /\ Bundled(root, f.bundled)
  BY DEF FreshRecordsDeliverImports, ImportsDelivered
<1>1. PICK f \in EntriesOf(delivered[k]) : f.bundled.name = name
  BY DEF NamesInv, NamesServed
<1>2. f \in Delivered BY DEF Delivered
<1>3. Stays(root, f) BY <1>2, DeliveredIsWhole DEF Comparable
<1> QED BY <1>1, <1>3 DEF Stays

(* With exit status 0 on a host that has not changed since the program was  *)
(* started, the root has a file under the name of every library that a      *)
(* delivered ELF file imports, unless planned paths clash.                  *)
THEOREM ImportsAreInTheBundle ==
  DynpaxSpec => [](NoCollision => FreshRecordsDeliverImports)
<1>1. DeliveryInv /\ NamesInv /\ [DynpaxNext]_dynpaxVars => NamesInv'
  BY NamesInvStep DEF DeliveryInv
<1> QED BY <1>1, DeliveryInvInit, DeliveryInvStep, NamesInvInit,
           ImportsAreDelivered, PTL DEF DynpaxSpec

-----------------------------------------------------------------------------
(* The program implements Delivery.                                         *)

LEMMA CountIs ==
  ASSUME DeliveryInv
  PROVE  /\ Len(delivered) \in Nat /\ DOMAIN delivered = 1..Len(delivered)
         /\ delivered \in Seq(Seq(Entry))
         /\ stage = "success" => Len(delivered) = Len(command)
         /\ ~Ended => Len(delivered) + 1 + Len(rest) = Len(command)
         /\ rest = <<>> => Len(rest) = 0
         /\ rest # <<>> => Len(rest) \in Nat \ {0}
<1>1. delivered \in Seq(Seq(Entry)) /\ rest \in Seq(Targets)
  BY DEF DeliveryInv, DynpaxInv, DynpaxTypeOK
<1>2. Len(delivered) \in Nat /\ DOMAIN delivered = 1..Len(delivered)
  BY <1>1, LenProperties
<1>3. /\ rest = <<>> => Len(rest) = 0
      /\ rest # <<>> => Len(rest) \in Nat \ {0}
  BY <1>1, EmptySeq, LenProperties
<1>4. stage = "success" => Len(delivered) + 0 + Len(rest) = Len(command) /\ rest = <<>>
  BY DEF DeliveryInv, CountInv, Stopped
<1>5. ~Ended => Len(delivered) + 1 + Len(rest) = Len(command)
  BY DEF DeliveryInv, CountInv, Stopped, Ended
<1> QED BY <1>1, <1>2, <1>3, <1>4, <1>5

promised ==
  {k \in DOMAIN delivered :
     /\ Success \/ HandedOver
     /\ Comparable => \A e \in EntriesOf(delivered[k]) : Holds(e)}
promisedWhole ==
  {k \in DOMAIN delivered :
     /\ Success \/ HandedOver
     /\ Comparable => \A e \in EntriesOf(delivered[k]) : Holds(e)
     /\ Comparable \/ lost # {} => \A e \in EntriesOf(delivered[k]) : Complete(e)}
promisedLoss == lost # {}
promisedState == IF Ended THEN stage ELSE "running"

(* What counts at the end of a delivery is held, and whole unless lossy.    *)
LEMMA AllWhole ==
  DeliveryInv /\ (Success \/ HandedOver) =>
    /\ promised = 1..Len(delivered)
    /\ ~promisedLoss => promisedWhole = 1..Len(delivered)
<1> SUFFICES ASSUME DeliveryInv, Success \/ HandedOver
             PROVE  /\ promised = 1..Len(delivered)
                    /\ ~promisedLoss => promisedWhole = 1..Len(delivered)
  OBVIOUS
<1>1. SuccessDeliversAll BY KeptIsDelivered
<1>2. \A k \in DOMAIN delivered : \A e \in EntriesOf(delivered[k]) : e \in Delivered
  BY DEF Delivered
<1>3. Comparable => \A e \in Delivered : Holds(e) /\ (Complete(e) \/ promisedLoss)
  BY <1>1 DEF SuccessDeliversAll, promisedLoss
<1> QED BY <1>2, <1>3, CountIs DEF promised, promisedWhole, promisedLoss

LEMMA NoneWhole ==
  ~(Success \/ HandedOver) => promised = {} /\ promisedWhole = {}
BY DEF promised, promisedWhole

LEMMA PromiseIs ==
  /\ Promise!DeliveryInit <=>
       /\ command \in Commands /\ Len(delivered) = 0
       /\ promisedState = "running"
       /\ promised = {} /\ promisedWhole = {} /\ promisedLoss = FALSE
  /\ Promise!Deliver <=>
       /\ promisedState = "running" /\ Len(delivered) < Len(command)
       /\ Len(delivered)' = Len(delivered) + 1
       /\ promised' = 1..(Len(delivered) + 1)
       /\ \E part \in SUBSET (1..(Len(delivered) + 1)) :
            /\ promisedLoss \/ part = 1..(Len(delivered) + 1)
            /\ promisedWhole' = part
       /\ promisedState' = IF Len(delivered) + 1 = Len(command) THEN "success"
                           ELSE "running"
       /\ command' = command /\ promisedLoss' = promisedLoss
BY DEF Promise!DeliveryInit, Promise!Deliver, promised, promisedWhole, promisedLoss,
       promisedState

LEMMA PromisedType ==
  DeliveryInv => /\ promised \subseteq 1..Len(delivered)
                 /\ promisedWhole \subseteq promised
BY CountIs DEF promised, promisedWhole

(* While the program runs and delivers nothing, any part of what was        *)
(* delivered may be spoiled.                                                *)
LEMMA WorkIs ==
  ASSUME DeliveryInv', ~Ended, ~Ended', UNCHANGED <<command, delivered>>,
         lost \subseteq lost'
  PROVE  Promise!DeliveryNext
<1>1. promised' \subseteq 1..Len(delivered) /\ promisedWhole' \subseteq promised'
  <2>1. (/\ promised \subseteq 1..Len(delivered)
         /\ promisedWhole \subseteq promised)'
    BY PromisedType, PTL
  <2> QED BY <2>1
<1>2. promisedLoss' \in {promisedLoss, TRUE} BY DEF promisedLoss
<1>3. \E kept \in SUBSET (1..Len(delivered)) :
        promised' = kept /\ promisedWhole' \in SUBSET kept
  BY <1>1
<1>4. Promise!Work
  BY <1>2, <1>3 DEF Promise!Work, promised, promisedWhole, promisedLoss
<1> QED BY <1>4 DEF Promise!DeliveryNext

LEMMA FailIs ==
  ASSUME ~Ended, stage' = "error", UNCHANGED <<command, delivered, lost>>
  PROVE  Promise!DeliveryNext
<1>1. promised' = {} /\ promisedWhole' = {}
  BY DEF promised, promisedWhole, Success, HandedOver
<1>2. Promise!Fail BY <1>1 DEF Promise!Fail, promised, promisedWhole, Ended
<1> QED BY <1>2 DEF Promise!DeliveryNext

LEMMA DeliverIs ==
  ASSUME DeliveryInv, DeliveryInv', NextTarget \/ LastTarget
  PROVE  Promise!DeliveryNext
<1>1. /\ ~Ended /\ delivered' = Append(delivered, manifest)
      /\ UNCHANGED <<command, lost>> /\ manifest \in Seq(Entry)
  BY DEF NextTarget, LastTarget, bounds, Ended, DeliveryInv, DynpaxInv, DynpaxTypeOK,
         TypeOK
<1>2. Len(delivered') = Len(delivered) + 1
  BY <1>1, CountIs, AppendProperties
<1>3. delivered' # <<>>
  BY <1>1, CountIs, AppendProperties
<1>4. Success' \/ HandedOver'
  BY <1>3 DEF NextTarget, LastTarget, Take, Success, HandedOver
<1>5. /\ promised' = 1..Len(delivered') /\ promisedWhole' \subseteq promised'
      /\ ~promisedLoss' => promisedWhole' = 1..Len(delivered')
  <2>1. (DeliveryInv /\ (Success \/ HandedOver) =>
           /\ promised = 1..Len(delivered)
           /\ ~promisedLoss => promisedWhole = 1..Len(delivered))'
    BY AllWhole, PTL
  <2>2. (promisedWhole \subseteq promised)' BY PromisedType, PTL
  <2> QED BY <1>4, <2>1, <2>2
<1>6. /\ Len(delivered) \in Nat
      /\ Len(delivered) + 1 + Len(rest) = Len(command)
      /\ rest = <<>> => Len(rest) = 0
      /\ rest # <<>> => Len(rest) \in Nat \ {0}
  BY <1>1, CountIs
<1>7. Len(delivered) < Len(command) BY <1>6
<1>8. promisedState' = IF Len(delivered) + 1 = Len(command) THEN "success" ELSE "running"
  <2>1. CASE NextTarget
    <3>1. rest # <<>> /\ stage' = "plan" BY <2>1 DEF NextTarget
    <3>2. Len(delivered) + 1 # Len(command) BY <1>6, <3>1
    <3> QED BY <3>1, <3>2 DEF promisedState, Ended
  <2>2. CASE LastTarget
    <3>1. rest = <<>> /\ stage' = "success" BY <2>2 DEF LastTarget
    <3>2. Len(delivered) + 1 = Len(command) BY <1>6, <3>1
    <3> QED BY <3>1, <3>2 DEF promisedState, Ended
  <2> QED BY <2>1, <2>2
<1>9. promisedState = "running" BY <1>1 DEF promisedState
<1>10. promisedLoss' = promisedLoss BY <1>1 DEF promisedLoss
<1>11. \E part \in SUBSET (1..(Len(delivered) + 1)) :
         /\ promisedLoss \/ part = 1..(Len(delivered) + 1)
         /\ promisedWhole' = part
  BY <1>2, <1>5, <1>10
<1>12. Promise!Deliver
  BY <1>1, <1>2, <1>5, <1>7, <1>8, <1>9, <1>10, <1>11, PromiseIs
<1> QED BY <1>12 DEF Promise!DeliveryNext

LEMMA DeliveryStep ==
  ASSUME DeliveryInv, DeliveryInv', [DynpaxNext]_dynpaxVars
  PROVE  [Promise!DeliveryNext]_(Promise!deliveryVars)
<1>1. CASE Plan \/ PlanDone
  <2>1. ~Ended /\ ~Ended' /\ UNCHANGED <<command, delivered, lost>>
    BY <1>1 DEF Plan, PlanDone, buildVars, bounds, programVars, Ended
  <2> QED BY <2>1, WorkIs
<1>2. CASE PlanFails \/ VerifyFails
  <2>1. ~Ended /\ stage' = "error" /\ UNCHANGED <<command, delivered, lost>>
    BY <1>2 DEF PlanFails, VerifyFails, bounds, programVars, Ended
  <2> QED BY <2>1, FailIs
<1>3. CASE BuildStep
  <2>1. /\ ~Ended /\ UNCHANGED <<command, delivered>> /\ lost \subseteq lost'
        /\ (stage' = "error" /\ UNCHANGED lost) \/ ~Ended'
    BY <1>3 DEF BuildStep, Build, CopyEntry, TouchExecutable, LinkAlias,
                MaterializeFails, Materialized, SkipRewrite, RewriteExecutable,
                RewriteLibrary, ReopenFails, Rewritten, MaterializeFault, RewriteFault,
                RewriteLost, Materializing, Rewriting, bounds, programVars, Ended
  <2> QED BY <2>1, WorkIs, FailIs
<1>4. CASE NextTarget \/ LastTarget BY <1>4, DeliverIs
<1>5. CASE Kill
  <2>1. /\ ~Ended /\ stage' = "killed" /\ delivered' = <<>> /\ UNCHANGED command
        /\ lost' = {}
    BY <1>5 DEF Kill, Restart
  <2>2. promised' = {} /\ promisedWhole' = {} BY <2>1 DEF promised, promisedWhole
  <2>3. Promise!Kill BY <2>1, <2>2 DEF Promise!Kill, promised, promisedWhole, Ended
  <2> QED BY <2>3 DEF Promise!DeliveryNext
<1>6. CASE GiveAgain
  <2>1. /\ Ended /\ ~Ended' /\ delivered' = <<>> /\ UNCHANGED command
        /\ lost' = {}
    BY <1>6 DEF GiveAgain, Restart, Ended
  <2>2. promised' = {} /\ promisedWhole' = {} BY <2>1 DEF promised, promisedWhole
  <2>3. Promise!Again BY <2>1, <2>2 DEF Promise!Again, promised, promisedWhole, Ended
  <2> QED BY <2>3 DEF Promise!DeliveryNext
<1>7. CASE HostChanges
  <2>1. /\ UNCHANGED <<stage, command, delivered, lost, root, ledger>>
        /\ upgraded' = TRUE
    BY <1>7 DEF HostChanges, buildVars, bounds
  <2>2. CASE ~Ended
    <3>1. ~Ended' BY <2>1, <2>2 DEF Ended
    <3> QED BY <2>1, <2>2, <3>1, WorkIs
  <2>3. CASE Ended
    <3>1. promised' = promised /\ promisedWhole' = promisedWhole
      <4>1. CASE Success
        <5>1. Success' BY <2>1, <4>1 DEF Success
        <5>2. /\ promised = 1..Len(delivered)
              /\ ~promisedLoss => promisedWhole = 1..Len(delivered)
          BY <4>1, AllWhole
        <5>3. /\ promised' = 1..Len(delivered')
              /\ ~promisedLoss' => promisedWhole' = 1..Len(delivered')
          <6>1. (DeliveryInv /\ (Success \/ HandedOver) =>
                   /\ promised = 1..Len(delivered)
                   /\ ~promisedLoss => promisedWhole = 1..Len(delivered))'
            BY AllWhole, PTL
          <6> QED BY <5>1, <6>1
        <5>4. ASSUME promisedLoss PROVE promisedWhole' = promisedWhole
          <6>1. promisedWhole =
                  {k \in promised : \A e \in EntriesOf(delivered[k]) : Complete(e)}
            BY <4>1, <5>4 DEF promisedWhole, promised, promisedLoss
          <6>2. promisedWhole' =
                  {k \in promised' : \A e \in EntriesOf(delivered'[k]) : Complete(e)'}
            BY <2>1, <5>1, <5>4 DEF promisedWhole, promised, promisedLoss, EntriesOf
          <6>3. \A e : Complete(e)' <=> Complete(e) BY <2>1 DEF Complete, PlaceOf
          <6> QED BY <2>1, <5>2, <5>3, <6>1, <6>2, <6>3
        <5>5. promisedLoss' <=> promisedLoss BY <2>1 DEF promisedLoss
        <5> QED BY <2>1, <5>2, <5>3, <5>4, <5>5
      <4>2. CASE ~Success
        <5>1. ~(Success \/ HandedOver) /\ ~(Success \/ HandedOver)'
          BY <2>1, <2>3, <4>2 DEF Success, HandedOver, Ended
        <5> QED BY <5>1, NoneWhole DEF promised, promisedWhole
      <4> QED BY <4>1, <4>2
    <3>2. promisedState' = promisedState /\ promisedLoss' = promisedLoss
      BY <2>1 DEF promisedState, promisedLoss, Ended
    <3>3. UNCHANGED <<command, Len(delivered), promised, promisedWhole, promisedLoss,
                      promisedState>>
      BY <2>1, <3>1, <3>2
    <3> QED BY <3>3 DEF Promise!deliveryVars, promised, promisedWhole, promisedLoss,
                        promisedState
  <2> QED BY <2>2, <2>3
<1>8. CASE UNCHANGED dynpaxVars
  <2>1. UNCHANGED <<host, root, stage, phase, ledger, delivered, upgraded, command,
                    lost>>
    BY <1>8 DEF dynpaxVars, vars, inputs, walkVars, buildVars, bounds, programVars
  <2>2. /\ Success' <=> Success
        /\ HandedOver' <=> HandedOver
        /\ Comparable' <=> Comparable
        /\ \A e : (Holds(e)' <=> Holds(e)) /\ (Complete(e)' <=> Complete(e))
    BY <2>1, FixedHost DEF Success, HandedOver, Comparable, NoCollision, WaysClear,
        PlaceOf, Holds, Complete
  <2>3. promised' = promised /\ promisedWhole' = promisedWhole
    BY <2>1, <2>2 DEF promised, promisedWhole, EntriesOf
  <2>4. promisedState' = promisedState /\ promisedLoss' = promisedLoss
    BY <2>1 DEF promisedState, promisedLoss, Ended
  <2>5. UNCHANGED <<command, Len(delivered), promised, promisedWhole, promisedLoss,
                    promisedState>>
    BY <2>1, <2>3, <2>4
  <2> QED BY <2>5 DEF Promise!deliveryVars, promised, promisedWhole, promisedLoss,
                      promisedState
<1> QED BY <1>1, <1>2, <1>3, <1>4, <1>5, <1>6, <1>7, <1>8 DEF DynpaxNext, Program

(* The program implements Delivery, but for its liveness: targets are       *)
(* delivered in order and counted, success is the delivery of the last, and *)
(* at each delivery all earlier ones are held, and whole unless a rewrite   *)
(* of this run was silently lost.                                           *)
THEOREM ProgramImplementsDelivery ==
  DynpaxSpec => Promise!DeliveryInit /\ [][Promise!DeliveryNext]_(Promise!deliveryVars)
<1>1. DynpaxInit => Promise!DeliveryInit
  <2> SUFFICES ASSUME DynpaxInit PROVE Promise!DeliveryInit OBVIOUS
  <2>1. command \in Commands /\ stage = "plan" /\ delivered = <<>> /\ lost = {}
    BY DEF DynpaxInit
  <2>2. Len(delivered) = 0 /\ promised = {} /\ promisedWhole = {}
    BY <2>1 DEF promised, promisedWhole
  <2>3. promisedState = "running" /\ promisedLoss = FALSE
    BY <2>1 DEF promisedState, promisedLoss, Ended
  <2> QED BY <2>1, <2>2, <2>3, PromiseIs
<1> QED BY <1>1, DeliveryInvInit, DeliveryInvStep, DeliveryStep, PTL DEF DynpaxSpec

-----------------------------------------------------------------------------
(* Where the flat layout puts things.                                       *)

FlatDirs == {"/bin", "/lib64"}
FlatPlace(e) ==
  /\ e.bundled.dir \in FlatDirs
  /\ e.kind = "SharedObject" => e.bundled.dir = "/lib64"
FlatInv ==
  policy = FlatLib64 =>
    /\ \A i \in DOMAIN manifest : FlatPlace(manifest[i])
    /\ \A i \in DOMAIN pending : pending[i].bundled.dir \in FlatDirs

LEMMA FlatPathFor ==
  ASSUME NEW kind, NEW p \in Path, NEW fb
  PROVE  /\ BundlePathFor(FlatLib64, kind, p, fb).dir \in FlatDirs
         /\ kind # "Executable" => BundlePathFor(FlatLib64, kind, p, fb).dir = "/lib64"
BY DEF BundlePathFor, FlatBundlePath, FlatDirs, Path

LEMMA FlatSame ==
  ASSUME FlatInv, UNCHANGED <<policy, manifest, pending>> PROVE FlatInv'
BY DEF FlatInv

LEMMA FlatAppended ==
  ASSUME TypeOK, FlatInv, UNCHANGED <<policy, pending>>, NEW e,
         manifest' = Append(manifest, e),
         policy = FlatLib64 => FlatPlace(e)
  PROVE  FlatInv'
BY AppendedEntry DEF FlatInv

LEMMA FlatStep ==
  ASSUME TypeOK, FlatInv, Next PROVE FlatInv'
<1>0. policy' = policy BY InputsStay
<1>1. CASE Open
  <2> DEFINE e == MakeEntry("Executable", exe, exe.name,
                            BundlePathFor(policy, "Executable", exe, NoDir))
  <2>1. manifest' = <<e>> /\ UNCHANGED pending BY <1>1 DEF Open
  <2>2. policy = FlatLib64 => FlatPlace(e)
    BY FlatPathFor DEF MakeEntry, TypeOK, FlatPlace
  <2> HIDE DEF e
  <2>3. DOMAIN manifest' = {1} /\ manifest'[1] = e BY <2>1
  <2> QED BY <1>0, <2>1, <2>2, <2>3 DEF FlatInv
<1>2. CASE OpenFails \/ AliasesRegistered \/ TargetsPlanned
  BY <1>0, <1>2, FlatSame DEF OpenFails, AliasesRegistered, TargetsPlanned
<1>3. CASE Dequeue
  <2> DEFINE dep == Dependency(Head(todo).owner, Head(todo).name)
  <2>1. CASE NewPayload(dep)
    <3> DEFINE e == MakeEntry("SharedObject", dep.canonical, dep.name,
                              LibraryPath(dep.canonical))
    <3>1. manifest' = Append(manifest, e) /\ UNCHANGED pending
      BY <2>1 DEF NewPayload, PlanAliasesOf
    <3>2. dep.canonical \in Path
      <4>1. Head(todo) \in Import
        BY <1>3, HeadTailProperties DEF Dequeue, TypeOK
      <4>2. dep \in Resolution \cup {NoResolution}
        BY <4>1, DependencyType DEF Import, TypeOK
      <4>3. dep # NoResolution BY <2>1 DEF NewPayload, RegisterPayload
      <4> QED BY <4>2, <4>3 DEF Resolution
    <3>3. policy = FlatLib64 => FlatPlace(e)
      BY <3>2, FlatPathFor DEF MakeEntry, LibraryPath, FlatPlace
    <3> HIDE DEF e, dep
    <3> QED BY <1>0, <3>1, <3>3, FlatAppended
  <2>2. CASE ~NewPayload(dep)
    <3>1. UNCHANGED <<manifest, pending>>
      BY <1>3, <2>2 DEF Dequeue, ResolveFails, SkipInterpreter, SkipUnparseable,
                        SeenPayload, PlanAliasesOf
    <3> QED BY <1>0, <3>1, FlatSame
  <2> QED BY <2>1, <2>2
<1>4. CASE RegisterAlias
  <2>1. PICK a \in links :
          /\ UNCHANGED manifest
          /\ \/ UNCHANGED pending
             \/ pending' = Append(pending, [link |-> a.link, target |-> a.target,
                                            bundled |-> AliasPath(a.link)])
    BY <1>4 DEF RegisterAlias
  <2>2. CASE UNCHANGED pending BY <1>0, <2>1, <2>2, FlatSame
  <2>3. CASE pending' = Append(pending, [link |-> a.link, target |-> a.target,
                                         bundled |-> AliasPath(a.link)])
    <3> DEFINE q == [link |-> a.link, target |-> a.target, bundled |-> AliasPath(a.link)]
    <3>1. policy = FlatLib64 => q.bundled.dir \in FlatDirs
      <4>1. a.link \in Path BY <2>1 DEF TypeOK, Link
      <4> QED BY <4>1, FlatPathFor DEF AliasPath
    <3>2. pending' = Append(pending, q) BY <2>3
    <3> HIDE DEF q
    <3>3. ASSUME NEW i \in DOMAIN pending'
          PROVE  (i \in DOMAIN pending /\ pending'[i] = pending[i]) \/ pending'[i] = q
      BY <3>2 DEF TypeOK
    <3> QED BY <1>0, <2>1, <3>1, <3>3 DEF FlatInv
  <2> QED BY <2>1, <2>2, <2>3
<1>5. CASE PlanTarget
  <2> DEFINE p == Head(pending)
             e == AliasEntry(p, PlannedLinkTarget(p.target))
  <2>1. manifest' = Append(manifest, e) /\ pending' = Tail(pending) /\ pending # <<>>
    BY <1>5 DEF PlanTarget
  <2>2. /\ 1 \in DOMAIN pending /\ p = pending[1]
        /\ \A i \in DOMAIN pending' : i + 1 \in DOMAIN pending /\ pending'[i] = pending[i + 1]
    BY <2>1 DEF TypeOK
  <2>3. e.bundled = p.bundled /\ e.kind = "SymlinkAlias" BY DEF AliasEntry
  <2> HIDE DEF e, p
  <2>4. /\ DOMAIN manifest' = DOMAIN manifest \cup {Len(manifest) + 1}
        /\ \A i \in DOMAIN manifest : manifest'[i] = manifest[i]
        /\ manifest'[Len(manifest) + 1] = e
    BY <2>1, AppendedEntry
  <2> QED BY <1>0, <2>2, <2>3, <2>4 DEF FlatInv, FlatPlace
<1>6. CASE Finish
  <2> DEFINE e == MakeEntry("Interpreter", InterpreterPath, InterpreterPath.name,
                    BundlePathFor(policy, "Interpreter", InterpreterPath, NoDir))
  <2>1. UNCHANGED pending
        /\ manifest' = IF InterpreterPath = NoPath THEN manifest ELSE Append(manifest, e)
    BY <1>6 DEF Finish
  <2>2. InterpreterPath # NoPath => InterpreterPath \in Path
    BY InterpreterType DEF TypeOK
  <2>3. InterpreterPath # NoPath /\ policy = FlatLib64 => FlatPlace(e)
    BY <2>2, FlatPathFor DEF MakeEntry, FlatPlace
  <2> HIDE DEF e
  <2>4. CASE InterpreterPath = NoPath BY <1>0, <2>1, <2>4, FlatSame
  <2>5. CASE InterpreterPath # NoPath BY <1>0, <2>1, <2>3, <2>5, FlatAppended
  <2> QED BY <2>4, <2>5
<1> QED BY <1>1, <1>2, <1>3, <1>4, <1>5, <1>6 DEF Next

-----------------------------------------------------------------------------
(* What a file operation may touch.  Under the flat layout an entry lies   *)
(* where its path says; under the other no symlink comes into its way.     *)

LEMMA FlatStraight ==
  ASSUME NEW t, NEW p \in Path, p.dir \in FlatDirs
  PROVE  Goes(t, LocationOf(p)) = LocationOf(p)
<1> DEFINE S == Component \cup Name
           b == LocationOf(p)
<1>1. b \in Location /\ b = Append(Components[p.dir], p.name) /\ p.name \in Name
  BY LocationOfType DEF LocationOf
<1>2. Components[p.dir] = <<"bin">> \/ Components[p.dir] = <<"lib64">>
  BY RootAssumption DEF FlatDirs
<1>3. b[1] \in {"bin", "lib64"} /\ 1 \in 1..Len(b) BY <1>1, <1>2
<1>4. ASSUME NEW r \in Turns(t, b) PROVE FALSE
  <2>1. b \in Seq(S) /\ r \in Seq(S) /\ r \in Redirected /\ IsPrefix(r, b)
    BY <1>1, LocationIs DEF Turns
  <2>2. r[1] \in {"lib", "usr"} /\ 1 \in 1..Len(r) BY <2>1, RedirectedParts
  <2> HIDE DEF S, b
  <2>3. r[1] = b[1] BY <2>1, <2>2, PrefixIs
  <2> QED BY <1>3, <2>2, <2>3
<1>5. Turns(t, b) = {} BY <1>4
<1> QED BY <1>1, <1>5, GoesIs

Groundwork(t) ==
  /\ Onward(root, t) /\ Extends(root, t)
  /\ \A l \in DOMAIN t \ DOMAIN root :
       t[l] = DirNode \/ (policy = FlatLib64 /\ LayoutNode(t, l))

LEMMA GroundworkIs ==
  ASSUME DeliveryInv, More, stage = "materialize", WaysClear,
         NEW t \in Prepared \cup BootstrapCut(root, policy)
  PROVE  Groundwork(t)
<1>1. Clear /\ Geography(root) /\ Tree(root) /\ policy \in Policy /\ entry \in ledger
  BY AtWork
<1> DEFINE u == Bootstrap(root, policy)
           d == Components[entry.bundled.dir]
<1>2. CASE t \in BootstrapCut(root, policy)
  BY <1>1, <1>2, BootstrapOnward, BootstrapNodes DEF Groundwork
<1>3. CASE t \in Prepared
  <2>1. Onward(root, t) /\ Extends(root, t) BY <1>3, PreparedOnward
  <2>2. t = MakeDirectories(u, d) BY <1>3 DEF Prepared
  <2>3. /\ Tree(u) /\ Extends(root, u)
        /\ \A l \in DOMAIN u \ DOMAIN root : LayoutNode(u, l) /\ policy = FlatLib64
    BY <1>1, BootstrapNodes
  <2>4. d \in Location BY <1>1, LocationOfType DEF Clear, Entry
  <2> HIDE DEF u, d
  <2>5. Extends(u, t) /\ \A l \in DOMAIN t \ DOMAIN u : t[l] = DirNode
    BY <2>2, <2>3, <2>4, MakeNodes
  <2>6. ASSUME NEW l \in DOMAIN u, LayoutNode(u, l) PROVE LayoutNode(t, l)
    <3>1. t[l] = u[l] /\ (IsDirectory(u, <<"lib64">>) => IsDirectory(t, <<"lib64">>))
      BY <2>5 DEF Extends, IsDirectory
    <3> QED BY <2>6, <3>1 DEF LayoutNode
  <2> QED BY <2>1, <2>3, <2>5, <2>6 DEF Groundwork
<1> QED BY <1>2, <1>3

LEMMA GroundworkSame ==
  ASSUME DeliveryInv, WaysClear PROVE Groundwork(root)
BY OnwardSame DEF Groundwork, Extends, DeliveryInv, RootInv

LEMMA EntryWaits ==
  ASSUME DeliveryInv, FlatInv, NoCollision, More, stage \in {"materialize", "rewrite"},
         NEW t, Groundwork(t)
  PROVE  /\ Lies(t, entry) = Lies(root, entry)
         /\ entry.kind # "SymlinkAlias" => ~LinkAt(t, Lies(t, entry))
<1>1. /\ Clear /\ Geography(root) /\ policy \in Policy /\ entry \in ledger
      /\ next \in DOMAIN manifest /\ entry = manifest[next]
  BY AtWork DEF NoCollision
<1>2. LocationOf(entry.bundled) \in Location /\ entry.bundled \in Path BY <1>1, EntryLies
<1>3. Lies(t, entry) = Lies(root, entry)
  <2>1. CASE policy = FlatLib64
    <3>1. entry.bundled.dir \in FlatDirs BY <1>1, <2>1 DEF FlatInv, FlatPlace
    <3> QED BY <1>2, <3>1, FlatStraight DEF Lies
  <2>2. CASE policy # FlatLib64
    <3>1. \A r : LinkAt(t, r) <=> LinkAt(root, r)
      BY <2>2, NodeKinds DEF Groundwork, Extends, LinkAt
    <3>2. Turns(t, LocationOf(entry.bundled)) = Turns(root, LocationOf(entry.bundled))
      BY <3>1 DEF Turns
    <3> QED BY <3>2 DEF Lies, Goes
  <2> QED BY <2>1, <2>2
<1>4. ASSUME entry.kind # "SymlinkAlias", LinkAt(t, Lies(t, entry)) PROVE FALSE
  <2> DEFINE l == Lies(root, entry)
  <2>1. l \notin Redirected /\ l \in DOMAIN t /\ t[l].kind = "link"
    BY <1>1, <1>3, <1>4, EntryLies DEF LinkAt
  <2>2. l \in DOMAIN root
    <3> SUFFICES ASSUME l \notin DOMAIN root PROVE FALSE OBVIOUS
    <3>1. t[l] # DirNode BY <2>1, NodeKinds
    <3>2. LayoutNode(t, l) BY <2>1, <3>1 DEF Groundwork
    <3> QED BY <2>1, <3>1, <3>2 DEF LayoutNode, Redirected
  <2>3. LinkAt(root, l) BY <2>1, <2>2 DEF Groundwork, Extends, LinkAt
  <2>4. PICK f \in ledger : f.kind = "SymlinkAlias" /\ l = Lies(root, f)
    BY <1>1, <2>1, <2>3 DEF Geography, LinksPlanned, PlannedLink
  <2>5. PlaceOf(f) = PlaceOf(entry) BY <1>1, <2>4, EntryPlace DEF PlaceOf
  <2>6. f.kind = entry.kind BY <1>1, <2>4, <2>5 DEF NoCollision
  <2> QED BY <1>4, <2>4, <2>6
<1> QED BY <1>3, <1>4

(* A root that differs from its groundwork where the entry lies, if at all. *)
Touches(t, u) ==
  /\ Onward(t, u)
  /\ \A l \in DOMAIN t \cup DOMAIN u :
       \/ l \in DOMAIN t /\ l \in DOMAIN u /\ u[l] = t[l]
       \/ l = Lies(t, entry) /\ Made(t, entry)

LEMMA WriteTouches ==
  ASSUME DeliveryInv, FlatInv, NoCollision, More, stage \in {"materialize", "rewrite"},
         NEW t, Groundwork(t), entry.kind # "SymlinkAlias",
         NEW file \in BundleFile
  PROVE  Touches(t, WriteAt(t, entry.bundled, file))
<1> DEFINE u == WriteAt(t, entry.bundled, file)
<1>1. /\ Clear /\ Geography(t) /\ Tree(t) /\ entry \in ledger /\ entry.bundled \in Path
  BY AtWork DEF NoCollision, Groundwork, Onward, Geography
<1>2. End(t, entry.bundled) = IF Made(t, entry) THEN Lies(t, entry) ELSE Nowhere
  BY <1>1, EntryWaits, EndLies
<1>3. Onward(t, u) BY <1>1, WriteOnward
<1>4. /\ Tree(u) /\ Keeps(t, u)
      /\ \A l \in DOMAIN u :
           (l \in DOMAIN t /\ u[l] = t[l]) \/ (l = End(t, entry.bundled) /\ u[l] = file)
  BY <1>1, WriteNodes
<1> HIDE DEF u
<1>5. Nowhere \notin DOMAIN u BY <1>4, Parts, NodeType
<1>6. \A l \in DOMAIN t : l \in DOMAIN u BY <1>4 DEF Keeps
<1>7. Touches(t, u) BY <1>2, <1>3, <1>4, <1>5, <1>6 DEF Touches
<1> QED BY <1>7 DEF u

LEMMA LinkTouches ==
  ASSUME DeliveryInv, NoCollision, More, stage = "materialize",
         NEW t, Groundwork(t), entry.kind = "SymlinkAlias"
  PROVE  /\ Touches(t, SymlinkTo(t, entry.bundled, entry.target))
         /\ Touches(t, Removed(t, entry.bundled))
<1> DEFINE u == SymlinkTo(t, entry.bundled, entry.target)
           r == Removed(t, entry.bundled)
<1>1. /\ Clear /\ Geography(t) /\ Tree(t) /\ entry \in ledger /\ entry.bundled \in Path
      /\ entry.target \in Path
  BY AtWork DEF NoCollision, Groundwork, Onward, Geography
<1>2. Place(t, entry.bundled) = Lies(t, entry) BY <1>1, EntryPlace
<1>3. Onward(t, u) /\ Onward(t, r) BY <1>1, LinkOnward, RemovedOnward
<1>4. Linkable(t, entry.bundled) => Made(t, entry) BY <1>2 DEF Linkable, Made
<1>5. CASE Linkable(t, entry.bundled)
  <2>1. /\ \A l \in DOMAIN t : l # Lies(t, entry) => /\ l \in DOMAIN u /\ u[l] = t[l]
                                                     /\ l \in DOMAIN r /\ r[l] = t[l]
        /\ \A l \in DOMAIN u : (l \in DOMAIN t /\ u[l] = t[l]) \/ l = Lies(t, entry)
        /\ \A l \in DOMAIN r : l \in DOMAIN t /\ r[l] = t[l]
    BY <1>1, <1>2, LinkNodes
  <2> HIDE DEF u, r
  <2>2. Touches(t, u) /\ Touches(t, r) BY <1>3, <1>4, <1>5, <2>1 DEF Touches
  <2> QED BY <2>2 DEF u, r
<1>6. CASE ~Linkable(t, entry.bundled)
  <2>1. u = t /\ r = t BY <1>6 DEF SymlinkTo, Removed
  <2> HIDE DEF u, r
  <2>2. Touches(t, u) /\ Touches(t, r) BY <1>3, <2>1 DEF Touches
  <2> QED BY <2>2 DEF u, r
<1> QED BY <1>5, <1>6

LEMMA OnlyPlanned ==
  ASSUME DeliveryInv, NoCollision, More, stage \in {"materialize", "rewrite"},
         NEW t, Groundwork(t), Touches(t, root') \/ root' = t,
         NEW l \in DOMAIN root' \cup DOMAIN root, Unplanned(l)
  PROVE  l \in PlannedPlaces
<1>1. /\ Clear /\ Geography(t) /\ Tree(t) /\ entry \in ledger
      /\ next \in DOMAIN manifest /\ entry = manifest[next]
  BY AtWork DEF NoCollision, Groundwork, Onward, Geography
<1>2. CASE l \in DOMAIN t /\ l \in DOMAIN root' /\ root'[l] = t[l]
  <2>1. l \notin DOMAIN root BY <1>2 DEF Unplanned, Groundwork, Extends
  <2>2. root'[l] # DirNode /\ policy = FlatLib64 /\ LayoutNode(t, l)
    BY <1>2, <2>1 DEF Unplanned, Groundwork
  <2>3. PICK link \in ToSet(CompatibilitySymlinks(FlatLib64)) : t[l] = LinkNode(link.to)
    BY <1>2, <2>2 DEF LayoutNode
  <2> QED BY <1>2, <2>1, <2>2, <2>3 DEF Unplanned
<1>3. CASE Touches(t, root') /\ l = Lies(t, entry) /\ Made(t, entry)
  <2>1. Geography(root') /\ Tree(root') /\ Grows(t, root')
    BY <1>3 DEF Touches, Onward, Geography
  <2>2. Lies(root', entry) = l BY <1>1, <1>3, <2>1, LiesStays
  <2>3. Place(root', entry.bundled) = l BY <1>1, <2>1, <2>2, EntryPlace
  <2> QED BY <1>1, <2>3 DEF PlannedPlaces
<1>4. l \in DOMAIN t \cup DOMAIN root' BY DEF Groundwork, Extends
<1>5. CASE root' = t BY <1>2, <1>4, <1>5
<1>6. CASE Touches(t, root')
  <2>1. (l \in DOMAIN t /\ l \in DOMAIN root' /\ root'[l] = t[l])
        \/ (l = Lies(t, entry) /\ Made(t, entry))
    BY <1>4, <1>6 DEF Touches
  <2> QED BY <1>2, <1>3, <1>6, <2>1
<1> QED BY <1>5, <1>6

LEMMA TornTouches ==
  ASSUME DeliveryInv, FlatInv, NoCollision, root' \in Torn, root' # root
  PROVE  /\ More /\ stage \in {"materialize", "rewrite"}
         /\ \E t : Groundwork(t) /\ (Touches(t, root') \/ root' = t)
<1>1. WaysClear /\ DynpaxInv BY DEF NoCollision, DeliveryInv
<1>2. \/ Materializing /\ root' \in BootstrapCut(root, policy) \cup Prepared
      \/ TornLink(root') \/ TornFile(root')
  BY <1>1, TornIs
<1>3. ASSUME Materializing, NEW t \in Prepared \cup BootstrapCut(root, policy)
      PROVE  Groundwork(t) /\ More /\ stage = "materialize"
  BY <1>1, <1>3, GroundworkIs DEF Materializing
<1>4. CASE Materializing /\ root' \in BootstrapCut(root, policy) \cup Prepared
  BY <1>3, <1>4
<1>5. CASE TornLink(root')
  <2>1. PICK t \in Prepared : root' = Removed(t, entry.bundled) BY <1>5 DEF TornLink
  <2>2. Groundwork(t) /\ More /\ stage = "materialize" /\ entry.kind = "SymlinkAlias"
    BY <1>3, <1>5, <2>1 DEF TornLink
  <2> QED BY <2>1, <2>2, LinkTouches
<1>6. CASE TornFile(root')
  <2>1. PICK file \in BundleFile : \E t \in Prepared \cup {root} :
          /\ root' = WriteAt(t, entry.bundled, file)
          /\ IF stage = "materialize" THEN t \in Prepared
             ELSE stage = "rewrite" /\ t = root
    BY <1>6 DEF TornFile
  <2>2. PICK t \in Prepared \cup {root} :
          /\ root' = WriteAt(t, entry.bundled, file)
          /\ IF stage = "materialize" THEN t \in Prepared
             ELSE stage = "rewrite" /\ t = root
    BY <2>1
  <2>3. More /\ entry.kind # "SymlinkAlias" BY <1>6 DEF TornFile
  <2>4. Groundwork(t) BY <1>1, <2>2, <2>3, GroundworkIs, GroundworkSame
  <2> QED BY <2>2, <2>3, <2>4, WriteTouches
<1> QED BY <1>2, <1>4, <1>5, <1>6

LEMMA BuildTouches ==
  ASSUME DeliveryInv, FlatInv, NoCollision, Build, root' # root
  PROVE  /\ More /\ stage \in {"materialize", "rewrite"}
         /\ \E t : Groundwork(t) /\ (Touches(t, root') \/ root' = t)
<1>0. WaysClear /\ DynpaxInv /\ HostType
  BY DEF NoCollision, DeliveryInv, DynpaxInv, DynpaxTypeOK, TypeOK
<1>1. CASE CopyEntry \/ TouchExecutable
  <2>1. PICK t \in Prepared :
          /\ Makeable(t)
          /\ root' = WriteAt(t, entry.bundled,
               IF entry.kind = "Executable" THEN Truncated(entry.source)
               ELSE CopyOf(entry.source))
    BY <1>1 DEF CopyEntry, TouchExecutable, Copied, CopyTo, TouchTo
  <2>2. /\ stage = "materialize" /\ More /\ entry.kind # "SymlinkAlias"
        /\ entry.kind # "Executable" => Copied
    BY <1>1 DEF CopyEntry, TouchExecutable, Copied, Materializing
  <2>3. PICK file : file = IF entry.kind = "Executable" THEN Truncated(entry.source)
                           ELSE CopyOf(entry.source)
    OBVIOUS
  <2>4. file \in BundleFile
    BY <1>0, <2>1, <2>2, <2>3, AtWork, CopyType, TruncatedType DEF Makeable
  <2>5. Groundwork(t) BY <1>0, <2>2, GroundworkIs
  <2> QED BY <2>1, <2>2, <2>3, <2>4, <2>5, WriteTouches
<1>2. CASE LinkAlias
  <2>1. PICK t \in Prepared : root' = SymlinkTo(t, entry.bundled, entry.target)
    BY <1>2 DEF LinkAlias
  <2>2. stage = "materialize" /\ More /\ entry.kind = "SymlinkAlias"
    BY <1>2 DEF LinkAlias, Materializing
  <2>3. Groundwork(t) BY <1>0, <2>2, GroundworkIs
  <2> QED BY <2>1, <2>2, <2>3, LinkTouches
<1>3. CASE RewriteExecutable \/ RewriteLibrary
  <2>1. /\ Rewriting /\ stage = "rewrite" /\ More /\ entry.kind # "SymlinkAlias"
    BY <1>3 DEF RewriteExecutable, RewriteLibrary, Rewriting
  <2>2. PICK file \in BundleFile : root' = WriteAt(root, entry.bundled, file)
    BY <1>0, <1>3, <2>1, RewrittenFiles DEF RewriteExecutable, RewriteLibrary
  <2>3. Groundwork(root) BY <1>0, GroundworkSame
  <2> QED BY <2>1, <2>2, <2>3, WriteTouches
<1>4. CASE MaterializeFails \/ MaterializeFault \/ RewriteFault \/ RewriteLost
  <2>1. root' \in Torn
    BY <1>4
    DEF MaterializeFails, MaterializeFault, RewriteFault, RewriteLost, Torn, TornMaterialize
  <2> QED BY <2>1, TornTouches
<1>5. CASE Materialized \/ SkipRewrite \/ ReopenFails \/ Rewritten
  BY <1>5 DEF Materialized, SkipRewrite, ReopenFails, Rewritten
<1> QED BY <1>1, <1>2, <1>3, <1>4, <1>5 DEF Build

LEMMA FlatInvStep ==
  ASSUME DynpaxInv, FlatInv, [DynpaxNext]_dynpaxVars PROVE FlatInv'
<1>1. TypeOK BY DEF DynpaxInv, DynpaxTypeOK
<1>2. CASE Plan BY <1>1, <1>2, FlatStep DEF Plan
<1>3. ASSUME NEW t, Take(t) PROVE FlatInv' BY <1>3 DEF Take, FlatInv
<1>4. CASE NextTarget BY <1>3, <1>4 DEF NextTarget
<1>5. CASE Kill \/ GiveAgain BY <1>3, <1>5 DEF Kill, GiveAgain, Restart
<1>6. CASE \/ PlanDone \/ PlanFails \/ BuildStep \/ VerifyFails \/ LastTarget
           \/ HostChanges \/ UNCHANGED dynpaxVars
  <2>1. UNCHANGED <<policy, manifest, pending>>
    BY <1>6 DEF PlanDone, PlanFails, BuildStep, Build, VerifyFails, LastTarget,
         HostChanges, dynpaxVars, vars, walkVars, CopyEntry, TouchExecutable, LinkAlias,
         MaterializeFails, Materialized, SkipRewrite, RewriteExecutable, RewriteLibrary,
         ReopenFails, Rewritten, MaterializeFault, RewriteFault, RewriteLost
  <2> QED BY <2>1, FlatSame
<1> QED BY <1>2, <1>4, <1>5, <1>6 DEF DynpaxNext, Program

LEMMA PlannedStep ==
  ASSUME DeliveryInv, FlatInv, NoCollision, [DynpaxNext]_dynpaxVars, root' # root,
         NEW l \in DOMAIN root' \cup DOMAIN root, Unplanned(l)
  PROVE  l \in PlannedPlaces
<1>1. Build \/ root' \in Torn
  BY DEF DynpaxNext, Program, Plan, PlanDone, PlanFails, BuildStep, VerifyFails,
         NextTarget, LastTarget, Kill, GiveAgain, HostChanges, buildVars, dynpaxVars
<1>2. /\ More /\ stage \in {"materialize", "rewrite"}
      /\ \E t : Groundwork(t) /\ (Touches(t, root') \/ root' = t)
  BY <1>1, BuildTouches, TornTouches
<1> QED BY <1>2, OnlyPlanned

(* Whatever the earlier runs have left in the root and wherever a run is   *)
(* cut short, a file operation for one target changes no file or symlink   *)
(* but those planned for that target.                                      *)
THEOREM OperationsStayInThePlan == DynpaxSpec => OnlyPlannedPathsChange
<1>1. DynpaxInit => FlatInv BY DEF DynpaxInit, Init, FlatInv
<1>2. DeliveryInv /\ FlatInv /\ [DynpaxNext]_dynpaxVars => FlatInv'
  BY FlatInvStep DEF DeliveryInv
<1>3. DeliveryInv /\ FlatInv /\ [DynpaxNext]_dynpaxVars =>
        [root' # root /\ (\E l \in DOMAIN root' \cup DOMAIN root :
                            Unplanned(l) /\ l \notin PlannedPlaces)
          => ~NoCollision]_dynpaxVars
  BY PlannedStep
<1> QED BY <1>1, <1>2, <1>3, DeliveryInvInit, DeliveryInvStep, PTL
     DEF DynpaxSpec, OnlyPlannedPathsChange

-----------------------------------------------------------------------------
(* What a flat bundle serves.  A delivery under the flat layout put its     *)
(* libraries in /lib64, and found the symlinks of the layout in place.      *)

ServesInv ==
  /\ Delivered \subseteq ledger
  /\ policy = FlatLib64 => \A e \in Delivered : FlatPlace(e)
  /\ stage = "success" => CompatibilityVerified

LEMMA ServesInvInit == DynpaxInit => ServesInv
BY DEF DynpaxInit, ServesInv, Delivered

LEMMA ServesInvStep ==
  ASSUME DeliveryInv, FlatInv, ServesInv, [DynpaxNext]_dynpaxVars PROVE ServesInv'
<1>1. CASE Kill \/ GiveAgain
  <2>1. delivered' = <<>> /\ stage' # "success"
    BY <1>1 DEF Kill, GiveAgain, Restart
  <2>2. Delivered' = {} BY <2>1 DEF Delivered
  <2> QED BY <2>1, <2>2 DEF ServesInv
<1>2. CASE NextTarget \/ LastTarget
  <2>1. /\ stage = "verify" /\ Verified /\ delivered' = Append(delivered, manifest)
        /\ UNCHANGED <<policy, root, ledger>>
    BY <1>2 DEF NextTarget, LastTarget, vars, inputs, walkVars
  <2>2. \A e \in Delivered' : e \in Delivered \/ \E i \in DOMAIN manifest : e = manifest[i]
    <3>1. \A k \in DOMAIN delivered' :
            delivered'[k] = manifest \/ (k \in DOMAIN delivered
                                         /\ delivered'[k] = delivered[k])
      BY <2>1 DEF DeliveryInv, DynpaxInv, DynpaxTypeOK
    <3> QED BY <3>1 DEF Delivered, EntriesOf
  <2>3. \A i \in DOMAIN manifest : manifest[i] \in ledger
    BY <2>1 DEF DeliveryInv, LedgerInv, Working, EntriesOf
  <2>4. policy = FlatLib64 => \A e \in Delivered' : FlatPlace(e)
    BY <2>2 DEF ServesInv, FlatInv
  <2>5. CompatibilityVerified' BY <2>1 DEF Verified, CompatibilityVerified
  <2> QED BY <2>1, <2>2, <2>3, <2>4, <2>5 DEF ServesInv
<1>3. CASE \/ Plan \/ PlanDone \/ PlanFails \/ BuildStep \/ VerifyFails
           \/ HostChanges \/ UNCHANGED dynpaxVars
  <2>1. UNCHANGED <<delivered, policy>> /\ ledger \subseteq ledger'
    <3>1. Next => policy' = policy BY InputsStay
    <3> QED BY <1>3, <3>1
        DEF Plan, PlanDone, PlanFails, BuildStep, VerifyFails, HostChanges,
            dynpaxVars, vars, inputs, programVars, walkVars, Build, CopyEntry,
            TouchExecutable, LinkAlias, MaterializeFails, Materialized, SkipRewrite,
            RewriteExecutable, RewriteLibrary, ReopenFails, Rewritten, MaterializeFault,
            RewriteFault, RewriteLost
  <2>2. stage' = "success" => stage = "success" /\ root' = root
    BY <1>3 DEF Plan, PlanDone, PlanFails, BuildStep, VerifyFails, HostChanges,
            dynpaxVars, buildVars, Build, CopyEntry, TouchExecutable, LinkAlias,
            MaterializeFails, Materialized, SkipRewrite, RewriteExecutable,
            RewriteLibrary, ReopenFails, Rewritten, MaterializeFault, RewriteFault, RewriteLost,
            Materializing, Rewriting
  <2>3. stage' = "success" => CompatibilityVerified'
    BY <2>1, <2>2 DEF ServesInv, CompatibilityVerified
  <2>4. Delivered' = Delivered BY <2>1 DEF Delivered
  <2> QED BY <2>1, <2>3, <2>4 DEF ServesInv
<1> QED BY <1>1, <1>2, <1>3 DEF DynpaxNext, Program

LEMMA RedirectedAbove ==
  ASSUME NEW r \in Redirected
  PROVE  /\ Append(Front(r), Last(r)) = r /\ Front(r) \in {<<>>, <<"usr">>}
         /\ \A k \in 1..Len(r) : SubSeq(r, 1, k) \in {r, <<"usr">>}
<1> DEFINE S == Component \cup Name
<1>1. /\ r \in Seq(S) /\ r # <<>>
      /\ Len(r) = 1 \/ (Len(r) = 2 /\ r[1] = "usr")
  BY LocationIs, RedirectedParts
<1> HIDE DEF S
<1>2. /\ Front(r) \in Seq(S) /\ Len(Front(r)) = Len(r) - 1
      /\ \A i \in 1..(Len(r) - 1) : Front(r)[i] = r[i]
      /\ Append(Front(r), Last(r)) = r
  BY <1>1, FrontIs
<1>3. ASSUME NEW q \in Seq(S), Len(q) = 1, q[1] = "usr" PROVE q = <<"usr">>
  BY <1>3
<1>4. CASE Len(r) = 1
  <2>1. Front(r) = <<>> BY <1>2, <1>4
  <2>2. ASSUME NEW k \in 1..Len(r) PROVE SubSeq(r, 1, k) = r
    <3>1. k = Len(r) /\ k \in 0..Len(r) BY <1>4
    <3> QED BY <1>1, <3>1, PathParts
  <2> QED BY <1>2, <2>1, <2>2
<1>5. CASE Len(r) = 2 /\ r[1] = "usr"
  <2>1. Front(r) = <<"usr">> BY <1>2, <1>3, <1>5
  <2>2. ASSUME NEW k \in 1..Len(r) PROVE SubSeq(r, 1, k) \in {r, <<"usr">>}
    <3>1. k \in 0..Len(r) /\ (k = Len(r) \/ k = 1) BY <1>5
    <3>2. /\ SubSeq(r, 1, k) \in Seq(S) /\ Len(SubSeq(r, 1, k)) = k
          /\ \A i \in 1..k : SubSeq(r, 1, k)[i] = r[i]
          /\ k = Len(r) => SubSeq(r, 1, k) = r
      BY <1>1, <3>1, PathParts
    <3>3. CASE k = 1
      <4>1. SubSeq(r, 1, k)[1] = r[1] BY <3>2, <3>3
      <4> QED BY <1>3, <1>5, <3>2, <3>3, <4>1
    <3> QED BY <3>1, <3>2, <3>3
  <2> QED BY <1>2, <2>1, <2>2
<1> QED BY <1>1, <1>4, <1>5

(* The verifier looks for a symlink of the layout where it is.              *)
LEMMA LayoutPlaceIs ==
  ASSUME Clear, Geography(root), NEW r \in Redirected
  PROVE  Append(MadeAt(root, Front(r)), Last(r)) = r
<1>1. Tree(root) /\ TurnsRight(root) BY DEF Geography
<1>2. ~LinkAt(root, <<"usr">>)
  <2>1. <<"usr">> \in LayoutPlaces /\ <<"usr">> \notin Redirected BY LayoutParts
  <2> QED BY <2>1, EntryLies DEF Geography, LinksPlanned, PlannedLink
<1>3. Front(r) \in {<<>>, <<"usr">>} /\ Append(Front(r), Last(r)) = r
  BY RedirectedAbove
<1>4. MadeAt(root, Front(r)) = Front(r)
  <2>1. Front(r) \in Location
    <3>1. r \in Seq(Component \cup Name) /\ r # <<>>
      BY LocationIs, RedirectedParts
    <3> QED BY <3>1, FrontIs, LocationIs
  <2>2. \A q \in Redirected : ~IsPrefix(q, Front(r))
    <3> SUFFICES ASSUME NEW q \in Redirected, IsPrefix(q, Front(r)) PROVE FALSE
      OBVIOUS
    <3>1. q \in Seq(Component \cup Name) /\ Front(r) \in Seq(Component \cup Name)
      BY <2>1, LocationIs
    <3>2. Len(q) <= Len(Front(r)) /\ \A i \in 1..Len(q) : q[i] = Front(r)[i]
      BY <3>1, PrefixIs
    <3>3. q = <<"lib">> \/ q = <<"usr", "lib">> \/ q = <<"usr", "lib64">>
      BY LayoutParts
    <3> QED BY <1>3, <3>2, <3>3
  <2>3. Spots(Front(r)) = {Front(r)} BY <2>2 DEF Spots
  <2>4. Turns(root, Front(r)) = {} BY <2>2 DEF Turns
  <2>5. Goes(root, Front(r)) = Front(r) BY <2>1, <2>4, GoesIs
  <2>6. OnlyTurns(root, Front(r))
    <3> SUFFICES ASSUME NEW k \in 1..Len(Front(r)), LinkAt(root, SubSeq(Front(r), 1, k))
                 PROVE  FALSE
      BY DEF OnlyTurns
    <3>1. Front(r) = <<"usr">> /\ k = Len(Front(r)) /\ k \in 0..Len(Front(r)) BY <1>3
    <3>2. SubSeq(Front(r), 1, k) = Front(r)
      <4> DEFINE S == Component \cup Name
      <4>1. Front(r) \in Seq(S) BY <2>1, LocationIs
      <4> HIDE DEF S
      <4> QED BY <3>1, <4>1, PathParts
    <3> QED BY <1>2, <3>1, <3>2
  <2> QED BY <1>1, <2>1, <2>3, <2>5, <2>6, MadeGoes
<1> QED BY <1>3, <1>4

(* What the verifier found of the layout are its own symlinks.              *)
LEMMA LayoutInPlace ==
  ASSUME Clear, Geography(root), policy = FlatLib64, CompatibilityVerified,
         NEW r \in Redirected
  PROVE  LinkAt(root, r)
<1>1. PICK link \in ToSet(CompatibilitySymlinks(policy)) : link.at = r
  BY DEF Redirected
<1>2. /\ Follow(root, r) \in DOMAIN root
      /\ root[Append(MadeAt(root, Front(r)), Last(r))] = LinkNode(link.to)
  BY <1>1 DEF CompatibilityVerified
<1>3. Tree(root) /\ TurnsRight(root) BY DEF Geography
<1>4. r \in Location BY RedirectedParts
<1>5. ~LinkAt(root, <<"usr">>)
  <2>1. <<"usr">> \in LayoutPlaces /\ <<"usr">> \notin Redirected BY LayoutParts
  <2> QED BY <2>1, EntryLies DEF Geography, LinksPlanned, PlannedLink
<1> SUFFICES ASSUME ~LinkAt(root, r) PROVE FALSE OBVIOUS
<1>6. Turns(root, r) = {}
  <2> SUFFICES ASSUME NEW q \in Turns(root, r) PROVE FALSE OBVIOUS
  <2>1. q \in Redirected /\ LinkAt(root, q) /\ IsPrefix(q, r) BY DEF Turns
  <2>2. IsPrefix(r, r)
    <3> DEFINE S == Component \cup Name
    <3>1. r \in Seq(S) BY <1>4, LocationIs
    <3> HIDE DEF S
    <3> QED BY <3>1, PrefixIs
  <2> QED BY <1>4, <2>1, <2>2, OneTurn
<1>7. Goes(root, r) = r BY <1>4, <1>6, GoesIs
<1>8. OnlyTurns(root, r)
  <2> SUFFICES ASSUME NEW k \in 1..Len(r), LinkAt(root, SubSeq(r, 1, k)) PROVE FALSE
    BY DEF OnlyTurns
  <2> QED BY <1>5, RedirectedAbove
<1>9. r \in DOMAIN root
  <2>1. Follow(root, r) = r \/ Follow(root, r) = Nowhere
    BY <1>3, <1>4, <1>7, <1>8, FollowGoes
  <2>2. Nowhere \notin DOMAIN root BY <1>3, Parts, NodeType
  <2> QED BY <1>2, <2>1, <2>2
<1>10. Append(MadeAt(root, Front(r)), Last(r)) = r BY LayoutPlaceIs
<1>11. LinkAt(root, r) BY <1>2, <1>9, <1>10 DEF LinkAt, LinkNode
<1> QED BY <1>11

(* The way through a symlink of the layout to a library in /lib64.          *)
LEMMA ThroughLayout ==
  ASSUME Clear, Geography(root), ~Clash(root), NEW r \in Redirected, LinkAt(root, r),
         NEW e \in ledger, e.kind = "SharedObject", e.bundled.dir = "/lib64"
  PROVE  Follow(root, Append(r, e.bundled.name)) = End(root, e.bundled)
<1> DEFINE S == Component \cup Name
           p == Append(r, e.bundled.name)
           g == LocationOf(e.bundled)
<1>1. Tree(root) /\ TurnsRight(root) BY DEF Geography
<1>2. e.bundled \in Path /\ g \in Location /\ e.bundled.name \in Name /\ g # <<>>
  BY EntryLies, LocationOfType
<1>3. g = Append(<<"lib64">>, e.bundled.name)
  BY RootAssumption DEF LocationOf
<1>4. Lies(root, e) = g
  BY <1>2, FlatStraight DEF Lies, FlatDirs
<1>5. ~LinkAt(root, g) BY <1>4, NoLinkThere
<1>6. End(root, e.bundled) = IF IsDirectory(root, Front(g)) THEN g ELSE Nowhere
  BY <1>4, <1>5, EndLies DEF Made
<1>7. /\ r \in Seq(S) /\ p \in Seq(S) /\ p \in Location
      /\ Len(p) = Len(r) + 1 /\ Len(r) \in Nat
      /\ IsPrefix(r, p) /\ SubSeq(p, Len(r) + 1, Len(p)) = <<e.bundled.name>>
  <2>1. r \in Seq(S) /\ e.bundled.name \in S BY <1>2, LocationIs
  <2>2. p \in Location BY <2>1, LocationIs
  <2> HIDE DEF S
  <2>3. /\ p \in Seq(S) /\ Len(p) = Len(r) + 1 /\ Len(r) \in Nat
        /\ \A i \in 1..Len(r) : p[i] = r[i]
        /\ p[Len(r) + 1] = e.bundled.name
    BY <2>1
  <2> HIDE DEF p
  <2>4. IsPrefix(r, p)
    <3>1. Len(r) <= Len(p) BY <2>3
    <3> QED BY <2>1, <2>3, <3>1, PrefixIs
  <2>5. SubSeq(p, Len(r) + 1, Len(p)) = <<e.bundled.name>>
    <3>1. Len(r) \in 0..Len(p) /\ Len(p) - Len(r) = 1 BY <2>3
    <3>2. /\ SubSeq(p, Len(r) + 1, Len(p)) \in Seq(S)
          /\ Len(SubSeq(p, Len(r) + 1, Len(p))) = 1
          /\ SubSeq(p, Len(r) + 1, Len(p))[1] = p[Len(r) + 1]
      BY <2>3, <3>1, PathParts
    <3>3. ASSUME NEW q \in Seq(S), Len(q) = 1, q[1] = e.bundled.name
          PROVE  q = <<e.bundled.name>>
      BY <3>3
    <3> QED BY <2>3, <3>2, <3>3
  <2> QED BY <2>1, <2>2, <2>3, <2>4, <2>5
<1>8. Goes(root, p) = g
  <2>1. r \in Turns(root, p) BY <1>7 DEF Turns
  <2>2. Goes(root, p) = Turned(p, r) BY <1>7, <2>1, GoesIs
  <2>3. Turned(p, r) = <<"lib64">> \o <<e.bundled.name>> BY <1>7 DEF Turned
  <2>4. e.bundled.name \in S /\ "lib64" \in S BY <1>2, LocationIs
  <2>5. <<"lib64">> \o <<e.bundled.name>> = Append(<<"lib64">>, e.bundled.name)
    <3> HIDE DEF S, p, g
    <3> QED BY <2>4
  <2> QED BY <1>3, <2>2, <2>3, <2>5
<1>9. OnlyTurns(root, g)
  <2>1. Front(g) = Components[e.bundled.dir] BY <1>2, LocationOfType
  <2>2. Components[e.bundled.dir] \in Spots(Components[e.bundled.dir]) BY DEF Spots
  <2>3. OnlyTurns(root, Front(g)) BY <2>1, <2>2, OnTheWay
  <2> QED BY <1>2, <1>5, <2>3, OnlyTurnsBelow
<1> HIDE DEF p, g
<1>10. Follow(root, p) = IF IsDirectory(root, Front(g)) THEN g ELSE Nowhere
  BY <1>1, <1>2, <1>7, <1>8, <1>9, FollowGoes
<1> QED BY <1>6, <1>10 DEF p

LEMMA FlatServesChroot ==
  DeliveryInv /\ ServesInv => (NoCollision => FlatBundleServesChroot)
<1> SUFFICES ASSUME DeliveryInv, ServesInv, NoCollision, Success, policy = FlatLib64,
                    NEW e \in Delivered, e.kind = "SharedObject", NEW r \in Redirected
             PROVE  Follow(root, Append(r, e.bundled.name)) = End(root, e.bundled)
  BY LayoutParts DEF FlatBundleServesChroot
<1>1. Clear /\ Geography(root)
  BY DEF NoCollision, Clear, DeliveryInv, DynpaxInv, DynpaxTypeOK, RootInv
<1>2. ~Clash(root)
  <2>1. \A f \in ledger : PlaceOf(f) = Lies(root, f) BY <1>1, EntryPlace DEF PlaceOf
  <2> QED BY <2>1 DEF Clash, Same, NoCollision
<1>3. e \in ledger /\ e.bundled.dir = "/lib64" /\ CompatibilityVerified
  BY DEF ServesInv, FlatPlace, Success
<1> QED BY <1>1, <1>2, <1>3, LayoutInPlace, ThroughLayout

(* With exit status 0 under the flat layout, a program that looks for a     *)
(* delivered library in /lib, /usr/lib or /usr/lib64 gets what the bundle   *)
(* has in /lib64, whatever the root held before, unless planned paths clash.*)
THEOREM FlatBundleIsServed ==
  DynpaxSpec => [](NoCollision => FlatBundleServesChroot)
<1>1. DynpaxInit => FlatInv BY DEF DynpaxInit, Init, FlatInv
<1>2. DeliveryInv /\ FlatInv /\ [DynpaxNext]_dynpaxVars => FlatInv'
  BY FlatInvStep DEF DeliveryInv
<1>3. DeliveryInv /\ FlatInv /\ ServesInv /\ [DynpaxNext]_dynpaxVars => ServesInv'
  BY ServesInvStep
<1> QED BY <1>1, <1>2, <1>3, DeliveryInvInit, DeliveryInvStep, ServesInvInit,
           FlatServesChroot, PTL DEF DynpaxSpec

-----------------------------------------------------------------------------
(* What a flat bundle loads.  Each delivered file has the RUNPATH of the    *)
(* flat layout, whichever target wrote it last.                             *)

LEMMA OverToLib64 ==
  ASSUME NEW t, Tree(t), NEW chroot \in BOOLEAN, NEW d \in {"bin", "lib64"},
         IsDirectory(t, <<d>>), ~LinkAt(t, <<"lib64">>)
  PROVE  Walking(t, chroot, <<d>>, <<"..", "lib64">>) = <<"lib64">>
<1> DEFINE up == [hops |-> MaxHops, at |-> <<d>>, ahead |-> <<"..", "lib64">>]
           top == [hops |-> MaxHops, at |-> <<>>, ahead |-> <<"lib64">>]
           there == [hops |-> MaxHops, at |-> <<"lib64">>, ahead |-> <<>>]
<1>1. up \in WalkState /\ top \in WalkState /\ there \in WalkState
  <2> DEFINE S == Component \cup Name
  <2>1. MaxHops \in 0..MaxHops BY GeographyAssumption
  <2>2. d \in S /\ "lib64" \in S BY DEF Component
  <2>3. Location = Seq(S) /\ RelPath = Seq(S \cup {".."}) BY DEF Location, RelPath
  <2> HIDE DEF S
  <2>4. /\ <<d>> \in Location /\ <<>> \in Location /\ <<"lib64">> \in Location
        /\ <<"..", "lib64">> \in RelPath /\ <<"lib64">> \in RelPath /\ <<>> \in RelPath
    BY <2>2, <2>3
  <2> QED BY <2>1, <2>4 DEF WalkState
<1>2. Walks(t, chroot)[up] = Walks(t, chroot)[top]
  <2>1. Head(up.ahead) = ".." /\ Tail(up.ahead) = <<"lib64">> /\ up.ahead # <<>>
    OBVIOUS
  <2>2. up.at # <<>> /\ Front(up.at) = <<>> BY DEF Front
  <2>3. ~OnLink(t, up) /\ ~Leaves(up) BY <2>1, <2>2 DEF OnLink, Leaves
  <2>4. ~Halts(t, chroot, up) BY <2>1, <2>3 DEF Halts
  <2>5. Advance(t, up) = top BY <2>1, <2>2, <2>3 DEF Advance
  <2> QED BY <1>1, <2>4, <2>5, WalksAre
<1>3. Walks(t, chroot)[top] = Walks(t, chroot)[there]
  <2>1. Head(top.ahead) = "lib64" /\ Tail(top.ahead) = <<>> /\ top.ahead # <<>>
    OBVIOUS
  <2>2. Here(top) = <<"lib64">> BY <2>1 DEF Here
  <2>3. ~OnLink(t, top) /\ ~Leaves(top) BY <2>1, <2>2 DEF OnLink, Leaves, LinkAt
  <2>4. ~Halts(t, chroot, top) BY <2>1, <2>3 DEF Halts, IsDirectory
  <2>5. Advance(t, top) = there BY <2>1, <2>2, <2>3 DEF Advance
  <2> QED BY <1>1, <2>4, <2>5, WalksAre
<1>4. Walks(t, chroot)[there] = <<"lib64">> BY <1>1, WalksAre DEF Halts, Reached
<1> QED BY <1>2, <1>3, <1>4 DEF Walking

LEMMA FlatLibrariesLoad ==
  DeliveryInv /\ ServesInv => (policy = FlatLib64 => SharedLibrariesStillLoad)
<1> SUFFICES ASSUME DeliveryInv, ServesInv, policy = FlatLib64, Success, Comparable,
                    NEW chroot \in BOOLEAN, NEW k \in DOMAIN delivered,
                    NEW e \in EntriesOf(delivered[k]),
                    e.kind \in {"Executable", "SharedObject"},
                    NEW f \in Wanted(delivered[k], e)
             PROVE  Finds(chroot, e, f)
  BY DEF SharedLibrariesStillLoad, AllLoad
<1>1. Clear /\ Geography(root) /\ ~Clash(root) /\ Tree(root)
  BY ClearOfClashes
<1>2. e \in Delivered /\ f \in Delivered /\ f.kind = "SharedObject"
  BY DEF Delivered, Wanted
<1>3. /\ e \in ledger /\ Stays(root, e) /\ Whole(root, e)
      /\ f \in ledger
  BY <1>2, DeliveredIsWhole
<1>4. /\ PlaceOf(e) = LocationOf(e.bundled) /\ PlaceOf(e) = Lies(root, e)
      /\ PlaceOf(f) = LocationOf(f.bundled)
  <2>1. e.bundled \in Path /\ f.bundled \in Path BY <1>1, <1>3, EntryLies
  <2>2. e.bundled.dir \in FlatDirs /\ f.bundled.dir \in FlatDirs
    BY <1>2 DEF ServesInv, FlatPlace
  <2> QED BY <1>1, <1>3, <2>1, <2>2, FlatStraight, EntryPlace DEF PlaceOf, Lies
<1>5. Front(PlaceOf(f)) = <<"lib64">>
  <2>1. f.bundled.dir = "/lib64" BY <1>2 DEF ServesInv, FlatPlace
  <2>2. Front(PlaceOf(f)) = Components[f.bundled.dir]
    BY <1>1, <1>3, <1>4, EntryLies, LocationOfType
  <2>3. Components["/lib64"] = <<"lib64">> BY RootAssumption
  <2> QED BY <2>1, <2>2, <2>3
<1>6. PICK d \in {"bin", "lib64"} : Front(PlaceOf(e)) = <<d>>
  <2>1. e.bundled.dir \in FlatDirs BY <1>2 DEF ServesInv, FlatPlace
  <2>2. Front(PlaceOf(e)) = Components[e.bundled.dir]
    BY <1>1, <1>3, <1>4, EntryLies, LocationOfType
  <2> QED BY <2>1, <2>2, RootAssumption DEF FlatDirs
<1>7. IsDirectory(root, <<d>>)
  BY <1>1, <1>3, <1>4, <1>6, NodeType DEF Stays
<1>8. ~LinkAt(root, <<"lib64">>)
  <2>1. <<"lib64">> \in LayoutPlaces /\ <<"lib64">> \notin Redirected BY LayoutParts
  <2> QED BY <1>1, <2>1, EntryLies DEF Geography, LinksPlanned, PlannedLink
<1>9. FileAt(e.bundled).runpath = <<FlatOrigin>>
  <2>1. Made(root, e) BY <1>1, <1>3, NodeType DEF Stays, Made
  <2>2. ~LinkAt(root, Lies(root, e)) BY <1>1, <1>3, NoLinkThere
  <2>3. End(root, e.bundled) = Lies(root, e) BY <1>1, <1>3, <2>1, <2>2, EndLies
  <2> QED BY <1>3, <2>3 DEF FileAt, Whole
<1>10. FlatOrigin \in ToSet(FileAt(e.bundled).runpath)
  BY <1>9 DEF ToSet
<1>11. Walking(root, chroot, Front(PlaceOf(e)), FlatOrigin.origin) = Front(PlaceOf(f))
  BY <1>1, <1>5, <1>6, <1>7, <1>8, OverToLib64 DEF FlatOrigin
<1> QED BY <1>2, <1>10, <1>11 DEF Finds

-----------------------------------------------------------------------------
(* When bundle paths are source paths, the RUNPATH a file was left with is  *)
(* that of some delivered target that has an entry for it, perhaps a later  *)
(* one than the target whose import is looked for.  It serves because every *)
(* manifest is closed: while the host is as it was, the answer for an       *)
(* import of an entry is the same file for every target, and each manifest  *)
(* has it, as a library or as its loader.                                   *)

Provided(m, dep) ==
  Parses(dep.canonical) =>
    \E g \in EntriesOf(m) :
      \/ g.kind = "SharedObject" /\ g.source = dep.canonical
      \/ g.kind = "Interpreter" /\ Canonicalize(g.source) = dep.canonical
Closed(m) ==
  \A e \in EntriesOf(m) :
    e.kind \in {"Executable", "SharedObject"} =>
      /\ Parses(e.source)
      /\ \A name \in ToSet(ImportedLibraries(e.source)) :
           Provided(m, Dependency(e.source, name))

LinkedInv == ~upgraded => \A k \in DOMAIN delivered : Closed(delivered[k])

LEMMA FixedClosed ==
  ASSUME UNCHANGED <<host, cached>>
  PROVE  \A m : Closed(m)' <=> Closed(m)
<1>1. \A m, d : Provided(m, d)' <=> Provided(m, d)
  BY FixedHost DEF Provided, EntriesOf
<1> QED BY <1>1, FixedHost, FixedDependency DEF Closed, EntriesOf

LEMMA PlanIsClosed ==
  ASSUME TypeOK, LoaderPlanned, PlansAreFresh, Planned, ElfSources
  PROVE  Closed(manifest)
<1> SUFFICES ASSUME NEW i \in DOMAIN manifest,
                    manifest[i].kind \in {"Executable", "SharedObject"}
             PROVE  /\ Parses(manifest[i].source)
                    /\ \A name \in ToSet(ImportedLibraries(manifest[i].source)) :
                         Provided(manifest, Dependency(manifest[i].source, name))
  BY DEF Closed, EntriesOf
<1> DEFINE owner == manifest[i].source
<1>1. Parses(owner) BY DEF ElfSources
<1>2. owner \in Payloads \cup {exe}
  BY DEF BundledElfs, Payloads, PlansAreFresh, ServedInv, EndsInv, OfKind
<1> HIDE DEF owner
<1>3. ASSUME NEW name \in ToSet(ImportedLibraries(owner))
      PROVE  Provided(manifest, Dependency(owner, name))
  <2> DEFINE w == [name |-> name, owner |-> owner]
             dep == Dependency(owner, name)
  <2>1. w \in Needed
    <3>1. w \in ToSet(Imports(owner)) BY DEF ToSet, Imports
    <3> HIDE DEF w
    <3> QED BY <1>2, <3>1 DEF Needed
  <2>2. Answer(w) = dep BY DEF Answer
  <2>3. Opened /\ w \notin ToSet(todo)
    BY DEF Planned, Opened, PlansAreFresh, DoneInv, ToSet
  <2> HIDE DEF w, dep
  <2>4. Settled(dep) BY <2>1, <2>2, <2>3 DEF PlansAreFresh, ClosureInv
  <2>5. ASSUME dep.canonical \in InterpreterFile
        PROVE  \E g \in EntriesOf(manifest) :
                 g.kind = "Interpreter" /\ Canonicalize(g.source) = dep.canonical
    <3>1. InterpreterPath # NoPath /\ Canonicalize(InterpreterPath) = dep.canonical
      BY <2>5 DEF InterpreterFile
    <3>2. PICK j \in DOMAIN manifest : manifest[j] = LoaderOfTarget
      BY <3>1 DEF LoaderPlanned, Planned
    <3>3. manifest[j].kind = "Interpreter" /\ manifest[j].source = InterpreterPath
      BY <3>2 DEF LoaderOfTarget, MakeEntry
    <3> QED BY <3>1, <3>3 DEF EntriesOf
  <2>6. ASSUME dep.canonical \in Payloads
        PROVE  \E g \in EntriesOf(manifest) :
                 g.kind = "SharedObject" /\ g.source = dep.canonical
    BY <2>6 DEF Payloads, OfKind, EntriesOf
  <2>7. Provided(manifest, dep) BY <2>4, <2>5, <2>6 DEF Settled, Provided
  <2> QED BY <2>7 DEF dep
<1> QED BY <1>1, <1>3 DEF owner

LEMMA LinkedDelivered ==
  ASSUME DynpaxInv, LoaderInv, NamesInv, LinkedInv, stage = "verify", ~upgraded,
         delivered' = Append(delivered, manifest), UNCHANGED <<host, cached>>
  PROVE  LinkedInv'
<1>1. /\ delivered \in Seq(Seq(Entry)) /\ manifest \in Seq(Entry) /\ TypeOK
      /\ ElfSources
  BY DEF DynpaxInv, DynpaxTypeOK, TypeOK, Ended
<1>2. Closed(manifest)
  BY <1>1, PlanIsClosed DEF NamesInv, LoaderInv, Working, Planned
<1>3. \A k \in DOMAIN delivered' :
        \/ delivered'[k] = manifest
        \/ k \in DOMAIN delivered /\ delivered'[k] = delivered[k]
  BY <1>1, AppendProperties, LenProperties
<1>4. \A m : Closed(m)' <=> Closed(m) BY FixedClosed
<1>5. (\A k \in DOMAIN delivered : Closed(delivered[k]))'
  BY <1>2, <1>3, <1>4 DEF LinkedInv
<1> QED BY <1>5 DEF LinkedInv

LEMMA LinkedInvStep ==
  ASSUME DynpaxInv, LoaderInv, NamesInv, LinkedInv, [DynpaxNext]_dynpaxVars
  PROVE  LinkedInv'
<1>1. ASSUME UNCHANGED <<host, cached, delivered, upgraded>> PROVE LinkedInv'
  <2>1. \A m : Closed(m)' <=> Closed(m) BY <1>1, FixedClosed
  <2> QED BY <1>1, <2>1 DEF LinkedInv
<1>2. CASE Plan
  <2>1. UNCHANGED <<host, cached, delivered, upgraded>>
    BY <1>2, InputsStay DEF Plan, programVars, inputs
  <2> QED BY <1>1, <2>1
<1>3. CASE PlanDone \/ PlanFails \/ VerifyFails \/ BuildStep \/ UNCHANGED dynpaxVars
  <2>1. UNCHANGED vars /\ UNCHANGED <<delivered, upgraded>>
    BY <1>3 DEF PlanDone, PlanFails, VerifyFails, BuildStep, programVars, dynpaxVars, vars,
         Build, CopyEntry, TouchExecutable, LinkAlias, MaterializeFails, Materialized,
         SkipRewrite, RewriteExecutable, RewriteLibrary, ReopenFails, Rewritten,
         MaterializeFault, RewriteFault, RewriteLost
  <2>2. UNCHANGED <<host, cached>> BY <2>1 DEF vars, inputs
  <2> QED BY <1>1, <2>1, <2>2
<1>4. CASE NextTarget \/ LastTarget
  <2>1. /\ stage = "verify" /\ delivered' = Append(delivered, manifest)
        /\ UNCHANGED <<host, cached, upgraded>>
    BY <1>4 DEF NextTarget, LastTarget, Take, vars, inputs
  <2> QED BY <2>1, LinkedDelivered DEF LinkedInv
<1>5. CASE Kill \/ GiveAgain
  <2>1. delivered' = <<>> BY <1>5 DEF Kill, GiveAgain, Restart
  <2> QED BY <2>1 DEF LinkedInv
<1>6. CASE HostChanges
  <2>1. upgraded' = TRUE BY <1>6 DEF HostChanges
  <2> QED BY <2>1 DEF LinkedInv
<1> QED BY <1>2, <1>3, <1>4, <1>5, <1>6 DEF DynpaxNext, Program

(* A delivered file that lies where its path says lies in a directory of    *)
(* the root, and is what its path leads to.                                 *)
LEMMA StraightFile ==
  ASSUME DeliveryInv, Comparable, Success, NEW e \in Delivered,
         e.kind # "SymlinkAlias", Straight(e)
  PROVE  /\ e \in ledger /\ PlaceOf(e) = Lies(root, e) /\ e.bundled \in Path
         /\ Front(PlaceOf(e)) = Components[e.bundled.dir]
         /\ IsDirectory(root, Components[e.bundled.dir])
         /\ End(root, e.bundled) = Lies(root, e)
<1>1. Clear /\ Geography(root) /\ ~Clash(root) /\ Tree(root)
  BY ClearOfClashes
<1>2. e \in ledger /\ Stays(root, e) BY DeliveredIsWhole
<1>3. PlaceOf(e) = Lies(root, e) BY <1>1, <1>2, EntryPlace DEF PlaceOf
<1>4. e.bundled \in Path /\ Front(PlaceOf(e)) = Components[e.bundled.dir]
  BY <1>1, <1>2, EntryLies, LocationOfType DEF Straight
<1>5. Lies(root, e) \in DOMAIN root /\ Made(root, e)
  BY <1>1, <1>2, NodeType DEF Stays, Made
<1>6. IsDirectory(root, Components[e.bundled.dir])
  BY <1>3, <1>4, <1>5 DEF Made
<1>7. End(root, e.bundled) = Lies(root, e)
  BY <1>1, <1>2, <1>5, NoLinkThere, EndLies
<1> QED BY <1>2, <1>3, <1>4, <1>6, <1>7

LEMMA PreservedLibrariesLoad ==
  DeliveryInv /\ LinkedInv => (policy = PreserveSourceTree => SharedLibrariesStillLoad)
<1> SUFFICES ASSUME DeliveryInv, LinkedInv, policy = PreserveSourceTree, Success,
                    Comparable, \A d \in Delivered : Straight(d),
                    NEW chroot \in BOOLEAN, NEW k \in DOMAIN delivered,
                    NEW e \in EntriesOf(delivered[k]),
                    e.kind \in {"Executable", "SharedObject"},
                    NEW f \in Wanted(delivered[k], e)
             PROVE  Finds(chroot, e, f)
  BY DEF SharedLibrariesStillLoad, AllLoad
<1>1. Clear /\ Geography(root) /\ ~Clash(root) /\ Tree(root) /\ ~upgraded
  BY ClearOfClashes
<1>2. e \in Delivered /\ f \in Delivered /\ f.kind = "SharedObject"
      /\ f \in EntriesOf(delivered[k])
  BY DEF Delivered, Wanted
<1>3. Routed(root, e) BY <1>2, DeliveredIsWhole
<1>4. PICK j \in DOMAIN delivered : \E o \in EntriesOf(delivered[j]) :
        /\ Same(o, e) /\ Lies(root, o) = Lies(root, e)
        /\ root[Lies(root, e)].runpath = TextsOf(delivered[j], o)
  BY <1>3 DEF Routed
<1>5. PICK o \in EntriesOf(delivered[j]) :
        /\ Same(o, e) /\ Lies(root, o) = Lies(root, e)
        /\ root[Lies(root, e)].runpath = TextsOf(delivered[j], o)
  BY <1>4
<1> DEFINE m == delivered[j]
<1>6. o \in Delivered /\ o.source = e.source /\ o.kind = e.kind
  BY <1>5 DEF Delivered, Same
<1>7. PICK name \in ToSet(ImportedLibraries(e.source)) :
        Dependency(e.source, name).canonical = f.source
  BY DEF Wanted
<1>8. Closed(m) /\ Closed(delivered[k]) BY <1>1 DEF LinkedInv
<1>9. PICK i \in DOMAIN m : m[i].kind = "SharedObject" /\ m[i].source = f.source
  <2>1. Parses(f.source) BY <1>2, <1>8 DEF Closed
  <2>2. PICK g \in EntriesOf(m) :
          \/ g.kind = "SharedObject" /\ g.source = f.source
          \/ g.kind = "Interpreter" /\ Canonicalize(g.source) = f.source
    <3>1. Provided(m, Dependency(e.source, name))
      BY <1>5, <1>6, <1>7, <1>8 DEF Closed
    <3> QED BY <1>7, <2>1, <3>1 DEF Provided
  <2>3. g \in Delivered BY DEF Delivered
  <2>4. ~(g.kind = "Interpreter" /\ Canonicalize(g.source) = f.source)
    BY <2>3 DEF Wanted
  <2> QED BY <2>2, <2>4 DEF EntriesOf
<1> DEFINE g == m[i]
<1>10. g \in Delivered /\ g.kind = "SharedObject" /\ g.source = f.source
  BY <1>9 DEF Delivered, EntriesOf
<1>11. /\ Front(PlaceOf(e)) = Components[o.bundled.dir]
       /\ IsDirectory(root, Components[o.bundled.dir])
       /\ FileAt(e.bundled).runpath = TextsOf(m, o)
  <2>1. PlaceOf(e) = Lies(root, e) /\ End(root, e.bundled) = Lies(root, e)
    BY <1>2, StraightFile
  <2>2. /\ PlaceOf(o) = Lies(root, o) /\ Front(PlaceOf(o)) = Components[o.bundled.dir]
        /\ IsDirectory(root, Components[o.bundled.dir])
    BY <1>6, StraightFile
  <2> QED BY <1>5, <2>1, <2>2 DEF FileAt
<1>12. /\ Front(PlaceOf(g)) = Components[g.bundled.dir]
       /\ IsDirectory(root, Components[g.bundled.dir])
  BY <1>10, StraightFile
<1>13. Origin(o.bundled, g.bundled.dir) \in ToSet(FileAt(e.bundled).runpath)
  <2> DEFINE dirs == BundledLibraryDirectories(m, PreserveSourceTree)
             S == Seq(Entry)
  <2>1. m \in Seq(Entry)
    <3>1. delivered \in Seq(S) BY DEF DeliveryInv, DynpaxInv, DynpaxTypeOK
    <3> HIDE DEF S
    <3>2. m \in S BY <3>1, ElementOfSeq
    <3> QED BY <3>2 DEF S
  <2>2. g.bundled.dir \in ToSet(dirs) BY <1>9, <2>1, DirectoryIsListed
  <2> HIDE DEF g
  <2>3. PICK n \in DOMAIN dirs : dirs[n] = g.bundled.dir BY <2>2 DEF ToSet
  <2>4. TextsOf(m, o) = [x \in DOMAIN dirs |-> Origin(o.bundled, dirs[x])]
    BY DEF TextsOf
  <2> HIDE DEF dirs
  <2>5. n \in DOMAIN TextsOf(m, o) /\ TextsOf(m, o)[n] = Origin(o.bundled, g.bundled.dir)
    BY <2>3, <2>4
  <2> QED BY <1>11, <2>5 DEF ToSet
<1>14. Walking(root, chroot, Front(PlaceOf(e)), Origin(o.bundled, g.bundled.dir).origin)
         = Front(PlaceOf(g))
  BY <1>1, <1>11, <1>12, RelativeReaches DEF Origin
<1> HIDE DEF g
<1> QED BY <1>10, <1>13, <1>14 DEF Finds

(* With exit status 0, whichever the layout and wherever the bundle is put  *)
(* or chrooted into, the RUNPATH left in every delivered file leads to the  *)
(* directory of a copy of each library its target bundled for an import of  *)
(* it, although later targets may have rewritten the file: if planned paths *)
(* do not clash, files lie where their paths say and the host is unchanged. *)
THEOREM SharedLibrariesLoad == DynpaxSpec => []SharedLibrariesStillLoad
<1>1. DynpaxInit => FlatInv BY DEF DynpaxInit, Init, FlatInv
<1>2. DeliveryInv /\ FlatInv /\ [DynpaxNext]_dynpaxVars => FlatInv'
  BY FlatInvStep DEF DeliveryInv
<1>3. DeliveryInv /\ FlatInv /\ ServesInv /\ [DynpaxNext]_dynpaxVars => ServesInv'
  BY ServesInvStep
<1>4. DeliveryInv /\ NamesInv /\ [DynpaxNext]_dynpaxVars => NamesInv'
  BY NamesInvStep DEF DeliveryInv
<1>5. DynpaxInit => LinkedInv BY DEF DynpaxInit, LinkedInv
<1>6. DeliveryInv /\ NamesInv /\ LinkedInv /\ [DynpaxNext]_dynpaxVars => LinkedInv'
  BY LinkedInvStep DEF DeliveryInv
<1>7. DeliveryInv /\ ServesInv /\ LinkedInv => SharedLibrariesStillLoad
  <2>1. DeliveryInv => policy \in Policy
    BY DEF DeliveryInv, DynpaxInv, DynpaxTypeOK, TypeOK
  <2> QED BY <2>1, FlatLibrariesLoad, PreservedLibrariesLoad DEF Policy
<1> QED BY <1>1, <1>2, <1>3, <1>4, <1>5, <1>6, <1>7, DeliveryInvInit, DeliveryInvStep,
           ServesInvInit, NamesInvInit, PTL DEF DynpaxSpec

-----------------------------------------------------------------------------
(* Nothing in a root of planned entries is in the way of an entry.         *)

LEMMA MadeAfter ==
  ASSUME Clear, NEW t, Geography(t), FilesPlanned(t), NEW e \in ledger,
         NEW u, u = MakeDirectories(t, Components[e.bundled.dir])
  PROVE  Geography(u) /\ Made(u, e)
<1> DEFINE path == Components[e.bundled.dir]
           g == Goes(t, path)
<1>1. /\ e.bundled \in Path /\ path \in Location /\ path # <<>>
      /\ Tree(t)
  BY EntryLies, LocationOfType DEF Geography
<1>2. MadeAt(t, path) = g /\ g \in Location /\ g \in Spots(path)
  BY <1>1, EntryPlace, GoesIs
<1>3. Prefixes(g) \subseteq Ways(e) BY <1>2 DEF Ways
<1>4. Geography(u) BY MakeOnward DEF Onward
<1>5. ASSUME NEW l \in Prefixes(g), l \in DOMAIN t, t[l] # DirNode PROVE FALSE
  <2>1. t[l].kind \in {"file", "link"} /\ l # <<>> BY <1>1, <1>5, NodeType
  <2>2. \A f \in ledger : l # Lies(t, f) BY <1>3, <1>5, EntryLies
  <2>3. t[l].kind # "file" BY <1>5, <2>2 DEF FilesPlanned, PlannedFile
  <2>4. LinkAt(t, l) /\ l \in Redirected
    BY <1>5, <2>1, <2>2, <2>3 DEF LinkAt, Geography, LinksPlanned, PlannedLink
  <2>5. PICK k \in 0..Len(g) : l = SubSeq(g, 1, k) BY <1>5 DEF Prefixes
  <2>6. k # 0 /\ k \in 1..Len(g) BY <1>2, <2>1, <2>5, PathParts DEF Location
  <2>7. CASE Turns(t, path) = {}
    <3>1. g = path BY <1>1, <2>7, GoesIs
    <3> HIDE DEF g
    <3>2. /\ l \in Location /\ Len(l) = k /\ Len(l) <= Len(g)
          /\ \A i \in 1..k : l[i] = g[i]
      BY <1>2, <2>5, <2>6, PathParts DEF Location
    <3>3. IsPrefix(l, g) BY <1>2, <3>2, PrefixIs DEF Location
    <3> QED BY <2>4, <2>7, <3>1, <3>3 DEF Turns
  <2>8. CASE Turns(t, path) # {}
    <3>1. PICK r \in Turns(t, path) : TRUE BY <2>8
    <3>2. r \in Redirected /\ Len(r) <= Len(path) /\ g = Turned(path, r)
      BY <1>1, <3>1, GoesIs
    <3>3. g # <<>> /\ g[1] = "lib64"
      BY <1>1, <3>2, LocationIs, TurnedParts
    <3> QED BY <1>2, <2>4, <2>5, <2>6, <3>3, UnderLib64
  <2> QED BY <2>7, <2>8
<1>6. ~Obstructed(t, path) BY <1>2, <1>5 DEF Obstructed
<1> DEFINE new == [l \in Prefixes(g) \ {<<>>} |-> DirNode]
<1>7. /\ DOMAIN u = DOMAIN t \cup DOMAIN new
      /\ \A k \in DOMAIN t : u[k] = t[k]
      /\ \A k \in DOMAIN new \ DOMAIN t : u[k] = new[k]
  <2>1. u = Added(t, new) BY <1>2, <1>6 DEF MakeDirectories
  <2> HIDE DEF new
  <2>2. /\ DOMAIN Added(t, new) = DOMAIN t \cup DOMAIN new
        /\ \A k \in DOMAIN t : Added(t, new)[k] = t[k]
        /\ \A k \in DOMAIN new \ DOMAIN t : Added(t, new)[k] = new[k]
    BY AddedIs
  <2> QED BY <2>1, <2>2, Zenon
<1>8. IsDirectory(u, g)
  <2>1. g \in Prefixes(g) BY <1>2, PrefixesIs
  <2> HIDE DEF g
  <2> QED BY <1>5, <1>7, <2>1 DEF IsDirectory
<1>9. ASSUME NEW l PROVE LinkAt(u, l) <=> LinkAt(t, l)
  <2>1. CASE l \in DOMAIN t BY <1>7, <2>1 DEF LinkAt
  <2>2. CASE l \notin DOMAIN t BY <1>7, <2>2, NodeKinds DEF LinkAt
  <2> QED BY <2>1, <2>2
<1>10. Goes(u, path) = g
  <2>1. Turns(u, path) = Turns(t, path) BY <1>9 DEF Turns
  <2> QED BY <2>1 DEF Goes
<1> QED BY <1>4, <1>8, <1>10, EntryPlace DEF Made

LEMMA RoomForEntry ==
  ASSUME Clear, NEW t, Geography(t), ~Clash(t), NEW e \in ledger, Made(t, e)
  PROVE  IF e.kind = "SymlinkAlias" THEN Linkable(t, e.bundled)
         ELSE Writable(t, e.bundled)
<1>1. ~IsDirectory(t, Lies(t, e)) /\ Tree(t) BY NoDirectoryThere DEF Geography
<1>2. CASE e.kind = "SymlinkAlias"
  <2>1. Place(t, e.bundled) = Lies(t, e) BY EntryPlace
  <2>2. \A l \in DOMAIN t : Front(l) # Lies(t, e) BY <1>1, NodeType
  <2> QED BY <1>2, <2>1, <2>2 DEF Linkable, Made
<1>3. CASE e.kind # "SymlinkAlias"
  <2>1. ~LinkAt(t, Lies(t, e)) BY <1>3, NoLinkThere
  <2>2. End(t, e.bundled) = Lies(t, e) /\ Lies(t, e) \in Location
    BY <2>1, EndLies, EntryLies
  <2> QED BY <1>1, <1>3, <2>2, Parts DEF Writable
<1> QED BY <1>2, <1>3

LEMMA BootsAgain ==
  ASSUME Clear, NEW t, Geography(t), FilesPlanned(t), NEW p \in Policy
  PROVE  Bootable(t, p)
<1> SUFFICES ASSUME NEW d \in ToSet(CompatibilityDirectories(p)), d \in DOMAIN t,
                    t[d] # DirNode
             PROVE  FALSE
  BY DEF Bootable
<1>1. d \in {<<"bin">>, <<"lib64">>, <<"usr">>}
  BY DEF CompatibilityDirectories, ToSet
<1>2. d \in LayoutPlaces /\ d \notin Redirected BY <1>1, LayoutParts
<1>3. \A f \in ledger : d # Lies(t, f) BY <1>2, EntryLies
<1>4. t[d].kind \in {"file", "link"} BY NodeType DEF Geography
<1> QED BY <1>2, <1>3, <1>4 DEF FilesPlanned, PlannedFile, Geography, LinksPlanned,
                                PlannedLink, LinkAt

(* No guard of materialize() fails but for the source of a copy.           *)
LEMMA AlwaysMakeable ==
  ASSUME DeliveryInv, Materializing, WaysClear, NEW t \in Prepared, ~Clash(t),
         Copied => Opens(entry.source)
  PROVE  Makeable(t)
<1>1. /\ Clear /\ Geography(root) /\ Tree(root) /\ policy \in Policy
      /\ entry \in ledger
  BY AtWork DEF Materializing
<1> DEFINE b == Bootstrap(root, policy)
<1>2. Onward(root, t) BY PreparedOnward DEF Materializing
<1>3. ~Clash(root) BY <1>1, <1>2, ClashStays DEF Onward, Geography
<1>4. FilesPlanned(root) BY <1>3 DEF DeliveryInv, RootInv
<1>5. Onward(root, b) BY <1>1, BootstrapOnward
<1>6. t = MakeDirectories(b, Components[entry.bundled.dir]) BY DEF Prepared
<1> HIDE DEF b
<1>7. Onward(b, t) BY <1>1, <1>5, <1>6, MakeOnward DEF Onward
<1>8. ~Clash(b) BY <1>1, <1>5, <1>7, ClashStays DEF Onward, Geography
<1>9. Geography(b) /\ FilesPlanned(b) BY <1>4, <1>5, <1>8 DEF Onward
<1>10. Geography(t) /\ Made(t, entry) BY <1>1, <1>6, <1>9, MadeAfter
<1>11. IF entry.kind = "SymlinkAlias" THEN Linkable(t, entry.bundled)
       ELSE Writable(t, entry.bundled)
  BY <1>1, <1>10, RoomForEntry
<1>12. Writable(t, entry.bundled) => End(t, entry.bundled) \notin {Nowhere, Outside}
  BY DEF Writable
<1>13. Copied => entry.kind \notin {"SymlinkAlias", "Executable"} BY DEF Copied
<1> QED BY <1>1, <1>4, <1>11, <1>12, <1>13, BootsAgain DEF Makeable

-----------------------------------------------------------------------------
(* The texts of aliases, and the chains they make.                         *)

(* Every entry of the manifest lies where its bundle path says.            *)
Standing(t) ==
  \A j \in DOMAIN manifest :
    LET l == LocationOf(manifest[j].bundled)
    IN  /\ l \in DOMAIN t
        /\ IF manifest[j].kind = "SymlinkAlias"
           THEN t[l] = LinkNode(LinkText(manifest[j].bundled, manifest[j].target))
           ELSE t[l].kind = "file"

(* The kernel needs no more hops in the root than the plan's chain has.    *)
LEMMA ChainsEnd ==
  ASSUME TypeOK, AliasTargets, NEW t, Tree(t), Standing(t), NEW c, NEW f, Leads(f, c)
  PROVE  \A n \in 0..MaxHops : \A path \in Path :
           f[n][path] =>
             \A h \in 0..MaxHops :
               h >= n => From(t, h, <<>>, LocationOf(path)) \in DOMAIN t
<1> DEFINE Good(n) ==
             \A path \in Path :
               f[n][path] =>
                 \A h \in 0..MaxHops :
                   h >= n => From(t, h, <<>>, LocationOf(path)) \in DOMAIN t
           S == {n \in Nat : n \in 0..MaxHops => Good(n)}
<1>1. MaxHops \in Nat BY GeographyAssumption
<1>2. ASSUME NEW n \in 0..MaxHops, n # 0 => Good(n - 1),
             NEW path \in Path, f[n][path], NEW h \in 0..MaxHops, h >= n
      PROVE  From(t, h, <<>>, LocationOf(path)) \in DOMAIN t
  <2>1. PICK j \in DOMAIN manifest :
          /\ manifest[j].bundled = path
          /\ manifest[j].kind = "SymlinkAlias" =>
               n > 0 /\ f[n - 1][manifest[j].target]
    BY <1>2 DEF Leads
  <2> DEFINE d == Components[path.dir]
             l == LocationOf(path)
  <2>2. l \in DOMAIN t /\ d \in Location /\ l \in Location /\ Front(l) = d
    BY <2>1, LocationOfType DEF Standing
  <2>3. IsDirectory(t, d) BY <2>2, NodeType
  <2>4. /\ From(t, h, <<>>, l) = From(t, h, d, <<path.name>>)
        /\ Append(d, path.name) = l
        /\ <<path.name>> \in RelPath /\ path.name # ".."
    BY <2>3, ToTheEntry
  <2> DEFINE q == <<path.name>>
  <2>5. q # <<>> /\ Head(q) = path.name /\ Tail(q) = <<>>
    OBVIOUS
  <2>8. q \in RelPath /\ Head(q) # ".." /\ Append(d, Head(q)) = l
    BY <2>4, <2>5
  <2>9. From(t, h, <<>>, l) = From(t, h, d, q) BY <2>4
  <2> HIDE DEF q
  <2>6. CASE manifest[j].kind # "SymlinkAlias"
    <3>1. ~LinkAt(t, l) BY <2>1, <2>6 DEF Standing, LinkAt
    <3> HIDE DEF d, l
    <3>4. h \in 0..MaxHops /\ ~LinkAt(t, Append(d, Head(q)))
      BY <1>2, <2>8, <3>1, Zenon
    <3>2. From(t, h, d, q) = From(t, h, l, <<>>)
      <4>1. From(t, h, d, q) = From(t, h, Append(d, Head(q)), Tail(q))
        BY <2>2, <2>3, <2>5, <2>8, <3>4, StepDown, Zenon
      <4>2. Append(d, Head(q)) = l /\ Tail(q) = <<>> BY <2>5, <2>8
      <4> QED BY <4>1, <4>2, Zenon
    <3>3. From(t, h, l, <<>>) = l BY <2>2, Arrives
    <3> QED BY <2>2, <2>9, <3>2, <3>3 DEF l
  <2>7. CASE manifest[j].kind = "SymlinkAlias"
    <3> DEFINE target == manifest[j].target
               text == LinkText(path, target)
    <3>1. n > 0 /\ f[n - 1][target] /\ target \in Path
      BY <2>1, <2>7 DEF AliasTargets
    <3>2. t[l] = LinkNode(text) BY <2>1, <2>7 DEF Standing
    <3>3. text = Relative(LocationOf(target), d) /\ LocationOf(target) \in Location
      BY <3>1, LocationOfType DEF LinkText
    <3>4. text \in RelPath BY <2>2, <3>3, RelativeType
    <3> HIDE DEF d, l, target, text
    <3>5. LinkAt(t, l) /\ t[l].to = text BY <2>2, <3>2 DEF LinkAt, LinkNode
    <3>6. h \in 1..MaxHops /\ h - 1 \in 0..MaxHops /\ h - 1 >= n - 1
      BY <1>1, <1>2, <3>1
    <3>11. LinkAt(t, Append(d, Head(q))) /\ t[Append(d, Head(q))].to = text
      BY <2>8, <3>5, Zenon
    <3>7. From(t, h, d, q) = From(t, h - 1, d, text \o <<>>)
      <4>1. From(t, h, d, q)
              = From(t, h - 1, d, t[Append(d, Head(q))].to \o Tail(q))
        BY <2>2, <2>3, <2>5, <2>8, <3>11, <3>6, StepLink, Zenon
      <4>2. t[Append(d, Head(q))].to = text /\ Tail(q) = <<>> BY <2>5, <3>11
      <4> QED BY <4>1, <4>2, Zenon
    <3>8. text \o <<>> = text BY <3>4 DEF RelPath
    <3>9. From(t, h - 1, d, text) = From(t, h - 1, <<>>, LocationOf(target))
      BY <2>2, <2>3, <3>3, <3>6, RelativeLeads
    <3>10. From(t, h - 1, <<>>, LocationOf(target)) \in DOMAIN t
      BY <1>2, <3>1, <3>6
    <3> QED BY <2>9, <3>7, <3>8, <3>9, <3>10 DEF l
  <2> QED BY <2>6, <2>7
<1>3. 0 \in S BY <1>2
<1>4. ASSUME NEW n \in Nat, n \in S PROVE n + 1 \in S
  <2> SUFFICES ASSUME n + 1 \in 0..MaxHops PROVE Good(n + 1) OBVIOUS
  <2>1. Good(n) BY <1>1, <1>4
  <2>2. (n + 1) - 1 = n BY <1>4
  <2>3. n + 1 # 0 => Good((n + 1) - 1) BY <2>1, <2>2
  <2> QED BY <1>2, <2>3
<1> HIDE DEF S
<1>5. Nat \subseteq S BY <1>3, <1>4, NatSet
<1> QED BY <1>1, <1>5 DEF S

(* Where every alias opens on the host, it opens in the bundle.            *)
LEMMA AliasesOpen ==
  ASSUME TypeOK, ClosureInv, PlanInv, AliasTargets, Planned, LexicalIsPhysical,
         NEW t, Tree(t), Standing(t),
         NEW i \in OfKind("SymlinkAlias"), Parses(manifest[i].source)
  PROVE  Bundled(t, manifest[i].bundled)
<1> DEFINE p == manifest[i].source
           c == Destination(p)
           m == MaxHops - 1
<1>1. i \in DOMAIN manifest /\ manifest[i].kind = "SymlinkAlias"
      /\ manifest[i] \in Entry
  BY DEF OfKind, TypeOK
<1>2. p \in Path /\ IsLink(p) /\ manifest[i].bundled \in Path
      /\ manifest[i].target \in Path
  BY <1>1 DEF Entry, PlanInv, EntriesInv, AliasEntryInv, KnownLink, AliasTargets
<1>3. MaxHops \in 0..MaxHops /\ MaxHops # 0 /\ m \in 0..MaxHops /\ MaxHops > 0
  BY GeographyAssumption
<1>4. HostType BY DEF TypeOK
<1>5. Walk[MaxHops][p] = Walk[m][LinkTarget(p)] BY <1>2, <1>3, <1>4, LexicalHop
<1>6. Opens(p) BY DEF Parses, IsElf
<1>7. Walk[MaxHops][p] = c BY <1>2, <1>4, <1>6, OpenIsWalk
<1>8. c \in Path /\ Parses(c)
  <2>1. Canonicalize(p) = c BY <1>6 DEF Canonicalize
  <2>2. Parses(p) OBVIOUS
  <2> HIDE DEF p, c
  <2> QED BY <1>2, <1>4, <1>6, <2>1, <2>2, CanonicalType, CanonicalIsFixed
<1>9. PICK f : Leads(f, c) BY <1>1, LeadsEquation
<1> HIDE DEF c, m
<1>10. f[m][manifest[i].target] BY <1>3, <1>5, <1>7, <1>8, <1>9, ChainsLead
<1>11. f[MaxHops][manifest[i].bundled]
  BY <1>1, <1>2, <1>3, <1>9, <1>10 DEF Leads, m
<1>12. From(t, MaxHops, <<>>, LocationOf(manifest[i].bundled)) \in DOMAIN t
  BY <1>2, <1>3, <1>9, <1>11, ChainsEnd
<1> QED BY <1>12, FollowFrom DEF Bundled, End

-----------------------------------------------------------------------------
(* What a run that nothing disturbs has made so far of its target: what is  *)
(* materialised lies where it should, what is rewritten is as the verifier  *)
(* wants it.                                                                *)
Ready(t, e) ==
  /\ Lies(t, e) \in DOMAIN t
  /\ IF e.kind = "SymlinkAlias" THEN t[Lies(t, e)] = LinkNode(AliasText(e))
     ELSE /\ t[Lies(t, e)].kind = "file"
          /\ e.kind # "Executable" => t[Lies(t, e)].parses
Approved(e, file) ==
  /\ file.parses /\ RunpathVerified(e, file)
  /\ e.kind = "Executable" => InterpreterVerified(e, file)
Finished(t, e) ==
  e.kind \in {"Executable", "SharedObject"} => Approved(e, t[Lies(t, e)])
Laid(t) == policy = FlatLib64 => LayoutPlaces \subseteq DOMAIN t

Polished == CASE stage = "rewrite" -> 1..(next - 1)
              [] stage = "verify" -> DOMAIN manifest
              [] OTHER -> {}
Progress ==
  /\ Done # {} => Laid(root)
  /\ \A i \in Done : Ready(root, manifest[i])
  /\ \A i \in Polished : Finished(root, manifest[i])

(* An entry keeps its node under an operation on another, and shares it     *)
(* only with an entry of the same source and kind.                          *)
LEMMA NodeKept ==
  ASSUME Clear, NEW t, Geography(t), FilesPlanned(t), NEW e \in ledger, NEW u,
         Onward(t, u), Steady(t, u, e), ~Clash(u),
         NEW f \in ledger, Lies(t, f) \in DOMAIN t
  PROVE  /\ Lies(u, f) = Lies(t, f) /\ Lies(u, f) \in DOMAIN u
         /\ \/ u[Lies(u, f)] = t[Lies(t, f)]
            \/ Lies(u, f) = Lies(u, e) /\ Same(f, e)
<1> DEFINE l == Lies(t, f)
<1>1. Tree(t) /\ Tree(u) /\ Grows(t, u) BY DEF Onward, Geography
<1>2. Lies(u, f) = l /\ Made(u, f) BY <1>1, LiesWithin
<1>3. l \in DOMAIN u /\ (u[l] = t[l] \/ l = Lies(u, e)) BY DEF Steady, Keeps
<1>4. l = Lies(u, e) => Same(f, e) BY <1>2 DEF Clash
<1> QED BY <1>2, <1>3, <1>4

LEMMA ReadyStays ==
  ASSUME Clear, NEW t, Geography(t), FilesPlanned(t), NEW e \in ledger, NEW u,
         Onward(t, u), Steady(t, u, e), ~Clash(u), Ready(u, e),
         NEW f \in ledger, Ready(t, f)
  PROVE  Ready(u, f)
<1>1. /\ Lies(u, f) = Lies(t, f) /\ Lies(u, f) \in DOMAIN u
      /\ \/ u[Lies(u, f)] = t[Lies(t, f)]
         \/ Lies(u, f) = Lies(u, e) /\ Same(f, e)
  BY NodeKept DEF Ready
<1>2. CASE u[Lies(u, f)] = t[Lies(t, f)] BY <1>1, <1>2 DEF Ready
<1>3. CASE Lies(u, f) = Lies(u, e) /\ Same(f, e) BY <1>1, <1>3 DEF Ready, Same
<1> QED BY <1>1, <1>2, <1>3

LEMMA ReadyEnd ==
  ASSUME Clear, NEW t, Geography(t), ~Clash(t), NEW e \in ledger,
         e.kind # "SymlinkAlias", Ready(t, e)
  PROVE  /\ End(t, e.bundled) = Lies(t, e) /\ Bundled(t, e.bundled)
         /\ Writable(t, e.bundled)
<1>1. Tree(t) /\ Grows(t, t) BY DEF Geography, Grows
<1>2. Lies(t, e) \in DOMAIN t BY DEF Ready
<1>3. Made(t, e) BY <1>1, <1>2, LiesWithin
<1>4. End(t, e.bundled) = Lies(t, e) BY <1>3, NoLinkThere, EndLies
<1>5. Writable(t, e.bundled) BY <1>3, RoomForEntry
<1> QED BY <1>2, <1>4, <1>5 DEF Bundled

-----------------------------------------------------------------------------
(* No two entries of a plan, aliases aside, have one source and kind.       *)
PlanKept ==
  /\ Opened => manifest # <<>>
  /\ ~upgraded => PayloadInv

LEMMA OneOfEach ==
  ASSUME PlanKept, NamesInv, ~upgraded, NEW i \in DOMAIN manifest, NEW j \in DOMAIN manifest,
         Same(manifest[i], manifest[j]),
         manifest[i].kind \in {"Executable", "SharedObject"}
  PROVE  i = j
<1>1. PayloadInv /\ EndsInv BY DEF PlanKept, NamesInv, PlansAreFresh, ServedInv
<1>2. /\ manifest[i].kind = manifest[j].kind /\ manifest[i].source = manifest[j].source
      /\ i \in OfKind(manifest[i].kind) /\ j \in OfKind(manifest[i].kind)
  BY DEF Same, OfKind
<1>3. CASE manifest[i].kind = "Executable" BY <1>1, <1>2, <1>3 DEF EndsInv
<1>4. CASE manifest[i].kind = "SharedObject"
  BY <1>1, <1>2, <1>4 DEF PayloadInv, OnePayloadPerFile
<1> QED BY <1>3, <1>4

LEMMA BegunStep ==
  ASSUME TypeOK, Opened => manifest # <<>>, [Next]_vars
  PROVE  (Opened => manifest # <<>>)'
<1>1. ASSUME NEW e, manifest' = Append(manifest, e) PROVE manifest' # <<>>
  BY <1>1 DEF TypeOK
<1>2. CASE Open BY <1>2 DEF Open
<1>3. CASE Finish BY <1>1, <1>3 DEF Finish, Opened
<1>4. CASE Dequeue
  BY <1>1, <1>4 DEF Dequeue, ResolveFails, SkipInterpreter, SkipUnparseable, NewPayload,
                    SeenPayload, PlanAliasesOf, RegisterPayload, Opened
<1>5. CASE PlanTarget BY <1>1, <1>5 DEF PlanTarget
<1>6. CASE OpenFails \/ RegisterAlias \/ AliasesRegistered \/ TargetsPlanned \/ UNCHANGED vars
  BY <1>6 DEF OpenFails, RegisterAlias, AliasesRegistered, TargetsPlanned, vars, walkVars,
              Opened
<1> QED BY <1>2, <1>3, <1>4, <1>5, <1>6 DEF Next

LEMMA PlanKeptInit == DynpaxInit => PlanKept
BY PayloadInit DEF DynpaxInit, Init, PlanKept, Opened

LEMMA PlanKeptStep ==
  ASSUME DynpaxInv, PlanKept, [DynpaxNext]_dynpaxVars PROVE PlanKept'
<1>0. TypeOK BY DEF DynpaxInv, DynpaxTypeOK
<1>1. ASSUME [Next]_vars, UNCHANGED upgraded PROVE PlanKept'
  BY <1>0, <1>1, BegunStep, PayloadStep DEF PlanKept
<1>2. CASE Plan BY <1>1, <1>2 DEF Plan, programVars
<1>3. CASE PlanDone \/ PlanFails \/ VerifyFails \/ BuildStep \/ LastTarget
           \/ UNCHANGED dynpaxVars
  <2>1. UNCHANGED vars /\ UNCHANGED upgraded
    BY <1>3 DEF PlanDone, PlanFails, VerifyFails, BuildStep, LastTarget, programVars,
         dynpaxVars, vars,
         Build, CopyEntry, TouchExecutable, LinkAlias, MaterializeFails, Materialized,
         SkipRewrite, RewriteExecutable, RewriteLibrary, ReopenFails, Rewritten,
         MaterializeFault, RewriteFault, RewriteLost
  <2> QED BY <1>1, <2>1
<1>4. CASE NextTarget \/ Kill \/ GiveAgain
  <2>1. manifest' = <<>> /\ phase' = "open"
    BY <1>4 DEF NextTarget, Kill, GiveAgain, Restart, Take
  <2>2. OfKind("SharedObject")' = {} BY <2>1 DEF OfKind
  <2> QED BY <2>1, <2>2 DEF PlanKept, Opened, PayloadInv, OnePayloadPerFile
<1>5. CASE HostChanges
  BY <1>5 DEF HostChanges, walkVars, PlanKept, Opened
<1> QED BY <1>2, <1>3, <1>4, <1>5 DEF DynpaxNext, Program

-----------------------------------------------------------------------------
(* Without another layout, the root has none of the traces of one: no       *)
(* directory where the flat layout wants a symlink, and no symlink of that  *)
(* layout in a root of the other.                                           *)
Unmixed(t) ==
  \A r \in Redirected :
    IF policy = FlatLib64 THEN ~IsDirectory(t, r) ELSE ~LinkAt(t, r)
LayoutInv == ~Relayout /\ WaysClear => Unmixed(root)

LEMMA LinkSteps ==
  \A step \in ToSet(BootstrapSteps(FlatLib64)) :
    step[1] \in Redirected => step[2] # DirNode
<1> SUFFICES ASSUME NEW step \in ToSet(BootstrapSteps(FlatLib64)), step[1] \in Redirected,
                    step[2] = DirNode
             PROVE  FALSE
  OBVIOUS
<1>1. \A to : LinkNode(to) # DirNode BY DEF LinkNode, DirNode
<1>2. PICK i \in 1..6 : step = BootstrapSteps(FlatLib64)[i]
  <2> DEFINE steps == BootstrapSteps(FlatLib64)
  <2>1. DOMAIN steps = 1..6 BY StepsAre
  <2> HIDE DEF steps
  <2> QED BY <2>1 DEF ToSet, steps
<1>3. i \in {1, 2, 3}
  <2>1. i \in {1, 2, 3, 4, 5, 6} OBVIOUS
  <2> QED BY <1>1, <1>2, <2>1, StepsAre
<1>4. step[1] \in {<<"bin">>, <<"lib64">>, <<"usr">>} BY <1>2, <1>3, StepsAre
<1> QED BY <1>4, LayoutParts

LEMMA BootstrapUnmixed ==
  ASSUME NEW t, Tree(t), Unmixed(t), policy \in Policy,
         NEW u, u = Bootstrap(t, policy) \/ u \in BootstrapCut(t, policy)
  PROVE  Unmixed(u)
<1> DEFINE B == BootstrapSteps(FlatLib64)
<1>1. /\ Tree(u) /\ Extends(t, u)
      /\ \A l \in DOMAIN u \ DOMAIN t : LayoutNode(u, l) /\ policy = FlatLib64
  BY BootstrapNodes
<1>2. ASSUME policy = FlatLib64, NEW r \in Redirected, r \in DOMAIN u \ DOMAIN t
      PROVE  u[r] # DirNode
  <2>1. \A n \in 0..Len(B) : OfBootstrap(SubSeq(B, 1, n))
    <3>1. Len(B) = 6 BY StepsAre
    <3> QED BY <3>1, FirstSteps DEF OfBootstrap
  <2> HIDE DEF B
  <2>2. PICK steps : u = Ensured(t, steps) /\ OfBootstrap(steps)
    <3>1. u # t BY <1>2
    <3>2. CASE u = Bootstrap(t, policy)
      <4>1. u = Ensured(t, B) BY <1>2, <3>1, <3>2 DEF Bootstrap, B
      <4> QED BY <4>1 DEF OfBootstrap, B
    <3>3. CASE u \in BootstrapCut(t, policy)
      <4>1. PICK steps \in Prefixes(B) : u = Ensured(t, steps)
        BY <1>2, <3>1, <3>3 DEF BootstrapCut, B
      <4>2. PICK n \in 0..Len(B) : steps = SubSeq(B, 1, n) BY <4>1 DEF Prefixes
      <4> QED BY <2>1, <4>1, <4>2
    <3> QED BY <3>2, <3>3
  <2>3. PICK step \in ToSet(steps) : r = step[1]
    <3>1. DOMAIN u = DOMAIN t \cup StepPlaces(steps) BY <2>2, EnsuredIs
    <3> QED BY <1>2, <3>1 DEF StepPlaces
  <2>4. u[r] = step[2] BY <1>2, <2>2, <2>3, EnsuredNew
  <2>5. step \in ToSet(BootstrapSteps(FlatLib64)) BY <2>2, <2>3 DEF OfBootstrap
  <2> QED BY <2>3, <2>4, <2>5, LinkSteps
<1> SUFFICES ASSUME NEW r \in Redirected
             PROVE  IF policy = FlatLib64 THEN ~IsDirectory(u, r) ELSE ~LinkAt(u, r)
  BY DEF Unmixed
<1>3. r # <<>> BY RedirectedParts, EmptyLocation
<1>4. CASE policy = FlatLib64
  <2>1. ~IsDirectory(t, r) BY <1>4 DEF Unmixed
  <2> QED BY <1>1, <1>2, <1>3, <1>4, <2>1 DEF IsDirectory, Extends
<1>5. CASE policy # FlatLib64
  <2>1. ~LinkAt(t, r) BY <1>5 DEF Unmixed
  <2> QED BY <1>1, <1>5, <2>1 DEF LinkAt, Extends
<1> QED BY <1>4, <1>5

LEMMA MakeUnmixed ==
  ASSUME Clear, NEW t, Geography(t), Unmixed(t), NEW e \in ledger,
         policy = FlatLib64 => FlatPlace(e),
         NEW u, u = MakeDirectories(t, Components[e.bundled.dir])
  PROVE  Unmixed(u)
<1> DEFINE path == Components[e.bundled.dir]
<1>1. /\ e.bundled \in Path /\ path \in Location /\ path # <<>> /\ Tree(t)
      /\ Front(LocationOf(e.bundled)) = path
  BY EntryLies, LocationOfType DEF Geography
<1>2. /\ Extends(t, u)
      /\ \A l \in DOMAIN u \ DOMAIN t : u[l] = DirNode /\ l \in Prefixes(MadeAt(t, path))
  BY <1>1, MakeNodes
<1> SUFFICES ASSUME NEW r \in Redirected
             PROVE  IF policy = FlatLib64 THEN ~IsDirectory(u, r) ELSE ~LinkAt(u, r)
  BY DEF Unmixed
<1>3. CASE policy = FlatLib64
  <2>1. e.bundled.dir \in FlatDirs BY <1>3 DEF FlatPlace
  <2>2. MadeAt(t, path) = path
    <3>1. Lies(t, e) = LocationOf(e.bundled) BY <1>1, <2>1, FlatStraight DEF Lies
    <3> QED BY <1>1, <3>1, EntryPlace
  <2>3. path = <<"bin">> \/ path = <<"lib64">> BY <2>1, RootAssumption DEF FlatDirs
  <2>4. ~IsDirectory(t, r) /\ r # <<>> BY <1>3, RedirectedParts, EmptyLocation DEF Unmixed
  <2>5. r \notin Prefixes(path)
    <3> SUFFICES ASSUME NEW k \in 0..Len(path), r = SubSeq(path, 1, k) PROVE FALSE
      BY DEF Prefixes
    <3>1. Len(path) = 1
      <4> HIDE DEF path
      <4> QED BY <2>3
    <3>2. k = 0 => r = <<>> BY <1>1, PathParts DEF Location
    <3>3. k = Len(path) => r = path BY <1>1, PathParts DEF Location
    <3>4. r = path BY <2>4, <3>1, <3>2, <3>3
    <3>5. \A q \in {<<"bin">>, <<"lib64">>} : q \notin Redirected BY LayoutParts
    <3> QED BY <2>3, <3>4, <3>5, Zenon
  <2> QED BY <1>2, <1>3, <2>2, <2>4, <2>5 DEF IsDirectory, Extends
<1>4. CASE policy # FlatLib64
  <2>1. ~LinkAt(t, r) BY <1>4 DEF Unmixed
  <2> QED BY <1>2, <1>4, <2>1, NodeKinds DEF LinkAt, Extends
<1> QED BY <1>3, <1>4

LEMMA WriteUnmixed ==
  ASSUME NEW t, Tree(t), Unmixed(t), NEW p \in Path, NEW file \in BundleFile
  PROVE  Unmixed(WriteAt(t, p, file))
<1> DEFINE u == WriteAt(t, p, file)
<1>1. \A l \in DOMAIN u : (l \in DOMAIN t /\ u[l] = t[l]) \/ u[l] = file
  BY WriteNodes
<1> HIDE DEF u
<1>2. file.kind = "file" /\ DirNode.kind = "dir" BY NodeKinds
<1>3. ASSUME NEW r \in Redirected
      PROVE  IF policy = FlatLib64 THEN ~IsDirectory(u, r) ELSE ~LinkAt(u, r)
  <2>1. r # <<>> BY RedirectedParts, EmptyLocation
  <2> QED BY <1>1, <1>2, <2>1 DEF Unmixed, IsDirectory, LinkAt
<1> QED BY <1>3 DEF Unmixed, u

LEMMA LinkUnmixed ==
  ASSUME Clear, NEW t, Geography(t), Unmixed(t), NEW e \in ledger, e.target \in Path
  PROVE  Unmixed(SymlinkTo(t, e.bundled, e.target)) /\ Unmixed(Removed(t, e.bundled))
<1>1. Tree(t) /\ e.bundled \in Path BY EntryLies DEF Geography
<1>2. Place(t, e.bundled) \notin Redirected BY EntryPlace, EntryLies
<1> DEFINE text == LinkText(e.bundled, e.target)
<1>3. ASSUME NEW u, u \in {SymlinkTo(t, e.bundled, e.target), Removed(t, e.bundled)}
      PROVE  \A l \in DOMAIN u : \/ l \in DOMAIN t /\ u[l] = t[l]
                                 \/ l = Place(t, e.bundled) /\ u[l] = LinkNode(text)
  BY <1>1, <1>3, LinkNodes
<1>4. ASSUME NEW u, u \in {SymlinkTo(t, e.bundled, e.target), Removed(t, e.bundled)}
      PROVE  Unmixed(u)
  <2> SUFFICES ASSUME NEW r \in Redirected
               PROVE  IF policy = FlatLib64 THEN ~IsDirectory(u, r) ELSE ~LinkAt(u, r)
    BY DEF Unmixed
  <2>1. r # <<>> BY RedirectedParts, EmptyLocation
  <2>2. r \in DOMAIN u => r \in DOMAIN t /\ u[r] = t[r] BY <1>2, <1>3, <1>4
  <2> QED BY <2>1, <2>2 DEF Unmixed, IsDirectory, LinkAt
<1> QED BY <1>4

LEMMA PreparedUnmixed ==
  ASSUME DeliveryInv, FlatInv, More, stage = "materialize", WaysClear, Unmixed(root),
         NEW t \in Prepared
  PROVE  Unmixed(t) /\ Geography(t)
<1>1. /\ Clear /\ Geography(root) /\ Tree(root) /\ policy \in Policy
      /\ entry \in ledger /\ entry = manifest[next] /\ next \in DOMAIN manifest
  BY AtWork
<1>2. policy = FlatLib64 => FlatPlace(entry) BY <1>1 DEF FlatInv
<1> DEFINE b == Bootstrap(root, policy)
<1>3. Unmixed(b) /\ Geography(b) BY <1>1, BootstrapUnmixed, BootstrapOnward DEF Onward
<1>4. t = MakeDirectories(b, Components[entry.bundled.dir]) BY DEF Prepared
<1> HIDE DEF b
<1>5. Unmixed(t) BY <1>1, <1>2, <1>3, <1>4, MakeUnmixed
<1>6. Geography(t) BY <1>1, <1>3, <1>4, MakeOnward DEF Onward
<1> QED BY <1>5, <1>6

LEMMA TornUnmixed ==
  ASSUME DeliveryInv, FlatInv, WaysClear, Unmixed(root), NEW t \in Torn
  PROVE  Unmixed(t)
<1>1. DynpaxInv BY DEF DeliveryInv
<1>2. \/ t = root
      \/ Materializing /\ t \in BootstrapCut(root, policy) \cup Prepared
      \/ TornLink(t) \/ TornFile(t)
  BY <1>1, TornIs
<1>3. ASSUME More, stage = "materialize", NEW u \in Prepared
      PROVE  Unmixed(u) /\ Geography(u)
  BY <1>3, PreparedUnmixed
<1>4. CASE Materializing /\ t \in BootstrapCut(root, policy) \cup Prepared
  <2>1. More /\ stage = "materialize" BY <1>4 DEF Materializing
  <2>2. Clear /\ Tree(root) /\ policy \in Policy BY <2>1, AtWork
  <2>3. CASE t \in BootstrapCut(root, policy) BY <2>2, <2>3, BootstrapUnmixed
  <2> QED BY <1>3, <1>4, <2>1, <2>3
<1>5. CASE TornLink(t)
  <2>1. PICK u \in Prepared : t = Removed(u, entry.bundled) BY <1>5 DEF TornLink
  <2>2. More /\ stage = "materialize" /\ entry.kind = "SymlinkAlias"
    BY <1>5 DEF TornLink, Materializing
  <2>3. Clear /\ entry \in ledger /\ entry.target \in Path BY <2>2, AtWork
  <2> QED BY <1>3, <2>1, <2>2, <2>3, LinkUnmixed
<1>6. CASE TornFile(t)
  <2>1. PICK file \in BundleFile : \E u \in Prepared \cup {root} :
          /\ t = WriteAt(u, entry.bundled, file)
          /\ IF stage = "materialize" THEN u \in Prepared
             ELSE stage = "rewrite" /\ u = root
    BY <1>6 DEF TornFile
  <2>2. PICK u \in Prepared \cup {root} :
          /\ t = WriteAt(u, entry.bundled, file)
          /\ IF stage = "materialize" THEN u \in Prepared
             ELSE stage = "rewrite" /\ u = root
    BY <2>1
  <2>3. More BY <1>6 DEF TornFile
  <2>4. Tree(root) /\ entry.bundled \in Path BY <2>2, <2>3, AtWork
  <2>5. Unmixed(u) /\ Tree(u) BY <1>3, <2>2, <2>3, <2>4 DEF Geography
  <2> QED BY <2>2, <2>4, <2>5, WriteUnmixed
<1> QED BY <1>2, <1>4, <1>5, <1>6

LEMMA BuildUnmixed ==
  ASSUME DeliveryInv, FlatInv, WaysClear, Unmixed(root), Build
  PROVE  Unmixed(root')
<1>0. DynpaxInv /\ HostType
  BY DEF DeliveryInv, DynpaxInv, DynpaxTypeOK, TypeOK
<1>1. CASE CopyEntry \/ TouchExecutable
  <2>1. PICK t \in Prepared :
          /\ Makeable(t)
          /\ root' = WriteAt(t, entry.bundled,
               IF entry.kind = "Executable" THEN Truncated(entry.source)
               ELSE CopyOf(entry.source))
    BY <1>1 DEF CopyEntry, TouchExecutable, Copied, CopyTo, TouchTo
  <2>2. /\ stage = "materialize" /\ More
        /\ entry.kind # "Executable" => Copied
    BY <1>1 DEF CopyEntry, TouchExecutable, Copied, Materializing
  <2>3. PICK file : file = IF entry.kind = "Executable" THEN Truncated(entry.source)
                           ELSE CopyOf(entry.source)
    OBVIOUS
  <2>4. file \in BundleFile /\ entry.bundled \in Path
    BY <1>0, <2>1, <2>2, <2>3, AtWork, CopyType, TruncatedType DEF Makeable
  <2>5. Unmixed(t) /\ Tree(t) BY <2>2, PreparedUnmixed DEF Geography
  <2> QED BY <2>1, <2>3, <2>4, <2>5, WriteUnmixed
<1>2. CASE LinkAlias
  <2>1. PICK t \in Prepared : root' = SymlinkTo(t, entry.bundled, entry.target)
    BY <1>2 DEF LinkAlias
  <2>2. stage = "materialize" /\ More /\ entry.kind = "SymlinkAlias"
    BY <1>2 DEF LinkAlias, Materializing
  <2>3. Clear /\ entry \in ledger /\ entry.target \in Path BY <2>2, AtWork
  <2>4. Unmixed(t) /\ Geography(t) BY <2>2, PreparedUnmixed
  <2> QED BY <2>1, <2>3, <2>4, LinkUnmixed
<1>3. CASE RewriteExecutable \/ RewriteLibrary
  <2>1. Rewriting /\ stage = "rewrite" /\ More
    BY <1>3 DEF RewriteExecutable, RewriteLibrary, Rewriting
  <2>2. PICK file \in BundleFile : root' = WriteAt(root, entry.bundled, file)
    BY <1>0, <1>3, <2>1, RewrittenFiles DEF RewriteExecutable, RewriteLibrary
  <2> QED BY <2>1, <2>2, AtWork, WriteUnmixed
<1>4. CASE MaterializeFails \/ MaterializeFault \/ RewriteFault \/ RewriteLost
  <2>1. root' \in Torn
    BY <1>4
    DEF MaterializeFails, MaterializeFault, RewriteFault, RewriteLost, Torn, TornMaterialize
  <2> QED BY <2>1, TornUnmixed
<1>5. CASE Materialized \/ SkipRewrite \/ ReopenFails \/ Rewritten
  BY <1>5 DEF Materialized, SkipRewrite, ReopenFails, Rewritten
<1> QED BY <1>1, <1>2, <1>3, <1>4, <1>5 DEF Build

LEMMA LayoutInvInit == DynpaxInit => LayoutInv
<1> SUFFICES ASSUME DynpaxInit PROVE LayoutInv OBVIOUS
<1>1. DOMAIN root = {} BY DEF DynpaxInit, NoEntries
<1>2. <<>> \notin Redirected BY RedirectedParts, EmptyLocation
<1> QED BY <1>1, <1>2 DEF LayoutInv, Unmixed, IsDirectory, LinkAt

LEMMA LayoutInvStep ==
  ASSUME DeliveryInv, FlatInv, LayoutInv, [DynpaxNext]_dynpaxVars PROVE LayoutInv'
<1> SUFFICES ASSUME ~Relayout, WaysClear' PROVE Unmixed(root)' BY DEF LayoutInv
<1>1. /\ UNCHANGED policy
      /\ \/ UNCHANGED root
         \/ Build
         \/ root' \in Torn
      /\ ledger \subseteq ledger' /\ (ledger' = ledger \/ UNCHANGED root)
  BY DEF DynpaxNext, Program, Plan, PlanDone, PlanFails, BuildStep, VerifyFails,
         NextTarget, LastTarget, Kill, GiveAgain, HostChanges, buildVars, dynpaxVars,
         programVars, Next, Open, OpenFails, Dequeue, ResolveFails, SkipInterpreter,
         SkipUnparseable, NewPayload, SeenPayload, PlanAliasesOf, RegisterAlias,
         AliasesRegistered, PlanTarget, TargetsPlanned, Finish, vars, walkVars, Build,
         CopyEntry, TouchExecutable, LinkAlias, MaterializeFails, Materialized,
         SkipRewrite, RewriteExecutable, RewriteLibrary, ReopenFails, Rewritten,
         MaterializeFault, RewriteFault, RewriteLost
<1>2. WaysClear BY <1>1, MoreLedger, SameLedger
<1>3. Unmixed(root) BY <1>2 DEF LayoutInv
<1>4. Unmixed(root') BY <1>1, <1>2, <1>3, BuildUnmixed, TornUnmixed
<1> QED BY <1>1, <1>4 DEF Unmixed

(* Then every entry lies where its bundle path says, and nothing is in the  *)
(* way of the layout.                                                       *)
LEMMA StraightHere ==
  ASSUME DeliveryInv, FlatInv, Unmixed(root), WaysClear, Working
  PROVE  /\ ~DirectoryInTheWay
         /\ \A i \in DOMAIN manifest : Straight(manifest[i])
<1>1. /\ Clear /\ Geography(root) /\ EntriesOf(manifest) \subseteq ledger
      /\ policy \in Policy
  BY DEF DeliveryInv, RootInv, Clear, LedgerInv, DynpaxInv, DynpaxTypeOK, TypeOK
<1>2. ~DirectoryInTheWay
  <2>1. CASE policy = FlatLib64
    <3>1. \A link \in ToSet(CompatibilitySymlinks(policy)) : link.at \in Redirected
      BY <2>1 DEF Redirected
    <3> QED BY <2>1, <3>1 DEF Unmixed, DirectoryInTheWay
  <2>2. CASE policy # FlatLib64
    BY <2>2 DEF DirectoryInTheWay, CompatibilitySymlinks, ToSet
  <2> QED BY <2>1, <2>2
<1>3. ASSUME NEW i \in DOMAIN manifest PROVE Straight(manifest[i])
  <2>1. manifest[i] \in ledger BY <1>1 DEF EntriesOf
  <2>2. manifest[i].bundled \in Path /\ LocationOf(manifest[i].bundled) \in Location
    BY <1>1, <2>1, EntryLies
  <2>3. Lies(root, manifest[i]) = LocationOf(manifest[i].bundled)
    <3>1. CASE policy = FlatLib64
      BY <2>2, <3>1, FlatStraight DEF FlatInv, FlatPlace, Lies
    <3>2. CASE policy # FlatLib64
      <4>1. Turns(root, LocationOf(manifest[i].bundled)) = {}
        BY <3>2 DEF Turns, Unmixed
      <4> QED BY <2>2, <4>1, GoesIs DEF Lies
    <3> QED BY <3>1, <3>2
  <2> QED BY <1>1, <2>1, <2>3, EntryPlace DEF Straight, PlaceOf
<1> QED BY <1>2, <1>3


-----------------------------------------------------------------------------
(* The verifier accepts what a run that nothing disturbs has made.          *)

LEMMA LayoutStands ==
  ASSUME Clear, Geography(root), FilesPlanned(root), policy = FlatLib64,
         LayoutPlaces \subseteq DOMAIN root, ~DirectoryInTheWay
  PROVE  CompatibilityVerified
<1> DEFINE S == Component \cup Name
<1>1. Tree(root) /\ TurnsRight(root) BY DEF Geography
<1>2. ASSUME NEW d \in ToSet(CompatibilityDirectories(policy))
      PROVE  Follow(root, d) \in DOMAIN root
  <2>1. d \in LayoutPlaces /\ d \in {<<"bin">>, <<"lib64">>, <<"usr">>}
    BY <1>2 DEF LayoutPlaces, CompatibilityDirectories, ToSet
  <2>2. d \notin Redirected /\ d \in DOMAIN root BY <2>1, LayoutParts
  <2>3. ~LinkAt(root, d)
    BY <2>1, <2>2, EntryLies DEF Geography, LinksPlanned, PlannedLink
  <2>4. d \in Location /\ IsDirectory(root, Front(d)) BY <1>1, <2>2, NodeType
  <2>5. Len(d) = 1 BY <2>1
  <2>6. ASSUME NEW k \in 1..Len(d) PROVE ~LinkAt(root, SubSeq(d, 1, k))
    <3>1. d \in Seq(S) BY <2>4, LocationIs
    <3> HIDE DEF S
    <3>2. k = Len(d) /\ k \in 0..Len(d) BY <2>5
    <3>3. SubSeq(d, 1, k) = d BY <3>1, <3>2, PathParts
    <3> QED BY <2>3, <3>3
  <2>7. MaxHops \in 0..MaxHops BY GeographyAssumption
  <2>8. Follow(root, d) = d
    <3> HIDE DEF S
    <3>1. From(root, MaxHops, <<>>, d) = d BY <1>1, <2>4, <2>6, <2>7, Direct
    <3> QED BY <3>1, FollowFrom
  <2> QED BY <2>2, <2>8
<1>3. ASSUME NEW link \in ToSet(CompatibilitySymlinks(policy))
      PROVE  /\ Follow(root, link.at) \in DOMAIN root
             /\ root[Append(MadeAt(root, Front(link.at)), Last(link.at))]
                  = LinkNode(link.to)
  <2> DEFINE r == link.at
  <2>1. r \in Redirected /\ r \in LayoutPlaces BY <1>3 DEF Redirected, LayoutPlaces
  <2>2. r \in DOMAIN root BY <2>1
  <2>3. r \in Location /\ r # <<>> /\ Len(r) \in {1, 2} /\ r \in Seq(S)
    BY <1>1, <2>1, <2>2, NodeType, RedirectedParts, LocationIs
  <2>4. root[r].kind # "file"
    BY <2>1, <2>2, EntryLies DEF FilesPlanned, PlannedFile
  <2>5. root[r].kind # "dir"
    BY <1>1, <1>3, <2>2, NodeType DEF DirectoryInTheWay, IsDirectory
  <2>6. LinkAt(root, r) BY <1>1, <2>2, <2>4, <2>5, NodeType DEF LinkAt
  <2>7. PICK other \in ToSet(CompatibilitySymlinks(FlatLib64)) :
          other.at = r /\ root[r] = LinkNode(other.to)
    BY <1>1, <2>1, <2>6 DEF TurnsRight
  <2>8. IsDirectory(root, <<"lib64">>) BY <1>1, <2>1, <2>6 DEF TurnsRight
  <2>9. other.to = link.to BY <1>3, <2>3, <2>7, LinkTexts
  <2>10. root[Append(MadeAt(root, Front(r)), Last(r))] = LinkNode(link.to)
    BY <2>1, <2>7, <2>9, LayoutPlaceIs
  <2>11. Follow(root, r) = <<"lib64">>
    <3> HIDE DEF r
    <3>1. IsPrefix(r, r)
      <4> HIDE DEF S
      <4> QED BY <2>3, PrefixIs
    <3>2. r \in Turns(root, r) BY <2>1, <2>6, <3>1 DEF Turns
    <3>3. Goes(root, r) = Turned(r, r) BY <2>3, <3>2, GoesIs
    <3>4. SubSeq(r, Len(r) + 1, Len(r)) = <<>>
      <4> HIDE DEF S
      <4>1. Len(r) \in 0..Len(r) BY <2>3
      <4> QED BY <2>3, <4>1, PathParts
    <3>5. <<"lib64">> \in Seq(S) /\ <<"lib64">> \o <<>> = <<"lib64">>
      <4>1. "lib64" \in S BY LocationIs
      <4> HIDE DEF S
      <4>2. \A q \in Seq(S) : q \o <<>> = q OBVIOUS
      <4>3. <<"lib64">> \in Seq(S) BY <4>1
      <4> QED BY <4>2, <4>3
    <3>6. Goes(root, r) = <<"lib64">>
      <4>1. Goes(root, r) = <<"lib64">> \o <<>> BY <3>3, <3>4 DEF Turned
      <4> QED BY <3>5, <4>1
    <3>7. ~LinkAt(root, <<"lib64">>) BY <2>8, NodeKinds DEF IsDirectory, LinkAt
    <3>8. OnlyTurns(root, <<"lib64">>)
      <4> SUFFICES ASSUME NEW k \in 1..Len(<<"lib64">>)
                   PROVE  ~LinkAt(root, SubSeq(<<"lib64">>, 1, k))
        BY DEF OnlyTurns
      <4> HIDE DEF S
      <4>1. Len(<<"lib64">>) = 1 OBVIOUS
      <4>2. k = Len(<<"lib64">>) /\ k \in 0..Len(<<"lib64">>) BY <4>1
      <4>3. SubSeq(<<"lib64">>, 1, k) = <<"lib64">> BY <3>5, <4>2, PathParts
      <4> QED BY <3>7, <4>3
    <3>9. Front(<<"lib64">>) = <<>> /\ IsDirectory(root, <<>>)
      BY DEF Front, IsDirectory
    <3> QED BY <1>1, <2>3, <3>8, <3>9, <3>6, FollowGoes
  <2>12. <<"lib64">> \in DOMAIN root BY <2>8 DEF IsDirectory
  <2> QED BY <2>10, <2>11, <2>12
<1> QED BY <1>2, <1>3 DEF CompatibilityVerified

(* Nothing disturbs the run, and nothing on the host or in the plans keeps  *)
(* its target from being bundled.                                           *)
Smooth ==
  /\ runs \notin disturbed /\ ~upgraded
  /\ WaysClear /\ ~Clash(root) /\ Bundleable

LEMMA SmoothRoot ==
  ASSUME DeliveryInv, Smooth
  PROVE  /\ Clear /\ Geography(root) /\ FilesPlanned(root) /\ Tree(root)
         /\ Working => \A i \in DOMAIN manifest : manifest[i] \in ledger
<1>1. Clear /\ Geography(root) /\ Tree(root) /\ FilesPlanned(root)
  BY DEF Smooth, Clear, DeliveryInv, DynpaxInv, DynpaxTypeOK, RootInv, Geography
<1>2. Working => \A i \in DOMAIN manifest : manifest[i] \in ledger
  BY DEF DeliveryInv, LedgerInv, EntriesOf
<1> QED BY <1>1, <1>2

LEMMA SoundVerify ==
  ASSUME DeliveryInv, NamesInv, PlanKept, stage = "verify", Smooth, Progress,
         ~DirectoryInTheWay, \A i \in DOMAIN manifest : Straight(manifest[i])
  PROVE  Verified
<1>1. /\ Clear /\ Geography(root) /\ FilesPlanned(root) /\ Tree(root)
      /\ \A i \in DOMAIN manifest : manifest[i] \in ledger
      /\ ~upgraded /\ WaysClear /\ ~Clash(root) /\ Bundleable
  BY SmoothRoot DEF Smooth, Working
<1>2. Done = DOMAIN manifest /\ Polished = DOMAIN manifest BY DEF Done, Polished
<1>3. phase = "planned" BY DEF DeliveryInv, LoaderInv, Working
<1>4. CompatibilityVerified
  <2>1. CASE policy = FlatLib64
    <3>1. manifest # <<>> BY <1>3 DEF PlanKept, Opened
    <3>2. DOMAIN manifest # {}
      <4>1. manifest \in Seq(Entry) BY DEF DeliveryInv, DynpaxInv, DynpaxTypeOK, TypeOK
      <4> QED BY <3>1, <4>1, EmptySeq, LenProperties
    <3>3. LayoutPlaces \subseteq DOMAIN root BY <1>2, <2>1, <3>2 DEF Progress, Laid
    <3> QED BY <1>1, <2>1, <3>3, LayoutStands
  <2>2. CASE policy # FlatLib64
    BY <2>2 DEF CompatibilityVerified, CompatibilityDirectories, CompatibilitySymlinks,
                ToSet
  <2> QED BY <2>1, <2>2
<1>5. ASSUME NEW i \in DOMAIN manifest, manifest[i].kind # "SymlinkAlias"
      PROVE  EntryVerified(manifest[i])
  <2> DEFINE e == manifest[i]
             file == root[Lies(root, e)]
  <2>1. Ready(root, e) /\ Finished(root, e) /\ e \in ledger
    BY <1>1, <1>2 DEF Progress
  <2>2. End(root, e.bundled) = Lies(root, e) /\ Bundled(root, e.bundled)
    BY <1>1, <1>5, <2>1, ReadyEnd
  <2>3. e.kind \in Kind BY <1>1, <2>1 DEF Clear, Entry
  <2>4. file.kind = "file" /\ file.parses
        /\ (e.kind = "Executable" => InterpreterVerified(e, file))
        /\ (e.kind # "Interpreter" => RunpathVerified(e, file))
    BY <1>5, <2>1, <2>3 DEF Ready, Finished, Approved, Kind
  <2> HIDE DEF e
  <2>5. EntryVerified(e) BY <1>5, <2>2, <2>4 DEF EntryVerified, e
  <2> QED BY <2>5 DEF e
<1>6. ASSUME NEW i \in DOMAIN manifest, manifest[i].kind = "SymlinkAlias"
      PROVE  EntryVerified(manifest[i])
  <2>1. Standing(root)
    <3> SUFFICES ASSUME NEW j \in DOMAIN manifest
                 PROVE  LET l == LocationOf(manifest[j].bundled)
                        IN  /\ l \in DOMAIN root
                            /\ IF manifest[j].kind = "SymlinkAlias"
                               THEN root[l] = LinkNode(LinkText(manifest[j].bundled,
                                                                manifest[j].target))
                               ELSE root[l].kind = "file"
      BY DEF Standing
    <3>1. Ready(root, manifest[j]) /\ manifest[j] \in ledger
      BY <1>1, <1>2 DEF Progress
    <3>2. LocationOf(manifest[j].bundled) = Lies(root, manifest[j])
      BY <1>1, <3>1, EntryPlace DEF Straight, PlaceOf
    <3> QED BY <3>1, <3>2 DEF Ready, AliasText
  <2>2. /\ TypeOK /\ AliasTargets /\ ClosureInv /\ PlanInv /\ LexicalIsPhysical
        /\ i \in OfKind("SymlinkAlias") /\ Parses(manifest[i].source)
    BY <1>1, <1>6 DEF DeliveryInv, DynpaxInv, DynpaxTypeOK, NamesInv, PlansAreFresh,
                      Bundleable, OfKind
  <2>3. Bundled(root, manifest[i].bundled)
    BY <1>1, <1>3, <2>1, <2>2, AliasesOpen DEF Planned
  <2>4. Ready(root, manifest[i]) /\ manifest[i] \in ledger BY <1>1, <1>2 DEF Progress
  <2>5. Place(root, manifest[i].bundled) = Lies(root, manifest[i])
    BY <1>1, <2>4, EntryPlace
  <2> QED BY <1>6, <2>3, <2>4, <2>5 DEF EntryVerified, AliasVerified, Ready, AliasText
<1> QED BY <1>4, <1>5, <1>6 DEF Verified

-----------------------------------------------------------------------------
(* The steps of the builder in a run that nothing disturbs.                 *)

LEMMA FixedTexts ==
  ASSUME UNCHANGED <<manifest, policy, interpreterBundlePath>>
  PROVE  \A e, file : Approved(e, file)' <=> Approved(e, file)
<1>1. \A e : RunpathTexts(e)' = RunpathTexts(e) BY DEF RunpathTexts
<1> QED BY <1>1 DEF Approved, RunpathVerified, InterpreterVerified

(* What is smooth after an operation was smooth before it.                  *)
LEMMA SmoothBefore ==
  ASSUME DeliveryInv, Smooth', UNCHANGED <<vars, programVars, runs>>,
         disturbed \subseteq disturbed', WaysClear => Onward(root, root')
  PROVE  Smooth /\ ~Clash(root')
<1>1. UNCHANGED <<host, policy, includeInterpreter, exe, manifest, phase,
                  ledger, upgraded>>
  BY DEF vars, inputs, walkVars, programVars
<1>2. WaysClear /\ ~Clash(root') /\ ~upgraded /\ runs \notin disturbed
  BY <1>1, SameLedger DEF Smooth
<1>3. Clear /\ Geography(root)
  BY <1>2 DEF Clear, DeliveryInv, DynpaxInv, DynpaxTypeOK, RootInv
<1>4. ~Clash(root) BY <1>2, <1>3, ClashStays DEF Onward, Geography
<1>5. Bundleable
  <2>1. /\ \A p : Parses(p)' <=> Parses(p)
        /\ \A p : Elf(p)' = Elf(p)
        /\ LexicalIsPhysical' <=> LexicalIsPhysical
    BY <1>1, FixedHost, FixedRequired
  <2>2. InterpreterPath' = InterpreterPath BY <1>1, <2>1 DEF InterpreterPath
  <2>3. OfKind("SymlinkAlias")' = OfKind("SymlinkAlias") BY <1>1 DEF OfKind
  <2> QED BY <1>1, <2>1, <2>2, <2>3 DEF Smooth, Bundleable
<1> QED BY <1>2, <1>4, <1>5 DEF Smooth

(* Every materialize() leaves the directories and symlinks of the layout.   *)
LEMMA LayoutIsLaid ==
  ASSUME Tree(root), policy \in Policy, Bootable(root, policy),
         NEW t, t = MakeDirectories(Bootstrap(root, policy), Components[entry.bundled.dir]),
         entry.bundled \in Path
  PROVE  Laid(t)
<1> DEFINE B == BootstrapSteps(FlatLib64)
           b == Bootstrap(root, policy)
<1> SUFFICES ASSUME policy = FlatLib64 PROVE LayoutPlaces \subseteq DOMAIN t
  BY DEF Laid
<1>1. b = Ensured(root, B) BY DEF Bootstrap
<1>2. Tree(b) BY BootstrapTree
<1>3. LayoutPlaces \subseteq StepPlaces(B)
  <2>1. DOMAIN B = 1..6 BY StepsAre
  <2>2. \A i \in 1..6 : B[i][1] \in StepPlaces(B) BY <2>1 DEF StepPlaces, ToSet
  <2>3. /\ B[1][1] = <<"bin">> /\ B[2][1] = <<"lib64">> /\ B[3][1] = <<"usr">>
        /\ B[4][1] = <<"lib">> /\ B[5][1] = <<"usr", "lib">>
        /\ B[6][1] = <<"usr", "lib64">>
    BY StepsAre
  <2> HIDE DEF B
  <2>4. /\ B[1][1] \in StepPlaces(B) /\ B[2][1] \in StepPlaces(B)
        /\ B[3][1] \in StepPlaces(B) /\ B[4][1] \in StepPlaces(B)
        /\ B[5][1] \in StepPlaces(B) /\ B[6][1] \in StepPlaces(B)
    BY <2>2
  <2> QED BY <2>3, <2>4, LayoutParts
<1>4. LayoutPlaces \subseteq DOMAIN b
  <2> HIDE DEF B, b
  <2>1. DOMAIN Ensured(root, B) = DOMAIN root \cup StepPlaces(B) BY EnsuredIs
  <2> QED BY <1>1, <1>3, <2>1
<1>5. Components[entry.bundled.dir] \in Location BY LocationOfType
<1> HIDE DEF b
<1>6. Extends(b, t)
  <2>1. t = MakeDirectories(b, Components[entry.bundled.dir]) BY DEF b
  <2> QED BY <1>2, <1>5, <2>1, MakeNodes
<1> QED BY <1>4, <1>6 DEF Extends

LEMMA EntryMade ==
  ASSUME DeliveryInv, Smooth, Progress, More, stage = "materialize",
         UNCHANGED <<vars, programVars, stage>>, next' = next + 1,
         Onward(root, root'), Steady(root, root', entry), ~Clash(root'),
         Ready(root', entry), Laid(root')
  PROVE  Progress'
<1>1. /\ Clear /\ Geography(root) /\ FilesPlanned(root)
      /\ \A i \in DOMAIN manifest : manifest[i] \in ledger
  BY SmoothRoot DEF Working
<1>2. UNCHANGED <<manifest, policy>> BY DEF vars, inputs, walkVars
<1>3. /\ next \in DOMAIN manifest /\ next \in Nat /\ entry = manifest[next]
      /\ entry \in ledger /\ DOMAIN manifest = 1..Len(manifest) /\ Len(manifest) \in Nat
  <2>1. manifest \in Seq(Entry) /\ DynpaxInv
    BY DEF DeliveryInv, DynpaxInv, DynpaxTypeOK, TypeOK
  <2> QED BY <1>1, <2>1, EntryFacts, LenProperties
<1>4. Done = 1..(next - 1) /\ Done' = 1..next
  <2>1. next' - 1 = next BY <1>3
  <2> QED BY <2>1 DEF Done
<1>5. Polished' = {} BY DEF Polished
<1>6. ASSUME NEW i \in Done' PROVE Ready(root', manifest[i])
  <2>1. i = next \/ i \in Done BY <1>3, <1>4
  <2>2. CASE i \in Done
    <3>1. Ready(root, manifest[i]) BY <2>2 DEF Progress
    <3>2. manifest[i] \in ledger BY <1>1, <1>3, <1>4, <2>2
    <3> QED BY <1>1, <1>3, <3>1, <3>2, ReadyStays
  <2> QED BY <1>3, <2>1, <2>2
<1>7. \A i \in Done' : Ready(root, manifest[i])' BY <1>2, <1>6 DEF Ready
<1>8. Laid(root)' BY <1>2 DEF Laid
<1> QED BY <1>5, <1>7, <1>8 DEF Progress

LEMMA EntryPolished ==
  ASSUME DeliveryInv, NamesInv, PlanKept, Smooth, Progress, More, stage = "rewrite",
         UNCHANGED <<vars, programVars, stage, interpreterBundlePath>>, next' = next + 1,
         Onward(root, root'), Steady(root, root', entry), ~Clash(root'),
         Ready(root', entry), Finished(root', entry)
  PROVE  Progress'
<1>1. /\ Clear /\ Geography(root) /\ FilesPlanned(root) /\ ~upgraded
      /\ \A i \in DOMAIN manifest : manifest[i] \in ledger
  BY SmoothRoot DEF Working, Smooth
<1>2. UNCHANGED <<manifest, policy>> BY DEF vars, inputs, walkVars
<1>3. /\ next \in DOMAIN manifest /\ next \in Nat /\ entry = manifest[next]
      /\ entry \in ledger /\ DOMAIN manifest = 1..Len(manifest) /\ Len(manifest) \in Nat
  <2>1. manifest \in Seq(Entry) /\ DynpaxInv
    BY DEF DeliveryInv, DynpaxInv, DynpaxTypeOK, TypeOK
  <2> QED BY <1>1, <2>1, EntryFacts, LenProperties
<1>4. /\ Done = DOMAIN manifest /\ Done' = DOMAIN manifest
      /\ Polished = 1..(next - 1) /\ Polished' = 1..next
  <2>1. next' - 1 = next BY <1>3
  <2> QED BY <1>2, <2>1 DEF Done, Polished
<1>5. ASSUME NEW i \in DOMAIN manifest PROVE Ready(root, manifest[i]) /\ Ready(root', manifest[i])
  <2>1. Ready(root, manifest[i]) BY <1>4 DEF Progress
  <2> QED BY <1>1, <1>3, <2>1, ReadyStays
<1>6. ASSUME NEW i \in Polished' PROVE Finished(root', manifest[i])
  <2>1. i = next \/ i \in Polished BY <1>3, <1>4
  <2>2. CASE i \in Polished
    <3>1. Finished(root, manifest[i]) /\ i \in DOMAIN manifest /\ i # next
      BY <1>3, <1>4, <2>2 DEF Progress
    <3>2. Ready(root, manifest[i]) /\ manifest[i] \in ledger BY <1>1, <1>5, <3>1
    <3>3. \/ root'[Lies(root', manifest[i])] = root[Lies(root, manifest[i])]
          \/ Same(manifest[i], entry)
      BY <1>1, <1>3, <3>2, NodeKept DEF Ready
    <3>4. Same(manifest[i], entry) =>
            manifest[i].kind \notin {"Executable", "SharedObject"}
      BY <1>1, <1>3, <3>1, OneOfEach
    <3> QED BY <3>1, <3>3, <3>4 DEF Finished
  <2> QED BY <1>3, <2>1, <2>2
<1>7. \A i \in Done' : Ready(root, manifest[i])' BY <1>2, <1>4, <1>5 DEF Ready
<1>8. \A i \in Polished' : Finished(root, manifest[i])'
  BY <1>2, <1>6, FixedTexts DEF Finished
<1>9. Laid(root)'
  <2>1. Laid(root) BY <1>3, <1>4 DEF Progress
  <2>2. DOMAIN root \subseteq DOMAIN root' BY <1>1 DEF Steady, Keeps
  <2> QED BY <1>2, <2>1, <2>2 DEF Laid
<1> QED BY <1>7, <1>8, <1>9 DEF Progress

(* What a run that goes smoothly copies parses: its libraries, and the      *)
(* loader.                                                                  *)
LEMMA CopiesParse ==
  ASSUME DeliveryInv, Smooth, More, stage \in {"materialize", "rewrite"}
  PROVE  /\ entry.kind # "SymlinkAlias" => Parses(entry.source) /\ Opens(entry.source)
         /\ entry.kind = "Executable" =>
              entry.hasInterp = (Elf(entry.source).interp # NoPath)
<1>1. /\ DynpaxInv /\ ~Ended /\ entry.source \in Path /\ entry.kind \in Kind
      /\ next \in DOMAIN manifest /\ entry = manifest[next]
      /\ entry.kind \in {"Executable", "SharedObject"} => Parses(entry.source)
  BY AtWork, EntryFacts
<1>2. TargetEntry(entry) BY <1>1 DEF DeliveryInv, LoaderInv, LoaderPlanned, Smooth
<1>3. ASSUME entry.kind = "Interpreter" PROVE Parses(entry.source)
  <2>1. entry.source = InterpreterPath
    BY <1>2, <1>3 DEF TargetEntry, LoaderOfTarget, MakeEntry
  <2>2. InterpreterPath # NoPath BY <1>1, <2>1, GeographyAssumption
  <2> QED BY <2>1, <2>2 DEF Smooth, Bundleable
<1>4. entry.kind # "SymlinkAlias" => Parses(entry.source) BY <1>1, <1>3 DEF Kind
<1>5. Parses(entry.source) => Opens(entry.source) BY DEF Parses, IsElf
<1>6. entry.kind = "Executable" => entry.hasInterp = (Elf(entry.source).interp # NoPath)
  BY <1>1, <1>2 DEF TargetEntry, HasInterpreter
<1> QED BY <1>4, <1>5, <1>6

(* The invariant: a run that goes smoothly makes progress, and is refused   *)
(* only for the traces of another layout.                                   *)
OtherLayout ==
  DirectoryInTheWay \/ \E i \in DOMAIN manifest : ~Straight(manifest[i])
RerunInv ==
  Smooth =>
    /\ Working => Progress
    /\ stage = "error" => Relayout /\ OtherLayout

LEMMA MadeSmoothly ==
  ASSUME DeliveryInv, RerunInv, Smooth', CopyEntry \/ TouchExecutable \/ LinkAlias,
         UNCHANGED programVars
  PROVE  Progress'
<1>1. /\ stage = "materialize" /\ More /\ next' = next + 1 /\ Materializing
      /\ UNCHANGED <<vars, programVars, stage, runs, disturbed>>
      /\ entry.kind = "SymlinkAlias" <=> LinkAlias
      /\ entry.kind \notin {"SymlinkAlias", "Executable"} => Copied
  BY DEF CopyEntry, TouchExecutable, LinkAlias, Materializing, Copied, vars, bounds
<1>2. PICK t \in Prepared :
        /\ Makeable(t)
        /\ root' = IF entry.kind = "SymlinkAlias"
                   THEN SymlinkTo(t, entry.bundled, entry.target)
                   ELSE WriteAt(t, entry.bundled,
                          IF entry.kind = "Executable" THEN Truncated(entry.source)
                          ELSE CopyOf(entry.source))
  BY <1>1 DEF CopyEntry, TouchExecutable, LinkAlias, Copied, CopyTo, TouchTo
<1>3. /\ WaysClear => Clear /\ Geography(root)
      /\ HostType /\ Tree(root) /\ policy \in Policy
      /\ entry \in ledger /\ entry.bundled \in Path /\ entry.source \in Path
      /\ entry.kind = "SymlinkAlias" => entry.target \in Path
  BY <1>1, AtWork
<1>4. WaysClear => Onward(root, t) /\ Extends(root, t) BY <1>1, PreparedOnward
<1>5. Laid(t)
  <2>1. t = MakeDirectories(Bootstrap(root, policy), Components[entry.bundled.dir])
    BY DEF Prepared
  <2>2. Bootable(root, policy) BY <1>2 DEF Makeable
  <2> QED BY <1>3, <2>1, <2>2, LayoutIsLaid
<1>6. CASE entry.kind # "SymlinkAlias"
  <2>1. PICK file : file = IF entry.kind = "Executable" THEN Truncated(entry.source)
                           ELSE CopyOf(entry.source)
    OBVIOUS
  <2>2. root' = WriteAt(t, entry.bundled, file) /\ End(t, entry.bundled) # Nowhere
    <3>1. Makeable(t) /\ root' = WriteAt(t, entry.bundled, file) BY <1>2, <1>6, <2>1
    <3>2. IF entry.kind = "Executable" THEN End(t, entry.bundled) # Nowhere
          ELSE Writable(t, entry.bundled)
      BY <1>1, <1>6, <3>1 DEF Makeable
    <3> QED BY <3>1, <3>2 DEF Writable
  <2>3. file \in BundleFile
    BY <1>1, <1>2, <1>3, <1>6, <2>1, CopyType, TruncatedType DEF Makeable
  <2>4. WaysClear =>
          /\ Onward(root, root') /\ Steady(root, root', entry)
          /\ ~Clash(root') /\ Writable(t, entry.bundled) =>
               /\ Lies(root', entry) \in DOMAIN root'
               /\ root'[Lies(root', entry)] = file
    BY <1>1, <1>4, <1>6, <2>2, <2>3, WriteStep
  <2>5. Smooth /\ ~Clash(root') BY <1>1, <2>4, SmoothBefore
  <2>6. Progress /\ WaysClear BY <1>1, <2>5 DEF RerunInv, Working, Smooth
  <2>7. Writable(t, entry.bundled)
    BY <1>1, <1>4, <1>6, <2>2, <2>3, <2>5, <2>6, WayThere
  <2>8. Ready(root', entry)
    <3>1. entry.kind # "Executable" => file.parses
      BY <1>1, <1>6, <2>1, <2>5, CopiesParse DEF CopyOf
    <3>2. file.kind = "file" BY <2>3, NodeKinds
    <3> QED BY <1>6, <2>4, <2>5, <2>6, <2>7, <3>1, <3>2 DEF Ready
  <2>9. Laid(root')
    <3>1. Tree(t) BY <1>4, <2>6 DEF Onward, Geography
    <3>2. Keeps(t, root') BY <1>3, <2>2, <2>3, <3>1, WriteNodes
    <3> QED BY <1>5, <3>2 DEF Laid, Keeps
  <2> QED BY <1>1, <2>4, <2>5, <2>6, <2>8, <2>9, EntryMade
<1>7. CASE entry.kind = "SymlinkAlias"
  <2>1. root' = SymlinkTo(t, entry.bundled, entry.target) /\ Linkable(t, entry.bundled)
    BY <1>2, <1>7 DEF Makeable
  <2>2. ASSUME WaysClear
        PROVE  /\ Onward(root, root') /\ Steady(root, root', entry)
               /\ Lies(root', entry) \in DOMAIN root'
               /\ root'[Lies(root', entry)] = LinkNode(AliasText(entry))
    <3>1. Onward(root, t) /\ Extends(root, t) /\ Geography(t) /\ Clear /\ Geography(root)
      BY <1>3, <1>4, <2>2 DEF Onward
    <3>2. /\ Onward(t, root') /\ Steady(t, root', entry)
          /\ Lies(root', entry) \in DOMAIN root'
          /\ root'[Lies(root', entry)] = LinkNode(AliasText(entry))
      BY <1>3, <1>7, <2>1, <3>1, LinkOnward
    <3> QED BY <3>1, <3>2, OnwardAgain, SteadyAfter
  <2>3. Smooth /\ ~Clash(root') BY <1>1, <2>2, SmoothBefore
  <2>4. Progress /\ WaysClear BY <1>1, <2>3 DEF RerunInv, Working, Smooth
  <2>5. Ready(root', entry) BY <1>7, <2>2, <2>4 DEF Ready
  <2>6. Laid(root')
    <3>1. Tree(t) BY <1>4, <2>4 DEF Onward, Geography
    <3>2. DOMAIN t \subseteq DOMAIN root'
      <4>1. /\ \A l \in DOMAIN t : l # Place(t, entry.bundled) => l \in DOMAIN root'
            /\ Place(t, entry.bundled) \in DOMAIN root'
        BY <1>3, <1>7, <2>1, <3>1, LinkNodes
      <4> QED BY <4>1
    <3> QED BY <1>5, <3>2 DEF Laid
  <2> QED BY <1>1, <2>2, <2>3, <2>4, <2>5, <2>6, EntryMade
<1> QED BY <1>6, <1>7


LEMMA PolishedSmoothly ==
  ASSUME DeliveryInv, NamesInv, PlanKept, RerunInv, Smooth',
         RewriteExecutable \/ RewriteLibrary, UNCHANGED programVars
  PROVE  Progress'
<1>1. /\ stage = "rewrite" /\ More /\ next' = next + 1 /\ Rewriting
      /\ UNCHANGED <<vars, programVars, stage, interpreterBundlePath, runs, disturbed>>
      /\ entry.kind \in {"Executable", "SharedObject"}
  BY DEF RewriteExecutable, RewriteLibrary, Rewriting, vars, bounds
<1>2. PICK file : file = IF entry.kind = "Executable" THEN RewrittenExecutable
                         ELSE RewrittenLibrary
  OBVIOUS
<1>3. /\ root' = WriteAt(root, entry.bundled, file)
      /\ entry.kind = "SharedObject" => Reopens(entry.bundled)
  BY <1>2 DEF RewriteExecutable, RewriteLibrary
<1>4. /\ WaysClear => Clear /\ Geography(root)
      /\ DynpaxInv /\ entry \in ledger /\ next \in DOMAIN manifest /\ entry = manifest[next]
  BY <1>1, AtWork
<1>5. file \in BundleFile BY <1>1, <1>2, <1>3, <1>4, RewrittenFiles
<1>6. WaysClear =>
        /\ Onward(root, root') /\ Steady(root, root', entry)
        /\ ~Clash(root') /\ Writable(root, entry.bundled) =>
             /\ Lies(root', entry) \in DOMAIN root'
             /\ root'[Lies(root', entry)] = file
  <2>1. Extends(root, root) BY DEF Extends
  <2> QED BY <1>1, <1>3, <1>4, <1>5, <2>1, OnwardSame, WriteStep
<1>7. Smooth /\ ~Clash(root') BY <1>1, <1>6, SmoothBefore
<1>8. Progress /\ WaysClear /\ ~Clash(root)
  BY <1>1, <1>7 DEF RerunInv, Working, Smooth
<1>9. Ready(root, entry)
  <2>1. Done = DOMAIN manifest BY <1>1 DEF Done
  <2> QED BY <1>4, <1>8, <2>1 DEF Progress
<1>10. Writable(root, entry.bundled) /\ End(root, entry.bundled) = Lies(root, entry)
  BY <1>1, <1>4, <1>8, <1>9, ReadyEnd
<1>11. /\ Lies(root', entry) \in DOMAIN root' /\ root'[Lies(root', entry)] = file
       /\ file.kind = "file"
  BY <1>5, <1>6, <1>7, <1>8, <1>10, NodeKinds
<1>12. Parses(entry.source) /\ (entry.kind = "Executable" =>
         entry.hasInterp = (Elf(entry.source).interp # NoPath))
  BY <1>1, <1>7, CopiesParse
<1>13. Approved(entry, file)
  <2> DEFINE texts == RunpathTexts(entry)
  <2>1. CASE entry.kind = "Executable"
    <3>1. PICK copy : copy = CopyOf(entry.source) OBVIOUS
    <3>2. copy.parses /\ copy.interp = Elf(entry.source).interp
      BY <1>12, <3>1 DEF CopyOf
    <3>3. PICK loaded : loaded = IF interpreterBundlePath # NoPath /\ entry.hasInterp
                                 THEN SetInterpreter(copy, interpreterBundlePath) ELSE copy
      OBVIOUS
    <3>4. loaded \in BundleFile /\ loaded.parses
          /\ (loaded.interp # NoPath) = entry.hasInterp
          /\ (entry.hasInterp /\ interpreterBundlePath # NoPath =>
                loaded.interp = interpreterBundlePath)
      <4>1. copy \in BundleFile
        <5>1. Opens(entry.source) BY <1>1, <1>7, CopiesParse
        <5>2. HostType /\ entry.source \in Path BY <1>1, AtWork
        <5> QED BY <3>1, <5>1, <5>2, CopyType
      <4>2. interpreterBundlePath \in Path \cup {NoPath}
        BY <1>4 DEF DynpaxInv, DynpaxTypeOK
      <4> QED BY <1>12, <2>1, <3>2, <3>3, <4>1, <4>2 DEF SetInterpreter, BundleFile
    <3>5. file = SetRunpath(SetRpath(loaded), texts)
      BY <1>2, <2>1, <3>1, <3>3 DEF RewrittenExecutable
    <3>6. /\ file.parses = loaded.parses /\ file.interp = loaded.interp
          /\ file.runpath = texts /\ file.rpath = <<>>
      BY <3>4, <3>5 DEF SetRunpath, SetRpath, BundleFile
    <3> QED BY <3>4, <3>6 DEF Approved, RunpathVerified, InterpreterVerified
  <2>2. CASE entry.kind = "SharedObject"
    <3>1. PICK old : old = root[End(root, entry.bundled)] OBVIOUS
    <3>2. old.kind = "file" /\ old.parses BY <1>3, <2>2, <3>1 DEF Reopens
    <3>3. old \in BundleFile
      <4>1. Tree(root) /\ End(root, entry.bundled) \in DOMAIN root
        BY <1>1, <1>3, <2>2, AtWork DEF Reopens, Bundled
      <4> QED BY <3>1, <3>2, <4>1, NodeKinds DEF Tree
    <3>4. file = SetRunpath(SetRpath(old), texts)
      BY <1>2, <2>2, <3>1 DEF RewrittenLibrary
    <3>5. file.parses /\ file.runpath = texts /\ file.rpath = <<>>
      BY <3>2, <3>3, <3>4 DEF SetRunpath, SetRpath, BundleFile
    <3> QED BY <2>2, <3>5 DEF Approved, RunpathVerified
  <2> QED BY <1>1, <2>1, <2>2
<1>14. Ready(root', entry)
  <2>1. file.parses BY <1>13 DEF Approved
  <2> QED BY <1>1, <1>11, <2>1 DEF Ready
<1>15. Finished(root', entry) BY <1>11, <1>13 DEF Finished
<1> QED BY <1>1, <1>6, <1>7, <1>8, <1>14, <1>15, EntryPolished


LEMMA BuildSmoothly ==
  ASSUME DeliveryInv, NamesInv, PlanKept, RerunInv, Smooth', Build, UNCHANGED programVars
  PROVE  Progress' /\ stage' # "error"
<1>1. /\ next \in 1..(Len(manifest) + 1) /\ Len(manifest) \in Nat
      /\ DOMAIN manifest = 1..Len(manifest) /\ entry = manifest[next]
  <2>1. manifest \in Seq(Entry) /\ next \in 1..(Len(manifest) + 1)
    BY DEF DeliveryInv, DynpaxInv, DynpaxTypeOK, TypeOK
  <2> QED BY <2>1, LenProperties DEF entry
<1>2. CASE CopyEntry \/ TouchExecutable \/ LinkAlias
  <2>1. stage' # "error"
    BY <1>2 DEF CopyEntry, TouchExecutable, LinkAlias, Materializing
  <2> QED BY <1>2, <2>1, MadeSmoothly
<1>3. CASE RewriteExecutable \/ RewriteLibrary
  <2>1. stage' # "error" BY <1>3 DEF RewriteExecutable, RewriteLibrary, Rewriting
  <2> QED BY <1>3, <2>1, PolishedSmoothly
<1>4. CASE MaterializeFails
  <2>1. PICK t \in Prepared : ~Makeable(t) /\ root' = t BY <1>4 DEF MaterializeFails
  <2>2. /\ stage = "materialize" /\ More /\ Materializing
        /\ UNCHANGED <<vars, programVars, runs, disturbed>>
    BY <1>4 DEF MaterializeFails, Materializing, vars, bounds
  <2>3. WaysClear => Onward(root, root') BY <2>1, <2>2, PreparedOnward
  <2>4. Smooth /\ ~Clash(t) BY <2>1, <2>2, <2>3, SmoothBefore
  <2>5. Copied => Opens(entry.source) BY <2>2, <2>4, CopiesParse DEF Copied
  <2>6. WaysClear BY <2>4 DEF Smooth
  <2>7. Makeable(t) BY <2>1, <2>2, <2>4, <2>5, <2>6, AlwaysMakeable
  <2> QED BY <2>1, <2>7
<1>5. ASSUME UNCHANGED <<vars, programVars, root, runs, disturbed>>, Working
      PROVE  /\ Smooth /\ Progress /\ WaysClear /\ ~Clash(root)
             /\ \A i \in DOMAIN manifest : manifest[i] \in ledger
             /\ Clear /\ Geography(root)
  <2>1. WaysClear => Clear /\ Geography(root)
    BY DEF Clear, DeliveryInv, DynpaxInv, DynpaxTypeOK, RootInv
  <2>2. WaysClear => Onward(root, root') BY <1>5, <2>1, OnwardSame
  <2>3. Smooth BY <1>5, <2>2, SmoothBefore
  <2> QED BY <1>5, <2>3, SmoothRoot DEF RerunInv, Smooth
<1>6. ASSUME UNCHANGED <<vars, root>>
      PROVE  /\ \A i : Ready(root, manifest[i]) => Ready(root, manifest[i])'
             /\ Laid(root) => Laid(root)'
  <2>1. UNCHANGED <<manifest, policy, root>> BY <1>6 DEF vars, inputs, walkVars
  <2> QED BY <2>1 DEF Ready, Laid
<1>7. CASE Materialized
  <2>1. /\ stage = "materialize" /\ next = Len(manifest) + 1 /\ stage' = "rewrite"
        /\ next' = 1 /\ Working
        /\ UNCHANGED <<vars, programVars, root, runs, disturbed, interpreterBundlePath>>
    BY <1>1, <1>7 DEF Materialized, More, vars, bounds, Working
  <2>2. Progress BY <1>5, <2>1
  <2>3. UNCHANGED manifest BY <2>1 DEF vars, walkVars
  <2>4. Done = DOMAIN manifest /\ Done' = DOMAIN manifest BY <1>1, <2>1, <2>3 DEF Done
  <2>5. Polished' = {} BY <2>1 DEF Polished
  <2> QED BY <1>6, <2>1, <2>2, <2>3, <2>4, <2>5 DEF Progress
<1>8. CASE Rewritten
  <2>1. /\ stage = "rewrite" /\ next = Len(manifest) + 1 /\ stage' = "verify"
        /\ next' = 1 /\ Working
        /\ UNCHANGED <<vars, programVars, root, runs, disturbed, interpreterBundlePath>>
    BY <1>1, <1>8 DEF Rewritten, More, vars, bounds, Working
  <2>2. Progress BY <1>5, <2>1
  <2>3. UNCHANGED <<manifest, policy>> BY <2>1 DEF vars, walkVars, inputs
  <2>4. Done = DOMAIN manifest /\ Done' = DOMAIN manifest BY <1>1, <2>1, <2>3 DEF Done
  <2>5. Polished = DOMAIN manifest /\ Polished' = DOMAIN manifest
    BY <1>1, <2>1, <2>3 DEF Polished
  <2>6. \A i : Finished(root, manifest[i]) => Finished(root, manifest[i])'
    BY <2>1, <2>3, FixedTexts DEF Finished
  <2> QED BY <1>6, <2>1, <2>2, <2>3, <2>4, <2>5, <2>6 DEF Progress
<1>9. CASE SkipRewrite
  <2>1. /\ stage = "rewrite" /\ More /\ stage' = stage /\ next' = next + 1 /\ Working
        /\ entry.kind \notin {"Executable", "SharedObject"}
        /\ UNCHANGED <<vars, programVars, root, runs, disturbed, interpreterBundlePath>>
    BY <1>9 DEF SkipRewrite, Rewriting, Rewritable, vars, bounds, Working
  <2>2. /\ Smooth /\ Progress /\ WaysClear /\ ~Clash(root) /\ Geography(root)
        /\ Clear
    BY <1>5, <2>1
  <2>3. Onward(root, root') /\ Steady(root, root', entry)
    BY <2>1, <2>2, OnwardSame DEF Steady, Keeps
  <2>4. Ready(root', entry)
    <3>1. next \in Done BY <1>1, <2>1 DEF Done, More
    <3> QED BY <1>1, <2>1, <2>2, <3>1 DEF Progress
  <2>5. Finished(root', entry) BY <2>1 DEF Finished
  <2>6. Progress' BY <2>1, <2>2, <2>3, <2>4, <2>5, EntryPolished
  <2> QED BY <2>1, <2>6
<1>10. CASE ReopenFails
  <2>1. /\ stage = "rewrite" /\ More /\ Working
        /\ entry.kind = "SharedObject" /\ ~Reopens(entry.bundled)
        /\ UNCHANGED <<vars, programVars, root, runs, disturbed>>
    BY <1>10 DEF ReopenFails, Rewriting, vars, bounds, Working
  <2>2. /\ Progress /\ ~Clash(root) /\ Geography(root) /\ Clear BY <1>5, <2>1
  <2>3. next \in Done /\ next \in DOMAIN manifest BY <1>1, <2>1 DEF Done, More
  <2>4. Ready(root, entry) /\ entry \in ledger BY <1>1, <1>5, <2>1, <2>2, <2>3 DEF Progress
  <2>5. End(root, entry.bundled) = Lies(root, entry) /\ Bundled(root, entry.bundled)
    BY <2>1, <2>2, <2>4, ReadyEnd
  <2>6. Reopens(entry.bundled) BY <2>1, <2>4, <2>5 DEF Reopens, Ready
  <2> QED BY <2>1, <2>6
<1>11. CASE MaterializeFault \/ RewriteFault \/ RewriteLost
  BY <1>11 DEF MaterializeFault, RewriteFault, RewriteLost, Disturb, Smooth
<1> QED BY <1>2, <1>3, <1>4, <1>7, <1>8, <1>9, <1>10, <1>11 DEF Build

LEMMA RerunInvInit == DynpaxInit => RerunInv
BY DEF DynpaxInit, RerunInv, Working

LEMMA RerunInvStep ==
  ASSUME DeliveryInv, NamesInv, FlatInv, LayoutInv, PlanKept, RerunInv,
         [DynpaxNext]_dynpaxVars
  PROVE  RerunInv'
<1> SUFFICES ASSUME Smooth'
             PROVE  /\ Working' => Progress'
                    /\ stage' = "error" => Relayout /\ OtherLayout'
  BY DEF RerunInv
<1>1. CASE Plan
  <2>1. stage' = "plan" BY <1>1 DEF Plan, buildVars
  <2> QED BY <2>1 DEF Working
<1>2. CASE PlanDone
  <2>1. stage' = "materialize" /\ next' = 1
    BY <1>2 DEF PlanDone, DeliveryInv, DynpaxInv
  <2>2. Done' = {} /\ Polished' = {} BY <2>1 DEF Done, Polished
  <2> QED BY <2>1, <2>2 DEF Progress
<1>3. CASE PlanFails BY <1>3 DEF PlanFails, vars, walkVars, Smooth, Bundleable
<1>4. CASE BuildStep BY <1>4, BuildSmoothly DEF BuildStep
<1>5. CASE VerifyFails
  <2>1. /\ stage = "verify" /\ ~Verified /\ stage' = "error" /\ Working
        /\ UNCHANGED <<vars, programVars, root, runs, disturbed>>
    BY <1>5 DEF VerifyFails, bounds, Working
  <2>2. WaysClear => Geography(root) BY DEF DeliveryInv, RootInv
  <2>3. Smooth BY <2>1, <2>2, OnwardSame, SmoothBefore
  <2>4. OtherLayout BY <2>1, <2>3, SoundVerify DEF RerunInv, OtherLayout
  <2>5. Relayout
    <3>1. ~Relayout => Unmixed(root) BY <2>3 DEF LayoutInv, Smooth
    <3> QED BY <2>1, <2>3, <2>4, <3>1, StraightHere DEF OtherLayout, Smooth
  <2>6. OtherLayout'
    <3>1. UNCHANGED <<manifest, policy, root>> BY <2>1 DEF vars, inputs, walkVars
    <3> QED BY <2>4, <3>1 DEF OtherLayout, DirectoryInTheWay, Straight, PlaceOf
  <2> QED BY <2>1, <2>5, <2>6 DEF Working
<1>6. CASE NextTarget \/ LastTarget \/ Kill \/ GiveAgain
  <2>1. stage' \in {"plan", "success", "killed"}
    BY <1>6 DEF NextTarget, LastTarget, Kill, GiveAgain
  <2> QED BY <2>1 DEF Working
<1>7. CASE HostChanges BY <1>7 DEF HostChanges, Smooth
<1>8. CASE UNCHANGED dynpaxVars
  <2>1. /\ UNCHANGED <<vars, programVars, root, runs, disturbed, stage, next,
                       interpreterBundlePath>>
    BY <1>8 DEF dynpaxVars, buildVars, bounds
  <2>2. WaysClear => Geography(root) BY DEF DeliveryInv, RootInv
  <2>3. Smooth BY <2>1, <2>2, OnwardSame, SmoothBefore
  <2>4. UNCHANGED <<manifest, policy, root, stage, next, interpreterBundlePath>>
    BY <2>1 DEF vars, inputs, walkVars
  <2>5. Working => Progress'
    <3>1. Done' = Done /\ Polished' = Polished BY <2>4 DEF Done, Polished
    <3>2. \A i : (Finished(root, manifest[i]) => Finished(root, manifest[i])')
      BY <2>4, FixedTexts DEF Finished
    <3>3. (\A i : Ready(root, manifest[i]) => Ready(root, manifest[i])')
          /\ (Laid(root) => Laid(root)')
      BY <2>4 DEF Ready, Laid
    <3> QED BY <2>3, <3>1, <3>2, <3>3 DEF Progress, RerunInv
  <2>6. stage' = "error" => Relayout /\ OtherLayout'
    BY <2>3, <2>4 DEF RerunInv, OtherLayout, DirectoryInTheWay, Straight, PlaceOf
  <2> QED BY <2>4, <2>5, <2>6 DEF Working
<1> QED BY <1>1, <1>2, <1>3, <1>4, <1>5, <1>6, <1>7, <1>8 DEF DynpaxNext, Program

LEMMA SmoothIsAccepted ==
  DeliveryInv /\ RerunInv =>
    ((~Relayout \/ \A i \in DOMAIN manifest : Straight(manifest[i])) => RerunSucceeds)
<1> SUFFICES ASSUME DeliveryInv, RerunInv, stage = "error", runs \notin disturbed,
                    ~upgraded, Bundleable, NoCollision,
                    ~Relayout \/ \A i \in DOMAIN manifest : Straight(manifest[i])
             PROVE  Relayout /\ (DirectoryInTheWay \/ AliasMisplaced)
  BY DEF RerunSucceeds
<1>1. WaysClear /\ ~Clash(root) BY ClearOfClashes DEF Comparable
<1>2. Smooth BY <1>1 DEF Smooth
<1>3. Relayout /\ OtherLayout BY <1>2 DEF RerunInv
<1> QED BY <1>3 DEF OtherLayout

(* A repeated command is not refused: without an I/O error or a kill in this *)
(* run, a target that can be bundled and whose plan does not collide is      *)
(* built and verified over whatever earlier runs left in the root, unless    *)
(* they had another layout and a directory is in the way of a symlink.       *)
THEOREM RepeatedRunSucceeds ==
  DynpaxSpec =>
    []((~Relayout \/ \A i \in DOMAIN manifest : Straight(manifest[i]))
         => RerunSucceeds)
<1>1. DynpaxInit => FlatInv BY DEF DynpaxInit, Init, FlatInv
<1>2. DeliveryInv /\ FlatInv /\ [DynpaxNext]_dynpaxVars => FlatInv'
  BY FlatInvStep DEF DeliveryInv
<1>3. DeliveryInv /\ NamesInv /\ [DynpaxNext]_dynpaxVars => NamesInv'
  BY NamesInvStep DEF DeliveryInv
<1>4. DeliveryInv /\ PlanKept /\ [DynpaxNext]_dynpaxVars => PlanKept'
  BY PlanKeptStep DEF DeliveryInv
<1>5. DeliveryInv /\ FlatInv /\ LayoutInv /\ [DynpaxNext]_dynpaxVars => LayoutInv'
  BY LayoutInvStep
<1>6. DeliveryInv /\ NamesInv /\ FlatInv /\ LayoutInv /\ PlanKept /\ RerunInv
        /\ [DynpaxNext]_dynpaxVars => RerunInv'
  BY RerunInvStep
<1> QED BY <1>1, <1>2, <1>3, <1>4, <1>5, <1>6, DeliveryInvInit, DeliveryInvStep,
           NamesInvInit, PlanKeptInit, LayoutInvInit, RerunInvInit, SmoothIsAccepted,
           PTL DEF DynpaxSpec

=============================================================================
