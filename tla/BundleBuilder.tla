---------------------------- MODULE BundleBuilder ----------------------------
(***************************************************************************)
(* BundleBuilder::build after planning: every manifest entry is            *)
(* materialised in manifest order, then the executable and the shared      *)
(* objects are rewritten in manifest order.  BundleVerifier::verify then   *)
(* reads the result back.                                                  *)
(*                                                                         *)
(* A copy that fails is reported and ends the run.  Of a rewrite only what *)
(* LIEF throws is reported.  That the file could not be opened or that its *)
(* bytes were not all written is NOT: Executable::write returns true, and  *)
(* the verifier sees no more than what LIEF reads back.                    *)
(***************************************************************************)
EXTENDS DependencyWalk, FakeRoot

CONSTANTS MaxRuns,   \* bound on the times a command is given
          MaxFaults  \* bound on the runs that an error or a kill disturbs

VARIABLES
  stage,                  \* where the program stands
  next,                   \* the manifest entry being processed
  interpreterBundlePath,  \* result.interpreterBundlePath
  runs,                   \* times the command was given (a bound)
  disturbed,              \* the runs so far that met an I/O error or a kill
  lost                    \* where rewrites of this run were lost (history)

bounds == <<runs, disturbed, lost>>
buildVars == <<root, stage, next, interpreterBundlePath, bounds>>

ASSUME BuilderAssumption == MaxRuns \in Nat \ {0} /\ MaxFaults \in Nat

entry == manifest[next]
More == next <= Len(manifest)

-----------------------------------------------------------------------------
(* The ELF setters.  rpath() is called with one empty string.              *)
SetInterpreter(file, path) ==
  IF file.interp = NoPath THEN file ELSE [file EXCEPT !.interp = path]
SetRpath(file) == [file EXCEPT !.rpath = <<[text |-> ""]>>]

SetRunpath(file, texts) == [file EXCEPT !.runpath = texts, !.rpath = <<>>]

(* bundle_runpath as it is written: under flat-lib64 one fixed entry.      *)
RunpathTexts(e) ==
  IF policy = FlatLib64 THEN <<FlatOrigin>>
  ELSE LET dirs == BundleRunpath(manifest, e, policy)
       IN  [i \in DOMAIN dirs |-> Origin(e.bundled, dirs[i])]

(* The executable is written from the copy parsed before the build; a      *)
(* library is reopened from the root.                                      *)
RewrittenExecutable ==
  LET file == CopyOf(entry.source)
      withInterpreter ==
        IF interpreterBundlePath # NoPath /\ entry.hasInterp
        THEN SetInterpreter(file, interpreterBundlePath) ELSE file
  IN  SetRunpath(SetRpath(withInterpreter), RunpathTexts(entry))

Reopens(p) ==
  Bundled(root, p) /\ root[End(root, p)].kind = "file" /\ root[End(root, p)].parses
RewrittenLibrary ==
  SetRunpath(SetRpath(root[End(root, entry.bundled)]), RunpathTexts(entry))

-----------------------------------------------------------------------------
Copied == entry.kind \in {"SharedObject", "Interpreter"}

Materializing == stage = "materialize" /\ More

(* Every materialize() begins with the bootstrap and makes the directories *)
(* above its destination, then the entry unless something is in its way.   *)
(* touch_to does not see that the file is not created: a directory in the  *)
(* place of the executable is only found by the verifier.                  *)
Prepared ==
  {MakeDirectories(t, Components[entry.bundled.dir]) : t \in {Bootstrap(root, policy)}}

Makeable(t) ==
  /\ Bootable(root, policy)
  /\ Copied => Opens(entry.source) /\ Writable(t, entry.bundled)
  /\ entry.kind = "Executable" => End(t, entry.bundled) \notin {Nowhere, Outside}
  /\ entry.kind = "SymlinkAlias" => Linkable(t, entry.bundled)

(* Mutation: the copy goes to the path the file had on the host.          *)
CopyEntry_AtSource ==
  /\ Materializing /\ Copied
  /\ \E t \in Prepared : /\ Makeable(t)
                        /\ root' = CopyTo(t, entry.source, entry.source)
  /\ next' = next + 1
  /\ interpreterBundlePath' =
       IF entry.kind = "Interpreter" THEN entry.bundled ELSE interpreterBundlePath
  /\ UNCHANGED <<inputs, walkVars, stage, bounds>>

(* Mutation: the interpreter is to be used where it was on the host.      *)
CopyEntry_LoaderAtSource ==
  /\ Materializing /\ Copied
  /\ \E t \in Prepared : /\ Makeable(t)
                        /\ root' = CopyTo(t, entry.source, entry.bundled)
  /\ next' = next + 1
  /\ interpreterBundlePath' =
       IF entry.kind = "Interpreter" THEN entry.source ELSE interpreterBundlePath
  /\ UNCHANGED <<inputs, walkVars, stage, bounds>>

CopyEntry ==
  /\ Materializing /\ Copied
  /\ \E t \in Prepared : /\ Makeable(t)
                        /\ root' = CopyTo(t, entry.source, entry.bundled)
  /\ next' = next + 1
  /\ interpreterBundlePath' =
       IF entry.kind = "Interpreter" THEN entry.bundled ELSE interpreterBundlePath
  /\ UNCHANGED <<inputs, walkVars, stage, bounds>>

TouchExecutable ==
  /\ Materializing /\ entry.kind = "Executable"
  /\ \E t \in Prepared : /\ Makeable(t)
                        /\ root' = TouchTo(t, entry.source, entry.bundled)
  /\ next' = next + 1
  /\ UNCHANGED <<inputs, walkVars, stage, interpreterBundlePath, bounds>>

LinkAlias ==
  /\ Materializing /\ entry.kind = "SymlinkAlias"
  /\ \E t \in Prepared : /\ Makeable(t)
                        /\ root' = SymlinkTo(t, entry.bundled, entry.target)
  /\ next' = next + 1
  /\ UNCHANGED <<inputs, walkVars, stage, interpreterBundlePath, bounds>>

(* The source does not open, the destination is a symlink loop or leads    *)
(* out of the root, or something is in the way of a directory, a copy or a *)
(* symlink; for the executable fs::permissions throws.                     *)
MaterializeFails ==
  /\ Materializing
  /\ \E t \in Prepared : ~Makeable(t) /\ root' = t
  /\ stage' = "error"
  /\ UNCHANGED <<inputs, walkVars, next, interpreterBundlePath, bounds>>

Materialized ==
  /\ stage = "materialize" /\ ~More
  /\ stage' = "rewrite" /\ next' = 1
  /\ UNCHANGED <<inputs, walkVars, root, interpreterBundlePath, bounds>>

-----------------------------------------------------------------------------
Rewriting == stage = "rewrite" /\ More
Rewritable == entry.kind \in {"Executable", "SharedObject"}

SkipRewrite ==
  /\ Rewriting /\ ~Rewritable
  /\ next' = next + 1
  /\ UNCHANGED <<inputs, walkVars, root, stage, interpreterBundlePath, bounds>>

RewriteExecutable ==
  /\ Rewriting /\ entry.kind = "Executable"
  /\ root' = WriteAt(root, entry.bundled, RewrittenExecutable)
  /\ next' = next + 1
  /\ UNCHANGED <<inputs, walkVars, stage, interpreterBundlePath, bounds>>

RewriteLibrary ==
  /\ Rewriting /\ entry.kind = "SharedObject" /\ Reopens(entry.bundled)
  /\ root' = WriteAt(root, entry.bundled, RewrittenLibrary)
  /\ next' = next + 1
  /\ UNCHANGED <<inputs, walkVars, stage, interpreterBundlePath, bounds>>

ReopenFails ==
  /\ Rewriting /\ entry.kind = "SharedObject" /\ ~Reopens(entry.bundled)
  /\ stage' = "error"
  /\ UNCHANGED <<inputs, walkVars, root, next, interpreterBundlePath, bounds>>

Rewritten ==
  /\ stage = "rewrite" /\ ~More
  /\ stage' = "verify" /\ next' = 1
  /\ UNCHANGED <<inputs, walkVars, root, interpreterBundlePath, bounds>>

-----------------------------------------------------------------------------
(* What an operation on the current entry may leave when it is cut short:  *)
(* part of the bootstrap, directories only, a cut off file, or an alias    *)
(* that is only removed.                                                   *)
TornEntry(t) ==
  CASE entry.kind = "SymlinkAlias" -> {Removed(t, entry.bundled)}
    [] entry.kind = "Executable" -> {TouchTo(t, entry.source, entry.bundled)}
    [] Copied /\ Opens(entry.source) ->
         {WriteAt(t, entry.bundled, file) : file \in CutOff(CopyOf(entry.source))}
    [] OTHER -> {}
TornMaterialize ==
  BootstrapCut(root, policy) \cup Prepared \cup UNION {TornEntry(t) : t \in Prepared}

(* The rewrite of the entry under way, and what is left of it.             *)
Rewrites == Rewritable /\ (entry.kind = "SharedObject" => Reopens(entry.bundled))
NewFile == IF entry.kind = "Executable" THEN RewrittenExecutable ELSE RewrittenLibrary
TornRewrite ==
  {root} \cup (IF Rewrites
              THEN {WriteAt(root, entry.bundled, file) : file \in CutOff(NewFile)}
              ELSE {})

Torn == IF Materializing THEN TornMaterialize
        ELSE IF Rewriting THEN TornRewrite ELSE {root}

Disturb ==
  /\ Cardinality(disturbed) < MaxFaults
  /\ disturbed' = disturbed \cup {runs}

(* An I/O error that is reported: materialize() sets errc.                 *)
MaterializeFault ==
  /\ Materializing /\ Disturb
  /\ root' \in Torn
  /\ stage' = "error"
  /\ UNCHANGED <<inputs, walkVars, next, interpreterBundlePath, runs, lost>>

(* LIEF throws while it builds or writes: write() returns false.           *)
RewriteFault ==
  /\ Rewriting /\ Rewrites /\ Disturb
  /\ root' \in Torn
  /\ stage' = "error"
  /\ UNCHANGED <<inputs, walkVars, next, interpreterBundlePath, runs, lost>>

(* The file is not opened, or not all of it is written, and nothing throws:*)
(* the builder goes on to the next entry.                                  *)
RewriteLost ==
  /\ Rewriting /\ Rewrites /\ Disturb
  /\ root' \in Torn
  /\ lost' = lost \cup {End(root, entry.bundled)}
  /\ next' = next + 1
  /\ UNCHANGED <<inputs, walkVars, stage, interpreterBundlePath, runs>>

Build ==
  \/ CopyEntry \/ TouchExecutable \/ LinkAlias \/ MaterializeFails \/ Materialized
  \/ SkipRewrite \/ RewriteExecutable \/ RewriteLibrary \/ ReopenFails \/ Rewritten
  \/ MaterializeFault \/ RewriteFault \/ RewriteLost

-----------------------------------------------------------------------------
(* BundleVerifier::verifyEntry: no issue is reported for entry e.          *)
AliasVerified(e) ==
  LET place == Place(root, e.bundled)
  IN  place \in DOMAIN root /\ root[place] = LinkNode(LinkText(e.bundled, e.target))

InterpreterVerified(e, file) ==
  /\ (file.interp # NoPath) = e.hasInterp
  /\ e.hasInterp /\ interpreterBundlePath # NoPath =>
       file.interp = interpreterBundlePath

RunpathVerified(e, file) == file.rpath = <<>> /\ file.runpath = RunpathTexts(e)

(* Mutation: it is enough that something is there.                        *)
EntryVerified_Exists(e) == Bundled(root, e.bundled)

EntryVerified(e) ==
  /\ Bundled(root, e.bundled)
  /\ IF e.kind = "SymlinkAlias" THEN AliasVerified(e)
     ELSE LET file == root[End(root, e.bundled)]
          IN  /\ file.kind = "file" /\ file.parses
              /\ e.kind = "Executable" => InterpreterVerified(e, file)
              /\ e.kind # "Interpreter" => RunpathVerified(e, file)

(* Mutation: the symlinks of the flat layout are taken for granted.       *)
CompatibilityVerified_Exists ==
  /\ \A dir \in ToSet(CompatibilityDirectories(policy)) :
       Follow(root, dir) \in DOMAIN root
  /\ \A link \in ToSet(CompatibilitySymlinks(policy)) :
       Follow(root, link.at) \in DOMAIN root

CompatibilityVerified ==
  /\ \A dir \in ToSet(CompatibilityDirectories(policy)) :
       Follow(root, dir) \in DOMAIN root
  /\ \A link \in ToSet(CompatibilitySymlinks(policy)) :
       /\ Follow(root, link.at) \in DOMAIN root
       /\ root[Append(MadeAt(root, Front(link.at)), Last(link.at))] =
            LinkNode(link.to)

Verified ==
  /\ CompatibilityVerified
  /\ \A i \in DOMAIN manifest : EntryVerified(manifest[i])

=============================================================================
