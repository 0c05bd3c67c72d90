-------------------------- MODULE DependencyClosure --------------------------
(***************************************************************************)
(* What Executable::dependencyManifest promises about payloads, without    *)
(* its queue, its maps or its order: the bundled libraries grow by the     *)
(* dependency of something already bundled, planning ends only when they   *)
(* are closed under DT_NEEDED, and it fails only for a name that is needed *)
(* by something bundled and that the resolver cannot find, or for a target *)
(* that is no ELF binary.                                                  *)
(***************************************************************************)
EXTENDS Executable

VARIABLES bundled,  \* real paths of the libraries to be copied
          outcome   \* "planning", "planned" or "failed"

closureVars == <<host, cached, exe, includeInterpreter, bundled, outcome>>

Needs(owner) == ToSet(ImportedLibraries(owner))
Owners == bundled \cup {exe}

(* A dependency that gets no payload: the interpreter, which is bundled as *)
(* such, and a file that has the ELF magic but cannot be parsed.           *)
NoPayload(dep) == dep.canonical \in InterpreterFile \/ ~Parses(dep.canonical)

Covered(dep) ==
  dep # NoResolution /\ (NoPayload(dep) \/ dep.canonical \in bundled)

(* What the resolver answers for each name that is needed.                 *)
Answers ==
  UNION {{Dependency(owner, name) : name \in Needs(owner)} : owner \in Owners}

ClosureInit == bundled = {} /\ outcome = "planning"

AddLibrary ==
  \E dep \in Answers :
    /\ dep # NoResolution
    /\ ~NoPayload(dep)
    /\ bundled' = bundled \cup {dep.canonical}
    /\ UNCHANGED <<host, cached, exe, includeInterpreter, outcome>>

GiveUp ==
  /\ ~Parses(exe) \/ NoResolution \in Answers
  /\ outcome' = "failed"
  /\ UNCHANGED <<host, cached, exe, includeInterpreter, bundled>>

Complete ==
  /\ Parses(exe)
  /\ \A dep \in Answers : Covered(dep)
  /\ outcome' = "planned"
  /\ UNCHANGED <<host, cached, exe, includeInterpreter, bundled>>

ClosureNext == outcome = "planning" /\ (AddLibrary \/ GiveUp \/ Complete)

ClosureSpec == ClosureInit /\ [][ClosureNext]_closureVars
ClosureEnds == <>(outcome # "planning")

=============================================================================
