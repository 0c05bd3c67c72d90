----------------------------- MODULE Executable -----------------------------
(***************************************************************************)
(* What the dependency walk reads from ELF files: the imported libraries,  *)
(* the search roots an ELF contributes for its own imports, the library    *)
(* that stands for the C library, and the interpreter of the executable.   *)
(***************************************************************************)
EXTENDS ResolverCache

CONSTANTS MuslLibc   \* names fallback_libc_name takes for a musl C library

VARIABLES exe,                \* the target executable, as spelled
          includeInterpreter  \* --interpreter

ASSUME MuslLibcAssumption == MuslLibc \subseteq Name

-----------------------------------------------------------------------------
ImportedLibraries(f) == IF Parses(f) THEN Elf(f).needed ELSE <<>>

(* expandDynamicRoot: $ORIGIN and relative entries start at the owner.     *)
ExpandDynamicRoot(ref, owner) == CanonDir[RefDir(CanonDir[owner.dir], ref)]

Expanded(refs, owner) == [i \in DOMAIN refs |-> ExpandDynamicRoot(refs[i], owner)]

(* A repeated root counts where it first occurs; the indices keep order.   *)
FirstOccurrences(s) ==
  [i \in {k \in DOMAIN s : \A j \in DOMAIN s : s[j] = s[k] => k <= j} |-> s[i]]

(* RPATH counts only where there is no RUNPATH.                            *)
LoaderSearchRoots(owner) ==
  IF ~Parses(owner) THEN <<>>
  ELSE LET elf == Elf(owner)
           refs == IF elf.runpath # <<>> THEN elf.runpath ELSE elf.rpath
       IN  FirstOccurrences(Expanded(refs, owner))

(* The answer the walk gets for name imported by owner.                    *)
Dependency(owner, name) == Resolve(name, LoaderSearchRoots(owner))

(* The import (at most one) taken for the C library of the executable.     *)
FallbackLibcName(imported) ==
  LET musl == {i \in DOMAIN imported : imported[i] \in MuslLibc}
  IN  IF Contains(imported, "libc.so.6") THEN {"libc.so.6"}
      ELSE {imported[i] : i \in {j \in musl : \A k \in musl : j <= k}}

-----------------------------------------------------------------------------
InterpreterPath ==
  IF includeInterpreter /\ Parses(exe) THEN Elf(exe).interp ELSE NoPath

(* Mutation: the interpreter is known by its spelling only.               *)
InterpreterFile_AsSpelled ==
  {InterpreterPath} \ {NoPath}

(* Real path (at most one) of the interpreter that is to be bundled.       *)
InterpreterFile ==
  {Canonicalize(p) : p \in {InterpreterPath} \ {NoPath}}

=============================================================================
