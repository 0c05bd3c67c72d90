----------------------------- MODULE CommandLine -----------------------------
(***************************************************************************)
(* App::parse: the options are read, the layout policy is checked, and the *)
(* targets and the fake root are made absolute, one after the other.  The  *)
(* paths are normalised as texts; the kernel walks them through symlinks.  *)
(* parse is noexcept and catches the errors of CLI11 only.                 *)
(***************************************************************************)
EXTENDS Naturals, Sequences, FiniteSets, SequencesExt

CONSTANTS CommandLines,  \* options as given
          Policies,      \* the names parse_bundle_layout_policy knows
          Cwd,           \* real path of the working directory
          Links,         \* where the symlinks to directories lead
          NoText         \* an empty text, or an option that is not given

VARIABLES given,    \* the command line
          stage,    \* how far parse has come
          targets,  \* params.targets
          fakeRoot, \* params.fakeRoot
          made,     \* targets that are absolute by now
          cwdGone   \* the working directory has been removed

parsed == <<targets, fakeRoot, made>>
cliVars == <<given, stage, parsed, cwdGone>>

(* A path text: its components, ".." among them.  One without components   *)
(* is "." or "/", which is not empty.                                      *)
Component == STRING
Text == [abs : BOOLEAN, parts : Seq(Component)]
Stage == {"options", "targets", "root",
          "params", "exit 0", "exit error", "aborted"}
Ended == stage \in {"params", "exit 0", "exit error", "aborted"}

ASSUME CommandLineAssumption ==
  /\ \A c \in CommandLines : /\ c.help \in BOOLEAN /\ c.malformed \in BOOLEAN
                             /\ c.targets \in Seq(Text \cup {NoText})
                             /\ c.fakeRoot \in Text \cup {NoText}
  /\ NoText \notin Text
  /\ \A l \in DOMAIN Links : Links[l] \in Seq(Component)
  /\ Cwd \in Seq(Component)
  /\ \A i \in DOMAIN Cwd : Cwd[i] # ".." /\ SubSeq(Cwd, 1, i) \notin DOMAIN Links

(* No target is lost on the way, and parameters are only handed to main    *)
(* when the fake root and every target are absolute.                       *)
CliTypeOK ==
  /\ given \in CommandLines /\ stage \in Stage /\ cwdGone \in BOOLEAN
  /\ targets \in Seq(Text \cup {NoText}) /\ Len(targets) = Len(given.targets)
  /\ made \in 0..Len(targets)
  /\ stage = "params" =>
       fakeRoot.abs /\ \A i \in DOMAIN targets : targets[i] # NoText /\ targets[i].abs

-----------------------------------------------------------------------------
(* Mutation: ".." at the start of a relative path is dropped.             *)
Push_DropsLeading(abs, parts, c) ==
  CASE c # ".." -> Append(parts, c)
    [] c = ".." /\ parts = <<>> -> <<>>
    [] OTHER -> Front(parts)

(* What one more component makes of the components that are kept so far.   *)
Push(abs, parts, c) ==
  CASE c = ".." /\ parts # <<>> /\ Last(parts) # ".." -> Front(parts)
    [] c = ".." /\ parts = <<>> /\ abs -> <<>>
    [] OTHER -> Append(parts, c)

(* lexically_normal: what is kept of the first i components.               *)
Normals(text) ==
  LET normal[i \in 0..Len(text.parts)] ==
        IF i = 0 THEN <<>> ELSE Push(text.abs, normal[i - 1], text.parts[i])
  IN  normal
LexicallyNormal(text) == [text EXCEPT !.parts = Normals(text)[Len(@)]]

(* Mutation: the working directory is always asked for.                   *)
Fails_Always(text) == text # NoText => cwdGone

(* fs::absolute() refuses an empty path, and asks for the working          *)
(* directory if the path is relative.                                      *)
Fails(text) == text # NoText => cwdGone /\ ~text.abs
Absolute(text) ==
  IF text.abs THEN text ELSE [abs |-> TRUE, parts |-> Cwd \o text.parts]

-----------------------------------------------------------------------------
CliInit ==
  /\ given \in CommandLines
  /\ stage = "options"
  /\ targets = given.targets /\ fakeRoot = given.fakeRoot /\ made = 0
  /\ cwdGone = FALSE

(* --help is an exit too: its code is the 0 that main returns.             *)
ParseOptions ==
  /\ stage = "options"
  /\ stage' = CASE given.help -> "exit 0"
                [] ~given.help /\ (given.malformed \/ targets = <<>>) -> "exit error"
                [] ~given.help /\ given.policy \notin Policies -> "exit error"
                [] OTHER -> "targets"
  /\ UNCHANGED <<given, parsed, cwdGone>>

(* Mutation: the loop stops before the last target.                       *)
MakeAbsolute_StopsEarly ==
  /\ stage = "targets" /\ made < Len(targets) /\ ~Fails(targets[made + 1])
  /\ targets' = [targets EXCEPT ![made + 1] = Absolute(LexicallyNormal(@))]
  /\ made' = made + 1
  /\ stage' = IF made + 1 >= Len(targets) - 1 THEN "root" ELSE stage
  /\ UNCHANGED <<given, fakeRoot, cwdGone>>

MakeAbsolute ==
  /\ stage = "targets" /\ made < Len(targets) /\ ~Fails(targets[made + 1])
  /\ targets' = [targets EXCEPT ![made + 1] = Absolute(LexicallyNormal(@))]
  /\ made' = made + 1
  /\ stage' = IF made + 1 = Len(targets) THEN "root" ELSE stage
  /\ UNCHANGED <<given, fakeRoot, cwdGone>>

(* Without --fake-root the bundle goes to the working directory.           *)
RootText(text) == IF text = NoText THEN [abs |-> FALSE, parts |-> <<>>] ELSE text

TakeRoot ==
  /\ stage = "root" /\ ~Fails(RootText(fakeRoot))
  /\ fakeRoot' = Absolute(LexicallyNormal(RootText(fakeRoot)))
  /\ stage' = "params"
  /\ UNCHANGED <<given, targets, made, cwdGone>>

(* An exception of std::filesystem leaves a noexcept function.             *)
Abort ==
  /\ \/ stage = "targets" /\ Fails(targets[made + 1])
     \/ stage = "root" /\ Fails(RootText(fakeRoot))
  /\ stage' = "aborted"
  /\ UNCHANGED <<given, parsed, cwdGone>>

RemoveCwd ==
  /\ ~Ended /\ cwdGone' = TRUE
  /\ UNCHANGED <<given, stage, parsed>>

CliNext == ParseOptions \/ MakeAbsolute \/ TakeRoot \/ Abort \/ RemoveCwd
CliSpec == CliInit /\ [][CliNext]_cliVars

-----------------------------------------------------------------------------
(* The kernel's walk of a text: every component is followed before the     *)
(* next, ".." included; where it is after the first i of them.             *)
Real(l) == IF l \in DOMAIN Links THEN Links[l] ELSE l
Step(at, c) ==
  IF c # ".." THEN Real(Append(at, c)) ELSE IF at = <<>> THEN at ELSE Front(at)
Walks(text) ==
  LET walk[i \in 0..Len(text.parts)] ==
        IF i = 0 THEN IF text.abs THEN <<>> ELSE Cwd
        ELSE Step(walk[i - 1], text.parts[i])
  IN  walk
Walked(text) == Walks(text)[Len(text.parts)]

(* ".." is written somewhere behind a symlink.                             *)
ClimbsBehindLink(text) ==
  \E i, j \in DOMAIN text.parts :
    /\ i < j /\ text.parts[j] = ".."
    /\ Append(Walks(text)[i - 1], text.parts[i]) \in DOMAIN Links

(* The files that are bundled, and the directory that is written to, are   *)
(* those the user's texts name, unless a text climbs back from a symlink.  *)
PathsNameTheirFiles ==
  stage = "params" =>
    /\ \A i \in DOMAIN targets :
         ClimbsBehindLink(given.targets[i])
           \/ Walked(targets[i]) = Walked(given.targets[i])
    /\ \/ ClimbsBehindLink(RootText(given.fakeRoot))
       \/ Walked(fakeRoot) = Walked(RootText(given.fakeRoot))

(* parse aborts the program only over an empty target text, or when the    *)
(* working directory is gone and some path of the command needs it; and no *)
(* command with an empty target gets through.                              *)
AbortsHaveACause ==
  /\ stage = "aborted" =>
       \/ NoText \in ToSet(given.targets)
       \/ cwdGone /\ \E text \in ToSet(given.targets) \cup {RootText(given.fakeRoot)} :
                       ~text.abs
  /\ stage = "params" => NoText \notin ToSet(given.targets)

=============================================================================
