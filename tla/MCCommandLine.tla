---------------------------- MODULE MCCommandLine ----------------------------
(***************************************************************************)
(* /home/user is the working directory; /home/user/cur leads to /opt/app/v1*)
(***************************************************************************)
EXTENDS CommandLine, TLC

Abs(parts) == [abs |-> TRUE, parts |-> parts]
Rel(parts) == [abs |-> FALSE, parts |-> parts]

MCCwd == <<"home", "user">>
MCLinks == <<"home", "user", "cur">> :> <<"opt", "app", "v1">>

MCTexts == {Abs(<<"bin", "a">>), Abs(<<"bin", "..", "bin", "a">>), Rel(<<"a">>),
            Abs(<<"..", "bin", "a">>), Rel(<<"..", "..", "..", "a">>),
            Rel(<<"..", "a">>), Rel(<<"cur", "..", "a">>), Rel(<<"cur", "a">>)}
MCGiven == MCTexts \cup {NoText}
MCTargets == {<<>>} \cup {<<s>> : s \in MCGiven} \cup {<<s, t>> : s, t \in MCGiven}
MCCommandLines ==
  [help : BOOLEAN, malformed : BOOLEAN, targets : MCTargets,
   fakeRoot : MCGiven, policy : {"flat-lib64", "other"}]

=============================================================================
