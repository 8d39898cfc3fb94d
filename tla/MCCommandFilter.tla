---------------------------- MODULE MCCommandFilter ----------------------------
(* Three rules: for everybody by the first word, for everybody with a wildcard, *)
(* and for other users only.                                                   *)
EXTENDS CommandFilter

Rule(scope, pattern, users) ==
  [scope |-> scope, pattern |-> pattern, users |-> users]

mcDefaults == {Rule("global", <<"r">>, {})}
mcRuleSets ==
  {{}, {Rule("global", <<"m", "*", "r">>, {}), Rule("user", <<"m">>, {"bob"})},
   {Rule("user", <<"R">>, {"ann"})}}

\* Every pattern of up to three characters.
mcPatterns == BoundedSeq({"r", "m", " ", Star}, 3)
=============================================================================
