------------------------------ MODULE MCAccess ------------------------------
(***************************************************************************)
(* A small instance of Access: one user, two user groups, three system     *)
(* users, one host in one host group, and a second host group and a second *)
(* rule still to be created.                                               *)
(***************************************************************************)
EXTENDS Access, TLC

Base == [enabled |-> TRUE, from |-> "nil", to |-> "nil", group |-> "g1", ids |-> {},
         hg |-> None, su |-> None, sys |-> {"s1"}, hgs |-> {"k1"}]

MCRuleForms ==
  {Base,
   [Base EXCEPT !.to = "future", !.group = None, !.hg = "k1", !.su = "s2", !.sys = {"s1", "s2"}],
   [Base EXCEPT !.enabled = FALSE, !.from = "future", !.hgs = {}, !.ids = {"h1"}]}

MCHostForms ==
  {[mode |-> "proxy", proxy |-> "p1", tagged |-> TRUE],
   [mode |-> "", proxy |-> None, tagged |-> FALSE],
   [mode |-> "direct", proxy |-> None, tagged |-> TRUE]}

MCStartRules ==
  [r \in Rules |-> IF r = "r1" THEN Stored([Base EXCEPT !.sys = {"s1", "s2"}, !.to = "future"], "active")
                   ELSE Stored(Base, "new")]

\* The administrators are interchangeable.
MCSymmetry == Permutations(Admins)

=============================================================================
