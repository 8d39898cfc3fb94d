------------------------------ MODULE MCApproval ------------------------------
(* Approval for model checking: requests are interchangeable.               *)
EXTENDS Approval, TLC

RequestSymmetry == Permutations(Requests)
=============================================================================
