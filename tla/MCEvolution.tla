---------------------------- MODULE MCEvolution ----------------------------
(***************************************************************************)
(* Three proposals over three artifacts: 1 replaces a by b, 2 b by a (a    *)
(* cycle with 1), 3 b by c (a dependent of 1, with which it makes a chain, *)
(* and a rival of 2).  Only 1 is governed by a rollout, and comes from its *)
(* submission.                                                             *)
(***************************************************************************)
EXTENDS Evolution

MCProposals == 1..3
MCArtifacts == {"a", "b", "c"}
MCBase      == <<"a", "b", "b">>
MCCandidate == <<"b", "a", "c">>
MCGoverned  == {1}
MCSeasoned  == {2, 3}
=============================================================================
