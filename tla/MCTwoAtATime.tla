----------------------------- MODULE MCTwoAtATime ------------------------------
(***************************************************************************)
(* TwoAtATime for TLC: one Story, one guest, a Section with a Tab, a       *)
(* picture Field and a choice Field, and notices to two addresses.         *)
(***************************************************************************)
EXTENDS TwoAtATime, TLC

CONSTANTS saga, author, sec, tab, pic, pick, opt, n1, n2, n3, x1, x2

MCAuthorOf  == saga :> author
MCParent    == (tab :> sec) @@ (pic :> tab) @@ (pick :> tab) @@ (opt :> pick)
MCAddressee == (n1 :> x1) @@ (n2 :> x1) @@ (n3 :> x2)

Symmetry ==
  Permutations(Requests) \cup Permutations(Members) \cup Permutations(Rows)
================================================================================
