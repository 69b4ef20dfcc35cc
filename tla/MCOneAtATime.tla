----------------------------- MODULE MCOneAtATime -----------------------------
(***************************************************************************)
(* OneAtATime for TLC: a Section with a Tab, a picture Field and a choice  *)
(* Field of one Option; a collection of each kind that is kept in a way of *)
(* its own; two titles, one of which is the other with a number; entries   *)
(* of every tracker, a commendation of one faction only and a              *)
(* specialization for the secondary slot only among them.                  *)
(***************************************************************************)
EXTENDS OneAtATime, TLC

CONSTANTS sec, tab, pic, pick, opt

MCParent == (tab :> sec) @@ (pic :> tab) @@ (pick :> tab) @@ (opt :> pick)

MCOfRole     == [USER |-> {}, MODERATOR |-> {"p"}, ADMIN |-> {"p"}]
MCConfigured == [l |-> 2]

MCNumbers == -1..3

MCStems == {<<"x">>, <<"x", 2>>}

Entry(tracker, name, most, faction, type) ==
  [tracker |-> tracker, name |-> name, most |-> most, faction |-> faction, type |-> type]
MCAchievements ==
  {Entry(t, "x", 1, None, None) : t \in {"reputation", "rd", "admiralty", "commendation"}}
    \cup {Entry("commendation", "x", 1, "f", None),
          Entry("specialization", "x", 2, None, "primary"),
          Entry("specialization", "y", 2, None, "primary"),
          Entry("specialization", "z", 1, None, "secondary")}
===============================================================================
