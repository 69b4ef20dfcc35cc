------------------------------ MODULE MCStorytime ------------------------------
(***************************************************************************)
(* StorytimePublication for TLC: keys and request slots are interchangeable.*)
(***************************************************************************)
EXTENDS StorytimePublication, TLC

Symmetry == Permutations(Chapters) \cup Permutations(Requests)
================================================================================
