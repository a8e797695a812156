------------------------------- MODULE MCStores -------------------------------
(* The two requests of the marketplace are interchangeable.                *)
EXTENDS Stores, TLC

Alike == Permutations(SkillRequests)
=============================================================================
