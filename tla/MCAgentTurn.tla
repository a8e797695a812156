----------------------------- MODULE MCAgentTurn -----------------------------
(* Two turns of a session: the first may have any recipe, the second goes  *)
(* to the composer.  A round-2 answer picks s1, offered or not, and comes   *)
(* from the owner of the session or from somebody else.                    *)
EXTENDS AgentTurn

CONSTANTS s1, s2, owner, other

MCTurns == 1 .. 2
MCRuns == 1 .. 5
MCKeys == <<DOMAIN RECIPES, {"draft"}>>
MCSlots == {<<owner, s1>>, <<other, s1>>}
MCOptionSets == {{s1}, {s2}}
=============================================================================
