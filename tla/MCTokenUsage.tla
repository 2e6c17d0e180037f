---------------------------- MODULE MCTokenUsage ----------------------------
(* Small instances of TokenUsage for TLC.                                  *)
EXTENDS TokenUsage, TLC

\* Two providers may serve the same model.
MCProviders == ("fake" :> "m1") @@ ("anthropic" :> "m2") @@ ("proxy" :> "m2")

MCTokens == {[prompt |-> 1, completion |-> 0], [prompt |-> 2, completion |-> 3]}

Symmetry == Permutations(Sessions)
=============================================================================
