-------------------------- MODULE MCFallbackRunner --------------------------
(* Values for the constants of FallbackRunner that a .cfg cannot write.     *)
EXTENDS FallbackRunner

CONSTANTS sonnet, opus, glm

MCTierModel == [t \in Tiers |-> IF t = 0 THEN sonnet ELSE glm]
=============================================================================
