------------------------------ MODULE MCInfer ------------------------------
(* Values for model-checking InferCompletion: vectors are interchangeable.  *)
EXTENDS InferInvariant, TLC

CONSTANTS v1, v2

OneVector   == {v1}
TwoVectors  == {v1, v2}
VectorOrder == Permutations(Vectors)

CalmEnv   == {"fault", "slowDrain", "ringFull"}
PerilEnv  == {"timeout", "halt", "backToBack"}

TimeoutEnv == {"timeout"}
Exe1Env    == {"exe1"}
CacheEnv   == {"exe1", "timeout"}
=============================================================================
