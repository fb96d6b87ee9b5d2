----------------------------- MODULE MCEvalShard -----------------------------
(* An instance of EvalShard for TLC. *)
EXTENDS EvalShard, TLC

CONSTANTS r1, r2

MCDataset == <<"a", "b", "c">>
MCKind == [t \in {"a", "b", "c"} |->
             CASE t = "a" -> "match" [] t = "b" -> "long" [] t = "c" -> "differs"]
MCShard == [n \in {1, 2} |->
              [t \in {"a", "b", "c"} |-> IF n = 2 /\ t # "a" THEN 1 ELSE 0]]

MCConfig(jobs, n, s, tight, forced) ==
  [jobs |-> jobs, shards |-> n, shard |-> s, brief |-> FALSE, tight |-> tight,
   forced |-> forced]

\* The shards of a run in two parts, the second with a small context and a forced
\* mismatch, the same suite in one part, and two that are refused.
MCConfigs ==
  {MCConfig(1, 2, 0, FALSE, {}), MCConfig(1, 2, 1, TRUE, {"c"}),
   MCConfig(1, 1, 0, FALSE, {}), MCConfig(2, 1, 0, FALSE, {}), MCConfig(1, 1, 1, FALSE, {})}

MCSymmetry == Permutations(Runners)
=============================================================================
