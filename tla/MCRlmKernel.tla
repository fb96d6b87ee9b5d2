---------------------------- MODULE MCRlmKernel ----------------------------
(* An instance of RlmKernel for TLC. *)
EXTENDS RlmKernel

\* A line of many words of the goal, which crowds others out.
MCPrints == {[cost |-> 2, rel |-> 4]}

-----------------------------------------------------------------------------
(* What a document says and the code does not do: each has a .cfg, with     *)
(* which TLC finds the counterexample.                                      *)

\* "Context builder never exceeds K tokens" (docs/adr/006-artifact-rlm-substrate.md:29).
PromptWithinCap == prompt # << >> => Sent <= Cap
=============================================================================
