---------------------------- MODULE MCRunBridge ----------------------------
(* An instance of RunBridge for TLC. *)
EXTENDS RunBridge

-----------------------------------------------------------------------------
(* What a document says and the code does not do: each has a .cfg, with     *)
(* which TLC finds the counterexample.                                      *)

\* "If `python -m pirml` fails (rc != 0), the bridge ... Emits a `pirml_summary` row with
\* `ok:false`" (docs/adr/007-extension-surface-headless-protocol/01-execution-owner.md:26-28):
\* a run without a final of its own that is ok is not told as one.
FailureIsTold ==
  bridge.result = "returned" /\ cli[Run].code # 0 /\ ~cli[Run].ok => ~bridge.final.ok
=============================================================================
