----------------------------- MODULE MCAsyncRpc -----------------------------
(* Instances of AsyncRpc for TLC. *)
EXTENDS AsyncRpc

CONSTANTS t1, t2, t3
=============================================================================
