------------------------------ MODULE MCReplay ------------------------------
(* Instances of Replay for TLC. *)
EXTENDS Replay

MCLine(op, id, tool) ==
  [op |-> op, id |-> id, tool |-> tool, well |-> TRUE, ok |-> TRUE, room |-> 2,
   metaRoom |-> 1]
MCCall(id, tool) == MCLine("call", id, tool)
MCFinal == MCLine("final", NoId, "none")
MCFailed == [MCFinal EXCEPT !.ok = FALSE, !.metaRoom = 2]
MCCustom == MCLine("custom", NoId, "none")

\* No call, one, two, with a custom frame, with and without a final, and a final
\* with and without room for the parity metadata.
MCScripts ==
  {<< >>, <<MCFinal>>, <<MCCall(1, "t")>>,
   <<MCCall(1, "t"), MCCall(2, "u")>>,
   <<MCCall(1, "t"), MCCustom, MCFinal>>,
   <<MCCall(1, "t"), MCCall(2, "u"), MCFinal>>,
   <<MCCall(1, "t"), MCCall(3, "t"), MCFailed>>}

\* Other ids, other tools, fields missing, a result forged, an op unknown.
MCDrift ==
  {MCCall(1, "t"), MCCall(2, "u"), MCCall(2, "t"), MCCall(3, "t"),
   [MCCall(2, "t") EXCEPT !.well = FALSE],
   MCLine("result", 1, "t"), MCCustom, MCLine("bogus", NoId, "none"), MCFinal, MCFailed}
=============================================================================
