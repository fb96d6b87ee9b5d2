--------------------------- MODULE MCArtifactStore ---------------------------
(* Instances of ArtifactStore for TLC. *)
EXTENDS ArtifactStore

CONSTANTS p, q, page, summary, slice

MCRequest(ev, id, kind, parents, long) ==
  [ev |-> ev, id |-> id, kind |-> kind, parents |-> parents, long |-> long]

\* A page, a summary of it with many parents, the same bytes put as something
\* else, and a view of the page.
MCRequests ==
  {MCRequest("put", page, "raw", << >>, FALSE),
   MCRequest("put", summary, "summary", <<page>>, TRUE),
   MCRequest("put", summary, "raw", << >>, FALSE),
   MCRequest("view", slice, "slice", <<page>>, FALSE)}
=============================================================================
