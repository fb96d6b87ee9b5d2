\* Two attempts; two of the three tools share an identifier.
\* All attempts are done.
CHECK_DEADLOCK FALSE
SPECIFICATION Spec
CONSTANTS
  Tools = {"a.b", "a_b", "c"}
  Safe <- SafeDef
  Selected = {"a.b", "a_b"}
  Submissions <- SubmissionsDef
  Sizes = {1}
  OwnIds = {1}
  Attempts = 2
  MaxLines = 5
INVARIANT
  BranchLaw
