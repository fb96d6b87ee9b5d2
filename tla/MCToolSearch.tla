----------------------------- MODULE MCToolSearch -----------------------------
EXTENDS ToolSearch

MCNames == 1..3
MCWords == {"svc", "fs", "list", "ls"}
MCNameWords == <<<<"fs", "ls">>, <<"svc", "list">>, <<"svc", "ls">>>>
MCSpace == <<1, 2, 2>>

Tool(n, hot, args, words, aliases) ==
  [Absent EXCEPT !.form = "tool", !.name = n, !.hot = hot, !.args = args,
     !.words = [w \in MCWords |-> IF w \in words THEN 1 ELSE 0], !.aliases = aliases]

One == Tool(1, TRUE, 1, {"fs", "ls", "list"}, {"list"})
Two == Tool(2, FALSE, 0, {"svc", "list"}, {})
Three == Tool(3, TRUE, 0, {"svc", "ls"}, {})
Broken == [Absent EXCEPT !.form = "broken"]

\* One stands for "list", two is deferred or denies code, three changes its words.
MCManifests ==
  { One, Two, Three, Broken, [Two EXCEPT !.caller = "direct"],
    Tool(3, TRUE, 0, {"svc", "ls", "fs"}, {"svc"}) }

\* All tools; one in another's file; one twice; only deferred ones; none; a broken file.
MCStart ==
  { <<One, Two, Three>>, <<One, Three, Two>>, <<Three, Two, Three>>, <<Absent, Two, Absent>>,
    <<Absent, Absent, Absent>>, <<One, Two, Broken>> }

Asked1(raw, norm, words, dotted, ns, exact, pattern, finds) ==
  [raw |-> raw, norm |-> norm, words |-> words, dotted |-> dotted, ns |-> ns, exact |-> exact,
   pattern |-> pattern, finds |-> finds]

\* "svc.list", " svc.list", "list ls", a pattern.
MCQueries ==
  { Asked1(1, 1, <<"svc", "list">>, TRUE, 2, 2, "pattern", {"list"}),
    Asked1(2, 1, <<"svc", "list">>, TRUE, 0, 2, "pattern", {"list"}),
    Asked1(3, 3, <<"list", "ls">>, FALSE, 0, 0, "plain", {}),
    Asked1(4, 4, <<"svc">>, FALSE, 0, 0, "bad", {}) }

\* Words that fewer tools have weigh more.
MCWeight(index, words, n) ==
  FoldLeft(LAMBDA sum, w :
             IF index.df[w] = 0 THEN sum
             ELSE sum + index.docs[n].words[w] * (1 + Cardinality(DOMAIN index.docs) - index.df[w]),
           0, words)
Ask(kind, q, mode, k, strict, alike) ==
  [kind |-> kind, q |-> CHOOSE p \in MCQueries : p.raw = q, mode |-> mode, k |-> k,
   strict |-> strict, alike |-> alike]
MCCalls ==
  { Ask("search", 1, "bm25", 1, TRUE, FALSE), Ask("search", 2, "bm25", 3, TRUE, FALSE),
    Ask("search", 3, "auto", 2, FALSE, FALSE), Ask("search", 4, "auto", 1, TRUE, FALSE),
    Ask("search", 1, "other", 1, TRUE, FALSE),
    Ask("cached", 1, "bm25", 2, TRUE, FALSE), Ask("cached", 2, "bm25", 2, TRUE, FALSE),
    Ask("cached", 3, "bm25", 2, FALSE, TRUE), Ask("cached", 1, "auto", 2, FALSE, TRUE),
    Ask("assemble", 1, "auto", 2, TRUE, FALSE), Ask("assemble", 3, "auto", 1, TRUE, FALSE),
    Ask("assemble", 1, "bm25", 2, TRUE, FALSE) }
MCAlike == <<1, 3>>

-----------------------------------------------------------------------------
(* What a document says and the code does not do: each has a .cfg, with     *)
(* which TLC finds the counterexample.                                      *)

\* The names are ranked by their score, and only among equal scores by anything else
\* (docs/adr/003-tool-search-discovery.md:45); the code takes a namespace and an exact name
\* before the score.
ScoreFirst ==
  Succeeded /\ req.kind # "cached" /\ req.mode = "bm25" =>
    LET score(n) == Weight(Index(req.cat), Rewrite(req.q.words, RewriteMap(req.cat)), n) IN
    \A i, j \in DOMAIN req.names : i < j => score(req.names[i]) >= score(req.names[j])
=============================================================================
