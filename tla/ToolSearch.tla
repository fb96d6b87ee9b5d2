------------------------------ MODULE ToolSearch ------------------------------
(***************************************************************************)
(* The tool search (pirml/toolsearch/): a catalog is read from a directory *)
(* of manifests, ranked for a query, and the manifests of the best names   *)
(* are read once more from their files and shown to the model.  A process  *)
(* keeps three caches for all the catalogs it has seen.                    *)
(*                                                                         *)
(* Names are numbers in place of strings and have their order; the file of *)
(* a name is the number itself.  A text is its words.  The BM25 weight is  *)
(* any function of the index, the words asked for and the name.            *)
(***************************************************************************)
EXTENDS Order, SequencesExt, FiniteSetsExt

CONSTANTS
  ToolNames,      \* names of tools, and of files
  Words,          \* what texts are made of
  NameWords,      \* each name: its words
  Space,          \* each name: its namespace, the part in front of the dot
  Manifests,      \* what may be written to a manifest file
  Queries,        \* what may be asked
  Calls,          \* the requests: for its own sake, through the cache, or of the compiler
  Start,          \* the directory before anybody edits it
  Weight(_, _, _),\* the score of a name in an index for a sequence of words
  KCap, Cut,      \* K_CAP; how many names are kept before they are boosted: 5 and 100
  Alike,          \* stability_threshold: a fraction
  MaxEdits, MaxRequests   \* bounds: edits of the directory, requests

Absent == [form |-> "absent", name |-> 0, hot |-> FALSE, args |-> 0, words |-> [w \in Words |-> 0],
           aliases |-> {}, clear |-> TRUE, caller |-> "code"]

ManifestType ==
  [form : {"absent", "broken", "nameless", "tool"}, name : ToolNames \cup {0}, hot : BOOLEAN,
   args : Nat, words : [Words -> Nat], aliases : SUBSET Words, clear : BOOLEAN,
   caller : {"code", "direct", "none"}]

\* raw is the text asked, norm its stripped and lower-case form; ns and exact are the
\* namespace and the name it spells, finds the words it matches as a pattern.
QueryType ==
  [raw : Nat, norm : Nat, words : Seq(Words), dotted : BOOLEAN, ns : Nat, exact : ToolNames \cup {0},
   pattern : {"plain", "pattern", "bad"}, finds : SUBSET Words]

CallType ==
  [kind : {"search", "cached", "assemble"}, q : Queries, mode : {"auto", "bm25", "regex", "other"},
   k : Nat \ {0}, strict : BOOLEAN, alike : BOOLEAN]

ASSUME SearchAssumption ==
  /\ ToolNames \subseteq Nat \ {0} /\ IsFiniteSet(ToolNames)
  /\ Manifests \subseteq ManifestType /\ Queries \subseteq QueryType
  /\ \A q, r \in Queries : q.norm = r.norm => q.words = r.words /\ q.exact = r.exact
  /\ Calls \subseteq CallType /\ Start \subseteq [ToolNames -> Manifests \cup {Absent}]
  /\ \A c \in Calls : (c.kind = "assemble" => c.strict) /\ (c.kind # "cached" => ~c.alike)
  /\ KCap \in Nat \ {0} /\ Cut \in Nat /\ Alike \in Nat \X Nat
  /\ MaxEdits \in Nat /\ MaxRequests \in Nat

VARIABLES
  disk,           \* the directory: each file's manifest
  rewrites,       \* REWRITE_CACHE
  indexes,        \* INDEX_CACHE
  searches,       \* SEARCH_CACHE: keys and names, in the order of their insertion
  req,            \* the request at hand
  asked,          \* history: what was searched since the caches were cleared
  edits, requests \* counters for the bounds

searchVars == <<disk, rewrites, indexes, searches, req, asked, edits, requests>>

-----------------------------------------------------------------------------
(* The catalog                                                             *)

ToolFiles(dir) == {f \in ToolNames : dir[f].form = "tool"}
Holders(dir, n) == {f \in ToolFiles(dir) : dir[f].name = n}

\* A strict load refuses what a permissive one skips: files that are broken or without a
\* name, and a name the second time it comes.  A slip: it lets a name come twice.
LoadFailsUnlessTwice(dir) == \E f \in ToolNames : dir[f].form \in {"broken", "nameless"}
LoadFails(dir) ==
  \/ \E f \in ToolNames : dir[f].form \in {"broken", "nameless"}
  \/ \E f, g \in ToolFiles(dir) : f # g /\ dir[f].name = dir[g].name

Catalog(dir) ==
  [n \in {dir[f].name : f \in ToolFiles(dir)} |-> dir[Min(Holders(dir, n))]]

\* catalog_hash: that of the contents.  A slip: of the names.
HashOfNames(cat) == [n \in DOMAIN cat |-> Absent]
HashOf(cat) == cat

-----------------------------------------------------------------------------
(* Ranking                                                                 *)

\* The names a word stands for, and the words that are searched: those of the names in
\* place of an alias.
RewriteMap(cat) ==
  [w \in Words |-> SetToSortSeq({n \in DOMAIN cat : w \in cat[n].aliases}, LAMBDA a, b : a < b)]
Rewrite(words, map) ==
  FoldLeft(LAMBDA out, w : out \o (IF map[w] = << >> THEN <<w>>
                                   ELSE FoldLeft(LAMBDA o, n : o \o NameWords[n], << >>, map[w])),
           << >>, words)

\* The index keeps of each manifest what is weighed, and how many have a word.
Index(cat) ==
  [docs |-> [n \in DOMAIN cat |-> [words |-> cat[n].words, hot |-> cat[n].hot, args |-> cat[n].args]],
   df |-> [w \in Words |-> Cardinality({n \in DOMAIN cat : cat[n].words[w] > 0})]]

\* Hot tools, those with fewer arguments and the smaller name come first.
Ties(a, da, b, db) ==
  \/ da.hot /\ ~db.hot
  \/ da.hot = db.hot /\ da.args < db.args
  \/ da.hot = db.hot /\ da.args = db.args /\ a < b

\* _rank_bm25_hits: by weight, and among equal weights by what ties are broken with.
ByWeight(index, words) ==
  {p \in (DOMAIN index.docs) \X (DOMAIN index.docs) :
     LET a == Weight(index, words, p[1])  b == Weight(index, words, p[2])
     IN  a > b \/ (a = b /\ Ties(p[1], index.docs[p[1]], p[2], index.docs[p[2]]))}
Scored(index, words) == Ranked(DOMAIN index.docs, ByWeight(index, words))

Found(cat, q) ==
  LET hits == {n \in DOMAIN cat : \E w \in q.finds : cat[n].words[w] > 0}
  IN  Ranked(hits, {p \in hits \X hits : Ties(p[1], cat[p[1]], p[2], cat[p[2]])})

Up(names, chosen) ==
  Picked(names, {i \in DOMAIN names : names[i] \in chosen})
    \o Picked(names, {i \in DOMAIN names : names[i] \notin chosen})
First(names, k) == SubSeq(names, 1, IF Len(names) < k THEN Len(names) ELSE k)

\* The namespace is that of the text as it was typed, the name that of its normal form.
\* A slip: what is to be boosted must be among the best already.
BoostedOfBest(names, q, k) ==
  Up(Up(First(names, k), {n \in ToolNames : q.dotted /\ Space[n] = q.ns}), {q.exact})
Boosted(names, q, k) ==
  First(Up(Up(First(names, Cut), {n \in ToolNames : q.dotted /\ Space[n] = q.ns}), {q.exact}), k)

\* SEARCH_BACKEND and the mode of the caller come first; else the text decides.
ModeOf(q, mode) ==
  IF mode # "auto" THEN mode ELSE IF q.pattern = "plain" THEN "bm25" ELSE "regex"
Least(k) == IF k < KCap THEN k ELSE KCap

Refusal(cat, q, mode) ==
  CASE DOMAIN cat = {} -> "missing_tool_definition"
    [] \A n \in DOMAIN cat : ~cat[n].hot -> "all_deferred"
    [] mode \notin {"bm25", "regex"} -> "invalid_mode"
    [] mode = "regex" /\ q.pattern = "bad" -> "invalid_pattern"
    [] OTHER -> "none"

\* The score of a tool in whatever directory is a number.
ASSUME WeightAssumption ==
  \A dir \in [ToolNames -> Manifests \cup {Absent}], q \in Queries :
    LET cat == Catalog(dir)
    IN  \A n \in DOMAIN cat : Weight(Index(cat), Rewrite(q.words, RewriteMap(cat)), n) \in Int

\* What a search finds with a rewrite map and an index.
Find(cat, map, index, q, mode, k) ==
  Boosted(IF mode = "bm25" THEN Scored(index, Rewrite(q.words, map)) ELSE Found(cat, q), q, k)

\* The answer without any cache.
Answer(cat, q, mode, k) == Find(cat, RewriteMap(cat), Index(cat), q, mode, k)

-----------------------------------------------------------------------------
(* A request                                                               *)

NoRequest == [at |-> "idle", kind |-> "", q |-> CHOOSE q \in Queries : TRUE, mode |-> "auto", k |-> 0,
              strict |-> TRUE, alike |-> FALSE, cat |-> << >>, names |-> << >>, shown |-> << >>,
              changed |-> FALSE, error |-> "none"]

\* The mode is made out and k is capped first; the compiler loads strictly.
Asks ==
  /\ req.at \in {"idle", "done"} /\ requests < MaxRequests
  /\ requests' = requests + 1
  /\ \E c \in Calls :
       req' = [NoRequest EXCEPT !.at = "load", !.kind = c.kind, !.q = c.q, !.mode = ModeOf(c.q, c.mode),
                 !.k = Least(c.k), !.strict = c.strict, !.alike = c.alike]
  /\ UNCHANGED <<disk, rewrites, indexes, searches, asked, edits>>

Fails(error) == req' = [req EXCEPT !.at = "done", !.error = error]

Loads ==
  /\ req.at = "load"
  /\ IF req.strict /\ LoadFails(disk)
       THEN Fails("load")
       ELSE req' = [req EXCEPT !.at = "search", !.cat = Catalog(disk)]
  /\ UNCHANGED <<disk, rewrites, indexes, searches, asked, edits, requests>>

Known(cache, h, built) == IF h \in DOMAIN cache THEN cache[h] ELSE built
With(cache, h, value) == [x \in DOMAIN cache \cup {h} |-> IF x = h THEN value ELSE cache[x]]

MapNow == Known(rewrites, HashOf(req.cat), RewriteMap(req.cat))
IndexNow == Known(indexes, HashOf(req.cat), Index(req.cat))
Key == [norm |-> req.q.norm, hash |-> HashOf(req.cat), mode |-> req.mode, k |-> req.k]

\* The words of q and of an earlier query have enough in common.
Similar(p, q) ==
  LET a == ToSet(p.words)  b == ToSet(q.words)
  IN IF a \cup b = {} THEN Alike[1] <= Alike[2]
     ELSE Cardinality(a \cap b) * Alike[2] >= Alike[1] * Cardinality(a \cup b)

Asked(norm) == CHOOSE p \in Queries : p.norm = norm
Reusable ==
  {i \in DOMAIN searches :
     \/ searches[i].key = Key
     \/ /\ req.alike
        /\ [searches[i].key EXCEPT !.norm = Key.norm] = Key
        /\ Similar(Asked(searches[i].key.norm), req.q)}

\* search_with_cache: what the key leads to, or else the first similar query.
Reuses ==
  /\ req.at = "search" /\ req.kind = "cached" /\ Reusable # {}
  /\ LET same == {i \in Reusable : searches[i].key = Key}
         those == IF same # {} THEN same ELSE Reusable
     IN \E i \in those :
          /\ \A j \in those : i <= j
          /\ req' = [req EXCEPT !.at = "done", !.names = searches[i].names]
  /\ UNCHANGED <<disk, rewrites, indexes, searches, asked, edits, requests>>

\* search_tools: the rewrite map is made before the mode is looked at, the index only for
\* the mode that needs it.
SearchesTools ==
  /\ req.at = "search" /\ (req.kind = "cached" => Reusable = {})
  /\ LET refusal == Refusal(req.cat, req.q, req.mode)
         names == Find(req.cat, MapNow, IndexNow, req.q, req.mode, req.k)
     IN /\ rewrites' = IF refusal \in {"missing_tool_definition", "all_deferred"} THEN rewrites
                       ELSE With(rewrites, HashOf(req.cat), MapNow)
        /\ indexes' = IF refusal = "none" /\ req.mode = "bm25"
                        THEN With(indexes, HashOf(req.cat), IndexNow) ELSE indexes
        /\ IF refusal # "none"
             THEN Fails(refusal) /\ UNCHANGED <<searches, asked>>
             ELSE /\ searches' = IF req.kind = "cached"
                                   THEN Append(searches, [key |-> Key, names |-> names]) ELSE searches
                  /\ asked' = asked \cup {[cat |-> req.cat, q |-> req.q, mode |-> req.mode, k |-> req.k]}
                  /\ req' = [req EXCEPT !.names = names,
                               !.at = IF req.kind = "assemble" THEN "hydrate" ELSE "done"]
  /\ UNCHANGED <<disk, edits, requests>>

\* load_selected: the file of the next name, which must be there and be that name's.
Hydrates ==
  /\ req.at = "hydrate" /\ Len(req.shown) < Len(req.names)
  /\ LET n == req.names[Len(req.shown) + 1]
     IN IF n \in Holders(disk, n)
          THEN req' = [req EXCEPT !.shown = Append(@, disk[n])]
          ELSE Fails("hydrate")
  /\ UNCHANGED <<disk, rewrites, indexes, searches, asked, edits, requests>>

\* All of them are shown, or one is ambiguous without examples or denies code.
Renders ==
  /\ req.at = "hydrate" /\ Len(req.shown) = Len(req.names)
  /\ IF \A m \in ToSet(req.shown) : m.clear /\ m.caller = "code"
       THEN req' = [req EXCEPT !.at = "done"]
       ELSE Fails("denied")
  /\ UNCHANGED <<disk, rewrites, indexes, searches, asked, edits, requests>>

Clears ==
  /\ req.at \in {"idle", "done"}
  /\ rewrites' = << >> /\ indexes' = << >> /\ searches' = << >> /\ asked' = {}
  /\ req' = NoRequest
  /\ UNCHANGED <<disk, edits, requests>>

\* Somebody writes or removes a manifest.
Edits ==
  /\ edits < MaxEdits /\ edits' = edits + 1
  /\ \E f \in ToolNames, m \in Manifests \cup {Absent} : disk' = [disk EXCEPT ![f] = m]
  /\ req' = [req EXCEPT !.changed = TRUE]
  /\ UNCHANGED <<rewrites, indexes, searches, asked, requests>>

SearchInit ==
  /\ disk \in Start
  /\ rewrites = << >> /\ indexes = << >> /\ searches = << >>
  /\ req = NoRequest /\ asked = {} /\ edits = 0 /\ requests = 0

SearchNext == Asks \/ Loads \/ Reuses \/ SearchesTools \/ Hydrates \/ Renders \/ Clears \/ Edits

SearchSpec == SearchInit /\ [][SearchNext]_searchVars

-----------------------------------------------------------------------------
(* Properties                                                              *)

Succeeded == req.at = "done" /\ req.error = "none" /\ req.kind # ""

\* Equal query and catalog give equal names, whatever the caches hold and however often
\* the manifests changed meanwhile; through the search cache they are the names of a query
\* once asked of the very same catalog that has the same normal form, or similar words if
\* the caller allows it (search_tools, search_with_cache; handoff 003, C4).
Deterministic ==
  Succeeded =>
    \E a \in asked :
      /\ a.cat = req.cat /\ a.mode = req.mode /\ a.k = req.k
      /\ req.names = Answer(req.cat, a.q, req.mode, req.k)
      /\ req.kind # "cached" => a.q = req.q
      /\ a.q.norm = req.q.norm \/ (req.alike /\ Similar(a.q, req.q))

\* What is shown to the model is what was ranked: the files of the names, in their order,
\* and, unless somebody edits the directory meanwhile, the same manifests, although the
\* catalog takes a manifest by the name in it and load_selected by that of its file
\* (load_catalog, load_selected, assemble_tools_topk).
ShownIsRanked ==
  Succeeded /\ req.kind = "assemble" =>
    /\ Len(req.shown) = Len(req.names)
    /\ \A i \in DOMAIN req.shown :
         /\ req.shown[i].name = req.names[i]
         /\ ~req.changed => req.shown[i] = req.cat[req.names[i]]

\* A tool asked for by its name comes first, also when its words are aliases of others, in
\* catalogs that are not cut (rewrite_query, _apply_exact_name_boost).  This is what the
\* code does; docs/adr/003-tool-search-discovery.md:45 ranks the score before the name.
ExactFirst ==
  Succeeded /\ req.kind # "cached" /\ req.mode = "bm25" /\ req.q.exact \in DOMAIN req.cat
      /\ Cardinality(DOMAIN req.cat) <= Cut
    => req.names # << >> /\ Head(req.names) = req.q.exact
=============================================================================
