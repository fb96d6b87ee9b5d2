---------------------------- MODULE MCWebPipeline ----------------------------
(* An instance of WebPipeline for TLC. *)
EXTENDS WebPipeline

CONSTANTS s1, s2

\* One page changes and becomes empty, of another nothing can be cited, the third says what
\* the first did.
MCPage == "a" :> <<"news", "void">> @@ "b" :> <<"thin">> @@ "c" :> <<"news">>
MCDomain == "a" :> "x" @@ "b" :> "y" @@ "c" :> "x"
MCExtract == "news" :> "text" @@ "void" :> "empty" @@ "thin" :> "thin"

\* A shard asks for more pages than it may fetch at a time, and for one of them again; the
\* other meets it there once.
MCQueries == s1 :> << <<"a", "b", "a", "c">>, <<"a">> >> @@ s2 :> << <<"a">> >>

-----------------------------------------------------------------------------
(* What a document says and the code does not do: each has a .cfg, with     *)
(* which TLC finds the counterexample.                                      *)

\* A query with nothing to cite has an answer: "`No search results` is a valid
\* `final.output`, not a crash" (docs/handoff/005-web-substrate-handoff.md:90).
NothingIsAnAnswer == \A s \in Shards : shard[s].at # "raised"
=============================================================================
