------------------------------ MODULE Governor ------------------------------
(***************************************************************************)
(* The context governor (pirml/rlm/governor.py): which items go into a     *)
(* prompt.  An item has the cost of its text in tokens, the number of its  *)
(* tokens that are tokens of the goal, and may be critical; an item of the *)
(* history has its event.  Ids are numbers in place of strings and have    *)
(* their order.                                                            *)
(***************************************************************************)
EXTENDS Order, SequencesExt, FiniteSetsExt

CONSTANT Boost     \* what a critical item is given on top: 1000000

ASSUME BoostAssumption == Boost \in Nat

Item(id, cost, rel, critical, ev) ==
  [id |-> id, cost |-> cost, rel |-> rel, critical |-> critical, ev |-> ev]

\* sum of est_tokens; a relevance with the baseline of critical items.
CostOf(items) ==
  LET sum[n \in 0..Len(items)] == IF n = 0 THEN 0 ELSE sum[n - 1] + items[n].cost
  IN  sum[Len(items)]
Relevance(it) == it.rel + (IF it.critical THEN Boost ELSE 0)

\* sort_key: by relevance per cost, the cheaper and then the smaller id first.
Per(it) == IF it.cost = 0 THEN 1 ELSE it.cost

\* A slip: the baseline of critical items is forgotten in the order.
PrecedesByRelevance(a, b) ==
  LET left == a.rel * Per(b)  right == b.rel * Per(a)
  IN \/ left > right
     \/ left = right /\ a.cost < b.cost
     \/ left = right /\ a.cost = b.cost /\ a.id < b.id

Precedes(a, b) ==
  LET left == Relevance(a) * Per(b)  right == Relevance(b) * Per(a)
  IN \/ left > right
     \/ left = right /\ a.cost < b.cost
     \/ left = right /\ a.cost = b.cost /\ a.id < b.id

\* pack_ctx: what still fits, in that order.  (The branch for a critical item
\* that fits alone is never taken: nothing precedes it then, and it fits.)
PackCtx(items, cap) ==
  LET sorted == Ranked(ToSet(items), {p \in ToSet(items) \X ToSet(items) : Precedes(p[1], p[2])})
      take(packed, it) == IF CostOf(packed) + it.cost <= cap THEN Append(packed, it) ELSE packed
      packed[n \in 0..Len(sorted)] == IF n = 0 THEN << >> ELSE take(packed[n - 1], sorted[n])
  IN  {it.id : it \in ToSet(packed[Len(sorted)])}

\* apply_cohesion_rule: the call in front of a result that is kept is kept; over
\* the cap, items are dropped from the end, critical ones last.
WithCalls(packed, items) ==
  packed \cup {items[i - 1].id : i \in {j \in DOMAIN items \ {1} :
                 items[j].id \in packed /\ items[j].ev = "result" /\ items[j - 1].ev = "call"}}

DropIndex(items) ==
  LET spare == {i \in DOMAIN items : ~items[i].critical}
  IN IF spare = {} THEN Len(items) ELSE Max(spare)

ApplyCohesion(packed, items, cap) ==
  LET expanded == WithCalls(packed, items)
      candidates == Picked(items, {i \in DOMAIN items : items[i].id \in expanded})
      drop(kept) == IF CostOf(kept) > cap THEN RemoveAt(kept, DropIndex(kept)) ELSE kept
      kept[n \in 0..Len(candidates)] == IF n = 0 THEN candidates ELSE drop(kept[n - 1])
  IN  kept[Len(candidates)]

\* build_rlm_prompt: the items that go into the prompt, and the prompt's tokens.  The line
\* of the goal stands in front of the items whatever they are, and is not weighed.
PackedUnder(items, cap) == ApplyCohesion(PackCtx(items, cap), items, cap)
PromptCost(goalCost, items, cap) == goalCost + CostOf(PackedUnder(items, cap))

=============================================================================
