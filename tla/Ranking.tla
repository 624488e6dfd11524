------------------------------- MODULE Ranking -------------------------------
(***************************************************************************)
(* runbook/ranking.py: the pure ranking with which the offline retrieval   *)
(* evaluation measures what the vector search of the running system is to  *)
(* be trusted with.  An entry is the number in its id, so that the corpus  *)
(* is in the order of its entries; scores are integers.                    *)
(***************************************************************************)
EXTENDS Integers, Sequences, FiniteSetsExt

AnyCategory == "any category"

\* Best first; the sort is stable, so that equal scores keep the corpus order.
Ahead(score, x, y) == score[x] > score[y] \/ (score[x] = score[y] /\ x < y)

\* Where the sort puts x: behind the candidates that are ahead of it.
Place(kept, score, x) == Cardinality({y \in kept : Ahead(score, y, x)}) + 1

rank_candidates(pool, score, category, only) ==
    LET kept == {x \in pool : only = AnyCategory \/ category[x] = only}
    IN  [i \in 1..Cardinality(kept) |-> CHOOSE x \in kept : Place(kept, score, x) = i]

Rivals_Next(ranked, action) == 2..Len(ranked)  \* mutant: the runner-up, whatever it recommends

\* Positions of the entries that recommend something else than the best one.
Rivals(ranked, action) == {i \in 2..Len(ranked) : action[ranked[i]] # action[ranked[1]]}

\* Whether the best candidate counts as a match.
decide(ranked, score, action, threshold, min_action_margin) ==
    /\ ranked # <<>>
    /\ score[ranked[1]] >= threshold
    /\ Rivals(ranked, action) # {} =>
          score[ranked[1]] - score[ranked[Min(Rivals(ranked, action))]] >= min_action_margin
=============================================================================
