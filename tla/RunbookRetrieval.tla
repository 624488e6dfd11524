-------------------------- MODULE RunbookRetrieval --------------------------
(***************************************************************************)
(* retrieve_runbook_entry for one diagnosis, the table it searches, the    *)
(* seed script that fills the table and the releases of the code that both *)
(* carry a copy of the corpus.  A row stands for the text whose embedding  *)
(* it stores and the action it recommends; both are as old as the seeding  *)
(* that wrote them.                                                        *)
(*                                                                         *)
(* The worker and the script each have the corpus of the release they were *)
(* started from.  The script upserts in one transaction and deletes        *)
(* nothing.  The judge (external) is an LLM call: its schema asks for a    *)
(* candidate or NONE, and nobody checks that it complied.                  *)
(***************************************************************************)
EXTENDS Ranking, FiniteSets, TLC

CONSTANTS
    Entries,           \* entries of any release, numbers
    Situations,        \* texts that are embedded
    Releases,          \* a sequence: situation and recommended_action per entry of CORPUS
    Category,          \* of each entry
    Scores,            \* similarities and thresholds considered
    Similarities,      \* of a diagnosis to the texts: functions to Scores
    MAXIMUM_ATTEMPTS,  \* DEFAULT_RETRY_POLICY
    MaxSeedings        \* bound: runs of the seed script

ASSUME RetrievalAssumption ==
    /\ Entries \subseteq Nat \ {0} /\ IsFiniteSet(Entries)
    /\ Scores \subseteq Int
    /\ Len(Releases) \in Nat \ {0} /\ DOMAIN Releases = 1..Len(Releases)
    /\ \A v \in DOMAIN Releases :
          /\ DOMAIN Releases[v] \subseteq Entries
          /\ \A e \in DOMAIN Releases[v] :
                Releases[v][e] \in [situation : Situations, action : STRING]
    /\ Similarities \subseteq [Situations -> Scores]
    /\ MAXIMUM_ATTEMPTS \in Nat \ {0} /\ MaxSeedings \in Nat

CANDIDATE_COUNT == 3

NONE == 0  \* no entry

VARIABLES
    score,       \* of each text, against the diagnosis
    head,        \* newest release
    worker,      \* release the worker runs
    table,       \* committed rows, per entry
    seeding,     \* release of the running script, or 0
    upserted,    \* entries the open transaction has written
    seedings,
    at,          \* where the activity is
    tries,       \* failed attempts
    candidates,  \* entries the judge is shown
    result,      \* RunbookEntry
    seeded,      \* history: release of the last seeding, or 0
    early,       \* history: a release was seeded before the worker ran it
    raised       \* history: ids whose lookup raised KeyError

code     == <<head, worker>>
seed     == <<table, seeding, upserted, seedings, seeded, early>>
activity == <<at, tries, candidates, result, raised>>
vars     == <<score, code, seed, activity>>

Corpus(v) == DOMAIN Releases[v]

NoResult == [entry |-> NONE, action |-> "none"]

ActionNames == UNION {{Releases[v][e].action : e \in Corpus(v)} : v \in DOMAIN Releases}

Rows == [situation : Situations, action : ActionNames]

\* Releases, rows and results are what the code can make them.
TypeOK ==
    /\ score \in [Situations -> Scores]
    /\ head \in DOMAIN Releases /\ worker \in 1..head
    /\ DOMAIN table \subseteq Entries /\ \A e \in DOMAIN table : table[e] \in Rows
    /\ seeding \in 0..head /\ seeded \in 0..head /\ upserted \subseteq Entries
    /\ seedings \in 0..MaxSeedings
    /\ at \in {"query", "judge", "done", "failed"}
    /\ tries \in 0..MAXIMUM_ATTEMPTS
    /\ candidates \subseteq DOMAIN table /\ Cardinality(candidates) <= CANDIDATE_COUNT
    /\ result \in [entry : Entries \cup {NONE}, action : ActionNames \cup {"none"}]
    /\ early \in BOOLEAN /\ raised \subseteq Entries

Init ==
    /\ score \in Similarities
    /\ head = 1 /\ worker = 1
    /\ table = <<>> /\ seeding = 0 /\ upserted = {} /\ seedings = 0 /\ seeded = 0
    /\ at = "query" /\ tries = 0 /\ candidates = {} /\ result = NoResult
    /\ early = FALSE /\ raised = {}

-----------------------------------------------------------------------------
Upserted_KeepsEmbedding(rows, new, v) ==  \* mutant: ON CONFLICT leaves the embedding
    [e \in DOMAIN rows \cup new |->
        IF e \notin new THEN rows[e]
        ELSE IF e \in DOMAIN rows THEN [rows[e] EXCEPT !.action = Releases[v][e].action]
        ELSE Releases[v][e]]

\* The rows after the transaction's upserts: every column is written.
Upserted(rows, new, v) ==
    [e \in DOMAIN rows \cup new |-> IF e \in new THEN Releases[v][e] ELSE rows[e]]

\* The script is started from the newest release.
StartSeed ==
    /\ seeding = 0 /\ seedings < MaxSeedings
    /\ seeding' = head /\ upserted' = {} /\ seedings' = seedings + 1
    /\ UNCHANGED <<score, code, table, seeded, early, activity>>

\* The entry whose turn it is, if any is left; the script goes through CORPUS in order.
Unwritten ==
    LET left == Corpus(seeding) \ upserted IN {e \in left : \A f \in left : e <= f}

Upsert_Autocommit ==  \* mutant: the connection commits every statement
    /\ seeding # 0
    /\ \E e \in Unwritten :
          /\ upserted' = upserted \cup {e}
          /\ table' = Upserted(table, {e}, seeding)
    /\ early' = (early \/ seeding > worker)
    /\ UNCHANGED <<score, code, seeding, seedings, seeded, activity>>

\* INSERT ... ON CONFLICT DO UPDATE, seen by nobody yet.
Upsert ==
    /\ seeding # 0
    /\ \E e \in Unwritten : upserted' = upserted \cup {e}
    /\ UNCHANGED <<score, code, table, seeding, seedings, seeded, early, activity>>

CommitSeed ==
    /\ seeding # 0 /\ upserted = Corpus(seeding)
    /\ table' = Upserted(table, upserted, seeding)
    /\ early' = (early \/ seeding > worker)
    /\ seeding' = 0 /\ upserted' = {} /\ seeded' = seeding
    /\ UNCHANGED <<score, code, seedings, activity>>

\* The script dies: its transaction is rolled back.
SeedFails ==
    /\ seeding # 0
    /\ seeding' = 0 /\ upserted' = {}
    /\ UNCHANGED <<score, code, table, seedings, seeded, early, activity>>

Release ==
    /\ head + 1 \in DOMAIN Releases
    /\ head' = head + 1
    /\ UNCHANGED <<score, worker, seed, activity>>

AttemptOver_Late ==  \* mutant: one attempt more than the policy allows
    /\ tries' = tries + 1
    /\ at' = IF tries' > MAXIMUM_ATTEMPTS THEN "failed" ELSE "query"
    /\ candidates' = {}
    /\ UNCHANGED result

AttemptOver_Forever ==  \* mutant: retried without a limit
    /\ at' = "query" /\ candidates' = {}
    /\ UNCHANGED <<tries, result>>

\* An attempt raised or was lost.
AttemptOver ==
    /\ tries' = tries + 1
    /\ at' = IF tries' = MAXIMUM_ATTEMPTS THEN "failed" ELSE "query"
    /\ candidates' = {}
    /\ UNCHANGED result

\* The worker is restarted with the newest release; the attempt it was running
\* is lost.
Deploy ==
    /\ worker < head
    /\ worker' = head
    /\ IF at = "judge" THEN AttemptOver ELSE UNCHANGED <<at, tries, candidates, result>>
    /\ UNCHANGED <<score, head, seed, raised>>

\* The database or the model cannot be reached, or the answer has no tool call.
AttemptFails ==
    /\ at \in {"query", "judge"}
    /\ AttemptOver
    /\ UNCHANGED <<score, code, seed, raised>>

\* How similar the text behind each of these rows is to the diagnosis.
Scored(rows) == [e \in DOMAIN rows |-> score[rows[e].situation]]

\* ORDER BY embedding <=> query LIMIT CANDIDATE_COUNT, ties in any order.
Nearest(rows) ==
    {near \in SUBSET DOMAIN rows :
        /\ Cardinality(near) = CANDIDATE_COUNT
              \/ (near = DOMAIN rows /\ Cardinality(near) <= CANDIDATE_COUNT)
        /\ \A e \in near, f \in DOMAIN rows \ near : Scored(rows)[e] >= Scored(rows)[f]}

Answer(r) == at' = "done" /\ result' = r /\ candidates' = {} /\ UNCHANGED tries

Unknown_Unseeded(near) ==  \* mutant: the corpus is looked up among the rows
    Corpus(worker) \ near

\* Ids that CORPUS_BY_ID of the running release does not have.
Unknown(near) == near \ Corpus(worker)

\* Stage 1 and the lookup of its candidates.
FindCandidates ==
    /\ at = "query"
    /\ \/ /\ table = <<>>
          /\ Answer(NoResult) /\ UNCHANGED raised
       \/ \E near \in Nearest(table) :
             /\ table # <<>>
             /\ IF Unknown(near) # {}
                THEN AttemptOver /\ raised' = raised \cup Unknown(near)
                ELSE /\ at' = "judge" /\ candidates' = near
                     /\ UNCHANGED <<tries, result, raised>>
    /\ UNCHANGED <<score, code, seed>>

to_runbook_entry(id) == [entry |-> id, action |-> Releases[worker][id].action]

\* Stage 2: the judge names a candidate or NONE as it is asked to, or something
\* else, which passes if the corpus has it and raises if not.
Judge ==
    /\ at = "judge"
    /\ \/ Answer(NoResult)
       \/ \E id \in Corpus(worker) : Answer(to_runbook_entry(id))
       \/ AttemptOver
    /\ UNCHANGED <<score, code, seed, raised>>

Next ==
    \/ StartSeed \/ Upsert \/ CommitSeed \/ SeedFails
    \/ Release \/ Deploy
    \/ FindCandidates \/ Judge \/ AttemptFails

Spec == Init /\ [][Next]_vars

\* An attempt that has been scheduled is run and its calls are answered or time
\* out; nothing is assumed of whoever releases, deploys and seeds.
FairSpec == Spec /\ WF_vars(FindCandidates \/ Judge)

-----------------------------------------------------------------------------
\* No diagnosis is ever held against half a corpus: the rows a query can see
\* are those of whole releases, or none at all.
WholeCorporaOnly ==
    \A e \in DOMAIN table : \E v \in 1..head :
        e \in Corpus(v) /\ Corpus(v) \subseteq DOMAIN table

OnlyAdds == \A v, w \in 1..head : v <= w => Corpus(v) \subseteq Corpus(w)

NoTies(rows) == \A e, f \in DOMAIN rows : Scored(rows)[e] = Scored(rows)[f] => e = f

\* What the evaluation finds of a corpus holds of the running system
\* (runbook_retrieval.py:22-24: recall@3 was measured, so 3 candidates are
\* enough): with entries only ever added, and the table last seeded from the
\* release the worker runs, the judge is shown the entries that
\* eval_runbook_retrieval.py ranks first to third in that release's CORPUS,
\* whichever texts and rows earlier releases had left in the table.
EvaluationCarriesOver ==
    [][(at = "query" /\ at' = "judge" /\ seeded = worker /\ OnlyAdds
          /\ NoTies(Releases[worker])) =>
          LET ranked == rank_candidates(Corpus(worker), Scored(Releases[worker]),
                                        Category, AnyCategory)
          IN  candidates' = {ranked[i] : i \in DOMAIN ranked \cap (1..CANDIDATE_COUNT)}]_vars

\* As long as entries are only added, and seeded once the worker runs the
\* release that adds them, no attempt fails on a row it does not know.
LookupsSucceed == (~early /\ OnlyAdds) => raised = {}

\* Why the three hold: what the transaction wrote is of its release, the rows
\* of the release seeded last are as it has them and, if entries are only added,
\* all there are; and a worker that is never behind knows them.
RetrievalInv ==
    /\ WholeCorporaOnly
    /\ seeding # 0 => upserted \subseteq Corpus(seeding) /\ seeded <= seeding
    /\ seeded = 0 => DOMAIN table = {}
    /\ seeded # 0 => \A e \in Corpus(seeded) : e \in DOMAIN table /\ table[e] = Releases[seeded][e]
    /\ (seeded # 0 /\ OnlyAdds) => DOMAIN table \subseteq Corpus(seeded)
    /\ (~early /\ OnlyAdds) => DOMAIN table \subseteq Corpus(worker) /\ raised = {}
    /\ at \in {"query", "judge"} => tries < MAXIMUM_ATTEMPTS

\* A retrieval ends, however often the table and the code change under it.
RetrievalEnds == (at = "query") ~> (at \in {"done", "failed"})

\* ranking.py:54-56 and :33-36: a match clears the threshold and beats every
\* entry of another action by the margin; entries of the same action are no
\* rivals, however close, and it does not matter which of two ties comes first.
DecideMeansClearWinner ==
    \A only \in {AnyCategory} \cup {Category[e] : e \in Entries} :
       LET pool   == {e \in Corpus(worker) : only = AnyCategory \/ Category[e] = only}
           scores == Scored(Releases[worker])
           action == [e \in Corpus(worker) |-> Releases[worker][e].action]
           ranked == rank_candidates(Corpus(worker), scores, Category, only)
       IN  \A threshold \in Scores, margin \in {m \in Scores : m >= 0} :
              decide(ranked, scores, action, threshold, margin)
              <=> \E e \in pool :
                     /\ scores[e] >= threshold
                     /\ \A f \in pool : scores[f] <= scores[e]
                     /\ \A f \in pool : action[f] # action[e] => scores[e] - scores[f] >= margin
=============================================================================
