----------------------- MODULE RunbookRetrievalProofs -----------------------
(***************************************************************************)
(* Retrieval, for every corpus, any number of releases and seedings and    *)
(* every retry limit: a query sees whole corpora, a corpus that only grows *)
(* and is seeded after the restart is always known, and one seeded last    *)
(* from the running release is searched as the evaluation ranks it.  The   *)
(* inductive invariant is TypeOK /\ RetrievalInv.                          *)
(***************************************************************************)
EXTENDS RunbookRetrieval, FiniteSetTheorems, TLAPS

\* Releases are numbered from 1, and have a text and an action per entry.
LEMMA ReleaseTypes ==
  /\ \A v \in 1..Len(Releases) :
        /\ Corpus(v) \subseteq Entries
        /\ \A e \in Corpus(v) :
              /\ Releases[v][e] \in Rows
              /\ Releases[v][e].situation \in Situations
              /\ Releases[v][e].action \in ActionNames
  /\ NONE \notin Entries
<1>1. NONE \notin Entries
  BY RetrievalAssumption DEF NONE
<1>2. ASSUME NEW v \in 1..Len(Releases), NEW e \in Corpus(v)
      PROVE  /\ Releases[v][e] \in Rows
             /\ Releases[v][e].situation \in Situations
             /\ Releases[v][e].action \in ActionNames
  <2>1. Releases[v][e] \in [situation : Situations, action : STRING]
    BY RetrievalAssumption DEF Corpus
  <2>2. Releases[v][e].action \in ActionNames
    BY RetrievalAssumption DEF ActionNames
  <2>3. QED
    BY <2>1, <2>2 DEF Rows
<1>3. QED
  BY <1>1, <1>2, RetrievalAssumption DEF Corpus

\* No row, the first release, nothing tried.
LEMMA RetrievalInit == Init => TypeOK /\ RetrievalInv
<1> SUFFICES ASSUME Init PROVE TypeOK /\ RetrievalInv
  OBVIOUS
<1>1. DOMAIN table = {}
  BY DEF Init
<1>2. score \in [Situations -> Scores] /\ 1 \in DOMAIN Releases
  BY RetrievalAssumption DEF Init
<1>3. Cardinality({}) = 0
  BY FS_EmptySet
<1>4. NoResult \in [entry : Entries \cup {NONE}, action : ActionNames \cup {"none"}]
  BY DEF NoResult
<1>5. TypeOK
  <2>1. head \in DOMAIN Releases /\ worker \in 1..head /\ seeding \in 0..head /\ seeded \in 0..head
    BY <1>2 DEF Init
  <2>2. seedings \in 0..MaxSeedings /\ tries \in 0..MAXIMUM_ATTEMPTS
    BY RetrievalAssumption DEF Init
  <2>3. candidates \subseteq DOMAIN table /\ Cardinality(candidates) <= CANDIDATE_COUNT
    BY <1>3 DEF Init, CANDIDATE_COUNT
  <2>4. QED
    BY <1>1, <1>2, <1>4, <2>1, <2>2, <2>3 DEF Init, TypeOK
<1>6. RetrievalInv
  BY <1>1, RetrievalAssumption DEF Init, RetrievalInv, WholeCorporaOnly
<1>7. QED
  BY <1>5, <1>6

\* An attempt that is over is counted, and the last one fails the activity.
LEMMA AttemptOverTypes ==
  ASSUME TypeOK, at \in {"query", "judge"}, tries < MAXIMUM_ATTEMPTS, AttemptOver
  PROVE  /\ at' \in {"query", "failed"} /\ tries' \in 0..MAXIMUM_ATTEMPTS
         /\ at' = "query" => tries' < MAXIMUM_ATTEMPTS
         /\ candidates' = {} /\ result' = result
  BY RetrievalAssumption DEF TypeOK, AttemptOver

\* The entry whose turn it is belongs to the corpus being seeded.
LEMMA UnwrittenIs == Unwritten \subseteq Corpus(seeding) \ upserted
  BY DEF Unwritten

\* What a commit leaves in the table: rows of entries, as some release has them.
LEMMA CommitTypes ==
  ASSUME TypeOK, RetrievalInv, CommitSeed
  PROVE  /\ DOMAIN table' = DOMAIN table \cup Corpus(seeding)
         /\ seeding \in 1..head /\ Corpus(seeding) \subseteq Entries
         /\ \A e \in DOMAIN table' : table'[e] \in Rows
         /\ \A e \in Corpus(seeding) : table'[e] = Releases[seeding][e]
<1>1. seeding \in 1..head /\ seeding \in 1..Len(Releases)
  BY RetrievalAssumption DEF TypeOK, CommitSeed
<1>2. table' = Upserted(table, Corpus(seeding), seeding)
  BY DEF CommitSeed
<1>3. DOMAIN table' = DOMAIN table \cup Corpus(seeding)
  BY <1>2 DEF Upserted
<1>4. ASSUME NEW e \in DOMAIN table' PROVE table'[e] \in Rows
  <2>1. table'[e] = IF e \in Corpus(seeding) THEN Releases[seeding][e] ELSE table[e]
    BY <1>2, <1>3 DEF Upserted
  <2>2. CASE e \in Corpus(seeding)
    BY <1>1, <2>1, <2>2, ReleaseTypes
  <2>3. CASE e \notin Corpus(seeding)
    BY <1>3, <2>1, <2>3 DEF TypeOK
  <2>4. QED
    BY <2>2, <2>3
<1>5. \A e \in Corpus(seeding) : table'[e] = Releases[seeding][e]
  BY <1>2, <1>3 DEF Upserted
<1>6. QED
  BY <1>1, <1>3, <1>4, <1>5, ReleaseTypes

\* The candidates are rows, and no more of them than asked for.
LEMMA NearestTypes ==
  ASSUME NEW rows, NEW near \in Nearest(rows)
  PROVE  near \subseteq DOMAIN rows /\ Cardinality(near) <= CANDIDATE_COUNT
  BY DEF Nearest, CANDIDATE_COUNT

\* Every step of the script, the releases and the activity keeps the types.
LEMMA RetrievalTypeStep == TypeOK /\ RetrievalInv /\ [Next]_vars => TypeOK'
<1> SUFFICES ASSUME TypeOK, RetrievalInv, [Next]_vars PROVE TypeOK'
  OBVIOUS
<1> USE DEF code, seed, activity
<1>0. /\ tries \in 0..MAXIMUM_ATTEMPTS /\ MAXIMUM_ATTEMPTS \in Nat \ {0}
      /\ at \in {"query", "judge"} => tries < MAXIMUM_ATTEMPTS
  BY RetrievalAssumption DEF TypeOK, RetrievalInv
<1>1. CASE StartSeed
  BY <1>1, RetrievalAssumption DEF StartSeed, TypeOK
<1>2. CASE Upsert
  <2>1. seeding \in 1..Len(Releases)
    BY <1>2, RetrievalAssumption DEF Upsert, TypeOK
  <2>2. upserted' \subseteq Entries
    BY <1>2, <2>1, UnwrittenIs, ReleaseTypes DEF Upsert, TypeOK
  <2>3. QED
    BY <1>2, <2>2 DEF Upsert, TypeOK
<1>3. CASE CommitSeed
  <2>1. candidates' \subseteq DOMAIN table' /\ DOMAIN table' \subseteq Entries
    BY <1>3, CommitTypes DEF CommitSeed, TypeOK
  <2>2. seeding' \in 0..head' /\ seeded' \in 0..head' /\ early' \in BOOLEAN
    <3>1. early' = (early \/ seeding > worker) /\ early \in BOOLEAN
      BY <1>3 DEF CommitSeed, TypeOK
    <3>2. early' \in BOOLEAN
      BY <3>1, Zenon
    <3>3. QED
      BY <1>3, <3>2, RetrievalAssumption DEF CommitSeed, TypeOK
  <2>3. QED
    BY <1>3, <2>1, <2>2, CommitTypes DEF CommitSeed, TypeOK
<1>4. CASE SeedFails
  BY <1>4, RetrievalAssumption DEF SeedFails, TypeOK
<1>5. CASE Release
  BY <1>5, RetrievalAssumption DEF Release, TypeOK
<1>6. CASE AttemptFails
  <2>1. at' \in {"query", "failed"} /\ tries' \in 0..MAXIMUM_ATTEMPTS /\ candidates' = {}
    BY <1>0, <1>6, AttemptOverTypes DEF AttemptFails
  <2>2. QED
    BY <1>6, <2>1, FS_EmptySet DEF AttemptFails, AttemptOver, TypeOK, CANDIDATE_COUNT
<1>7. CASE Deploy
  <2>1. /\ at' \in {"query", "judge", "done", "failed"} /\ tries' \in 0..MAXIMUM_ATTEMPTS
        /\ result' = result
    BY <1>0, <1>7, AttemptOverTypes DEF Deploy, TypeOK
  <2>2. candidates' = {} \/ candidates' = candidates
    BY <1>7 DEF Deploy, AttemptOver
  <2>3. worker' \in 1..head' /\ UNCHANGED <<score, head, seed, raised>>
    BY <1>7, RetrievalAssumption DEF Deploy, TypeOK
  <2>4. candidates' \subseteq DOMAIN table' /\ Cardinality(candidates') <= CANDIDATE_COUNT
    <3>1. table' = table
      BY <2>3
    <3>2. CASE candidates' = {}
      BY <3>2, FS_EmptySet DEF CANDIDATE_COUNT
    <3>3. CASE candidates' = candidates
      BY <3>1, <3>3 DEF TypeOK
    <3>4. QED
      BY <2>2, <3>2, <3>3
  <2>5. QED
    BY <2>1, <2>3, <2>4 DEF TypeOK
<1>8. CASE FindCandidates
  <2>1. UNCHANGED <<score, code, seed>>
    BY <1>8 DEF FindCandidates
  <2>2. CASE Answer(NoResult) /\ UNCHANGED raised
    BY <2>1, <2>2, FS_EmptySet DEF Answer, NoResult, TypeOK, CANDIDATE_COUNT
  <2>3. CASE \E near \in Nearest(table) :
                AttemptOver /\ raised' = raised \cup Unknown(near)
    <3>1. raised' \subseteq Entries
      BY <2>3, NearestTypes DEF Unknown, TypeOK
    <3>2. at' \in {"query", "failed"} /\ tries' \in 0..MAXIMUM_ATTEMPTS /\ candidates' = {}
      BY <1>0, <1>8, <2>3, AttemptOverTypes DEF FindCandidates
    <3>3. QED
      BY <2>1, <2>3, <3>1, <3>2, FS_EmptySet DEF AttemptOver, TypeOK, CANDIDATE_COUNT
  <2>4. CASE \E near \in Nearest(table) :
                /\ at' = "judge" /\ candidates' = near
                /\ UNCHANGED <<tries, result, raised>>
    BY <2>1, <2>4, NearestTypes DEF TypeOK
  <2>5. QED
    BY <1>8, <2>2, <2>3, <2>4 DEF FindCandidates
<1>9. CASE Judge
  <2>1. UNCHANGED <<score, code, seed, raised>>
    BY <1>9 DEF Judge
  <2>2. CASE Answer(NoResult)
    BY <2>1, <2>2, FS_EmptySet DEF Answer, NoResult, TypeOK, CANDIDATE_COUNT
  <2>3. ASSUME NEW id \in Corpus(worker), Answer(to_runbook_entry(id)) PROVE TypeOK'
    <3>1. worker \in 1..Len(Releases)
      BY RetrievalAssumption DEF TypeOK
    <3>2. to_runbook_entry(id) \in [entry : Entries \cup {NONE}, action : ActionNames \cup {"none"}]
      BY <3>1, ReleaseTypes DEF to_runbook_entry
    <3>3. QED
      BY <2>1, <2>3, <3>2, FS_EmptySet DEF Answer, TypeOK, CANDIDATE_COUNT
  <2>4. CASE AttemptOver
    <3>1. at' \in {"query", "failed"} /\ tries' \in 0..MAXIMUM_ATTEMPTS /\ candidates' = {}
      BY <1>0, <1>9, <2>4, AttemptOverTypes DEF Judge
    <3>2. QED
      BY <2>1, <2>4, <3>1, FS_EmptySet DEF AttemptOver, TypeOK, CANDIDATE_COUNT
  <2>5. QED
    BY <1>9, <2>2, <2>3, <2>4 DEF Judge
<1>10. CASE UNCHANGED vars
  BY <1>10 DEF vars, TypeOK
<1>11. QED
  BY <1>1, <1>2, <1>3, <1>4, <1>5, <1>6, <1>7, <1>8, <1>9, <1>10 DEF Next

\* The clause of RetrievalInv on the attempts left.
AttemptsLeft == at \in {"query", "judge"} => tries < MAXIMUM_ATTEMPTS

\* Attempts that are counted leave some or fail the activity.
LEMMA AttemptsLeftStep == TypeOK /\ RetrievalInv /\ [Next]_vars => AttemptsLeft'
<1> SUFFICES ASSUME TypeOK, RetrievalInv, [Next]_vars PROVE AttemptsLeft'
  OBVIOUS
<1> USE DEF activity, AttemptsLeft
<1>1. AttemptsLeft
  BY DEF RetrievalInv
<1>2. at \in {"query", "judge"} /\ AttemptOver => AttemptsLeft'
  BY AttemptOverTypes DEF RetrievalInv
<1>3. ASSUME NEW r, Answer(r) PROVE AttemptsLeft'
  BY <1>3 DEF Answer
<1>4. CASE Deploy
  BY <1>1, <1>2, <1>4 DEF Deploy
<1>5. CASE FindCandidates
  BY <1>1, <1>2, <1>3, <1>5 DEF FindCandidates
<1>6. CASE Judge
  BY <1>2, <1>3, <1>6 DEF Judge
<1>7. CASE AttemptFails
  BY <1>2, <1>7 DEF AttemptFails
<1>8. CASE UNCHANGED <<at, tries>>
  BY <1>1, <1>8
<1>9. QED
  BY <1>4, <1>5, <1>6, <1>7, <1>8
     DEF Next, StartSeed, Upsert, CommitSeed, SeedFails, Release, vars

\* A seeding adds whole corpora, and in the right order only what the worker
\* knows; a release or a deploy forgets nothing as long as entries are only added.
LEMMA RetrievalStep == TypeOK /\ RetrievalInv /\ [Next]_vars => RetrievalInv'
<1> SUFFICES ASSUME TypeOK, RetrievalInv, [Next]_vars PROVE RetrievalInv'
  OBVIOUS
<1> USE DEF code, seed, activity
<1>0. AttemptsLeft'
  BY AttemptsLeftStep
<1> DEFINE Whole == WholeCorporaOnly
           Written == seeding # 0 => upserted \subseteq Corpus(seeding) /\ seeded <= seeding
           Empty == seeded = 0 => DOMAIN table = {}
           Newest == seeded # 0 => \A e \in Corpus(seeded) :
                                      e \in DOMAIN table /\ table[e] = Releases[seeded][e]
           NoOthers == (seeded # 0 /\ OnlyAdds) => DOMAIN table \subseteq Corpus(seeded)
           Known == (~early /\ OnlyAdds) => DOMAIN table \subseteq Corpus(worker) /\ raised = {}
<1>1. Whole /\ Written /\ Empty /\ Newest /\ NoOthers /\ Known
  BY DEF RetrievalInv
<1>2. head \in Nat /\ worker \in 1..head /\ seeded \in 0..head
  BY RetrievalAssumption DEF TypeOK
<1>3. SUFFICES Whole' /\ Written' /\ Empty' /\ Newest' /\ NoOthers' /\ Known'
  BY <1>0 DEF RetrievalInv, AttemptsLeft
<1>4. CASE StartSeed \/ SeedFails
  BY <1>1, <1>2, <1>4 DEF StartSeed, SeedFails, WholeCorporaOnly, OnlyAdds
<1>5. CASE Upsert
  BY <1>1, <1>5, UnwrittenIs DEF Upsert, WholeCorporaOnly, OnlyAdds
<1>6. CASE CommitSeed
  <2>1. /\ DOMAIN table' = DOMAIN table \cup Corpus(seeding) /\ seeding \in 1..head
        /\ UNCHANGED <<head, worker, raised>> /\ early' = (early \/ seeding > worker)
        /\ seeding' = 0 /\ seeded' = seeding
        /\ \A e \in Corpus(seeding) : table'[e] = Releases[seeding][e]
    BY <1>6, CommitTypes DEF CommitSeed
  <2>2. Whole'
    BY <1>1, <2>1 DEF WholeCorporaOnly
  <2>3. ASSUME ~early', OnlyAdds' PROVE DOMAIN table' \subseteq Corpus(worker') /\ raised' = {}
    <3>1. ~early /\ OnlyAdds /\ seeding <= worker
      <4>1. ~early /\ ~(seeding > worker)
        BY <2>1, <2>3, Zenon
      <4>2. OnlyAdds
        BY <2>1, <2>3 DEF OnlyAdds
      <4>3. QED
        BY <1>2, <2>1, <4>1, <4>2
    <3>2. Corpus(seeding) \subseteq Corpus(worker)
      BY <1>2, <2>1, <3>1 DEF OnlyAdds
    <3>3. QED
      BY <1>1, <2>1, <3>1, <3>2
  <2>4. Empty' /\ Newest'
    BY <2>1
  <2>5. ASSUME OnlyAdds' PROVE DOMAIN table' \subseteq Corpus(seeding)
    <3>1. OnlyAdds
      BY <2>1, <2>5 DEF OnlyAdds
    <3>2. CASE seeded = 0
      BY <1>1, <2>1, <3>2
    <3>3. CASE seeded # 0
      <4>1. seeded \in 1..head /\ seeded <= seeding
        BY <1>1, <1>2, <1>6, <3>3 DEF CommitSeed
      <4>2. Corpus(seeded) \subseteq Corpus(seeding)
        BY <2>1, <3>1, <4>1 DEF OnlyAdds
      <4>3. QED
        BY <1>1, <2>1, <3>1, <3>3, <4>2
    <3>4. QED
      BY <3>2, <3>3
  <2>6. QED
    BY <2>1, <2>2, <2>3, <2>4, <2>5
<1>7. CASE Release
  <2>1. UNCHANGED <<worker, seed, activity>> /\ head' = head + 1
    BY <1>7 DEF Release
  <2>2. Whole'
    BY <1>1, <1>2, <2>1 DEF WholeCorporaOnly
  <2>3. OnlyAdds' => OnlyAdds
    BY <1>2, <2>1 DEF OnlyAdds
  <2>4. QED
    BY <1>1, <2>1, <2>2, <2>3
<1>8. CASE Deploy
  <2>1. UNCHANGED <<head, seed, raised>> /\ worker' = head /\ worker <= head
    BY <1>2, <1>8 DEF Deploy
  <2>2. OnlyAdds => Corpus(worker) \subseteq Corpus(head)
    BY <1>2, <2>1 DEF OnlyAdds
  <2>3. QED
    BY <1>1, <2>1, <2>2 DEF WholeCorporaOnly, OnlyAdds
<1>9. CASE FindCandidates
  <2>1. UNCHANGED <<code, seed>>
    BY <1>9 DEF FindCandidates
  <2>2. DOMAIN table \subseteq Corpus(worker) => raised' = raised
    BY <1>9, NearestTypes DEF FindCandidates, Unknown
  <2>3. QED
    BY <1>1, <2>1, <2>2 DEF WholeCorporaOnly, OnlyAdds
<1>10. CASE Judge \/ AttemptFails \/ UNCHANGED vars
  <2>1. UNCHANGED <<code, seed, raised>>
    BY <1>10 DEF Judge, AttemptFails, vars
  <2>2. QED
    BY <1>1, <2>1 DEF WholeCorporaOnly, OnlyAdds
<1>11. QED
  BY <1>4, <1>5, <1>6, <1>7, <1>8, <1>9, <1>10 DEF Next

\* Rows, releases and attempts agree in every state of every execution.
LEMMA RetrievalInvHolds == Spec => [](TypeOK /\ RetrievalInv)
  BY RetrievalInit, RetrievalTypeStep, RetrievalStep, PTL DEF Spec

\* Releases, rows and results hold their types in every state.
THEOREM RetrievalTypeCorrect == Spec => []TypeOK
  BY RetrievalInvHolds, PTL

\* A query sees whole corpora or nothing, however seedings fail in between.
THEOREM WholeCorporaOnlyHolds == Spec => []WholeCorporaOnly
<1>1. RetrievalInv => WholeCorporaOnly
  BY DEF RetrievalInv
<1>2. QED
  BY <1>1, RetrievalInvHolds, PTL

\* With a corpus that only grows and is seeded after the restart no lookup fails.
THEOREM LookupsSucceedHolds == Spec => []LookupsSucceed
<1>1. RetrievalInv => LookupsSucceed
  BY DEF RetrievalInv, LookupsSucceed
<1>2. QED
  BY <1>1, RetrievalInvHolds, PTL

-----------------------------------------------------------------------------
\* Candidates that can be ranked: finitely many, with integer scores.
Rankable(S, sc) == S \subseteq Nat /\ IsFiniteSet(S) /\ \A x \in S : sc[x] \in Int

\* The candidates ahead of x.
Before(S, sc, x) == {y \in S : Ahead(sc, y, x)}

\* The order of the sort is strict and total, ties being broken by the corpus.
LEMMA AheadIsAnOrder ==
  ASSUME NEW S, NEW sc, Rankable(S, sc), NEW x \in S, NEW y \in S, NEW z \in S
  PROVE  /\ ~Ahead(sc, x, x)
         /\ Ahead(sc, x, y) /\ Ahead(sc, y, z) => Ahead(sc, x, z)
         /\ x # y => Ahead(sc, x, y) \/ Ahead(sc, y, x)
<1>1. /\ x \in Int /\ y \in Int /\ z \in Int
      /\ sc[x] \in Int /\ sc[y] \in Int /\ sc[z] \in Int
  BY DEF Rankable
<1>2. QED
  BY <1>1 DEF Ahead

\* A place is one of 1..n, and a candidate that is ahead of another has a lower one.
LEMMA PlacesAreOrdered ==
  ASSUME NEW S, NEW sc, Rankable(S, sc), NEW x \in S
  PROVE  /\ Place(S, sc, x) \in 1..Cardinality(S)
         /\ \A y \in S : Ahead(sc, x, y) <=> Place(S, sc, x) < Place(S, sc, y)
         /\ \A y \in S : Place(S, sc, x) = Place(S, sc, y) => x = y
<1>1. ASSUME NEW y \in S
      PROVE  /\ IsFiniteSet(Before(S, sc, y)) /\ Cardinality(Before(S, sc, y)) \in Nat
             /\ Place(S, sc, y) = Cardinality(Before(S, sc, y)) + 1
             /\ Cardinality(Before(S, sc, y)) < Cardinality(S)
  <2>1. Before(S, sc, y) \in SUBSET S /\ y \notin Before(S, sc, y)
    BY AheadIsAnOrder DEF Before
  <2>2. IsFiniteSet(S) /\ Cardinality(S) \in Nat
    BY FS_CardinalityType DEF Rankable
  <2>3. /\ IsFiniteSet(Before(S, sc, y)) /\ Cardinality(Before(S, sc, y)) <= Cardinality(S)
        /\ Cardinality(S) = Cardinality(Before(S, sc, y)) => S = Before(S, sc, y)
    BY <2>1, <2>2, FS_Subset
  <2>4. Cardinality(Before(S, sc, y)) \in Nat
    BY <2>3, FS_CardinalityType
  <2>5. Cardinality(Before(S, sc, y)) < Cardinality(S)
    BY <2>1, <2>2, <2>3, <2>4
  <2>6. QED
    BY <2>3, <2>4, <2>5 DEF Place, Before
<1>2. ASSUME NEW y \in S, NEW z \in S, Ahead(sc, y, z)
      PROVE  Place(S, sc, y) < Place(S, sc, z)
  <2>1. Before(S, sc, y) \in SUBSET Before(S, sc, z)
    BY <1>2, AheadIsAnOrder DEF Before
  <2>2. y \in Before(S, sc, z) /\ y \notin Before(S, sc, y)
    BY <1>2, AheadIsAnOrder DEF Before
  <2>3. IsFiniteSet(Before(S, sc, z))
    BY <1>1
  <2>4. /\ Cardinality(Before(S, sc, y)) <= Cardinality(Before(S, sc, z))
        /\ Cardinality(Before(S, sc, z)) # Cardinality(Before(S, sc, y))
    BY <2>1, <2>2, <2>3, FS_Subset
  <2>5. QED
    BY <1>1, <2>4
<1>3. Cardinality(S) \in Nat
  BY FS_CardinalityType DEF Rankable
<1>4. Place(S, sc, x) \in 1..Cardinality(S)
  BY <1>1, <1>3
<1>5. ASSUME NEW y \in S
      PROVE  /\ Ahead(sc, x, y) <=> Place(S, sc, x) < Place(S, sc, y)
             /\ Place(S, sc, x) = Place(S, sc, y) => x = y
  <2>1. Place(S, sc, x) \in Nat /\ Place(S, sc, y) \in Nat
    BY <1>1
  <2>2. x = y \/ Ahead(sc, x, y) \/ Ahead(sc, y, x)
    BY AheadIsAnOrder
  <2>3. ~Ahead(sc, x, x)
    BY AheadIsAnOrder
  <2>4. CASE x = y
    BY <2>1, <2>3, <2>4
  <2>5. CASE Ahead(sc, x, y)
    BY <1>2, <2>1, <2>5
  <2>6. CASE Ahead(sc, y, x)
    <3>1. ~Ahead(sc, x, y)
      BY <2>3, <2>6, AheadIsAnOrder
    <3>2. QED
      BY <1>2, <2>1, <2>6, <3>1
  <2>7. QED
    BY <2>2, <2>4, <2>5, <2>6
<1>6. QED
  BY <1>4, <1>5

\* Every place is taken: as many places as candidates, and no two share one.
LEMMA PlacesAreTaken ==
  ASSUME NEW S, NEW sc, Rankable(S, sc), NEW i \in 1..Cardinality(S)
  PROVE  \E x \in S : Place(S, sc, x) = i
<1> DEFINE n == Cardinality(S)
           P == [x \in S |-> Place(S, sc, x)]
<1>1. n \in Nat
  BY FS_CardinalityType DEF Rankable
<1>2. IsFiniteSet(1..n) /\ Cardinality(1..n) = n
  BY <1>1, FS_Interval
<1>3. P \in Injection(S, 1..n)
  BY PlacesAreOrdered DEF Injection, IsInjective
<1>4. P \in Surjection(S, 1..n)
  BY <1>2, <1>3, FS_Injection
<1>5. QED
  BY <1>4 DEF Surjection

\* A list with each candidate at its place is sorted and leaves nobody out.
LEMMA RankedIsSorted ==
  ASSUME NEW S, NEW sc, Rankable(S, sc),
         NEW r, r = [i \in 1..Cardinality(S) |-> CHOOSE x \in S : Place(S, sc, x) = i]
  PROVE  /\ Cardinality(S) \in Nat /\ DOMAIN r = 1..Cardinality(S)
         /\ Len(r) = Cardinality(S)
         /\ \A i \in DOMAIN r : r[i] \in S /\ Place(S, sc, r[i]) = i
         /\ \A x \in S : Place(S, sc, x) \in DOMAIN r /\ r[Place(S, sc, x)] = x
         /\ \A i, j \in DOMAIN r : i < j <=> Ahead(sc, r[i], r[j])
<1>1. Cardinality(S) \in Nat
  BY FS_CardinalityType DEF Rankable
<1>2. DOMAIN r = 1..Cardinality(S) /\ Len(r) = Cardinality(S)
  BY <1>1
<1>3. ASSUME NEW i \in DOMAIN r PROVE r[i] \in S /\ Place(S, sc, r[i]) = i
  <2>1. i \in 1..Cardinality(S)
    BY <1>2
  <2>2. \E x \in S : Place(S, sc, x) = i
    BY <2>1, PlacesAreTaken
  <2>3. r[i] = CHOOSE x \in S : Place(S, sc, x) = i
    BY <2>1
  <2>4. QED
    BY <2>2, <2>3
<1>4. ASSUME NEW x \in S PROVE Place(S, sc, x) \in DOMAIN r /\ r[Place(S, sc, x)] = x
  <2>1. Place(S, sc, x) \in DOMAIN r
    BY <1>2, PlacesAreOrdered
  <2>2. r[Place(S, sc, x)] \in S /\ Place(S, sc, r[Place(S, sc, x)]) = Place(S, sc, x)
    BY <1>3, <2>1
  <2>3. QED
    BY <2>1, <2>2, PlacesAreOrdered
<1>5. ASSUME NEW i \in DOMAIN r, NEW j \in DOMAIN r PROVE i < j <=> Ahead(sc, r[i], r[j])
  <2>1. r[i] \in S /\ Place(S, sc, r[i]) = i /\ r[j] \in S /\ Place(S, sc, r[j]) = j
    BY <1>3
  <2>2. Ahead(sc, r[i], r[j]) <=> Place(S, sc, r[i]) < Place(S, sc, r[j])
    BY <2>1, PlacesAreOrdered
  <2>3. QED
    BY <2>1, <2>2
<1>6. QED
  BY <1>1, <1>2, <1>3, <1>4, <1>5

\* The texts of a release can be ranked by their similarity.
LEMMA CorporaAreRankable ==
  ASSUME TypeOK, NEW v \in 1..Len(Releases), NEW S \in SUBSET Corpus(v)
  PROVE  Rankable(S, Scored(Releases[v]))
<1>1. Corpus(v) \subseteq Entries /\ IsFiniteSet(S) /\ S \subseteq Nat
  BY FS_Subset, ReleaseTypes, RetrievalAssumption
<1>2. ASSUME NEW x \in S PROVE Scored(Releases[v])[x] \in Int
  <2>1. Scored(Releases[v])[x] = score[Releases[v][x].situation]
    BY DEF Scored, Corpus
  <2>2. Releases[v][x].situation \in Situations
    BY ReleaseTypes
  <2>3. QED
    BY <2>1, <2>2, RetrievalAssumption DEF TypeOK
<1>3. QED
  BY <1>1, <1>2 DEF Rankable

\* Without ties the most similar three hold the first three places, no others.
LEMMA NearestAreFirst ==
  ASSUME NEW S, NEW sc, Rankable(S, sc), NEW near \in SUBSET S, NEW x \in S,
         \A e, f \in S : sc[e] = sc[f] => e = f,
         Cardinality(near) = CANDIDATE_COUNT \/ (near = S /\ Cardinality(near) <= CANDIDATE_COUNT),
         \A e \in near, f \in S \ near : sc[e] >= sc[f]
  PROVE  x \in near <=> Place(S, sc, x) <= CANDIDATE_COUNT
<1>1. IsFiniteSet(S) /\ near \in SUBSET S
  BY DEF Rankable
<1>2. IsFiniteSet(near) /\ Cardinality(near) \in Nat
  BY <1>1, FS_Subset, FS_CardinalityType
<1>3. /\ IsFiniteSet(Before(S, sc, x)) /\ Cardinality(Before(S, sc, x)) \in Nat
      /\ Place(S, sc, x) = Cardinality(Before(S, sc, x)) + 1
  <2>1. Before(S, sc, x) \in SUBSET S
    BY DEF Before
  <2>2. QED
    BY <1>1, <2>1, FS_Subset, FS_CardinalityType DEF Place, Before
<1>4. CASE near = S /\ Cardinality(near) <= CANDIDATE_COUNT
  <2>1. Place(S, sc, x) \in 1..Cardinality(S)
    BY PlacesAreOrdered
  <2>2. QED
    BY <1>2, <1>3, <1>4, <2>1 DEF CANDIDATE_COUNT
<1>5. CASE Cardinality(near) = CANDIDATE_COUNT
  <2>1. ASSUME NEW e \in near, NEW f \in S \ near PROVE Ahead(sc, e, f)
    <3>1. sc[e] >= sc[f] /\ sc[e] # sc[f]
      BY <1>1, <2>1
    <3>2. sc[e] \in Int /\ sc[f] \in Int
      BY <1>1, <2>1 DEF Rankable
    <3>3. QED
      BY <3>1, <3>2 DEF Ahead
  <2>2. CASE x \in near
    <3>1. Before(S, sc, x) \in SUBSET (near \ {x})
      <4>1. ASSUME NEW f \in S, Ahead(sc, f, x) PROVE f \in near /\ f # x
        BY <1>1, <2>1, <2>2, <4>1, AheadIsAnOrder
      <4>2. QED
        BY <4>1 DEF Before
    <3>2. IsFiniteSet(near \ {x}) /\ Cardinality(near \ {x}) = CANDIDATE_COUNT - 1
      BY <1>2, <1>5, <2>2, FS_RemoveElement
    <3>3. Cardinality(Before(S, sc, x)) <= CANDIDATE_COUNT - 1
      BY <3>1, <3>2, FS_Subset
    <3>4. QED
      BY <1>3, <2>2, <3>3 DEF CANDIDATE_COUNT
  <2>3. CASE x \notin near
    <3>1. near \in SUBSET Before(S, sc, x)
      BY <1>1, <2>1, <2>3 DEF Before
    <3>2. CANDIDATE_COUNT <= Cardinality(Before(S, sc, x))
      BY <1>3, <1>5, <3>1, FS_Subset
    <3>3. QED
      BY <1>3, <2>3, <3>2 DEF CANDIDATE_COUNT
  <2>4. QED
    BY <2>2, <2>3
<1>6. QED
  BY <1>4, <1>5

\* A ranking has each candidate of the category asked for at its place.
LEMMA RankingIsSorted ==
  ASSUME NEW pool, NEW sc, NEW cat, NEW only,
         NEW S, S = {x \in pool : only = AnyCategory \/ cat[x] = only}, Rankable(S, sc),
         NEW r, r = rank_candidates(pool, sc, cat, only)
  PROVE  /\ Cardinality(S) \in Nat /\ DOMAIN r = 1..Cardinality(S)
         /\ Len(r) = Cardinality(S)
         /\ \A i \in DOMAIN r : r[i] \in S /\ Place(S, sc, r[i]) = i
         /\ \A x \in S : Place(S, sc, x) \in DOMAIN r /\ r[Place(S, sc, x)] = x
         /\ \A i, j \in DOMAIN r : i < j <=> Ahead(sc, r[i], r[j])
<1> DEFINE kept == {x \in pool : only = AnyCategory \/ cat[x] = only}
<1>1. r = [i \in 1..Cardinality(kept) |-> CHOOSE x \in kept : Place(kept, sc, x) = i]
  BY DEF rank_candidates
<1> HIDE DEF kept
<1>2. S = kept
  BY DEF kept
<1>3. /\ Cardinality(kept) \in Nat /\ DOMAIN r = 1..Cardinality(kept)
      /\ Len(r) = Cardinality(kept)
      /\ \A i \in DOMAIN r : r[i] \in kept /\ Place(kept, sc, r[i]) = i
      /\ \A x \in kept : Place(kept, sc, x) \in DOMAIN r /\ r[Place(kept, sc, x)] = x
      /\ \A i, j \in DOMAIN r : i < j <=> Ahead(sc, r[i], r[j])
  BY <1>1, <1>2, RankedIsSorted
<1>4. QED
  BY <1>2, <1>3

\* A table with the rows of one release has the candidates that the evaluation
\* of that release ranks first to third.
LEMMA SearchIsRanking ==
  ASSUME TypeOK, NEW v \in 1..Len(Releases), NEW near \in Nearest(Releases[v]),
         NoTies(Releases[v])
  PROVE  LET ranked == rank_candidates(Corpus(v), Scored(Releases[v]), Category, AnyCategory)
         IN  near = {ranked[i] : i \in DOMAIN ranked \cap (1..CANDIDATE_COUNT)}
<1> DEFINE S == Corpus(v)
           sc == Scored(Releases[v])
           r == rank_candidates(S, sc, Category, AnyCategory)
<1>1. Rankable(S, sc)
  BY CorporaAreRankable
<1>2. /\ near \in SUBSET S
      /\ Cardinality(near) = CANDIDATE_COUNT
            \/ (near = S /\ Cardinality(near) <= CANDIDATE_COUNT)
      /\ \A e \in near, f \in S \ near : sc[e] >= sc[f]
      /\ \A e, f \in S : sc[e] = sc[f] => e = f
  BY DEF Nearest, NoTies, Corpus
<1>3. /\ DOMAIN r = 1..Cardinality(S) /\ Cardinality(S) \in Nat
      /\ \A i \in DOMAIN r : r[i] \in S /\ Place(S, sc, r[i]) = i
      /\ \A x \in S : Place(S, sc, x) \in DOMAIN r /\ r[Place(S, sc, x)] = x
  <2>1. S = {x \in S : AnyCategory = AnyCategory \/ Category[x] = AnyCategory}
    OBVIOUS
  <2> HIDE DEF S, sc, r
  <2>2. r = rank_candidates(S, sc, Category, AnyCategory)
    BY DEF r
  <2>3. QED
    BY <1>1, <2>1, <2>2, RankingIsSorted
<1> HIDE DEF S, sc, r
<1>4. \A x \in S : x \in near <=> Place(S, sc, x) <= CANDIDATE_COUNT
  BY <1>1, <1>2, NearestAreFirst
<1>5. ASSUME NEW x \in near
      PROVE  \E i \in DOMAIN r \cap (1..CANDIDATE_COUNT) : x = r[i]
  BY <1>2, <1>3, <1>4 DEF CANDIDATE_COUNT
<1>6. ASSUME NEW i \in DOMAIN r \cap (1..CANDIDATE_COUNT) PROVE r[i] \in near
  BY <1>3, <1>4 DEF CANDIDATE_COUNT
<1>7. near = {r[i] : i \in DOMAIN r \cap (1..CANDIDATE_COUNT)}
  BY <1>5, <1>6
<1>8. QED
  BY <1>7 DEF r, sc, S

\* With entries only added, a table that the running release seeded last is
\* searched as if it were that release's corpus.
LEMMA SeededIsCorpus ==
  ASSUME TypeOK, RetrievalInv, OnlyAdds, seeded = worker
  PROVE  worker \in 1..Len(Releases) /\ Nearest(table) = Nearest(Releases[worker])
<1>1. worker \in 1..Len(Releases) /\ seeded # 0
  BY RetrievalAssumption DEF TypeOK
<1>2. /\ DOMAIN table = DOMAIN Releases[worker]
      /\ \A e \in DOMAIN table : table[e] = Releases[worker][e]
  BY <1>1 DEF RetrievalInv, Corpus
<1>3. Scored(table) = Scored(Releases[worker])
  BY <1>2 DEF Scored
<1>4. QED
  BY <1>1, <1>2, <1>3 DEF Nearest

\* The judge is shown what the evaluation of the running release ranks first to
\* third, for every corpus that is only added to and seeded last from that
\* release, whatever texts and rows there were before.
THEOREM EvaluationCarriesOverHolds == Spec => EvaluationCarriesOver
<1> DEFINE ranked == rank_candidates(Corpus(worker), Scored(Releases[worker]),
                                     Category, AnyCategory)
           first == {ranked[i] : i \in DOMAIN ranked \cap (1..CANDIDATE_COUNT)}
           Shown == (/\ at = "query" /\ at' = "judge" /\ seeded = worker /\ OnlyAdds
                     /\ NoTies(Releases[worker])) => candidates' = first
<1>1. ASSUME TypeOK, RetrievalInv, [Next]_vars PROVE Shown
  <2>1. SUFFICES ASSUME at = "query", at' = "judge", seeded = worker, OnlyAdds,
                        NoTies(Releases[worker])
                 PROVE  candidates' = first
    OBVIOUS
  <2>2. FindCandidates
    BY <1>1, <2>1 DEF Next, StartSeed, Upsert, CommitSeed, SeedFails, Release, Deploy,
       AttemptFails, AttemptOver, Judge, vars, activity
  <2>3. PICK near \in Nearest(table) : candidates' = near
    BY <2>1, <2>2 DEF FindCandidates, Answer, AttemptOver
  <2>4. worker \in 1..Len(Releases) /\ near \in Nearest(Releases[worker])
    BY <1>1, <2>1, SeededIsCorpus
  <2>5. near = first
    BY <1>1, <2>1, <2>4, SearchIsRanking
  <2>6. QED
    BY <2>3, <2>5
<1>2. QED
  BY <1>1, RetrievalInvHolds, PTL DEF Spec, EvaluationCarriesOver

-----------------------------------------------------------------------------
\* A set of positions has a first one: the best, were all scores equal.
LEMMA FirstPosition ==
  ASSUME NEW n \in Nat, NEW R, R \subseteq 1..n, R # {}
  PROVE  Min(R) \in R /\ \A i \in R : Min(R) <= i
<1> DEFINE sc == [i \in R |-> 0]
<1>0. \A x \in R : sc[x] = 0
  OBVIOUS
<1> HIDE DEF sc
<1>1. IsFiniteSet(R) /\ Cardinality(R) \in Nat /\ Cardinality(R) # 0
  <2>1. IsFiniteSet(1..n)
    BY FS_Interval
  <2>2. R \in SUBSET (1..n)
    OBVIOUS
  <2>3. IsFiniteSet(R)
    BY <2>1, <2>2, FS_Subset
  <2>4. QED
    BY <2>3, FS_CardinalityType, FS_EmptySet
<1>2. Rankable(R, sc)
  <2>1. R \subseteq Nat /\ \A x \in R : sc[x] \in Int
    BY <1>0
  <2>2. QED
    BY <1>1, <2>1 DEF Rankable
<1>3. PICK k \in R : Place(R, sc, k) = 1
  <2>1. 1 \in 1..Cardinality(R)
    BY <1>1
  <2>2. QED
    BY <1>2, <2>1, PlacesAreTaken
<1>4. ASSUME NEW i \in R PROVE k <= i
  <2>1. Place(R, sc, i) \in 1..Cardinality(R)
    BY <1>2, PlacesAreOrdered
  <2>2. ~Ahead(sc, i, k)
    BY <1>1, <1>2, <1>3, <2>1, PlacesAreOrdered
  <2>3. sc[i] = 0 /\ sc[k] = 0 /\ i \in Nat /\ k \in Nat
    BY <1>0
  <2>4. QED
    BY <2>2, <2>3 DEF Ahead
<1>5. QED
  BY <1>4 DEF Min

\* decide accepts the first of a ranked list when it is a clear winner, and no
\* candidate is a clear winner otherwise.
LEMMA DecideIsClearWinner ==
  ASSUME NEW pool, NEW sc, NEW cat, NEW only, NEW act,
         Rankable({x \in pool : only = AnyCategory \/ cat[x] = only}, sc),
         NEW threshold \in Int, NEW margin \in Nat
  PROVE  LET S == {x \in pool : only = AnyCategory \/ cat[x] = only}
         IN  decide(rank_candidates(pool, sc, cat, only), sc, act, threshold, margin)
             <=> \E e \in S :
                    /\ sc[e] >= threshold
                    /\ \A f \in S : sc[f] <= sc[e]
                    /\ \A f \in S : act[f] # act[e] => sc[e] - sc[f] >= margin
<1> DEFINE S == {x \in pool : only = AnyCategory \/ cat[x] = only}
           r == rank_candidates(pool, sc, cat, only)
           n == Cardinality(S)
           R == Rivals(r, act)
           Wins(e) == /\ sc[e] >= threshold
                      /\ \A f \in S : sc[f] <= sc[e]
                      /\ \A f \in S : act[f] # act[e] => sc[e] - sc[f] >= margin
<1>2. Rankable(S, sc) /\ IsFiniteSet(S) /\ \A x \in S : sc[x] \in Int
  BY DEF Rankable
<1>3. r = [i \in 1..Cardinality(S) |-> CHOOSE x \in S : Place(S, sc, x) = i]
  BY DEF rank_candidates
<1> HIDE DEF S, r
<1>0. /\ n \in Nat /\ DOMAIN r = 1..n /\ Len(r) = n
      /\ \A i \in DOMAIN r : r[i] \in S /\ Place(S, sc, r[i]) = i
      /\ \A x \in S : Place(S, sc, x) \in DOMAIN r /\ r[Place(S, sc, x)] = x
      /\ \A i, j \in DOMAIN r : i < j <=> Ahead(sc, r[i], r[j])
  BY <1>2, <1>3, RankedIsSorted
<1> HIDE DEF n
<1>1. /\ n \in Nat /\ DOMAIN r = 1..n /\ Len(r) = n
      /\ \A i \in 1..n : r[i] \in S /\ Place(S, sc, r[i]) = i
      /\ \A x \in S : Place(S, sc, x) \in 1..n /\ r[Place(S, sc, x)] = x
      /\ \A i, j \in 1..n : i < j => Ahead(sc, r[i], r[j])
  BY <1>0
<1>4. CASE S = {}
  <2>1. n = 0
    BY <1>2, <1>4, FS_EmptySet DEF n
  <2>2. r = <<>>
    BY <1>3, <2>1 DEF n
  <2>3. ~decide(r, sc, act, threshold, margin)
    BY <2>2 DEF decide
  <2>4. QED
    BY <1>4, <2>3 DEF S, r
<1>5. CASE S # {}
  <2>1. 1 \in 1..n /\ r # <<>>
    BY <1>1, <1>5
  <2>2. r[1] \in S /\ \A x \in S : sc[x] <= sc[r[1]]
    <3>1. ASSUME NEW x \in S PROVE sc[x] <= sc[r[1]]
      <4>1. Place(S, sc, x) = 1 \/ Ahead(sc, r[1], x)
        BY <1>1, <2>1
      <4>2. QED
        BY <1>1, <1>2, <2>1, <4>1 DEF Ahead
    <3>2. QED
      BY <1>1, <2>1, <3>1
  <2>3. R = {i \in 2..n : act[r[i]] # act[r[1]]} /\ R \subseteq 1..n
    BY <1>1 DEF Rivals
  <2>4. R # {} => Min(R) \in R /\ \A i \in R : Min(R) <= i
    BY <1>1, <2>3, FirstPosition
  <2> HIDE DEF R
  <2>5. ASSUME decide(r, sc, act, threshold, margin) PROVE Wins(r[1])
    <3>1. ASSUME NEW f \in S, act[f] # act[r[1]] PROVE sc[r[1]] - sc[f] >= margin
      <4>1. Place(S, sc, f) \in R
        BY <1>1, <2>1, <2>3, <3>1
      <4>2. Min(R) \in 1..n /\ Min(R) <= Place(S, sc, f)
        BY <2>3, <2>4, <4>1
      <4>3. sc[r[Min(R)]] >= sc[f]
        <5>1. Min(R) = Place(S, sc, f) \/ Ahead(sc, r[Min(R)], f)
          BY <1>1, <4>2
        <5>2. QED
          BY <1>1, <1>2, <4>2, <5>1 DEF Ahead
      <4>4. sc[r[1]] - sc[r[Min(R)]] >= margin
        BY <2>5, <4>1 DEF decide, R
      <4>5. QED
        BY <1>1, <1>2, <2>2, <4>2, <4>3, <4>4
    <3>2. QED
      BY <2>2, <2>5, <3>1 DEF decide
  <2>6. ASSUME NEW e \in S, Wins(e) PROVE decide(r, sc, act, threshold, margin)
    <3>1. sc[e] = sc[r[1]]
      BY <1>2, <2>2, <2>6
    <3>2. ASSUME R # {} PROVE sc[r[1]] - sc[r[Min(R)]] >= margin
      <4>1. /\ r[Min(R)] \in S /\ act[r[Min(R)]] # act[r[1]]
            /\ sc[r[Min(R)]] <= sc[r[1]]
        BY <1>1, <2>2, <2>3, <2>4, <3>2
      <4>2. CASE act[e] = act[r[1]]
        BY <2>6, <3>1, <4>1, <4>2
      <4>3. CASE act[e] # act[r[1]]
        <5>1. sc[e] - sc[r[1]] >= margin
          BY <2>2, <2>6, <4>3
        <5>2. QED
          BY <1>2, <2>2, <3>1, <4>1, <5>1
      <4>4. QED
        BY <4>2, <4>3
    <3>3. QED
      BY <2>1, <2>6, <3>1, <3>2 DEF decide, R
  <2>7. decide(r, sc, act, threshold, margin) <=> \E e \in S : Wins(e)
    BY <2>2, <2>5, <2>6
  <2>8. QED
    BY <2>7 DEF S, r
<1>6. QED
  BY <1>4, <1>5

\* A match of the evaluation is a clear winner, for every corpus, threshold and
\* margin, with the category filter and without.
THEOREM DecideMeansClearWinnerHolds == Spec => []DecideMeansClearWinner
<1>1. ASSUME TypeOK PROVE DecideMeansClearWinner
  <2> DEFINE scores == Scored(Releases[worker])
             action == [e \in Corpus(worker) |-> Releases[worker][e].action]
  <2>1. SUFFICES ASSUME NEW only \in {AnyCategory} \cup {Category[e] : e \in Entries},
                        NEW threshold \in Scores, NEW margin \in {m \in Scores : m >= 0}
                 PROVE  LET pool == {e \in Corpus(worker) : only = AnyCategory \/ Category[e] = only}
                        IN  decide(rank_candidates(Corpus(worker), scores, Category, only),
                                   scores, action, threshold, margin)
                            <=> \E e \in pool :
                                   /\ scores[e] >= threshold
                                   /\ \A f \in pool : scores[f] <= scores[e]
                                   /\ \A f \in pool : action[f] # action[e]
                                                         => scores[e] - scores[f] >= margin
    BY DEF DecideMeansClearWinner
  <2>2. worker \in 1..Len(Releases)
    BY <1>1, RetrievalAssumption DEF TypeOK
  <2>3. Rankable({e \in Corpus(worker) : only = AnyCategory \/ Category[e] = only}, scores)
    BY <1>1, <2>2, CorporaAreRankable
  <2>4. threshold \in Int /\ margin \in Nat
    BY RetrievalAssumption
  <2> HIDE DEF scores, action
  <2>5. QED
    BY <2>3, <2>4, DecideIsClearWinner
<1>2. QED
  BY <1>1, RetrievalInvHolds, PTL
=============================================================================
