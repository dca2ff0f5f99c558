------------------------ MODULE SearchPipelineProofs ------------------------
(***************************************************************************)
(* Proofs about module SearchPipeline, for any tree, page table, scores    *)
(* and limits, and any number of rows that an ingestion writes meanwhile.  *)
(***************************************************************************)
EXTENDS SearchPipeline, SequenceTheorems, FiniteSetTheorems, FunctionTheorems, TLAPS

-----------------------------------------------------------------------------
(* The inductive invariant. *)

\* What each phase has done; a scan is left at its end or with enough candidates.
Progress ==
    /\ phase = "entries" => scanned = 0 /\ cands = {}
    /\ phase = "scan" => scanned < Len(entries)
    /\ phase \in {"filter", "done"} =>
          scanned = Len(entries) \/ Cardinality(cands) >= req.top_k * req.pool
    /\ phase # "done" => result = <<>>

\* The entries come from the nearest to the farthest.
EntriesSorted == \A i, k \in 1..Len(entries) : i < k => sim[entries[i]] >= sim[entries[k]]

\* While no row has been written: a candidate has the path of its row and is
\* under an entry that was scanned, and no page of an entry whose pages were all
\* fetched has been lost or lost score.
Collected ==
    upserted = 0 =>
        /\ \A c \in cands : c.path = table[c.node]
        /\ \A i \in 1..scanned :
              Cardinality(Under(table, entries[i])) <= req.page_limit =>
                 \A p \in Under(table, entries[i]) :
                    \E c \in cands : c.node = p /\ c.score >= Clamp(sim[entries[i]])

SearchInv ==
    /\ TypeOK
    /\ Progress
    /\ EntriesSorted
    /\ CandidatesSound
    /\ Collected
    /\ ResultIsBestApproved

-----------------------------------------------------------------------------
(* The operators. *)

LEMMA NodeScore ==
    ASSUME TypeOK, NEW n \in Nodes
    PROVE  /\ sim[n] \in Int
           /\ Clamp(sim[n]) \in 0..TopScore /\ Clamp(sim[n]) \in Int
<1>1. sim[n] \in Int
  BY ScoresAssumption DEF TypeOK
<1>2. Clamp(sim[n]) \in 0..TopScore
  BY <1>1, ScoresAssumption DEF Clamp
<1>3. QED
  BY <1>1, <1>2, ScoresAssumption

LEMMA RequestLimits ==
    ASSUME NEW q \in Requests
    PROVE  /\ q.top_k \in Nat \ {0} /\ q.entry_limit \in Nat \ {0}
           /\ q.page_limit \in Nat \ {0} /\ q.pool \in Nat \ {0}
BY RequestsAssumption

UniqueNodes(S) == \A c, d \in S : c.node = d.node => c = d

\* One entry's candidates are of different pages.
LEMMA CandidatesOfEntry ==
    ASSUME NEW n, NEW batch
    PROVE  UniqueNodes({ToCandidate(p, n) : p \in batch})
BY DEF UniqueNodes, ToCandidate

\* Merging keeps one candidate for each page.
LEMMA MergeUnique ==
    ASSUME NEW old, NEW new, UniqueNodes(old), UniqueNodes(new)
    PROVE  UniqueNodes(Merge(old, new)) /\ Merge(old, new) \subseteq old \cup new
BY DEF UniqueNodes, Merge

\* Merging loses no page and lowers no score.
LEMMA MergeKeeps ==
    ASSUME NEW old, NEW new, UniqueNodes(old), UniqueNodes(new),
           \A c \in old \cup new : c.score \in Int,
           NEW c \in old \cup new
    PROVE  \E d \in Merge(old, new) : d.node = c.node /\ d.score >= c.score
<1>1. CASE c \in Merge(old, new)
  BY <1>1
<1>2. CASE c \in old /\ c \notin Merge(old, new)
  <2>1. PICK d \in new : d.node = c.node /\ Replaces(d, c)
    BY <1>2 DEF Merge
  <2>2. d \in Merge(old, new)
    BY <1>2, <2>1 DEF Merge, UniqueNodes
  <2>3. QED
    BY <2>1, <2>2 DEF Replaces
<1>3. CASE c \in new /\ c \notin Merge(old, new)
  <2>1. PICK d \in old : d.node = c.node /\ ~Replaces(c, d)
    BY <1>3 DEF Merge
  <2>2. d \in Merge(old, new)
    BY <1>3, <2>1 DEF Merge, UniqueNodes
  <2>3. QED
    BY <2>1, <2>2 DEF Replaces
<1>4. QED
  BY <1>1, <1>2, <1>3

\* No more candidates than pages.
LEMMA CandidatesFinite ==
    ASSUME NEW S \in SUBSET Candidate, UniqueNodes(S)
    PROVE  /\ IsFiniteSet(S) /\ Cardinality(S) \in Nat
           /\ \A T \in SUBSET Pages : {c.node : c \in S} = T => Cardinality(S) = Cardinality(T)
           /\ \A T \in SUBSET Pages : {c.node : c \in S} \subseteq T => Cardinality(S) <= Cardinality(T)
<1> DEFINE f == [c \in S |-> c.node]
<1>1. ASSUME NEW T \in SUBSET Pages, {c.node : c \in S} \subseteq T
      PROVE  /\ IsFiniteSet(S) /\ Cardinality(S) <= Cardinality(T)
             /\ {c.node : c \in S} = T => Cardinality(S) = Cardinality(T)
  <2>1. IsFiniteSet(T)
    BY FiniteAssumption, FS_Subset
  <2>2. f \in [S -> T]
    BY <1>1
  <2>3. \A c, d \in S : f[c] = f[d] => c = d
    BY DEF UniqueNodes
  <2>4. f \in Injection(S, T)
    BY <2>2, <2>3, Fun_IsInj
  <2>5. ASSUME {c.node : c \in S} = T
        PROVE  f \in Surjection(S, T)
    BY <2>2, <2>5, Fun_IsSurj
  <2>6. QED
    BY <2>1, <2>4, <2>5, FS_Injection
<1>2. {c.node : c \in S} \subseteq Pages
  BY DEF Candidate
<1>3. IsFiniteSet(S)
  BY <1>1, <1>2
<1>4. Cardinality(S) \in Nat
  BY <1>3, FS_CardinalityType
<1>5. QED
  BY <1>1, <1>3, <1>4

\* All pages of an entry are fetched when there are no more than page_limit.
LEMMA FetchAll ==
    ASSUME req \in Requests, NEW n,
           Cardinality(Under(table, n)) <= req.page_limit, NEW batch \in Fetches(n)
    PROVE  batch = Under(table, n)
<1>1. IsFiniteSet(Under(table, n))
  BY FiniteAssumption, FS_Subset DEF Under
<1>2. Cardinality(Under(table, n)) \in Nat
  BY <1>1, FS_CardinalityType
<1>3. req.page_limit \in Nat
  BY RequestLimits
<1>4. Cardinality(batch) = Cardinality(Under(table, n))
  BY <1>2, <1>3 DEF Fetches, IsFetch, Smallest
<1>5. QED
  BY <1>1, <1>4, FS_Subset DEF Fetches

\* The entries are a list of at most entry_limit nodes.
LEMMA EntryListType ==
    ASSUME req \in Requests, NEW s \in EntryLists
    PROVE  s \in Seq(Nodes)
<1>1. Cardinality(Nodes) \in Nat
  BY FiniteAssumption, FS_CardinalityType
<1>2. Smallest(req.entry_limit, Cardinality(Nodes)) \in Nat
  BY <1>1, RequestLimits DEF Smallest
<1>3. QED
  BY <1>2 DEF EntryLists

\* A ranking lists a finite set once, the best first.
LEMMA RankingProperties ==
    ASSUME NEW S, IsFiniteSet(S), NEW s \in Rankings(S)
    PROVE  /\ s \in Seq(S) /\ Len(s) = Cardinality(S)
           /\ \A c \in S : \E i \in 1..Len(s) : s[i] = c
           /\ \A i, k \in 1..Len(s) : i < k => ~RanksBefore(s[k], s[i])
<1>1. PICK T \in SUBSET S : s \in SetToSeqs(T)
  BY DEF Rankings, SetToAllKPermutations
<1>2. IsFiniteSet(T) /\ Cardinality(T) \in Nat
  BY FS_Subset, FS_CardinalityType
<1>3. s \in [1..Cardinality(T) -> T] /\ \A i, k \in 1..Cardinality(T) : i # k => s[i] # s[k]
  BY <1>1 DEF SetToSeqs
<1>4. s \in Seq(T) /\ Len(s) = Cardinality(T)
  BY <1>2, <1>3
<1>5. Len(s) = Cardinality(S) /\ \A i, k \in DOMAIN s : i < k => ~RanksBefore(s[k], s[i])
  BY DEF Rankings
<1>6. T = S
  BY <1>4, <1>5, FS_Subset
<1>7. s \in Injection(1..Cardinality(T), T)
  BY <1>3, Fun_IsInj
<1>8. IsFiniteSet(1..Cardinality(T)) /\ Cardinality(1..Cardinality(T)) = Cardinality(T)
  BY <1>2, FS_Interval
<1>9. s \in Surjection(1..Cardinality(T), T)
  BY <1>2, <1>7, <1>8, FS_Injection
<1>10. \A c \in T : \E i \in 1..Cardinality(T) : s[i] = c
  BY <1>9 DEF Surjection
<1>11. QED
  BY <1>4, <1>5, <1>6, <1>10

\* What the cut keeps is the best of the list.
LEMMA CutProperties ==
    ASSUME req \in Requests, NEW S, IsFiniteSet(S), NEW s \in Rankings(S)
    PROVE  /\ Cut(s) \in Seq(S)
           /\ Len(Cut(s)) = Smallest(req.top_k, Cardinality(S))
           /\ \A i \in DOMAIN Cut(s), c \in S \ {Cut(s)[k] : k \in DOMAIN Cut(s)} :
                 ~RanksBefore(c, Cut(s)[i])
<1> DEFINE n == Smallest(req.top_k, Len(s))
<1>1. s \in Seq(S) /\ Len(s) = Cardinality(S) /\ Len(s) \in Nat
  BY RankingProperties
<1>2. n \in 0..Len(s)
  BY <1>1, RequestLimits DEF Smallest
<1>3. /\ Cut(s) \in Seq(S) /\ Len(Cut(s)) = n /\ DOMAIN Cut(s) = 1..n
      /\ \A i \in 1..n : Cut(s)[i] = s[i]
  BY <1>1, <1>2, SubSeqProperties, LenProperties DEF Cut
<1>4. ASSUME NEW i \in DOMAIN Cut(s), NEW c \in S \ {Cut(s)[k] : k \in DOMAIN Cut(s)}
      PROVE  ~RanksBefore(c, Cut(s)[i])
  <2>1. PICK k \in 1..Len(s) : s[k] = c
    BY RankingProperties
  <2>2. k \notin 1..n
    BY <1>3, <2>1
  <2>3. i < k /\ i \in 1..Len(s)
    BY <1>1, <1>2, <1>3, <2>2
  <2>4. QED
    BY <1>3, <2>1, <2>3, RankingProperties
<1>5. QED
  BY <1>1, <1>3, <1>4

-----------------------------------------------------------------------------
(* The steps. *)

LEMMA SearchInit == Init => SearchInv
<1> SUFFICES ASSUME Init
             PROVE  SearchInv
  OBVIOUS
<1>1. TypeOK
  BY UpsertsAssumption DEF Init, TypeOK, NoAnswer, Verdicts
<1>2. QED
  BY <1>1 DEF Init, SearchInv, Progress, EntriesSorted, CandidatesSound, Collected, ResultIsBestApproved

LEMMA SummarySearchStep ==
    ASSUME SearchInv, SearchSummaryNodes
    PROVE  SearchInv'
<1> USE DEF SearchInv, SearchSummaryNodes
<1>1. entries' \in Seq(Nodes) /\ Len(entries') \in Nat /\ DOMAIN entries' = 1..Len(entries')
  BY EntryListType, LenProperties DEF TypeOK
<1>2. scanned = 0 /\ cands = {} /\ result = <<>> /\ phase' # "done"
  BY DEF Progress
<1>3. entries' # <<>> => Len(entries') > 0
  BY <1>1, EmptySeq
<1>4. TypeOK'
  BY <1>1, <1>2 DEF TypeOK
<1>5. Progress'
  BY <1>1, <1>2, <1>3 DEF Progress
<1>6. EntriesSorted'
  BY <1>1 DEF EntriesSorted, EntryLists, IsEntryList
<1>7. (CandidatesSound /\ Collected /\ ResultIsBestApproved)'
  BY <1>2 DEF CandidatesSound, Collected, ResultIsBestApproved
<1>8. QED
  BY <1>4, <1>5, <1>6, <1>7

LEMMA ScanStep ==
    ASSUME SearchInv, ScanEntry
    PROVE  SearchInv'
<1>0. TypeOK /\ Progress /\ EntriesSorted /\ CandidatesSound /\ Collected
  BY DEF SearchInv
<1> DEFINE n == entries[scanned + 1]
<1>1. PICK batch \in Fetches(n) : cands' = Merge(cands, {ToCandidate(p, n) : p \in batch})
  BY DEF ScanEntry
<1> DEFINE new == {ToCandidate(p, n) : p \in batch}
<1>2. /\ Len(entries) \in Nat /\ scanned \in 0..(Len(entries) - 1)
      /\ scanned' = scanned + 1 /\ scanned' \in 0..Len(entries)
  BY <1>0, LenProperties DEF TypeOK, Progress, ScanEntry
<1>3. \A i \in 1..Len(entries) : entries[i] \in Nodes
  BY <1>0, ElementOfSeq DEF TypeOK
<1>u. UNCHANGED <<req, sim, table, entries, answer, result, upserted>>
  BY DEF ScanEntry
<1>4. batch \subseteq Under(table, n)
  BY DEF Fetches
<1>5. \A p \in batch : p \in Pages /\ table[p] \in PagePaths /\ IsPrefix(NodePath[n], table[p])
  BY <1>0, <1>4 DEF Under, TypeOK
<1>s. Clamp(sim[n]) \in 0..TopScore /\ Clamp(sim[n]) \in Int
  BY <1>0, <1>2, <1>3, NodeScore
<1>6. new \subseteq Candidate
  BY <1>5, <1>s DEF ToCandidate, Candidate
<1>7. UniqueNodes(cands) /\ UniqueNodes(new)
  BY <1>0, CandidatesOfEntry DEF CandidatesSound, UniqueNodes
<1>8. UniqueNodes(cands') /\ cands' \subseteq cands \cup new
  BY <1>1, <1>7, MergeUnique
<1>9. cands' \in SUBSET Candidate
  BY <1>0, <1>6, <1>8 DEF TypeOK
<1>10. result = <<>> /\ phase' \in {"filter", "scan"}
  BY <1>0 DEF Progress, ScanEntry
<1>11. TypeOK'
  BY <1>0, <1>2, <1>9, <1>10, <1>u DEF TypeOK
<1>12. Progress'
  BY <1>2, <1>10, <1>u DEF Progress, Enough, ScanEntry
<1>13. EntriesSorted'
  BY <1>0, <1>u DEF EntriesSorted
<1>14. CandidatesSound'
  <2>1. ASSUME NEW c \in cands'
        PROVE  \E i \in 1..scanned' :
                  c.score = Clamp(sim[entries[i]]) /\ IsPrefix(NodePath[entries[i]], c.path)
    <3>1. CASE c \in cands
      BY <1>0, <1>2, <3>1 DEF CandidatesSound
    <3>2. CASE c \in new
      BY <1>2, <1>5, <3>2 DEF ToCandidate
    <3>3. QED
      BY <1>8, <3>1, <3>2
  <2>2. QED
    BY <1>8, <2>1, <1>u DEF UniqueNodes, CandidatesSound
<1>15. Collected'
  <2> SUFFICES ASSUME upserted = 0
               PROVE  /\ \A c \in cands' : c.path = table[c.node]
                      /\ \A i \in 1..scanned' :
                            Cardinality(Under(table, entries[i])) <= req.page_limit =>
                               \A p \in Under(table, entries[i]) :
                                  \E c \in cands' : c.node = p /\ c.score >= Clamp(sim[entries[i]])
    BY <1>u DEF Collected, Under
  <2>1. \A c \in cands' : c.path = table[c.node]
    BY <1>0, <1>8 DEF Collected, ToCandidate
  <2>2. \A c \in cands \cup new : c.score \in Int
    BY <1>0, <1>6, ScoresAssumption DEF TypeOK, Candidate
  <2>3. \A c \in cands \cup new : \E d \in cands' : d.node = c.node /\ d.score >= c.score
    BY <1>1, <1>7, <2>2, MergeKeeps
  <2>4. ASSUME NEW i \in 1..scanned',
               Cardinality(Under(table, entries[i])) <= req.page_limit,
               NEW p \in Under(table, entries[i])
        PROVE  \E c \in cands' : c.node = p /\ c.score >= Clamp(sim[entries[i]])
    <3>1. \E c \in cands \cup new : c.node = p /\ c.score >= Clamp(sim[entries[i]])
      <4>1. CASE i \in 1..scanned
        BY <1>0, <2>4, <4>1 DEF Collected
      <4>2. CASE i = scanned + 1
        <5>1. p \in batch
          BY <1>0, <2>4, <4>2, FetchAll DEF TypeOK
        <5>2. ToCandidate(p, n) \in new
          BY <5>1
        <5>3. ToCandidate(p, n).node = p /\ ToCandidate(p, n).score = Clamp(sim[n])
          BY DEF ToCandidate
        <5>4. QED
          BY <1>s, <4>2, <5>2, <5>3
      <4>3. QED
        BY <1>2, <4>1, <4>2
    <3>2. PICK c \in cands \cup new : c.node = p /\ c.score >= Clamp(sim[entries[i]])
      BY <3>1
    <3>3. PICK d \in cands' : d.node = c.node /\ d.score >= c.score
      BY <2>3
    <3>4. Clamp(sim[entries[i]]) \in Int
      BY <1>0, <1>2, <1>3, NodeScore
    <3>5. c.score \in Int /\ d.score \in Int
      BY <1>8, <2>2
    <3>6. QED
      BY <3>2, <3>3, <3>4, <3>5
  <2>5. QED
    BY <2>1, <2>4
<1>16. ResultIsBestApproved'
  BY <1>10, <1>u DEF ResultIsBestApproved
<1>17. QED
  BY <1>11, <1>12, <1>13, <1>14, <1>15, <1>16 DEF SearchInv

LEMMA NothingFoundStep ==
    ASSUME SearchInv, NothingFound
    PROVE  SearchInv'
<1>0. TypeOK /\ Progress /\ EntriesSorted /\ CandidatesSound /\ Collected
  BY DEF SearchInv
<1>1. /\ cands = {} /\ phase = "filter" /\ phase' = "done"
      /\ UNCHANGED <<req, sim, table, entries, scanned, cands, answer, result, upserted>>
  BY DEF NothingFound
<1>2. result' = <<>> /\ DOMAIN result' = {} /\ Len(result') = 0
  BY <1>0, <1>1 DEF Progress
<1>3. (TypeOK /\ Progress)'
  BY <1>0, <1>1 DEF TypeOK, Progress
<1>4. (EntriesSorted /\ CandidatesSound /\ Collected)'
  BY <1>0, <1>1 DEF EntriesSorted, CandidatesSound, Collected, Under
<1>5. Smallest(req'.top_k, Cardinality(Kept(answer)')) = 0
  <2>1. Kept(answer)' = {}
    BY <1>1 DEF Kept
  <2>2. req'.top_k \in Nat
    BY <1>0, <1>1, RequestLimits DEF TypeOK
  <2>3. QED
    BY <2>1, <2>2, FS_EmptySet DEF Smallest
<1>6. ResultIsBestApproved'
  BY <1>1, <1>2, <1>5 DEF ResultIsBestApproved
<1>7. QED
  BY <1>3, <1>4, <1>6 DEF SearchInv

LEMMA FilterStep ==
    ASSUME SearchInv, FilterAnswers
    PROVE  SearchInv'
<1>0. TypeOK /\ Progress /\ EntriesSorted /\ CandidatesSound /\ Collected
  BY DEF SearchInv
<1>1. /\ phase = "filter" /\ phase' = "done" /\ answer' \in [Pages -> Verdicts] /\ Valid(answer')
      /\ UNCHANGED <<req, sim, table, entries, scanned, cands, upserted>>
  BY DEF FilterAnswers
<1>2. IsFiniteSet(cands)
  BY <1>0, CandidatesFinite DEF TypeOK, CandidatesSound, UniqueNodes
<1> DEFINE kept == Kept(answer')
<1>3. kept \subseteq cands /\ IsFiniteSet(kept)
  BY <1>2, FS_Subset DEF Kept
<1>4. PICK s \in Rankings(kept) : result' = Cut(s)
  BY DEF FilterAnswers, Answers
<1>5. req \in Requests
  BY <1>0 DEF TypeOK
<1>6. /\ result' \in Seq(kept)
      /\ Len(result') = Smallest(req.top_k, Cardinality(kept))
      /\ \A i \in DOMAIN result', c \in kept \ {result'[k] : k \in DOMAIN result'} :
            ~RanksBefore(c, result'[i])
  BY <1>3, <1>4, <1>5, CutProperties
<1>7. \A i \in DOMAIN result' : result'[i] \in kept
  BY <1>6
<1>8. result' \in Seq(Candidate)
  BY <1>0, <1>3, <1>6, SeqMonotonic DEF TypeOK
<1>9. TypeOK'
  BY <1>0, <1>1, <1>8 DEF TypeOK
<1>10. (Progress /\ EntriesSorted /\ CandidatesSound /\ Collected)'
  BY <1>0, <1>1 DEF Progress, EntriesSorted, CandidatesSound, Collected, Under
<1>11. \A c \in cands' : answer'[c.node] \in {"keep", "drop"}
  BY <1>0, <1>1 DEF Valid, Found, TypeOK, Candidate
<1>12. Kept(answer)' = kept
  BY <1>1 DEF Kept
<1>13. \A i \in DOMAIN result' : result'[i] \in cands' /\ answer'[result'[i].node] = "keep"
  BY <1>1, <1>7 DEF Kept
<1>14. ResultIsBestApproved'
  BY <1>1, <1>6, <1>11, <1>12, <1>13 DEF ResultIsBestApproved
<1>15. QED
  BY <1>9, <1>10, <1>14 DEF SearchInv

LEMMA FailureStep ==
    ASSUME SearchInv, AttemptFails
    PROVE  SearchInv'
<1>1. /\ phase' = "failed" /\ phase # "done"
      /\ UNCHANGED <<req, sim, table, entries, scanned, cands, answer, result, upserted>>
  BY DEF AttemptFails
<1>2. QED
  BY <1>1 DEF SearchInv, TypeOK, Progress, EntriesSorted, CandidatesSound, Collected, Under,
     ResultIsBestApproved

LEMMA UpsertStep ==
    ASSUME SearchInv, UpsertPage
    PROVE  SearchInv'
<1>0. TypeOK /\ Progress /\ EntriesSorted /\ CandidatesSound
  BY DEF SearchInv
<1>1. /\ phase \in {"entries", "scan"} /\ upserted < Upserts /\ upserted' = upserted + 1
      /\ UNCHANGED <<req, sim, phase, entries, scanned, cands, answer, result>>
  BY DEF UpsertPage
<1>2. upserted' \in 0..Upserts /\ upserted' # 0
  BY <1>0, <1>1, UpsertsAssumption DEF TypeOK
<1>3. table' \in [Pages -> PagePaths \cup {NoPath}]
  BY <1>0 DEF TypeOK, UpsertPage
<1>4. TypeOK'
  BY <1>0, <1>1, <1>2, <1>3 DEF TypeOK
<1>5. (Progress /\ EntriesSorted /\ CandidatesSound)'
  BY <1>0, <1>1 DEF Progress, EntriesSorted, CandidatesSound
<1>6. (Collected /\ ResultIsBestApproved)'
  BY <1>1, <1>2 DEF Collected, ResultIsBestApproved
<1>7. QED
  BY <1>4, <1>5, <1>6 DEF SearchInv

LEMMA SearchStep == SearchInv /\ [Next]_vars => SearchInv'
<1> SUFFICES ASSUME SearchInv, [Next]_vars
             PROVE  SearchInv'
  OBVIOUS
<1>1. CASE Next
  BY <1>1, SummarySearchStep, ScanStep, NothingFoundStep, FilterStep, FailureStep, UpsertStep DEF Next
<1>2. CASE UNCHANGED vars
  <2>1. (TypeOK /\ Progress /\ EntriesSorted /\ CandidatesSound)'
    BY <1>2 DEF vars, SearchInv, TypeOK, Progress, EntriesSorted, CandidatesSound
  <2>2. Collected'
    BY <1>2 DEF vars, SearchInv, Collected, Under
  <2>3. Kept(answer)' = Kept(answer)
    BY <1>2 DEF vars, Kept
  <2>4. ResultIsBestApproved'
    BY <1>2, <2>3 DEF vars, SearchInv, ResultIsBestApproved
  <2>5. QED
    BY <2>1, <2>2, <2>4 DEF SearchInv
<1>3. QED
  BY <1>1, <1>2

LEMMA SearchInvariant == Spec => []SearchInv
BY SearchInit, SearchStep, PTL DEF Spec

-----------------------------------------------------------------------------
(* The theorems. *)

\* Every variable keeps its type; the scan never goes past the last entry and
\* every score lies between 0 and TopScore.
THEOREM TypeCorrect == Spec => []TypeOK
<1>1. SearchInv => TypeOK
  BY DEF SearchInv
<1>2. QED
  BY <1>1, SearchInvariant, PTL

\* However many entries show a page and whatever is written between two queries,
\* the page is one candidate, whose score and path were read together.
THEOREM CandidatesAreSound == Spec => []CandidatesSound
<1>1. SearchInv => CandidatesSound
  BY DEF SearchInv
<1>2. QED
  BY <1>1, SearchInvariant, PTL

\* The merge keeps the best score of a page, in whatever order entries show it.
THEOREM BestScoreKept == Spec => []ScoreIsBest
<1>1. SearchInv => ScoreIsBest
  <2> SUFFICES ASSUME SearchInv, upserted = 0,
                      NEW c \in cands, NEW i \in 1..scanned,
                      IsPrefix(NodePath[entries[i]], c.path),
                      Cardinality(Under(table, entries[i])) <= req.page_limit
               PROVE  c.score >= Clamp(sim[entries[i]])
    BY DEF ScoreIsBest
  <2>1. c.node \in Under(table, entries[i])
    BY PathsAssumption DEF SearchInv, Collected, TypeOK, Candidate, Under
  <2>2. PICK d \in cands : d.node = c.node /\ d.score >= Clamp(sim[entries[i]])
    BY <2>1 DEF SearchInv, Collected
  <2>3. d = c
    BY <2>2 DEF SearchInv, CandidatesSound
  <2>4. QED
    BY <2>2, <2>3
<1>2. QED
  BY <1>1, SearchInvariant, PTL

\* A finished attempt has judged every candidate once and returns the best of
\* the approved ones, as many as top_k allows.
THEOREM BestApprovedReturned == Spec => []ResultIsBestApproved
<1>1. SearchInv => ResultIsBestApproved
  BY DEF SearchInv
<1>2. QED
  BY <1>1, SearchInvariant, PTL

\* With a filter that keeps everything and page_limit no obstacle, an attempt
\* that stopped early returns as many candidates as a full scan would have.
LEMMA FullAnswer ==
    ASSUME SearchInv, phase = "done", upserted = 0, Kept(answer) = cands,
           Cardinality(Pages) <= req.page_limit
    PROVE  Len(result) = Smallest(req.top_k, Cardinality(Reachable))
<1>0. TypeOK /\ Progress /\ CandidatesSound /\ Collected /\ ResultIsBestApproved
  BY DEF SearchInv
<1>1. Len(result) = Smallest(req.top_k, Cardinality(cands))
  BY <1>0 DEF ResultIsBestApproved
<1>2. Reachable \in SUBSET Pages
  BY DEF Reachable, Under
<1>3. cands \in SUBSET Candidate /\ UniqueNodes(cands)
  BY <1>0 DEF TypeOK, CandidatesSound, UniqueNodes
<1>4. Len(entries) \in Nat /\ scanned \in 0..Len(entries) /\ DOMAIN entries = 1..Len(entries)
  BY <1>0, LenProperties DEF TypeOK
<1>5. {c.node : c \in cands} \subseteq Reachable
  <2> SUFFICES ASSUME NEW c \in cands
               PROVE  c.node \in Reachable
    OBVIOUS
  <2>1. PICK i \in 1..scanned : IsPrefix(NodePath[entries[i]], c.path)
    BY <1>0 DEF CandidatesSound
  <2>2. c.node \in Under(table, entries[i])
    BY <1>0, <2>1, PathsAssumption DEF Collected, TypeOK, Candidate, Under
  <2>3. i \in DOMAIN entries
    BY <1>4
  <2>4. QED
    BY <2>2, <2>3 DEF Reachable
<1>6. Cardinality(cands) \in Nat /\ Cardinality(cands) <= Cardinality(Reachable)
  BY <1>2, <1>3, <1>5, CandidatesFinite
<1>7. IsFiniteSet(Reachable) /\ Cardinality(Reachable) \in Nat
  BY <1>2, FiniteAssumption, FS_Subset, FS_CardinalityType
<1>8. req.top_k \in Nat \ {0} /\ req.pool \in Nat \ {0} /\ req.page_limit \in Nat
  BY <1>0, RequestLimits DEF TypeOK
<1>9. CASE scanned = Len(entries)
  <2>1. Reachable \subseteq {c.node : c \in cands}
    <3> SUFFICES ASSUME NEW p \in Reachable
                 PROVE  p \in {c.node : c \in cands}
      OBVIOUS
    <3>1. PICK i \in 1..Len(entries) : p \in Under(table, entries[i])
      BY <1>4 DEF Reachable
    <3>2. /\ IsFiniteSet(Under(table, entries[i]))
          /\ Cardinality(Under(table, entries[i])) <= Cardinality(Pages)
      BY FiniteAssumption, FS_Subset DEF Under
    <3>3. Cardinality(Under(table, entries[i])) \in Nat /\ Cardinality(Pages) \in Nat
      BY <3>2, FiniteAssumption, FS_CardinalityType
    <3>4. Cardinality(Under(table, entries[i])) <= req.page_limit
      BY <1>8, <3>2, <3>3
    <3>5. PICK c \in cands : c.node = p
      BY <1>0, <1>9, <3>1, <3>4 DEF Collected
    <3>6. QED
      BY <3>5
  <2>2. Cardinality(cands) = Cardinality(Reachable)
    BY <1>2, <1>3, <1>5, <2>1, CandidatesFinite
  <2>3. QED
    BY <1>1, <2>2
<1>10. CASE Cardinality(cands) >= req.top_k * req.pool
  <2>1. req.top_k * req.pool >= req.top_k
    BY <1>8
  <2>2. Cardinality(cands) >= req.top_k
    BY <1>6, <1>8, <1>10, <2>1
  <2>3. QED
    BY <1>1, <1>6, <1>7, <1>8, <2>2 DEF Smallest
<1>11. QED
  BY <1>0, <1>9, <1>10 DEF Progress

\* No page of an entry that was not scanned would have scored higher.
LEMMA NothingBetterUnscanned ==
    ASSUME SearchInv, phase = "done", NEW n \in Unscanned, NEW i \in DOMAIN result
    PROVE  result[i].score >= Clamp(sim[n])
<1>0. TypeOK /\ EntriesSorted /\ CandidatesSound /\ ResultIsBestApproved
  BY DEF SearchInv
<1>1. result[i] \in cands
  BY <1>0 DEF ResultIsBestApproved
<1>2. PICK j \in 1..scanned : result[i].score = Clamp(sim[entries[j]])
  BY <1>0, <1>1 DEF CandidatesSound
<1>3. PICK k \in (scanned + 1)..Len(entries) : n = entries[k]
  BY DEF Unscanned
<1>4. Len(entries) \in Nat /\ j \in 1..Len(entries) /\ k \in 1..Len(entries) /\ j < k
  BY <1>0, <1>2, <1>3, LenProperties DEF TypeOK
<1>5. sim[entries[j]] >= sim[n]
  BY <1>0, <1>3, <1>4 DEF EntriesSorted
<1>6. entries[j] \in Nodes /\ n \in Nodes
  BY <1>0, <1>3, <1>4, ElementOfSeq DEF TypeOK
<1>7. sim[entries[j]] \in Int /\ sim[n] \in Int
  BY <1>0, <1>6, NodeScore
<1>8. Clamp(sim[entries[j]]) >= Clamp(sim[n])
  BY <1>5, <1>7, ScoresAssumption DEF Clamp
<1>9. QED
  BY <1>2, <1>8

\* Stopping before the last entry costs nothing but ties.
THEOREM EarlyStopIsSafe == Spec => []EarlyStopCostsNothing
<1>1. SearchInv => EarlyStopCostsNothing
  <2> SUFFICES ASSUME SearchInv, phase = "done", upserted = 0,
                      \A c \in cands : answer[c.node] = "keep"
               PROVE  /\ Cardinality(Pages) <= req.page_limit =>
                            Len(result) = Smallest(req.top_k, Cardinality(Reachable))
                      /\ \A n \in Unscanned, i \in DOMAIN result : result[i].score >= Clamp(sim[n])
    BY DEF EarlyStopCostsNothing
  <2>1. Kept(answer) = cands
    BY DEF Kept
  <2>2. QED
    BY <2>1, FullAnswer, NothingBetterUnscanned
<1>2. QED
  BY <1>1, SearchInvariant, PTL
=============================================================================
