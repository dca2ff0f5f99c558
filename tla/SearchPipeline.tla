--------------------------- MODULE SearchPipeline ---------------------------
(***************************************************************************)
(* One attempt at a search job: execute_search of                          *)
(* src_rs/core/search_pipeline.rs, then the LLM filter and the final cut   *)
(* of _build_filtered_result (src_py/vtree_search/search/engine.py).       *)
(*                                                                         *)
(* Every query is a statement of its own, so an ingestion may change the   *)
(* page table between two of them.  Scores are integers whose range        *)
(* 0..TopScore stands for 0.0 to 1.0.                                      *)
(***************************************************************************)
EXTENDS Integers, Sequences, FiniteSets, SequencesExt

CONSTANTS
    Nodes,      \* summary nodes
    NodePath,   \* the ltree path of each, a sequence of labels
    Pages,      \* page node ids
    PagePaths,  \* paths a page may have
    NoPath,     \* the path of a page that is not in the table
    Scores,     \* values of 1 - (embedding <=> query), negative ones included
    TopScore,
    Requests,   \* limits a payload may carry
    Upserts     \* how many page rows an ingestion writes meanwhile

ASSUME FiniteAssumption == IsFiniteSet(Nodes) /\ IsFiniteSet(Pages)
ASSUME ScoresAssumption == TopScore \in Nat /\ Scores \subseteq Int
ASSUME UpsertsAssumption == Upserts \in Nat
ASSUME PathsAssumption == NoPath \notin PagePaths
ASSUME RequestsAssumption ==
    \A q \in Requests : {q.top_k, q.entry_limit, q.page_limit, q.pool, q.min_entries} \subseteq Nat \ {0}

VARIABLES
    req,      \* the payload's limits
    sim,      \* similarity of each summary node to the query
    table,    \* page table: the path of each page
    phase,    \* "entries", "scan", "filter", "done" or "failed"
    entries,  \* rows of search_summary_nodes
    scanned,  \* scanned_entry_count
    cands,    \* candidate_map
    answer,   \* history: the LLM's decisions
    result,   \* candidates of the result
    upserted  \* history: page rows written since the search began

vars == <<req, sim, table, phase, entries, scanned, cands, answer, result, upserted>>

\* What the LLM says of a page: nothing, a decision, or more than one.
Verdicts == {"none", "keep", "drop", "twice"}
Candidate == [node : Pages, path : PagePaths, score : 0..TopScore]
NoAnswer == [p \in Pages |-> "none"]

TypeOK ==
    /\ req \in Requests
    /\ sim \in [Nodes -> Scores]
    /\ table \in [Pages -> PagePaths \cup {NoPath}]
    /\ phase \in {"entries", "scan", "filter", "done", "failed"}
    /\ entries \in Seq(Nodes)
    /\ scanned \in 0..Len(entries)
    /\ cands \subseteq Candidate
    /\ answer \in [Pages -> Verdicts]
    /\ result \in Seq(Candidate)
    /\ upserted \in 0..Upserts

Init ==
    /\ req \in Requests
    /\ sim \in [Nodes -> Scores]
    /\ table \in [Pages -> PagePaths \cup {NoPath}]
    /\ phase = "entries"
    /\ entries = <<>>
    /\ scanned = 0
    /\ cands = {}
    /\ answer = NoAnswer
    /\ result = <<>>
    /\ upserted = 0

-----------------------------------------------------------------------------
(* The queries. *)

Clamp(x) == IF x < 0 THEN 0 ELSE IF x > TopScore THEN TopScore ELSE x

\* Label by label; a path comes before the paths under it.
Before(p, q) ==
    \E k \in 1..Len(q) :
        /\ k - 1 <= Len(p)
        /\ SubSeq(p, 1, k - 1) = SubSeq(q, 1, k - 1)
        /\ k = Len(p) + 1 \/ (k <= Len(p) /\ p[k] < q[k])

Smallest(a, b) == IF a < b THEN a ELSE b

\* ORDER BY distance LIMIT entry_limit: rows of equal distance in any order.
IsEntryList(s) ==
    /\ IsInjective(s)
    /\ \A i, k \in DOMAIN s : i < k => sim[s[i]] >= sim[s[k]]
    /\ \A i \in DOMAIN s, n \in Nodes \ {s[k] : k \in DOMAIN s} : sim[s[i]] >= sim[n]

EntryLists == {s \in [1..Smallest(req.entry_limit, Cardinality(Nodes)) -> Nodes] : IsEntryList(s)}

\* path <@ entry ORDER BY path LIMIT page_limit.  SELECT names path::text path, so
\* the rows are ordered as text in the database's collation, not as a tree: which
\* of the pages under an entry a LIMIT keeps is left open.
Under(t, n) == {p \in Pages : t[p] # NoPath /\ IsPrefix(NodePath[n], t[p])}
IsFetch(t, n, batch) == Cardinality(batch) = Smallest(req.page_limit, Cardinality(Under(t, n)))
Fetches(n) == {batch \in SUBSET Under(table, n) : IsFetch(table, n, batch)}

\* Mutant: the score is not clamped.
ToCandidateRaw(p, n) == [node |-> p, path |-> table[p], score |-> sim[n]]
ToCandidate(p, n) == [node |-> p, path |-> table[p], score |-> Clamp(sim[n])]

-----------------------------------------------------------------------------
(* execute_search *)

\* Mutant: the later entry wins.
ReplacesAlways(new, old) == TRUE
Replaces(new, old) == \/ new.score > old.score
                      \/ new.score = old.score /\ Before(new.path, old.path)

\* Mutant: candidates are collected without merging those of one page.
MergeAll(old, new) == old \cup new
Merge(old, new) ==
    {c \in old : ~\E d \in new : d.node = c.node /\ Replaces(d, c)}
      \cup {d \in new : ~\E c \in old : c.node = d.node /\ ~Replaces(d, c)}

\* Mutant: stops with one candidate too few.
EnoughEarly(count, found) == found + 1 >= req.top_k * req.pool /\ count >= req.min_entries
Enough(count, found) == found >= req.top_k * req.pool /\ count >= req.min_entries

SearchSummaryNodes ==
    /\ phase = "entries"
    /\ entries' \in EntryLists
    /\ phase' = IF entries' = <<>> THEN "filter" ELSE "scan"
    /\ UNCHANGED <<req, sim, table, scanned, cands, answer, result, upserted>>

ScanEntry ==
    /\ phase = "scan"
    /\ scanned' = scanned + 1
    /\ \E batch \in Fetches(entries[scanned + 1]) :
          cands' = Merge(cands, {ToCandidate(p, entries[scanned + 1]) : p \in batch})
    /\ phase' = IF scanned' = Len(entries) \/ Enough(scanned', Cardinality(cands'))
                THEN "filter" ELSE "scan"
    /\ UNCHANGED <<req, sim, table, entries, answer, result, upserted>>

-----------------------------------------------------------------------------
(* _build_filtered_result *)

Found == {c.node : c \in cands}

\* Mutant: a response may leave candidates out.
ValidButPartial(a) == \A p \in Pages : IF p \in Found THEN a[p] # "twice" ELSE a[p] = "none"

\* _validate_decisions and _to_decision_map: one decision for each candidate.
Valid(a) == \A p \in Pages : IF p \in Found THEN a[p] \in {"keep", "drop"} ELSE a[p] = "none"

RanksBefore(c, d) == c.score > d.score \/ (c.score = d.score /\ Before(c.path, d.path))

\* Sorted by (-score, path); equal keys in any order.
Rankings(S) == {s \in SetToAllKPermutations(S) : 
                   Len(s) = Cardinality(S) /\ \A i, k \in DOMAIN s : i < k => ~RanksBefore(s[k], s[i])}
Cut(s) == SubSeq(s, 1, Smallest(req.top_k, Len(s)))

Kept(a) == {c \in cands : a[c.node] = "keep"}

\* Mutant: cuts to top_k first and filters what is left.
AnswersCutFirst(a) == {SelectSeq(Cut(s), LAMBDA c : a[c.node] = "keep") : s \in Rankings(cands)}
Answers(a) == {Cut(s) : s \in Rankings(Kept(a))}

NothingFound ==
    /\ phase = "filter"
    /\ cands = {}
    /\ phase' = "done"
    /\ UNCHANGED <<req, sim, table, entries, scanned, cands, answer, result, upserted>>

FilterAnswers ==
    /\ phase = "filter"
    /\ cands # {}
    /\ answer' \in [Pages -> Verdicts]
    /\ Valid(answer')
    /\ result' \in Answers(answer')
    /\ phase' = "done"
    /\ UNCHANGED <<req, sim, table, entries, scanned, cands, upserted>>

\* A malformed or incomplete response, or a failing query: the attempt raises.
AttemptFails ==
    /\ phase \in {"entries", "scan"} \/ (phase = "filter" /\ cands # {})
    /\ phase' = "failed"
    /\ UNCHANGED <<req, sim, table, entries, scanned, cands, answer, result, upserted>>

\* upsert_page_nodes of an ingestion: a new row, or a new path for a row.
UpsertPage ==
    /\ phase \in {"entries", "scan"}
    /\ upserted < Upserts
    /\ upserted' = upserted + 1
    /\ \E p \in Pages, path \in PagePaths : table' = [table EXCEPT ![p] = path]
    /\ UNCHANGED <<req, sim, phase, entries, scanned, cands, answer, result>>

Next ==
    \/ SearchSummaryNodes \/ ScanEntry
    \/ NothingFound \/ FilterAnswers \/ AttemptFails
    \/ UpsertPage

Spec == Init /\ [][Next]_vars

-----------------------------------------------------------------------------
(* Properties *)

\* A page read under several entries is one candidate, with a score and a path
\* that were read together: the path lies under a scanned entry of that score.
CandidatesSound ==
    /\ \A c, d \in cands : c.node = d.node => c = d
    /\ \A c \in cands : \E i \in 1..scanned :
          c.score = Clamp(sim[entries[i]]) /\ IsPrefix(NodePath[entries[i]], c.path)

\* Its score is the best among the entries above it, whatever their order.
ScoreIsBest ==
    upserted = 0 =>
        \A c \in cands, i \in 1..scanned :
            IsPrefix(NodePath[entries[i]], c.path)
              /\ Cardinality(Under(table, entries[i])) <= req.page_limit
                => c.score >= Clamp(sim[entries[i]])

\* Stopping early costs nothing but ties: with a filter that keeps everything
\* and no ingestion meanwhile, the answer has as many candidates as a full scan
\* would give, and no page of an entry that was not scanned scores higher.
Unscanned == {entries[i] : i \in (scanned + 1)..Len(entries)}
Reachable == UNION {Under(table, entries[i]) : i \in DOMAIN entries}
EarlyStopCostsNothing ==
    phase = "done" /\ upserted = 0 /\ (\A c \in cands : answer[c.node] = "keep") =>
        /\ Cardinality(Pages) <= req.page_limit =>
              Len(result) = Smallest(req.top_k, Cardinality(Reachable))
        /\ \A n \in Unscanned, i \in DOMAIN result : result[i].score >= Clamp(sim[n])

\* A result is given only when every candidate has been judged once; it holds
\* approved candidates only, and no approved one that is left out ranks before
\* one that is in.
ResultIsBestApproved ==
    phase = "done" =>
        /\ \A c \in cands : answer[c.node] \in {"keep", "drop"}
        /\ \A i \in DOMAIN result : result[i] \in cands /\ answer[result[i].node] = "keep"
        /\ Len(result) = Smallest(req.top_k, Cardinality(Kept(answer)))
        /\ \A i \in DOMAIN result, c \in Kept(answer) \ {result[k] : k \in DOMAIN result} :
              ~RanksBefore(c, result[i])
=============================================================================
