--------------------------- MODULE SearchRequest ----------------------------
(***************************************************************************)
(* One search_code or find_similar_code request, from the retrieval legs   *)
(* through fusion, blending and reranking to the answer, while a reindex   *)
(* in a background thread goes on changing the index it searches.          *)
(*                                                                         *)
(* The manager's calls hold its storage lock one by one: the two legs of a *)
(* hybrid search may see different states of the index, and a file whose   *)
(* chunks are removed and added again may be missed or half seen.          *)
(*                                                                         *)
(* A vector or a full-text row is a key <<chunk, text>>: the vectors of    *)
(* former texts of a chunk are never removed, rows of former texts are     *)
(* left only in indexes of older releases.  What a query finds relevant is *)
(* an order of the keys, the scores an engine gives are high or low.       *)
(***************************************************************************)
EXTENDS Integers, SequencesExt, Selections

CONSTANTS
    Files, Chunks,
    FileOf,          \* the file of each chunk
    Matching,        \* the chunks the filters of a request let through
    NoChunk,         \* what fills up a list of chunk ids that was too short
    Texts,           \* the number of texts a chunk can have had
    Stores,          \* the indexes a request may find
    VectorOrders,    \* how the keys can be ranked by similarity,
    LexicalOrders,   \* and, those that contain a term, by BM25
    Boosted,         \* sets of chunks the signals of a query may promote
    Central,         \* the files the code graph may promote
    Modes, Engines,
    Ks,              \* the numbers of results asked for
    CandidateK,      \* candidate_k of retrieve_hybrid_candidates
    VectorWeight, LexicalWeight,
    PoolSize,        \* LLM_RERANK_POOL, or SONNET_RERANKER_POOL_SIZE
    JudgePool,       \* the results the agentic ranking shows to its model
    Replies,         \* the numbers that model may answer with
    Rankings,        \* and those the listwise engine may answer with
    Subject,         \* the chunk find_similar_code is asked about
    Edited,          \* the files the reindex finds edited
    MaxUpdates       \* bound: calls of the reindex during a request

Keys == Chunks \X (1..Texts)
LlmEngines == {"sonnet", "openai", "listwise"}
Scorers    == {"sonnet", "openai"}

ASSUME SearchAssumption ==
    /\ FileOf \in [Chunks -> Files]
    /\ Matching \subseteq Chunks /\ NoChunk \notin Chunks /\ Subject \in Chunks
    /\ Modes \subseteq {"keyword", "semantic", "hybrid", "similar"}
    /\ Engines \subseteq LlmEngines \cup {"cross-encoder", "off"}
    /\ \A s \in Stores : s.live \subseteq Chunks /\ s.rows \subseteq Keys
    /\ VectorOrders \cup LexicalOrders
         \subseteq Seq((Chunks \cup {NoChunk}) \X (1..Texts))
    /\ Replies \cup Rankings \subseteq Seq(Int)
    /\ Ks \cup {CandidateK, PoolSize, JudgePool, Texts, VectorWeight,
             LexicalWeight} \subseteq Nat \ {0}

VARIABLES
    vectors, live, rows,  \* the index: FAISS with its chunk ids, the metadata
                          \* database, the full-text table
    updates,              \* calls of the reindex so far
    lived,                \* history: the chunks live at a time of the request
    request,              \* its mode, k, filters and configured engine
    phase,                \* where the request is
    promoted,             \* the chunks the signals of the query promote
    near, words,          \* what the vector and the lexical leg returned
    candidates,           \* the hybrid order
    calls,                \* the scoring calls of a pointwise engine
    late,                 \* their time is up
    applied,              \* last_reranker_metadata: the engine was applied
    judged,               \* the agentic ranking was
    answer

index  == <<vectors, live, rows, updates, lived>>
legs   == <<near, words>>
engine == <<calls, late, applied>>
vars   == <<index, request, phase, promoted, legs, candidates, engine, judged,
            answer>>

Lesser(a, b) == IF a < b THEN a ELSE b
Take(n, s)  == SubSeq(s, 1, Lesser(n, Len(s)))
Place(s, x) == CHOOSE i \in DOMAIN s : s[i] = x

\* The chunks of s that are the first of their file in the order.
OncePerFile(s, order) ==
    Picked(s, {i \in DOMAIN s :
                 \A d \in ToSet(s) : FileOf[d] = FileOf[s[i]] =>
                     Place(order, s[i]) <= Place(order, d)})

\* s by descending score; elements of one score keep their order.
Descending(s, score) ==
    With(s, LAMBDA t :
        Sorted(t, [i \in DOMAIN t |->
                     {j \in DOMAIN t : \/ score[t[j]] > score[t[i]]
                                       \/ score[t[j]] = score[t[i]] /\ j < i}]))

\* The members of S first.
Promote(S, s) == Among(s, S) \o Among(s, Chunks \ S)
-----------------------------------------------------------------------------
\* The manager's read operations, each under the storage lock.

Admits(c) == request.filtered => c \in Matching

\* Mutant of Chosen: chunks whose metadata is gone are not skipped.
ChosenGone(keys) ==
    Among(Once([i \in DOMAIN keys |-> keys[i][1]]), {c \in Chunks : Admits(c)})

\* The live chunks of a list of keys that pass the filters, each once.
Chosen(keys) ==
    Among(Once([i \in DOMAIN keys |-> keys[i][1]]), {c \in live : Admits(c)})

\* Mutant of VectorLeg: a chunk is returned once per vector.
VectorLegRepeats(order, k) ==
    LET found == Take(3 * k, Among(order, vectors))
        named == [i \in DOMAIN found |-> found[i][1]]
    IN  Take(k, Among(named, {c \in live : Admits(c)}))

\* search: three times k neighbours, stale vectors among them.
VectorLeg(order, k) ==
    Take(k, Chosen(Take(3 * k, Among(order, vectors))))

\* search_bm25: k rows, three times as many if there are filters.
LexicalLeg(order, k) ==
    Take(k, Chosen(Take(IF request.filtered THEN 3 * k ELSE k,
                        Among(order, rows))))

\* get_similar_chunks.
SimilarTo(c, order, k) ==
    IF c \notin live THEN <<>>
    ELSE Take(k, Among(VectorLeg(order, k + 1), Chunks \ {c}))
-----------------------------------------------------------------------------
\* The reindex.  RemoveFile leaves the vectors, AddFile replaces rows.

ChunksOf(f) == {c \in Chunks : FileOf[c] = f}
NextText(c) == Cardinality({n \in 1..Texts : <<c, n>> \in vectors}) + 1

\* Updates after the legs have been read change nothing for the request.
MayUpdate == /\ phase \in {"asked", "lexical"}
             /\ updates < MaxUpdates
             /\ updates' = updates + 1
             /\ UNCHANGED <<request, phase, promoted, legs, candidates, engine,
                            judged, answer>>

RemoveFile(f) ==
    LET gone == ChunksOf(f) \cap live
    IN  /\ MayUpdate
        /\ gone # {}
        /\ live' = live \ gone
        /\ rows' = {r \in rows : r[1] \notin gone}
        /\ UNCHANGED <<vectors, lived>>

AddFile(f) ==
    LET new == ChunksOf(f)
        fresh == {<<c, NextText(c)>> : c \in new}
    IN  /\ MayUpdate
        /\ new \cap live = {}
        /\ fresh \subseteq Keys
        /\ vectors' = vectors \cup fresh
        /\ live' = live \cup new
        /\ rows' = {r \in rows : r[1] \notin new} \cup fresh
        /\ lived' = lived \cup new
-----------------------------------------------------------------------------
\* Retrieval.

Goto(p) == phase' = p

\* search: the mode says what is done, any other than these is hybrid.
Asks(mode) == phase = "asked" /\ request.mode = mode

\* The factor by which name, path, type and the signals of the query raise a
\* score, and what that does to a leg whose scores fusion discards.
Boost(c)  == IF c \in promoted THEN 2 ELSE 1
Signalled(leg) == Promote(promoted, leg)

\* _rank_results.
Ranked(leg) == Promote(promoted, leg)

\* embed_query raised: search_code answers with an error.
EmbeddingFails ==
    /\ Asks("semantic") \/ Asks("hybrid")
    /\ Goto("failed")
    /\ UNCHANGED <<index, request, promoted, legs, candidates, engine, judged,
                   answer>>

\* _keyword_search.
KeywordSearch ==
    /\ Asks("keyword")
    /\ \E order \in LexicalOrders : answer' = LexicalLeg(order, request.k)
    /\ Goto("found")
    /\ UNCHANGED <<index, request, promoted, legs, candidates, engine, judged>>

\* _semantic_search: ten times k, ranked with boosts, cut to k.
SemanticSearch ==
    /\ Asks("semantic")
    /\ \E order \in VectorOrders : near' = VectorLeg(order, 10 * request.k)
    /\ answer' = Take(request.k, Ranked(near'))
    /\ Goto("found")
    /\ UNCHANGED <<index, request, promoted, words, candidates, engine, judged>>

\* find_similar_to_chunk.
SimilarSearch ==
    /\ Asks("similar")
    /\ \E order \in VectorOrders :
         answer' = SimilarTo(Subject, order, request.k)
    /\ Goto("answered")
    /\ UNCHANGED <<index, request, promoted, legs, candidates, engine, judged>>

\* The vector leg of a hybrid search.
HybridVectors ==
    /\ Asks("hybrid")
    /\ \E order \in VectorOrders :
         near' = Signalled(VectorLeg(order, CandidateK))
    /\ Goto("lexical")
    /\ UNCHANGED <<index, request, promoted, words, candidates, engine, judged,
                   answer>>

\* The lexical leg, empty if the query has no term left or SQLite fails.
HybridWords ==
    /\ phase = "lexical"
    /\ \/ words' = <<>>
       \/ \E order \in LexicalOrders :
            words' = Signalled(LexicalLeg(order, CandidateK))
    /\ Goto("fuse")
    /\ UNCHANGED <<index, request, promoted, near, candidates, engine, judged,
                   answer>>

Scale == 1000000
\* What a ranking adds to the score of x, once per appearance.
Share(ranking, weight, smooth, x) ==
    LET sum[n \in 0..Len(ranking)] ==
            IF n = 0 THEN 0
            ELSE sum[n - 1] + (IF ranking[n] = x
                               THEN weight * (Scale \div (smooth + n)) ELSE 0)
    IN  sum[Len(ranking)]

\* reciprocal_rank_fusion: elements and scores.
RRF(a, wa, b, wb, smooth) ==
    [x \in ToSet(a \o b) |-> Share(a, wa, smooth, x) + Share(b, wb, smooth, x)]
Fused(a, b, score) ==
    Descending(Once(a \o b), score)

\* retrieve_hybrid_candidates: the best 3k, boosted, one chunk per file.
Fuse ==
    /\ phase = "fuse"
    /\ \E score \in {RRF(near, VectorWeight, words, LexicalWeight, 60)} :
       \E best \in {Take(3 * request.k, Fused(near, words, score))} :
       \E boosted \in {[c \in ToSet(best) |-> score[c] * Boost(c)]} :
       \E sorted \in {Descending(best, boosted)} :
         candidates' = OncePerFile(sorted, sorted)
    /\ Goto("blend")
    /\ UNCHANGED <<index, request, promoted, legs, engine, judged, answer>>
-----------------------------------------------------------------------------
\* run_hybrid_pipeline and the rerankers.

\* PPRScorer: the walk over the code graph favours the central files.
ByGraph(s) == Promote({c \in Chunks : FileOf[c] \in Central}, s)

\* Mutant of Blend: the branches without scores of the graph do not go on.
BlendGraphOnly ==
    /\ phase = "blend"
    /\ candidates' = ByGraph(candidates)
    /\ candidates' # candidates
    /\ near' = <<>> /\ words' = <<>>
    /\ Goto("rerank")
    /\ UNCHANGED <<index, request, promoted, engine, judged, answer>>

\* PPR is off, has no candidates or no graph, fails, or raises the score of
\* the files that are central in the code graph.
Blend ==
    /\ phase = "blend"
    /\ candidates' \in {candidates, ByGraph(candidates)}
    /\ near' = <<>> /\ words' = <<>>
    /\ Goto("rerank")
    /\ UNCHANGED <<index, request, promoted, engine, judged, answer>>

Pool == Take(PoolSize, candidates)
Rest == SubSeq(candidates, Len(Pool) + 1, Len(candidates))

\* Mutant of Rank: the candidates beyond the pool are forgotten.
RankPool(pool) == /\ answer' = Take(request.k, pool)
                  /\ applied' = TRUE
                  /\ Goto("found")

\* An engine hands back the pool in some order, the rest keep theirs.
Rank(pool) == /\ answer' = Take(request.k, pool \o Rest)
              /\ applied' = TRUE
              /\ Goto("found")
HybridOrder == /\ answer' = Take(request.k, candidates)
               /\ applied' = FALSE
               /\ Goto("found")

Enough == request.engine \in LlmEngines => Len(candidates) > request.k

\* No candidates, mode off, not more candidates than asked for, a hybrid
\* score above the skip threshold, or an engine that is not configured, whose
\* package is missing or that cannot run here.
NotReranked ==
    /\ phase = "rerank"
    /\ candidates = <<>> \/ request.engine # "cross-encoder"
    /\ HybridOrder
    /\ UNCHANGED <<index, request, promoted, legs, candidates, calls, late,
                   judged>>

\* The cross-encoder ranks all candidates, and reports itself not applied.
CrossEncode ==
    /\ phase = "rerank" /\ request.engine = "cross-encoder"
    /\ candidates # <<>>
    /\ \E ranked \in {candidates, Reverse(candidates)} :
         answer' = Take(request.k, ranked)
    /\ applied' = FALSE
    /\ Goto("found")
    /\ UNCHANGED <<index, request, promoted, legs, candidates, calls, late,
                   judged>>

\* Its model cannot be loaded or fails: the search fails.
CrossEncoderFails ==
    /\ phase = "rerank" /\ request.engine = "cross-encoder"
    /\ candidates # <<>>
    /\ Goto("failed")
    /\ UNCHANGED <<index, request, promoted, legs, candidates, engine, judged,
                   answer>>

\* _validate_response: the ranking names each candidate of the pool once.
Permutes(ranking) == /\ Len(ranking) = Len(Pool)
                     /\ ToSet(ranking) = DOMAIN Pool

\* One call, which its client ends in time.
Listwise ==
    /\ phase = "rerank" /\ request.engine = "listwise"
    /\ candidates # <<>> /\ Enough
    /\ \E ranking \in Rankings :
         IF Permutes(ranking)
         THEN Rank([i \in DOMAIN ranking |-> candidates[ranking[i]]])
         ELSE HybridOrder
    /\ UNCHANGED <<index, request, promoted, legs, candidates, calls, late,
                   judged>>

\* A call for each candidate of the pool.
StartCalls ==
    /\ phase = "rerank" /\ request.engine \in Scorers
    /\ candidates # <<>> /\ Enough
    /\ calls' = [i \in DOMAIN Pool |-> "flying"]
    /\ Goto("scoring")
    /\ UNCHANGED <<index, request, promoted, legs, candidates, late, applied,
                   judged, answer>>

Flying == {i \in DOMAIN calls : calls[i] = "flying"}

CallEnds(i) ==
    /\ phase = "scoring" /\ i \in Flying
    /\ \E outcome \in {"high", "low", "failed"} :
         calls' = [calls EXCEPT ![i] = outcome]
    /\ UNCHANGED <<index, request, phase, promoted, legs, candidates, late,
                   applied, judged, answer>>

\* wait_for cancels what is flying.
SonnetTimeout ==
    /\ phase = "scoring" /\ request.engine = "sonnet" /\ Flying # {}
    /\ calls' = [i \in DOMAIN calls |->
                   IF i \in Flying THEN "cancelled" ELSE calls[i]]
    /\ late' = TRUE
    /\ HybridOrder
    /\ UNCHANGED <<index, request, promoted, legs, candidates, judged>>

\* A thread that runs cannot be cancelled, and leaving the executor waits.
OpenaiTimeout ==
    /\ phase = "scoring" /\ request.engine = "openai" /\ Flying # {} /\ ~late
    /\ late' = TRUE
    /\ UNCHANGED <<index, request, phase, promoted, legs, candidates, calls,
                   applied, judged, answer>>

\* FAILURE_TOLERANCE is 0.3; the threshold separates low scores from high.
Usable == /\ ~late
          /\ 10 * Cardinality({i \in DOMAIN calls : calls[i] = "failed"})
               <= 3 * Len(calls)
          /\ \E i \in DOMAIN calls : calls[i] = "high"
Graded(g) == Among([i \in DOMAIN Pool |-> i],
                   {i \in DOMAIN calls : calls[i] = g})

\* All calls have ended: sort by score, failures last, or keep hybrid order.
Settle ==
    /\ phase = "scoring" /\ Flying = {}
    /\ IF Usable
       THEN \E order \in {Graded("high") \o Graded("low") \o Graded("failed")} :
              Rank([i \in DOMAIN order |-> candidates[order[i]]])
       ELSE HybridOrder
    /\ UNCHANGED <<index, request, promoted, legs, candidates, calls, late,
                   judged>>
-----------------------------------------------------------------------------
\* search_code: one result per file, the optional agentic ranking.

\* Similarity goes down along the leg in a semantic search, where boosts rank
\* but do not change it, and along the results otherwise.
Similarity == IF request.mode = "semantic" THEN near ELSE answer
PerFile ==
    /\ phase = "found"
    /\ answer' = OncePerFile(answer, Similarity)
    /\ Goto("deduped")
    /\ UNCHANGED <<index, request, promoted, legs, candidates, engine, judged>>

\* _agentic_rerank: the baseline fused with the reply, a list of numbers, of
\* which those of a result count; what neither names fills up.
Agentic ==
    /\ phase = "deduped" /\ answer # <<>>
    /\ \E reply \in Replies :
       \E said \in {Among(reply, DOMAIN answer)} :
         LET numbers == [i \in DOMAIN answer |-> i]
             shown == Take(JudgePool, numbers)
         IN  \E score \in {RRF(shown, 1, said, 1, 20)} :
             \E ranked \in {Fused(shown, said, score)} :
             \E rest \in {Among(numbers, DOMAIN answer \ ToSet(ranked))} :
             \E order \in {Take(request.k, ranked \o rest)} :
               answer' = [i \in DOMAIN order |-> answer[order[i]]]
    /\ judged' = TRUE
    /\ Goto("answered")
    /\ UNCHANGED <<index, request, promoted, legs, candidates, engine>>

\* The agentic ranking is off, or its model fails.
Answer ==
    /\ phase = "deduped"
    /\ Goto("answered")
    /\ UNCHANGED <<index, request, promoted, legs, candidates, engine, judged,
                   answer>>
-----------------------------------------------------------------------------
Init ==
    /\ \E s \in Stores : /\ vectors = s.vectors /\ live = s.live
                         /\ rows = s.rows /\ lived = s.live
    /\ updates = 0
    /\ request \in [mode : Modes, k : Ks, filtered : BOOLEAN, engine : Engines]
    /\ request.mode # "hybrid" => request.engine = "off"
    /\ request.mode = "similar" => ~request.filtered
    /\ promoted \in Boosted
    /\ phase = "asked"
    /\ near = <<>> /\ words = <<>> /\ candidates = <<>> /\ answer = <<>>
    /\ calls = <<>> /\ late = FALSE /\ applied = FALSE /\ judged = FALSE

Reindex == \E f \in Edited : RemoveFile(f) \/ AddFile(f)
Searching ==
    \/ EmbeddingFails \/ KeywordSearch \/ SemanticSearch \/ SimilarSearch
    \/ HybridVectors \/ HybridWords \/ Fuse \/ Blend
    \/ NotReranked \/ CrossEncode \/ CrossEncoderFails \/ Listwise
    \/ StartCalls \/ Settle \/ PerFile \/ Answer \/ Agentic
SomeCallEnds == \E i \in 1..PoolSize : CallEnds(i)
Timer == SonnetTimeout \/ OpenaiTimeout

Next == Reindex \/ Searching \/ SomeCallEnds \/ Timer

\* The thread of the request runs on, timers go off, and a call of the OpenAI
\* engine ends within its own timeout.  Nothing makes a Sonnet call end.
Fairness == /\ WF_vars(Searching)
            /\ WF_vars(Timer)
            /\ WF_vars(SomeCallEnds /\ request.engine = "openai")

Spec == Init /\ [][Next]_vars /\ Fairness
-----------------------------------------------------------------------------
\* An answer repeats no chunk, has at most k, names for search_code no file
\* twice, and holds only chunks that the filters let through and that were
\* live at some moment of the request, whatever stale vectors and rows the
\* index holds and whenever the reindex removes and adds them (IX search,
\* search_bm25). No call of its engine is still running.
AnswerSound ==
    phase = "answered" =>
      /\ Len(answer) <= request.k
      /\ \A c \in ToSet(answer) : c \in lived /\ Admits(c)
      /\ \A i, j \in DOMAIN answer : i # j =>
           /\ answer[i] # answer[j]
           /\ request.mode # "similar" => FileOf[answer[i]] # FileOf[answer[j]]
      /\ request.mode = "similar" => Subject \notin ToSet(answer)
      /\ Flying = {}

\* Whatever its engine does, a hybrid search answers with as many of its
\* candidates as were asked for; an engine reorders no more than its pool; and
\* one that reports itself not applied has left the hybrid order alone, but
\* for the cross-encoder (reranker_registry.py 11-14).
NothingLost ==
    phase = "answered" /\ request.mode = "hybrid" =>
      /\ Len(answer) = Lesser(request.k, Len(candidates))
      /\ ~judged /\ applied =>
           \A i \in PoolSize + 1 .. Len(answer) : answer[i] = candidates[i]
      /\ ~judged /\ ~applied /\ request.engine # "cross-encoder" =>
           answer = Take(request.k, candidates)

\* A chunk that both legs rank above another stays above it when nothing is
\* boosted: no vector or row of a former text counts twice (IX 1721, 1225).
FusionMonotone ==
    phase = "blend" /\ promoted = {} =>
      \A i, j \in DOMAIN candidates :
        LET a == candidates[i]  b == candidates[j]
        IN  /\ {a, b} \subseteq ToSet(near) \cap ToSet(words)
            /\ Place(near, a) < Place(near, b)
            /\ Place(words, a) < Place(words, b)
            => i < j

\* Every request is answered, though calls may never end (the cohort timeout
\* of the Sonnet engine, the per-call timeout of the other).
Answered == <>(phase \in {"answered", "failed"})
=============================================================================
