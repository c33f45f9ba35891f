---------------------------- MODULE EmbedderProofs ----------------------------
(***************************************************************************)
(* Proofs about Embedder: that a search gets the vector of its query       *)
(* through both caches, whatever threads do to them between its steps,     *)
(* that an index is opened with the configuration it was made with, and    *)
(* that it has one vector for each chunk, of its text.                     *)
(***************************************************************************)
EXTENDS Embedder, SelectionProofs

-----------------------------------------------------------------------------
(* Frames.  What the fields of a call hold is left open.                   *)

Calls(S) ==
    [pc : S, project : S, config : S, query : S, vec : S, db : S, kind : S, files : S,
     todo : S, found : S, miss : S, fresh : S, sent : S, tries : S, done : S,
     failed : S]

Shape == \E S : call \in [Threads -> Calls(S)]

(* A run that goes on keeps its project and its configuration.             *)
SameRun(c, d) == d.project = c.project /\ d.config = c.config
Continues(c, d) == SameRun(c, d) /\ d.pc \in {"batch", "post"}

LEMMA Disjoint == \A t \in Indexers : t \in Threads /\ t \notin Searchers
BY ConstantsAssumption DEF ConstantsAssumption, Threads

LEMMA IdleShape == Idle.pc = "idle" /\ \E S : Idle \in Calls(S)
<1> DEFINE S == {"idle", Unset, NoConfig, FALSE, "search", {}, <<>>, 0}
<1>1. Idle \in Calls(S)
    BY DEF Idle, Calls
<1> QED BY <1>1 DEF Idle

(* What is done to one call.                                               *)
LEMMA OneCall ==
    ASSUME Shape, NEW t \in Threads, NEW c, call' = [call EXCEPT ![t] = c],
           \E S : c \in Calls(S)
    PROVE  /\ Shape'
           /\ call'[t] = c
           /\ \A u \in Threads \ {t} : call'[u] = call[u]
<1>1. PICK S : call \in [Threads -> Calls(S)]
    BY DEF Shape
<1>2. PICK T : c \in Calls(T)
    OBVIOUS
<1>3. call' \in [Threads -> Calls(S \cup T)]
    BY <1>1, <1>2 DEF Calls
<1> QED BY <1>1, <1>3 DEF Shape

LEMMA NextBatchShape ==
    ASSUME NEW S, NEW c \in Calls(S)
    PROVE  /\ \E T : NextBatch(c) \in Calls(T)
           /\ Continues(c, NextBatch(c))
<1>1. NextBatch(c) \in Calls(S \cup {"batch", Rest(c.todo), <<>>, 0, FALSE})
    BY DEF NextBatch, Calls
<1>2. Continues(c, NextBatch(c))
    BY DEF NextBatch, Calls, Continues, SameRun
<1> QED BY <1>1, <1>2

LEMMA RaisedShape ==
    ASSUME NEW S, NEW c \in Calls(S)
    PROVE  /\ \E T : Raised(c) \in Calls(T)
           /\ Raised(c) = Idle \/ Continues(c, Raised(c))
<1>1. PICK T : NextBatch(c) \in Calls(T)
    BY NextBatchShape
<1>2. [NextBatch(c) EXCEPT !.failed = TRUE] \in Calls(T \cup {TRUE})
    BY <1>1 DEF Calls
<1>3. Continues(c, [NextBatch(c) EXCEPT !.failed = TRUE])
    BY <1>1, NextBatchShape DEF Calls, Continues, SameRun
<1> QED BY <1>2, <1>3, IdleShape DEF Raised

(* A step of a run leaves the other calls and the query caches alone.      *)
LEMMA IndexFrame ==
    ASSUME Shape, NEW t \in Indexers, IndexStep(t)
    PROVE  /\ Shape'
           /\ \A u \in Threads \ {t} : call'[u] = call[u]
           /\ memory' = memory /\ asked' = asked /\ env' = env
           /\ \/ OpenIndex(t)
              \/ /\ UNCHANGED <<stored, index>>
                 /\ call'[t] = Idle \/ Continues(call[t], call'[t])
              \/ /\ Publish(t)
                 /\ SameRun(call[t], call'[t]) /\ call'[t].pc = "describe"
              \/ Describe(t) /\ call'[t] = Idle
<1>1. PICK S : t \in Threads /\ call \in [Threads -> Calls(S)] /\ call[t] \in Calls(S)
    BY Disjoint DEF Shape
<1>2. memory' = memory /\ asked' = asked /\ env' = env
    BY DEF IndexStep, OpenIndex, Bulk, LookUp, Post, Settle, Publish, Describe
<1>3. ASSUME NEW c, call' = [call EXCEPT ![t] = c], \E T : c \in Calls(T),
             c = Idle \/ Continues(call[t], c)
      PROVE  /\ Shape'
             /\ \A u \in Threads \ {t} : call'[u] = call[u]
             /\ call'[t] = Idle \/ Continues(call[t], call'[t])
    BY <1>1, <1>3, OneCall
<1>4. CASE OpenIndex(t)
  <2>1. PICK p \in Projects, kind \in {"full", "incremental"} :
          \E files \in IF kind = "full" THEN {Files(p)} ELSE SUBSET Files(p) \ {{}} :
            \E d \in Embedders(p) :
              call' = [call EXCEPT ![t] =
                [Idle EXCEPT !.project = p, !.config = d, !.kind = kind, !.files = files,
                   !.todo = Chunked(p, files),
                   !.pc = IF /\ kind = "full"
                             /\ env.bulk <= Len(ChunksOf[p])
                             /\ d.provider \in TypedProviders
                          THEN "bulk" ELSE "batch"]]
    BY <1>4 DEF OpenIndex
  <2>2. PICK files, d, pc :
              call' = [call EXCEPT ![t] =
                [Idle EXCEPT !.project = p, !.config = d, !.kind = kind, !.files = files,
                   !.todo = Chunked(p, files), !.pc = pc]]
    BY <2>1
  <2> DEFINE c == [Idle EXCEPT !.project = p, !.config = d, !.kind = kind, !.files = files,
                   !.todo = Chunked(p, files), !.pc = pc]
  <2>3. PICK T : Idle \in Calls(T)
    BY IdleShape
  <2>4. c \in Calls(T \cup {p, d, kind, files, Chunked(p, files), pc})
    BY <2>3 DEF Calls
  <2> HIDE DEF c
  <2> QED BY <2>2, <2>4, <1>1, <1>2, <1>4, OneCall DEF c
<1>5. CASE Bulk(t)
  <2>0. UNCHANGED <<stored, index>>
    BY <1>5 DEF Bulk
  <2>1. PICK vectors :
          call' = IF Len(vectors) = Len(call[t].todo)
                  THEN [call EXCEPT ![t].pc = "batch", ![t].todo = <<>>,
                                    ![t].done = Paired(call[t].todo, vectors)]
                  ELSE [call EXCEPT ![t].pc = "batch"]
    BY <1>5 DEF Bulk
  <2> DEFINE done == Paired(call[t].todo, vectors)
             c == [call[t] EXCEPT !.pc = "batch", !.todo = <<>>, !.done = done]
             d == [call[t] EXCEPT !.pc = "batch"]
  <2>2. c \in Calls(S \cup {"batch", <<>>, done}) /\ Continues(call[t], c)
    BY <1>1 DEF Calls, Continues, SameRun
  <2>3. d \in Calls(S \cup {"batch"}) /\ Continues(call[t], d)
    BY <1>1 DEF Calls, Continues, SameRun
  <2>4. call' = [call EXCEPT ![t] = c] \/ call' = [call EXCEPT ![t] = d]
    BY <2>1, <1>1
  <2> HIDE DEF c, d
  <2> QED BY <2>0, <2>2, <2>3, <2>4, <1>2, <1>3
<1>6. CASE LookUp(t)
  <2>0. UNCHANGED <<stored, index>>
    BY <1>6 DEF LookUp
  <2>1. PICK db, rows, miss :
          \/ call' = [call EXCEPT ![t].pc = "post", ![t].db = FALSE, ![t].miss = miss]
          \/ call' = [call EXCEPT ![t].pc = "post", ![t].db = db, ![t].found = rows,
                                  ![t].miss = miss]
    <3> DEFINE cfg == call[t].config
               chunks == FirstBatch(call[t].todo)
               texts == TextsOf(chunks)
    <3>1. CASE Grouped(cfg)
      BY <1>6, <3>1 DEF LookUp
    <3>2. CASE ~Grouped(cfg)
      <4> DEFINE found(db) == Among(documents, {r \in ToSet(documents) :
                                  /\ db
                                  /\ Usable(cfg, r)
                                  /\ r.text \in ToSet(texts)})
                 missed(db) == IF db
                               THEN Among(Once(texts), {x \in ToSet(texts) :
                                      \A r \in ToSet(found(db)) : r.text # x})
                               ELSE texts
      <4>1. PICK db \in Opened(call[t].kind) :
              call' = [call EXCEPT ![t].pc = "post", ![t].db = db, ![t].found = found(db),
                                   ![t].miss = missed(db)]
        BY <1>6, <3>2, Zenon DEF LookUp
      <4> HIDE DEF found, missed
      <4> QED BY <4>1, Zenon
    <3> QED BY <3>1, <3>2
  <2> DEFINE c == [call[t] EXCEPT !.pc = "post", !.db = FALSE, !.miss = miss]
             d == [call[t] EXCEPT !.pc = "post", !.db = db, !.found = rows, !.miss = miss]
  <2>2. c \in Calls(S \cup {"post", FALSE, miss}) /\ Continues(call[t], c)
    BY <1>1 DEF Calls, Continues, SameRun
  <2>3. d \in Calls(S \cup {"post", db, rows, miss}) /\ Continues(call[t], d)
    BY <1>1 DEF Calls, Continues, SameRun
  <2>4. call' = [call EXCEPT ![t] = c] \/ call' = [call EXCEPT ![t] = d]
    <3>1. [call EXCEPT ![t].pc = "post", ![t].db = FALSE, ![t].miss = miss]
            = [call EXCEPT ![t] = c]
      BY <1>1
    <3>2. [call EXCEPT ![t].pc = "post", ![t].db = db, ![t].found = rows, ![t].miss = miss]
            = [call EXCEPT ![t] = d]
      BY <1>1
    <3> HIDE DEF c, d
    <3> QED BY <2>1, <3>1, <3>2, Zenon
  <2> HIDE DEF c, d
  <2> QED BY <2>0, <2>2, <2>3, <2>4, <1>2, <1>3
<1>7. CASE Post(t)
  <2>0. UNCHANGED <<stored, index>>
    BY <1>7 DEF Post
  <2>1. PICK some :
          \/ call' = [call EXCEPT ![t].fresh = @ \o some, ![t].tries = 0,
                                  ![t].sent = @ + Len(Asked(call[t]))]
          \/ call' = [call EXCEPT ![t].tries = @ + 1]
          \/ call' = [call EXCEPT ![t] = Raised(call[t])]
    BY <1>7 DEF Post
  <2> DEFINE fresh == call[t].fresh \o some
             sent == call[t].sent + Len(Asked(call[t]))
             tries == call[t].tries + 1
             c == [call[t] EXCEPT !.fresh = fresh, !.tries = 0, !.sent = sent]
             d == [call[t] EXCEPT !.tries = tries]
  <2>2. c \in Calls(S \cup {fresh, 0, sent}) /\ Continues(call[t], c)
    BY <1>1, <1>7 DEF Calls, Continues, SameRun, Post
  <2>3. d \in Calls(S \cup {tries}) /\ Continues(call[t], d)
    BY <1>1, <1>7 DEF Calls, Continues, SameRun, Post
  <2>4. \/ call' = [call EXCEPT ![t] = c] \/ call' = [call EXCEPT ![t] = d]
        \/ call' = [call EXCEPT ![t] = Raised(call[t])]
    BY <2>1, <1>1
  <2> HIDE DEF c, d
  <2>5. CASE call' = [call EXCEPT ![t] = Raised(call[t])]
    BY <2>0, <2>5, <1>1, <1>2, <1>3, RaisedShape
  <2> QED BY <2>0, <2>2, <2>3, <2>4, <2>5, <1>2, <1>3
<1>8. CASE Settle(t)
  <2>0. UNCHANGED <<stored, index>>
    BY <1>8 DEF Settle
  <2>1. CASE Sound(call[t])
    <3> DEFINE done == NextBatch(call[t]).done \o Embedded(call[t])
               c == [NextBatch(call[t]) EXCEPT !.done = done]
    <3>1. PICK T : NextBatch(call[t]) \in Calls(T)
      BY <1>1, NextBatchShape
    <3>2. c \in Calls(T \cup {done}) /\ Continues(call[t], c)
      BY <3>1, <1>1, NextBatchShape DEF Calls, Continues, SameRun
    <3>3. call' = [call EXCEPT ![t] = c]
      BY <1>8, <2>1, Zenon DEF Settle
    <3> HIDE DEF c
    <3> QED BY <2>0, <3>2, <3>3, <1>2, <1>3
  <2>2. CASE ~Sound(call[t])
    <3>1. call' = [call EXCEPT ![t] = Raised(call[t])]
      BY <1>8, <2>2, <1>1 DEF Settle
    <3> QED BY <2>0, <3>1, <1>1, <1>2, <1>3, RaisedShape
  <2> QED BY <2>1, <2>2
<1>9. CASE Publish(t)
  <2> DEFINE c == [call[t] EXCEPT !.pc = "describe"]
  <2>1. c \in Calls(S \cup {"describe"}) /\ SameRun(call[t], c) /\ c.pc = "describe"
    BY <1>1 DEF Calls, SameRun
  <2>2. CASE Whole(call[t])
    <3>1. call' = [call EXCEPT ![t] = c]
      BY <1>9, <2>2 DEF Publish, To
    <3> HIDE DEF c
    <3> QED BY <3>1, <2>1, <1>1, <1>2, <1>9, OneCall
  <2>3. CASE ~Whole(call[t])
    <3>1. call' = [call EXCEPT ![t] = Idle] /\ UNCHANGED <<stored, index>>
      BY <1>9, <2>3 DEF Publish
    <3> QED BY <3>1, <1>2, <1>3, IdleShape
  <2> QED BY <2>2, <2>3
<1>10. CASE Describe(t)
  <2>1. call' = [call EXCEPT ![t] = Idle]
    BY <1>10 DEF Describe
  <2> QED BY <2>1, <1>1, <1>2, <1>10, OneCall, IdleShape
<1> QED BY <1>2, <1>4, <1>5, <1>6, <1>7, <1>8, <1>9, <1>10 DEF IndexStep

-----------------------------------------------------------------------------
(* Both caches have under a key a vector of its text and of its space, and *)
(* a search that has a vector has one of its query.                        *)

Exact(row) == row.vec.by = row.space /\ Folded[row.vec.of] = row.text

MemoryInv ==
    /\ memory \in Seq(ToSet(memory))
    /\ \A row \in ToSet(memory) : Exact(row)

AskedInv == \A row \in asked : Exact(row)

Sure(c) ==
    c.pc \in {"touch", "trim", "write", "answered"} =>
      /\ c.vec.by = Space(c.config)
      /\ Folded[c.vec.of] = Folded[c.query]
      /\ c.vec.dim = c.config.dim

QueryInv ==
    /\ Shape
    /\ MemoryInv
    /\ AskedInv
    /\ \A t \in Searchers : Sure(call[t])

(* Sequences of rows.                                                      *)
LEMMA RowsOf ==
    ASSUME NEW S, NEW rows \in Seq(S)
    PROVE  ToSet(rows) \subseteq S /\ rows \in Seq(ToSet(rows))
<1>1. \A i \in 1 .. Len(rows) : rows[i] \in ToSet(rows)
    BY DEF ToSet
<1>2. \A i \in DOMAIN rows : rows[i] \in S
    OBVIOUS
<1> QED BY <1>1, <1>2 DEF ToSet

LEMMA MemoryOf ==
    ASSUME NEW S, \A row \in S : Exact(row), memory' \in Seq(S)
    PROVE  MemoryInv'
BY RowsOf DEF MemoryInv, Exact

LEMMA WithoutRow ==
    ASSUME NEW S, NEW rows \in Seq(S), NEW space, NEW text, Holds(rows, space, text)
    PROVE  Without(rows, space, text) \in Seq(S)
<1> DEFINE i == CHOOSE i \in DOMAIN rows : rows[i].space = space /\ rows[i].text = text
<1>1. i \in 1 .. Len(rows)
    BY DEF Holds
<1> HIDE DEF i
<1>2. SubSeq(rows, 1, i - 1) \in Seq(S) /\ SubSeq(rows, i + 1, Len(rows)) \in Seq(S)
    BY <1>1, SubSeqProperties
<1> QED BY <1>2 DEF Without, RemoveAt, i

LEMMA SetRow ==
    ASSUME NEW S, NEW rows \in Seq(S), NEW row
    PROVE  SetIn(rows, row) \in Seq(S \cup {row})
BY DEF SetIn

LEMMA KeptRow ==
    ASSUME NEW rows, NEW space, NEW text, Holds(rows, space, text),
           \A row \in ToSet(rows) : Exact(row)
    PROVE  /\ Kept(rows, space, text).by = space
           /\ Folded[Kept(rows, space, text).of] = text
<1> DEFINE r == CHOOSE r \in ToSet(rows) : r.space = space /\ r.text = text
<1>1. r \in ToSet(rows) /\ r.space = space /\ r.text = text
    BY DEF Holds, ToSet
<1> QED BY <1>1 DEF Kept, Exact

LEMMA QueryInit == Init => QueryInv
<1> SUFFICES ASSUME Init PROVE QueryInv
    OBVIOUS
<1>1. PICK S : Idle \in Calls(S)
    BY IdleShape
<1>2. call \in [Threads -> Calls(S)] /\ \A t \in Searchers : call[t] = Idle
    BY <1>1 DEF Init, Threads
<1>3. memory = <<>> /\ asked = {}
    BY DEF Init
<1>4. MemoryInv
    BY <1>3 DEF MemoryInv, ToSet
<1> QED BY <1>2, <1>3, <1>4, IdleShape DEF QueryInv, Shape, AskedInv, Sure

(* What one search does, if its own call and the caches come out right.    *)
LEMMA OneSearch ==
    ASSUME QueryInv, NEW t \in Searchers, NEW c, call' = [call EXCEPT ![t] = c],
           \E S : c \in Calls(S), Sure(c), MemoryInv', AskedInv'
    PROVE  QueryInv'
<1>1. /\ Shape' /\ call'[t] = c
      /\ \A u \in Threads \ {t} : call'[u] = call[u]
    BY OneCall DEF QueryInv, Threads
<1>2. \A u \in Searchers : Sure(call'[u])
    BY <1>1 DEF QueryInv, Threads
<1> QED BY <1>1, <1>2 DEF QueryInv, Sure, Space

(* Steps that only move a search on.                                       *)
LEMMA SearchMoves ==
    ASSUME QueryInv, NEW t \in Searchers, NEW pc, To(t, pc),
           \/ pc \notin {"touch", "trim", "write", "answered"}
           \/ call[t].pc \in {"touch", "trim", "write", "answered"},
           MemoryInv', AskedInv'
    PROVE  QueryInv'
<1>1. PICK S : call[t] \in Calls(S)
    BY DEF QueryInv, Shape, Threads
<1> DEFINE c == [call[t] EXCEPT !.pc = pc]
<1>2. c \in Calls(S \cup {pc})
    BY <1>1 DEF Calls
<1>3. c.pc = pc /\ c.vec = call[t].vec /\ c.config = call[t].config
      /\ c.query = call[t].query
    BY <1>1 DEF Calls
<1>4. call' = [call EXCEPT ![t] = c]
    BY DEF To
<1> HIDE DEF c
<1>5. Sure(c)
    BY <1>3 DEF QueryInv, Sure
<1> QED BY <1>2, <1>4, <1>5, OneSearch

LEMMA SearchEnds ==
    ASSUME QueryInv, NEW t \in Searchers, End(t), MemoryInv', AskedInv'
    PROVE  QueryInv'
BY IdleShape, OneSearch DEF End, Sure

LEMMA CachesKept ==
    ASSUME QueryInv, UNCHANGED <<memory, asked>>
    PROVE  MemoryInv' /\ AskedInv'
BY DEF QueryInv, MemoryInv, AskedInv, Exact

LEMMA SearchKeeps ==
    ASSUME QueryInv, NEW t \in Searchers, SearchStep(t)
    PROVE  QueryInv'
<1> DEFINE cfg == call[t].config
           key == Folded[call[t].query]
<1>1. PICK S : call \in [Threads -> Calls(S)] /\ call[t] \in Calls(S)
    BY DEF QueryInv, Shape, Threads
<1>2. memory \in Seq(ToSet(memory)) /\ \A row \in ToSet(memory) : Exact(row)
    BY DEF QueryInv, MemoryInv
<1>3. CASE OpenSearch(t)
  <2>1. PICK p, q, d :
          call' = [call EXCEPT ![t] = [Idle EXCEPT !.pc = "look", !.project = p,
                                                   !.config = d, !.query = q]]
    BY <1>3 DEF OpenSearch
  <2>2. PICK T : Idle \in Calls(T)
    BY IdleShape
  <2> DEFINE c == [Idle EXCEPT !.pc = "look", !.project = p, !.config = d, !.query = q]
  <2>3. c \in Calls(T \cup {"look", p, d, q}) /\ c.pc = "look"
    BY <2>2 DEF Calls
  <2>4. Sure(c)
    BY <2>3 DEF Sure
  <2> HIDE DEF c
  <2> QED BY <1>3, <2>1, <2>3, <2>4, OneSearch, CachesKept DEF c, OpenSearch
<1>4. CASE Look(t)
  <2>1. \E pc \in {"take", "read"} : To(t, pc)
    BY <1>4 DEF Look
  <2> QED BY <2>1, <1>4, SearchMoves, CachesKept DEF Look
<1>5. CASE Take(t)
  <2>1. CASE ~Mine(t, memory)
    BY <2>1, <1>5, SearchEnds, CachesKept DEF Take
  <2>2. CASE Mine(t, memory)
    <3> DEFINE vec == Kept(memory, Space(cfg), key)
               pc == IF vec.dim = cfg.dim THEN "touch" ELSE "drop"
               c == [call[t] EXCEPT !.vec = vec, !.pc = pc]
    <3>1. vec.by = Space(cfg) /\ Folded[vec.of] = key
      BY <2>2, <1>2, KeptRow DEF Mine
    <3>2. call' = [call EXCEPT ![t] = c]
      BY <1>5, <2>2, <1>1 DEF Take
    <3> HIDE DEF vec
    <3>3. c \in Calls(S \cup {vec, "touch", "drop"})
      BY <1>1 DEF Calls
    <3>4. c.vec = vec /\ c.pc = pc /\ c.config = cfg /\ c.query = call[t].query
      BY <1>1 DEF Calls
    <3>5. Sure(c)
      BY <3>1, <3>4 DEF Sure
    <3> HIDE DEF c
    <3> QED BY <1>5, <3>2, <3>3, <3>5, OneSearch, CachesKept DEF Take
  <2> QED BY <2>1, <2>2
<1>6. CASE Touch(t)
  <2> DEFINE others == Without(memory, Space(cfg), key)
             row == MyRow(t, Kept(memory, Space(cfg), key))
  <2>1. AskedInv'
    BY <1>6 DEF Touch, QueryInv, AskedInv, Exact
  <2>2. CASE ~Mine(t, memory)
    BY <2>2, <1>6, SearchEnds, CachesKept DEF Touch
  <2>3. CASE Mine(t, memory)
    <3>1. others \in Seq(ToSet(memory))
      BY <2>3, <1>2, WithoutRow DEF Mine
    <3>2. Exact(row)
      BY <2>3, <1>2, KeptRow DEF Mine, MyRow, Row, Exact
    <3> HIDE DEF others, row
    <3>3. Append(others, row) \in Seq(ToSet(memory) \cup {row})
      BY <3>1, AppendProperties
    <3>4. CASE call[t].pc = "drop"
      <4>1. To(t, "read") /\ memory' = others
        BY <1>6, <2>3, <3>4 DEF Touch, others
      <4>2. MemoryInv'
        BY <4>1, <3>1, <1>2, MemoryOf
      <4> QED BY <4>1, <4>2, <2>1, SearchMoves
    <3>5. CASE call[t].pc = "touch"
      <4>1. To(t, "answered") /\ memory' = Append(others, row)
        BY <1>6, <2>3, <3>5 DEF Touch, others, row
      <4>2. MemoryInv'
        BY <4>1, <3>3, <3>2, <1>2, MemoryOf
      <4> QED BY <4>1, <4>2, <2>1, <3>5, SearchMoves
    <3> QED BY <3>4, <3>5, <1>6 DEF Touch
  <2> QED BY <2>2, <2>3
<1>7. CASE ReadRow(t)
  <2>1. AskedInv'
    BY <1>7 DEF ReadRow, QueryInv, AskedInv, Exact
  <2>2. CASE \E r \in asked :
               /\ r.space = Space(cfg) /\ r.text = key /\ r.vec.dim = cfg.dim
               /\ memory' = SetIn(memory, r)
               /\ call' = [call EXCEPT ![t].pc = "answered", ![t].vec = r.vec]
    <3>1. PICK r \in asked :
               /\ r.space = Space(cfg) /\ r.text = key /\ r.vec.dim = cfg.dim
               /\ memory' = SetIn(memory, r)
               /\ call' = [call EXCEPT ![t].pc = "answered", ![t].vec = r.vec]
      BY <2>2
    <3>2. Exact(r)
      BY DEF QueryInv, AskedInv
    <3>3. memory' \in Seq(ToSet(memory) \cup {r})
      BY <3>1, <1>2, SetRow
    <3>4. MemoryInv'
      BY <3>2, <3>3, <1>2, MemoryOf
    <3> DEFINE c == [call[t] EXCEPT !.pc = "answered", !.vec = r.vec]
    <3>5. c \in Calls(S \cup {"answered", r.vec})
      BY <1>1 DEF Calls
    <3>6. c.vec = r.vec /\ c.config = cfg /\ c.query = call[t].query
      BY <1>1 DEF Calls
    <3>7. Sure(c)
      BY <3>1, <3>2, <3>6 DEF Sure, Exact
    <3>8. call' = [call EXCEPT ![t] = c]
      BY <3>1, <1>1
    <3> HIDE DEF c
    <3> QED BY <3>4, <3>5, <3>7, <3>8, <2>1, OneSearch
  <2>3. CASE \E db : /\ call' = [call EXCEPT ![t].pc = "encode", ![t].db = db]
                     /\ UNCHANGED memory
    <3>1. PICK db : call' = [call EXCEPT ![t].pc = "encode", ![t].db = db]
      BY <2>3
    <3> DEFINE c == [call[t] EXCEPT !.pc = "encode", !.db = db]
    <3>2. c \in Calls(S \cup {"encode", db}) /\ c.pc = "encode"
      BY <1>1 DEF Calls
    <3>3. Sure(c)
      BY <3>2 DEF Sure
    <3>4. call' = [call EXCEPT ![t] = c]
      BY <3>1, <1>1
    <3>5. MemoryInv'
      BY <2>3 DEF QueryInv, MemoryInv
    <3> HIDE DEF c
    <3> QED BY <3>2, <3>3, <3>4, <3>5, <2>1, OneSearch
  <2> QED BY <2>2, <2>3, <1>7 DEF ReadRow
<1>8. CASE EncodeQuery(t)
  <2>1. AskedInv'
    BY <1>8 DEF EncodeQuery, QueryInv, AskedInv, Exact
  <2>2. CASE End(t) /\ UNCHANGED memory
    BY <2>2, <1>8, SearchEnds, CachesKept DEF EncodeQuery
  <2>3. CASE \E vec \in {Vector(cfg, call[t].query), Odd(cfg, call[t].query)} :
               /\ vec.dim = cfg.dim
               /\ memory' = SetIn(memory, MyRow(t, vec))
               /\ call' = [call EXCEPT ![t].pc = "trim", ![t].vec = vec]
    <3>1. PICK vec \in {Vector(cfg, call[t].query), Odd(cfg, call[t].query)} :
               /\ vec.dim = cfg.dim
               /\ memory' = SetIn(memory, MyRow(t, vec))
               /\ call' = [call EXCEPT ![t].pc = "trim", ![t].vec = vec]
      BY <2>3
    <3>2. vec.by = Space(cfg) /\ vec.of = call[t].query
      BY DEF Vector, Odd, Space
    <3>3. Exact(MyRow(t, vec))
      BY <3>2 DEF MyRow, Row, Exact
    <3>4. memory' \in Seq(ToSet(memory) \cup {MyRow(t, vec)})
      BY <3>1, <1>2, SetRow
    <3>5. MemoryInv'
      BY <3>3, <3>4, <1>2, MemoryOf
    <3> DEFINE c == [call[t] EXCEPT !.pc = "trim", !.vec = vec]
    <3>6. c \in Calls(S \cup {"trim", vec})
      BY <1>1 DEF Calls
    <3>7. c.vec = vec /\ c.config = cfg /\ c.query = call[t].query
      BY <1>1 DEF Calls
    <3>8. Sure(c)
      BY <3>1, <3>2, <3>7 DEF Sure
    <3>9. call' = [call EXCEPT ![t] = c]
      BY <3>1, <1>1
    <3> HIDE DEF c
    <3> QED BY <3>5, <3>6, <3>8, <3>9, <2>1, OneSearch
  <2> QED BY <2>2, <2>3, <1>8 DEF EncodeQuery
<1>9. CASE Trim(t)
  <2>1. AskedInv'
    BY <1>9 DEF Trim, QueryInv, AskedInv, Exact
  <2>2. memory' \in Seq(ToSet(memory))
    <3>1. memory # <<>> => Tail(memory) \in Seq(ToSet(memory))
      BY <1>2, HeadTailProperties
    <3>2. memory = <<>> => Tail(memory) \in Seq(ToSet(memory)) \/ ~(Len(memory) > MemoryMax)
      BY ConstantsAssumption DEF ConstantsAssumption
    <3> QED BY <3>1, <3>2, <1>2, <1>9 DEF Trim
  <2>3. MemoryInv'
    BY <2>2, <1>2, MemoryOf
  <2> QED BY <2>1, <2>3, <1>9, SearchMoves DEF Trim
<1>10. CASE WriteRow(t)
  <2> DEFINE row == MyRow(t, call[t].vec)
  <2>1. MemoryInv'
    BY <1>10 DEF WriteRow, QueryInv, MemoryInv
  <2>2. Exact(row)
    BY <1>10 DEF WriteRow, QueryInv, Sure, MyRow, Row, Exact
  <2>3. asked' \subseteq asked \cup {row}
    <3> DEFINE kept == {r \in asked : r.space # row.space \/ r.text # row.text}
    <3>1. asked' \in {asked} \cup {kept \cup {row} : db \in {TRUE} \cap {call[t].db}}
      BY <1>10 DEF WriteRow
    <3>2. kept \subseteq asked
      OBVIOUS
    <3> HIDE DEF kept, row
    <3> QED BY <3>1, <3>2
  <2>4. AskedInv'
    BY <2>2, <2>3 DEF QueryInv, AskedInv, Exact
  <2> QED BY <2>1, <2>4, <1>10, SearchMoves DEF WriteRow
<1>11. CASE Return(t)
  BY <1>11, SearchEnds, CachesKept DEF Return
<1> QED BY <1>3, <1>4, <1>5, <1>6, <1>7, <1>8, <1>9, <1>10, <1>11 DEF SearchStep

LEMMA QueryStep == QueryInv /\ [Next]_vars => QueryInv'
<1> SUFFICES ASSUME QueryInv, [Next]_vars PROVE QueryInv'
    OBVIOUS
<1>1. CASE UNCHANGED vars
  BY <1>1 DEF vars, QueryInv, Shape, MemoryInv, AskedInv, Sure, Space, Exact
<1>2. ASSUME NEW p \in Projects, Register(p) \/ Tear(p) PROVE QueryInv'
  BY <1>2 DEF Register, Tear, QueryInv, Shape, MemoryInv, AskedInv, Sure, Space, Exact
<1>3. ASSUME NEW t \in Searchers, SearchStep(t) PROVE QueryInv'
  BY <1>3, SearchKeeps
<1>4. ASSUME NEW t \in Indexers, IndexStep(t) PROVE QueryInv'
  <2>1. /\ Shape' /\ memory' = memory /\ asked' = asked
        /\ \A u \in Searchers : call'[u] = call[u]
    BY <1>4, IndexFrame, Disjoint DEF QueryInv, Threads
  <2>2. MemoryInv' /\ AskedInv'
    BY <2>1, CachesKept
  <2> QED BY <2>1, <2>2 DEF QueryInv, Sure, Space
<1>5. ASSUME NEW e \in Environments, Restart(e) PROVE QueryInv'
  <2>1. PICK S : Idle \in Calls(S)
    BY IdleShape
  <2>2. Shape' /\ \A t \in Searchers : call'[t].pc = "idle"
    BY <1>5, <2>1, IdleShape DEF Restart, Shape, Threads
  <2>3. MemoryInv' /\ AskedInv'
    BY <1>5 DEF Restart, QueryInv, MemoryInv, AskedInv, Exact, ToSet
  <2> QED BY <2>2, <2>3 DEF QueryInv, Sure
<1> QED BY <1>1, <1>2, <1>3, <1>4, <1>5 DEF Next

(* A search answers with the vector of its query up to case, from its      *)
(* provider and model, in its input mode and dimension, however many       *)
(* threads and projects share the two caches and whatever they drop,       *)
(* replace or trim between its steps (embedder.py 1291-1372).              *)
THEOREM QueryExactHolds == Spec => []QueryExact
<1>1. Init => QueryInv
  BY QueryInit
<1>2. QueryInv /\ [Next]_vars => QueryInv'
  BY QueryStep
<1>3. QueryInv => QueryExact
  BY DEF QueryInv, QueryExact, Sure, Space, Vector
<1> QED BY <1>1, <1>2, <1>3, PTL DEF Spec

-----------------------------------------------------------------------------
(* What is resolved.                                                       *)

LEMMA FirstIs ==
    ASSUME NEW values, NEW i \in DOMAIN values, DOMAIN values \subseteq Int,
           values[i] # Unset, \A j \in DOMAIN values : j < i => values[j] = Unset
    PROVE  FirstSet(values) = values[i]
<1> DEFINE set == {j \in DOMAIN values : values[j] # Unset}
<1>1. i \in set /\ \A j \in set : i <= j
    OBVIOUS
<1>2. Min(set) = i
    BY <1>1 DEF Min
<1> QED BY <1>1, <1>2 DEF FirstSet

LEMMA NoneSet ==
    ASSUME NEW values, \A j \in DOMAIN values : values[j] = Unset
    PROVE  FirstSet(values) = Unset
BY DEF FirstSet

LEMMA First2 ==
    ASSUME NEW a, NEW b
    PROVE  FirstSet(<<a, b>>) = IF a # Unset THEN a ELSE b
<1> DEFINE s == <<a, b>>
<1>1. DOMAIN s = {1, 2} /\ s[1] = a /\ s[2] = b
    OBVIOUS
<1> HIDE DEF s
<1>2. CASE a # Unset
    BY <1>1, <1>2, FirstIs
<1>3. CASE a = Unset /\ b # Unset
    BY <1>1, <1>3, FirstIs
<1>4. CASE a = Unset /\ b = Unset
    BY <1>1, <1>4, NoneSet
<1> QED BY <1>2, <1>3, <1>4 DEF s

LEMMA First3 ==
    ASSUME NEW a, NEW b, NEW c
    PROVE  FirstSet(<<a, b, c>>) = IF a # Unset THEN a ELSE IF b # Unset THEN b ELSE c
<1> DEFINE s == <<a, b, c>>
<1>1. DOMAIN s = {1, 2, 3} /\ s[1] = a /\ s[2] = b /\ s[3] = c
    OBVIOUS
<1> HIDE DEF s
<1>2. CASE a # Unset
    BY <1>1, <1>2, FirstIs
<1>3. CASE a = Unset /\ b # Unset
    BY <1>1, <1>3, FirstIs
<1>4. CASE a = Unset /\ b = Unset /\ c # Unset
    BY <1>1, <1>4, FirstIs
<1>5. CASE a = Unset /\ b = Unset /\ c = Unset
    BY <1>1, <1>5, NoneSet
<1> QED BY <1>2, <1>3, <1>4, <1>5 DEF s

LEMMA First4 ==
    ASSUME NEW a, NEW b, NEW c, NEW d
    PROVE  FirstSet(<<a, b, c, d>>) = IF a # Unset THEN a ELSE IF b # Unset THEN b
                                      ELSE IF c # Unset THEN c ELSE d
<1> DEFINE s == <<a, b, c, d>>
<1>1. DOMAIN s = {1, 2, 3, 4} /\ s[1] = a /\ s[2] = b /\ s[3] = c /\ s[4] = d
    OBVIOUS
<1> HIDE DEF s
<1>2. CASE a # Unset
    BY <1>1, <1>2, FirstIs
<1>3. CASE a = Unset /\ b # Unset
    BY <1>1, <1>3, FirstIs
<1>4. CASE a = Unset /\ b = Unset /\ c # Unset
    BY <1>1, <1>4, FirstIs
<1>5. CASE a = Unset /\ b = Unset /\ c = Unset /\ d # Unset
    BY <1>1, <1>5, FirstIs
<1>6. CASE a = Unset /\ b = Unset /\ c = Unset /\ d = Unset
    BY <1>1, <1>6, NoneSet
<1> QED BY <1>2, <1>3, <1>4, <1>5, <1>6 DEF s

(* Descriptions of an embedder, and those in which nothing is left open.   *)
Descriptions ==
    [provider : Providers, model : Names, dim : Or(Nat), it : BOOLEAN, mode : Names]

TypedRight(c) ==
    /\ c.provider = "voyage-context" => c.it = TRUE
    /\ c.provider \notin TypedProviders => c.it = FALSE

(* What may stand in a project_info.json.                                  *)
Described(p, st) ==
    /\ st \in Descriptions
    /\ Named[p] \in {Unset, st.provider}
    /\ TypedRight(st)
    /\ st.provider = "jina" => st.dim # Unset

(* What an index is made with.                                             *)
Settled(p, c) ==
    /\ Described(p, c)
    /\ c.dim # Unset
    /\ Acceptable(c.provider, c.model, c.dim)

(* A description that a configuration was made from.                       *)
Agrees(st, c) ==
    /\ st.provider = c.provider /\ st.model = c.model
    /\ st.it = c.it /\ st.mode = c.mode
    /\ st.dim \in {Unset, c.dim}

LEMMA Values ==
    /\ Unset \notin Names /\ Unset \notin Nat /\ Unset \notin BOOLEAN
    /\ Providers = {"openai", "voyage", "voyage-code-3", "voyage-context", "jina", "local"}
    /\ Providers \subseteq Names /\ "code" \in Names /\ "torn" \in Names
    /\ \A p \in Providers : Defaults[p] \in Names
    /\ NativeDimension \in Nat
BY ConstantsAssumption, SettingsAssumption
   DEF ConstantsAssumption, SettingsAssumption, Providers, Defaults, Names

LEMMA DescribedSet ==
    ASSUME NEW c \in Descriptions
    PROVE  c.provider # Unset /\ c.model # Unset /\ c.mode # Unset /\ c.it # Unset
<1>1. /\ c.provider \in Names /\ c.model \in Names /\ c.mode \in Names
      /\ c.it \in BOOLEAN
    BY Values DEF Descriptions
<1>2. c.it # Unset
    BY <1>1, Values, Zenon
<1> QED BY <1>1, <1>2, Values

LEMMA Dimensions ==
    ASSUME NEW model
    PROVE  /\ KnownDimension(model) \in Or(Nat)
           /\ "jina" \in KnownProviders(model) => KnownDimension(model) = 896
<1>1. KnownDimension(model) \in Or(Nat)
    BY DEF KnownDimension, Or
<1>2. "jina" \in KnownProviders(model) => model = "jina-0.5b"
    BY DEF KnownProviders
<1>3. KnownDimension("jina-0.5b") = 896
    BY DEF KnownDimension
<1> QED BY <1>1, <1>2, <1>3

(* What nothing is left open of is resolved to itself.                     *)
LEMMA ResolvedAgain ==
    ASSUME NEW p \in Projects, NEW c, Settled(p, c), NEW named \in {Unset, c.provider},
           NEW e \in Environments
    PROVE  Resolved(named, c, e) = c
<1>1. /\ c \in Descriptions /\ c.dim # Unset
      /\ c.provider # Unset /\ c.model # Unset /\ c.mode # Unset /\ c.it # Unset
    BY DescribedSet DEF Settled, Described
<1> DEFINE mode == FirstSet(<<c.mode, e.mode, "code">>)
<1>2. mode = c.mode
    BY <1>1, First3
<1>3. ProviderOf(named, c, e, mode) = c.provider
    BY <1>1, First4 DEF ProviderOf
<1>4. ModelOf(c.provider, c, e) = c.model
    BY <1>1, First3 DEF ModelOf
<1>5. DimensionOf(c.provider, c.model, c, e) = c.dim
    BY <1>1, First2 DEF DimensionOf
<1>6. OutputDimension(c.provider, c.model, c.dim, e) = c.dim
    BY <1>1, First3 DEF OutputDimension
<1>7. InputTyped(c.provider, c.model, c, e) = c.it
  <2>1. FirstSet(<<c.it, e.it>>) = c.it
    BY <1>1, First2
  <2> QED BY <2>1 DEF InputTyped, Settled, Described, TypedRight
<1>8. c = [provider |-> c.provider, model |-> c.model, dim |-> c.dim, it |-> c.it,
           mode |-> c.mode]
    BY <1>1 DEF Descriptions
<1> HIDE DEF mode
<1> QED BY <1>2, <1>3, <1>4, <1>5, <1>6, <1>7, <1>8 DEF Resolved, Settled, mode

Completed(c) == [c EXCEPT !.dim = IF @ = Unset THEN NativeDimension ELSE @]

(* What is stored decides all but a dimension that it leaves open.         *)
LEMMA ResolvedStored ==
    ASSUME NEW p \in Projects, NEW st, Described(p, st), NEW e \in Environments,
           Resolved(Named[p], st, e) # Refused
    PROVE  /\ Settled(p, Completed(Resolved(Named[p], st, e)))
           /\ Agrees(st, Completed(Resolved(Named[p], st, e)))
<1>1. /\ st \in Descriptions /\ Named[p] \in {Unset, st.provider}
      /\ st.provider # Unset /\ st.model # Unset /\ st.mode # Unset /\ st.it # Unset
    BY DescribedSet DEF Described
<1> DEFINE named == Named[p]
           mode == FirstSet(<<st.mode, e.mode, "code">>)
           dim == DimensionOf(st.provider, st.model, st, e)
           out == OutputDimension(st.provider, st.model, dim, e)
           r == [provider |-> st.provider, model |-> st.model, dim |-> out,
                 it |-> st.it, mode |-> st.mode]
<1>2. mode = st.mode
    BY <1>1, First3
<1>3. ProviderOf(named, st, e, mode) = st.provider
    BY <1>1, First4 DEF ProviderOf
<1>4. ModelOf(st.provider, st, e) = st.model
    BY <1>1, First3 DEF ModelOf
<1>5. InputTyped(st.provider, st.model, st, e) = st.it
  <2>1. FirstSet(<<st.it, e.it>>) = st.it
    BY <1>1, First2
  <2> QED BY <2>1 DEF InputTyped, Described, TypedRight
<1> HIDE DEF mode
<1>6. Resolved(named, st, e) = r /\ Acceptable(st.provider, st.model, dim)
    BY <1>2, <1>3, <1>4, <1>5 DEF Resolved, mode
<1>7. e.dim \in Or(Nat) /\ dim \in Or(Nat) /\ (st.dim # Unset => dim = st.dim)
  <2>1. e.dim \in Or(Nat)
    BY SettingsAssumption DEF SettingsAssumption
  <2> QED BY <2>1, <1>1, First2 DEF DimensionOf, Descriptions, Or
<1>8. out = IF dim # Unset THEN dim
            ELSE IF st.provider = "jina" /\ e.truncate # Unset THEN e.truncate
            ELSE KnownDimension(st.model)
    BY First3 DEF OutputDimension
<1>9. dim = Unset => st.provider # "jina"
    BY <1>7 DEF Described
<1> DEFINE final == IF out = Unset THEN NativeDimension ELSE out
<1> HIDE DEF dim, out
<1>10. final \in Nat /\ final # Unset /\ st.dim \in {Unset, final}
    BY <1>7, <1>8, <1>9, Dimensions, Values DEF Or
<1>11. Acceptable(st.provider, st.model, final)
  <2>1. CASE dim # Unset
    BY <2>1, <1>6, <1>8
  <2>2. CASE dim = Unset
    <3>1. KnownDimension(st.model) \in {Unset, final}
      BY <2>2, <1>8, <1>9
    <3> QED BY <2>2, <3>1, <1>6, <1>9 DEF Acceptable
  <2> QED BY <2>1, <2>2
<1> DEFINE c == [provider |-> st.provider, model |-> st.model, dim |-> final,
                 it |-> st.it, mode |-> st.mode]
<1>12. Completed(r) = c
    BY DEF Completed
<1> HIDE DEF final
<1>13. c \in Descriptions
    BY <1>1, <1>10 DEF Descriptions, Or
<1>14. Settled(p, c)
    BY <1>1, <1>10, <1>11, <1>13 DEF Settled, Described, TypedRight
<1>15. Agrees(st, c)
    BY <1>10 DEF Agrees
<1> HIDE DEF c, r
<1> QED BY <1>6, <1>12, <1>14, <1>15

(* The first call for a project leaves a description.                      *)
LEMMA ResolvedFirst ==
    ASSUME NEW p \in Projects, NEW e \in Environments,
           Resolved(Named[p], NoConfig, e) # Refused
    PROVE  Described(p, Resolved(Named[p], NoConfig, e))
<1> DEFINE st == NoConfig
           mode == FirstSet(<<st.mode, e.mode, "code">>)
           provider == ProviderOf(Named[p], st, e, mode)
           model == ModelOf(provider, st, e)
           dim == DimensionOf(provider, model, st, e)
           out == OutputDimension(provider, model, dim, e)
           it == InputTyped(provider, model, st, e)
           r == [provider |-> provider, model |-> model, dim |-> out, it |-> it,
                 mode |-> mode]
<1>1. /\ st.provider = Unset /\ st.model = Unset /\ st.dim = Unset /\ st.it = Unset
      /\ st.mode = Unset
    BY DEF NoConfig, Refused
<1>2. /\ e.provider \in Or(Names) /\ e.model \in Or(Names) /\ e.localModel \in Or(Names)
      /\ e.dim \in Or(Nat) /\ e.truncate \in Or(Nat) /\ e.it \in BOOLEAN
      /\ e.mode \in Or(Names) /\ Named[p] \in Or(Names)
    BY SettingsAssumption DEF SettingsAssumption
<1>3. Resolved(Named[p], st, e) = r /\ Acceptable(provider, model, dim)
    BY DEF Resolved
<1>4. mode \in Names
    BY <1>1, <1>2, First3, Values DEF Or
<1>5. provider \in Providers /\ Named[p] \in {Unset, provider}
  <2>1. provider \in Providers
    BY <1>3 DEF Acceptable
  <2>2. Named[p] # Unset => provider = Named[p]
    BY First4 DEF ProviderOf
  <2> HIDE DEF provider
  <2> QED BY <2>1, <2>2
<1> HIDE DEF provider, mode
<1>6. provider # Unset
    BY <1>5, Values
<1>7. model \in Names
  <2>1. AmbientModel(provider, e) \in Or(Names)
    BY <1>2 DEF AmbientModel, Or
  <2>2. Defaults[provider] \in Names
    BY <1>5, Values
  <2> QED BY <2>1, <2>2, <1>1, First3 DEF ModelOf, Or
<1> HIDE DEF model
<1>8. dim \in Or(Nat)
    BY <1>1, <1>2, First2 DEF DimensionOf, Or
<1>9. out \in Or(Nat)
    BY <1>2, <1>8, First3, Dimensions DEF OutputDimension, Or
<1>10. provider = "jina" => out # Unset
  <2>1. provider = "jina" => "jina" \in KnownProviders(model)
    BY <1>3 DEF Acceptable
  <2> QED BY <2>1, First3, Dimensions, Values DEF OutputDimension
<1>11. it \in BOOLEAN
  <2>1. FirstSet(<<IF provider = st.provider /\ model = st.model THEN st.it ELSE Unset,
                   e.it>>) = e.it
    BY <1>1, <1>6, First2
  <2> QED BY <2>1, <1>2 DEF InputTyped
<1>12. /\ provider = "voyage-context" => it = TRUE
       /\ provider \notin TypedProviders => it = FALSE
    BY DEF InputTyped, TypedProviders
<1> HIDE DEF dim, out, it
<1>13. r \in Descriptions
    BY <1>4, <1>5, <1>7, <1>9, <1>11 DEF Descriptions
<1> QED BY <1>3, <1>5, <1>10, <1>12, <1>13 DEF Described, TypedRight

-----------------------------------------------------------------------------
(* The runs of a project agree on what to make its index with, because     *)
(* what they go by does not change before the first of them publishes, and *)
(* its manifest decides from then on.                                      *)

Busy(t) == call[t].pc # "idle"

Suits(p, c) ==
    /\ Settled(p, c)
    /\ stored[p] = Torn \/ (stored[p] \in Descriptions /\ Agrees(stored[p], c))

RunInv(t) ==
    LET p == call[t].project
        c == call[t].config
    IN  /\ p \in Projects
        /\ Suits(p, c)
        /\ index[p] # NoIndex => index[p].config = c
        /\ index[p] = NoIndex /\ stored[p] # Torn => c \in Embedders(p)
        /\ call[t].pc = "describe" => index[p] # NoIndex

ConfigTypes ==
    /\ env \in Environments
    /\ stored \in [Projects -> Descriptions \cup {NoConfig, Torn}]
    /\ \E S : index \in [Projects -> [config : S, vectors : S]]

ConfigInv ==
    /\ ConfigTypes
    /\ \A p \in Projects : stored[p] \in Descriptions => Described(p, stored[p])
    /\ \A p \in Projects : index[p] # NoIndex => Suits(p, index[p].config)
    /\ \A t \in Indexers : Busy(t) => RunInv(t)
    /\ \A t, u \in Indexers :
         Busy(t) /\ Busy(u) /\ call[t].project = call[u].project
           => call[t].config = call[u].config

LEMMA NoneDescribed == NoConfig \notin Descriptions /\ Torn \notin Descriptions
                       /\ NoConfig # Torn
<1>1. NoConfig.provider = Unset /\ Torn.provider = Unset
    BY DEF NoConfig, Torn, Refused
<1>2. NoConfig.mode = Unset /\ Torn.mode = "torn"
    BY DEF NoConfig, Torn, Refused
<1>3. \A c \in Descriptions : c.provider # Unset
    BY DescribedSet
<1> QED BY <1>1, <1>2, <1>3, Values

(* An index is opened with what it was made with.                          *)
LEMMA OpenedRight ==
    ASSUME ConfigInv, NEW p \in Projects, index[p] # NoIndex, NEW e \in Environments
    PROVE  Configured(p, e) = index[p].config
<1> DEFINE st == stored[p]
           made == index[p].config
<1>1. Settled(p, made) /\ (st = Torn \/ (st \in Descriptions /\ Agrees(st, made)))
    BY DEF ConfigInv, Suits
<1>2. /\ made \in Descriptions /\ made # NoConfig /\ made.dim # Unset
      /\ Named[p] \in {Unset, made.provider} /\ made.it # Unset
      /\ made.provider # Unset /\ made.model # Unset /\ made.mode # Unset
    BY <1>1, NoneDescribed, DescribedSet DEF Settled, Described
<1> HIDE DEF st, made
<1>3. CASE st = Torn
  <2>1. Configured(p, e) = Reconstructed(Named[p], made, e)
    BY <1>3 DEF Configured, st, made
  <2>2. Reconstructed(Named[p], made, e) = Resolved(made.provider, made, e)
    BY <1>2 DEF Reconstructed
  <2> QED BY <2>1, <2>2, <1>1, ResolvedAgain DEF made
<1>4. CASE st \in Descriptions
  <2>1. Agrees(st, made) /\ st # NoConfig /\ st # Torn
    BY <1>1, <1>4, NoneDescribed
  <2>2. Preferred(st, made) = made
    <3>1. CASE Complete(st)
      <4>1. st.dim = made.dim
        BY <2>1, <3>1 DEF Complete, Agrees
      <4>2. [st EXCEPT !.it = made.it] = made
        <5> DEFINE d == [provider |-> made.provider, model |-> made.model,
                         dim |-> made.dim, it |-> made.it, mode |-> made.mode]
        <5>1. made = d
          BY <1>2 DEF Descriptions
        <5>2. st = [provider |-> st.provider, model |-> st.model, dim |-> st.dim,
                    it |-> st.it, mode |-> st.mode]
          BY <1>4 DEF Descriptions
        <5>3. st = d
          BY <5>2, <2>1, <4>1 DEF Agrees
        <5>4. [d EXCEPT !.it = made.it] = d
          OBVIOUS
        <5> QED BY <5>1, <5>3, <5>4
      <4> QED BY <4>2, <1>2, <2>1, <3>1 DEF Preferred, Agrees
    <3>2. CASE ~Complete(st)
      <4>1. FirstSet(<<st.mode, "code">>) = made.mode
        BY <1>2, <2>1, First2 DEF Agrees
      <4>2. [made EXCEPT !.mode = made.mode] = made
        BY <1>2 DEF Descriptions
      <4> QED BY <4>1, <4>2, <1>2, <2>1, <3>2 DEF Preferred, Agrees
    <3> QED BY <3>1, <3>2
  <2>3. made # Refused
    BY <1>2 DEF NoConfig
  <2>4. Configured(p, e) = Resolved(Named[p], made, e)
    BY <2>1, <2>2, <2>3 DEF Configured, st, made
  <2> QED BY <2>4, <1>1, <1>2, ResolvedAgain DEF made
<1> QED BY <1>1, <1>3, <1>4

(* What a run starts with.                                                 *)
LEMMA StartedRight ==
    ASSUME ConfigInv, NEW p \in Projects, stored[p] # NoConfig, NEW c \in Embedders(p)
    PROVE  /\ Suits(p, c)
           /\ index[p] # NoIndex => index[p].config = c
<1> DEFINE r == Configured(p, env)
<1>1. c = Completed(r) /\ r # Refused
    BY DEF Embedders, Completed
<1>2. env \in Environments /\ stored[p] \in Descriptions \cup {Torn}
    BY DEF ConfigInv, ConfigTypes
<1>3. CASE index[p] # NoIndex
  <2>1. r = index[p].config /\ Suits(p, r)
    BY <1>2, <1>3, OpenedRight DEF ConfigInv
  <2>2. r.dim # Unset /\ r \in Descriptions
    BY <2>1 DEF Suits, Settled, Described
  <2> HIDE DEF r
  <2>3. Completed(r) = r
    BY <2>2 DEF Completed, Descriptions
  <2> QED BY <1>1, <2>1, <2>3
<1>4. CASE index[p] = NoIndex
  <2>1. index[p].config = NoConfig
    BY <1>4 DEF NoIndex
  <2>2. stored[p] # Torn
    BY <1>1, <2>1 DEF Configured, Reconstructed
  <2>3. stored[p] \in Descriptions /\ stored[p] # Refused
    BY <1>2, <2>2 DEF NoConfig
  <2>4. r = Resolved(Named[p], stored[p], env)
    BY <2>1, <2>2, <2>3 DEF Configured, Preferred
  <2>5. Described(p, stored[p])
    BY <2>3 DEF ConfigInv
  <2> HIDE DEF r
  <2>6. Settled(p, c) /\ Agrees(stored[p], c)
    BY <1>1, <1>2, <2>4, <2>5, ResolvedStored
  <2> QED BY <2>6, <2>3, <1>4 DEF Suits
<1> QED BY <1>3, <1>4

LEMMA NotBusy == ~(Idle.pc # "idle")
BY IdleShape

LEMMA ConfigInit == Init => ConfigInv
<1> SUFFICES ASSUME Init PROVE ConfigInv
    OBVIOUS
<1>1. \A p \in Projects : stored[p] = NoConfig /\ index[p] = NoIndex
    BY DEF Init
<1>2. \A t \in Indexers : ~Busy(t)
    BY Disjoint, NotBusy DEF Init, Busy
<1>3. NoIndex \in [config : {NoConfig, <<>>}, vectors : {NoConfig, <<>>}]
    BY DEF NoIndex
<1>4. ConfigTypes
    BY <1>3 DEF ConfigTypes, Init
<1> QED BY <1>1, <1>2, <1>4, NoneDescribed DEF ConfigInv

(* What is resolved for a project that nothing is written of changes       *)
(* neither with the other projects nor with the calls.                     *)
LEMMA EmbeddersKept ==
    ASSUME NEW p \in Projects, env' = env, stored'[p] = stored[p], index'[p] = index[p]
    PROVE  Embedders(p)' = Embedders(p)
BY DEF Embedders, Configured

(* Steps that write no description and no index.                           *)
LEMMA ConfigKept ==
    ASSUME ConfigInv, UNCHANGED <<stored, index>>, env' \in Environments,
           \A t \in Indexers : Busy(t)' =>
             Busy(t) /\ SameRun(call[t], call'[t])
             /\ env' = env /\ (call'[t].pc = "describe" => call[t].pc = "describe")
    PROVE  ConfigInv'
<1>1. ConfigTypes'
    BY DEF ConfigInv, ConfigTypes
<1>2. \A p \in Projects : \A c : Suits(p, c)' <=> Suits(p, c)
    BY DEF Suits
<1>3. ASSUME NEW t \in Indexers, Busy(t)' PROVE RunInv(t)'
  <2>1. PICK p \in Projects, c \in {call[t].config} : p = call[t].project
    BY <1>3 DEF ConfigInv, RunInv
  <2>2. RunInv(t) /\ env' = env /\ call'[t].project = p /\ call'[t].config = c
    BY <1>3, <2>1 DEF ConfigInv, SameRun
  <2>3. Embedders(p)' = Embedders(p)
    BY <2>2, EmbeddersKept
  <2>4. /\ Suits(p, c)
        /\ index[p] # NoIndex => index[p].config = c
        /\ index[p] = NoIndex /\ stored[p] # Torn => c \in Embedders(p)'
        /\ call'[t].pc = "describe" => index[p] # NoIndex
    BY <1>3, <2>1, <2>2, <2>3 DEF RunInv
  <2> QED BY <2>2, <2>4 DEF RunInv, Suits
<1>4. ASSUME NEW t \in Indexers, NEW u \in Indexers, Busy(t)', Busy(u)',
             call'[t].project = call'[u].project
      PROVE  call'[t].config = call'[u].config
    BY <1>4 DEF ConfigInv, SameRun
<1>5. \A p \in Projects : index'[p] # NoIndex => Suits(p, index[p].config)'
    BY <1>2 DEF ConfigInv
<1> QED BY <1>1, <1>3, <1>4, <1>5 DEF ConfigInv, Suits

LEMMA SearchFrame ==
    ASSUME Shape, NEW t \in Searchers, SearchStep(t)
    PROVE  /\ UNCHANGED <<env, stored, index>>
           /\ \A u \in Indexers : call'[u] = call[u]
<1>1. UNCHANGED <<env, stored, index>>
    BY DEF SearchStep, OpenSearch, Look, Take, Touch, ReadRow, EncodeQuery, Trim,
           WriteRow, Return
<1>2. PICK S : call \in [Threads -> Calls(S)]
    BY DEF Shape
<1>3. ASSUME NEW c, call' = [call EXCEPT ![t] = c]
      PROVE  \A u \in Indexers : call'[u] = call[u]
    BY <1>2, <1>3, Disjoint
<1>4. ASSUME NEW pc, To(t, pc)
      PROVE  \A u \in Indexers : call'[u] = call[u]
    BY <1>2, <1>4, Disjoint DEF To
<1>5. CASE OpenSearch(t)
    BY <1>3, <1>5 DEF OpenSearch
<1>6. CASE Look(t)
    BY <1>4, <1>6 DEF Look
<1>7. CASE Take(t)
    BY <1>2, <1>3, <1>7, Disjoint DEF Take, End
<1>8. CASE Touch(t)
    BY <1>3, <1>4, <1>8 DEF Touch, End
<1>9. CASE ReadRow(t)
  <2>1. CASE \E r \in asked :
               /\ r.space = Space(call[t].config) /\ r.text = Folded[call[t].query]
               /\ r.vec.dim = call[t].config.dim
               /\ memory' = SetIn(memory, r)
               /\ call' = [call EXCEPT ![t].pc = "answered", ![t].vec = r.vec]
    <3>1. PICK v : call' = [call EXCEPT ![t].pc = "answered", ![t].vec = v]
      BY <2>1
    <3> DEFINE c == [call[t] EXCEPT !.pc = "answered", !.vec = v]
    <3>2. call' = [call EXCEPT ![t] = c]
      BY <3>1, <1>2
    <3> HIDE DEF c
    <3> QED BY <3>2, <1>1, <1>3
  <2>2. CASE \E db : /\ call' = [call EXCEPT ![t].pc = "encode", ![t].db = db]
                     /\ UNCHANGED memory
    <3>1. PICK v : call' = [call EXCEPT ![t].pc = "encode", ![t].db = v]
      BY <2>2
    <3> DEFINE c == [call[t] EXCEPT !.pc = "encode", !.db = v]
    <3>2. call' = [call EXCEPT ![t] = c]
      BY <3>1, <1>2
    <3> HIDE DEF c
    <3> QED BY <3>2, <1>1, <1>3
  <2> QED BY <2>1, <2>2, <1>9 DEF ReadRow
<1>10. CASE EncodeQuery(t)
  <2>1. CASE End(t) /\ UNCHANGED memory
    <3>1. call' = [call EXCEPT ![t] = Idle]
      BY <2>1 DEF End
    <3> QED BY <3>1, <1>1, <1>3
  <2>2. CASE \E vec \in {Vector(call[t].config, call[t].query),
                        Odd(call[t].config, call[t].query)} :
               /\ vec.dim = call[t].config.dim
               /\ memory' = SetIn(memory, MyRow(t, vec))
               /\ call' = [call EXCEPT ![t].pc = "trim", ![t].vec = vec]
    <3>1. PICK v : call' = [call EXCEPT ![t].pc = "trim", ![t].vec = v]
      BY <2>2
    <3> DEFINE c == [call[t] EXCEPT !.pc = "trim", !.vec = v]
    <3>2. call' = [call EXCEPT ![t] = c]
      BY <3>1, <1>2
    <3> HIDE DEF c
    <3> QED BY <3>2, <1>1, <1>3
  <2> QED BY <2>1, <2>2, <1>10 DEF EncodeQuery
<1>11. CASE Trim(t)
    BY <1>4, <1>11 DEF Trim
<1>12. CASE WriteRow(t)
    BY <1>4, <1>12 DEF WriteRow
<1>13. CASE Return(t)
    BY <1>3, <1>13 DEF Return, End
<1> QED BY <1>1, <1>5, <1>6, <1>7, <1>8, <1>9, <1>10, <1>11, <1>12, <1>13 DEF SearchStep

(* A description is written or lost before there is an index, or comes to  *)
(* name what the index was made with.                                      *)
LEMMA RegisterKeeps ==
    ASSUME ConfigInv, NEW p \in Projects, Register(p)
    PROVE  ConfigInv'
<1> DEFINE r == Resolved(Named[p], NoConfig, env)
<1>1. Described(p, r) /\ r \in Descriptions
    BY ResolvedFirst DEF Register, ConfigInv, ConfigTypes, Described
<1>2. /\ stored[p] = NoConfig /\ stored' = [stored EXCEPT ![p] = r]
      /\ env' = env /\ index' = index /\ call' = call
    BY DEF Register
<1> HIDE DEF r
<1>3. /\ stored'[p] = r /\ \A q \in Projects \ {p} : stored'[q] = stored[q]
      /\ ConfigTypes'
    BY <1>1, <1>2 DEF ConfigInv, ConfigTypes
<1>4. \A c : ~Suits(p, c)
    BY <1>2, NoneDescribed DEF Suits
<1>5. ASSUME NEW t \in Indexers, Busy(t)' PROVE RunInv(t)'
  <2>1. PICK q \in Projects, c \in {call[t].config} : q = call[t].project
    BY <1>2, <1>5 DEF ConfigInv, RunInv, Busy
  <2>2. RunInv(t) /\ q # p
    BY <1>2, <1>4, <1>5, <2>1 DEF ConfigInv, RunInv, Busy
  <2>3. Embedders(q)' = Embedders(q)
    BY <2>2, <1>2, <1>3, EmbeddersKept
  <2> QED BY <2>1, <2>2, <2>3, <1>2, <1>3 DEF RunInv, Suits
<1>6. ASSUME NEW q \in Projects, index'[q] # NoIndex PROVE Suits(q, index[q].config)'
    BY <1>2, <1>3, <1>4, <1>6 DEF ConfigInv, Suits
<1>7. \A t, u \in Indexers :
        Busy(t)' /\ Busy(u)' /\ call'[t].project = call'[u].project
          => call'[t].config = call'[u].config
    BY <1>2 DEF ConfigInv, Busy
<1> QED BY <1>1, <1>3, <1>5, <1>6, <1>7 DEF ConfigInv, Described

LEMMA TearKeeps ==
    ASSUME ConfigInv, NEW p \in Projects, Tear(p)
    PROVE  ConfigInv'
<1>1. /\ stored' = [stored EXCEPT ![p] = Torn]
      /\ env' = env /\ index' = index /\ call' = call
    BY DEF Tear
<1>2. /\ stored'[p] = Torn /\ \A q \in Projects \ {p} : stored'[q] = stored[q]
      /\ ConfigTypes'
    BY <1>1 DEF ConfigInv, ConfigTypes
<1>3. \A q \in Projects : \A c : Suits(q, c) => Suits(q, c)'
    BY <1>2 DEF Suits
<1>4. ASSUME NEW t \in Indexers, Busy(t)' PROVE RunInv(t)'
  <2>1. PICK q \in Projects, c \in {call[t].config} : q = call[t].project
    BY <1>1, <1>4 DEF ConfigInv, RunInv, Busy
  <2>2. RunInv(t) /\ Suits(q, c)'
    BY <1>1, <1>3, <1>4, <2>1 DEF ConfigInv, RunInv, Busy
  <2>3. q # p => Embedders(q)' = Embedders(q)
    BY <1>1, <1>2, EmbeddersKept
  <2> QED BY <2>1, <2>2, <2>3, <1>1, <1>2 DEF RunInv, Suits
<1>5. ASSUME NEW q \in Projects, index'[q] # NoIndex PROVE Suits(q, index[q].config)'
    BY <1>1, <1>2, <1>5 DEF ConfigInv, Suits
<1>6. \A t, u \in Indexers :
        Busy(t)' /\ Busy(u)' /\ call'[t].project = call'[u].project
          => call'[t].config = call'[u].config
    BY <1>1 DEF ConfigInv, Busy
<1>7. \A q \in Projects : stored'[q] \in Descriptions => Described(q, stored'[q])
    BY <1>2, NoneDescribed DEF ConfigInv
<1> QED BY <1>2, <1>4, <1>5, <1>6, <1>7 DEF ConfigInv, Described

LEMMA OneEmbedder ==
    ASSUME NEW p, NEW c \in Embedders(p), NEW d \in Embedders(p)
    PROVE  c = d
BY DEF Embedders

LEMMA Opens ==
    ASSUME Shape, NEW t \in Indexers, OpenIndex(t)
    PROVE  /\ UNCHANGED <<env, stored, index>>
           /\ \E p, c :
                /\ p \in Projects /\ c \in Embedders(p) /\ stored[p] # NoConfig
                /\ call'[t].project = p /\ call'[t].config = c
                /\ call'[t].pc # "describe"
<1>1. PICK S : call \in [Threads -> Calls(S)]
    BY DEF Shape
<1>2. PICK T : Idle \in Calls(T)
    BY IdleShape
<1>3. PICK p \in Projects, kind \in {"full", "incremental"} :
        \E files \in IF kind = "full" THEN {Files(p)} ELSE SUBSET Files(p) \ {{}} :
          /\ stored[p] # NoConfig
          /\ \E d \in Embedders(p) :
              call' = [call EXCEPT ![t] =
                [Idle EXCEPT !.project = p, !.config = d, !.kind = kind, !.files = files,
                   !.todo = Chunked(p, files),
                   !.pc = IF /\ kind = "full"
                             /\ env.bulk <= Len(ChunksOf[p])
                             /\ d.provider \in TypedProviders
                          THEN "bulk" ELSE "batch"]]
    BY DEF OpenIndex
<1>4. PICK files, d, pc :
          /\ d \in Embedders(p) /\ pc \in {"bulk", "batch"}
          /\ stored[p] # NoConfig
          /\ call' = [call EXCEPT ![t] =
                [Idle EXCEPT !.project = p, !.config = d, !.kind = kind, !.files = files,
                   !.todo = Chunked(p, files), !.pc = pc]]
  <2>1. PICK files, d :
          /\ d \in Embedders(p)
          /\ stored[p] # NoConfig
          /\ call' = [call EXCEPT ![t] =
                [Idle EXCEPT !.project = p, !.config = d, !.kind = kind, !.files = files,
                   !.todo = Chunked(p, files),
                   !.pc = IF /\ kind = "full"
                             /\ env.bulk <= Len(ChunksOf[p])
                             /\ d.provider \in TypedProviders
                          THEN "bulk" ELSE "batch"]]
    BY <1>3
  <2> DEFINE first == IF /\ kind = "full"
                         /\ env.bulk <= Len(ChunksOf[p])
                         /\ d.provider \in TypedProviders
                      THEN "bulk" ELSE "batch"
  <2>2. first \in {"bulk", "batch"}
    OBVIOUS
  <2>3. call' = [call EXCEPT ![t] =
          [Idle EXCEPT !.project = p, !.config = d, !.kind = kind, !.files = files,
             !.todo = Chunked(p, files), !.pc = first]]
    BY <2>1
  <2> HIDE DEF first
  <2>4. d \in Embedders(p) /\ stored[p] # NoConfig
    BY <2>1
  <2> QED BY <2>2, <2>3, <2>4, Zenon
<1> DEFINE c == [Idle EXCEPT !.project = p, !.config = d, !.kind = kind, !.files = files,
                   !.todo = Chunked(p, files), !.pc = pc]
<1>5. c.project = p /\ c.config = d /\ c.pc = pc
    BY <1>2 DEF Calls
<1> HIDE DEF c
<1>6. call'[t] = c
    BY <1>1, <1>4, Disjoint DEF c
<1> QED BY <1>4, <1>5, <1>6 DEF OpenIndex

(* A run starts as the runs before it did.                                 *)
LEMMA OpenKeeps ==
    ASSUME ConfigInv, Shape, NEW t \in Indexers, OpenIndex(t),
           \A u \in Indexers \ {t} : call'[u] = call[u]
    PROVE  ConfigInv'
<1>1. PICK p, c :
        /\ p \in Projects /\ c \in Embedders(p) /\ stored[p] # NoConfig
        /\ call'[t].project = p /\ call'[t].config = c
        /\ call'[t].pc # "describe"
    BY Opens
<1>2. env' = env /\ stored' = stored /\ index' = index
    BY Opens
<1>3. Suits(p, c) /\ (index[p] # NoIndex => index[p].config = c)
    BY <1>1, StartedRight
<1>4. \A q \in Projects : \A d : Suits(q, d)' <=> Suits(q, d)
    BY <1>2 DEF Suits
<1>5. \A q \in Projects : Embedders(q)' = Embedders(q)
    BY <1>2, EmbeddersKept
<1>6. RunInv(t)'
    BY <1>1, <1>2, <1>3, <1>5 DEF RunInv, Suits
<1>7. ASSUME NEW u \in Indexers \ {t}, Busy(u)'
      PROVE  /\ RunInv(u) /\ Busy(u) /\ RunInv(u)'
             /\ call'[u].project = p => call'[u].config = c
  <2>1. RunInv(u) /\ Busy(u) /\ call'[u] = call[u]
    BY <1>7 DEF ConfigInv, Busy
  <2>2. PICK q \in Projects, d \in {call[u].config} : q = call[u].project
    BY <2>1 DEF RunInv
  <2>3. RunInv(u)'
    BY <2>1, <2>2, <1>2, <1>5 DEF RunInv, Suits
  <2>4. q = p => d = c
    <3>1. CASE index[p] # NoIndex
      BY <3>1, <1>3, <2>1, <2>2 DEF RunInv
    <3>2. CASE index[p] = NoIndex
      <4>1. stored[p] # Torn
        <5>1. Configured(p, env) # Refused
          BY <1>1 DEF Embedders
        <5>2. index[p].config = NoConfig
          BY <3>2 DEF NoIndex
        <5> QED BY <5>1, <5>2 DEF Configured, Reconstructed
      <4> QED BY <4>1, <3>2, <1>1, <2>1, <2>2, OneEmbedder DEF RunInv
    <3> QED BY <3>1, <3>2
  <2> QED BY <2>1, <2>2, <2>3, <2>4
<1>8. ASSUME NEW u \in Indexers, NEW v \in Indexers, Busy(u)', Busy(v)',
             call'[u].project = call'[v].project
      PROVE  call'[u].config = call'[v].config
  <2>1. CASE u = t \/ v = t
    BY <2>1, <1>1, <1>7, <1>8
  <2>2. CASE u # t /\ v # t
    BY <2>2, <1>7, <1>8 DEF ConfigInv, Busy
  <2> QED BY <2>1, <2>2
<1>9. ConfigTypes' /\ \A q \in Projects : stored'[q] \in Descriptions => Described(q, stored'[q])
    BY <1>2 DEF ConfigInv, ConfigTypes
<1>10. \A q \in Projects : index'[q] # NoIndex => Suits(q, index[q].config)'
    BY <1>2, <1>4 DEF ConfigInv
<1>11. \A u \in Indexers : Busy(u)' => RunInv(u)'
    BY <1>6, <1>7
<1> QED BY <1>8, <1>9, <1>10, <1>11 DEF ConfigInv, Described

(* A run puts its configuration where those of the other runs agree.       *)
LEMMA PublishKeeps ==
    ASSUME ConfigInv, Shape, NEW t \in Indexers, Publish(t),
           SameRun(call[t], call'[t]), call'[t].pc = "describe", env' = env,
           \A u \in Indexers \ {t} : call'[u] = call[u]
    PROVE  ConfigInv'
<1>1. Busy(t) /\ RunInv(t) /\ stored' = stored
    BY DEF Publish, ConfigInv, Busy
<1>2. PICK p \in Projects, c \in {call[t].config} : p = call[t].project
    BY <1>1 DEF RunInv
<1>3. Suits(p, c) /\ call'[t].project = p /\ call'[t].config = c
    BY <1>1, <1>2 DEF RunInv, SameRun
<1>4. PICK vectors : index' = [index EXCEPT ![p] = [config |-> c, vectors |-> vectors]]
  <2>1. Whole(call[t])
    <3>1. SUFFICES ASSUME ~Whole(call[t]) PROVE FALSE
      OBVIOUS
    <3>2. call' = [call EXCEPT ![t] = Idle]
      BY <3>1 DEF Publish
    <3>3. call'[t] = Idle
      BY <3>2, Disjoint DEF Shape
    <3> QED BY <3>3, IdleShape
  <2> DEFINE vectors == IF call[t].kind = "full" THEN call[t].done
                        ELSE Among(index[p].vectors, {x \in ToSet(index[p].vectors) :
                               x.chunk.file \notin call[t].files}) \o call[t].done
  <2>2. index' = [index EXCEPT ![p] = [config |-> c, vectors |-> vectors]]
    BY <1>2, <2>1 DEF Publish
  <2> HIDE DEF vectors
  <2> QED BY <2>2, Zenon
<1>5. PICK S : index \in [Projects -> [config : S, vectors : S]]
    BY DEF ConfigInv, ConfigTypes
<1>6. /\ index' \in [Projects -> [config : S \cup {c, vectors}, vectors : S \cup {c, vectors}]]
      /\ index'[p].config = c
      /\ \A q \in Projects \ {p} : index'[q] = index[q]
    BY <1>4, <1>5
<1>7. ConfigTypes'
    BY <1>1, <1>6 DEF ConfigInv, ConfigTypes
<1>8. index'[p] # NoIndex
  <2>1. c # NoConfig
    BY <1>3, NoneDescribed DEF Suits, Settled, Described
  <2> QED BY <2>1, <1>6 DEF NoIndex
<1>9. ASSUME NEW u \in Indexers, Busy(u)'
      PROVE  Busy(u) /\ SameRun(call[u], call'[u]) /\ RunInv(u)'
  <2>1. Busy(u) /\ RunInv(u) /\ SameRun(call[u], call'[u])
    BY <1>1, <1>9 DEF ConfigInv, Busy, SameRun
  <2>2. PICK q \in Projects, d \in {call[u].config} : q = call[u].project
    BY <2>1 DEF RunInv
  <2>3. q = p => d = c
    BY <1>1, <1>2, <2>1, <2>2 DEF ConfigInv
  <2>4. CASE q = p
    BY <2>1, <2>2, <2>3, <2>4, <1>1, <1>3, <1>6, <1>8 DEF RunInv, SameRun, Suits
  <2>5. CASE q # p
    <3>1. Embedders(q)' = Embedders(q)
      BY <2>5, <1>1, <1>6, EmbeddersKept
    <3>2. u # t
      BY <2>2, <2>5, <1>2
    <3>3. call'[u] = call[u] /\ index'[q] = index[q]
      BY <3>2, <2>5, <1>6
    <3> QED BY <2>1, <2>2, <3>1, <3>3, <1>1 DEF RunInv, Suits
  <2> QED BY <2>1, <2>4, <2>5
<1>10. \A u, v \in Indexers :
        Busy(u)' /\ Busy(v)' /\ call'[u].project = call'[v].project
          => call'[u].config = call'[v].config
    BY <1>9 DEF ConfigInv, SameRun
<1>11. ASSUME NEW q \in Projects, index'[q] # NoIndex PROVE Suits(q, index[q].config)'
    BY <1>1, <1>3, <1>6, <1>11 DEF ConfigInv, Suits
<1>12. \A q \in Projects : stored'[q] \in Descriptions => Described(q, stored'[q])
    BY <1>1 DEF ConfigInv
<1> QED BY <1>7, <1>9, <1>10, <1>11, <1>12 DEF ConfigInv, Described

(* A description comes to say what the index was made with.                *)
LEMMA DescribeKeeps ==
    ASSUME ConfigInv, NEW t \in Indexers, Describe(t), call'[t] = Idle, env' = env,
           \A u \in Indexers \ {t} : call'[u] = call[u]
    PROVE  ConfigInv'
<1>1. Busy(t) /\ RunInv(t) /\ index' = index /\ call[t].pc = "describe"
    BY DEF Describe, ConfigInv, Busy
<1>2. PICK p \in Projects, c \in {call[t].config} : p = call[t].project
    BY <1>1 DEF RunInv
<1>3. Settled(p, c) /\ c \in Descriptions /\ index[p] # NoIndex /\ index[p].config = c
    BY <1>1, <1>2 DEF RunInv, Suits, Settled, Described
<1>4. /\ stored' \in [Projects -> Descriptions \cup {NoConfig, Torn}]
      /\ stored'[p] = stored[p] \/ stored'[p] = c
      /\ \A q \in Projects \ {p} : stored'[q] = stored[q]
    BY <1>2, <1>3 DEF Describe, ConfigInv, ConfigTypes
<1>5. ConfigTypes'
    BY <1>1, <1>4 DEF ConfigInv, ConfigTypes
<1>6. Agrees(c, c)
    BY DEF Agrees
<1>7. Suits(p, c)'
    BY <1>1, <1>2, <1>3, <1>4, <1>6 DEF RunInv, Suits
<1>8. ASSUME NEW u \in Indexers, Busy(u)'
      PROVE  Busy(u) /\ SameRun(call[u], call'[u]) /\ RunInv(u)'
  <2>1. Busy(u) /\ RunInv(u) /\ call'[u] = call[u]
    BY <1>8, NotBusy DEF ConfigInv, Busy
  <2>2. PICK q \in Projects, d \in {call[u].config} : q = call[u].project
    BY <2>1 DEF RunInv
  <2>3. CASE q = p
    BY <2>1, <2>2, <2>3, <1>1, <1>3, <1>7 DEF RunInv, SameRun, Suits
  <2>4. CASE q # p
    <3>1. Embedders(q)' = Embedders(q)
      BY <2>4, <1>1, <1>4, EmbeddersKept
    <3> QED BY <2>1, <2>2, <2>4, <3>1, <1>1, <1>4 DEF RunInv, SameRun, Suits
  <2> QED BY <2>3, <2>4
<1>9. \A u, v \in Indexers :
        Busy(u)' /\ Busy(v)' /\ call'[u].project = call'[v].project
          => call'[u].config = call'[v].config
    BY <1>8 DEF ConfigInv, SameRun
<1>10. ASSUME NEW q \in Projects, index'[q] # NoIndex PROVE Suits(q, index[q].config)'
    BY <1>1, <1>3, <1>4, <1>7, <1>10 DEF ConfigInv, Suits
<1>11. ASSUME NEW q \in Projects, stored'[q] \in Descriptions
       PROVE  Described(q, stored'[q])
    BY <1>3, <1>4, <1>11 DEF ConfigInv, Settled
<1> QED BY <1>5, <1>8, <1>9, <1>10, <1>11 DEF ConfigInv, Described

LEMMA ConfigStep == QueryInv /\ ConfigInv /\ [Next]_vars => ConfigInv'
<1> SUFFICES ASSUME QueryInv, ConfigInv, [Next]_vars PROVE ConfigInv'
    OBVIOUS
<1>1. Shape /\ env \in Environments
    BY DEF QueryInv, ConfigInv, ConfigTypes
<1>2. CASE UNCHANGED vars
  BY <1>1, <1>2, ConfigKept DEF vars, Busy, SameRun
<1>3. ASSUME NEW p \in Projects, Register(p) \/ Tear(p) PROVE ConfigInv'
  BY <1>3, RegisterKeeps, TearKeeps
<1>4. ASSUME NEW t \in Searchers, SearchStep(t) PROVE ConfigInv'
  BY <1>1, <1>4, SearchFrame, ConfigKept DEF Busy, SameRun
<1>5. ASSUME NEW t \in Indexers, IndexStep(t) PROVE ConfigInv'
  <2>1. /\ env' = env /\ \A u \in Indexers \ {t} : call'[u] = call[u]
        /\ \/ OpenIndex(t)
           \/ /\ UNCHANGED <<stored, index>>
              /\ call'[t] = Idle \/ Continues(call[t], call'[t])
           \/ /\ Publish(t)
              /\ SameRun(call[t], call'[t]) /\ call'[t].pc = "describe"
           \/ Describe(t) /\ call'[t] = Idle
    BY <1>1, <1>5, IndexFrame, Disjoint
  <2>2. CASE OpenIndex(t)
    BY <1>1, <2>1, <2>2, OpenKeeps
  <2>3. CASE /\ UNCHANGED <<stored, index>>
             /\ call'[t] = Idle \/ Continues(call[t], call'[t])
    <3>1. Busy(t) \/ OpenIndex(t)
      BY <1>5 DEF IndexStep, Busy, Bulk, LookUp, Post, Settle, Publish, Describe
    <3>2. \A u \in Indexers : Busy(u)' =>
            OpenIndex(t) \/ ( Busy(u) /\ SameRun(call[u], call'[u])
              /\ (call'[u].pc = "describe" => call[u].pc = "describe"))
      BY <2>1, <2>3, <3>1, NotBusy DEF Busy, Continues, SameRun
    <3> QED BY <1>1, <2>1, <2>2, <2>3, <3>2, ConfigKept
  <2>4. CASE /\ Publish(t)
             /\ SameRun(call[t], call'[t]) /\ call'[t].pc = "describe"
    BY <1>1, <2>1, <2>4, PublishKeeps
  <2>5. CASE Describe(t) /\ call'[t] = Idle
    BY <2>1, <2>5, DescribeKeeps
  <2> QED BY <2>1, <2>2, <2>3, <2>4, <2>5
<1>6. ASSUME NEW e \in Environments, Restart(e) PROVE ConfigInv'
  <2>1. \A t \in Indexers : ~Busy(t)'
    BY <1>6, NotBusy, Disjoint DEF Restart, Busy
  <2> QED BY <1>6, <2>1, ConfigKept DEF Restart
<1> QED BY <1>2, <1>3, <1>4, <1>5, <1>6 DEF Next

(* In whatever environment a server is started, it opens an index with the *)
(* provider, model, dimension, input mode and content mode it was made     *)
(* with, also when the description in project_info.json is torn or was     *)
(* never brought up to date, and however runs of the project interleave    *)
(* (code_search_server.py embedder, embedder.py resolve_embedding_config). *)
THEOREM ReopenedHolds == Spec => []Reopened
<1>1. Init => QueryInv /\ ConfigInv
  BY QueryInit, ConfigInit
<1>2. (QueryInv /\ ConfigInv) /\ [Next]_vars => (QueryInv /\ ConfigInv)'
  BY QueryStep, ConfigStep
<1>3. ConfigInv => Reopened
  BY OpenedRight DEF Reopened
<1> QED BY <1>1, <1>2, <1>3, PTL DEF Spec

-----------------------------------------------------------------------------
(* A batch and what is left.                                               *)
LEMMA BatchSplit ==
    ASSUME NEW T, NEW s \in Seq(T)
    PROVE  /\ FirstBatch(s) \in Seq(T) /\ Rest(s) \in Seq(T)
           /\ Len(FirstBatch(s)) + Len(Rest(s)) = Len(s)
           /\ \A K : Count(FirstBatch(s), K) + Count(Rest(s), K) = Count(s, K)
<1>1. Batch \in Nat \ {0} /\ Len(s) \in Nat
    BY ConstantsAssumption DEF ConstantsAssumption
<1> DEFINE n == IF Len(s) < Batch THEN Len(s) ELSE Batch
<1>2. n \in 0 .. Len(s)
    BY <1>1
<1>3. FirstBatch(s) = SubSeq(s, 1, n)
    BY DEF FirstBatch
<1>0. ASSUME NEW m \in Int, m > Len(s) PROVE SubSeq(s, m, Len(s)) = <<>>
    BY <1>0, <1>1, SubSeqEmpty
<1>4. Rest(s) = SubSeq(s, n + 1, Len(s))
  <2>1. CASE Len(s) < Batch
    <3>1. n + 1 > Len(s) /\ Batch + 1 > Len(s) /\ n + 1 \in Int /\ Batch + 1 \in Int
      BY <1>1, <2>1
    <3>2. SubSeq(s, n + 1, Len(s)) = <<>> /\ SubSeq(s, Batch + 1, Len(s)) = <<>>
      BY <1>0, <3>1
    <3> QED BY <3>2 DEF Rest
  <2>2. CASE ~(Len(s) < Batch)
    BY <2>2 DEF Rest
  <2> QED BY <2>1, <2>2
<1> HIDE DEF n
<1> DEFINE a == SubSeq(s, 1, n)
           b == SubSeq(s, n + 1, Len(s))
<1>5. /\ a \in Seq(T) /\ b \in Seq(T) /\ a \o b = s
      /\ Len(a) = n /\ Len(b) = Len(s) - n
    BY <1>2, Cut
<1> HIDE DEF a, b
<1>6. ASSUME NEW K PROVE Count(a, K) + Count(b, K) = Count(s, K)
  <2>0. a \in Seq(T) /\ b \in Seq(T)
    BY <1>5
  <2>1. Count(a \o b, K) = Count(a, K) + Count(b, K)
    BY <2>0, CountConcat
  <2> QED BY <1>5, <2>1
<1>7. Len(a) + Len(b) = Len(s)
    BY <1>1, <1>2, <1>5
<1> QED BY <1>3, <1>4, <1>5, <1>6, <1>7 DEF a, b

(* Sorting by file keeps each chunk as often as it was.                    *)
LEMMA ByFileFacts ==
    ASSUME NEW T, NEW s \in Seq(T)
    PROVE  /\ ByFile(s) \in Seq(T)
           /\ Len(ByFile(s)) = Len(s)
           /\ DOMAIN ByFile(s) = DOMAIN s
           /\ \A K : Count(ByFile(s), K) = Count(s, K)
<1> DEFINE D == DOMAIN s
           Same(i, j) == s[i].file = s[j].file
           Is(i, j) == Same(i, j) /\ \A k \in 1 .. j - 1 : ~Same(i, k)
           First(i) == CHOOSE j \in D : Is(i, j)
           ahead == [i \in D |->
             {j \in D : First(j) < First(i) \/ (Same(i, j) /\ j < i)}]
<1>1. ByFile(s) = Sorted(s, ahead)
    BY DEF ByFile
<1>2. D = 1 .. Len(s) /\ Len(s) \in Nat
    OBVIOUS
<1> HIDE DEF D
<1>3. ASSUME NEW i \in D PROVE \E j \in D : Is(i, j)
  <2> DEFINE R == {j \in D : Same(i, j)}
  <2>1. R \in SUBSET Nat /\ i \in R
    BY <1>2
  <2>2. PICK j \in R : \A k \in R : j <= k
    BY <2>1, Least
  <2>3. ASSUME NEW k \in 1 .. j - 1 PROVE ~Same(i, k)
    <3>1. k \in D /\ ~(j <= k)
      BY <1>2, <2>2
    <3> QED BY <3>1, <2>2
  <2> QED BY <2>2, <2>3
<1>4. \A i \in D : First(i) \in D /\ Is(i, First(i))
    BY <1>3
<1> HIDE DEF First
<1>5. ASSUME NEW i \in D, NEW j \in D, Same(i, j) PROVE First(i) = First(j)
  <2>1. /\ First(i) \in 1 .. Len(s) /\ First(j) \in 1 .. Len(s)
        /\ Same(i, First(i)) /\ Same(j, First(j))
        /\ \A k \in 1 .. First(i) - 1 : ~Same(i, k)
        /\ \A k \in 1 .. First(j) - 1 : ~Same(j, k)
    BY <1>2, <1>4
  <2>2. Same(j, First(i)) /\ Same(i, First(j))
    BY <2>1, <1>5
  <2>3. First(i) \notin 1 .. First(j) - 1 /\ First(j) \notin 1 .. First(i) - 1
    BY <2>1, <2>2
  <2> QED BY <1>2, <2>1, <2>3
<1>6. ASSUME NEW i \in D, NEW j \in D, First(i) = First(j) PROVE Same(i, j)
    BY <1>4, <1>6
<1>7. \A i \in D : First(i) \in Nat /\ i \in Nat
    BY <1>2, <1>4
<1>8. ahead \in [D -> SUBSET D]
    OBVIOUS
<1>9. \A i, j \in D : j \in ahead[i] <=> First(j) < First(i) \/ (Same(i, j) /\ j < i)
    OBVIOUS
<1> HIDE DEF ahead
<1>10. \A i \in D : i \notin ahead[i]
    BY <1>7, <1>9
<1>11. ASSUME NEW i \in D, NEW j \in D, j \in ahead[i] PROVE ahead[j] \subseteq ahead[i]
  <2> SUFFICES ASSUME NEW k \in D, k \in ahead[j] PROVE k \in ahead[i]
    BY <1>8
  <2>1. First(j) < First(i) \/ (Same(i, j) /\ j < i)
    BY <1>9, <1>11
  <2>2. First(k) < First(j) \/ (Same(j, k) /\ k < j)
    BY <1>9
  <2>3. First(k) <= First(j) /\ First(j) <= First(i)
    BY <1>5, <1>7, <2>1, <2>2
  <2>4. CASE First(k) < First(i)
    BY <1>9, <2>4
  <2>5. CASE First(k) = First(i)
    <3>1. First(k) = First(j) /\ First(j) = First(i)
      BY <1>7, <2>3, <2>5
    <3>2. Same(i, k) /\ j < i /\ k < j
      BY <1>6, <1>7, <2>1, <2>2, <3>1
    <3> QED BY <1>7, <1>9, <3>2
  <2> QED BY <1>7, <2>3, <2>4, <2>5
<1>12. ASSUME NEW i \in D, NEW j \in D, i # j PROVE i \in ahead[j] \/ j \in ahead[i]
  <2>1. i < j \/ j < i
    BY <1>7, <1>12
  <2>2. First(i) < First(j) \/ First(j) < First(i) \/ First(i) = First(j)
    BY <1>7
  <2>3. First(i) = First(j) => Same(i, j) /\ Same(j, i)
    BY <1>6
  <2> QED BY <1>9, <2>1, <2>2, <2>3
<1> QED BY <1>1, <1>8, <1>10, <1>11, <1>12, SortedFacts, CountSorted DEF D

-----------------------------------------------------------------------------
ChunkSet(p) == ToSet(ChunksOf[p])
OfFiles(K, files) == {k \in K : k.file \in files}

(* A chunk with its vector.                                                *)
Made(c, k) == [chunk |-> k, vec |-> Vector(c, k.text)]
MadeOf(c, K) == {Made(c, k) : k \in K}
MadeFrom(c, s) == [i \in DOMAIN s |-> Made(c, s[i])]

LEMMA MadeIn == \A c, k, K : Made(c, k) \in MadeOf(c, K) <=> k \in K
<1> TAKE c, k, K
<1>1. ASSUME NEW l \in K, Made(c, k) = Made(c, l) PROVE k \in K
  <2>1. Made(c, k).chunk = k /\ Made(c, l).chunk = l
    BY DEF Made
  <2> QED BY <1>1, <2>1
<1> QED BY <1>1 DEF MadeOf

LEMMA MadeCount ==
    ASSUME NEW T, NEW s \in Seq(T), NEW c
    PROVE  /\ MadeFrom(c, s) \in Seq(MadeOf(c, T))
           /\ Len(MadeFrom(c, s)) = Len(s)
           /\ \A K : Count(MadeFrom(c, s), MadeOf(c, K)) = Count(s, K)
<1> DEFINE e == MadeFrom(c, s)
<1>0. e = [i \in DOMAIN s |-> Made(c, s[i])]
    BY DEF MadeFrom
<1> HIDE DEF e
<1>1. \A i \in DOMAIN s : s[i] \in T
    OBVIOUS
<1>2. e \in [DOMAIN s -> MadeOf(c, T)]
    BY <1>0, <1>1, MadeIn
<1>3. DOMAIN e = DOMAIN s /\ \A i \in DOMAIN s : e[i] = Made(c, s[i])
    BY <1>0
<1>4. \A K : At(e, MadeOf(c, K)) = At(s, K)
    BY <1>3, MadeIn DEF At
<1>5. e \in Seq(MadeOf(c, T)) /\ Len(e) = Len(s)
    BY <1>2, SeqMap
<1> QED BY <1>4, <1>5 DEF Count, e

LEMMA ChunksSeq ==
    ASSUME NEW p \in Projects
    PROVE  /\ ChunksOf[p] \in Seq(ChunkSet(p))
           /\ Count(ChunksOf[p], ChunkSet(p)) = Len(ChunksOf[p])
           /\ Len(ChunksOf[p]) \in Nat
           /\ OfFiles(ChunkSet(p), Files(p)) = ChunkSet(p)
           /\ \A K \in SUBSET ChunkSet(p) : OfFiles(K, Files(p)) = K
<1>1. ChunksOf[p] \in Seq([file : STRING, text : STRING])
    BY ConstantsAssumption DEF ConstantsAssumption
<1>2. ChunksOf[p] \in Seq(ChunkSet(p))
    BY <1>1, SeqSelf DEF IsSeq, ChunkSet
<1>3. Count(ChunksOf[p], ChunkSet(p)) = Len(ChunksOf[p]) /\ Len(ChunksOf[p]) \in Nat
    BY <1>2, CountType
<1>4. \A K \in SUBSET ChunkSet(p) : OfFiles(K, Files(p)) = K
    BY DEF OfFiles, Files, ChunkSet
<1> QED BY <1>2, <1>3, <1>4

LEMMA ChunkedFacts ==
    ASSUME NEW p \in Projects, NEW files
    PROVE  /\ Chunked(p, files) \in Seq(ChunkSet(p))
           /\ \A K : Count(Chunked(p, files), K)
                      = Count(ChunksOf[p], OfFiles(K, files))
<1> DEFINE s == ChunksOf[p]
           S == {i \in DOMAIN s : s[i].file \in files}
<1>1. s \in Seq(ChunkSet(p)) /\ S \in SUBSET DOMAIN s
    BY ChunksSeq
<1>2. Chunked(p, files) = Picked(s, S)
    BY DEF Chunked
<1>3. \A K : {i \in S : s[i] \in K} = At(s, OfFiles(K, files))
    BY DEF At, OfFiles
<1> HIDE DEF S, s
<1>4. Picked(s, S) \in Seq(ChunkSet(p))
    BY <1>1, PickedFacts
<1>5. ASSUME NEW K PROVE Count(Picked(s, S), K) = Cardinality({i \in S : s[i] \in K})
    BY <1>1, CountPicked
<1>6. ASSUME NEW K PROVE Count(Picked(s, S), K) = Count(s, OfFiles(K, files))
    BY <1>3, <1>5 DEF Count
<1> QED BY <1>2, <1>4, <1>6 DEF s

(* A full run that will not have a vector for each chunk.                  *)
LostIn(c) ==
    /\ c.kind = "full"
    /\ c.failed \/ Len(c.done) + Len(c.todo) < Len(ChunksOf[c.project])

(* What is done are the chunks of the files but for what is to do.         *)
GoodIn(c) ==
    /\ c.done \in Seq(MadeOf(c.config, ChunkSet(c.project)))
    /\ \A K \in SUBSET ChunkSet(c.project) :
         Count(c.done, MadeOf(c.config, K)) + Count(c.todo, K)
           = Count(ChunksOf[c.project], OfFiles(K, c.files))

Consistent(c) ==
    /\ c.project \in Projects
    /\ c.kind \in {"full", "incremental"}
    /\ c.kind = "full" => c.files = Files(c.project)
    /\ c.todo \in Seq(ChunkSet(c.project))
    /\ IsSeq(c.done)
    /\ LostIn(c) \/ GoodIn(c)

LEMMA GoodLength ==
    ASSUME NEW c, Consistent(c), GoodIn(c), c.kind = "full"
    PROVE  Len(c.done) + Len(c.todo) = Len(ChunksOf[c.project])
<1> DEFINE p == c.project
<1>1. /\ p \in Projects /\ c.files = Files(p) /\ c.todo \in Seq(ChunkSet(p))
      /\ c.done \in Seq(MadeOf(c.config, ChunkSet(p)))
    BY DEF Consistent, GoodIn
<1>2. Count(c.done, MadeOf(c.config, ChunkSet(p))) = Len(c.done)
    BY <1>1, CountType
<1>3. Count(c.todo, ChunkSet(p)) = Len(c.todo)
    BY <1>1, CountType
<1>4. Count(c.done, MadeOf(c.config, ChunkSet(p))) + Count(c.todo, ChunkSet(p))
        = Count(ChunksOf[p], OfFiles(ChunkSet(p), Files(p)))
    BY <1>1 DEF GoodIn
<1> QED BY <1>1, <1>2, <1>3, <1>4, ChunksSeq

LEMMA Shorter ==
    ASSUME NEW x \in Nat, NEW e \in Nat, NEW first \in Nat, NEW rest \in Nat,
           NEW todo \in Nat, NEW all \in Nat, first + rest = todo
    PROVE  /\ e <= first /\ x + todo < all => x + e + rest < all
           /\ e < first /\ x + todo = all => x + e + rest < all
OBVIOUS

(* A batch more is done, or less than a batch where that is noticed.       *)
LEMMA Progress ==
    ASSUME NEW c, Consistent(c), NEW e, IsSeq(e), NEW d,
           d.project = c.project, d.config = c.config, d.kind = c.kind,
           d.files = c.files, d.failed = c.failed,
           d.done = c.done \o e, d.todo = Rest(c.todo),
           Len(e) <= Len(FirstBatch(c.todo)),
           \/ c.kind = "full" /\ Len(e) < Len(FirstBatch(c.todo))
           \/ /\ e \in Seq(MadeOf(c.config, ChunkSet(c.project)))
              /\ \A K : Count(e, MadeOf(c.config, K)) = Count(FirstBatch(c.todo), K)
           \/ LostIn(c)
    PROVE  Consistent(d)
<1> DEFINE p == c.project
           first == FirstBatch(c.todo)
           rest == Rest(c.todo)
<1>1. p \in Projects /\ c.todo \in Seq(ChunkSet(p)) /\ IsSeq(c.done)
    BY DEF Consistent
<1>2. /\ first \in Seq(ChunkSet(p)) /\ rest \in Seq(ChunkSet(p))
      /\ Len(first) + Len(rest) = Len(c.todo)
      /\ \A K : Count(first, K) + Count(rest, K) = Count(c.todo, K)
    BY <1>1, BatchSplit
<1>3. IsSeq(d.done) /\ Len(d.done) = Len(c.done) + Len(e)
    BY <1>1, SeqConcat
<1>4. /\ Len(c.done) \in Nat /\ Len(e) \in Nat /\ Len(first) \in Nat
      /\ Len(rest) \in Nat /\ Len(c.todo) \in Nat /\ Len(ChunksOf[p]) \in Nat
    BY <1>1, <1>2, ChunksSeq DEF IsSeq
<1>6. /\ Len(c.done) \in Nat /\ Len(e) \in Nat /\ Len(first) \in Nat
      /\ Len(rest) \in Nat /\ Len(c.todo) \in Nat /\ Len(ChunksOf[p]) \in Nat
      /\ Len(first) + Len(rest) = Len(c.todo)
      /\ Len(d.done) = Len(c.done) + Len(e)
    BY <1>2, <1>3, <1>4
<1>5. LostIn(d) \/ GoodIn(d)
  <2> HIDE DEF p, first, rest
  <2>1. CASE LostIn(c)
    <3>1. Len(e) <= Len(first)
      BY DEF first
    <3>2. c.failed \/ Len(c.done) + Len(c.todo) < Len(ChunksOf[p])
      BY <2>1 DEF LostIn, p
    <3>3. c.failed \/ Len(d.done) + Len(rest) < Len(ChunksOf[p])
      BY <3>1, <3>2, <1>6, Shorter
    <3> QED BY <2>1, <3>3 DEF LostIn, p, rest
  <2>2. CASE GoodIn(c) /\ c.kind = "full" /\ Len(e) < Len(first)
    <3>1. Len(c.done) + Len(c.todo) = Len(ChunksOf[p])
      BY <2>2, GoodLength DEF p
    <3>2. Len(d.done) + Len(rest) < Len(ChunksOf[p])
      BY <2>2, <3>1, <1>6, Shorter
    <3> QED BY <2>2, <3>2 DEF LostIn, p, rest
  <2>3. CASE /\ GoodIn(c)
             /\ e \in Seq(MadeOf(c.config, ChunkSet(p)))
             /\ \A K : Count(e, MadeOf(c.config, K)) = Count(first, K)
    <3>1. c.done \in Seq(MadeOf(c.config, ChunkSet(p)))
      BY <2>3 DEF GoodIn, p
    <3>2. /\ c.done \o e \in Seq(MadeOf(c.config, ChunkSet(p)))
          /\ \A L : Count(c.done \o e, L) = Count(c.done, L) + Count(e, L)
      BY <2>3, <3>1, CountConcat
    <3>3. ASSUME NEW K \in SUBSET ChunkSet(p)
          PROVE  Count(d.done, MadeOf(c.config, K)) + Count(rest, K)
                   = Count(ChunksOf[p], OfFiles(K, c.files))
      <4>1. Count(c.done, MadeOf(c.config, K)) + Count(c.todo, K)
              = Count(ChunksOf[p], OfFiles(K, c.files))
        BY <2>3 DEF GoodIn, p
      <4>2. /\ Count(d.done, MadeOf(c.config, K))
                = Count(c.done, MadeOf(c.config, K)) + Count(first, K)
            /\ Count(c.todo, K) = Count(first, K) + Count(rest, K)
        BY <2>3, <3>2, <1>2
      <4>3. /\ Count(c.done, MadeOf(c.config, K)) \in Nat
            /\ Count(first, K) \in Nat /\ Count(rest, K) \in Nat
        BY <3>1, <1>2, CountType
      <4> QED BY <4>1, <4>2, <4>3
    <3> QED BY <3>2, <3>3 DEF GoodIn, p, rest
  <2> QED BY <2>1, <2>2, <2>3 DEF Consistent, p, first
<1> QED BY <1>1, <1>2, <1>3, <1>5 DEF Consistent

-----------------------------------------------------------------------------
(* A batch that is asked for.                                              *)

Fits(c, r) == r.space = Space(c) /\ r.vec = Vector(c, r.text)

(* Each text of a batch is asked for or found.                             *)
AskedFor(c) ==
    LET first == FirstBatch(c.todo)
    IN  IF Grouped(c.config) THEN ~c.db /\ c.miss = TextsOf(ByFile(first))
        ELSE IF c.db
        THEN /\ IsSeq(c.miss) /\ IsSeq(c.found)
             /\ \A r \in ToSet(c.found) : Fits(c.config, r)
             /\ \A k \in ToSet(first) :
                  k.text \in ToSet(c.miss) \/ \E r \in ToSet(c.found) : r.text = k.text
        ELSE c.kind = "full" /\ c.miss = TextsOf(first)

Answered(c) ==
    \A i \in DOMAIN c.fresh :
        c.fresh[i] \in {Vector(c.config, c.miss[i]), Odd(c.config, c.miss[i])}

(* Answers that were all given in full are those of their texts.           *)
Posting(c) ==
    /\ AskedFor(c)
    /\ IsSeq(c.miss) /\ IsSeq(c.fresh) /\ c.sent \in Nat
    /\ Len(c.fresh) <= c.sent /\ c.sent <= Len(c.miss)
    /\ Len(c.fresh) = c.sent => Answered(c)

LEMMA RightDimension ==
    \A c, text, vec : vec \in {Vector(c, text), Odd(c, text)} /\ vec.dim = c.dim
                        => vec = Vector(c, text)
<1> SUFFICES ASSUME NEW c, NEW text, Odd(c, text).dim = c.dim
             PROVE  Odd(c, text) = Vector(c, text)
    OBVIOUS
<1> QED BY DEF Odd, Vector

LEMMA TextsSeq ==
    ASSUME NEW T, NEW s \in Seq(T)
    PROVE  /\ IsSeq(TextsOf(s)) /\ Len(TextsOf(s)) = Len(s)
           /\ DOMAIN TextsOf(s) = DOMAIN s
           /\ \A i \in DOMAIN s : TextsOf(s)[i] = s[i].text
           /\ ToSet(TextsOf(s)) = {k.text : k \in ToSet(s)}
<1> DEFINE t == TextsOf(s)
<1>1. t = [i \in DOMAIN s |-> s[i].text]
    BY DEF TextsOf
<1> HIDE DEF t
<1>2. t \in [DOMAIN s -> {s[i].text : i \in DOMAIN s}]
    BY <1>1
<1>3. t \in Seq({s[i].text : i \in DOMAIN s}) /\ Len(t) = Len(s)
    BY <1>2, SeqMap
<1>4. IsSeq(t)
    BY <1>3, SeqSelf
<1> QED BY <1>1, <1>3, <1>4 DEF ToSet, t

LEMMA PairedLength ==
    ASSUME NEW T, NEW s \in Seq(T), NEW v, IsSeq(v)
    PROVE  /\ IsSeq(Paired(s, v)) /\ Len(Paired(s, v)) <= Len(s)
           /\ Len(Paired(s, v)) <= Len(v)
           /\ DOMAIN Paired(s, v) = 1 .. Len(Paired(s, v))
<1> DEFINE n == IF Len(s) < Len(v) THEN Len(s) ELSE Len(v)
           e == Paired(s, v)
<1>1. Len(s) \in Nat /\ Len(v) \in Nat
    BY DEF IsSeq
<1>2. n \in Nat /\ n <= Len(s) /\ n <= Len(v)
    BY <1>1
<1>3. e = [i \in 1 .. n |-> [chunk |-> s[i], vec |-> v[i]]]
    BY DEF Paired
<1> HIDE DEF n, e
<1> DEFINE R == {e[i] : i \in 1 .. n}
<1>4. e \in [1 .. n -> R]
    BY <1>3
<1> HIDE DEF R
<1>5. e \in Seq(R) /\ Len(e) = n /\ DOMAIN e = 1 .. n
    BY <1>2, <1>4, LenProperties
<1>6. IsSeq(e)
    BY <1>5, SeqSelf
<1> QED BY <1>2, <1>5, <1>6 DEF e

LEMMA PairedRight ==
    ASSUME NEW T, NEW s \in Seq(T), NEW c, NEW v, IsSeq(v), Len(v) = Len(s),
           \A i \in DOMAIN s : v[i] = Vector(c, s[i].text)
    PROVE  Paired(s, v) = MadeFrom(c, s)
<1>1. Len(s) \in Nat /\ DOMAIN s = 1 .. Len(s)
    OBVIOUS
<1>2. Paired(s, v) = [i \in 1 .. Len(s) |-> [chunk |-> s[i], vec |-> v[i]]]
    BY <1>1 DEF Paired
<1> QED BY <1>1, <1>2 DEF Made, MadeFrom

LEMMA FreshAre ==
    ASSUME NEW c, IsSeq(c.fresh), IsSeq(c.miss), Len(c.fresh) = Len(c.miss), Answered(c),
           \A vec \in ToSet(c.fresh) : vec.dim = c.config.dim
    PROVE  /\ DOMAIN c.fresh = DOMAIN c.miss
           /\ \A i \in DOMAIN c.miss : c.fresh[i] = Vector(c.config, c.miss[i])
<1>1. DOMAIN c.fresh = DOMAIN c.miss
    BY DEF IsSeq
<1>2. ASSUME NEW i \in DOMAIN c.fresh PROVE c.fresh[i] = Vector(c.config, c.miss[i])
  <2>1. c.fresh[i].dim = c.config.dim
    BY DEF ToSet
  <2> QED BY <2>1, RightDimension DEF Answered
<1> QED BY <1>1, <1>2

(* The rows made of the answers.                                           *)
LEMMA FreshRows ==
    ASSUME NEW c, IsSeq(c.fresh), IsSeq(c.miss), Len(c.fresh) = Len(c.miss), Answered(c),
           \A vec \in ToSet(c.fresh) : vec.dim = c.config.dim
    PROVE  /\ IsSeq(Fresh(c))
           /\ \A r \in ToSet(Fresh(c)) :
                /\ Fits(c.config, r)
                /\ r = Row(Space(c.config), r.text, Vector(c.config, r.text))
           /\ \A x \in ToSet(c.miss) : \E r \in ToSet(Fresh(c)) : r.text = x
<1> DEFINE f == Fresh(c)
           D == DOMAIN c.miss
<1>1. DOMAIN c.fresh = D /\ \A i \in D : c.fresh[i] = Vector(c.config, c.miss[i])
    BY FreshAre
<1>2. f = [i \in D |-> Row(Space(c.config), c.miss[i], c.fresh[i])]
    BY <1>1 DEF Fresh
<1> HIDE DEF f
<1>3. f \in [D -> {f[i] : i \in D}] /\ c.miss \in Seq(ToSet(c.miss))
    BY <1>2 DEF IsSeq
<1>4. IsSeq(f) /\ DOMAIN f = D
  <2>1. f \in Seq({f[i] : i \in D}) /\ DOMAIN f = D
    BY <1>3, SeqMap
  <2> QED BY <2>1, SeqSelf
<1>5. \A i \in D : f[i].space = Space(c.config) /\ f[i].text = c.miss[i]
                   /\ f[i].vec = Vector(c.config, f[i].text)
                   /\ f[i] = Row(Space(c.config), f[i].text, Vector(c.config, f[i].text))
    BY <1>1, <1>2 DEF Row
<1> QED BY <1>4, <1>5 DEF ToSet, Fits, f

LEMMA KeptFits ==
    ASSUME NEW c, NEW rows, \A r \in ToSet(rows) : Fits(c, r),
           NEW text, \E r \in ToSet(rows) : r.text = text
    PROVE  Kept(rows, Space(c), text) = Vector(c, text)
<1> DEFINE P(r) == r.space = Space(c) /\ r.text = text
           r == CHOOSE q \in ToSet(rows) : P(q)
<1>1. \E q \in ToSet(rows) : P(q)
    BY DEF Fits
<1>2. r \in ToSet(rows) /\ P(r)
    BY <1>1
<1>3. Kept(rows, Space(c), text) = r.vec
    BY DEF Kept
<1> HIDE DEF r
<1> QED BY <1>2, <1>3 DEF Fits

(* The vectors of a batch that are taken are right and all there, but in a *)
(* full run without the cache, where they may be too few.                  *)
LEMMA EmbeddedRight ==
    ASSUME NEW c, Consistent(c), Posting(c), Sound(c), c.sent >= Len(c.miss)
    PROVE  LET e == Embedded(c)
               first == FirstBatch(c.todo)
           IN  /\ IsSeq(e) /\ Len(e) <= Len(first)
               /\ \/ c.kind = "full" /\ Len(e) < Len(first)
                  \/ /\ e \in Seq(MadeOf(c.config, ChunkSet(c.project)))
                     /\ \A K : Count(e, MadeOf(c.config, K)) = Count(first, K)
<1> DEFINE e == Embedded(c)
           first == FirstBatch(c.todo)
           p == c.project
           T == ChunkSet(p)
           Right == /\ e \in Seq(MadeOf(c.config, T))
                    /\ \A K : Count(e, MadeOf(c.config, K)) = Count(first, K)
<1>1. c.todo \in Seq(T)
    BY DEF Consistent
<1>2. first \in Seq(T) /\ Len(first) \in Nat
    BY <1>1, BatchSplit
<1>3. /\ AskedFor(c) /\ IsSeq(c.miss) /\ IsSeq(c.fresh)
      /\ c.sent = Len(c.miss) /\ Len(c.fresh) <= Len(c.miss)
      /\ Len(c.fresh) \in Nat /\ Len(c.miss) \in Nat
      /\ Len(c.fresh) = Len(c.miss) => Answered(c)
  <2>1. Len(c.fresh) \in Nat /\ Len(c.miss) \in Nat
    BY DEF Posting, IsSeq
  <2>2. c.sent = Len(c.miss)
    BY <2>1 DEF Posting
  <2> QED BY <2>1, <2>2 DEF Posting
<1>4. \A vec \in ToSet(c.fresh) : vec.dim = c.config.dim
    BY DEF Sound
<1> HIDE DEF e, first, T
<1>5. ASSUME NEW s \in Seq(T), Len(s) = Len(first), \A K : Count(s, K) = Count(first, K),
             e = MadeFrom(c.config, s)
      PROVE  IsSeq(e) /\ Len(e) <= Len(first) /\ Right
  <2>1. /\ e \in Seq(MadeOf(c.config, T)) /\ Len(e) = Len(s)
        /\ \A K : Count(e, MadeOf(c.config, K)) = Count(s, K)
    BY <1>5, MadeCount
  <2>2. IsSeq(e)
    BY <2>1, SeqSelf
  <2> QED BY <2>1, <2>2, <1>2, <1>5
<1>6. CASE Grouped(c.config)
  <2> DEFINE s == ByFile(first)
  <2>1. /\ s \in Seq(T) /\ Len(s) = Len(first) /\ DOMAIN s = DOMAIN first
        /\ \A K : Count(s, K) = Count(first, K)
    BY <1>2, ByFileFacts
  <2>2. c.miss = TextsOf(s) /\ Len(c.fresh) = Len(c.miss) /\ e = Paired(s, c.fresh)
    BY <1>3, <1>6 DEF AskedFor, Sound, Embedded, e, first
  <2> HIDE DEF s
  <2>3. \A i \in DOMAIN s : c.fresh[i] = Vector(c.config, s[i].text)
    BY <1>3, <1>4, <2>1, <2>2, FreshAre, TextsSeq
  <2>4. Len(c.fresh) = Len(s)
    BY <2>1, <2>2, TextsSeq
  <2>5. e = MadeFrom(c.config, s)
    BY <1>3, <2>1, <2>2, <2>3, <2>4, PairedRight
  <2> QED BY <1>5, <2>1, <2>5 DEF e, first, T
<1>7. CASE ~Grouped(c.config) /\ c.db
  <2> DEFINE rows == c.found \o Fresh(c)
  <2>1. /\ IsSeq(c.found) /\ \A r \in ToSet(c.found) : Fits(c.config, r)
        /\ \A k \in ToSet(first) :
             k.text \in ToSet(c.miss) \/ \E r \in ToSet(c.found) : r.text = k.text
    BY <1>3, <1>7 DEF AskedFor, first
  <2>2. Len(c.fresh) = Len(c.miss)
    BY <1>7 DEF Sound
  <2>3. /\ IsSeq(Fresh(c)) /\ \A r \in ToSet(Fresh(c)) : Fits(c.config, r)
        /\ \A x \in ToSet(c.miss) : \E r \in ToSet(Fresh(c)) : r.text = x
    BY <1>3, <1>4, <2>2, FreshRows
  <2>4. ToSet(rows) = ToSet(c.found) \cup ToSet(Fresh(c))
    BY <2>1, <2>3, SeqConcat
  <2>5. e = [i \in DOMAIN first |-> [chunk |-> first[i],
                  vec |-> Kept(rows, Space(c.config), first[i].text)]]
    BY <1>7 DEF Embedded, e, first
  <2> HIDE DEF rows
  <2>6. ASSUME NEW i \in DOMAIN first
        PROVE  Kept(rows, Space(c.config), first[i].text) = Vector(c.config, first[i].text)
    <3>1. first[i] \in ToSet(first)
      BY DEF ToSet
    <3>2. \E r \in ToSet(rows) : r.text = first[i].text
      BY <3>1, <2>1, <2>3, <2>4
    <3> QED BY <3>2, <2>1, <2>3, <2>4, KeptFits
  <2>7. e = MadeFrom(c.config, first)
    BY <2>5, <2>6 DEF Made, MadeFrom
  <2> QED BY <1>2, <1>5, <2>7 DEF e, first, T
<1>8. CASE ~Grouped(c.config) /\ ~c.db
  <2>1. c.kind = "full" /\ c.miss = TextsOf(first) /\ e = Paired(first, c.fresh)
    BY <1>3, <1>8 DEF AskedFor, Embedded, e, first
  <2>2. /\ Len(c.miss) = Len(first) /\ DOMAIN c.miss = DOMAIN first
        /\ \A i \in DOMAIN first : c.miss[i] = first[i].text
    BY <1>2, <2>1, TextsSeq
  <2>3. CASE Len(c.fresh) = Len(c.miss)
    <3>1. \A i \in DOMAIN first : c.fresh[i] = Vector(c.config, first[i].text)
      BY <1>3, <1>4, <2>2, <2>3, FreshAre
    <3>2. e = MadeFrom(c.config, first)
      BY <1>2, <1>3, <2>1, <2>2, <2>3, <3>1, PairedRight
    <3> QED BY <1>2, <1>5, <3>2 DEF e, first, T
  <2>4. CASE Len(c.fresh) # Len(c.miss)
    <3>1. IsSeq(e) /\ Len(e) <= Len(first) /\ Len(e) <= Len(c.fresh)
      BY <1>2, <1>3, <2>1, PairedLength
    <3>2. Len(e) \in Nat
      BY <3>1 DEF IsSeq
    <3>3. Len(e) < Len(first)
      BY <1>2, <1>3, <2>2, <2>4, <3>1, <3>2
    <3> QED BY <2>1, <3>1, <3>3 DEF e, first
  <2> QED BY <2>3, <2>4
<1> QED BY <1>6, <1>7, <1>8 DEF T

-----------------------------------------------------------------------------
(* The steps of a run.                                                     *)

Building(c) ==
    /\ Consistent(c)
    /\ c.pc \in {"bulk", "batch"} => c.fresh = <<>> /\ c.sent = 0
    /\ c.pc = "bulk" => c.done = <<>>
    /\ c.pc = "post" => Posting(c)

Built == {"bulk", "batch", "post"}

SameBuild(c, d) ==
    /\ SameRun(c, d)
    /\ d.kind = c.kind /\ d.files = c.files /\ d.failed = c.failed
    /\ d.done = c.done /\ d.todo = c.todo

LEMMA ConsistentSame ==
    ASSUME NEW c, Consistent(c), NEW d, SameBuild(c, d)
    PROVE  Consistent(d)
BY DEF Consistent, LostIn, GoodIn, SameBuild, SameRun

(* The rows of the cache are true, whichever run wrote them.               *)
TrueRow(r) == r = Row(r.space, r.text, [of |-> r.text, by |-> r.space, dim |-> r.vec.dim])
DocumentsInv == IsSeq(documents) /\ \A r \in ToSet(documents) : TrueRow(r)

LEMMA TrueFits ==
    ASSUME NEW c, NEW r, TrueRow(r), Usable(c, r)
    PROVE  Fits(c, r)
<1>1. r.vec = [of |-> r.text, by |-> r.space, dim |-> r.vec.dim]
    BY DEF TrueRow, Row
<1>2. r.space = Space(c) /\ r.vec.dim = c.dim
    BY DEF Usable
<1>3. r.vec = [of |-> r.text, by |-> Space(c), dim |-> c.dim]
    BY <1>1, <1>2
<1> QED BY <1>2, <1>3 DEF Fits, Vector, Space

LEMMA FitsTrue ==
    ASSUME NEW c, NEW r, r = Row(Space(c), r.text, Vector(c, r.text))
    PROVE  TrueRow(r)
<1> DEFINE s == Space(c)
           v == Vector(c, r.text)
<1>1. v = [of |-> r.text, by |-> s, dim |-> v.dim]
    BY DEF Vector, Space
<1> HIDE DEF s, v
<1>2. r.space = s /\ r.vec = v /\ r = Row(s, r.text, v)
    BY DEF Row, s, v
<1> QED BY <1>1, <1>2 DEF TrueRow

LEMMA NextFields ==
    ASSUME NEW S, NEW c \in Calls(S)
    PROVE  LET d == NextBatch(c)
           IN  /\ SameRun(c, d) /\ d.kind = c.kind /\ d.files = c.files
               /\ d.failed = c.failed /\ d.done = c.done /\ d.todo = Rest(c.todo)
               /\ d.pc = "batch" /\ d.fresh = <<>> /\ d.sent = 0
               /\ LET e == [d EXCEPT !.failed = TRUE]
                  IN  /\ SameRun(c, e) /\ e.kind = c.kind /\ e.files = c.files
                      /\ e.failed /\ e.done = c.done /\ e.todo = Rest(c.todo)
                      /\ e.pc = "batch" /\ e.fresh = <<>> /\ e.sent = 0
BY DEF NextBatch, Calls, SameRun

(* A batch is given up.                                                    *)
LEMMA RaisedRight ==
    ASSUME NEW S, NEW c \in Calls(S), Consistent(c)
    PROVE  \/ Raised(c) = Idle
           \/ Building(Raised(c)) /\ Raised(c).kind = c.kind
<1>1. CASE c.kind # "full"
    BY <1>1 DEF Raised
<1>2. CASE c.kind = "full"
  <2> DEFINE d == Raised(c)
  <2>1. /\ SameRun(c, d) /\ d.kind = c.kind /\ d.files = c.files
        /\ d.failed /\ d.done = c.done /\ d.todo = Rest(c.todo)
        /\ d.pc = "batch" /\ d.fresh = <<>> /\ d.sent = 0
    BY <1>2, NextFields DEF Raised
  <2> HIDE DEF d
  <2>2. LostIn(d)
    BY <1>2, <2>1 DEF LostIn
  <2>3. Rest(c.todo) \in Seq(ChunkSet(c.project))
    BY BatchSplit DEF Consistent
  <2>4. Consistent(d)
    BY <2>1, <2>2, <2>3 DEF Consistent, SameRun
  <2>5. Building(d)
    BY <2>1, <2>4 DEF Building
  <2> QED BY <2>1, <2>5 DEF d
<1> QED BY <1>1, <1>2

LEMMA SettledRight ==
    ASSUME NEW S, NEW c \in Calls(S), Consistent(c), Posting(c), Sound(c),
           c.sent >= Len(c.miss)
    PROVE  LET d == [NextBatch(c) EXCEPT !.done = @ \o Embedded(c)]
           IN  Building(d) /\ d.kind = c.kind
<1> DEFINE e == Embedded(c)
           x == c.done \o e
           d == [NextBatch(c) EXCEPT !.done = x]
<1>1. [NextBatch(c) EXCEPT !.done = @ \o Embedded(c)] = d
    BY NextFields
<1>2. /\ SameRun(c, d) /\ d.kind = c.kind /\ d.files = c.files
      /\ d.failed = c.failed /\ d.done = x /\ d.todo = Rest(c.todo)
      /\ d.pc = "batch" /\ d.fresh = <<>> /\ d.sent = 0
  <2> HIDE DEF x
  <2> QED BY DEF NextBatch, Calls, SameRun
<1>3. /\ IsSeq(e) /\ Len(e) <= Len(FirstBatch(c.todo))
      /\ \/ c.kind = "full" /\ Len(e) < Len(FirstBatch(c.todo))
         \/ /\ e \in Seq(MadeOf(c.config, ChunkSet(c.project)))
            /\ \A K : Count(e, MadeOf(c.config, K)) = Count(FirstBatch(c.todo), K)
    BY EmbeddedRight
<1> HIDE DEF e, d
<1>4. Consistent(d)
    BY <1>2, <1>3, Progress DEF SameRun
<1>5. Building(d)
    BY <1>2, <1>4 DEF Building
<1> QED BY <1>1, <1>2, <1>5

LEMMA LookUpKeeps ==
    ASSUME Shape, NEW t \in Indexers, LookUp(t), Building(call[t]), DocumentsInv,
           "incremental" \notin Uncached
    PROVE  Building(call'[t]) /\ call'[t].kind = call[t].kind
<1> DEFINE c == call[t]
           first == FirstBatch(c.todo)
           texts == TextsOf(first)
           T == ChunkSet(c.project)
<1>1. PICK S : call \in [Threads -> Calls(S)] /\ t \in Threads /\ c \in Calls(S)
    BY Disjoint DEF Shape
<1>2. /\ Consistent(c) /\ c.fresh = <<>> /\ c.sent = 0
      /\ c.kind \in {"full", "incremental"} /\ c.todo \in Seq(T)
    BY DEF LookUp, Building, Consistent
<1>3. first \in Seq(T)
    BY <1>2, BatchSplit
<1>4. /\ IsSeq(texts) /\ ToSet(texts) = {k.text : k \in ToSet(first)}
    BY <1>3, TextsSeq
<1>5. IsSeq(<<>>) /\ Len(<<>>) = 0 /\ DOMAIN <<>> = {}
    BY DEF IsSeq
<1>6. ASSUME NEW d, SameBuild(c, d), d.pc = "post", d.fresh = <<>>, d.sent = 0,
             AskedFor(d), IsSeq(d.miss)
      PROVE  Building(d)
  <2>1. Consistent(d)
    BY <1>2, <1>6, ConsistentSame
  <2>2. 0 \in Nat /\ Len(d.miss) \in Nat
    BY <1>6 DEF IsSeq
  <2>3. Posting(d)
    BY <1>5, <1>6, <2>2 DEF Posting, Answered
  <2> QED BY <1>6, <2>1, <2>3 DEF Building
<1>7. CASE Grouped(c.config)
  <2> DEFINE miss == TextsOf(ByFile(first))
             d == [c EXCEPT !.pc = "post", !.db = FALSE, !.miss = miss]
  <2>1. call' = [call EXCEPT ![t] = d]
    BY <1>1, <1>7 DEF LookUp
  <2>2. IsSeq(miss)
    BY <1>3, ByFileFacts, TextsSeq
  <2>3. /\ SameBuild(c, d) /\ d.pc = "post" /\ d.fresh = c.fresh /\ d.sent = c.sent
        /\ d.db = FALSE /\ d.miss = miss
    <3> HIDE DEF miss
    <3> QED BY <1>1 DEF Calls, SameBuild, SameRun
  <2> HIDE DEF d
  <2>4. AskedFor(d)
    BY <1>7, <2>3 DEF AskedFor, SameBuild, SameRun
  <2>5. Building(d)
    BY <1>2, <1>6, <2>2, <2>3, <2>4
  <2> QED BY <1>1, <2>1, <2>3, <2>5 DEF SameBuild
<1>8. CASE ~Grouped(c.config)
  <2> DEFINE found(db) == Among(documents, {r \in ToSet(documents) :
                            /\ db
                            /\ Usable(c.config, r)
                            /\ r.text \in ToSet(texts)})
             missed(db) == IF db
                           THEN Among(Once(texts), {x \in ToSet(texts) :
                                  \A r \in ToSet(found(db)) : r.text # x})
                           ELSE texts
  <2>1. PICK db \in Opened(c.kind) :
          call' = [call EXCEPT ![t].pc = "post", ![t].db = db, ![t].found = found(db),
                               ![t].miss = missed(db)]
    BY <1>8, Zenon DEF LookUp
  <2>2. db \in BOOLEAN /\ (c.kind = "incremental" => db = TRUE)
    BY DEF Opened
  <2> DEFINE rows == found(db)
             miss == missed(db)
             d == [c EXCEPT !.pc = "post", !.db = db, !.found = rows, !.miss = miss]
  <2>3. call' = [call EXCEPT ![t] = d]
    <3> HIDE DEF found, missed
    <3> QED BY <1>1, <2>1
  <2>4. /\ SameBuild(c, d) /\ d.pc = "post" /\ d.fresh = c.fresh /\ d.sent = c.sent
        /\ d.db = db /\ d.found = rows /\ d.miss = miss
    <3> HIDE DEF found, missed
    <3> QED BY <1>1 DEF Calls, SameBuild, SameRun
  <2> HIDE DEF d
  <2>5. CASE db = FALSE
    <3>1. miss = texts
      BY <2>5
    <3>2. AskedFor(d)
      BY <1>2, <1>8, <2>2, <2>4, <2>5, <3>1 DEF AskedFor, SameBuild, SameRun
    <3>3. Building(d)
      BY <1>2, <1>4, <1>6, <2>4, <3>1, <3>2
    <3> QED BY <1>1, <2>3, <2>4, <3>3 DEF SameBuild
  <2>6. CASE db = TRUE
    <3> DEFINE M == {r \in ToSet(documents) : Usable(c.config, r) /\ r.text \in ToSet(texts)}
               N == {x \in ToSet(texts) : \A r \in ToSet(rows) : r.text # x}
    <3>1. rows = Among(documents, M)
      BY <2>6
    <3>2. miss = Among(Once(texts), N)
      BY <2>6
    <3> HIDE DEF rows, miss
    <3>3. IsSeq(rows) /\ ToSet(rows) = M
      <4>1. documents \in Seq(ToSet(documents))
        BY DEF DocumentsInv, IsSeq
      <4> QED BY <3>1, <4>1, AmongFacts, SeqSelf
    <3>4. IsSeq(miss) /\ ToSet(miss) = N
      <4>1. texts \in Seq(ToSet(texts))
        BY <1>4 DEF IsSeq
      <4>2. Once(texts) \in Seq(ToSet(texts)) /\ ToSet(Once(texts)) = ToSet(texts)
        BY <4>1, OnceFacts
      <4> QED BY <3>2, <4>2, AmongFacts, SeqSelf
    <3>5. \A r \in ToSet(rows) : Fits(c.config, r)
      BY <3>3, TrueFits DEF DocumentsInv
    <3>6. \A k \in ToSet(first) :
            k.text \in ToSet(miss) \/ \E r \in ToSet(rows) : r.text = k.text
      BY <1>4, <3>4
    <3>7. AskedFor(d)
      BY <1>8, <2>4, <2>6, <3>3, <3>4, <3>5, <3>6 DEF AskedFor, SameBuild, SameRun
    <3>8. Building(d)
      BY <1>2, <1>6, <2>4, <3>4, <3>7
    <3> QED BY <1>1, <2>3, <2>4, <3>8 DEF SameBuild
  <2> QED BY <2>2, <2>5, <2>6
<1> QED BY <1>7, <1>8

(* What is asked for next.                                                 *)
LEMMA AskedRight ==
    ASSUME NEW c, IsSeq(c.miss), c.sent \in Nat, c.sent < Len(c.miss)
    PROVE  LET texts == Asked(c)
           IN  /\ IsSeq(texts) /\ Len(texts) \in Nat
               /\ c.sent + Len(texts) <= Len(c.miss)
               /\ \A i \in 1 .. Len(texts) : texts[i] = c.miss[c.sent + i]
<1> DEFINE n == IF c.sent + Request < Len(c.miss) THEN c.sent + Request
                ELSE Len(c.miss)
           m == c.sent
           texts == Asked(c)
<1>1. Request \in Nat /\ Len(c.miss) \in Nat /\ c.miss \in Seq(ToSet(c.miss))
    BY ConstantsAssumption DEF ConstantsAssumption, IsSeq
<1>2. m \in Nat /\ n \in Nat /\ m <= n /\ n <= Len(c.miss)
    BY <1>1
<1>3. texts = SubSeq(c.miss, m + 1, n)
    BY DEF Asked
<1> HIDE DEF n, m, texts
<1>4. \A i \in m + 1 .. n : c.miss[i] \in ToSet(c.miss)
    BY <1>1, <1>2
<1>5. m + 1 \in Int /\ n \in Int
    BY <1>2
<1>6. /\ texts \in Seq(ToSet(c.miss))
      /\ Len(texts) = IF m + 1 <= n THEN n - (m + 1) + 1 ELSE 0
      /\ \A i \in 1 .. n - (m + 1) + 1 : texts[i] = c.miss[m + 1 + i - 1]
    BY <1>3, <1>4, <1>5, SubSeqProperties
<1>7. Len(texts) = n - m
  <2>1. CASE m + 1 <= n
    BY <1>2, <1>6, <2>1
  <2>2. CASE ~(m + 1 <= n)
    <3>1. m = n
      BY <1>2, <2>2
    <3> QED BY <1>2, <1>6, <2>2, <3>1
  <2> QED BY <2>1, <2>2
<1>8. ASSUME NEW i \in 1 .. Len(texts) PROVE texts[i] = c.miss[m + i]
  <2>1. i \in 1 .. n - (m + 1) + 1 /\ m + 1 + i - 1 = m + i
    BY <1>2, <1>7
  <2> QED BY <1>6, <2>1
<1>9. m + Len(texts) <= Len(c.miss) /\ Len(texts) \in Nat
    BY <1>2, <1>7
<1> QED BY <1>6, <1>8, <1>9, SeqSelf DEF m, texts

(* One answer left out.                                                    *)
LEMMA OneShort ==
    ASSUME NEW s, IsSeq(s), NEW i \in DOMAIN s
    PROVE  IsSeq(RemoveAt(s, i)) /\ Len(RemoveAt(s, i)) < Len(s)
<1> DEFINE T == ToSet(s)
           a == SubSeq(s, 1, i - 1)
           b == SubSeq(s, i + 1, Len(s))
<1>1. s \in Seq(T) /\ Len(s) \in Nat /\ i \in 1 .. Len(s)
      /\ i - 1 \in 0 .. Len(s) /\ i \in 0 .. Len(s)
    BY DEF IsSeq
<1>2. a \in Seq(T) /\ Len(a) = i - 1
    BY <1>1, Cut
<1>3. b \in Seq(T) /\ Len(b) = Len(s) - i
    BY <1>1, Cut
<1>4. RemoveAt(s, i) = a \o b
    BY DEF RemoveAt
<1> HIDE DEF a, b
<1>5. IsSeq(a \o b) /\ Len(a \o b) = Len(a) + Len(b)
    BY <1>2, <1>3, SeqSelf, SeqConcat
<1>6. i - 1 + (Len(s) - i) < Len(s)
    BY <1>1
<1> QED BY <1>2, <1>3, <1>4, <1>5, <1>6

(* Answers in full are those of their texts as long as all before were.    *)
LEMMA AnsweredMore ==
    ASSUME NEW c, Posting(c), c.sent < Len(c.miss), NEW some, IsSeq(some),
           Len(some) <= Len(Asked(c)),
           Len(some) = Len(Asked(c)) => \A i \in 1 .. Len(some) :
             some[i] \in {Vector(c.config, Asked(c)[i]), Odd(c.config, Asked(c)[i])},
           NEW d, SameBuild(c, d), d.db = c.db, d.found = c.found, d.miss = c.miss,
           d.fresh = c.fresh \o some, d.sent = c.sent + Len(Asked(c))
    PROVE  Posting(d)
<1> DEFINE texts == Asked(c)
           m == c.sent
<1>1. IsSeq(c.miss) /\ IsSeq(c.fresh) /\ m \in Nat /\ Len(c.fresh) <= m
      /\ Len(c.fresh) \in Nat /\ Len(some) \in Nat
    BY DEF Posting, IsSeq
<1>2. /\ Len(texts) \in Nat /\ m + Len(texts) <= Len(c.miss)
      /\ \A i \in 1 .. Len(texts) : texts[i] = c.miss[m + i]
    BY <1>1, AskedRight
<1>3. IsSeq(d.fresh) /\ Len(d.fresh) = Len(c.fresh) + Len(some)
    BY <1>1, SeqConcat
<1> HIDE DEF texts, m
<1>4. d.sent = m + Len(texts) /\ Len(some) <= Len(texts)
    BY DEF m, texts
<1>5. d.sent \in Nat /\ Len(d.fresh) <= d.sent /\ d.sent <= Len(d.miss)
    BY <1>1, <1>2, <1>3, <1>4
<1>6. ASSUME Len(d.fresh) = d.sent PROVE Answered(d)
  <2>1. Len(c.fresh) = m /\ Len(some) = Len(texts)
    BY <1>1, <1>2, <1>3, <1>4, <1>6
  <2>2. Answered(c)
    BY <2>1 DEF Posting, m
  <2> DEFINE U == ToSet(c.fresh) \cup ToSet(some)
  <2>3. c.fresh \in Seq(U) /\ some \in Seq(U)
    BY <1>1 DEF IsSeq
  <2>4. /\ DOMAIN c.fresh = 1 .. m /\ DOMAIN d.fresh = 1 .. m + Len(texts)
        /\ \A i \in 1 .. m : d.fresh[i] = c.fresh[i]
        /\ \A i \in 1 .. Len(texts) : d.fresh[m + i] = some[i]
    BY <2>1, <2>3, ConcatAt
  <2>5. ASSUME NEW i \in 1 .. m + Len(texts)
        PROVE  d.fresh[i] \in {Vector(c.config, c.miss[i]), Odd(c.config, c.miss[i])}
    <3>1. CASE i <= m
      <4>1. i \in 1 .. m
        BY <1>1, <1>2, <3>1
      <4> QED BY <4>1, <2>2, <2>4 DEF Answered
    <3>2. CASE ~(i <= m)
      <4> DEFINE j == i - m
      <4>1. j \in 1 .. Len(texts) /\ m + j = i
        BY <1>1, <1>2, <3>2
      <4> HIDE DEF j
      <4>2. some[j] \in {Vector(c.config, texts[j]), Odd(c.config, texts[j])}
        BY <2>1, <4>1 DEF texts
      <4>3. texts[j] = c.miss[i] /\ d.fresh[i] = some[j]
        BY <1>2, <2>4, <4>1
      <4> QED BY <4>2, <4>3
    <3> QED BY <3>1, <3>2
  <2> QED BY <2>4, <2>5 DEF Answered, SameBuild, SameRun
<1>7. AskedFor(d)
    BY DEF Posting, AskedFor, SameBuild, SameRun
<1> QED BY <1>1, <1>3, <1>5, <1>6, <1>7 DEF Posting

LEMMA PostKeeps ==
    ASSUME Shape, NEW t \in Indexers, Post(t), Building(call[t])
    PROVE  \/ call'[t] = Idle
           \/ Building(call'[t]) /\ call'[t].kind = call[t].kind
<1> DEFINE c == call[t]
           texts == Asked(c)
           whole == [i \in DOMAIN texts |-> Vector(c.config, texts[i])]
           odd == [i \in DOMAIN texts |-> Odd(c.config, texts[i])]
<1>1. PICK S : call \in [Threads -> Calls(S)] /\ t \in Threads /\ c \in Calls(S)
    BY Disjoint DEF Shape
<1>2. c.pc = "post" /\ Consistent(c) /\ Posting(c) /\ c.sent < Len(c.miss)
    BY DEF Post, Building
<1>3. /\ IsSeq(texts) /\ Len(texts) \in Nat /\ DOMAIN texts = 1 .. Len(texts)
      /\ texts \in Seq(ToSet(texts))
    BY <1>2, AskedRight DEF Posting, IsSeq
<1>4. /\ IsSeq(whole) /\ Len(whole) = Len(texts) /\ IsSeq(odd) /\ Len(odd) = Len(texts)
  <2> HIDE DEF texts
  <2>1. whole \in [DOMAIN texts -> {Vector(c.config, texts[i]) : i \in DOMAIN texts}]
    OBVIOUS
  <2>2. odd \in [DOMAIN texts -> {Odd(c.config, texts[i]) : i \in DOMAIN texts}]
    OBVIOUS
  <2> HIDE DEF whole, odd
  <2>3. /\ whole \in Seq({Vector(c.config, texts[i]) : i \in DOMAIN texts})
        /\ Len(whole) = Len(texts)
    BY <1>3, <2>1, SeqMap
  <2>4. /\ odd \in Seq({Odd(c.config, texts[i]) : i \in DOMAIN texts})
        /\ Len(odd) = Len(texts)
    BY <1>3, <2>2, SeqMap
  <2> QED BY <2>3, <2>4, SeqSelf
<1>5. \/ \E some \in {whole, odd} \cup {RemoveAt(whole, i) : i \in DOMAIN whole} :
           call' = [call EXCEPT ![t].fresh = @ \o some, ![t].tries = 0,
                                ![t].sent = @ + Len(texts)]
      \/ call' = [call EXCEPT ![t].tries = @ + 1]
      \/ call' = [call EXCEPT ![t] = Raised(c)]
    BY DEF Post
<1>6. CASE \E some \in {whole, odd} \cup {RemoveAt(whole, i) : i \in DOMAIN whole} :
             call' = [call EXCEPT ![t].fresh = @ \o some, ![t].tries = 0,
                                  ![t].sent = @ + Len(texts)]
  <2>1. PICK some \in {whole, odd} \cup {RemoveAt(whole, i) : i \in DOMAIN whole} :
          call' = [call EXCEPT ![t].fresh = @ \o some, ![t].tries = 0,
                               ![t].sent = @ + Len(texts)]
    BY <1>6
  <2>2. /\ IsSeq(some) /\ Len(some) <= Len(texts)
        /\ Len(some) = Len(texts) => \A i \in 1 .. Len(some) :
             some[i] \in {Vector(c.config, texts[i]), Odd(c.config, texts[i])}
    <3>0. /\ \A i \in 1 .. Len(texts) : whole[i] = Vector(c.config, texts[i])
          /\ \A i \in 1 .. Len(texts) : odd[i] = Odd(c.config, texts[i])
      <4> HIDE DEF texts
      <4> QED BY <1>3
    <3>1. CASE some = whole \/ some = odd
      <4> HIDE DEF texts, whole, odd
      <4> QED BY <1>3, <1>4, <3>0, <3>1
    <3>2. CASE \E i \in DOMAIN whole : some = RemoveAt(whole, i)
      <4> HIDE DEF whole
      <4>1. IsSeq(some) /\ Len(some) < Len(texts)
        BY <1>4, <3>2, OneShort
      <4>2. Len(some) \in Nat
        BY <4>1 DEF IsSeq
      <4> QED BY <1>3, <4>1, <4>2
    <3> QED BY <3>1, <3>2
  <2> DEFINE fresh == c.fresh \o some
             sent == c.sent + Len(texts)
             d == [c EXCEPT !.fresh = fresh, !.tries = 0, !.sent = sent]
  <2> HIDE DEF whole, odd
  <2>3. call' = [call EXCEPT ![t] = d]
    BY <1>1, <2>1
  <2>4. /\ SameBuild(c, d) /\ d.db = c.db /\ d.found = c.found /\ d.miss = c.miss
        /\ d.pc = "post" /\ d.fresh = fresh /\ d.sent = sent
    <3> HIDE DEF fresh, sent
    <3> QED BY <1>1, <1>2 DEF Calls, SameBuild, SameRun
  <2> HIDE DEF d
  <2>5. Posting(d)
    BY <1>2, <2>2, <2>4, AnsweredMore
  <2>6. Consistent(d)
    BY <1>2, <2>4, ConsistentSame
  <2>7. Building(d)
    BY <2>4, <2>5, <2>6 DEF Building
  <2> QED BY <1>1, <2>3, <2>4, <2>7 DEF SameBuild
<1>7. CASE call' = [call EXCEPT ![t].tries = @ + 1]
  <2> DEFINE tries == c.tries + 1
             d == [c EXCEPT !.tries = tries]
  <2>1. call' = [call EXCEPT ![t] = d]
    BY <1>1, <1>7
  <2>2. /\ SameBuild(c, d) /\ d.db = c.db /\ d.found = c.found /\ d.miss = c.miss
        /\ d.pc = "post" /\ d.fresh = c.fresh /\ d.sent = c.sent
    <3> HIDE DEF tries
    <3> QED BY <1>1, <1>2 DEF Calls, SameBuild, SameRun
  <2> HIDE DEF d
  <2>3. Posting(d)
    BY <1>2, <2>2 DEF Posting, AskedFor, Answered, SameBuild, SameRun
  <2>4. Consistent(d)
    BY <1>2, <2>2, ConsistentSame
  <2>5. Building(d)
    BY <2>2, <2>3, <2>4 DEF Building
  <2> QED BY <1>1, <2>1, <2>2, <2>5 DEF SameBuild
<1>8. CASE call' = [call EXCEPT ![t] = Raised(c)]
  <2>1. call'[t] = Raised(c)
    BY <1>1, <1>8
  <2> QED BY <1>1, <1>2, <2>1, RaisedRight
<1> QED BY <1>5, <1>6, <1>7, <1>8

LEMMA SettleKeeps ==
    ASSUME Shape, NEW t \in Indexers, Settle(t), Building(call[t])
    PROVE  \/ call'[t] = Idle
           \/ Building(call'[t]) /\ call'[t].kind = call[t].kind
<1> DEFINE c == call[t]
<1>1. PICK S : call \in [Threads -> Calls(S)] /\ t \in Threads /\ c \in Calls(S)
    BY Disjoint DEF Shape
<1>2. Consistent(c) /\ Posting(c) /\ c.sent >= Len(c.miss)
    BY DEF Settle, Building
<1>3. CASE Sound(c)
  <2> DEFINE d == [NextBatch(c) EXCEPT !.done = @ \o Embedded(c)]
  <2>1. call' = [call EXCEPT ![t] = d]
    BY <1>3, Zenon DEF Settle
  <2>2. Building(d) /\ d.kind = c.kind
    BY <1>1, <1>2, <1>3, SettledRight
  <2> HIDE DEF d
  <2> QED BY <1>1, <2>1, <2>2
<1>4. CASE ~Sound(c)
  <2>1. call' = [call EXCEPT ![t] = Raised(c)]
    BY <1>1, <1>4 DEF Settle
  <2>2. call'[t] = Raised(c)
    BY <1>1, <2>1
  <2> QED BY <1>1, <1>2, <2>2, RaisedRight
<1> QED BY <1>3, <1>4

(* What is written to the cache is true.                                   *)
LEMMA SettleDocuments ==
    ASSUME NEW t \in Indexers, Settle(t), Building(call[t]), DocumentsInv
    PROVE  DocumentsInv'
<1> DEFINE c == call[t]
<1>1. CASE documents' = documents
    BY <1>1 DEF DocumentsInv
<1>2. CASE Sound(c) /\ c.db /\ documents' = Cached(c)
  <2> DEFINE M == {r \in ToSet(documents) :
                    ~(r.space = Space(c.config) /\ r.text \in ToSet(c.miss))}
             kept == Among(documents, M)
             all == kept \o Fresh(c)
             n == IF Len(all) > DocumentMax THEN Len(all) - DocumentMax + 1 ELSE 1
  <2>1. documents' = SubSeq(all, n, Len(all))
    BY <1>2 DEF Cached
  <2>2. /\ Posting(c) /\ c.sent >= Len(c.miss) /\ IsSeq(c.fresh) /\ IsSeq(c.miss)
        /\ Len(c.fresh) = Len(c.miss)
        /\ \A vec \in ToSet(c.fresh) : vec.dim = c.config.dim
    BY <1>2 DEF Settle, Building, Posting, Sound
  <2>3. Answered(c)
    <3>1. Len(c.miss) \in Nat /\ c.sent \in Nat /\ c.sent <= Len(c.miss)
      BY <2>2 DEF Posting, IsSeq
    <3>2. Len(c.fresh) = c.sent
      BY <2>2, <3>1
    <3> QED BY <2>2, <3>2 DEF Posting
  <2>4. /\ IsSeq(Fresh(c))
        /\ \A r \in ToSet(Fresh(c)) :
             r = Row(Space(c.config), r.text, Vector(c.config, r.text))
    BY <2>2, <2>3, FreshRows
  <2>5. \A r \in ToSet(Fresh(c)) : TrueRow(r)
    BY <2>4, FitsTrue
  <2>6. IsSeq(kept) /\ ToSet(kept) \subseteq ToSet(documents)
    <3>1. documents \in Seq(ToSet(documents))
      BY DEF DocumentsInv, IsSeq
    <3> HIDE DEF M
    <3> QED BY <3>1, AmongFacts, SeqSelf
  <2> HIDE DEF kept
  <2>7. IsSeq(all) /\ ToSet(all) = ToSet(kept) \cup ToSet(Fresh(c))
    BY <2>4, <2>6, SeqConcat
  <2> HIDE DEF all
  <2>8. \A r \in ToSet(all) : TrueRow(r)
    BY <2>5, <2>6, <2>7 DEF DocumentsInv
  <2>9. n \in Nat /\ n >= 1 /\ Len(all) \in Nat
    BY <2>7, ConstantsAssumption DEF ConstantsAssumption, IsSeq
  <2>10. \A i \in n .. Len(all) : all[i] \in ToSet(all)
    BY <2>7, <2>9 DEF ToSet, IsSeq
  <2> HIDE DEF n
  <2>11. documents' \in Seq(ToSet(all))
    BY <2>1, <2>9, <2>10, SubSeqProperties
  <2> QED BY <2>8, <2>11, SeqSelf DEF DocumentsInv
<1> QED BY <1>1, <1>2 DEF Settle

LEMMA CountEmpty ==
    /\ \A T : <<>> \in Seq(T)
    /\ Len(<<>>) = 0 /\ IsSeq(<<>>)
    /\ \A K : Count(<<>>, K) = 0
<1>1. (\A T : <<>> \in Seq(T)) /\ Len(<<>>) = 0
    OBVIOUS
<1>2. ASSUME NEW K PROVE Count(<<>>, K) = 0
  <2>1. Count(<<>>, K) \in Nat /\ Count(<<>>, K) <= Len(<<>>)
    BY <1>1, CountType
  <2> QED BY <1>1, <2>1
<1>3. IsSeq(<<>>)
    BY <1>1 DEF IsSeq
<1> QED BY <1>1, <1>2, <1>3

(* What comes back in full from a bulk job that was asked for documents.   *)
LEMMA InOrderRight ==
    ASSUME NEW T, NEW s \in Seq(T), NEW got \in SUBSET DOMAIN s, NEW c, c.it = TRUE,
           NEW S, c \in [provider : S, model : S, dim : S, it : S, mode : S],
           Len(InOrder(c, s, got)) = Len(s)
    PROVE  Paired(s, InOrder(c, s, got)) = MadeFrom(c, s)
<1> DEFINE v == InOrder(c, s, got)
           m == Cardinality(got)
<1>1. [c EXCEPT !.it = TRUE] = c
    OBVIOUS
<1>2. Len(s) \in Nat /\ DOMAIN s = 1 .. Len(s)
    OBVIOUS
<1>3. CASE got = 1 .. m
  <2>1. IsFiniteSet(1 .. Len(s))
    BY <1>2, FS_Interval
  <2>2. m \in Nat
    BY <1>2, <2>1, FS_Subset, FS_CardinalityType
  <2>3. v = [i \in 1 .. m |-> Vector(c, s[i].text)]
    BY <1>1, <1>3 DEF InOrder
  <2> DEFINE R == {Vector(c, s[i].text) : i \in 1 .. m}
  <2> HIDE DEF v, m
  <2>4. v \in [1 .. m -> R]
    BY <2>3
  <2> HIDE DEF R
  <2>5. v \in Seq(R) /\ Len(v) = m
    BY <2>2, <2>4, LenProperties
  <2>6. Len(v) = Len(s) /\ IsSeq(v)
    BY <2>5, SeqSelf DEF v
  <2>7. \A i \in DOMAIN s : v[i] = Vector(c, s[i].text)
    BY <1>2, <2>3, <2>5, <2>6
  <2> QED BY <2>6, <2>7, PairedRight DEF v
<1>4. CASE got # 1 .. m
  <2>1. v = <<>>
    BY <1>4 DEF InOrder
  <2>2. Len(v) = Len(s) /\ IsSeq(v)
    BY <2>1, CountEmpty
  <2>3. Len(s) = 0 /\ DOMAIN s = {}
    BY <1>2, <2>1, <2>2, CountEmpty
  <2>4. \A i \in DOMAIN s : v[i] = Vector(c, s[i].text)
    BY <2>3
  <2> HIDE DEF v
  <2> QED BY <2>2, <2>4, PairedRight DEF v
<1> QED BY <1>3, <1>4

LEMMA BulkKeeps ==
    ASSUME Shape, NEW t \in Indexers, Bulk(t), Building(call[t]),
           call[t].config \in Descriptions, call[t].config.it = TRUE
    PROVE  Building(call'[t]) /\ call'[t].kind = call[t].kind
<1> DEFINE c == call[t]
           p == c.project
           s == c.todo
<1>1. PICK S : call \in [Threads -> Calls(S)] /\ t \in Threads /\ c \in Calls(S)
    BY Disjoint DEF Shape
<1>2. /\ Consistent(c) /\ c.fresh = <<>> /\ c.sent = 0 /\ c.done = <<>> /\ c.pc = "bulk"
      /\ s \in Seq(ChunkSet(p)) /\ p \in Projects
    BY DEF Bulk, Building, Consistent
<1>3. PICK got \in SUBSET DOMAIN s :
        call' = IF Len(InOrder(c.config, s, got)) = Len(s)
                THEN [call EXCEPT ![t].pc = "batch", ![t].todo = <<>>,
                                  ![t].done = Paired(s, InOrder(c.config, s, got))]
                ELSE [call EXCEPT ![t].pc = "batch"]
    BY Zenon DEF Bulk
<1>4. CASE Len(InOrder(c.config, s, got)) = Len(s)
  <2> DEFINE done == Paired(s, InOrder(c.config, s, got))
             d == [c EXCEPT !.pc = "batch", !.todo = <<>>, !.done = done]
  <2>1. call' = [call EXCEPT ![t] = d]
    <3> HIDE DEF done
    <3> QED BY <1>1, <1>3, <1>4 DEF done
  <2>2. \E U : c.config \in [provider : U, model : U, dim : U, it : U, mode : U]
    <3> DEFINE U == {c.config.provider, c.config.model, c.config.dim, c.config.it,
                     c.config.mode}
    <3>1. c.config \in [provider : U, model : U, dim : U, it : U, mode : U]
      BY DEF Descriptions
    <3> QED BY <3>1
  <2>3. done = MadeFrom(c.config, s)
    BY <1>2, <1>4, <2>2, InOrderRight
  <2>4. /\ SameRun(c, d) /\ d.kind = c.kind /\ d.files = c.files /\ d.failed = c.failed
        /\ d.pc = "batch" /\ d.fresh = <<>> /\ d.sent = 0
        /\ d.todo = <<>> /\ d.done = done
    <3> HIDE DEF done
    <3> QED BY <1>1, <1>2 DEF Calls, SameRun
  <2> HIDE DEF d, done
  <2>5. /\ done \in Seq(MadeOf(c.config, ChunkSet(p))) /\ Len(done) = Len(s)
        /\ \A K : Count(done, MadeOf(c.config, K)) = Count(s, K)
        /\ IsSeq(done)
    BY <1>2, <2>3, MadeCount, SeqSelf
  <2>6. /\ Len(d.done) + Len(d.todo) = Len(c.done) + Len(c.todo)
    <3>1. Len(s) \in Nat
      BY <1>2
    <3> QED BY <1>2, <2>4, <2>5, <3>1, CountEmpty
  <2>7. LostIn(c) => LostIn(d)
    BY <2>4, <2>6 DEF LostIn, SameRun
  <2>8. ASSUME GoodIn(c) PROVE GoodIn(d)
    <3>1. ASSUME NEW K \in SUBSET ChunkSet(p)
          PROVE  Count(done, MadeOf(c.config, K)) + Count(<<>>, K)
                   = Count(ChunksOf[p], OfFiles(K, c.files))
      <4>1. Count(<<>>, MadeOf(c.config, K)) + Count(s, K)
              = Count(ChunksOf[p], OfFiles(K, c.files))
        BY <1>2, <2>8 DEF GoodIn
      <4>2. Count(s, K) \in Nat
        BY <1>2, CountType
      <4> QED BY <2>5, <4>1, <4>2, CountEmpty
    <3> QED BY <2>4, <2>5, <3>1 DEF GoodIn, SameRun
  <2>9. Consistent(d)
    BY <1>2, <2>4, <2>5, <2>7, <2>8, CountEmpty DEF Consistent, SameRun
  <2>10. Building(d)
    BY <2>4, <2>9 DEF Building
  <2> QED BY <1>1, <2>1, <2>4, <2>10
<1>5. CASE Len(InOrder(c.config, s, got)) # Len(s)
  <2> DEFINE d == [c EXCEPT !.pc = "batch"]
  <2>1. call' = [call EXCEPT ![t] = d]
    BY <1>1, <1>3, <1>5
  <2>2. SameBuild(c, d) /\ d.pc = "batch" /\ d.fresh = <<>> /\ d.sent = 0
    BY <1>1, <1>2 DEF Calls, SameBuild, SameRun
  <2> HIDE DEF d
  <2>3. Building(d)
    BY <1>2, <2>2, ConsistentSame DEF Building
  <2> QED BY <1>1, <2>1, <2>2, <2>3 DEF SameBuild
<1> QED BY <1>4, <1>5

(* A run begins with all chunks of its files.                              *)
LEMMA OpenBuilds ==
    ASSUME Shape, NEW t \in Indexers, OpenIndex(t)
    PROVE  /\ Building(call'[t])
           /\ call'[t].kind = "incremental" => index[call'[t].project] # NoIndex
<1>1. PICK S : call \in [Threads -> Calls(S)] /\ t \in Threads
    BY Disjoint DEF Shape
<1>2. PICK T : Idle \in Calls(T)
    BY IdleShape
<1>3. PICK p, kind, files, cfg :
        /\ p \in Projects /\ kind \in {"full", "incremental"}
        /\ files \in IF kind = "full" THEN {Files(p)} ELSE SUBSET Files(p) \ {{}}
        /\ kind = "incremental" => index[p] # NoIndex
        /\ call' = [call EXCEPT ![t] =
             [Idle EXCEPT !.project = p, !.config = cfg, !.kind = kind, !.files = files,
                !.todo = Chunked(p, files),
                !.pc = IF /\ kind = "full"
                          /\ env.bulk <= Len(ChunksOf[p])
                          /\ cfg.provider \in TypedProviders
                       THEN "bulk" ELSE "batch"]]
    BY Zenon DEF OpenIndex
<1> DEFINE pc == IF /\ kind = "full"
                    /\ env.bulk <= Len(ChunksOf[p])
                    /\ cfg.provider \in TypedProviders
                 THEN "bulk" ELSE "batch"
           todo == Chunked(p, files)
           c == [Idle EXCEPT !.project = p, !.config = cfg, !.kind = kind, !.files = files,
                   !.todo = todo, !.pc = pc]
<1>4. call'[t] = c /\ p \in Projects /\ kind \in {"full", "incremental"}
    BY <1>1, <1>3
<1>5. pc \in {"bulk", "batch"}
    OBVIOUS
<1>6. /\ c.project = p /\ c.config = cfg /\ c.kind = kind /\ c.files = files
      /\ c.todo = todo /\ c.pc = pc /\ c.done = <<>> /\ c.fresh = <<>> /\ c.sent = 0
  <2> HIDE DEF todo, pc
  <2>1. Idle.done = <<>> /\ Idle.fresh = <<>> /\ Idle.sent = 0
    BY DEF Idle
  <2> QED BY <1>2, <2>1 DEF Calls
<1>7. /\ todo \in Seq(ChunkSet(p))
      /\ \A K : Count(todo, K) = Count(ChunksOf[p], OfFiles(K, files))
    BY <1>4, ChunkedFacts
<1>8. kind = "full" => files = Files(p)
    BY <1>3
<1> HIDE DEF c, todo, pc
<1>9. GoodIn(c)
  <2>1. ASSUME NEW K \in SUBSET ChunkSet(p)
        PROVE  Count(<<>>, MadeOf(cfg, K)) + Count(todo, K)
                 = Count(ChunksOf[p], OfFiles(K, files))
    <3>1. Count(todo, K) \in Nat
      BY <1>7, CountType
    <3> QED BY <1>7, <3>1, CountEmpty
  <2> QED BY <1>6, <2>1, CountEmpty DEF GoodIn
<1>10. Consistent(c)
    BY <1>4, <1>6, <1>7, <1>8, <1>9, CountEmpty DEF Consistent
<1>11. Building(c)
    BY <1>5, <1>6, <1>10 DEF Building
<1> QED BY <1>3, <1>4, <1>6, <1>11

(* Two sets of elements together.                                          *)
LEMMA CountParts ==
    ASSUME NEW T, NEW s \in Seq(T), NEW K, NEW L, K \cap L = {}
    PROVE  Count(s, K \cup L) = Count(s, K) + Count(s, L)
<1>1. At(s, K \cup L) = At(s, K) \cup At(s, L) /\ At(s, K) \cap At(s, L) = {}
    BY DEF At
<1>2. IsFiniteSet(At(s, K)) /\ IsFiniteSet(At(s, L))
    BY CountType
<1>3. Cardinality({}) = 0 /\ Cardinality(At(s, K)) \in Nat /\ Cardinality(At(s, L)) \in Nat
    BY <1>2, FS_EmptySet, FS_CardinalityType
<1>4. Cardinality(At(s, K) \cup At(s, L))
        = Cardinality(At(s, K)) + Cardinality(At(s, L)) - Cardinality(At(s, K) \cap At(s, L))
    BY <1>2, FS_Union
<1> DEFINE k == Cardinality(At(s, K))
           l == Cardinality(At(s, L))
<1>5. Cardinality(At(s, K \cup L)) = k + l - 0 /\ k \in Nat /\ l \in Nat
    BY <1>1, <1>3, <1>4
<1> HIDE DEF k, l
<1>6. k + l - 0 = k + l
    BY <1>5
<1> QED BY <1>5, <1>6 DEF Count, k, l

-----------------------------------------------------------------------------
(* An index and the runs on it.                                            *)

(* Each chunk is there as often as it is in the source, with its vector.   *)
Indexed(p, c, vectors) ==
    /\ vectors \in Seq(MadeOf(c, ChunkSet(p)))
    /\ \A K \in SUBSET ChunkSet(p) :
         Count(vectors, MadeOf(c, K)) = Count(ChunksOf[p], K)

IndexedInv ==
    \A p \in Projects :
        index[p] # NoIndex => Indexed(p, index[p].config, index[p].vectors)

BuildInv ==
    \A t \in Indexers : call[t].pc \in Built =>
        /\ Building(call[t])
        /\ call[t].kind = "incremental" => index[call[t].project] # NoIndex

IndexInv == IndexedInv /\ BuildInv /\ DocumentsInv

LEMMA IndexedExact ==
    ASSUME NEW p \in Projects, NEW c, NEW v, Indexed(p, c, v)
    PROVE  /\ Len(v) = Len(ChunksOf[p])
           /\ \A k \in ToSet(ChunksOf[p]) : \E x \in ToSet(v) : x.chunk = k
           /\ \A x \in ToSet(v) : x.vec = Vector(c, x.chunk.text)
<1> DEFINE s == ChunksOf[p]
           T == ChunkSet(p)
<1>1. /\ s \in Seq(T) /\ Count(s, T) = Len(s) /\ v \in Seq(MadeOf(c, T))
      /\ T = ToSet(s)
    BY ChunksSeq DEF Indexed, ChunkSet
<1>2. \A K \in SUBSET T : Count(v, MadeOf(c, K)) = Count(s, K)
    BY DEF Indexed
<1> HIDE DEF s, T
<1>3. Len(v) = Len(s)
  <2>1. Count(v, MadeOf(c, T)) = Len(v)
    BY <1>1, CountType
  <2> QED BY <1>1, <1>2, <2>1
<1>4. ASSUME NEW k \in ToSet(s) PROVE \E x \in ToSet(v) : x.chunk = k
  <2>1. Count(s, {k}) # 0
    <3>1. \E i \in DOMAIN s : s[i] \in {k}
      BY DEF ToSet
    <3> QED BY <1>1, <3>1, CountType
  <2>2. Count(v, MadeOf(c, {k})) # 0
    BY <1>1, <1>2, <2>1
  <2>3. PICK i \in DOMAIN v : v[i] \in MadeOf(c, {k})
    BY <1>1, <2>2, CountType
  <2>4. v[i].chunk = k
    BY <2>3 DEF MadeOf, Made
  <2> QED BY <2>4 DEF ToSet
<1>5. ASSUME NEW x \in ToSet(v) PROVE x.vec = Vector(c, x.chunk.text)
  <2>1. x \in MadeOf(c, T)
    BY <1>1, SeqSelf
  <2> QED BY <2>1 DEF MadeOf, Made
<1> QED BY <1>3, <1>4, <1>5 DEF s

(* What a full run publishes.                                              *)
LEMMA WholeIndexed ==
    ASSUME NEW c, Consistent(c), c.todo = <<>>, c.kind = "full", Whole(c)
    PROVE  Indexed(c.project, c.config, c.done)
<1> DEFINE p == c.project
<1>1. p \in Projects /\ c.files = Files(p) /\ IsSeq(c.done)
    BY DEF Consistent
<1>2. ~LostIn(c)
  <2>1. ~c.failed /\ Len(c.done) = Len(ChunksOf[p])
    BY DEF Whole
  <2>2. Len(ChunksOf[p]) \in Nat /\ Len(<<>>) = 0
    BY <1>1, ChunksSeq
  <2> QED BY <2>1, <2>2 DEF LostIn
<1>3. GoodIn(c)
    BY <1>2 DEF Consistent
<1>4. ASSUME NEW K \in SUBSET ChunkSet(p)
      PROVE  Count(c.done, MadeOf(c.config, K)) = Count(ChunksOf[p], K)
  <2>1. Count(c.done, MadeOf(c.config, K)) + Count(<<>>, K) = Count(ChunksOf[p], OfFiles(K, Files(p)))
    BY <1>1, <1>3 DEF GoodIn
  <2>2. OfFiles(K, Files(p)) = K
    BY <1>1, ChunksSeq
  <2>3. Count(c.done, MadeOf(c.config, K)) \in Nat
    BY <1>3, CountType DEF GoodIn
  <2> QED BY <2>1, <2>2, <2>3, CountEmpty
<1> QED BY <1>3, <1>4 DEF GoodIn, Indexed

(* What an incremental run publishes in the place of its files.            *)
LEMMA PartIndexed ==
    ASSUME NEW c, Consistent(c), c.todo = <<>>, c.kind = "incremental",
           NEW old, Indexed(c.project, c.config, old)
    PROVE  Indexed(c.project, c.config,
             Among(old, {x \in ToSet(old) : x.chunk.file \notin c.files}) \o c.done)
<1> DEFINE p == c.project
           s == ChunksOf[p]
           T == ChunkSet(p)
           M == {x \in ToSet(old) : x.chunk.file \notin c.files}
           kept == Among(old, M)
<1>1. p \in Projects /\ GoodIn(c)
    BY DEF Consistent, LostIn
<1>2. /\ old \in Seq(MadeOf(c.config, T)) /\ c.done \in Seq(MadeOf(c.config, T))
      /\ s \in Seq(T)
    BY <1>1, ChunksSeq DEF Indexed, GoodIn
<1>3. /\ \A K \in SUBSET T : Count(old, MadeOf(c.config, K)) = Count(s, K)
      /\ \A K \in SUBSET T : Count(c.done, MadeOf(c.config, K)) + Count(<<>>, K)
                               = Count(s, OfFiles(K, c.files))
    BY <1>1 DEF Indexed, GoodIn
<1>4. kept \in Seq(MadeOf(c.config, T))
  <2> HIDE DEF M
  <2> QED BY <1>2, AmongFacts
<1>5. ASSUME NEW K \in SUBSET T
      PROVE  Count(kept \o c.done, MadeOf(c.config, K)) = Count(s, K)
  <2> DEFINE Inner == OfFiles(K, c.files)
             Outer == K \ OfFiles(K, c.files)
  <2>1. Count(kept, MadeOf(c.config, K)) = Count(old, MadeOf(c.config, K) \cap M)
    <3> HIDE DEF M
    <3> QED BY <1>2, CountAmong
  <2>2. At(old, MadeOf(c.config, K) \cap M) = At(old, MadeOf(c.config, Outer))
    <3>1. ASSUME NEW i \in DOMAIN old
          PROVE  old[i] \in MadeOf(c.config, K) \cap M <=> old[i] \in MadeOf(c.config, Outer)
      <4>1. old[i] \in MadeOf(c.config, T) /\ old[i] \in ToSet(old)
        BY <1>2 DEF ToSet
      <4>2. PICK k \in T : old[i] = Made(c.config, k)
        BY <4>1 DEF MadeOf
      <4>3. old[i].chunk = k
        BY <4>2 DEF Made
      <4>4. old[i] \in M <=> k.file \notin c.files
        BY <4>1, <4>3
      <4>5. k \in Outer <=> k \in K /\ k.file \notin c.files
        BY DEF OfFiles
      <4> HIDE DEF M, Outer
      <4>6. /\ old[i] \in MadeOf(c.config, K) <=> k \in K
            /\ old[i] \in MadeOf(c.config, Outer) <=> k \in Outer
        BY <4>2, MadeIn
      <4> QED BY <4>4, <4>5, <4>6
    <3> HIDE DEF M, Outer
    <3> QED BY <3>1 DEF At
  <2>3. Count(kept, MadeOf(c.config, K)) = Count(s, Outer)
    <3>1. Outer \in SUBSET T
      OBVIOUS
    <3> HIDE DEF M, Outer, kept
    <3> QED BY <1>3, <2>1, <2>2, <3>1 DEF Count
  <2>4. Count(s, K) = Count(s, Inner) + Count(s, Outer)
    <3>1. Inner \cap Outer = {} /\ Inner \cup Outer = K
      BY DEF OfFiles
    <3> HIDE DEF Inner, Outer
    <3> QED BY <1>2, <3>1, CountParts
  <2> HIDE DEF kept
  <2>5. Count(kept \o c.done, MadeOf(c.config, K))
          = Count(kept, MadeOf(c.config, K)) + Count(c.done, MadeOf(c.config, K))
    BY <1>2, <1>4, CountConcat
  <2>6. Count(c.done, MadeOf(c.config, K)) = Count(s, Inner)
    <3>1. Count(c.done, MadeOf(c.config, K)) \in Nat
      BY <1>2, CountType
    <3> QED BY <1>3, <3>1, CountEmpty
  <2> HIDE DEF Inner, Outer
  <2>7. Count(s, Inner) \in Nat /\ Count(s, Outer) \in Nat
    BY <1>2, CountType
  <2> QED BY <2>3, <2>4, <2>5, <2>6, <2>7
<1>6. kept \o c.done \in Seq(MadeOf(c.config, T))
  <2> HIDE DEF kept
  <2> QED BY <1>2, <1>4, CountConcat
<1> QED BY <1>5, <1>6 DEF Indexed

LEMMA IndexInit == Init => IndexInv
<1> SUFFICES ASSUME Init PROVE IndexInv
    OBVIOUS
<1>1. \A t \in Indexers : call[t] = Idle
    BY Disjoint DEF Init
<1>2. BuildInv
    BY <1>1, IdleShape DEF BuildInv, Built
<1>3. documents = <<>> /\ \A p \in Projects : index[p] = NoIndex
    BY DEF Init
<1>4. DocumentsInv
    BY <1>3, CountEmpty DEF DocumentsInv, ToSet
<1> QED BY <1>2, <1>3, <1>4 DEF IndexInv, IndexedInv

(* Steps that leave the indexes and the cache of documents alone.          *)
LEMMA IndexKept ==
    ASSUME IndexInv, UNCHANGED <<index, documents>>,
           \A u \in Indexers : call'[u] = call[u] \/ call'[u] = Idle
    PROVE  IndexInv'
<1>1. IndexedInv' /\ DocumentsInv'
    BY DEF IndexInv, IndexedInv, DocumentsInv
<1>2. BuildInv'
  <2> SUFFICES ASSUME NEW u \in Indexers, call'[u].pc \in Built
               PROVE  /\ Building(call'[u])
                      /\ call'[u].kind = "incremental" => index'[call'[u].project] # NoIndex
    BY DEF BuildInv
  <2>1. call'[u] = call[u]
    BY IdleShape DEF Built
  <2> QED BY <2>1 DEF IndexInv, BuildInv
<1> QED BY <1>1, <1>2 DEF IndexInv

(* A run that goes on, and the other runs do not notice.                   *)
LEMMA OneBuilds ==
    ASSUME IndexInv, NEW t \in Indexers, index' = index, DocumentsInv',
           \A u \in Indexers \ {t} : call'[u] = call[u],
           call'[t].pc \in Built =>
             /\ Building(call'[t])
             /\ call'[t].kind = "incremental" => index[call'[t].project] # NoIndex
    PROVE  IndexInv'
<1>1. IndexedInv'
    BY DEF IndexInv, IndexedInv
<1>2. ASSUME NEW u \in Indexers, call'[u].pc \in Built
      PROVE  /\ Building(call'[u])
             /\ call'[u].kind = "incremental" => index'[call'[u].project] # NoIndex
  <2>1. CASE u = t
    BY <1>2, <2>1
  <2>2. CASE u # t
    BY <1>2, <2>2 DEF IndexInv, BuildInv
  <2> QED BY <2>1, <2>2
<1> QED BY <1>1, <1>2 DEF IndexInv, BuildInv

LEMMA PublishBuilds ==
    ASSUME IndexInv, ConfigInv, Shape, NEW t \in Indexers, Publish(t),
           SameRun(call[t], call'[t]), call'[t].pc = "describe",
           \A u \in Indexers \ {t} : call'[u] = call[u]
    PROVE  IndexInv'
<1> DEFINE c == call[t]
           p == c.project
           old == index[p].vectors
           vectors == IF c.kind = "full" THEN c.done
                      ELSE Among(old, {x \in ToSet(old) : x.chunk.file \notin c.files})
                             \o c.done
<1>1. /\ Building(c) /\ Consistent(c) /\ c.todo = <<>>
      /\ c.kind = "incremental" => index[p] # NoIndex
      /\ p \in Projects /\ c.kind \in {"full", "incremental"} /\ c.pc = "batch"
    BY DEF Publish, IndexInv, BuildInv, Built, Building, Consistent
<1>2. RunInv(t)
    BY <1>1 DEF ConfigInv, Busy
<1>3. c.config # NoConfig /\ (index[p] # NoIndex => index[p].config = c.config)
    BY <1>2, NoneDescribed DEF RunInv, Suits, Settled, Described
<1>4. Whole(c)
  <2>1. SUFFICES ASSUME ~Whole(c) PROVE FALSE
    OBVIOUS
  <2>2. call' = [call EXCEPT ![t] = Idle]
    BY <2>1 DEF Publish
  <2>3. call'[t] = Idle
    BY <2>2, Disjoint DEF Shape
  <2> QED BY <2>3, IdleShape
<1>5. index' = [index EXCEPT ![p] = [config |-> c.config, vectors |-> vectors]]
    BY <1>4 DEF Publish
<1>6. Indexed(p, c.config, vectors)
  <2>1. CASE c.kind = "full"
    BY <1>1, <1>4, <2>1, WholeIndexed
  <2>2. CASE c.kind = "incremental"
    <3>1. Indexed(p, c.config, old)
      BY <1>1, <1>3, <2>2 DEF IndexInv, IndexedInv
    <3> QED BY <1>1, <2>2, <3>1, PartIndexed
  <2> QED BY <1>1, <2>1, <2>2
<1> HIDE DEF vectors
<1>7. PICK S : index \in [Projects -> [config : S, vectors : S]]
    BY DEF ConfigInv, ConfigTypes
<1>8. /\ index'[p].config = c.config /\ index'[p].vectors = vectors
      /\ \A q \in Projects \ {p} : index'[q] = index[q]
    BY <1>1, <1>5, <1>7
<1>9. index'[p] # NoIndex
    BY <1>3, <1>8 DEF NoIndex
<1>10. IndexedInv'
  <2> SUFFICES ASSUME NEW q \in Projects, index'[q] # NoIndex
               PROVE  Indexed(q, index'[q].config, index'[q].vectors)
    BY DEF IndexedInv
  <2>1. CASE q = p
    BY <1>6, <1>8, <2>1
  <2>2. CASE q # p
    BY <1>8, <2>2 DEF IndexInv, IndexedInv
  <2> QED BY <2>1, <2>2
<1>11. BuildInv'
  <2> SUFFICES ASSUME NEW u \in Indexers, call'[u].pc \in Built
               PROVE  /\ Building(call'[u])
                      /\ call'[u].kind = "incremental" => index'[call'[u].project] # NoIndex
    BY DEF BuildInv
  <2>1. u # t /\ call'[u] = call[u]
    BY DEF Built
  <2>2. /\ Building(call[u])
        /\ call[u].kind = "incremental" => index[call[u].project] # NoIndex
    BY <2>1 DEF IndexInv, BuildInv
  <2>3. call[u].project \in Projects
    BY <2>2 DEF Building, Consistent
  <2> QED BY <2>1, <2>2, <2>3, <1>8, <1>9
<1>12. DocumentsInv'
    BY DEF IndexInv, DocumentsInv, Publish
<1> QED BY <1>10, <1>11, <1>12 DEF IndexInv

(* Runs that go by the Batch API are of input-typed configurations.  The   *)
(* API is always asked for documents (voyage_batch_embedder.py embed_all), *)
(* so that the vectors of a run with input typing off would be in another  *)
(* space than its manifest says.                                           *)
BulkTyped == \A t \in Indexers : call[t].pc = "bulk" => call[t].config.it = TRUE

LEMMA IndexInvStep ==
    ASSUME "incremental" \notin Uncached
    PROVE  QueryInv /\ ConfigInv /\ BulkTyped /\ IndexInv /\ [Next]_vars => IndexInv'
<1> SUFFICES ASSUME QueryInv, ConfigInv, BulkTyped, IndexInv, [Next]_vars
             PROVE  IndexInv'
    OBVIOUS
<1>1. Shape
    BY DEF QueryInv
<1>2. CASE UNCHANGED vars
    BY <1>2, IndexKept DEF vars
<1>3. ASSUME NEW p \in Projects, Register(p) \/ Tear(p) PROVE IndexInv'
    BY <1>3, IndexKept DEF Register, Tear
<1>4. ASSUME NEW t \in Searchers, SearchStep(t) PROVE IndexInv'
  <2>1. documents' = documents
    BY <1>4 DEF SearchStep, OpenSearch, Look, Take, Touch, ReadRow, EncodeQuery, Trim,
                WriteRow, Return
  <2> QED BY <1>1, <1>4, <2>1, SearchFrame, IndexKept
<1>5. ASSUME NEW t \in Indexers, IndexStep(t) PROVE IndexInv'
  <2>1. /\ \A u \in Indexers \ {t} : call'[u] = call[u]
        /\ \/ OpenIndex(t)
           \/ /\ UNCHANGED <<stored, index>>
              /\ call'[t] = Idle \/ Continues(call[t], call'[t])
           \/ /\ Publish(t)
              /\ SameRun(call[t], call'[t]) /\ call'[t].pc = "describe"
           \/ Describe(t) /\ call'[t] = Idle
    BY <1>1, <1>5, IndexFrame, Disjoint
  <2>2. DocumentsInv
    BY DEF IndexInv
  <2>3. documents' = documents => DocumentsInv'
    BY <2>2 DEF DocumentsInv
  <2>4. ASSUME call[t].pc \in Built
        PROVE  /\ Building(call[t])
               /\ call[t].kind = "incremental" => index[call[t].project] # NoIndex
               /\ call[t].config \in Descriptions
    <3>1. RunInv(t)
      BY <2>4, IdleShape DEF ConfigInv, Busy, Built
    <3> QED BY <2>4, <3>1 DEF IndexInv, BuildInv, RunInv, Suits, Settled, Described
  <2>5. ASSUME call'[t] = Idle, index' = index, DocumentsInv' PROVE IndexInv'
    BY <2>1, <2>5, IdleShape, OneBuilds DEF Built
  <2>6. ASSUME call[t].pc \in Built, Building(call'[t]), call'[t].kind = call[t].kind,
               index' = index, DocumentsInv'
        PROVE  IndexInv'
    <3>1. ~OpenIndex(t) /\ ~Describe(t)
      BY <2>6 DEF OpenIndex, Describe, Built
    <3>2. call'[t] = Idle \/ SameRun(call[t], call'[t])
      BY <2>1, <3>1 DEF Continues
    <3>3. CASE call'[t] = Idle
      BY <2>5, <2>6, <3>3
    <3>4. CASE SameRun(call[t], call'[t])
      BY <2>1, <2>4, <2>6, <3>4, OneBuilds DEF SameRun
    <3> QED BY <3>2, <3>3, <3>4
  <2>7. CASE OpenIndex(t)
    <3>1. index' = index /\ documents' = documents
      BY <2>7 DEF OpenIndex
    <3> QED BY <1>1, <2>1, <2>3, <2>7, <3>1, OpenBuilds, OneBuilds
  <2>8. CASE Bulk(t)
    <3>1. index' = index /\ documents' = documents /\ call[t].pc = "bulk"
      BY <2>8 DEF Bulk
    <3>2. Building(call'[t]) /\ call'[t].kind = call[t].kind
      BY <1>1, <2>4, <2>8, <3>1, BulkKeeps DEF BulkTyped, Built
    <3> QED BY <2>3, <2>6, <3>1, <3>2 DEF Built
  <2>9. CASE LookUp(t)
    <3>1. index' = index /\ documents' = documents /\ call[t].pc = "batch"
      BY <2>9 DEF LookUp
    <3>2. Building(call'[t]) /\ call'[t].kind = call[t].kind
      BY <1>1, <2>2, <2>4, <2>9, <3>1, LookUpKeeps DEF Built
    <3> QED BY <2>3, <2>6, <3>1, <3>2 DEF Built
  <2>10. CASE Post(t)
    <3>1. index' = index /\ documents' = documents /\ call[t].pc = "post"
      BY <2>10 DEF Post
    <3>2. call'[t] = Idle \/ (Building(call'[t]) /\ call'[t].kind = call[t].kind)
      BY <1>1, <2>4, <2>10, <3>1, PostKeeps DEF Built
    <3> QED BY <2>3, <2>5, <2>6, <3>1, <3>2 DEF Built
  <2>11. CASE Settle(t)
    <3>1. index' = index /\ call[t].pc = "post"
      BY <2>11 DEF Settle
    <3>2. call'[t] = Idle \/ (Building(call'[t]) /\ call'[t].kind = call[t].kind)
      BY <1>1, <2>4, <2>11, <3>1, SettleKeeps DEF Built
    <3>3. DocumentsInv'
      BY <2>2, <2>4, <2>11, <3>1, SettleDocuments DEF Built
    <3> QED BY <2>5, <2>6, <3>1, <3>2, <3>3 DEF Built
  <2>12. CASE Publish(t)
    <3>1. call[t].pc = "batch" /\ documents' = documents
      BY <2>12 DEF Publish
    <3>2. CASE /\ UNCHANGED <<stored, index>>
               /\ call'[t] = Idle \/ Continues(call[t], call'[t])
      <4>1. CASE call'[t] = Idle
        BY <2>3, <2>5, <3>1, <3>2, <4>1
      <4>2. CASE call'[t] # Idle
        <5>1. call'[t].pc = "describe"
          <6>1. PICK S : call \in [Threads -> Calls(S)] /\ t \in Threads
            BY <1>1, Disjoint DEF Shape
          <6>2. Whole(call[t])
            BY <2>12, <4>2, <6>1 DEF Publish
          <6>3. call' = [call EXCEPT ![t].pc = "describe"]
            BY <2>12, <6>2 DEF Publish, To
          <6> QED BY <6>1, <6>3 DEF Calls
        <5> QED BY <3>2, <4>2, <5>1 DEF Continues
      <4> QED BY <4>1, <4>2
    <3>3. ~OpenIndex(t) /\ ~Describe(t)
      BY <3>1 DEF OpenIndex, Describe
    <3>4. CASE SameRun(call[t], call'[t]) /\ call'[t].pc = "describe"
      BY <1>1, <2>1, <2>12, <3>4, PublishBuilds
    <3> QED BY <2>1, <3>2, <3>3, <3>4
  <2>13. CASE Describe(t)
    <3>1. index' = index /\ documents' = documents /\ call[t].pc = "describe"
      BY <2>13 DEF Describe
    <3>2. ~OpenIndex(t) /\ ~Publish(t)
      BY <3>1 DEF OpenIndex, Publish
    <3>3. call'[t] = Idle
      <4>1. PICK S : call \in [Threads -> Calls(S)] /\ t \in Threads
        BY <1>1, Disjoint DEF Shape
      <4> QED BY <2>13, <4>1 DEF Describe
    <3> QED BY <2>3, <2>5, <3>1, <3>3
  <2> QED BY <1>5, <2>7, <2>8, <2>9, <2>10, <2>11, <2>12, <2>13 DEF IndexStep
<1>6. ASSUME NEW e \in Environments, Restart(e) PROVE IndexInv'
    BY <1>6, IndexKept, Disjoint DEF Restart
<1> QED BY <1>2, <1>3, <1>4, <1>5, <1>6 DEF Next

(* An index has one vector for each chunk, of its text and of the provider,*)
(* model, input mode and dimension its manifest names, whatever is cached, *)
(* dropped from the cache or found in it, whichever requests fail, are     *)
(* repeated, are answered short or in another dimension, and however runs  *)
(* of a project interleave (embedder.py embed_chunks, incremental_indexer  *)
(* .py _full_index and incremental_index), if incremental runs find the    *)
(* cache open and the Batch API is asked for what it gives.                *)
THEOREM IndexExactHolds ==
    ASSUME "incremental" \notin Uncached
    PROVE  Spec /\ []BulkTyped => []IndexExact
<1>1. Init => QueryInv /\ ConfigInv /\ IndexInv
    BY QueryInit, ConfigInit, IndexInit
<1>2. (QueryInv /\ ConfigInv /\ IndexInv) /\ BulkTyped /\ [Next]_vars
        => (QueryInv /\ ConfigInv /\ IndexInv)'
    BY QueryStep, ConfigStep, IndexInvStep
<1>3. ASSUME IndexInv PROVE IndexExact
  <2> SUFFICES ASSUME NEW p \in Projects, index[p] # NoIndex
               PROVE  LET vectors == index[p].vectors
                      IN  /\ Len(vectors) = Len(ChunksOf[p])
                          /\ \A k \in ToSet(ChunksOf[p]) :
                               \E x \in ToSet(vectors) : x.chunk = k
                          /\ \A x \in ToSet(vectors) :
                               x.vec = Vector(index[p].config, x.chunk.text)
    BY Zenon DEF IndexExact
  <2> DEFINE c == index[p].config
             vectors == index[p].vectors
  <2>1. Indexed(p, c, vectors)
    BY <1>3 DEF IndexInv, IndexedInv
  <2> HIDE DEF c, vectors
  <2>2. /\ Len(vectors) = Len(ChunksOf[p])
        /\ \A k \in ToSet(ChunksOf[p]) : \E x \in ToSet(vectors) : x.chunk = k
        /\ \A x \in ToSet(vectors) : x.vec = Vector(c, x.chunk.text)
    BY <2>1, IndexedExact
  <2> QED BY <2>2 DEF c, vectors
<1> QED BY <1>1, <1>2, <1>3, PTL DEF Spec
===============================================================================
