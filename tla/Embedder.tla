------------------------------ MODULE Embedder ------------------------------
(***************************************************************************)
(* Vectors (embeddings/embedder.py and the API embedders): which provider  *)
(* and model a project gets, the caches in front of it, and what a short   *)
(* or failing answer does to an index.                                     *)
(*                                                                         *)
(* A project is one storage directory.  A vector says what it was made of, *)
(* by which provider and model in which input mode, and its dimension.     *)
(* A chunk is a file and a text; the text is what create_embedding_content *)
(* makes of it.  Queries and batches run on threads of one server process  *)
(* that ends and starts again in another environment.                      *)
(***************************************************************************)
EXTENDS Naturals, FiniteSets, SequencesExt, Selections

CONSTANTS
    Projects,
    Named,          \* the provider the callers of a project name, or Unset
    ChunksOf,       \* the chunks of a project, in order: file and text
    Queries,
    Folded,         \* a query without its case and outer blanks
    Environments,   \* the environments a server is started in
    Searchers,      \* threads that search
    Indexers,       \* threads that index
    MemoryMax,      \* _QUERY_CACHE_MAX
    DocumentMax,    \* _DOC_CACHE_MAX_ROWS
    Batch,          \* chunks that are embedded at a time
    Request,        \* texts in one request
    Attempts,       \* tries of a request
    Uncached,       \* runs that may find the cache file closed to them
    NativeDimension,    \* what a local model of no known dimension has
    Unset

ASSUME ConstantsAssumption ==
    /\ ChunksOf \in [Projects -> Seq([file : STRING, text : STRING])]
    /\ Folded \in [Queries -> STRING]
    /\ Searchers \cap Indexers = {}
    /\ {MemoryMax, DocumentMax, Batch, Request, Attempts, NativeDimension} \subseteq Nat \ {0}
    /\ Uncached \subseteq {"search", "full", "incremental"}

VARIABLES
    env,        \* the environment of the server
    stored,     \* what project_info.json says of the embedder
    index,      \* the published index: its configuration and vectors
    memory,     \* the query cache of the process, oldest first
    asked,      \* the rows of query_embeddings_v3
    documents,  \* the rows of doc_embedding_cache, oldest first
    call        \* what each thread is at

vars == <<env, stored, index, memory, asked, documents, call>>

Threads == Searchers \cup Indexers

-----------------------------------------------------------------------------
(* The configuration of an embedder.                                       *)

Refused == [provider |-> Unset, model |-> Unset, dim |-> Unset, it |-> Unset,
            mode |-> Unset]

NoConfig == Refused

(* A project_info.json that does not parse.                                *)
Torn == [Refused EXCEPT !.mode = "torn"]

Defaults ==
    [p \in {"openai", "voyage", "voyage-code-3", "voyage-context", "jina", "local"} |->
        CASE p = "openai" -> "text-embedding-3-small"
          [] p = "voyage" -> "voyage-4-large"
          [] p = "voyage-code-3" -> "voyage-code-3"
          [] p = "voyage-context" -> "voyage-context-3"
          [] p = "jina" -> "jina-0.5b"
          [] p = "local" -> "MiniLM"]

Providers == DOMAIN Defaults
LocalProviders == {"jina", "local"}
TypedProviders == {"voyage", "voyage-code-3", "voyage-context"}

(* Strings, those that have a meaning here among them.                     *)
Names == STRING \cup Providers \cup {Defaults[p] : p \in Providers} \cup {"code", "torn"}
Or(S) == S \cup {Unset}

ASSUME SettingsAssumption ==
    /\ Unset \notin Names \cup Nat \cup BOOLEAN
    /\ Named \in [Projects -> Or(Names)]
    /\ Environments \subseteq
         [provider : Or(Names), model : Or(Names), localModel : Or(Names),
          dim : Or(Nat), truncate : Or(Nat), it : BOOLEAN, mode : Or(Names),
          key : BOOLEAN, bulk : Nat]

KnownDimension(model) ==
    CASE model = "text-embedding-3-small" -> 1536
      [] model \in {"voyage-4-large", "voyage-code-3", "voyage-context-3"} -> 1024
      [] model = "jina-0.5b" -> 896
      [] model = "MiniLM" -> 384
      [] OTHER -> Unset

(* The providers that list a model among theirs.                           *)
KnownProviders(model) ==
    CASE model = "text-embedding-3-small" -> {"openai"}
      [] model = "voyage-code-3" -> {"voyage", "voyage-code-3"}
      [] model = "voyage-4-large" -> {"voyage"}
      [] model = "voyage-context-3" -> {"voyage-context"}
      [] model = "jina-0.5b" -> {"jina"}
      [] OTHER -> {}

Matryoshka == {64, 128, 256, 512, 896}

FirstSet(values) ==
    LET set == {i \in DOMAIN values : values[i] # Unset}
    IN  IF set = {} THEN Unset ELSE values[Min(set)]

(* Mutant of ProviderOf: the environment goes before the project.          *)
AmbientProviderOf(named, st, e, mode) ==
    FirstSet(<<named, e.provider, st.provider,
               IF e.key THEN "voyage" ELSE "local">>)

ProviderOf(named, st, e, mode) ==
    FirstSet(<<named, st.provider, e.provider,
               IF ~e.key THEN "local"
               ELSE IF mode = "docs" THEN "voyage-context" ELSE "voyage">>)

(* The environment speaks only of its own provider.                        *)
AmbientModel(provider, e) ==
    IF e.provider \notin {Unset, provider} THEN Unset
    ELSE IF provider \in LocalProviders THEN e.localModel ELSE e.model

ModelOf(provider, st, e) ==
    FirstSet(<<IF provider = st.provider THEN st.model ELSE Unset,
               AmbientModel(provider, e), Defaults[provider]>>)

(* The dimension that is asked for.                                        *)
DimensionOf(provider, model, st, e) ==
    FirstSet(<<
        IF provider = st.provider /\ model = st.model THEN st.dim ELSE Unset,
        IF /\ e.provider \in {Unset, provider}
           /\ AmbientModel(provider, e) \in {Unset, model}
        THEN e.dim ELSE Unset>>)

InputTyped(provider, model, st, e) ==
    CASE provider = "voyage-context" -> TRUE
      [] provider \notin TypedProviders -> FALSE
      [] OTHER -> FirstSet(<<
            IF provider = st.provider /\ model = st.model THEN st.it ELSE Unset,
            e.it>>)

(* Models of another provider, remote models of no known dimension and     *)
(* dimensions the model does not have are refused.                         *)
Acceptable(provider, model, dim) ==
    /\ provider \in Providers
    /\ KnownProviders(model) # {} => provider \in KnownProviders(model)
    /\ KnownProviders(model) = {} /\ provider # "local" =>
         provider # "jina" /\ dim # Unset
    /\ dim # Unset =>
         IF provider = "jina" THEN dim \in Matryoshka
         ELSE KnownDimension(model) \in {Unset, dim}

OutputDimension(provider, model, dim, e) ==
    FirstSet(<<dim, IF provider = "jina" THEN e.truncate ELSE Unset,
               KnownDimension(model)>>)

(* resolve_embedding_config: what the caller names, then what is stored,   *)
(* then the environment.                                                   *)
Resolved(named, st, e) ==
    LET mode == FirstSet(<<st.mode, e.mode, "code">>)
        provider == ProviderOf(named, st, e, mode)
        model == ModelOf(provider, st, e)
        dim == DimensionOf(provider, model, st, e)
    IN  IF Acceptable(provider, model, dim)
        THEN [provider |-> provider, model |-> model,
              dim |-> OutputDimension(provider, model, dim, e),
              it |-> InputTyped(provider, model, st, e), mode |-> mode]
        ELSE Refused

NoIndex == [config |-> NoConfig, vectors |-> <<>>]

Complete(st) == Unset \notin {st.provider, st.model, st.dim}

(* The verified manifest of an index completes what is stored.             *)
Preferred(st, made) ==
    IF made = NoConfig THEN st
    ELSE IF st.it \notin {Unset, made.it} THEN Refused
    ELSE IF Complete(st) THEN [st EXCEPT !.it = made.it]
    ELSE [made EXCEPT !.mode = FirstSet(<<st.mode, "code">>)]

(* Without a readable project_info.json the manifest is all there is; of   *)
(* the content modes it fits only one, its own.                            *)
Reconstructed(named, made, e) ==
    IF made = NoConfig \/ named \notin {Unset, made.provider} THEN Refused
    ELSE Resolved(made.provider, made, e)

(* CodeSearchServer.embedder.                                              *)
Configured(p, e) ==
    LET st == stored[p]
        made == index[p].config
        prefer == Preferred(st, made)
    IN  IF st \in {Torn, NoConfig} THEN Reconstructed(Named[p], made, e)
        ELSE IF prefer = Refused THEN Refused
        ELSE Resolved(Named[p], prefer, e)

(* The constructor: Voyage needs its key, and a model of no known          *)
(* dimension is asked for it.                                              *)
Embedders(p) ==
    LET c == Configured(p, env)
    IN  IF c = Refused \/ (c.provider \in TypedProviders /\ ~env.key) THEN {}
        ELSE {[c EXCEPT !.dim = IF @ = Unset THEN NativeDimension ELSE @]}

-----------------------------------------------------------------------------
(* Vectors and caches.                                                     *)

(* Mutant of Space: vectors of all models in one.                          *)
SpaceOfAll(c) == <<c.it>>

(* What a cached vector is kept under besides its text.                    *)
Space(c) == <<c.provider, c.model, c.it>>

Vector(c, text) == [of |-> text, by |-> <<c.provider, c.model, c.it>>, dim |-> c.dim]

(* An answer of another dimension than the one configured.                 *)
Odd(c, text) == [Vector(c, text) EXCEPT !.dim = 0]

Row(space, text, vec) == [space |-> space, text |-> text, vec |-> vec]

Holds(rows, space, text) ==
    \E i \in DOMAIN rows : rows[i].space = space /\ rows[i].text = text

(* Rows without the one that there is under a key.                         *)
Without(rows, space, text) ==
    RemoveAt(rows, CHOOSE i \in DOMAIN rows :
                     rows[i].space = space /\ rows[i].text = text)

Kept(rows, space, text) ==
    (CHOOSE r \in ToSet(rows) : r.space = space /\ r.text = text).vec

(* A dictionary keeps the place of a key that is set again; a table gives  *)
(* a replaced row a new one.                                               *)
SetIn(rows, row) ==
    IF Holds(rows, row.space, row.text)
    THEN [i \in DOMAIN rows |->
            IF rows[i].space = row.space /\ rows[i].text = row.text THEN row
            ELSE rows[i]]
    ELSE Append(rows, row)

Idle == [pc |-> "idle", project |-> Unset, config |-> NoConfig, query |-> Unset,
         vec |-> Unset, db |-> FALSE, kind |-> "search", files |-> {}, todo |-> <<>>,
         found |-> <<>>, miss |-> <<>>, fresh |-> <<>>, sent |-> 0, tries |-> 0,
         done |-> <<>>, failed |-> FALSE]

Init ==
    /\ env \in Environments
    /\ stored = [p \in Projects |-> NoConfig]
    /\ index = [p \in Projects |-> NoIndex]
    /\ memory = <<>>
    /\ asked = {}
    /\ documents = <<>>
    /\ call = [t \in Threads |-> Idle]

To(t, pc) == call' = [call EXCEPT ![t].pc = pc]

(* A call is over, with an answer or an exception.                         *)
End(t) == call' = [call EXCEPT ![t] = Idle]

(* The first call for a project makes its project_info.json.               *)
Register(p) ==
    /\ stored[p] = NoConfig
    /\ Resolved(Named[p], NoConfig, env) # Refused
    /\ stored' = [stored EXCEPT ![p] = Resolved(Named[p], NoConfig, env)]
    /\ UNCHANGED <<env, index, memory, asked, documents, call>>

-----------------------------------------------------------------------------
(* embed_query.                                                            *)

OpenSearch(t) ==
    /\ call[t].pc = "idle"
    /\ \E p \in Projects, q \in Queries :
         /\ index[p] # NoIndex
         /\ \E c \in Embedders(p) :
              call' = [call EXCEPT ![t] =
                         [Idle EXCEPT !.pc = "look", !.project = p, !.config = c,
                                      !.query = q]]
    /\ UNCHANGED <<env, stored, index, memory, asked, documents>>

Mine(t, rows) == Holds(rows, Space(call[t].config), Folded[call[t].query])
MyRow(t, vec) == Row(Space(call[t].config), Folded[call[t].query], vec)

Look(t) ==
    /\ call[t].pc = "look"
    /\ To(t, IF Mine(t, memory) THEN "take" ELSE "read")
    /\ UNCHANGED <<env, stored, index, memory, asked, documents>>

(* The entry may be gone since: a KeyError, which ends the search.         *)
Take(t) ==
    /\ call[t].pc = "take"
    /\ IF ~Mine(t, memory) THEN End(t)
       ELSE LET vec == Kept(memory, Space(call[t].config), Folded[call[t].query])
            IN  call' = [call EXCEPT ![t].vec = vec,
                           ![t].pc = IF vec.dim = call[t].config.dim THEN "touch"
                                     ELSE "drop"]
    /\ UNCHANGED <<env, stored, index, memory, asked, documents>>

(* Once more, to move the entry to the end or to delete it.                *)
Touch(t) ==
    /\ call[t].pc \in {"touch", "drop"}
    /\ LET key == Folded[call[t].query]
           space == Space(call[t].config)
           others == Without(memory, space, key)
       IN  \/ ~Mine(t, memory) /\ End(t) /\ UNCHANGED memory
           \/ /\ Mine(t, memory) /\ call[t].pc = "drop"
              /\ To(t, "read")
              /\ memory' = others
           \/ /\ Mine(t, memory) /\ call[t].pc = "touch"
              /\ To(t, "answered")
              /\ memory' = Append(others, MyRow(t, Kept(memory, space, key)))
    /\ UNCHANGED <<env, stored, index, asked, documents>>

(* Whether a run finds the cache file open.                                *)
Opened(kind) == IF kind \in Uncached THEN BOOLEAN ELSE {TRUE}

(* The second cache.  What it has goes into the first, which is not        *)
(* trimmed then.                                                           *)
ReadRow(t) ==
    /\ call[t].pc = "read"
    /\ \E db \in Opened("search") :
         LET hits == {r \in asked : /\ db
                                   /\ r.space = Space(call[t].config)
                                   /\ r.text = Folded[call[t].query]
                                   /\ r.vec.dim = call[t].config.dim}
         IN  \/ \E r \in hits :
                  /\ memory' = SetIn(memory, r)
                  /\ call' = [call EXCEPT ![t].pc = "answered", ![t].vec = r.vec]
             \/ /\ hits = {}
                /\ call' = [call EXCEPT ![t].pc = "encode", ![t].db = db]
                /\ UNCHANGED memory
    /\ UNCHANGED <<env, stored, index, asked, documents>>

(* The model is asked for the query as it is, not folded, and its answer   *)
(* kept, unless it fails or has another dimension.                         *)
EncodeQuery(t) ==
    /\ call[t].pc = "encode"
    /\ LET c == call[t].config
           q == call[t].query
       IN  \/ \E vec \in {Vector(c, q), Odd(c, q)} :
                /\ vec.dim = c.dim
                /\ memory' = SetIn(memory, MyRow(t, vec))
                /\ call' = [call EXCEPT ![t].pc = "trim", ![t].vec = vec]
           \/ End(t) /\ UNCHANGED memory
    /\ UNCHANGED <<env, stored, index, asked, documents>>

(* The length is read and one entry dropped.                               *)
Trim(t) ==
    /\ call[t].pc = "trim"
    /\ memory' = IF Len(memory) > MemoryMax THEN Tail(memory) ELSE memory
    /\ To(t, "write")
    /\ UNCHANGED <<env, stored, index, asked, documents>>

(* A row that cannot be written is not missed.                             *)
WriteRow(t) ==
    /\ call[t].pc = "write"
    /\ LET row == MyRow(t, call[t].vec)
           kept == {r \in asked : r.space # row.space \/ r.text # row.text}
       IN  asked' \in {asked} \cup {kept \cup {row} : db \in {TRUE} \cap {call[t].db}}
    /\ To(t, "answered")
    /\ UNCHANGED <<env, stored, index, memory, documents>>

Return(t) ==
    /\ call[t].pc = "answered"
    /\ End(t)
    /\ UNCHANGED <<env, stored, index, memory, asked, documents>>

-----------------------------------------------------------------------------
(* Indexing.                                                               *)

Grouped(c) == c.provider = "voyage-context"

Chunked(p, files) ==
    Picked(ChunksOf[p], {i \in DOMAIN ChunksOf[p] : ChunksOf[p][i].file \in files})
Files(p) == {k.file : k \in ToSet(ChunksOf[p])}

(* A full run of a Voyage model may go by the Batch API first.             *)
OpenIndex(t) ==
    /\ call[t].pc = "idle"
    /\ \E p \in Projects, kind \in {"full", "incremental"} :
         \E files \in IF kind = "full" THEN {Files(p)} ELSE SUBSET Files(p) \ {{}} :
           /\ stored[p] # NoConfig
           /\ kind = "incremental" => index[p] # NoIndex
           /\ \E c \in Embedders(p) :
                call' = [call EXCEPT ![t] =
                  [Idle EXCEPT !.project = p, !.config = c, !.kind = kind, !.files = files,
                     !.todo = Chunked(p, files),
                     !.pc = IF /\ kind = "full"
                               /\ env.bulk <= Len(ChunksOf[p])
                               /\ c.provider \in TypedProviders
                            THEN "bulk" ELSE "batch"]]
    /\ UNCHANGED <<env, stored, index, memory, asked, documents>>

Paired(chunks, vectors) ==
    [i \in 1 .. (IF Len(chunks) < Len(vectors) THEN Len(chunks) ELSE Len(vectors)) |->
        [chunk |-> chunks[i], vec |-> vectors[i]]]

(* What comes back for some of the lines of a bulk job is put in order; a  *)
(* gap makes it nothing.                                                   *)
InOrder(c, chunks, got) ==
    IF got = 1 .. Cardinality(got)
    THEN [i \in 1 .. Cardinality(got) |->
            Vector([c EXCEPT !.it = TRUE], chunks[i].text)]
    ELSE <<>>

(* The job is refused, fails, takes too long or answers; the results count *)
(* only if they are all there.                                             *)
Bulk(t) ==
    /\ call[t].pc = "bulk"
    /\ \E got \in SUBSET DOMAIN call[t].todo :
         LET vectors == InOrder(call[t].config, call[t].todo, got)
         IN  call' = IF Len(vectors) = Len(call[t].todo)
                     THEN [call EXCEPT ![t].pc = "batch", ![t].todo = <<>>,
                                       ![t].done = Paired(call[t].todo, vectors)]
                     ELSE [call EXCEPT ![t].pc = "batch"]
    /\ UNCHANGED <<env, stored, index, memory, asked, documents>>

FirstBatch(chunks) == SubSeq(chunks, 1, IF Len(chunks) < Batch THEN Len(chunks) ELSE Batch)
Rest(chunks) == SubSeq(chunks, Batch + 1, Len(chunks))

TextsOf(chunks) == [i \in DOMAIN chunks |-> chunks[i].text]

(* The chunks of a batch by file, in the order the files come.             *)
ByFile(chunks) ==
    LET Same(i, j) == chunks[i].file = chunks[j].file
        First(i) == CHOOSE j \in DOMAIN chunks :
                      Same(i, j) /\ \A k \in 1 .. j - 1 : ~Same(i, k)
    IN  Sorted(chunks, [i \in DOMAIN chunks |->
          {j \in DOMAIN chunks :
             First(j) < First(i) \/ (Same(i, j) /\ j < i)}])

Usable(c, row) == row.space = Space(c) /\ row.vec.dim = c.dim

(* A batch begins: what the cache has is not asked for, nor anything twice.*)
(* Contextual providers are asked for all, and without the cache too.      *)
LookUp(t) ==
    /\ call[t].pc = "batch"
    /\ call[t].todo # <<>>
    /\ LET c == call[t].config
           chunks == FirstBatch(call[t].todo)
           texts == TextsOf(chunks)
       IN  IF Grouped(c)
           THEN call' = [call EXCEPT ![t].pc = "post", ![t].db = FALSE,
                                     ![t].miss = TextsOf(ByFile(chunks))]
           ELSE \E db \in Opened(call[t].kind) :
                  LET rows == Among(documents, {r \in ToSet(documents) :
                                /\ db
                                /\ Usable(c, r)
                                /\ r.text \in ToSet(texts)})
                  IN  call' = [call EXCEPT ![t].pc = "post", ![t].db = db,
                         ![t].found = rows,
                         ![t].miss = IF db
                           THEN Among(Once(texts), {x \in ToSet(texts) :
                                  \A r \in ToSet(rows) : r.text # x})
                           ELSE texts]
    /\ UNCHANGED <<env, stored, index, memory, asked, documents>>

NextBatch(c) == [c EXCEPT !.pc = "batch", !.todo = Rest(@), !.found = <<>>,
                          !.miss = <<>>, !.fresh = <<>>, !.sent = 0,
                          !.tries = 0, !.db = FALSE]

(* An exception ends an incremental run; a full run goes on and remembers. *)
Raised(c) == IF c.kind = "full" THEN [NextBatch(c) EXCEPT !.failed = TRUE] ELSE Idle

Asked(c) == SubSeq(c.miss, c.sent + 1,
                   IF c.sent + Request < Len(c.miss) THEN c.sent + Request
                   ELSE Len(c.miss))

(* A request is answered in full, for all texts but one or with vectors of *)
(* another dimension; or it fails, and is tried again if the server may    *)
(* recover.  A local model answers in full or fails.                       *)
Post(t) ==
    /\ call[t].pc = "post"
    /\ call[t].sent < Len(call[t].miss)
    /\ LET c == call[t]
           texts == Asked(c)
           whole == [i \in DOMAIN texts |-> Vector(c.config, texts[i])]
           odd == [i \in DOMAIN texts |-> Odd(c.config, texts[i])]
           remote == c.config.provider \notin LocalProviders
           short == IF remote THEN {RemoveAt(whole, i) : i \in DOMAIN whole} ELSE {}
       IN  \/ \E some \in {whole, odd} \cup short :
                call' = [call EXCEPT ![t].fresh = @ \o some, ![t].tries = 0,
                                     ![t].sent = @ + Len(texts)]
           \/ /\ remote
              /\ c.tries + 1 < Attempts
              /\ call' = [call EXCEPT ![t].tries = @ + 1]
           \/ call' = [call EXCEPT ![t] = Raised(c)]
    /\ UNCHANGED <<env, stored, index, memory, asked, documents>>

(* Mutant of Sound: grouped vectors are not counted.                       *)
SoundIfAny(c) ==
    /\ c.miss # <<>> => c.fresh # <<>>
    /\ \A vec \in ToSet(c.fresh) : vec.dim = c.config.dim
    /\ c.db => Len(c.fresh) = Len(c.miss)

(* What is done with the answers goes through: they are counted if they    *)
(* were grouped, and each text needs its own if they go to the cache.      *)
Sound(c) ==
    /\ c.miss # <<>> => c.fresh # <<>>
    /\ \A vec \in ToSet(c.fresh) : vec.dim = c.config.dim
    /\ c.db \/ Grouped(c.config) => Len(c.fresh) = Len(c.miss)

Fresh(c) == [i \in DOMAIN c.fresh |-> Row(Space(c.config), c.miss[i], c.fresh[i])]

(* The vectors of a batch.                                                 *)
Embedded(c) ==
    LET chunks == FirstBatch(c.todo)
        rows == c.found \o Fresh(c)
    IN  CASE Grouped(c.config) -> Paired(ByFile(chunks), c.fresh)
          [] c.db -> [i \in DOMAIN chunks |->
                        [chunk |-> chunks[i],
                         vec |-> Kept(rows, Space(c.config), chunks[i].text)]]
          [] OTHER -> Paired(chunks, c.fresh)

(* The rows are written together and the oldest dropped.                   *)
Cached(c) ==
    LET kept == Among(documents, {r \in ToSet(documents) :
                  ~(r.space = Space(c.config) /\ r.text \in ToSet(c.miss))})
        all == kept \o Fresh(c)
    IN  SubSeq(all, IF Len(all) > DocumentMax THEN Len(all) - DocumentMax + 1 ELSE 1,
               Len(all))

Settle(t) ==
    /\ call[t].pc = "post"
    /\ call[t].sent >= Len(call[t].miss)
    /\ IF Sound(call[t])
       THEN /\ call' = [call EXCEPT ![t] =
                          [NextBatch(call[t]) EXCEPT !.done = @ \o Embedded(call[t])]]
            /\ documents' \in IF call[t].db THEN {documents, Cached(call[t])}
                              ELSE {documents}
       ELSE /\ call' = [call EXCEPT ![t] = Raised(@)]
            /\ UNCHANGED documents
    /\ UNCHANGED <<env, stored, index, memory, asked>>

(* A full run that lost a batch, or has not a vector for each chunk, is    *)
(* given up.                                                               *)
Whole(c) ==
    c.kind = "full" => ~c.failed /\ Len(c.done) = Len(ChunksOf[c.project])

(* An incremental run puts what it has in the place of its files.          *)
Publish(t) ==
    /\ call[t].pc = "batch"
    /\ call[t].todo = <<>>
    /\ LET c == call[t]
           p == c.project
       IN  IF Whole(c)
           THEN /\ index' = [index EXCEPT ![p] =
                      [config |-> c.config,
                       vectors |-> IF c.kind = "full" THEN c.done
                                   ELSE Among(@.vectors, {x \in ToSet(@.vectors) :
                                          x.chunk.file \notin c.files}) \o c.done]]
                /\ To(t, "describe")
           ELSE call' = [call EXCEPT ![t] = Idle] /\ UNCHANGED index
    /\ UNCHANGED <<env, stored, memory, asked, documents>>

(* finalize_index_identity says what the index was made with, unless the   *)
(* source has changed or the description does not parse.                   *)
Describe(t) ==
    /\ call[t].pc = "describe"
    /\ \/ /\ stored[call[t].project] # Torn
          /\ stored' = [stored EXCEPT ![call[t].project] = call[t].config]
       \/ UNCHANGED stored
    /\ call' = [call EXCEPT ![t] = Idle]
    /\ UNCHANGED <<env, index, memory, asked, documents>>

-----------------------------------------------------------------------------
(* The process ends, and a server is started in another environment.       *)
Restart(e) ==
    /\ env' = e
    /\ memory' = <<>>
    /\ call' = [t \in Threads |-> Idle]
    /\ UNCHANGED <<stored, index, asked, documents>>

(* A project_info.json is lost.                                            *)
Tear(p) ==
    /\ stored[p] # NoConfig
    /\ stored' = [stored EXCEPT ![p] = Torn]
    /\ UNCHANGED <<env, index, memory, asked, documents, call>>

SearchStep(t) ==
    \/ OpenSearch(t) \/ Look(t) \/ Take(t) \/ Touch(t) \/ ReadRow(t)
    \/ EncodeQuery(t) \/ Trim(t) \/ WriteRow(t) \/ Return(t)

IndexStep(t) ==
    \/ OpenIndex(t) \/ Bulk(t) \/ LookUp(t) \/ Post(t) \/ Settle(t)
    \/ Publish(t) \/ Describe(t)

Next ==
    \/ \E p \in Projects : Register(p) \/ Tear(p)
    \/ \E t \in Searchers : SearchStep(t)
    \/ \E t \in Indexers : IndexStep(t)
    \/ \E e \in Environments : Restart(e)

Spec == Init /\ [][Next]_vars

-----------------------------------------------------------------------------
(* A search gets the vector of its query, up to case, from its provider    *)
(* and model, in its input mode and dimension, through both caches, which  *)
(* it shares with the searches of other projects.                          *)
QueryExact ==
    \A t \in Searchers : call[t].pc = "answered" =>
        LET c == call[t].config
            vec == call[t].vec
        IN  /\ Folded[vec.of] = Folded[call[t].query]
            /\ vec.by = Vector(c, call[t].query).by
            /\ vec.dim = c.dim

(* An index has one vector for each chunk, of its text and of the provider,*)
(* model, input mode and dimension its manifest names, whatever was cached *)
(* and whichever requests failed or were answered short.                   *)
IndexExact ==
    \A p \in Projects : index[p] # NoIndex =>
        LET vectors == index[p].vectors
        IN  /\ Len(vectors) = Len(ChunksOf[p])
            /\ \A k \in ToSet(ChunksOf[p]) : \E x \in ToSet(vectors) : x.chunk = k
            /\ \A x \in ToSet(vectors) : x.vec = Vector(index[p].config, x.chunk.text)

(* An index is opened with the configuration it was made with, in whatever *)
(* environment, with its description torn or never brought up to date.     *)
Reopened ==
    \A p \in Projects, e \in Environments :
        index[p] # NoIndex => Configured(p, e) = index[p].config

=============================================================================
