---------------------------- MODULE MCEmbedder ----------------------------
(* Two projects, one of which is always asked for with its provider, and   *)
(* four environments.                                                      *)
EXTENDS Embedder

CONSTANTS a, b

MCNamed == (a :> Unset) @@ (b :> "jina")

Chunk(file, text) == [file |-> file, text |-> text]

MCChunks ==
    (a :> <<Chunk("f", "one"), Chunk("g", "two"), Chunk("f", "one")>>) @@
    (b :> <<Chunk("f", "one")>>)

MCFolded == ("q" :> "q") @@ ("Q" :> "q")

Bare == [provider |-> Unset, model |-> Unset, localModel |-> Unset,
         dim |-> Unset, truncate |-> Unset, it |-> FALSE, mode |-> Unset,
         key |-> FALSE, bulk |-> 100]

Docs == [Bare EXCEPT !.key = TRUE, !.mode = "docs", !.dim = 1024]

MCEnvironments ==
    {[Bare EXCEPT !.provider = "jina", !.truncate = 64],
     [Bare EXCEPT !.key = TRUE, !.it = TRUE, !.bulk = 3],
     [Bare EXCEPT !.localModel = "own"],
     Docs}

(* The vectors stand in the order of a full run, as a search does not care.*)
InOrderOfRun(p) ==
    \A i \in DOMAIN index[p].vectors : index[p].vectors[i].chunk = ChunksOf[p][i]

(* Queries and chunks share no cache: one of the two at a time.  Searches  *)
(* are of described indexes and in one environment, which decides no more  *)
(* than whether an API has its key: two projects of one model in different *)
(* dimensions, whose searches share a row of the caches, or of two models, *)
(* one search after the other.  What has an index is indexed again in that *)
(* environment.  One description is lost at most.                          *)
OneCache ==
    /\ \/ /\ memory = <<>> /\ asked = {}
          /\ \A t \in Searchers : call[t] = Idle
       \/ /\ documents = <<>>
          /\ env = Docs
          /\ \A t \in Indexers : call[t] = Idle
          /\ \A p \in Projects : stored[p] = index[p].config
          /\ \/ index[a].config.provider = "jina"
             \/ /\ index[a].config.provider = "local"
                /\ \A t, u \in Searchers : call[t] # Idle /\ call[u] # Idle => t = u
          /\ index[b].config.dim = 896
          /\ \A p \in Projects : InOrderOfRun(p)
    /\ \A t \in Indexers : call[t] # Idle =>
         env = Docs \/ index[call[t].project] = NoIndex \/ call[t].pc = "describe"
    /\ Cardinality({p \in Projects : stored[p] = Torn}) < 2

Symmetry == Permutations(Searchers)
=============================================================================
