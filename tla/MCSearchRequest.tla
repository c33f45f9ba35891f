--------------------------- MODULE MCSearchRequest ---------------------------
(* Six files of one chunk and one of two; rankings that agree and disagree. *)
EXTENDS SearchRequest

CONSTANTS f1, f2, f3, f4, f5, f6, c1, c2, c3, c4, c5, c6, c7

MCFileOf == c1 :> f1 @@ c2 :> f1 @@ c3 :> f2 @@ c4 :> f3 @@ c5 :> f4
            @@ c6 :> f5 @@ c7 :> f6

Plain(s)  == [i \in DOMAIN s |-> <<s[i], 1>>]
Former(s) == [i \in DOMAIN s |-> <<s[i], 2>>]
Up   == <<c1, c2, c3, c4, c5, c6, c7>>
Odd  == <<c6, c3, c7, c1, c4, c2, c5>>

MCVectorOrders  == {Plain(Up) \o <<<<NoChunk, 1>>>> \o Former(Up),
                    Former(<<c4, c3>>) \o <<<<NoChunk, 1>>>> \o Plain(Odd)
                      \o Former(<<c1, c2, c5, c6, c7>>)}
MCLexicalOrders == {Plain(Up) \o Former(Up),
                    Former(Reverse(Odd)) \o Plain(<<c7, c4, c2, c3, c6>>)}

Texts1 == {<<c, 1>> : c \in Chunks}
MCStores ==
    {[vectors |-> Texts1, live |-> Chunks, rows |-> Texts1],
     [vectors |-> Texts1 \cup {<<NoChunk, 1>>, <<c4, 2>>},
      live    |-> Chunks \ {c3},
      rows    |-> Texts1 \cup {<<c4, 2>>}]}

MCMatching == {c1, c2, c3, c5, c6}
MCBoosted  == {{}, {c2, c5}}
MCCentral  == {f4}
MCRankings == {<<4, 2, 3, 1>>, <<3, 2, 1>>, <<1, 2, 2, 4>>}
MCReplies  == {<<3, 1>>, <<2, 2, 9, 4>>}

(* Without a promotion: what fusion alone makes of the legs.               *)
FusionAlone ==
    promoted = {} => request.mode = "hybrid" /\ request.engine = "off"
==============================================================================
