----------------------------- MODULE MemorySearch ----------------------------
(***************************************************************************)
(* search_documents over the documents ingested so far: the scores of      *)
(* Retrieval on the state of DocumentMemory.                               *)
(***************************************************************************)
EXTENDS DocumentMemory, Retrieval, Sequences

CONSTANT TokensOf   \* the tokens of each content, title and body together

(* Texts are finite, and so many ids can be drawn. *)
ASSUME SearchAssumption ==
    /\ IsFiniteSet(Documents)
    /\ \A c \in Contents : TokensOf[c] \subseteq Token /\ IsFiniteSet(TokensOf[c])

(***************************************************************************)
(* MemoryStore.search: the lists it may return, none if building the store *)
(* is refused, which search_documents answers with 503.  The local store   *)
(* drops what scores nothing; Qdrant returns the nearest points, near or   *)
(* not.                                                                    *)
(***************************************************************************)
Hits(query, limit) ==
    LET Found == {x \in Documents : Searched[x] # None}
        Local == [x \in Found |-> Jaccard(query, TokensOf[Searched[x]])]
        Remote == [x \in Found |-> Cosine(query, TokensOf[Searched[x]])]
    IN CASE backend = "local" ->
                Ranked(Restrict(Local, {x \in Found : Local[x].num > 0}), limit)
         [] StoreRefused -> {}
         [] OTHER -> Ranked(Remote, limit)

(* A text that can be found by its own words: it has some, and in Qdrant   *)
(* they do not cancel each other                                           *)
Findable(tokens) ==
    IF backend = "local" THEN tokens # {}
    ELSE \E i \in Dimensions : Embed(tokens)[i] # 0

(* Two texts that memory cannot tell apart *)
Alike(a, b) ==
    IF backend = "local" THEN a = b
    ELSE LET c == Cosine(a, b) IN c.num = c.den

(***************************************************************************)
(* Who searches for a document's own text and is answered finds it: every  *)
(* hit up to the document's own is a text that memory cannot tell from it, *)
(* orphans and other documents notwithstanding, and however short the list *)
(* is.                                                                     *)
(***************************************************************************)
OwnTextRanksFirst ==
    \A x \in Documents : content[x] # None =>
        LET own == TokensOf[content[x]] IN
        Findable(own) =>
            \A limit \in 1..Cardinality(Documents) : \A list \in Hits(own, limit) :
                \/ \E i \in DOMAIN list : /\ list[i] = x
                                          /\ \A j \in 1..i :
                                                Alike(own, TokensOf[Searched[list[j]]])
                \/ /\ Len(list) = limit
                   /\ \A i \in DOMAIN list : Alike(own, TokensOf[Searched[list[i]]])
===============================================================================
