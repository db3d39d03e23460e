------------------------------ MODULE Retrieval ------------------------------
(***************************************************************************)
(* How memory.py scores documents.  A text is the set of its tokens.  A    *)
(* score is a fraction, num over den, and the cosine is kept as its square *)
(* with its sign, so that whole numbers are enough to compare scores.      *)
(***************************************************************************)
EXTENDS FiniteSetsExt

CONSTANTS
    Token,          \* the tokens of texts
    Index,          \* the component of the vector a token's digest selects
    Sign            \* and what it adds there, 1 or -1

Dimensions == {Index[t] : t \in Token}

(* A vector has 128 components, and a token adds to one of them. *)
ASSUME RetrievalAssumption ==
    /\ IsFiniteSet(Dimensions)
    /\ \A t \in Token : Sign[t] \in {1, -1}

(* embed, before the division by the magnitude *)
Embed(tokens) ==
    [i \in Dimensions |->
        SumFunction([t \in {t \in tokens : Index[t] = i} |-> Sign[t]])]

Dot(v, w) == SumFunction([i \in Dimensions |-> v[i] * w[i]])

Above(a, b) == a.num * b.den > b.num * a.den

(* Mutant of Jaccard: the share of the query's tokens. *)
JaccardOfQuery(query, tokens) ==
    [num |-> Cardinality(query \cap tokens), den |-> Max({1, Cardinality(query)})]

(* LocalMemoryStore.search: the Jaccard index, 0 if both are empty *)
Jaccard(query, tokens) ==
    [num |-> Cardinality(query \cap tokens),
     den |-> Max({1, Cardinality(query \cup tokens)})]

(* The cosine; a zero vector is left as it is (`or 1.0`). *)
Cosine(query, tokens) ==
    LET v == Embed(query)
        w == Embed(tokens)
        dot == Dot(v, w)
    IN [num |-> IF dot < 0 THEN -(dot * dot) ELSE dot * dot,
        den |-> Max({1, Dot(v, v)}) * Max({1, Dot(w, w)})]

(* Lists of at most limit of the documents scored, best score first; the   *)
(* order of equal scores is the database's.                                *)
Ranked(score, limit) ==
    LET found == DOMAIN score IN
    {list \in [1..Min({limit, Cardinality(found)}) -> found] :
        \A i \in DOMAIN list :
            /\ \A j \in 1..(i - 1) : list[j] # list[i]
            /\ \A x \in found : Above(score[x], score[list[i]]) =>
                  \E j \in 1..(i - 1) : list[j] = x}
===============================================================================
