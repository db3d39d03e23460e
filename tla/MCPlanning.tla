------------------------------ MODULE MCPlanning -----------------------------
(***************************************************************************)
(* Small lists of steps for TLC: every graph over four keys, in one order  *)
(* of its steps, and every malformed list of one or two steps.             *)
(***************************************************************************)
EXTENDS Planning, SequencesExt

CONSTANTS a, b, c, d    \* model values

MCKeys == {a, b, c, d}

Step(k, deps) == [key |-> k, depends_on |-> deps]

(* The subsets of S, each as one list *)
Lists(S) == {SetToSeq(D) : D \in SUBSET S}

Graphs ==
    {<<Step(d, w), Step(a, x), Step(c, y), Step(b, z)>> :
        w \in Lists({a, b, c}), x \in Lists({b, c, d}),
        y \in Lists({a, b, d}), z \in Lists({a, c, d})}

(* Self-dependencies, unknown ones, repeated ones and repeated keys *)
Malformed ==
    LET Short == UNION {[1..n -> {a, b, c}] : n \in 0..2}
    IN  {<<Step(a, x), Step(k, y)>> : k \in {a, b}, x, y \in Short}
        \cup {<<Step(a, x)>> : x \in Short}

MCPlans == Graphs \cup Malformed
===============================================================================
