-------------------------- MODULE MCDocumentMemory ---------------------------
(***************************************************************************)
(* A small corpus for TLC.  "restart" and "never" cancel each other in the *)
(* vector; "dots" is a text without tokens.                                *)
(***************************************************************************)
EXTENDS MemorySearch

CONSTANTS x1, x2, x3, runbook, policy, slogan, dots, h1, h2

MCIndex == [restart |-> 1, never |-> 1, worker |-> 2, secret |-> 3]
MCSign == [restart |-> 1, never |-> -1, worker |-> 1, secret |-> -1]

MCTokensOf ==
    [c \in Contents |->
        CASE c = runbook -> {"restart", "worker"}
          [] c = policy -> {"restart", "worker", "secret"}
          [] c = slogan -> {"restart", "never"}
          [] c = dots -> {}]
===============================================================================
