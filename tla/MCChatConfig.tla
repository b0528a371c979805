----------------------------- MODULE MCChatConfig -----------------------------
(***************************************************************************)
(* A small instance of ChatConfig: a cheap document, a dear one and a       *)
(* faulty one, ceilings below and between their costs.                     *)
(***************************************************************************)
EXTENDS ChatConfig, TLC

CONSTANTS cheap, dear, wrong

ThreeDocs == {cheap, dear, wrong}
WrongOnly == {wrong}
Costs == (cheap :> 2) @@ (dear :> 4) @@ (wrong :> 1)

RequestSymmetry == Permutations(Requests)
===============================================================================
