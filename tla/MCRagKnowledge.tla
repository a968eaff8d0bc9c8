--------------------------- MODULE MCRagKnowledge ---------------------------
(***************************************************************************)
(* A small instance of RagKnowledge: two replicas boot at the same time; a *)
(* rulebook of more than one upsert batch beside a framework guide.        *)
(***************************************************************************)
EXTENDS RagKnowledge

CONSTANTS r1, r2

MCPlace == [a \in Assets |-> IF a = "master_rulebook" THEN 1 ELSE 2]

MCChunks == [a \in Assets |-> IF a = "master_rulebook" THEN 11 ELSE 4]
=============================================================================
