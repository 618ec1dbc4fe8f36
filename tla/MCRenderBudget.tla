--------------------------- MODULE MCRenderBudget ---------------------------
(* Three requests of one to three items for two slots of width two: the    *)
(* third queues, and a batch is longer than it is wide.                    *)
EXTENDS RenderBudget
CONSTANTS r1, r2, r3
MCRequests == {r1, r2, r3}
=============================================================================
