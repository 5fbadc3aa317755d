--------------------------- MODULE MCTemplatePool ---------------------------
(* TLC instances of TemplatePool: one caller, as mocha runs its hooks one  *)
(* after the other, and two callers that share the strategy.               *)
EXTENDS TemplatePool
=============================================================================
