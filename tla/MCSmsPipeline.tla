--------------------------- MODULE MCSmsPipeline ---------------------------
(* Model checking of SmsPipeline: workers and rows are interchangeable     *)
(* (no CHOOSE over them, no order), so safety runs may identify them.      *)
EXTENDS SmsPipeline, TLC

Symmetric == Permutations(Sms) \union Permutations(Workers)
=============================================================================
