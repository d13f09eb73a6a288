--------------------------- MODULE MCBusinessTools ---------------------------
(* Two calls of one pipeline, and a request, which makes its own executor. *)
EXTENDS BusinessTools, TLC

OneExecutor == [p \in Tools |-> CHOOSE e \in Executors : TRUE]
=============================================================================
