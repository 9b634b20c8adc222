--------------------------- MODULE MCTickPipeline ---------------------------
(* Model-checking run of TickPipeline with two threads of each pipeline;    *)
(* repeats are MCIngest's subject.                                          *)
EXTENDS TickPipeline

OnePrint == {[token |-> "A", at |-> 1]}
=============================================================================
