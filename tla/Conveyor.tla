------------------------------ MODULE Conveyor ------------------------------
(***************************************************************************)
(* What the tick path promises of each tick, whatever the threads, the     *)
(* batches and the buffers in between: it moves forward from stage to      *)
(* stage, it never comes back, and once it is delivered or lost it stays   *)
(* so.                                                                     *)
(***************************************************************************)
CONSTANT Ticks

VARIABLE stage      \* stage of every tick

Stages == {"absent", "arrived", "queued", "taken", "offered", "delivered", "lost"}
Settled == {"delivered", "lost"}

Edges == { <<"absent", "arrived">>, <<"arrived", "queued">>, <<"queued", "taken">>,
           <<"taken", "offered">>, <<"offered", "delivered">> }
         \cup ({"arrived", "taken", "offered"} \X {"lost"})

Init == stage = [t \in Ticks |-> "absent"]

\* A batch moves as one.
Next == /\ stage' \in [Ticks -> Stages]
        /\ \A t \in Ticks : stage'[t] # stage[t] => <<stage[t], stage'[t]>> \in Edges

Spec == Init /\ [][Next]_stage

\* Every tick that arrived is delivered or lost in the end.
Settles == \A t \in Ticks : (stage[t] # "absent") ~> (stage[t] \in Settled)
=============================================================================
