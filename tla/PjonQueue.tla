------------------------------ MODULE PjonQueue ------------------------------
(***************************************************************************)
(* What the round buffer of comm.cpp promises: messages are handled in the *)
(* order they arrived, one too many costs the oldest, and task_pjon leaves *)
(* none of them waiting.                                                   *)
(***************************************************************************)
EXTENDS Sequences, Naturals

CONSTANTS Message, Size

VARIABLES
    queue,     \* the messages waiting, oldest first
    handling   \* is task_pjon at work on them

Init == queue = << >> /\ handling = FALSE

Put(m) ==
    /\ ~handling
    /\ queue' = IF Len(queue) < Size THEN Append(queue, m)
                ELSE Append(Tail(queue), m)
    /\ UNCHANGED handling

Begin == ~handling /\ handling' = TRUE /\ UNCHANGED queue

Take ==
    /\ handling /\ queue # << >>
    /\ queue' = Tail(queue)
    /\ UNCHANGED handling

Finish == handling /\ queue = << >> /\ handling' = FALSE /\ UNCHANGED queue

\* The controller starts again.
Forget == queue' = << >> /\ handling' = FALSE

Next == (\E m \in Message : Put(m)) \/ Begin \/ Take \/ Finish \/ Forget

Spec == Init /\ [][Next]_<<queue, handling>>
=============================================================================
