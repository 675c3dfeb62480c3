------------------------------ MODULE PjonBuffer ------------------------------
(***************************************************************************)
(* The round buffer between PJON's receive callback and the message        *)
(* handlers (comm.cpp pjon_msgbuf_): the callback, which must return before *)
(* the bus acknowledges a packet, writes the slot at the index and advances *)
(* it; task_pjon visits all slots once, from the index on, and empties     *)
(* those it finds filled.  It implements PjonQueue.                        *)
(*                                                                         *)
(* A definition named Something_Variant is a faulty version of Something,  *)
(* used only to show that a property would notice the fault.               *)
(***************************************************************************)
EXTENDS Integers, Sequences

CONSTANTS
    PJON_MSGBUF_LEN,  \* 3 in the code
    Accepted,         \* payloads of an acceptable length
    Refused,          \* payloads without a type, or too long for a slot
    Empty             \* a slot whose length field is 0

ASSUME BufferAssumption ==
    /\ PJON_MSGBUF_LEN \in Nat \ {0}
    /\ Accepted \cap Refused = {}
    /\ Empty \notin Accepted

Slots == 0 .. PJON_MSGBUF_LEN - 1

VARIABLES
    pjon_msgbuf_,      \* the slots
    pjon_msgbuf_idx_,  \* the slot the callback writes next
    cc,                \* slots the running pass has visited
    postrecv           \* is pjon_postrecv_handle_msg running

vars == <<pjon_msgbuf_, pjon_msgbuf_idx_, cc, postrecv>>

TypeOK ==
    /\ pjon_msgbuf_ \in [Slots -> Accepted \cup {Empty}]
    /\ pjon_msgbuf_idx_ \in Slots
    /\ cc \in 0 .. PJON_MSGBUF_LEN
    /\ postrecv \in BOOLEAN

\* pjon_init
Init ==
    /\ pjon_msgbuf_ = [s \in Slots |-> Empty]
    /\ pjon_msgbuf_idx_ = 0
    /\ cc = 0
    /\ postrecv = FALSE

NothingBuffered == \A s \in Slots : pjon_msgbuf_[s] = Empty

NextSlot(s) == (s + 1) % PJON_MSGBUF_LEN

\* The callback, for a packet from the bus and for one typed at the console.
\* The main loop calls neither while it handles the buffer.
pjon_recv_handler(payload) ==
    /\ ~postrecv
    /\ payload \notin Refused
    /\ pjon_msgbuf_' = [pjon_msgbuf_ EXCEPT ![pjon_msgbuf_idx_] = payload]
    /\ pjon_msgbuf_idx_' = NextSlot(pjon_msgbuf_idx_)
    /\ UNCHANGED <<cc, postrecv>>

StartPass ==
    /\ ~postrecv
    /\ postrecv' = TRUE /\ cc' = 0
    /\ UNCHANGED <<pjon_msgbuf_, pjon_msgbuf_idx_>>

\* The slot of round k of the pass.
SlotOf_FromZero(k) == k % PJON_MSGBUF_LEN
SlotOf(k) == (pjon_msgbuf_idx_ + k) % PJON_MSGBUF_LEN

\* One round of the loop: an empty slot is skipped, a filled one is emptied and
\* its message handled.
pjon_postrecv_handle_msg ==
    /\ postrecv /\ cc < PJON_MSGBUF_LEN
    /\ pjon_msgbuf_' = [pjon_msgbuf_ EXCEPT ![SlotOf(cc)] = Empty]
    /\ cc' = cc + 1
    /\ UNCHANGED <<pjon_msgbuf_idx_, postrecv>>

EndPass ==
    /\ postrecv /\ cc = PJON_MSGBUF_LEN
    /\ postrecv' = FALSE /\ cc' = 0
    /\ UNCHANGED <<pjon_msgbuf_, pjon_msgbuf_idx_>>

\* The controller starts again: what was buffered is gone.
pjon_init ==
    /\ pjon_msgbuf_' = [s \in Slots |-> Empty]
    /\ pjon_msgbuf_idx_' = 0
    /\ cc' = 0
    /\ postrecv' = FALSE

Next ==
    \/ \E payload \in Accepted \cup Refused : pjon_recv_handler(payload)
    \/ StartPass \/ pjon_postrecv_handle_msg \/ EndPass
    \/ pjon_init

Spec == Init /\ [][Next]_vars

-----------------------------------------------------------------------------
\* The k-th slot after the one the index points at.
SlotAfter(k) == (pjon_msgbuf_idx_ + k) % PJON_MSGBUF_LEN

\* How many empty slots a pass meets before the first filled one.
Skipped ==
    CHOOSE n \in 0 .. PJON_MSGBUF_LEN :
        /\ n < PJON_MSGBUF_LEN => pjon_msgbuf_[SlotAfter(n)] # Empty
        /\ \A k \in 0 .. n - 1 : pjon_msgbuf_[SlotAfter(k)] = Empty

\* The messages waiting: the slots from the first filled one on.
Waiting ==
    LET n == Skipped
    IN  [k \in 1 .. PJON_MSGBUF_LEN - n |-> pjon_msgbuf_[SlotAfter(n + k - 1)]]

\* comm.cpp:93-115,279-309: slots, index and rounds are a queue that gives up its
\* oldest message when one more arrives, and one pass over it handles all.
Queue == INSTANCE PjonQueue WITH
    Message <- Accepted, Size <- PJON_MSGBUF_LEN,
    queue <- Waiting, handling <- postrecv
BufferIsQueue == Queue!Spec
=============================================================================
