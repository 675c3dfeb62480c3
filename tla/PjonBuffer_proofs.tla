-------------------------- MODULE PjonBuffer_proofs --------------------------
(***************************************************************************)
(* For every number of slots: index and slots keep their types, and the    *)
(* round buffer is a queue that gives up its oldest message.               *)
(***************************************************************************)
EXTENDS PjonBuffer, SequenceTheorems, TLAPS

\* The remainder of a division lies below the divisor.
LEMMA Remainder == \A k \in Nat, n \in Nat \ {0} : k % n \in 0 .. n - 1
  OBVIOUS

\* comm.cpp:36-39: there is a first slot, and a pass may count from 0.
LEMMA Zero == 0 \in Slots /\ 0 \in 0 .. PJON_MSGBUF_LEN
  BY BufferAssumption DEF Slots

\* comm.cpp:113-114: the index stays within the slots when it is advanced.
LEMMA IndexStaysInside == \A s \in Slots : NextSlot(s) \in Slots
  BY BufferAssumption, Remainder DEF Slots, NextSlot

\* comm.cpp:482-487: after pjon_init index and slots have their types.
LEMMA InitTypes == Init => TypeOK
  BY Zero, Zenon DEF Init, TypeOK

\* comm.cpp:100-115,284-309: callback, passes and restarts keep the types.
LEMMA StepTypes == TypeOK /\ [Next]_vars => TypeOK'
<1> SUFFICES ASSUME TypeOK, [Next]_vars PROVE TypeOK'
  OBVIOUS
<1> USE DEF TypeOK
<1>1. ASSUME NEW payload \in Accepted \cup Refused, pjon_recv_handler(payload)
      PROVE TypeOK'
  <2>1. payload \in Accepted \cup {Empty}
    BY <1>1 DEF pjon_recv_handler
  <2>2. pjon_msgbuf_' \in [Slots -> Accepted \cup {Empty}]
    BY <1>1, <2>1 DEF pjon_recv_handler
  <2> QED
    BY <1>1, <2>2, IndexStaysInside, Zenon DEF pjon_recv_handler
<1>2. CASE StartPass \/ EndPass
  BY <1>2, Zero, Zenon DEF StartPass, EndPass
<1>3. CASE pjon_postrecv_handle_msg
  <2>1. cc' \in 0 .. PJON_MSGBUF_LEN
    BY <1>3, BufferAssumption DEF pjon_postrecv_handle_msg
  <2>2. pjon_msgbuf_' \in [Slots -> Accepted \cup {Empty}]
    BY <1>3 DEF pjon_postrecv_handle_msg
  <2> QED
    BY <1>3, <2>1, <2>2, Zenon DEF pjon_postrecv_handle_msg
<1>4. CASE pjon_init
  BY <1>4, Zero, Zenon DEF pjon_init
<1>5. CASE UNCHANGED vars
  BY <1>5, Zenon DEF vars
<1> QED
  BY <1>1, <1>2, <1>3, <1>4, <1>5 DEF Next

\* comm.cpp:36-39,100-115,284-309: slots hold accepted messages or nothing, and the index
\* never points beyond them, for any number of slots and after any restart.
THEOREM TypeCorrect == Spec => []TypeOK
  BY InitTypes, StepTypes, PTL DEF Spec

-----------------------------------------------------------------------------
(***************************************************************************)
(* Why the round buffer is a queue.  Seen from the index, the empty slots  *)
(* come first: messages are written behind the others, and a pass empties  *)
(* slots from the index on.  A pass that has visited cc slots has none of  *)
(* them left filled.                                                       *)
(***************************************************************************)

\* The first n slots are empty and all others filled.
Layout(n) ==
    \A k \in 0 .. PJON_MSGBUF_LEN - 1 :
        pjon_msgbuf_[SlotAfter(k)] = Empty <=> k < n

BufferInv ==
    /\ TypeOK
    /\ \E n \in cc .. PJON_MSGBUF_LEN : Layout(n)
    /\ ~postrecv => cc = 0

\* Going round: the remainder of a sum that exceeds the length at most once.
LEMMA GoingRound ==
    ASSUME NEW s \in Slots, NEW k \in 0 .. PJON_MSGBUF_LEN
    PROVE  (s + k) % PJON_MSGBUF_LEN =
               IF s + k < PJON_MSGBUF_LEN THEN s + k ELSE s + k - PJON_MSGBUF_LEN
<1>1. ASSUME NEW n \in Nat \ {0}, NEW m \in 0 .. n - 1
      PROVE  m % n = m
  OBVIOUS
<1>2. ASSUME NEW n \in Nat \ {0}, NEW m \in n .. 2 * n - 1
      PROVE  m % n = m - n
  OBVIOUS
<1>3. CASE s + k < PJON_MSGBUF_LEN
  BY <1>1, <1>3, BufferAssumption DEF Slots
<1>4. CASE s + k >= PJON_MSGBUF_LEN
  BY <1>2, <1>4, BufferAssumption DEF Slots
<1> QED
  BY <1>3, <1>4, BufferAssumption DEF Slots

\* The same of the slots counted from the index.
CountedFromIndex ==
    TypeOK => \A k \in 0 .. PJON_MSGBUF_LEN :
        SlotAfter(k) = IF pjon_msgbuf_idx_ + k < PJON_MSGBUF_LEN
                       THEN pjon_msgbuf_idx_ + k
                       ELSE pjon_msgbuf_idx_ + k - PJON_MSGBUF_LEN
LEMMA SlotsCounted == CountedFromIndex
  BY GoingRound DEF CountedFromIndex, TypeOK, SlotAfter

\* Counting from the index reaches every slot once.
LEMMA SlotAfterIsOneToOne ==
    ASSUME TypeOK, NEW j \in 0 .. PJON_MSGBUF_LEN - 1,
           NEW k \in 0 .. PJON_MSGBUF_LEN - 1
    PROVE  /\ SlotAfter(k) \in Slots
           /\ SlotAfter(j) = SlotAfter(k) => j = k
<1>1. ASSUME NEW i \in 0 .. PJON_MSGBUF_LEN - 1
      PROVE  SlotAfter(i) = IF pjon_msgbuf_idx_ + i < PJON_MSGBUF_LEN
                            THEN pjon_msgbuf_idx_ + i
                            ELSE pjon_msgbuf_idx_ + i - PJON_MSGBUF_LEN
  <2>1. i \in 0 .. PJON_MSGBUF_LEN
    BY BufferAssumption
  <2> QED
    BY <2>1, SlotsCounted DEF CountedFromIndex
<1>2. pjon_msgbuf_idx_ \in 0 .. PJON_MSGBUF_LEN - 1 /\ PJON_MSGBUF_LEN \in Nat
  BY BufferAssumption DEF TypeOK, Slots
<1>3. SlotAfter(k) \in 0 .. PJON_MSGBUF_LEN - 1
  BY <1>1, <1>2
<1>4. SlotAfter(j) = SlotAfter(k) => j = k
  BY <1>1, <1>2
<1> QED
  BY <1>3, <1>4 DEF Slots

\* With the empty slots first, the queue is what the others hold.
RestWaits ==
    \A n \in 0 .. PJON_MSGBUF_LEN : TypeOK /\ Layout(n) =>
        /\ Waiting \in Seq(Accepted)
        /\ Len(Waiting) = PJON_MSGBUF_LEN - n
        /\ \A k \in 1 .. PJON_MSGBUF_LEN - n :
              Waiting[k] = pjon_msgbuf_[SlotAfter(n + k - 1)]
LEMMA WaitingIsRest == RestWaits
<1> SUFFICES ASSUME TypeOK, NEW n \in 0 .. PJON_MSGBUF_LEN, Layout(n)
             PROVE  /\ Waiting \in Seq(Accepted)
                    /\ Len(Waiting) = PJON_MSGBUF_LEN - n
                    /\ \A k \in 1 .. PJON_MSGBUF_LEN - n :
                          Waiting[k] = pjon_msgbuf_[SlotAfter(n + k - 1)]
  BY DEF RestWaits
<1> DEFINE IsFirst(m) ==
        /\ m < PJON_MSGBUF_LEN => pjon_msgbuf_[SlotAfter(m)] # Empty
        /\ \A k \in 0 .. m - 1 : pjon_msgbuf_[SlotAfter(k)] = Empty
<1>1. \A m \in 0 .. PJON_MSGBUF_LEN : IsFirst(m) <=> m = n
  BY BufferAssumption DEF Layout
<1>2. Skipped = n
  BY <1>1 DEF Skipped
<1>3. Waiting = [k \in 1 .. PJON_MSGBUF_LEN - n |->
                    pjon_msgbuf_[SlotAfter(n + k - 1)]]
  BY <1>2, Zenon DEF Waiting
<1>4. ASSUME NEW k \in 1 .. PJON_MSGBUF_LEN - n
      PROVE  pjon_msgbuf_[SlotAfter(n + k - 1)] \in Accepted
  <2>1. n + k - 1 \in 0 .. PJON_MSGBUF_LEN - 1
    BY BufferAssumption
  <2>2. SlotAfter(n + k - 1) \in Slots
    BY <2>1, SlotAfterIsOneToOne
  <2>3. pjon_msgbuf_[SlotAfter(n + k - 1)] # Empty
    BY <2>1, BufferAssumption DEF Layout
  <2> QED
    BY <2>2, <2>3 DEF TypeOK
<1>5. PJON_MSGBUF_LEN - n \in Nat
  BY BufferAssumption
<1> QED
  BY <1>3, <1>4, <1>5

\* comm.cpp:482-487: a new buffer is empty.
LEMMA InitInv == Init => BufferInv /\ Queue!Init
<1> SUFFICES ASSUME Init PROVE BufferInv /\ Queue!Init
  OBVIOUS
<1>1. TypeOK
  BY InitTypes
<1>2. Layout(PJON_MSGBUF_LEN)
  BY <1>1, SlotAfterIsOneToOne, BufferAssumption DEF Init, Layout
<1>3. PJON_MSGBUF_LEN \in 0 .. PJON_MSGBUF_LEN
  BY BufferAssumption
<1>4. Waiting = << >>
  BY <1>1, <1>2, <1>3, WaitingIsRest, EmptySeq, BufferAssumption DEF RestWaits
<1> QED
  BY <1>1, <1>2, <1>3, <1>4, Zenon DEF Init, BufferInv, Queue!Init

\* comm.cpp:100-114: the callback overwrites what the index points at, an empty
\* slot or the oldest message, and after it that slot is the last.
LEMMA ReceiveStep ==
  ASSUME BufferInv, NEW payload \in Accepted \cup Refused, pjon_recv_handler(payload)
  PROVE  BufferInv' /\ \E m \in Accepted : Queue!Put(m)
<1> DEFINE L == PJON_MSGBUF_LEN
<1>1. TypeOK /\ TypeOK' /\ payload \in Accepted /\ ~postrecv /\ cc = 0 /\ UNCHANGED <<cc, postrecv>>
  BY StepTypes DEF BufferInv, pjon_recv_handler, Next
<1>2. L \in Nat \ {0}
  BY BufferAssumption
<1>3. PICK n \in 0 .. L : Layout(n)
  BY <1>1 DEF BufferInv
<1> DEFINE m == IF n = 0 THEN 0 ELSE n - 1
<1>4. pjon_msgbuf_idx_ \in 0 .. L - 1 /\ pjon_msgbuf_idx_' \in 0 .. L - 1
  BY <1>1 DEF TypeOK, Slots
<1>5. pjon_msgbuf_idx_' = IF pjon_msgbuf_idx_ + 1 < L THEN pjon_msgbuf_idx_ + 1
                          ELSE pjon_msgbuf_idx_ + 1 - L
  BY <1>1, <1>2, <1>4, GoingRound DEF pjon_recv_handler, NextSlot, Slots
<1>6. ASSUME NEW k \in 0 .. L - 1
      PROVE  pjon_msgbuf_[SlotAfter(k)]' =
                 IF k = L - 1 THEN payload ELSE pjon_msgbuf_[SlotAfter(k + 1)]
  <2>1. CountedFromIndex /\ CountedFromIndex'
    BY SlotsCounted, PTL
  <2>2. ASSUME NEW i \in 0 .. L
        PROVE  /\ SlotAfter(i) = IF pjon_msgbuf_idx_ + i < L THEN pjon_msgbuf_idx_ + i
                                 ELSE pjon_msgbuf_idx_ + i - L
               /\ SlotAfter(i)' = IF pjon_msgbuf_idx_' + i < L
                                  THEN pjon_msgbuf_idx_' + i
                                  ELSE pjon_msgbuf_idx_' + i - L
    BY <1>1, <2>1 DEF CountedFromIndex
  <2>3. SlotAfter(0) = pjon_msgbuf_idx_ /\ 0 \in 0 .. L - 1 /\ 0 \in 0 .. L
    <3>1. 0 \in 0 .. L - 1 /\ 0 \in 0 .. L
      BY <1>2
    <3>2. SlotAfter(0) = IF pjon_msgbuf_idx_ + 0 < L THEN pjon_msgbuf_idx_ + 0
                         ELSE pjon_msgbuf_idx_ + 0 - L
      BY <2>2, <3>1
    <3> HIDE DEF L
    <3> QED
      BY <1>2, <1>4, <3>1, <3>2
  <2>4. CASE k = L - 1
    <3>1. SlotAfter(k)' = pjon_msgbuf_idx_
      <4> k \in 0 .. L
        BY <1>2
      <4> HIDE DEF L
      <4> QED
        BY <1>2, <1>4, <1>5, <2>2, <2>4
    <3> QED
      BY <1>1, <1>4, <2>4, <3>1 DEF pjon_recv_handler, TypeOK, Slots
  <2>5. CASE k # L - 1
    <3>1. k + 1 \in 0 .. L - 1 /\ k + 1 # 0 /\ k \in 0 .. L /\ k + 1 \in 0 .. L
      BY <1>2, <2>5
    <3>2. SlotAfter(k)' = SlotAfter(k + 1)
      <4> HIDE DEF L
      <4> QED
        BY <1>2, <1>4, <1>5, <2>2, <3>1
    <3>3. SlotAfter(k + 1) # pjon_msgbuf_idx_
      BY <1>1, <2>3, <3>1, SlotAfterIsOneToOne
    <3> QED
      BY <1>1, <2>5, <3>2, <3>3 DEF pjon_recv_handler
  <2> QED
    BY <2>4, <2>5
<1>7. m \in 0 .. L /\ m < L /\ (n = 0 => L - m = L) /\ (n > 0 => m = n - 1)
  BY <1>2, <1>3
<1>8. Layout(m)'
  <2> SUFFICES ASSUME NEW k \in 0 .. L - 1
               PROVE  pjon_msgbuf_[SlotAfter(k)]' = Empty <=> k < m
    BY DEF Layout
  <2>1. CASE k = L - 1
    BY <1>1, <1>2, <1>6, <1>7, <2>1, BufferAssumption
  <2>2. CASE k # L - 1
    BY <1>2, <1>3, <1>6, <2>2 DEF Layout
  <2> QED
    BY <2>1, <2>2
<1>9. BufferInv'
  BY <1>1, <1>7, <1>8, Zenon DEF BufferInv
<1>10. RestWaits /\ RestWaits'
  BY WaitingIsRest, PTL
<1>11. /\ Waiting \in Seq(Accepted)
       /\ Len(Waiting) = L - n
       /\ \A k \in 1 .. L - n : Waiting[k] = pjon_msgbuf_[SlotAfter(n + k - 1)]
  BY <1>1, <1>3, <1>10 DEF RestWaits
<1>12. /\ Waiting' \in Seq(Accepted)
       /\ Len(Waiting') = L - m
       /\ \A k \in 1 .. L - m : Waiting'[k] = pjon_msgbuf_'[SlotAfter(m + k - 1)']
  BY <1>1, <1>7, <1>8, <1>10 DEF RestWaits
<1>13. Waiting' = IF Len(Waiting) < L THEN Append(Waiting, payload)
                  ELSE Append(Tail(Waiting), payload)
  <2>1. CASE n = 0
    <3>1. /\ Len(Waiting) = L /\ Waiting \in Seq(Accepted)
          /\ \A k \in 1 .. L : Waiting[k] = pjon_msgbuf_[SlotAfter(k - 1)]
      BY <1>2, <1>11, <2>1
    <3>2. /\ Len(Waiting') = L /\ Waiting' \in Seq(Accepted)
          /\ \A k \in 1 .. L : Waiting'[k] = pjon_msgbuf_'[SlotAfter(k - 1)']
      BY <1>2, <1>12, <2>1
    <3> HIDE DEF L
    <3>3. ASSUME NEW k \in 1 .. L
          PROVE  Waiting'[k] = IF k = L THEN payload ELSE Waiting[k + 1]
      <4>1. k - 1 \in 0 .. L - 1 /\ (k - 1 = L - 1 <=> k = L) /\ (k - 1) + 1 = (k + 1) - 1
        BY <1>2
      <4>2. Waiting'[k] = IF k = L THEN payload ELSE pjon_msgbuf_[SlotAfter((k + 1) - 1)]
        BY <1>6, <3>2, <4>1
      <4>3. k # L => k + 1 \in 1 .. L
        BY <1>2
      <4> QED
        BY <3>1, <4>2, <4>3
    <3>4. /\ Append(Tail(Waiting), payload) \in Seq(Accepted)
          /\ Len(Append(Tail(Waiting), payload)) = L
          /\ \A k \in 1 .. L : Append(Tail(Waiting), payload)[k] =
                                   IF k = L THEN payload ELSE Waiting[k + 1]
      BY <1>1, <1>2, <3>1
    <3>5. Waiting' = Append(Tail(Waiting), payload)
      BY <3>2, <3>3, <3>4, SeqEqual
    <3> QED
      BY <1>2, <3>1, <3>5
  <2>2. CASE n > 0
    <3>1. /\ Len(Waiting) = L - n /\ Waiting \in Seq(Accepted) /\ L - n \in Nat
          /\ L - n < L /\ L - m = (L - n) + 1
      BY <1>2, <1>3, <1>11, <2>2
    <3>2. /\ Len(Waiting') = (L - n) + 1 /\ Waiting' \in Seq(Accepted)
          /\ \A k \in 1 .. (L - n) + 1 :
                Waiting'[k] = pjon_msgbuf_'[SlotAfter((n - 1) + k - 1)']
      BY <1>3, <1>7, <1>12, <2>2, <3>1
    <3> HIDE DEF L
    <3>3. ASSUME NEW k \in 1 .. (L - n) + 1
          PROVE  Waiting'[k] = IF k = (L - n) + 1 THEN payload ELSE Waiting[k]
      <4>1. /\ (n - 1) + k - 1 \in 0 .. L - 1
            /\ (n - 1) + k - 1 = L - 1 <=> k = (L - n) + 1
            /\ ((n - 1) + k - 1) + 1 = n + k - 1
        BY <1>2, <1>3, <2>2
      <4>2. Waiting'[k] = IF k = (L - n) + 1 THEN payload
                          ELSE pjon_msgbuf_[SlotAfter(n + k - 1)]
        BY <1>6, <3>2, <4>1
      <4>3. k # (L - n) + 1 => k \in 1 .. L - n
        BY <3>1
      <4> QED
        BY <1>11, <4>2, <4>3
    <3>4. /\ Append(Waiting, payload) \in Seq(Accepted)
          /\ Len(Append(Waiting, payload)) = (L - n) + 1
          /\ \A k \in 1 .. (L - n) + 1 : Append(Waiting, payload)[k] =
                 IF k = (L - n) + 1 THEN payload ELSE Waiting[k]
      BY <1>1, <3>1
    <3>5. Waiting' = Append(Waiting, payload)
      BY <3>2, <3>3, <3>4, SeqEqual
    <3> QED
      BY <3>1, <3>5
  <2> QED
    BY <1>3, <2>1, <2>2
<1> QED
  BY <1>1, <1>9, <1>13 DEF Queue!Put

\* comm.cpp:284-309: a round of the pass over an empty slot changes nothing, the
\* first over a filled one takes the oldest message.
LEMMA HandleStep ==
  ASSUME BufferInv, pjon_postrecv_handle_msg
  PROVE  BufferInv' /\ (Queue!Take \/ UNCHANGED <<Waiting, postrecv>>)
<1> DEFINE L == PJON_MSGBUF_LEN
<1>1. /\ TypeOK /\ TypeOK' /\ postrecv /\ cc \in 0 .. L /\ cc < L
      /\ UNCHANGED <<pjon_msgbuf_idx_, postrecv>> /\ cc' = cc + 1
      /\ pjon_msgbuf_' = [pjon_msgbuf_ EXCEPT ![SlotAfter(cc)] = Empty]
  BY StepTypes DEF BufferInv, pjon_postrecv_handle_msg, Next, TypeOK, SlotOf, SlotAfter
<1>2. L \in Nat \ {0}
  BY BufferAssumption
<1>3. PICK n \in cc .. L : Layout(n)
  BY <1>1 DEF BufferInv
<1>4. n \in 0 .. L /\ cc \in 0 .. L - 1
  BY <1>1, <1>2, <1>3
<1>5. SlotAfter(cc) \in Slots /\ \A k \in 0 .. L - 1 : SlotAfter(k) = SlotAfter(cc) => k = cc
  BY <1>1, <1>4, SlotAfterIsOneToOne
<1>6. ASSUME NEW k \in 0 .. L - 1
      PROVE  pjon_msgbuf_[SlotAfter(k)]' = IF k = cc THEN Empty ELSE pjon_msgbuf_[SlotAfter(k)]
  <2>1. SlotAfter(k)' = SlotAfter(k) /\ SlotAfter(k) \in Slots
    BY <1>1, SlotAfterIsOneToOne DEF SlotAfter
  <2>2. k = cc => SlotAfter(k) = SlotAfter(cc)
    OBVIOUS
  <2> QED
    BY <1>1, <1>5, <2>1, <2>2 DEF TypeOK
<1>7. CASE cc < n
  <2>1. pjon_msgbuf_[SlotAfter(cc)] = Empty
    BY <1>3, <1>4, <1>7 DEF Layout
  <2>2. pjon_msgbuf_' = pjon_msgbuf_
    BY <1>1, <1>5, <2>1 DEF TypeOK
  <2>3. Waiting' = Waiting
    <3>1. UNCHANGED <<pjon_msgbuf_, pjon_msgbuf_idx_>>
      BY <1>1, <2>2
    <3> QED
      BY <3>1 DEF Waiting, Skipped, SlotAfter
  <2>4. Layout(n)' /\ n \in cc' .. L
    BY <1>1, <1>2, <1>3, <1>7, <2>2 DEF Layout, SlotAfter
  <2> QED
    BY <1>1, <2>3, <2>4, Zenon DEF BufferInv
<1>8. CASE cc = n
  <2>1. Layout(n + 1)'
    BY <1>2, <1>3, <1>4, <1>6, <1>8 DEF Layout
  <2>2. n + 1 \in cc' .. L /\ n + 1 \in 0 .. L
    BY <1>1, <1>2, <1>3, <1>8
  <2>3. BufferInv'
    BY <1>1, <2>1, <2>2, Zenon DEF BufferInv
  <2>4. RestWaits /\ RestWaits'
    BY WaitingIsRest, PTL
  <2>5. /\ Waiting \in Seq(Accepted) /\ Len(Waiting) = L - n
        /\ \A k \in 1 .. L - n : Waiting[k] = pjon_msgbuf_[SlotAfter(n + k - 1)]
    BY <1>1, <1>3, <1>4, <2>4 DEF RestWaits
  <2>6. /\ Waiting' \in Seq(Accepted) /\ Len(Waiting') = L - (n + 1)
        /\ \A k \in 1 .. L - (n + 1) :
              Waiting'[k] = pjon_msgbuf_'[SlotAfter((n + 1) + k - 1)']
    BY <1>1, <2>1, <2>2, <2>4 DEF RestWaits
  <2>7. L - n \in Nat \ {0} /\ L - (n + 1) = (L - n) - 1
    BY <1>1, <1>2, <1>4, <1>8
  <2>8. /\ Tail(Waiting) \in Seq(Accepted) /\ Len(Tail(Waiting)) = L - (n + 1)
        /\ \A k \in 1 .. L - (n + 1) : Tail(Waiting)[k] = Waiting[k + 1]
    <3> HIDE DEF L
    <3> QED
      BY <2>5, <2>7
  <2>9. ASSUME NEW k \in 1 .. L - (n + 1)
        PROVE  Waiting'[k] = Tail(Waiting)[k]
    <3>1. /\ (n + 1) + k - 1 \in 0 .. L - 1 /\ (n + 1) + k - 1 # cc
          /\ (n + 1) + k - 1 = n + (k + 1) - 1 /\ k + 1 \in 1 .. L - n
      BY <1>2, <1>4, <1>8
    <3>2. Waiting'[k] = pjon_msgbuf_[SlotAfter(n + (k + 1) - 1)]
      BY <1>6, <2>6, <3>1
    <3> QED
      BY <2>5, <2>8, <3>1, <3>2
  <2>10. Waiting' = Tail(Waiting)
    BY <2>6, <2>8, <2>9, SeqEqual
  <2>11. Waiting # << >>
    BY <2>5, <2>7
  <2> QED
    BY <1>1, <2>3, <2>10, <2>11 DEF Queue!Take
<1> QED
  BY <1>4, <1>3, <1>7, <1>8

\* comm.cpp:284-309: a pass ends with all slots visited, none of them filled.
LEMMA EndStep ==
  ASSUME BufferInv, EndPass
  PROVE  BufferInv' /\ Queue!Finish
<1>1. /\ TypeOK /\ TypeOK' /\ postrecv /\ cc = PJON_MSGBUF_LEN
      /\ UNCHANGED <<pjon_msgbuf_, pjon_msgbuf_idx_>> /\ cc' = 0 /\ postrecv' = FALSE
  BY StepTypes DEF BufferInv, EndPass, Next
<1>2. PJON_MSGBUF_LEN \in 0 .. PJON_MSGBUF_LEN
  BY BufferAssumption
<1>3. Layout(PJON_MSGBUF_LEN)
  BY <1>1, BufferAssumption DEF BufferInv
<1>4. Waiting = << >>
  BY <1>1, <1>2, <1>3, WaitingIsRest, EmptySeq, BufferAssumption DEF RestWaits
<1>5. Waiting' = Waiting /\ Layout(PJON_MSGBUF_LEN)'
  BY <1>1, <1>3 DEF Waiting, Skipped, SlotAfter, Layout
<1> QED
  BY <1>1, <1>2, <1>4, <1>5, Zenon DEF BufferInv, Queue!Finish

\* comm.cpp:482-487: a restart forgets what waited.
LEMMA RestartStep ==
  ASSUME BufferInv, pjon_init
  PROVE  BufferInv' /\ Queue!Forget
<1>1. RestWaits'
  BY WaitingIsRest, PTL
<1>2. TypeOK' /\ cc' = 0 /\ postrecv' = FALSE /\ pjon_msgbuf_' = [s \in Slots |-> Empty]
  BY StepTypes DEF BufferInv, pjon_init, Next
<1>3. PJON_MSGBUF_LEN \in 0 .. PJON_MSGBUF_LEN
  BY BufferAssumption
<1>4. Layout(PJON_MSGBUF_LEN)'
  <2>1. pjon_msgbuf_idx_' = 0
    BY DEF pjon_init
  <2>2. ASSUME NEW k \in 0 .. PJON_MSGBUF_LEN - 1
        PROVE  SlotAfter(k)' \in Slots /\ k < PJON_MSGBUF_LEN
    BY <2>1, Remainder, BufferAssumption DEF SlotAfter, Slots
  <2> QED
    BY <1>2, <2>2 DEF Layout
<1>5. Waiting' = << >>
  BY <1>1, <1>2, <1>3, <1>4, EmptySeq, BufferAssumption DEF RestWaits
<1> QED
  BY <1>2, <1>3, <1>4, <1>5, Zenon DEF BufferInv, Queue!Forget

\* comm.cpp:93-115,279-309: what every step of the buffer does to the queue.
LEMMA BufferStep ==
  BufferInv /\ [Next]_vars => BufferInv' /\ [Queue!Next]_<<Waiting, postrecv>>
<1> SUFFICES ASSUME BufferInv, [Next]_vars
             PROVE  BufferInv' /\ [Queue!Next]_<<Waiting, postrecv>>
  OBVIOUS
<1>1. ASSUME NEW payload \in Accepted \cup Refused, pjon_recv_handler(payload)
      PROVE  BufferInv' /\ [Queue!Next]_<<Waiting, postrecv>>
  BY <1>1, ReceiveStep DEF Queue!Next
<1>2. CASE StartPass
  <2>1. /\ ~postrecv /\ postrecv' = TRUE /\ cc' = 0 /\ cc = 0 /\ TypeOK'
        /\ UNCHANGED <<pjon_msgbuf_, pjon_msgbuf_idx_>>
    BY <1>2, StepTypes DEF StartPass, BufferInv, Next
  <2>2. Waiting' = Waiting
    BY <2>1 DEF Waiting, Skipped, SlotAfter
  <2>3. BufferInv'
    BY <2>1 DEF BufferInv, Layout, SlotAfter
  <2> QED
    BY <2>1, <2>2, <2>3, Zenon DEF Queue!Begin, Queue!Next
<1>3. CASE pjon_postrecv_handle_msg
  BY <1>3, HandleStep DEF Queue!Next
<1>4. CASE EndPass
  BY <1>4, EndStep DEF Queue!Next
<1>5. CASE pjon_init
  BY <1>5, RestartStep DEF Queue!Next
<1>6. CASE UNCHANGED vars
  <2>1. Waiting' = Waiting /\ postrecv' = postrecv
    BY <1>6 DEF Waiting, Skipped, SlotAfter, vars
  <2>2. BufferInv'
    BY <1>6 DEF BufferInv, TypeOK, Layout, SlotAfter, vars
  <2> QED
    BY <2>1, <2>2, Zenon
<1> QED
  BY <1>1, <1>2, <1>3, <1>4, <1>5, <1>6 DEF Next

\* comm.cpp:93-115,279-309: whatever arrives, whenever task_pjon runs and the board restarts,
\* messages are handled in the order they came, only the oldest is lost when one
\* too many arrives, and a pass leaves none waiting.
THEOREM RoundBufferIsQueue == Spec => BufferIsQueue
  BY InitInv, BufferStep, PTL DEF Spec, BufferIsQueue, Queue!Spec
=============================================================================
