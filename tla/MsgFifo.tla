------------------------------ MODULE MsgFifo ------------------------------
(***************************************************************************)
(* What the per-process message queue promises (spec.md section 3,        *)
(* "Message Queue"): each process owns a FIFO of at most Cap messages;    *)
(* pushing into a full queue fails, popping takes the oldest message.     *)
(* MessageQueue, the ring buffer of src/src/kernel/message.c, is checked  *)
(* to implement this specification.                                        *)
(***************************************************************************)
EXTENDS Naturals, Sequences

CONSTANTS Procs, Msgs, Cap

VARIABLE queue

Init == queue = [p \in Procs |-> <<>>]

Enqueue(p, m) ==
    /\ Len(queue[p]) < Cap
    /\ queue' = [queue EXCEPT ![p] = Append(@, m)]

Dequeue(p) ==
    /\ queue[p] # <<>>
    /\ queue' = [queue EXCEPT ![p] = Tail(@)]

Next == \E p \in Procs : Dequeue(p) \/ \E m \in Msgs : Enqueue(p, m)

Spec == Init /\ [][Next]_queue
=============================================================================
