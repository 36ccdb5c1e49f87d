----------------------------- MODULE Processes -----------------------------
(***************************************************************************)
(* Processes of the cooperative kernel: the per-process message queue of   *)
(* src/src/kernel/message.c (queue_message, receive_message), the process  *)
(* messages FORK and WAIT of send_message, and the two suspension points   *)
(* they share with the scheduler (spec.md 5: a blocking receive and a     *)
(* WAIT with no zombie child).                                             *)
(*                                                                         *)
(* Only the RUNNING process (current) executes.  Each action is one call   *)
(* the current process makes, run to completion, or the rest of a call    *)
(* that had suspended in schedule().  The process table, create_process,   *)
(* exit_process and schedule() live in process.c, which is not part of the *)
(* source tree; they are modelled from spec.md 4.5.                        *)
(***************************************************************************)
EXTENDS Integers, Sequences, FiniteSets

CONSTANTS
    Procs,          \* process table slots
    INIT_PROC,      \* the process kernel_main creates (kernel.c line 71)
    MAX_MESSAGES,   \* ring size, message.h: MAX_MESSAGES
    MaxCalls,       \* bound on the calls one program makes before it exits
    Statuses,       \* exit statuses the programs pass to exit_process
    NoProc,         \* current = NoProc: nothing is runnable; no parent
    NoMsg,          \* content of a slot never written
    NoRet           \* ret or status of a call not made yet

ASSUME INIT_PROC \in Procs /\ NoProc \notin Procs /\ MAX_MESSAGES \in Nat \ {0}

\* A message is named by its sender and the sender's call count.
Msgs == Procs \X (1 .. MaxCalls)

\* msg->flags of a receive: 0, or MSG_NONBLOCK
Flags == {"0", "MSG_NONBLOCK"}

States == {"UNUSED", "READY", "RUNNING", "BLOCKED", "ZOMBIE"}

VARIABLES
    messages,     \* messages[p][i]: p's queue->messages[i]
    head,         \* queue->head
    tail,         \* queue->tail
    count,        \* queue->count
    msg_blocked,  \* proc->msg_blocked
    state,        \* proc->state; UNUSED: a free table slot
    parent,       \* proc->parent_pid
    exit_status,  \* proc->exit_status
    current,      \* get_current_process()
    pc,           \* "user", or suspended in schedule(): "recv_sched", "wait_sched"
    calls,        \* calls the process's program has made
    ret,          \* return value of the process's last call
    status,       \* msg->status of the process's last WAIT
    reports       \* times a WAIT has returned each process's exit status

vars == <<messages, head, tail, count, msg_blocked, state, parent, exit_status,
          current, pc, calls, ret, status, reports>>

qvars == <<messages, head, tail, count, msg_blocked>>
pvars == <<state, parent, exit_status, reports>>

Slots == 0 .. MAX_MESSAGES - 1

TypeOK ==
    /\ messages \in [Procs -> [Slots -> Msgs \cup {NoMsg}]]
    /\ head \in [Procs -> Slots] /\ tail \in [Procs -> Slots]
    /\ count \in [Procs -> 0 .. MAX_MESSAGES]
    /\ msg_blocked \in [Procs -> {0, 1}]
    /\ state \in [Procs -> States]
    /\ parent \in [Procs -> Procs \cup {NoProc}]
    /\ exit_status \in [Procs -> Statuses \cup {NoRet}]
    /\ current \in Procs \cup {NoProc}
    /\ pc \in [Procs -> {"user", "recv_sched", "wait_sched"}]
    /\ calls \in [Procs -> 0 .. MaxCalls]
    /\ ret \in [Procs -> {NoRet, 0, -1}]
    /\ status \in [Procs -> Statuses \cup {NoRet}]
    /\ reports \in [Procs -> Nat]

Init ==
    /\ messages = [p \in Procs |-> [i \in Slots |-> NoMsg]]
    /\ head = [p \in Procs |-> 0] /\ tail = [p \in Procs |-> 0]
    /\ count = [p \in Procs |-> 0] /\ msg_blocked = [p \in Procs |-> 0]
    /\ state = [p \in Procs |-> IF p = INIT_PROC THEN "RUNNING" ELSE "UNUSED"]
    /\ parent = [p \in Procs |-> NoProc]
    /\ exit_status = [p \in Procs |-> NoRet]
    /\ current = INIT_PROC
    /\ pc = [p \in Procs |-> "user"]
    /\ calls = [p \in Procs |-> 0]
    /\ ret = [p \in Procs |-> NoRet]
    /\ status = [p \in Procs |-> NoRet]
    /\ reports = [p \in Procs |-> 0]

\* The queue's contents, oldest first.
Contents(p) ==
    [i \in 1 .. count[p] |-> messages[p][(head[p] + i - 1) % MAX_MESSAGES]]

\* The current process is running its program and may make another call.
Calling(c) == c # NoProc /\ pc[c] = "user" /\ calls[c] < MaxCalls

ZombieChildren(c) == {z \in Procs : parent[z] = c /\ state[z] = "ZOMBIE"}

(***************************************************************************)
(* schedule(), process.c (spec.md 4.5): a caller still RUNNING becomes     *)
(* READY; some READY process not waiting for a message becomes RUNNING.    *)
(* With none, nothing runs again.  st is the state the caller has left.    *)
(***************************************************************************)
Runnable(st, blocked) == {q \in Procs : st[q] = "READY" /\ blocked[q] = 0}

\* Mutant of schedule: the caller is not made READY when it yields.
schedule_no_yield(st, blocked, c) ==
    IF Runnable(st, blocked) = {}
       THEN current' = NoProc /\ state' = st
       ELSE \E q \in Runnable(st, blocked) :
                current' = q /\ state' = [st EXCEPT ![q] = "RUNNING"]

schedule(st, blocked, c) ==
    LET st1 == IF st[c] = "RUNNING" THEN [st EXCEPT ![c] = "READY"] ELSE st IN
    IF Runnable(st1, blocked) = {}
       THEN current' = NoProc /\ state' = st1
       ELSE \E q \in Runnable(st1, blocked) :
                current' = q /\ state' = [st1 EXCEPT ![q] = "RUNNING"]

(***************************************************************************)
(* queue_message(proc, msg), message.c lines 8-26: the current process    *)
(* queues a new message for process q.                                     *)
(***************************************************************************)
\* Mutant of queue_message: the receiver's msg_blocked flag is left set.
queue_message_no_wake(q) ==
    LET c == current IN
    /\ Calling(c) /\ state[q] # "UNUSED"
    /\ calls' = [calls EXCEPT ![c] = @ + 1]
    /\ IF count[q] >= MAX_MESSAGES
          THEN /\ ret' = [ret EXCEPT ![c] = -1]
               /\ UNCHANGED <<messages, tail, count, msg_blocked>>
          ELSE /\ messages' = [messages EXCEPT ![q][tail[q]] = <<c, calls[c] + 1>>]
               /\ tail' = [tail EXCEPT ![q] = (@ + 1) % MAX_MESSAGES]
               /\ count' = [count EXCEPT ![q] = @ + 1]
               /\ ret' = [ret EXCEPT ![c] = 0]
               /\ UNCHANGED msg_blocked
    /\ UNCHANGED <<head, current, pc, status>> /\ UNCHANGED pvars

\* Mutant of queue_message: the full-queue test is missing.
queue_message_no_full_check(q) ==
    LET c == current IN
    /\ Calling(c) /\ state[q] # "UNUSED"
    /\ calls' = [calls EXCEPT ![c] = @ + 1]
    /\ messages' = [messages EXCEPT ![q][tail[q]] = <<c, calls[c] + 1>>]
    /\ tail' = [tail EXCEPT ![q] = (@ + 1) % MAX_MESSAGES]
    /\ count' = [count EXCEPT ![q] = @ + 1]
    /\ msg_blocked' = [msg_blocked EXCEPT ![q] = 0]
    /\ ret' = [ret EXCEPT ![c] = 0]
    /\ UNCHANGED <<head, current, pc, status>> /\ UNCHANGED pvars

queue_message(q) ==
    LET c == current IN
    /\ Calling(c) /\ state[q] # "UNUSED"
    /\ calls' = [calls EXCEPT ![c] = @ + 1]
    /\ IF count[q] >= MAX_MESSAGES
          THEN /\ ret' = [ret EXCEPT ![c] = -1]
               /\ UNCHANGED <<messages, tail, count, msg_blocked>>
          ELSE /\ messages' = [messages EXCEPT ![q][tail[q]] = <<c, calls[c] + 1>>]
               /\ tail' = [tail EXCEPT ![q] = (@ + 1) % MAX_MESSAGES]
               /\ count' = [count EXCEPT ![q] = @ + 1]
               /\ msg_blocked' = [msg_blocked EXCEPT ![q] = 0]
               /\ ret' = [ret EXCEPT ![c] = 0]
    /\ UNCHANGED <<head, current, pc, status>> /\ UNCHANGED pvars

(***************************************************************************)
(* receive_message(msg), message.c lines 379-399.                          *)
(***************************************************************************)
\* Mutant of receive_dequeue: queue->head is not advanced.
receive_dequeue_keep_head ==
    LET c == current IN
    /\ Calling(c) /\ count[c] # 0
    /\ calls' = [calls EXCEPT ![c] = @ + 1]
    /\ count' = [count EXCEPT ![c] = @ - 1]
    /\ ret' = [ret EXCEPT ![c] = 0]
    /\ UNCHANGED <<messages, head, tail, msg_blocked, current, pc, status>>
    /\ UNCHANGED pvars

\* A message is waiting: copy it out of the head slot.
receive_dequeue ==
    LET c == current IN
    /\ Calling(c) /\ count[c] # 0
    /\ calls' = [calls EXCEPT ![c] = @ + 1]
    /\ head' = [head EXCEPT ![c] = (@ + 1) % MAX_MESSAGES]
    /\ count' = [count EXCEPT ![c] = @ - 1]
    /\ ret' = [ret EXCEPT ![c] = 0]
    /\ UNCHANGED <<messages, tail, msg_blocked, current, pc, status>>
    /\ UNCHANGED pvars

\* Empty queue and MSG_NONBLOCK set: return -1 at once.
receive_empty_nonblock ==
    LET c == current IN
    /\ Calling(c) /\ count[c] = 0
    /\ calls' = [calls EXCEPT ![c] = @ + 1]
    /\ ret' = [ret EXCEPT ![c] = -1]
    /\ UNCHANGED <<messages, head, tail, count, msg_blocked, current, pc, status>>
    /\ UNCHANGED pvars

\* Empty queue, blocking receive: set msg_blocked and call schedule().
receive_block ==
    LET c == current IN
    /\ Calling(c) /\ count[c] = 0
    /\ calls' = [calls EXCEPT ![c] = @ + 1]
    /\ msg_blocked' = [msg_blocked EXCEPT ![c] = 1]
    /\ pc' = [pc EXCEPT ![c] = "recv_sched"]
    /\ schedule(state, msg_blocked', c)
    /\ UNCHANGED <<messages, head, tail, count, ret, status>>
    /\ UNCHANGED <<parent, exit_status, reports>>

\* schedule() has returned to the blocked receiver: return -1.
receive_resume ==
    LET c == current IN
    /\ c # NoProc /\ pc[c] = "recv_sched"
    /\ pc' = [pc EXCEPT ![c] = "user"]
    /\ ret' = [ret EXCEPT ![c] = -1]
    /\ UNCHANGED <<calls, current, status>> /\ UNCHANGED qvars /\ UNCHANGED pvars

receive_message(flags) ==
    \/ receive_dequeue
    \/ flags = "MSG_NONBLOCK" /\ receive_empty_nonblock
    \/ flags = "0" /\ receive_block

(***************************************************************************)
(* MSG_FORK, message.c lines 48-62.  create_process (spec.md 4.5) takes a *)
(* free table slot, makes it a READY child of the caller that continues   *)
(* the caller's program with an empty queue; FORK returns 0 to the caller *)
(* whether or not it is the child (lines 56-61), -1 with no free slot.    *)
(***************************************************************************)
create_process(c, q) ==
    /\ state' = [state EXCEPT ![q] = "READY"]
    /\ parent' = [parent EXCEPT ![q] = c]
    /\ calls' = [calls EXCEPT ![c] = @ + 1, ![q] = calls[c] + 1]
    /\ messages' = [messages EXCEPT ![q] = [i \in Slots |-> NoMsg]]
    /\ head' = [head EXCEPT ![q] = 0] /\ tail' = [tail EXCEPT ![q] = 0]
    /\ count' = [count EXCEPT ![q] = 0]
    /\ msg_blocked' = [msg_blocked EXCEPT ![q] = 0]
    /\ ret' = [ret EXCEPT ![c] = 0, ![q] = 0]

MSG_FORK ==
    LET c == current IN
    /\ Calling(c)
    /\ IF \E q \in Procs : state[q] = "UNUSED"
          THEN \E q \in {r \in Procs : state[r] = "UNUSED"} : create_process(c, q)
          ELSE /\ calls' = [calls EXCEPT ![c] = @ + 1]
               /\ ret' = [ret EXCEPT ![c] = -1]
               /\ UNCHANGED <<qvars, state, parent>>
    /\ UNCHANGED <<exit_status, current, pc, status, reports>>

(***************************************************************************)
(* MSG_WAIT, message.c lines 66-103.                                       *)
(***************************************************************************)
\* Report zombie child z's exit status to its parent c (msg->status).
Report(c, z) ==
    /\ status' = [status EXCEPT ![c] = exit_status[z]]
    /\ ret' = [ret EXCEPT ![c] = 0]
    /\ reports' = [reports EXCEPT ![z] = @ + 1]

\* Mutant of MSG_WAIT: the caller blocks without the first zombie scan.
MSG_WAIT_no_scan ==
    LET c == current IN
    /\ Calling(c)
    /\ calls' = [calls EXCEPT ![c] = @ + 1]
    /\ pc' = [pc EXCEPT ![c] = "wait_sched"]
    /\ schedule([state EXCEPT ![c] = "BLOCKED"], msg_blocked, c)
    /\ UNCHANGED <<qvars, parent, exit_status, ret, status, reports>>

\* Lines 73-83 find a zombie child and return 0 without reaping it; else
\* lines 86-87 block the caller and call schedule().
MSG_WAIT ==
    LET c == current IN
    /\ Calling(c)
    /\ calls' = [calls EXCEPT ![c] = @ + 1]
    /\ IF ZombieChildren(c) # {}
          THEN /\ \E z \in ZombieChildren(c) : Report(c, z)
               /\ UNCHANGED <<qvars, state, parent, exit_status, current, pc>>
          ELSE /\ pc' = [pc EXCEPT ![c] = "wait_sched"]
               /\ schedule([state EXCEPT ![c] = "BLOCKED"], msg_blocked, c)
               /\ UNCHANGED <<qvars, parent, exit_status, ret, status, reports>>

\* Lines 90-102: schedule() has returned to the waiter; scan again.
wait_resume ==
    LET c == current IN
    /\ c # NoProc /\ pc[c] = "wait_sched"
    /\ pc' = [pc EXCEPT ![c] = "user"]
    /\ IF ZombieChildren(c) # {}
          THEN \E z \in ZombieChildren(c) : Report(c, z)
          ELSE /\ ret' = [ret EXCEPT ![c] = -1]
               /\ UNCHANGED <<status, reports>>
    /\ UNCHANGED <<qvars, state, parent, exit_status, current, calls>>

\* MSG_PIPE, lines 104-108: returns 0 and changes nothing.
MSG_PIPE ==
    LET c == current IN
    /\ Calling(c)
    /\ calls' = [calls EXCEPT ![c] = @ + 1]
    /\ ret' = [ret EXCEPT ![c] = 0]
    /\ UNCHANGED <<qvars, current, pc, status>> /\ UNCHANGED pvars

(***************************************************************************)
(* exit_process(s), process.c (spec.md 4.5): the current process becomes  *)
(* ZOMBIE with exit status s, a parent BLOCKED in WAIT becomes READY, and *)
(* schedule() runs another process.                                       *)
(***************************************************************************)
exit_process(s) ==
    LET c == current
        p == parent[c]
        st1 == [state EXCEPT ![c] = "ZOMBIE"]
        st2 == IF p # NoProc /\ st1[p] = "BLOCKED"
                  THEN [st1 EXCEPT ![p] = "READY"] ELSE st1
    IN /\ c # NoProc /\ pc[c] = "user"
       /\ exit_status' = [exit_status EXCEPT ![c] = s]
       /\ schedule(st2, msg_blocked, c)
       /\ UNCHANGED <<qvars, parent, pc, calls, ret, status, reports>>

Next ==
    \/ \E q \in Procs : queue_message(q)
    \/ \E f \in Flags : receive_message(f)
    \/ receive_resume
    \/ MSG_FORK
    \/ MSG_WAIT
    \/ wait_resume
    \/ MSG_PIPE
    \/ \E s \in Statuses : exit_process(s)

Spec == Init /\ [][Next]_vars

-----------------------------------------------------------------------------
(***************************************************************************)
(* Properties.                                                              *)
(***************************************************************************)
Fifo == INSTANCE MsgFifo WITH queue <- [p \in Procs |-> Contents(p)], Cap <- MAX_MESSAGES

(* The ring buffer of queue_message and receive_message implements a      *)
(* bounded FIFO per process (spec.md 3): messages leave in the order they *)
(* were queued, none is lost or duplicated, and a full queue refuses.     *)
QueueRefinement == Fifo!Spec

(* No lost wakeup at either suspension point: a receiver suspended in     *)
(* schedule() whose queue holds a message is no longer msg_blocked        *)
(* (queue_message lines 20-22), and a waiter with a zombie child is no    *)
(* longer BLOCKED (exit_process wakes it).                                *)
NoLostWakeup ==
    \A p \in Procs :
        /\ (pc[p] = "recv_sched" /\ count[p] > 0) => msg_blocked[p] = 0
        /\ (pc[p] = "wait_sched" /\ ZombieChildren(p) # {}) =>
               state[p] \in {"READY", "RUNNING"}

(* The kernel stops for good (schedule() finds nothing READY and current  *)
(* becomes NoProc) only where spec.md 5 lets a process wait forever: every *)
(* process has exited, or is suspended in a blocking receive on an empty  *)
(* queue, or in WAIT with no zombie child (message.c line 86: a childless *)
(* WAIT, or one whose children all wait themselves).  A process left      *)
(* READY, or woken but never picked, would be a deadlock of the code's    *)
(* own making.                                                             *)
StopsOnlyAtWaits ==
    current = NoProc =>
        \A p \in Procs :
            \/ state[p] \in {"UNUSED", "ZOMBIE"}
            \/ pc[p] = "recv_sched" /\ count[p] = 0
            \/ pc[p] = "wait_sched" /\ ZombieChildren(p) = {}

(* spec.md 4.3: a blocking receive returns 0 with the message once one    *)
(* arrives.  receive_message (line 390) returns -1 after schedule()       *)
(* returns, and leaves the message that woke it in the queue.             *)
BlockingReceiveDelivers ==
    [][\A p \in Procs : (pc[p] = "recv_sched" /\ pc'[p] = "user") => ret'[p] = 0]_vars

(* spec.md 8: FORK, the child's exit(s) and the parent's WAIT yield s     *)
(* exactly once, because WAIT reaps the zombie.  MSG_WAIT (lines 73-83)   *)
(* reports it and never reaps, so a second WAIT reports it again.         *)
WaitReportsOnce == \A z \in Procs : reports[z] <= 1
=============================================================================
