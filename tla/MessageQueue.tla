---------------------------- MODULE MessageQueue ----------------------------
(***************************************************************************)
(* One struct queue of src/src/queue.c: the growing ring buffer of a       *)
(* service's messages, its scheduling flag `global', its overload alarm    *)
(* and its two-step destruction (queue_mark_free, then queue_free).        *)
(*                                                                         *)
(* Every function of queue.c runs under the queue's spinlock, so each is   *)
(* one action.  What the callers in pixel.c contribute is the environment: *)
(*   live   the service's handle is still registered; queue_push and       *)
(*          queue_pop are only reached through a successful handle_grab;   *)
(*   held   how many threads have the queue in hand (the launcher in       *)
(*          pixel_new, then the worker that popped it from the list);      *)
(*   inQ    how many times the queue is linked into the global list Q.     *)
(* Actor.tla models those callers and checks that they keep to this.       *)
(***************************************************************************)
EXTENDS Integers, Sequences

CONSTANTS
    Msg,             \* the messages
    NoMsg,           \* the content of a zero-filled slot
    QUEUE_SIZE,      \* initial capacity (64 in the code)
    QUEUE_OVERLOAD,  \* initial alarm threshold (1024 in the code)
    MaxLen           \* bound: queue_push is not taken beyond this length

ASSUME QueueAssumption ==
    /\ QUEUE_SIZE \in Nat \ {0}
    /\ QUEUE_OVERLOAD \in Nat \ {0}
    /\ MaxLen \in Nat
    /\ NoMsg \notin Msg

VARIABLES
    cap, head, tail, mqueue,       \* the ring
    global, release,               \* the scheduling and destruction flags
    overload, overload_threshold,  \* the alarm
    live, held, inQ, freed,        \* see above; freed: the memory is returned
    m                              \* the message the last queue_pop returned

ring  == <<cap, head, tail, mqueue>>
alarm == <<overload, overload_threshold>>
vars  == <<cap, head, tail, mqueue, global, release, overload,
           overload_threshold, live, held, inQ, freed, m>>

-----------------------------------------------------------------------------
\* queue_len
Length == IF head <= tail THEN tail - head ELSE tail + cap - head

\* ++i, back to 0 at the end of the ring
Step(i) == IF i + 1 >= cap THEN 0 ELSE i + 1

\* The i-th oldest message sits i slots after head.
Slot(i) == (head + i) % cap

Init ==
    /\ cap = QUEUE_SIZE /\ head = 0 /\ tail = 0
    /\ mqueue = [i \in 0 .. QUEUE_SIZE - 1 |-> NoMsg]
    /\ global = 1 /\ release = 0
    /\ overload = 0 /\ overload_threshold = QUEUE_OVERLOAD
    /\ live = TRUE /\ held = 1 /\ inQ = 0 /\ freed = FALSE
    /\ m = NoMsg

\* Mutant of Expanded: copies from slot 0 instead of from head.
Expanded_unrotated(mq) ==
    [i \in 0 .. 2 * cap - 1 |-> IF i < cap THEN mq[i] ELSE NoMsg]

\* _queue_expand: the ring mq, full, is unrolled into one of twice its size.
Expanded(mq) ==
    [i \in 0 .. 2 * cap - 1 |-> IF i < cap THEN mq[Slot(i)] ELSE NoMsg]

Push(x) ==
    LET mq == [mqueue EXCEPT ![tail] = x]
    IN  IF head = Step(tail)
        THEN /\ mqueue' = Expanded(mq)
             /\ head' = 0 /\ tail' = cap /\ cap' = 2 * cap
        ELSE /\ mqueue' = mq
             /\ tail' = Step(tail)
             /\ UNCHANGED <<cap, head>>

\* Mutant of queue_push: schedules the queue and forgets to note it.
queue_push_unnoted(x) ==
    /\ live /\ Length < MaxLen
    /\ Push(x)
    /\ inQ' = IF global = 0 THEN inQ + 1 ELSE inQ
    /\ UNCHANGED <<global, release, overload, overload_threshold, live, held, freed, m>>

queue_push(x) ==
    /\ live /\ Length < MaxLen
    /\ Push(x)
    /\ global' = 1
    /\ inQ' = IF global = 0 THEN inQ + 1 ELSE inQ
    /\ UNCHANGED <<release, overload, overload_threshold, live, held, freed, m>>

\* while (len > overload_threshold) the alarm is raised and the threshold
\* doubled: the first doubling that is not below len.
Doubled(len, threshold) ==
    LET k == CHOOSE i \in 0 .. len :
                /\ len <= threshold * 2^i
                /\ \A j \in 0 .. i - 1 : len > threshold * 2^j
    IN  threshold * 2^k

queue_pop_message ==
    /\ live /\ held > 0 /\ head # tail
    /\ m' = mqueue[head]
    /\ head' = Step(head)
    /\ overload' = IF Length - 1 > overload_threshold
                   THEN Length - 1 ELSE overload
    /\ overload_threshold' = Doubled(Length - 1, overload_threshold)
    /\ UNCHANGED <<cap, tail, mqueue, global, release, live, held, inQ, freed>>

\* The empty queue is left to the next queue_push; its thread drops it.
queue_pop_empty ==
    /\ live /\ held > 0 /\ head = tail
    /\ overload_threshold' = QUEUE_OVERLOAD
    /\ global' = 0
    /\ held' = held - 1
    /\ UNCHANGED <<cap, head, tail, mqueue, release, overload, live, inQ, freed, m>>

\* pixel_dispatch reports a pending alarm after a pop and clears it.
queue_overload ==
    /\ live /\ held > 0 /\ overload # 0
    /\ overload' = 0
    /\ UNCHANGED <<cap, head, tail, mqueue, global, release,
                   overload_threshold, live, held, inQ, freed, m>>

\* A thread takes the queue from the global list, or links it back.
queue_pop_global ==
    /\ inQ > 0
    /\ inQ' = inQ - 1 /\ held' = held + 1
    /\ UNCHANGED <<ring, alarm, global, release, live, freed, m>>

queue_push_global ==
    /\ held > 0
    /\ inQ' = inQ + 1 /\ held' = held - 1
    /\ UNCHANGED <<ring, alarm, global, release, live, freed, m>>

\* handle_remove: from here on handle_grab fails.
handle_remove ==
    /\ live
    /\ live' = FALSE
    /\ UNCHANGED <<ring, alarm, global, release, held, inQ, freed, m>>

\* Mutant of queue_mark_free: a parked queue is marked and left parked.
queue_mark_free_parked ==
    /\ ~live /\ release = 0
    /\ release' = 1
    /\ UNCHANGED <<ring, alarm, global, live, held, inQ, freed, m>>

queue_mark_free ==
    /\ ~live /\ release = 0
    /\ release' = 1
    /\ inQ' = IF global = 0 THEN inQ + 1 ELSE inQ
    /\ UNCHANGED <<ring, alarm, global, live, held, freed, m>>

\* Mutant of queue_free: the messages left in the queue are not dropped.
queue_free_undrained ==
    /\ ~live /\ held > 0
    /\ held' = held - 1
    /\ IF release = 1 THEN freed' = TRUE /\ UNCHANGED inQ
       ELSE inQ' = inQ + 1 /\ UNCHANGED freed
    /\ UNCHANGED <<ring, alarm, global, release, live, m>>

\* The holder found the handle gone.  A marked queue is drained by
\* _queue_drop, whose last queue_pop also resets the flags, and freed; an
\* unmarked one goes back to the list to be tried again.
queue_free ==
    /\ ~live /\ held > 0
    /\ held' = held - 1
    /\ IF release = 1
       THEN /\ head' = tail /\ global' = 0 /\ freed' = TRUE
            /\ overload_threshold' = QUEUE_OVERLOAD
            /\ UNCHANGED inQ
       ELSE /\ inQ' = inQ + 1
            /\ UNCHANGED <<head, global, freed, overload_threshold>>
    /\ UNCHANGED <<cap, tail, mqueue, release, overload, live, m>>

Next ==
    \/ \E x \in Msg : queue_push(x)
    \/ queue_pop_message \/ queue_pop_empty \/ queue_overload
    \/ queue_pop_global \/ queue_push_global
    \/ handle_remove \/ queue_mark_free \/ queue_free

Spec == Init /\ [][Next]_vars

-----------------------------------------------------------------------------
(* Properties *)

\* The ring stays within its allocation, head and tail stay inside it.
RingOK ==
    /\ cap \in Nat \ {0} /\ head \in 0 .. cap - 1 /\ tail \in 0 .. cap - 1
    /\ mqueue \in [0 .. cap - 1 -> Msg \cup {NoMsg}]

\* Types of the flags and counters of struct queue.
TypeOK ==
    /\ RingOK
    /\ global \in {0, 1} /\ release \in {0, 1}
    /\ overload \in Nat /\ overload_threshold \in Nat
    /\ live \in BOOLEAN /\ freed \in BOOLEAN
    /\ held \in Nat /\ inQ \in Nat /\ m \in Msg \cup {NoMsg}

Tokens == inQ + held

\* The queue is in the global list at most once and never both there and in
\* a thread's hands: linking it twice would cut the list (next is
\* overwritten), and two holders would run one service on two threads.
ScheduledOnce == Tokens <= 1

\* No lost wake-up: a queue that still has messages, or that waits to be
\* freed, is in the list or in some thread's hands - pushing is the only
\* thing that reschedules it, and only the push that finds global = 0 does.
NoStranded ==
    /\ ~freed /\ Length > 0 => Tokens = 1
    /\ ~freed /\ release = 1 => Tokens = 1

\* queue_free returns the memory only when nothing refers to the queue any
\* more and every message left in it was dropped.
FreedIsUnreachable == freed => ~live /\ Tokens = 0 /\ head = tail

-----------------------------------------------------------------------------
(* The mailbox this queue implements *)

inbox == [i \in 1 .. Length |-> mqueue[Slot(i - 1)]]

token == IF held > 0 THEN "held" ELSE IF inQ > 0 THEN "queued" ELSE "off"

\* The ring is a FIFO: whatever the growth and the wrap-around, a pop
\* returns the oldest message not yet popped, and the token moves as the
\* mailbox says.
Abstract == INSTANCE Mailbox WITH
    inbox <- inbox, out <- m, token <- token, open <- live, gone <- freed

MailboxSpec == Abstract!Spec
=============================================================================
