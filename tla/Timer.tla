-------------------------------- MODULE Timer --------------------------------
(***************************************************************************)
(* The hierarchical timing wheel of src/src/timer.c.  The wheel has NEAR   *)
(* slots for the coming ticks and LEVELS rings of LEVEL slots for later    *)
(* ones; T.time counts ticks modulo W, the value the rings just cover      *)
(* (in the code 256, 4, 64 and 2^32).                                      *)
(*                                                                         *)
(* One thread runs timer_update; any thread may call timer_timeout while   *)
(* the spinlock is free, also while expired nodes are being dispatched.    *)
(***************************************************************************)
EXTENDS Integers, Sequences, Functions

CONSTANTS
    NEAR, LEVEL, LEVELS,
    Node        \* bound: the timer nodes that can be pending together

ASSUME TimerAssumption ==
    /\ NEAR \in Nat /\ LEVEL \in Nat /\ LEVELS \in Nat
    /\ NEAR > 1 /\ LEVEL > 1 /\ LEVELS > 1

VARIABLES
    time,       \* T.time
    wheel,      \* T.near and T.t: the list of nodes of each slot
    expire,     \* node->expire
    phase,      \* where the timer thread is in _timer_update
    taken,      \* the list it has taken off the wheel, to dispatch or to move
    left,       \* ghost: ticks until the node is due; -1 for a free node, W
                \* for one whose timeout was negative
    before      \* ghost: <<m, n>> if both are pending and m was asked for first

timerVars == <<time, wheel, expire, phase, taken, left, before>>

Levels == 0 .. LEVELS - 1

\* Ticks covered by one slot of ring i, and by all of them: uint32_t
\* arithmetic is modulo W.
Width[i \in 0 .. LEVELS] == IF i = 0 THEN NEAR ELSE LEVEL * Width[i - 1]
W == Width[LEVELS]

\* A slot is <<ring, index>>; T.near is ring -1.
Near == -1
Slots == ({Near} \X (0 .. NEAR - 1)) \cup (Levels \X (0 .. LEVEL - 1))

TimerInit ==
    /\ time = 0
    /\ wheel = [s \in Slots |-> <<>>]
    /\ expire = [n \in Node |-> 0]
    /\ phase = "idle" /\ taken = <<>>
    /\ left = [n \in Node |-> -1] /\ before = {}

-----------------------------------------------------------------------------
\* _timer_add_node: the near list if e and now agree above the near bits,
\* otherwise the first ring above whose slots they agree, or the last ring.
Ring(e, now) ==
    CHOOSE i \in Levels :
        /\ i = LEVELS - 1 \/ e \div Width[i + 1] = now \div Width[i + 1]
        /\ \A k \in 0 .. i - 1 : e \div Width[k + 1] # now \div Width[k + 1]

Slot(e, now) ==
    IF e \div NEAR = now \div NEAR THEN <<Near, e % NEAR>>
    ELSE LET i == Ring(e, now) IN <<i, (e \div Width[i]) % LEVEL>>

\* link: at the end of the list.
link_front(s, n) == wheel' = [wheel EXCEPT ![s] = <<n>> \o @]     \* mutant

link(s, n) == wheel' = [wheel EXCEPT ![s] = Append(@, n)]

\* link_clear: the timer thread takes the whole list.
link_clear_keeps(s) == taken' = wheel[s] /\ UNCHANGED wheel       \* mutant

link_clear(s) == taken' = wheel[s] /\ wheel' = [wheel EXCEPT ![s] = <<>>]

-----------------------------------------------------------------------------
Pending == {n \in Node : left[n] # -1}

\* timer_timeout(ti): the lock is free between two updates and during the
\* dispatch of expired nodes.
timer_timeout(n, ti) ==
    LET e == (time + ti) % W IN
    /\ phase \in {"idle", "dispatch", "redispatch"}
    /\ n \notin Pending
    /\ expire' = [expire EXCEPT ![n] = e]
    /\ link(Slot(e, time), n)
    /\ left' = [left EXCEPT ![n] = IF ti < 0 THEN W ELSE ti]
    /\ before' = before \cup (Pending \X {n})
    /\ UNCHANGED <<time, phase, taken>>

\* timer_update found the clock advanced: one _timer_update begins.
_timer_update ==
    /\ phase = "idle" /\ phase' = "execute"
    /\ UNCHANGED <<time, wheel, expire, taken, left, before>>

\* _timer_execute, before and after the shift: while the current near list
\* is not empty, take it off, unlock and dispatch it.
_timer_execute(here, dispatching, done) ==
    LET s == <<Near, time % NEAR>> IN
    /\ phase = here
    /\ \/ wheel[s] # <<>> /\ link_clear(s) /\ phase' = dispatching
       \/ wheel[s] = <<>> /\ phase' = done /\ UNCHANGED <<wheel, taken>>
    /\ UNCHANGED <<time, expire, left, before>>

\* _timer_dispatch: one node is handed to pixel_timer_dispatch and freed.
_timer_dispatch(here, back) ==
    LET n == Head(taken) IN
    /\ phase = here
    /\ \/ /\ taken # <<>> /\ taken' = Tail(taken) /\ UNCHANGED phase
          /\ left' = [left EXCEPT ![n] = -1]
          /\ before' = {b \in before : b[1] # n /\ b[2] # n}
       \/ taken = <<>> /\ phase' = back /\ UNCHANGED <<taken, left, before>>
    /\ UNCHANGED <<time, wheel, expire>>

\* The slot that _timer_shift spreads over the wheel below it when the low
\* bits of the new tick are zero: in the first ring with a nonzero index
\* there, or slot 0 of the last ring when T.time has wrapped around.
Index(i, now) == (now \div Width[i]) % LEVEL

Due(now) ==
    IF now = 0 THEN <<LEVELS - 1, 0>>
    ELSE LET i == CHOOSE i \in Levels :
                      Index(i, now) # 0 /\ \A k \in 0 .. i - 1 : Index(k, now) = 0
         IN  <<i, Index(i, now)>>

\* _timer_shift: the next tick.
_timer_shift ==
    LET now == (time + 1) % W IN
    /\ phase = "shift" /\ time' = now
    /\ \/ now % NEAR # 0 /\ phase' = "reexecute" /\ UNCHANGED <<wheel, taken>>
       \/ now % NEAR = 0 /\ phase' = "move" /\ link_clear(Due(now))
    /\ left' = [n \in Node |-> IF left[n] \in {-1, W} THEN left[n] ELSE left[n] - 1]
    /\ UNCHANGED <<expire, before>>

\* _timer_move_list: a node of the list that was taken is added again, by the
\* new time.  The lock is held.
_timer_move_list_stale ==           \* mutant: by the old time
    LET n == Head(taken) IN
    /\ phase = "move"
    /\ \/ /\ taken # <<>> /\ taken' = Tail(taken)
          /\ link(Slot(expire[n], time - 1), n) /\ UNCHANGED phase
       \/ taken = <<>> /\ phase' = "reexecute" /\ UNCHANGED <<wheel, taken>>
    /\ UNCHANGED <<time, expire, left, before>>

_timer_move_list ==
    LET n == Head(taken) IN
    /\ phase = "move"
    /\ \/ /\ taken # <<>> /\ taken' = Tail(taken)
          /\ link(Slot(expire[n], time), n) /\ UNCHANGED phase
       \/ taken = <<>> /\ phase' = "reexecute" /\ UNCHANGED <<wheel, taken>>
    /\ UNCHANGED <<time, expire, left, before>>

TimerThread ==
    \/ _timer_update
    \/ _timer_execute("execute", "dispatch", "shift")
    \/ _timer_dispatch("dispatch", "execute")
    \/ _timer_shift
    \/ _timer_move_list
    \/ _timer_execute("reexecute", "redispatch", "idle")
    \/ _timer_dispatch("redispatch", "reexecute")

\* `time' is an int: negative values reach here through atoi in _cmd_timeout.
\* That caller answers 0 by itself, but 0 is a legal argument: the first
\* _timer_execute of _timer_update is there for it.
TimerNext ==
    \/ TimerThread
    \/ \E n \in Node, ti \in -(W \div 2) .. W \div 2 - 1 : timer_timeout(n, ti)

TimerSpec == TimerInit /\ [][TimerNext]_timerVars

-----------------------------------------------------------------------------
(* Properties *)

\* Types of the wheel and of the ghost variables; ticks in range.
WheelTypeOK ==
    /\ time \in 0 .. W - 1 /\ expire \in [Node -> 0 .. W - 1]
    /\ wheel \in [Slots -> Seq(Node)] /\ taken \in Seq(Node)
    /\ left \in [Node -> -1 .. W] /\ before \subseteq Pending \X Pending

\* The wheel never fires a node before its tick - neither the shift, nor the
\* cascade of a ring, nor the wrap-around of T.time brings one forward - and
\* never passes the tick with a node left over, even one that was added for
\* this very tick while the lock was free.  (A negative timeout is promised
\* nothing: its unsigned expiry lies behind T.time, in a slot that may come
\* up early or never.)
ExactTick ==
    /\ phase \in {"dispatch", "redispatch"} => \A n \in Range(taken) : left[n] \in {0, W}
    /\ phase = "shift" => \A n \in Pending : left[n] > 0

\* No node is lost or linked twice: a pending node is in one list, once, also
\* one with a negative timeout (timer.c:214), and a node that was freed is in
\* none.
NodeOnce ==
    /\ WheelTypeOK
    /\ \A n \in Node : n \in Pending <=> (\E s \in Slots : n \in Range(wheel[s])) \/ n \in Range(taken)
    /\ \A s \in Slots :
          /\ IsInjective(wheel[s]) /\ Range(wheel[s]) \cap Range(taken) = {}
          /\ \A r \in Slots \ {s} : Range(wheel[s]) \cap Range(wheel[r]) = {}
    /\ IsInjective(taken)

\* Timeouts due at the same tick fire in the order in which they were asked
\* for, however many rings each has come down through.
FiresInOrder ==
    [][\A n \in Pending : left[n] # W /\ left'[n] = -1 =>
          \A m \in Node : <<m, n>> \in before => left[m] > 0]_timerVars
=============================================================================
