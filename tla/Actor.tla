------------------------------- MODULE Actor -------------------------------
(***************************************************************************)
(* The life of services: launch, dispatch, send, KILL, ABORT and           *)
(* destruction, as the threads of the runtime interleave them              *)
(* (src/src/pixel.c over src/src/handle.c and src/src/queue.c).            *)
(*                                                                         *)
(* A step is what runs under one lock: an access to the handle table       *)
(* (H.lock), to a queue (q->lock) or to the global list (Q.lock).  The     *)
(* handle table is seen through one slot per handle (handles are never     *)
(* reused) and a queue through its length and flags; MessageQueue.tla has  *)
(* the ring itself.  The text pixel_log sends to the log service is left   *)
(* out; that it reads the context of the log service is not (Logs).        *)
(***************************************************************************)
EXTENDS Integers, Sequences, FiniteSets

CONSTANTS
    NService,   \* bound: handles 1 .. NService can be allocated
    Worker,     \* the worker threads of start.c
    Ext,        \* threads that only send or probe: timer, socket, monitor
    MaxSend,    \* bounds on the commands services issue
    MaxKill,
    MaxAbort,
    MaxEarly,   \* bound: how often queue_free puts an unmarked queue back
    None        \* no handle, no queue

Service == 1 .. NService
Thread  == Worker \cup Ext
Log     == 1    \* pixel_start launches log first, then the bootstrap service
Boot    == 2

ASSUME ActorAssumption ==
    /\ NService \in Nat /\ NService >= 2
    /\ IsFiniteSet(Worker) /\ IsFiniteSet(Ext) /\ Worker \cap Ext = {}
    /\ None \notin Service
    /\ {MaxSend, MaxKill, MaxAbort, MaxEarly} \subseteq Nat

VARIABLES
    slot,     \* handle table: "none" not yet allocated, "used", "gone"
    ref,      \* slot->ref
    ctx,      \* struct pixel: "none", "raw" (no queue yet), "ready", "freed"
    mem,      \* struct queue: "none", "alloc", "freed"
    len,      \* messages in the queue
    global, release,   \* the flags of struct queue
    Q,        \* the global list of queue.c
    total,    \* G.total
    th,       \* the threads
    known,    \* handles some service may use as a target
    budget,   \* commands left
    crashed,  \* a null pointer was dereferenced
    drops,    \* history: how often a slot's standing references were released
    early,    \* history: decrements of G.total for a queue that was not freed
    orphans   \* history: failed launches whose queue was left behind

handles == <<slot, ref, ctx>>
queues  == <<mem, len, global, release>>
history == <<drops, early, orphans>>
vars    == <<slot, ref, ctx, mem, len, global, release, Q, total, th, known,
             budget, crashed, drops, early, orphans>>

-----------------------------------------------------------------------------
(***************************************************************************)
(* A thread: pc; q, the queue in its hands; nxt, a second one while it     *)
(* swaps; run, the service whose callback it executes; tgt, the handle a   *)
(* subroutine works on; ret, where that subroutine returns; alive, whether *)
(* handle_release returned a context; todo, what handle_exit has left.     *)
(***************************************************************************)
Idle == [pc |-> "idle", q |-> None, nxt |-> None, run |-> None, tgt |-> None,
         ret |-> "idle", alive |-> TRUE, todo |-> {}]

Go(t, to) == th' = [th EXCEPT ![t].pc = to]

\* Labels of pixel_new at which tgt and the result of handle_release count.
InNew == {"n_force", "n_forced", "n_done"}

\* handle_release returns a to its caller.
Return(t, a) ==
    LET j == th[t] IN
    th' = [th EXCEPT ![t] = [j EXCEPT
              !.pc = j.ret, !.ret = "idle",
              !.tgt = IF j.ret \in InNew THEN j.tgt ELSE None,
              !.alive = IF j.ret \in InNew THEN a ELSE TRUE]]

\* Mutants of Schedule: the flag is ignored; the queue is not linked.
Schedule_twice(h) == Q' = Append(Q, h)
Schedule_lost(h)  == h \in Service /\ UNCHANGED Q

\* queue_push_global, when the queue is not already scheduled
Schedule(h) == Q' = IF global[h] = 0 THEN Append(Q, h) ELSE Q

\* pixel_start has launched log (kept by pixel_reserve) and bootstrap.
Init ==
    /\ slot = [h \in Service |-> IF h <= Boot THEN "used" ELSE "none"]
    /\ ref  = [h \in Service |-> IF h = Log THEN 2 ELSE IF h = Boot THEN 1 ELSE 0]
    /\ ctx  = [h \in Service |-> IF h <= Boot THEN "ready" ELSE "none"]
    /\ mem  = [h \in Service |-> IF h <= Boot THEN "alloc" ELSE "none"]
    /\ len  = [h \in Service |-> IF h = Boot THEN 1 ELSE 0]
    /\ global = [h \in Service |-> IF h <= Boot THEN 1 ELSE 0]
    /\ release = [h \in Service |-> 0]
    /\ Q = <<Log, Boot>>
    /\ total = 1
    /\ th = [t \in Thread |-> Idle]
    /\ known = {Log, Boot}
    /\ budget = [send |-> MaxSend, kill |-> MaxKill, abort |-> MaxAbort]
    /\ crashed = FALSE
    /\ drops = [h \in Service |-> 0]
    /\ early = 0
    /\ orphans = {}

-----------------------------------------------------------------------------
(* handle_release and pixel_free *)

\* handle_release_ref(h) by t, whose registers become j and which continues
\* at r.  A handle that is gone stays gone, so the handle_remove that follows
\* finds nothing either.
ReleaseRef(t, j, h, r) ==
    LET used  == slot[h] = "used"
        keeps == r \in InNew
    IN  /\ ref' = IF used THEN [ref EXCEPT ![h] = @ - 1] ELSE ref
        /\ th' = [th EXCEPT ![t] =
              IF used /\ ref[h] <= 1
              THEN [j EXCEPT !.pc = "remove", !.tgt = h, !.ret = r]
              ELSE [j EXCEPT !.pc = r, !.ret = "idle",
                             !.tgt = IF keeps THEN h ELSE None,
                             !.alive = keeps => used]]

\* The release that pairs with this thread's own handle_grab.
handle_release(t) ==
    /\ th[t].pc = "rel"
    /\ ReleaseRef(t, th[t], th[t].tgt, th[t].ret)
    /\ UNCHANGED <<slot, ctx, queues, Q, total, known, budget, crashed, history>>

\* Mutant of handle_remove: the count is not looked at again.
handle_remove_blind(t) ==
    LET h == th[t].tgt IN
    /\ th[t].pc = "remove"
    /\ IF slot[h] = "used"
       THEN slot' = [slot EXCEPT ![h] = "gone"] /\ Go(t, "mark")
       ELSE Return(t, FALSE) /\ UNCHANGED slot
    /\ UNCHANGED <<ref, ctx, queues, Q, total, known, budget, crashed, history>>

\* handle_remove re-examines the count: a grab may have come in between.
handle_remove(t) ==
    LET h == th[t].tgt IN
    /\ th[t].pc = "remove"
    /\ IF slot[h] = "used" /\ ref[h] <= 0
       THEN slot' = [slot EXCEPT ![h] = "gone"] /\ Go(t, "mark")
       ELSE Return(t, FALSE) /\ UNCHANGED slot
    /\ UNCHANGED <<ref, ctx, queues, Q, total, known, budget, crashed, history>>

\* pixel_free, first half: pixel_log, then queue_mark_free(ctx->queue), null in a context
\* that pixel_new registered and has not yet completed.
queue_mark_free(t) ==
    LET h == th[t].tgt IN
    /\ th[t].pc = "mark"
    /\ IF ctx[h] = "raw"
       THEN crashed' = TRUE /\ UNCHANGED <<release, Q, th>>
       ELSE /\ release' = [release EXCEPT ![h] = 1]
            /\ Schedule(h)
            /\ Go(t, "free")
            /\ UNCHANGED crashed
    /\ UNCHANGED <<handles, mem, len, global, total, known, budget, history>>

\* pixel_free, second half: the instance and the context are freed.
free_ctx(t) ==
    /\ th[t].pc = "free"
    /\ ctx' = [ctx EXCEPT ![th[t].tgt] = "freed"]
    /\ Return(t, FALSE)
    /\ UNCHANGED <<slot, ref, queues, Q, total, known, budget, crashed, history>>

\* queue_free(h): freed if marked, otherwise put back for another try.
QueueFree(h) ==
    IF release[h] = 1
    THEN /\ mem' = [mem EXCEPT ![h] = "freed"]
         /\ len' = [len EXCEPT ![h] = 0]
         /\ global' = [global EXCEPT ![h] = 0]
         /\ UNCHANGED <<Q, early>>
    ELSE /\ early < MaxEarly
         /\ Q' = Append(Q, h)
         /\ early' = early + 1
         /\ UNCHANGED <<mem, len, global>>

total_dec(t) ==
    /\ th[t].pc = "dec"
    /\ total' = total - 1
    /\ th' = [th EXCEPT ![t].pc = th[t].ret, ![t].ret = "idle"]
    /\ UNCHANGED <<handles, queues, Q, known, budget, crashed, history>>

-----------------------------------------------------------------------------
(* pixel_dispatch *)

dispatch_pop_global(t) ==
    /\ t \in Worker /\ th[t].pc = "idle" /\ Q # <<>>
    /\ Q' = Tail(Q)
    /\ th' = [th EXCEPT ![t].pc = "grab", ![t].q = Head(Q)]
    /\ UNCHANGED <<handles, queues, total, known, budget, crashed, history>>

dispatch_grab(t) ==
    LET h == th[t].q IN
    /\ th[t].pc = "grab"
    /\ IF slot[h] = "used"
       THEN ref' = [ref EXCEPT ![h] = @ + 1] /\ Go(t, "pop")
       ELSE UNCHANGED ref /\ Go(t, "qfree")
    /\ UNCHANGED <<slot, ctx, queues, Q, total, known, budget, crashed, history>>

\* The service is gone: free its queue and count it out, whichever of the
\* two things queue_free did.
dispatch_free(t) ==
    /\ th[t].pc = "qfree"
    /\ QueueFree(th[t].q)
    /\ th' = [th EXCEPT ![t].pc = "dec", ![t].q = None]
    /\ UNCHANGED <<handles, release, total, known, budget, crashed, drops, orphans>>

\* Mutant of dispatch_pop: the reference is kept.
dispatch_pop_keeps(t) ==
    LET h == th[t].q IN
    /\ th[t].pc = "pop"
    /\ IF len[h] > 0
       THEN /\ len' = [len EXCEPT ![h] = @ - 1]
            /\ th' = [th EXCEPT ![t].pc = "cb", ![t].run = h]
            /\ UNCHANGED global
       ELSE /\ global' = [global EXCEPT ![h] = 0]
            /\ th' = [th EXCEPT ![t] = Idle]
            /\ UNCHANGED len
    /\ UNCHANGED <<handles, mem, release, Q, total, known, budget, crashed, history>>

dispatch_pop(t) ==
    LET h == th[t].q IN
    /\ th[t].pc = "pop"
    /\ IF len[h] > 0
       THEN /\ len' = [len EXCEPT ![h] = @ - 1]
            /\ th' = [th EXCEPT ![t].pc = "cb", ![t].run = h]
            /\ UNCHANGED global
       ELSE /\ global' = [global EXCEPT ![h] = 0]
            /\ th' = [th EXCEPT ![t].pc = "rel", ![t].tgt = h,
                                ![t].ret = "idle", ![t].q = None]
            /\ UNCHANGED len
    /\ UNCHANGED <<handles, mem, release, Q, total, known, budget, crashed, history>>

\* The callback returns: give the thread to the next queue, if there is one.
dispatch_next(t) ==
    /\ th[t].pc = "cb"
    /\ IF Q # <<>>
       THEN /\ Q' = Tail(Q)
            /\ th' = [th EXCEPT ![t].pc = "swap", ![t].nxt = Head(Q)]
       ELSE /\ UNCHANGED Q
            /\ th' = [th EXCEPT ![t].pc = "rel", ![t].tgt = th[t].run,
                                ![t].ret = "grab", ![t].run = None]
    /\ UNCHANGED <<handles, queues, total, known, budget, crashed, history>>

dispatch_swap(t) ==
    /\ th[t].pc = "swap"
    /\ Q' = Append(Q, th[t].q)
    /\ th' = [th EXCEPT ![t].pc = "rel", ![t].tgt = th[t].run, ![t].ret = "grab",
                        ![t].run = None, ![t].q = th[t].nxt, ![t].nxt = None]
    /\ UNCHANGED <<handles, queues, total, known, budget, crashed, history>>

-----------------------------------------------------------------------------
(* What a callback, or another thread of the runtime, asks for *)

\* pixel_push, LOGON, LOGOFF, SIGNAL and pixel_endless: grab, use, release.
grab_target(t, d) ==
    /\ th[t].pc = IF t \in Worker THEN "cb" ELSE "idle"
    /\ d \in known /\ budget.send > 0
    /\ budget' = [budget EXCEPT !.send = @ - 1]
    /\ IF slot[d] = "used"
       THEN /\ ref' = [ref EXCEPT ![d] = @ + 1]
            /\ th' = [th EXCEPT ![t].pc = "use", ![t].tgt = d, ![t].ret = th[t].pc]
       ELSE UNCHANGED <<ref, th>>
    /\ UNCHANGED <<slot, ctx, queues, Q, total, known, crashed, history>>

use_push(t) ==
    LET d == th[t].tgt IN
    /\ th[t].pc = "use"
    /\ len' = [len EXCEPT ![d] = @ + 1]
    /\ global' = [global EXCEPT ![d] = 1]
    /\ Schedule(d)
    /\ Go(t, "rel")
    /\ UNCHANGED <<handles, mem, release, total, known, budget, crashed, history>>

use_other(t) ==
    /\ th[t].pc = "use"
    /\ Go(t, "rel")
    /\ UNCHANGED <<handles, queues, Q, total, known, budget, crashed, history>>

\* Releases that pair with no grab of this thread's.
Drop(t, j, h, r) ==
    /\ ReleaseRef(t, j, h, r)
    /\ drops' = IF slot[h] = "used" THEN [drops EXCEPT ![h] = @ + 1] ELSE drops

cmd_kill(t, d) ==
    /\ th[t].pc = "cb" /\ d \in known /\ budget.kill > 0
    /\ budget' = [budget EXCEPT !.kill = @ - 1]
    /\ Drop(t, th[t], d, "cb")
    /\ UNCHANGED <<slot, ctx, queues, Q, total, known, crashed, early, orphans>>

\* handle_exit: a snapshot of the table under the lock, then one release
\* for each handle in it.
cmd_abort(t) ==
    /\ th[t].pc = "cb" /\ budget.abort > 0
    /\ budget' = [budget EXCEPT !.abort = @ - 1]
    /\ th' = [th EXCEPT ![t].pc = "abort",
                        ![t].todo = {h \in Service : slot[h] = "used"}]
    /\ UNCHANGED <<handles, queues, Q, total, known, crashed, history>>

abort_release(t) ==
    \E h \in th[t].todo :
        /\ th[t].pc = "abort"
        /\ Drop(t, [th[t] EXCEPT !.todo = @ \ {h}], h, "abort")
        /\ UNCHANGED <<slot, ctx, queues, Q, total, known, budget, crashed, early, orphans>>

abort_done(t) ==
    /\ th[t].pc = "abort" /\ th[t].todo = {}
    /\ Go(t, "cb")
    /\ UNCHANGED <<handles, queues, Q, total, known, budget, crashed, history>>

-----------------------------------------------------------------------------
(* pixel_new, called by LAUNCH *)

\* handle_regist: the next handle, with the context still incomplete.
new_regist(t) ==
    \E h \in Service :
        /\ th[t].pc = "cb"
        /\ slot[h] = "none" /\ \A g \in 1 .. h - 1 : slot[g] # "none"
        /\ slot' = [slot EXCEPT ![h] = "used"]
        /\ ref' = [ref EXCEPT ![h] = 1]
        /\ ctx' = [ctx EXCEPT ![h] = "raw"]
        /\ th' = [th EXCEPT ![t].pc = "n_queue", ![t].tgt = h]
        /\ UNCHANGED <<queues, Q, total, known, budget, crashed, history>>

\* Mutant of new_queue: the service is not counted.
new_queue_uncounted(t) ==
    LET h == th[t].tgt IN
    /\ th[t].pc = "n_queue"
    /\ ctx' = [ctx EXCEPT ![h] = "ready"]
    /\ mem' = [mem EXCEPT ![h] = "alloc"]
    /\ global' = [global EXCEPT ![h] = 1]
    /\ Go(t, "n_grab")
    /\ UNCHANGED <<slot, ref, len, release, Q, total, known, budget, crashed, history>>

new_queue(t) ==
    LET h == th[t].tgt IN
    /\ th[t].pc = "n_queue"
    /\ ctx' = [ctx EXCEPT ![h] = "ready"]
    /\ mem' = [mem EXCEPT ![h] = "alloc"]
    /\ global' = [global EXCEPT ![h] = 1]
    /\ total' = total + 1
    /\ Go(t, "n_grab")
    /\ UNCHANGED <<slot, ref, len, release, Q, known, budget, crashed, history>>

\* The result of handle_grab is passed to module_inst_init unchecked.
new_grab(t) ==
    LET h == th[t].tgt IN
    /\ th[t].pc = "n_grab"
    /\ IF slot[h] = "used"
       THEN ref' = [ref EXCEPT ![h] = @ + 1] /\ Go(t, "init") /\ UNCHANGED crashed
       ELSE crashed' = TRUE /\ UNCHANGED <<ref, th>>
    /\ UNCHANGED <<slot, ctx, queues, Q, total, known, budget, history>>

\* The script of the service may hand its handle out while it loads ...
init_expose(t) ==
    /\ th[t].pc = "init" /\ th[t].tgt \notin known
    /\ known' = known \cup {th[t].tgt}
    /\ UNCHANGED <<handles, queues, Q, total, th, budget, crashed, history>>

\* ... and it ends with a zero timeout: a message to itself.
init_ok(t) ==
    /\ th[t].pc = "init"
    /\ len' = [len EXCEPT ![th[t].tgt] = @ + 1]
    /\ Go(t, "publish")
    /\ UNCHANGED <<handles, mem, global, release, Q, total, known, budget, crashed, history>>

new_publish(t) ==
    LET h == th[t].tgt IN
    /\ th[t].pc = "publish"
    /\ Q' = Append(Q, h)
    /\ known' = known \cup {h}
    /\ th' = [th EXCEPT ![t].pc = "rel", ![t].ret = "n_done"]
    /\ UNCHANGED <<handles, queues, total, budget, crashed, history>>

\* Logs the launch and hands newctx->handle to the caller of LAUNCH.
new_done(t) ==
    /\ th[t].pc = "n_done"
    /\ th' = [th EXCEPT ![t].pc = "cb", ![t].tgt = None, ![t].alive = TRUE]
    /\ UNCHANGED <<handles, queues, Q, total, known, budget, crashed, history>>

\* LAUNCH FAILED: handle_release, then pixel_force_free.
init_fail(t) ==
    /\ th[t].pc = "init"
    /\ th' = [th EXCEPT ![t].pc = "rel", ![t].ret = "n_force"]
    /\ UNCHANGED <<handles, queues, Q, total, known, budget, crashed, history>>

force_release(t) ==
    /\ th[t].pc = "n_force"
    /\ Drop(t, th[t], th[t].tgt, "n_forced")
    /\ UNCHANGED <<slot, ctx, queues, Q, total, known, budget, crashed, early, orphans>>

force_free(t) ==
    LET h == th[t].tgt IN
    /\ th[t].pc = "n_forced"
    /\ IF th[t].alive
       THEN /\ orphans' = orphans \cup {h}
            /\ th' = [th EXCEPT ![t].pc = "cb", ![t].tgt = None]
            /\ UNCHANGED <<queues, Q, early>>
       ELSE /\ QueueFree(h)
            /\ th' = [th EXCEPT ![t].pc = "dec", ![t].ret = "cb",
                                ![t].tgt = None, ![t].alive = TRUE]
            /\ UNCHANGED <<release, orphans>>
    /\ UNCHANGED <<handles, total, known, budget, crashed, drops>>

-----------------------------------------------------------------------------
\* Steps a running thread takes by itself, and the requests it may add.
Run(t) ==
    \/ handle_release(t) \/ handle_remove(t) \/ queue_mark_free(t)
    \/ free_ctx(t) \/ total_dec(t)
    \/ dispatch_pop_global(t) \/ dispatch_grab(t) \/ dispatch_free(t)
    \/ dispatch_pop(t) \/ dispatch_next(t) \/ dispatch_swap(t)
    \/ use_push(t) \/ use_other(t) \/ abort_release(t) \/ abort_done(t)
    \/ new_queue(t) \/ new_grab(t) \/ init_ok(t) \/ init_fail(t)
    \/ new_publish(t) \/ new_done(t) \/ force_release(t) \/ force_free(t)

Ask(t) ==
    \/ \E d \in Service : grab_target(t, d) \/ cmd_kill(t, d)
    \/ cmd_abort(t) \/ new_regist(t) \/ init_expose(t)

\* Contexts thread t is going to dereference; pixel_new's tail does so after
\* it gave up its own reference.
Uses(t) ==
    LET j == th[t] IN
    (IF j.run # None THEN {j.run} ELSE {})
      \cup (IF j.pc \in {"use", "mark", "free", "init", "publish"} THEN {j.tgt} ELSE {})

TailUses(t) ==
    IF th[t].pc = "n_force" \/ (th[t].pc = "n_done" /\ th[t].alive)
    THEN {th[t].tgt} ELSE {}

\* pixel_log reads G.log->handle, the context of the log service, with no
\* reference to it: in pixel_free (EXIT), in pixel_new (LAUNCH FAILED before
\* the release, LAUNCH at the end), in pixel_dispatch (overload, no callback)
\* and from what callbacks and scripts call.
Logs(t) ==
    \/ th[t].pc \in {"mark", "cb", "init"}
    \/ th[t].pc = "rel" /\ th[t].ret = "n_force"
    \/ th[t].pc = "n_done" /\ th[t].alive

\* After a null dereference or a use after free nothing more can be said:
\* the model stops there.  It goes on past Logs(t), whose read may have come
\* before the context was freed: NoUseAfterFree says when it has not.
Undefined ==
    \/ crashed
    \/ \E t \in Thread :
          \/ \E h \in Uses(t) \cup TailUses(t) : ctx[h] = "freed"
          \/ th[t].q # None /\ mem[th[t].q] = "freed"

Next == ~Undefined /\ \E t \in Thread : Run(t) \/ Ask(t)

Spec == Init /\ [][Next]_vars

\* Every thread of the runtime is scheduled, and callbacks return.
FairSpec == Spec /\ \A t \in Thread : WF_vars(~Undefined /\ Run(t))

-----------------------------------------------------------------------------
(* Properties *)

\* Types of the tables and of the threads' registers.
TypeOK ==
    /\ slot \in [Service -> {"none", "used", "gone"}]
    /\ ref \in [Service -> Int]
    /\ ctx \in [Service -> {"none", "raw", "ready", "freed"}]
    /\ mem \in [Service -> {"none", "alloc", "freed"}]
    /\ len \in [Service -> Nat]
    /\ global \in [Service -> {0, 1}] /\ release \in [Service -> {0, 1}]
    /\ Q \in Seq(Service) /\ total \in Int
    /\ \A t \in Thread :
         /\ {th[t].q, th[t].nxt, th[t].run, th[t].tgt} \subseteq Service \cup {None}
         /\ th[t].todo \subseteq Service /\ th[t].alive \in BOOLEAN
    /\ drops \in [Service -> Nat] /\ early \in Nat /\ orphans \subseteq Service

\* References nobody grabbed: the one of handle_regist, and for log the one
\* of pixel_reserve.
Standing(h) == IF h = Log THEN 2 ELSE 1

\* KILL and ABORT release a standing reference without owning one; nothing
\* keeps a service from doing so twice.
OverReleased(h) == drops[h] > Standing(h)

\* The grabs of h that were not yet released: of threads that run its
\* callback, that are about to look into its queue, or in a subroutine.
Runners(h) == {t \in Thread : th[t].run = h}
Lookers(h) == {t \in Thread : th[t].pc = "pop" /\ th[t].q = h}
Users(h)   == {t \in Thread : th[t].pc \in {"use", "rel", "init", "publish"}
                              /\ th[t].tgt = h}

Grabs(h) == Cardinality(Runners(h)) + Cardinality(Lookers(h)) + Cardinality(Users(h))

\* The count is what it should be: as long as a handle is registered, ref is
\* the standing references left plus one per grab in progress (and every
\* variable is well typed).
RefExact ==
    /\ TypeOK
    /\ \A h \in Service : slot[h] = "used" =>
          ref[h] = Standing(h) - drops[h] + Grabs(h)

\* Where a queue is: places in Q, and threads that have it in their hands.
InHand(t, h) ==
    \/ th[t].q = h \/ th[t].nxt = h
    \/ th[t].tgt = h /\ th[t].pc \in {"n_grab", "init", "publish", "n_force", "n_forced"}
    \/ th[t].tgt = h /\ th[t].ret \in {"n_force", "n_forced"}

Tokens(h) ==
    Cardinality({i \in 1 .. Len(Q) : Q[i] = h})
      + Cardinality({t \in Thread : InHand(t, h)})

\* The promise of the actor model: however queues, kills and launches
\* interleave, at most one thread runs a service's callback, because its
\* queue is in one place only.
CallbackSerial ==
    \A h \in Service : ~OverReleased(h) =>
        /\ Tokens(h) <= 1
        /\ \A t, u \in Thread : th[t].run = h /\ th[u].run = h => t = u

\* Nothing is forgotten: a queue with messages, or one marked for release,
\* is scheduled or in some thread's hands, except after a failed launch
\* whose handle somebody else had grabbed.
NoStranded ==
    \A h \in Service :
        mem[h] = "alloc" /\ ~OverReleased(h) /\ h \notin orphans
        /\ (len[h] > 0 \/ release[h] = 1) => Tokens(h) = 1

\* No use after free: a thread in a callback, a sender, a launcher before
\* its own release or a destroyer never has a context freed under it, and
\* no queue is marked twice (the assertion in queue_mark_free) or used after
\* it was freed - unless a service was killed more often than it was kept.
\* A launcher reads the new context after it gave its own reference back: that
\* is freed only when somebody killed the service meanwhile.  pixel_log reads
\* the context of log and holds no reference: that is freed only when KILL and
\* ABORT have given back both references that keep log, and then every thread
\* that logs uses freed memory.  And no null pointer is dereferenced unless an
\* ABORT meets a LAUNCH.
NoUseAfterFree ==
    /\ crashed => budget.abort < MaxAbort
    /\ \A t \in Thread :
        /\ \A h \in TailUses(t) : ctx[h] = "freed" => drops[h] > 0
        /\ Logs(t) /\ ctx[Log] = "freed" => drops[Log] >= Standing(Log)
        /\ \A h \in Uses(t) : ~OverReleased(h) => ctx[h] # "freed"
        /\ th[t].pc = "mark" /\ ~OverReleased(th[t].tgt) => release[th[t].tgt] = 0
        /\ th[t].q # None /\ ~OverReleased(th[t].q) => mem[th[t].q] = "alloc"

\* pixel_total() = 0 ends the timer, monitor and socket threads.  It means
\* that every service but log is gone, unless a service was killed too
\* often, log was killed (it is not counted), or G.total was decremented
\* for a queue that queue_free had only put back.
ExitMeansEmpty ==
    /\ total <= 0 /\ early = 0 /\ drops[Log] < Standing(Log)
    /\ \A h \in Service : ~OverReleased(h)
    => \A h \in Service \ {Log} : mem[h] # "alloc"

\* A killed service is taken apart to the last queue, whatever the other
\* threads were doing with it, unless it was killed too often or its launch
\* failed while another thread had grabbed it.
KilledIsFreed ==
    \A h \in Service :
        drops[h] >= Standing(h) ~>
            mem[h] = "freed" \/ OverReleased(h) \/ h \in orphans \/ Undefined

\* Every message is dispatched or dropped with its queue, with the same
\* exceptions.
Drains ==
    <>[](Undefined \/ \A h \in Service :
            len[h] = 0 \/ OverReleased(h) \/ h \in orphans)
=============================================================================
