------------------------------- MODULE Workers -------------------------------
(***************************************************************************)
(* The threads of src/src/start.c: the workers with their sleep and wake   *)
(* protocol, and the timer, socket and monitor threads that wake them and  *)
(* end the program when the last service is gone.                          *)
(*                                                                         *)
(* Services are reduced to where their queue is: in the global list Q, in  *)
(* a worker's hands, parked, or gone (Actor.tla has the details).          *)
(***************************************************************************)
EXTENDS Integers, Sequences, FiniteSets

CONSTANTS Worker, Service, None

Timer == "timer"    \* the timer thread, as an owner of the mutex

ASSUME WorkersAssumption ==
    /\ IsFiniteSet(Worker) /\ IsFiniteSet(Service)
    /\ None \notin Worker \cup Service
    /\ Timer \notin Worker /\ None # Timer

VARIABLES
    Q,            \* the global list
    svc,          \* where each service's queue is
    mutex,        \* owner of watcher.mutex
    waiting,      \* workers blocked on watcher.cond
    sleep, quit,  \* the fields of struct watcher
    pc, cur,      \* the workers, and the queue each has in hand
    tpc, spc,     \* the timer and the socket thread
    mpc,          \* the monitor thread
    stop          \* socket_exit was called

services == <<Q, svc>>
watcher  == <<mutex, waiting, sleep, quit>>
vars     == <<Q, svc, mutex, waiting, sleep, quit, pc, cur, tpc, spc, mpc, stop>>

\* pixel_total()
total == Cardinality({s \in Service : svc[s] # "gone"})

Init ==
    /\ Q = <<>> /\ svc = [s \in Service |-> "parked"]
    /\ mutex = None /\ waiting = {} /\ sleep = 0 /\ quit = FALSE
    /\ pc = [w \in Worker |-> "check"] /\ cur = [w \in Worker |-> None]
    /\ tpc = "update" /\ spc = "poll" /\ mpc = "check"
    /\ stop = FALSE

\* A message reaches a parked service (queue_push).  Nobody is signalled.
Arrive(s) ==
    /\ svc[s] = "parked"
    /\ svc' = [svc EXCEPT ![s] = "queued"]
    /\ Q' = Append(Q, s)

\* pthread_cond_signal wakes one of the waiting workers, if there is any.
Signal ==
    IF waiting = {} THEN UNCHANGED <<waiting, pc>>
    ELSE \E w \in waiting :
            /\ waiting' = waiting \ {w}
            /\ pc' = [pc EXCEPT ![w] = "wake"]

-----------------------------------------------------------------------------
(* _worker *)

Goto(w, from, to) == pc[w] = from /\ pc' = [pc EXCEPT ![w] = to]

worker_check(w) ==
    /\ Goto(w, "check", IF quit THEN "done" ELSE "dispatch")
    /\ UNCHANGED <<services, watcher, cur, tpc, spc, mpc, stop>>

\* queue_pop_global: the worker goes on at `to' with the first queue of the
\* list, or goes to sleep.
Fetch(w, from, to) ==
    /\ cur[w] = None
    /\ IF Q = <<>>
       THEN Goto(w, from, "lock") /\ UNCHANGED <<Q, svc, cur>>
       ELSE /\ Goto(w, from, to)
            /\ Q' = Tail(Q)
            /\ cur' = [cur EXCEPT ![w] = Head(Q)]
            /\ svc' = [svc EXCEPT ![Head(Q)] = "held"]
    /\ UNCHANGED <<watcher, tpc, spc, mpc, stop>>

\* pixel_dispatch called without a queue takes one and dispatches it at
\* once; after an empty or dead queue it returns the next one instead.
worker_fetch(w) == Fetch(w, "dispatch", "dispatch")
worker_next(w)  == Fetch(w, "next", "check")

\* pixel_dispatch with a queue in hand: the callback may send to another
\* service; then the queue is kept, found empty, or found to be dead.
worker_send(w, s) ==
    /\ pc[w] = "dispatch" /\ cur[w] # None
    /\ Arrive(s)
    /\ UNCHANGED <<watcher, pc, cur, tpc, spc, mpc, stop>>

worker_keep(w) ==
    /\ cur[w] # None
    /\ Goto(w, "dispatch", "check")
    /\ IF Q = <<>> THEN UNCHANGED <<Q, svc, cur>>
       ELSE /\ Q' = Append(Tail(Q), cur[w])
            /\ svc' = [svc EXCEPT ![cur[w]] = "queued", ![Head(Q)] = "held"]
            /\ cur' = [cur EXCEPT ![w] = Head(Q)]
    /\ UNCHANGED <<watcher, tpc, spc, mpc, stop>>

worker_finish(w, to) ==
    /\ cur[w] # None
    /\ svc' = [svc EXCEPT ![cur[w]] = to]
    /\ cur' = [cur EXCEPT ![w] = None]
    /\ Goto(w, "dispatch", "next")
    /\ UNCHANGED <<Q, watcher, tpc, spc, mpc, stop>>

\* pthread_mutex_lock, ++sleep
worker_lock(w) ==
    /\ mutex = None
    /\ Goto(w, "lock", "test")
    /\ mutex' = w /\ sleep' = sleep + 1
    /\ UNCHANGED <<services, waiting, quit, cur, tpc, spc, mpc, stop>>

\* if (!quit) wait - otherwise the loop ends here, with the mutex locked.
worker_test(w) ==
    /\ Goto(w, "test", IF quit THEN "done" ELSE "wait")
    /\ IF quit THEN UNCHANGED <<mutex, waiting>>
       ELSE mutex' = None /\ waiting' = waiting \cup {w}
    /\ UNCHANGED <<services, sleep, quit, cur, tpc, spc, mpc, stop>>

\* POSIX lets a wait end without a signal.
worker_spurious(w) ==
    /\ w \in waiting
    /\ waiting' = waiting \ {w}
    /\ Goto(w, "wait", "wake")
    /\ UNCHANGED <<services, mutex, sleep, quit, cur, tpc, spc, mpc, stop>>

\* pthread_cond_wait returns with the mutex; --sleep; unlock
worker_relock(w) ==
    /\ mutex = None
    /\ Goto(w, "wake", "awake")
    /\ mutex' = w
    /\ UNCHANGED <<services, waiting, sleep, quit, cur, tpc, spc, mpc, stop>>

\* Mutant of worker_unlock: sleep is not decremented.
worker_unlock_counted(w) ==
    /\ Goto(w, "awake", "check")
    /\ mutex' = None
    /\ UNCHANGED <<services, sleep, waiting, quit, cur, tpc, spc, mpc, stop>>

worker_unlock(w) ==
    /\ Goto(w, "awake", "check")
    /\ sleep' = sleep - 1 /\ mutex' = None
    /\ UNCHANGED <<services, waiting, quit, cur, tpc, spc, mpc, stop>>

-----------------------------------------------------------------------------
(* _timer *)

\* timer_update, which may deliver a timeout
timer_update ==
    /\ tpc = "update" /\ tpc' = "check"
    /\ UNCHANGED services \/ \E s \in Service : Arrive(s)
    /\ UNCHANGED <<watcher, pc, cur, spc, mpc, stop>>

timer_check ==
    /\ tpc = "check"
    /\ tpc' = IF total = 0 THEN "exit" ELSE "signal"
    /\ UNCHANGED <<services, watcher, pc, cur, spc, mpc, stop>>

\* Mutant of timer_signal: waits, as the socket thread does, but for one
\* sleeper more than there are workers.
timer_signal_never ==
    /\ tpc = "signal" /\ tpc' = "update"
    /\ IF sleep > Cardinality(Worker) THEN Signal ELSE UNCHANGED <<waiting, pc>>
    /\ UNCHANGED <<services, mutex, sleep, quit, cur, spc, mpc, stop>>

timer_signal ==
    /\ tpc = "signal" /\ tpc' = "update"
    /\ IF sleep >= 1 THEN Signal ELSE UNCHANGED <<waiting, pc>>
    /\ UNCHANGED <<services, mutex, sleep, quit, cur, spc, mpc, stop>>

timer_exit ==
    /\ tpc = "exit" /\ tpc' = "lock"
    /\ stop' = TRUE
    /\ UNCHANGED <<services, watcher, pc, cur, spc, mpc>>

timer_lock ==
    /\ tpc = "lock" /\ mutex = None
    /\ tpc' = "quit" /\ mutex' = Timer
    /\ UNCHANGED <<services, waiting, sleep, quit, pc, cur, spc, mpc, stop>>

timer_quit ==
    /\ tpc = "quit" /\ tpc' = "broadcast"
    /\ quit' = TRUE
    /\ UNCHANGED <<services, mutex, waiting, sleep, pc, cur, spc, mpc, stop>>

\* Mutant of timer_broadcast: a signal instead of the broadcast.
timer_broadcast_one ==
    /\ tpc = "broadcast" /\ tpc' = "done"
    /\ Signal /\ mutex' = None
    /\ UNCHANGED <<services, sleep, quit, cur, spc, mpc, stop>>

timer_broadcast ==
    /\ tpc = "broadcast" /\ tpc' = "done"
    /\ pc' = [w \in Worker |-> IF w \in waiting THEN "wake" ELSE pc[w]]
    /\ waiting' = {} /\ mutex' = None
    /\ UNCHANGED <<services, sleep, quit, cur, spc, mpc, stop>>

-----------------------------------------------------------------------------
(* _socket and _monitor *)

\* socket_poll returns after an event, or when it sees the exit request.
socket_poll ==
    /\ spc = "poll"
    /\ \/ stop /\ spc' = "done" /\ UNCHANGED services
       \/ spc' = "signal" /\ \E s \in Service : Arrive(s)
    /\ UNCHANGED <<watcher, pc, cur, tpc, mpc, stop>>

socket_signal ==
    /\ spc = "signal" /\ spc' = "poll"
    /\ IF sleep >= Cardinality(Worker) THEN Signal ELSE UNCHANGED <<waiting, pc>>
    /\ UNCHANGED <<services, mutex, sleep, quit, cur, tpc, mpc, stop>>

monitor_loop ==
    /\ mpc = "check" /\ total = 0
    /\ mpc' = "done"
    /\ UNCHANGED <<services, watcher, pc, cur, tpc, spc, stop>>

-----------------------------------------------------------------------------
Work(w) ==
    \/ worker_check(w) \/ worker_fetch(w) \/ worker_next(w) \/ worker_keep(w)
    \/ worker_finish(w, "parked") \/ worker_finish(w, "gone")
    \/ worker_lock(w) \/ worker_test(w) \/ worker_relock(w) \/ worker_unlock(w)

TimerLoop ==
    \/ timer_update \/ timer_check \/ timer_signal
    \/ timer_exit \/ timer_lock \/ timer_quit \/ timer_broadcast

SocketLoop == socket_poll \/ socket_signal

Next ==
    \/ \E w \in Worker : Work(w) \/ worker_spurious(w)
                           \/ \E s \in Service : worker_send(w, s)
    \/ TimerLoop \/ SocketLoop \/ monitor_loop

Spec == Init /\ [][Next]_vars

\* Threads are scheduled; a thread that keeps asking for the mutex while
\* others take turns with it gets it (strong fairness on the two locks); and
\* socket_poll, woken through its pipe, sees the exit request.
FairSpec ==
    /\ Spec
    /\ \A w \in Worker : WF_vars(Work(w)) /\ SF_vars(worker_lock(w) \/ worker_relock(w))
    /\ WF_vars(TimerLoop) /\ SF_vars(timer_lock)
    /\ WF_vars(socket_signal) /\ WF_vars(stop /\ socket_poll)
    /\ WF_vars(monitor_loop)

-----------------------------------------------------------------------------
(* Properties *)

Done == \A w \in Worker : pc[w] = "done"

\* Types; the condition's waiters are the workers in pthread_cond_wait.
TypeOK ==
    /\ Q \in Seq(Service) /\ svc \in [Service -> {"parked", "queued", "held", "gone"}]
    /\ mutex \in Worker \cup {Timer, None} /\ waiting = {w \in Worker : pc[w] = "wait"}
    /\ sleep \in Nat /\ quit \in BOOLEAN /\ stop \in BOOLEAN
    /\ pc \in [Worker -> {"check", "dispatch", "next", "lock", "test", "wait", "wake",
                          "awake", "done"}]
    /\ cur \in [Worker -> Service \cup {None}]

\* The socket thread signals only when sleep says that all workers sleep:
\* sleep counts exactly the workers on their way into, in, or out of the
\* wait, and the one that may have left the loop without decrementing it.
SleepExact ==
    /\ TypeOK
    /\ sleep = Cardinality({w \in Worker :
                  \/ pc[w] \in {"test", "wait", "wake", "awake"}
                  \/ pc[w] = "done" /\ mutex = w})

\* No queue is left in the list: a push signals nobody and a signal may come
\* before its worker waits, but the timer thread's next round makes up for it.
NoLostWork ==
    \A s \in Service : svc[s] = "queued" ~> svc[s] # "queued"

\* The end: once the last service is gone the timer, socket and monitor
\* threads end, and so do all workers - or one of them has ended with the
\* mutex locked, and the join in _start waits for the others forever.
EndsOrLeaksMutex ==
    total = 0 ~>
        /\ tpc = "done" /\ spc = "done" /\ mpc = "done"
        /\ Done \/ \E w \in Worker : pc[w] = "done" /\ mutex = w
=============================================================================
