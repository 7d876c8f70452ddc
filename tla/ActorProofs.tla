---------------------------- MODULE ActorProofs ----------------------------
(***************************************************************************)
(* Proofs about the life of services, for any number of threads, services  *)
(* and commands: the reference counts of handle.c, the single place of a   *)
(* service's queue, and what pixel.c frees while others use it.            *)
(***************************************************************************)
EXTENDS Actor, SequenceTheorems, Lemmas

(***************************************************************************)
(* The inductive invariant, in parts.                                      *)
(***************************************************************************)

\* Labels of subroutines, which continue at ret; of pixel_dispatch outside a
\* callback; of a callback and what it calls; and the labels that have a tgt.
Sub      == {"use", "rel", "remove", "mark", "free", "dec"}
Dispatch == {"idle", "grab", "pop", "qfree"}
Callback == {"cb", "swap", "abort", "n_queue", "n_grab", "init", "publish",
             "n_force", "n_forced", "n_done"}
Returns  == {"idle", "grab", "cb", "abort", "n_force", "n_forced", "n_done"}
Targets  == {"use", "rel", "remove", "mark", "free", "n_queue", "n_grab", "init",
             "publish", "n_force", "n_forced", "n_done"}

Registers ==
    [pc : Sub \cup Dispatch \cup Callback, q : Service \cup {None},
     nxt : Service \cup {None}, run : Service \cup {None}, tgt : Service \cup {None},
     ret : Returns, alive : BOOLEAN, todo : SUBSET Service]

\* The routine a thread with registers j is in, whatever it has called.
Place(j) == IF j.pc \in Sub THEN j.ret ELSE j.pc

\* What the registers hold at each label: a queue except when idle, in a
\* callback the service that runs it, a second queue only while swapping.
Shape(j) ==
    /\ j.pc \notin Sub => j.ret = "idle"
    /\ j.pc \in {"use", "dec"} => j.ret \in {"idle", "cb"}
    /\ j.q = None <=> Place(j) = "idle"
    /\ j.run = IF Place(j) \in Callback THEN j.q ELSE None
    /\ j.nxt = None <=> j.pc # "swap"
    /\ j.tgt = None <=> j.pc \notin Targets
    /\ j.todo = {} \/ Place(j) = "abort"

Threads ==
    /\ th \in [Thread -> Registers]
    /\ \A t \in Thread : Shape(th[t])

\* The types of the shared variables.
Tables ==
    /\ slot \in [Service -> {"none", "used", "gone"}]
    /\ ref \in [Service -> Int]
    /\ ctx \in [Service -> {"none", "raw", "ready", "freed"}]
    /\ mem \in [Service -> {"none", "alloc", "freed"}]
    /\ len \in [Service -> Nat]
    /\ global \in [Service -> {0, 1}]
    /\ release \in [Service -> {0, 1}]
    /\ Q \in Seq(Service)
    /\ total \in Int
    /\ drops \in [Service -> Nat]
    /\ early \in Nat
    /\ orphans \subseteq Service
    /\ known \subseteq Service
    /\ budget \in [send : Nat, kill : Nat, abort : Nat]

Types == Tables /\ Threads

\* The count of a registered handle is RefExact's; nobody has grabbed a
\* handle before it is registered; and it is removed when its standing
\* references were given back and, unless one was given back twice, nobody
\* has grabbed it any more.
Counts(h) ==
    /\ slot[h] = "none" => drops[h] = 0 /\ Grabs(h) = 0 /\ h # Log
    /\ slot[h] = "used" => ref[h] = Standing(h) - drops[h] + Grabs(h)
    /\ slot[h] = "gone" => /\ drops[h] >= Standing(h)
                           /\ ~OverReleased(h) => Grabs(h) = 0

-----------------------------------------------------------------------------
(* Registers *)

LEMMA ServiceFacts ==
    /\ None \notin Service /\ Log \in Service /\ Boot \in Service
    /\ IsFiniteSet(Thread)
<1>1. None \notin Service
  BY ActorAssumption
<1>2. Log \in Service /\ Boot \in Service
  BY ActorAssumption DEF Service, Log, Boot
<1>3. IsFiniteSet(Thread)
  BY ActorAssumption, FS_Union DEF Thread
<1> QED BY <1>1, <1>2, <1>3

\* A step changes the registers of its own thread only, and keeps them well
\* formed.
LEMMA ThreadsNext ==
    ASSUME Types, NEW t \in Thread, Run(t) \/ Ask(t)
    PROVE  Threads' /\ \A u \in Thread : u # t => th'[u] = th[u]
<1> USE ServiceFacts DEF Registers, Shape, Place, Sub, Dispatch, Callback, Targets, Returns,
                         InNew
<1>0. th \in [Thread -> Registers] /\ Shape(th[t]) /\ th[t] \in Registers
  BY DEF Types, Threads
<1>a. SUFFICES th' \in [Thread -> Registers] /\ Shape(th'[t])
               /\ \A u \in Thread : u # t => th'[u] = th[u]
  BY DEF Types, Threads
<1>1. CASE handle_release(t)
  BY <1>0, <1>1, ZenonT(30) DEF handle_release, ReleaseRef
<1>2. CASE handle_remove(t)
  <2>1. CASE Go(t, "mark")
    BY <1>0, <1>2, <2>1 DEF handle_remove, Go
  <2>2. CASE Return(t, FALSE)
    BY <1>0, <1>2, <2>2, ZenonT(30) DEF handle_remove, Return
  <2> QED BY <1>2, <2>1, <2>2 DEF handle_remove
<1>3. CASE queue_mark_free(t)
  BY <1>0, <1>3 DEF queue_mark_free, Go
<1>4. CASE free_ctx(t)
  BY <1>0, <1>4 DEF free_ctx, Return
<1>5. CASE total_dec(t)
  BY <1>0, <1>5 DEF total_dec
<1>6. CASE dispatch_pop_global(t)
  <2>1. Head(Q) \in Service
    BY <1>6, HeadTailProperties DEF dispatch_pop_global, Types, Tables
  <2> QED BY <1>0, <1>6, <2>1 DEF dispatch_pop_global
<1>7. CASE dispatch_grab(t)
  BY <1>0, <1>7 DEF dispatch_grab, Go
<1>8. CASE dispatch_free(t)
  BY <1>0, <1>8 DEF dispatch_free
<1>9. CASE dispatch_pop(t)
  BY <1>0, <1>9 DEF dispatch_pop
<1>10. CASE dispatch_next(t)
  <2>1. Q # <<>> => Head(Q) \in Service
    BY HeadTailProperties DEF Types, Tables
  <2> QED BY <1>0, <1>10, <2>1 DEF dispatch_next
<1>11. CASE dispatch_swap(t)
  <2>1. th[t].pc = "swap" /\ th[t].run \in Service /\ th[t].nxt \in Service
    BY <1>0, <1>11 DEF dispatch_swap
  <2> DEFINE j == [th[t] EXCEPT !.pc = "rel", !.tgt = th[t].run, !.ret = "grab",
                                !.run = None, !.q = th[t].nxt, !.nxt = None]
  <2>2. th' = [th EXCEPT ![t] = j]
    BY <1>11 DEF dispatch_swap
  <2>3. j \in Registers /\ Shape(j)
    BY <1>0, <2>1
  <2> HIDE DEF j
  <2> QED BY <1>0, <2>2, <2>3
<1>12. CASE use_push(t) \/ use_other(t)
  BY <1>0, <1>12 DEF use_push, use_other, Go
<1>13. CASE abort_release(t)
  <2>1. PICK h \in th[t].todo :
           th[t].pc = "abort" /\ ReleaseRef(t, [th[t] EXCEPT !.todo = @ \ {h}], h, "abort")
    BY <1>13 DEF abort_release, Drop
  <2>2. h \in Service /\ [th[t] EXCEPT !.todo = @ \ {h}] \in Registers
    BY <1>0
  <2>3. \E j \in Registers : Shape(j) /\ th' = [th EXCEPT ![t] = j]
    BY <1>0, <2>1, <2>2 DEF ReleaseRef
  <2> QED BY <1>0, <2>3
<1>14. CASE abort_done(t)
  BY <1>0, <1>14 DEF abort_done, Go
<1>15. CASE new_queue(t) \/ init_ok(t)
  BY <1>0, <1>15 DEF new_queue, init_ok, Go
<1>16. CASE new_grab(t)
  BY <1>0, <1>16 DEF new_grab, Go
<1>17. CASE init_fail(t) \/ new_publish(t) \/ new_done(t)
  BY <1>0, <1>17 DEF init_fail, new_publish, new_done
<1>18. CASE force_release(t)
  BY <1>0, <1>18 DEF force_release, Drop, ReleaseRef
<1>19. CASE force_free(t)
  BY <1>0, <1>19 DEF force_free
<1>20. CASE \E d \in Service : grab_target(t, d)
  BY <1>0, <1>20 DEF grab_target
<1>21. CASE \E d \in Service : cmd_kill(t, d)
  <2>1. PICK h \in Service : th[t].pc = "cb" /\ ReleaseRef(t, th[t], h, "cb")
    BY <1>21 DEF cmd_kill, Drop
  <2>2. \E j \in Registers : Shape(j) /\ th' = [th EXCEPT ![t] = j]
    BY <1>0, <2>1 DEF ReleaseRef
  <2> QED BY <1>0, <2>2
<1>22. CASE cmd_abort(t)
  BY <1>0, <1>22 DEF cmd_abort
<1>23. CASE new_regist(t)
  BY <1>0, <1>23 DEF new_regist
<1>24. CASE init_expose(t)
  BY <1>0, <1>24 DEF init_expose
<1> QED BY <1>1, <1>2, <1>3, <1>4, <1>5, <1>6, <1>7, <1>8, <1>9, <1>10, <1>11, <1>12,
           <1>13, <1>14, <1>15, <1>16, <1>17, <1>18, <1>19, <1>20, <1>21, <1>22,
           <1>23, <1>24 DEF Run, Ask

\* Nothing a step writes leaves its type.
LEMMA TypesNext ==
    ASSUME Types, NEW t \in Thread, Run(t) \/ Ask(t)
    PROVE  Types'
<1> USE ServiceFacts DEF handles, queues, history, Targets
<1>1. Threads' /\ Threads
  BY ThreadsNext DEF Types
<1>3. /\ th[t].pc \in Targets => th[t].tgt \in Service
      /\ th[t].pc \in {"grab", "pop", "qfree", "swap"} => th[t].q \in Service
      /\ th[t].todo \subseteq Service
  BY <1>1 DEF Threads, Registers, Shape, Place, Sub, Dispatch
<1>4. /\ Q # <<>> => Tail(Q) \in Seq(Service)
      /\ \A h \in Service : Append(Q, h) \in Seq(Service)
  BY HeadTailProperties, AppendProperties DEF Types, Tables
<1>a. SUFFICES Tables'
  BY <1>1 DEF Types
<1>slot. slot \in [Service -> {"none", "used", "gone"}]
  BY DEF Types, Tables
<1>ref. ref \in [Service -> Int]
  BY DEF Types, Tables
<1>ctx. ctx \in [Service -> {"none", "raw", "ready", "freed"}]
  BY DEF Types, Tables
<1>mem. mem \in [Service -> {"none", "alloc", "freed"}]
  BY DEF Types, Tables
<1>len. len \in [Service -> Nat]
  BY DEF Types, Tables
<1>global. global \in [Service -> {0, 1}]
  BY DEF Types, Tables
<1>release. release \in [Service -> {0, 1}]
  BY DEF Types, Tables
<1>Q. Q \in Seq(Service)
  BY DEF Types, Tables
<1>total. total \in Int
  BY DEF Types, Tables
<1>drops. drops \in [Service -> Nat]
  BY DEF Types, Tables
<1>early. early \in Nat
  BY DEF Types, Tables
<1>orphans. orphans \subseteq Service
  BY DEF Types, Tables
<1>known. known \subseteq Service
  BY DEF Types, Tables
<1>budget. budget \in [send : Nat, kill : Nat, abort : Nat]
  BY DEF Types, Tables
<1>all. Tables
  BY DEF Types
<1>6. CASE handle_release(t)
  <2>1. ref' \in [Service -> Int]
    BY <1>ref, <1>3, <1>6 DEF handle_release, ReleaseRef
  <2>2. UNCHANGED <<slot, ctx, mem, len, global, release, Q, total, drops, early,
                     orphans, known, budget>>
    BY <1>6 DEF handle_release, ReleaseRef
  <2> QED BY <1>all, <2>1, <2>2 DEF Tables
<1>7. CASE handle_remove(t)
  <2>1. slot' \in [Service -> {"none", "used", "gone"}]
    BY <1>slot, <1>3, <1>7 DEF handle_remove
  <2>2. UNCHANGED <<ref, ctx, mem, len, global, release, Q, total, drops, early,
                     orphans, known, budget>>
    BY <1>7 DEF handle_remove
  <2> QED BY <1>all, <2>1, <2>2 DEF Tables
<1>8. CASE queue_mark_free(t)
  <2>1. release' \in [Service -> {0, 1}]
    BY <1>release, <1>3, <1>8 DEF queue_mark_free, Schedule
  <2>2. Q' \in Seq(Service)
    BY <1>Q, <1>3, <1>4, <1>8 DEF queue_mark_free, Schedule
  <2>3. UNCHANGED <<slot, ref, ctx, mem, len, global, total, drops, early, orphans,
                     known, budget>>
    BY <1>8 DEF queue_mark_free, Schedule
  <2> QED BY <1>all, <2>1, <2>2, <2>3 DEF Tables
<1>9. CASE free_ctx(t)
  <2>1. ctx' \in [Service -> {"none", "raw", "ready", "freed"}]
    BY <1>ctx, <1>3, <1>9 DEF free_ctx
  <2>2. UNCHANGED <<slot, ref, mem, len, global, release, Q, total, drops, early,
                     orphans, known, budget>>
    BY <1>9 DEF free_ctx
  <2> QED BY <1>all, <2>1, <2>2 DEF Tables
<1>10. CASE total_dec(t)
  <2>1. total' \in Int
    BY <1>total, <1>10 DEF total_dec
  <2>2. UNCHANGED <<slot, ref, ctx, mem, len, global, release, Q, drops, early,
                     orphans, known, budget>>
    BY <1>10 DEF total_dec
  <2> QED BY <1>all, <2>1, <2>2 DEF Tables
<1>11. CASE dispatch_pop_global(t) \/ dispatch_next(t) \/ dispatch_swap(t)
  <2>1. Q' \in Seq(Service)
    BY <1>Q, <1>3, <1>4, <1>11 DEF dispatch_pop_global, dispatch_next, dispatch_swap
  <2>2. UNCHANGED <<slot, ref, ctx, mem, len, global, release, total, drops, early,
                     orphans, known, budget>>
    BY <1>11 DEF dispatch_pop_global, dispatch_next, dispatch_swap
  <2> QED BY <1>all, <2>1, <2>2 DEF Tables
<1>12. CASE dispatch_grab(t) \/ new_grab(t)
  <2>1. ref' \in [Service -> Int]
    BY <1>ref, <1>3, <1>12 DEF dispatch_grab, new_grab
  <2>2. UNCHANGED <<slot, ctx, mem, len, global, release, Q, total, drops, early,
                     orphans, known, budget>>
    BY <1>12 DEF dispatch_grab, new_grab
  <2> QED BY <1>all, <2>1, <2>2 DEF Tables
<1>13. CASE dispatch_free(t)
  <2>1. mem' \in [Service -> {"none", "alloc", "freed"}]
    BY <1>mem, <1>3, <1>13 DEF dispatch_free, QueueFree
  <2>2. len' \in [Service -> Nat]
    BY <1>len, <1>3, <1>13 DEF dispatch_free, QueueFree
  <2>3. global' \in [Service -> {0, 1}]
    BY <1>global, <1>3, <1>13 DEF dispatch_free, QueueFree
  <2>4. Q' \in Seq(Service)
    BY <1>Q, <1>3, <1>4, <1>13 DEF dispatch_free, QueueFree
  <2>5. early' \in Nat
    BY <1>early, <1>13 DEF dispatch_free, QueueFree
  <2>6. UNCHANGED <<slot, ref, ctx, release, total, drops, orphans, known, budget>>
    BY <1>13 DEF dispatch_free, QueueFree
  <2> QED BY <1>all, <2>1, <2>2, <2>3, <2>4, <2>5, <2>6 DEF Tables
<1>14. CASE dispatch_pop(t)
  <2>1. len' \in [Service -> Nat]
    BY <1>len, <1>3, <1>14 DEF dispatch_pop
  <2>2. global' \in [Service -> {0, 1}]
    BY <1>global, <1>3, <1>14 DEF dispatch_pop
  <2>3. UNCHANGED <<slot, ref, ctx, mem, release, Q, total, drops, early, orphans,
                     known, budget>>
    BY <1>14 DEF dispatch_pop
  <2> QED BY <1>all, <2>1, <2>2, <2>3 DEF Tables
<1>15. CASE use_push(t)
  <2>1. len' \in [Service -> Nat]
    BY <1>len, <1>3, <1>15 DEF use_push, Schedule
  <2>2. global' \in [Service -> {0, 1}]
    BY <1>global, <1>3, <1>15 DEF use_push, Schedule
  <2>3. Q' \in Seq(Service)
    BY <1>Q, <1>3, <1>4, <1>15 DEF use_push, Schedule
  <2>4. UNCHANGED <<slot, ref, ctx, mem, release, total, drops, early, orphans,
                     known, budget>>
    BY <1>15 DEF use_push, Schedule
  <2> QED BY <1>all, <2>1, <2>2, <2>3, <2>4 DEF Tables
<1>16. CASE use_other(t) \/ abort_done(t) \/ init_fail(t) \/ new_done(t)
  <2>1. UNCHANGED <<slot, ref, ctx, mem, len, global, release, Q, total, drops,
                     early, orphans, known, budget>>
    BY <1>16 DEF use_other, abort_done, init_fail, new_done
  <2> QED BY <1>all, <2>1 DEF Tables
<1>17. CASE abort_release(t)
  <2>1. ref' \in [Service -> Int]
    BY <1>ref, <1>3, <1>17 DEF abort_release, Drop, ReleaseRef
  <2>2. drops' \in [Service -> Nat]
    BY <1>drops, <1>3, <1>17 DEF abort_release, Drop, ReleaseRef
  <2>3. UNCHANGED <<slot, ctx, mem, len, global, release, Q, total, early, orphans,
                     known, budget>>
    BY <1>17 DEF abort_release, Drop, ReleaseRef
  <2> QED BY <1>all, <2>1, <2>2, <2>3 DEF Tables
<1>18. CASE new_queue(t)
  <2>1. ctx' \in [Service -> {"none", "raw", "ready", "freed"}]
    BY <1>ctx, <1>3, <1>18 DEF new_queue
  <2>2. mem' \in [Service -> {"none", "alloc", "freed"}]
    BY <1>mem, <1>3, <1>18 DEF new_queue
  <2>3. global' \in [Service -> {0, 1}]
    BY <1>global, <1>3, <1>18 DEF new_queue
  <2>4. total' \in Int
    BY <1>total, <1>18 DEF new_queue
  <2>5. UNCHANGED <<slot, ref, len, release, Q, drops, early, orphans, known,
                     budget>>
    BY <1>18 DEF new_queue
  <2> QED BY <1>all, <2>1, <2>2, <2>3, <2>4, <2>5 DEF Tables
<1>19. CASE init_ok(t)
  <2>1. len' \in [Service -> Nat]
    BY <1>len, <1>3, <1>19 DEF init_ok
  <2>2. UNCHANGED <<slot, ref, ctx, mem, global, release, Q, total, drops, early,
                     orphans, known, budget>>
    BY <1>19 DEF init_ok
  <2> QED BY <1>all, <2>1, <2>2 DEF Tables
<1>20. CASE new_publish(t)
  <2>1. Q' \in Seq(Service)
    BY <1>Q, <1>3, <1>4, <1>20 DEF new_publish
  <2>2. known' \subseteq Service
    BY <1>known, <1>3, <1>20 DEF new_publish
  <2>3. UNCHANGED <<slot, ref, ctx, mem, len, global, release, total, drops, early,
                     orphans, budget>>
    BY <1>20 DEF new_publish
  <2> QED BY <1>all, <2>1, <2>2, <2>3 DEF Tables
<1>21. CASE force_release(t)
  <2>1. ref' \in [Service -> Int]
    BY <1>ref, <1>3, <1>21 DEF force_release, Drop, ReleaseRef
  <2>2. drops' \in [Service -> Nat]
    BY <1>drops, <1>3, <1>21 DEF force_release, Drop, ReleaseRef
  <2>3. UNCHANGED <<slot, ctx, mem, len, global, release, Q, total, early, orphans,
                     known, budget>>
    BY <1>21 DEF force_release, Drop, ReleaseRef
  <2> QED BY <1>all, <2>1, <2>2, <2>3 DEF Tables
<1>22. CASE force_free(t)
  <2>1. mem' \in [Service -> {"none", "alloc", "freed"}]
    BY <1>mem, <1>3, <1>22 DEF force_free, QueueFree
  <2>2. len' \in [Service -> Nat]
    BY <1>len, <1>3, <1>22 DEF force_free, QueueFree
  <2>3. global' \in [Service -> {0, 1}]
    BY <1>global, <1>3, <1>22 DEF force_free, QueueFree
  <2>4. Q' \in Seq(Service)
    BY <1>Q, <1>3, <1>4, <1>22 DEF force_free, QueueFree
  <2>5. early' \in Nat
    BY <1>early, <1>22 DEF force_free, QueueFree
  <2>6. orphans' \subseteq Service
    BY <1>orphans, <1>3, <1>22 DEF force_free, QueueFree
  <2>7. UNCHANGED <<slot, ref, ctx, release, total, drops, known, budget>>
    BY <1>22 DEF force_free, QueueFree
  <2> QED BY <1>all, <2>1, <2>2, <2>3, <2>4, <2>5, <2>6, <2>7 DEF Tables
<1>23. CASE \E d \in Service : grab_target(t, d)
  <2>1. ref' \in [Service -> Int]
    BY <1>ref, <1>3, <1>23 DEF grab_target
  <2>2. budget' \in [send : Nat, kill : Nat, abort : Nat]
    BY <1>budget, <1>23 DEF grab_target
  <2>3. UNCHANGED <<slot, ctx, mem, len, global, release, Q, total, drops, early,
                     orphans, known>>
    BY <1>23 DEF grab_target
  <2> QED BY <1>all, <2>1, <2>2, <2>3 DEF Tables
<1>24. CASE \E d \in Service : cmd_kill(t, d)
  <2>1. ref' \in [Service -> Int]
    BY <1>ref, <1>3, <1>24 DEF cmd_kill, Drop, ReleaseRef
  <2>2. drops' \in [Service -> Nat]
    BY <1>drops, <1>3, <1>24 DEF cmd_kill, Drop, ReleaseRef
  <2>3. budget' \in [send : Nat, kill : Nat, abort : Nat]
    BY <1>budget, <1>24 DEF cmd_kill, Drop, ReleaseRef
  <2>4. UNCHANGED <<slot, ctx, mem, len, global, release, Q, total, early, orphans,
                     known>>
    BY <1>24 DEF cmd_kill, Drop, ReleaseRef
  <2> QED BY <1>all, <2>1, <2>2, <2>3, <2>4 DEF Tables
<1>25. CASE cmd_abort(t)
  <2>1. budget' \in [send : Nat, kill : Nat, abort : Nat]
    BY <1>budget, <1>25 DEF cmd_abort
  <2>2. UNCHANGED <<slot, ref, ctx, mem, len, global, release, Q, total, drops,
                     early, orphans, known>>
    BY <1>25 DEF cmd_abort
  <2> QED BY <1>all, <2>1, <2>2 DEF Tables
<1>26. CASE new_regist(t)
  <2>1. slot' \in [Service -> {"none", "used", "gone"}]
    BY <1>slot, <1>3, <1>26 DEF new_regist
  <2>2. ref' \in [Service -> Int]
    BY <1>ref, <1>3, <1>26 DEF new_regist
  <2>3. ctx' \in [Service -> {"none", "raw", "ready", "freed"}]
    BY <1>ctx, <1>3, <1>26 DEF new_regist
  <2>4. UNCHANGED <<mem, len, global, release, Q, total, drops, early, orphans,
                     known, budget>>
    BY <1>26 DEF new_regist
  <2> QED BY <1>all, <2>1, <2>2, <2>3, <2>4 DEF Tables
<1>27. CASE init_expose(t)
  <2>1. known' \subseteq Service
    BY <1>known, <1>3, <1>27 DEF init_expose
  <2>2. UNCHANGED <<slot, ref, ctx, mem, len, global, release, Q, total, drops,
                     early, orphans, budget>>
    BY <1>27 DEF init_expose
  <2> QED BY <1>all, <2>1, <2>2 DEF Tables
<1> QED BY <1>6, <1>7, <1>8, <1>9, <1>10, <1>11, <1>12, <1>13, <1>14, <1>15, <1>16,
           <1>17, <1>18, <1>19, <1>20, <1>21, <1>22, <1>23, <1>24, <1>25, <1>26,
           <1>27 DEF Run, Ask

-----------------------------------------------------------------------------
(* Reference counts *)

\* What a thread with registers j contributes to Grabs(h).
Grab(j, h) ==
    One(j.run = h) + One(j.pc = "pop" /\ j.q = h)
      + One(j.pc \in {"use", "rel", "init", "publish"} /\ j.tgt = h)

\* A step of t changes Grabs(h) by what it changes in t's registers.
LEMMA GrabsStep ==
    ASSUME NEW t \in Thread, \A u \in Thread : u # t => th'[u] = th[u],
           NEW h \in Service
    PROVE  /\ Grabs(h) \in Nat /\ Grabs(h)' \in Nat
           /\ Grabs(h)' = Grabs(h) + Grab(th'[t], h) - Grab(th[t], h)
<1> USE ServiceFacts
<1>1. /\ Cardinality(Runners(h)) \in Nat /\ Cardinality(Runners(h)') \in Nat
      /\ Cardinality(Runners(h)') = Cardinality(Runners(h))
            + One(th'[t].run = h) - One(th[t].run = h)
  <2>1. /\ Runners(h) \in SUBSET Thread /\ Runners(h)' \in SUBSET Thread
        /\ \A u \in Thread : u # t => (u \in Runners(h) <=> u \in Runners(h)')
        /\ t \in Runners(h) <=> th[t].run = h
        /\ t \in Runners(h)' <=> th'[t].run = h
    BY DEF Runners
  <2> QED BY <2>1, CountStep DEF One
<1>2. /\ Cardinality(Lookers(h)) \in Nat /\ Cardinality(Lookers(h)') \in Nat
      /\ Cardinality(Lookers(h)') = Cardinality(Lookers(h))
            + One(th'[t].pc = "pop" /\ th'[t].q = h) - One(th[t].pc = "pop" /\ th[t].q = h)
  <2>1. /\ Lookers(h) \in SUBSET Thread /\ Lookers(h)' \in SUBSET Thread
        /\ \A u \in Thread : u # t => (u \in Lookers(h) <=> u \in Lookers(h)')
        /\ t \in Lookers(h) <=> th[t].pc = "pop" /\ th[t].q = h
        /\ t \in Lookers(h)' <=> th'[t].pc = "pop" /\ th'[t].q = h
    BY DEF Lookers
  <2> QED BY <2>1, CountStep DEF One
<1>3. /\ Cardinality(Users(h)) \in Nat /\ Cardinality(Users(h)') \in Nat
      /\ Cardinality(Users(h)') = Cardinality(Users(h))
            + One(th'[t].pc \in {"use", "rel", "init", "publish"} /\ th'[t].tgt = h)
            - One(th[t].pc \in {"use", "rel", "init", "publish"} /\ th[t].tgt = h)
  <2>1. /\ Users(h) \in SUBSET Thread /\ Users(h)' \in SUBSET Thread
        /\ \A u \in Thread : u # t => (u \in Users(h) <=> u \in Users(h)')
        /\ t \in Users(h) <=> th[t].pc \in {"use", "rel", "init", "publish"} /\ th[t].tgt = h
        /\ t \in Users(h)' <=> th'[t].pc \in {"use", "rel", "init", "publish"} /\ th'[t].tgt = h
    BY DEF Users
  <2> QED BY <2>1, CountStep DEF One
<1>4. /\ Grabs(h) = Cardinality(Runners(h)) + Cardinality(Lookers(h)) + Cardinality(Users(h))
      /\ Grabs(h)' = Cardinality(Runners(h)') + Cardinality(Lookers(h)') + Cardinality(Users(h)')
  BY DEF Grabs
<1> QED BY <1>1, <1>2, <1>3, <1>4 DEF Grab, One

\* The steps that neither grab nor release: a grab may change hands inside
\* the thread, as when pixel_dispatch turns the one it pops with into the one
\* its callback runs under.
Neutral(t) ==
    \/ handle_remove(t) \/ queue_mark_free(t) \/ free_ctx(t) \/ total_dec(t)
    \/ dispatch_pop_global(t) \/ dispatch_free(t) \/ dispatch_pop(t)
    \/ dispatch_next(t) \/ dispatch_swap(t) \/ use_push(t) \/ use_other(t)
    \/ abort_release(t) \/ abort_done(t) \/ new_queue(t) \/ init_ok(t)
    \/ init_fail(t) \/ new_publish(t) \/ new_done(t) \/ force_release(t)
    \/ force_free(t) \/ (\E d \in Service : cmd_kill(t, d))
    \/ cmd_abort(t) \/ new_regist(t) \/ init_expose(t)

LEMMA NeutralGrab ==
    ASSUME Types, NEW t \in Thread, Neutral(t), NEW h \in Service
    PROVE  Grab(th'[t], h) = Grab(th[t], h)
<1> USE ServiceFacts DEF Registers, Shape, Place, Sub, Dispatch, Callback, Targets, Returns,
                         InNew, Grab, One
<1>0. th \in [Thread -> Registers] /\ Shape(th[t]) /\ th[t] \in Registers
  BY DEF Types, Threads
<1>1. CASE handle_remove(t)
  <2>1. CASE Go(t, "mark")
    BY <1>0, <1>1, <2>1 DEF handle_remove, Go
  <2>2. CASE Return(t, FALSE)
    BY <1>0, <1>1, <2>2 DEF handle_remove, Return
  <2> QED BY <1>1, <2>1, <2>2 DEF handle_remove
<1>2. CASE queue_mark_free(t)
  BY <1>0, <1>2 DEF queue_mark_free, Go
<1>3. CASE free_ctx(t)
  BY <1>0, <1>3 DEF free_ctx, Return
<1>4. CASE total_dec(t)
  BY <1>0, <1>4 DEF total_dec
<1>5. CASE dispatch_pop_global(t)
  BY <1>0, <1>5 DEF dispatch_pop_global
<1>6. CASE dispatch_free(t)
  BY <1>0, <1>6 DEF dispatch_free
<1>7. CASE dispatch_pop(t)
  BY <1>0, <1>7 DEF dispatch_pop
<1>8. CASE dispatch_next(t)
  BY <1>0, <1>8 DEF dispatch_next
<1>9. CASE dispatch_swap(t)
  <2>1. th[t].pc = "swap" /\ th'[t].pc = "rel" /\ th'[t].run = None /\ th'[t].tgt = th[t].run
    BY <1>0, <1>9 DEF dispatch_swap
  <2> QED BY <2>1
<1>10. CASE use_push(t) \/ use_other(t)
  BY <1>0, <1>10 DEF use_push, use_other, Go
<1>11. CASE abort_release(t)
  <2>1. PICK d \in th[t].todo :
           th[t].pc = "abort" /\ ReleaseRef(t, [th[t] EXCEPT !.todo = @ \ {d}], d, "abort")
    BY <1>11 DEF abort_release, Drop
  <2>2. th'[t].run = th[t].run /\ th'[t].pc \in {"remove", "abort"}
    BY <1>0, <2>1 DEF ReleaseRef
  <2> QED BY <1>0, <2>1, <2>2
<1>12. CASE abort_done(t)
  BY <1>0, <1>12 DEF abort_done, Go
<1>13. CASE new_queue(t) \/ init_ok(t)
  BY <1>0, <1>13 DEF new_queue, init_ok, Go
<1>14. CASE init_fail(t) \/ new_publish(t) \/ new_done(t)
  BY <1>0, <1>14 DEF init_fail, new_publish, new_done
<1>15. CASE force_release(t)
  <2>1. th[t].pc = "n_force" /\ ReleaseRef(t, th[t], th[t].tgt, "n_forced")
    BY <1>15 DEF force_release, Drop
  <2>2. th'[t].run = th[t].run /\ th'[t].pc \in {"remove", "n_forced"}
    BY <1>0, <2>1 DEF ReleaseRef
  <2> QED BY <1>0, <2>1, <2>2
<1>16. CASE force_free(t)
  BY <1>0, <1>16 DEF force_free
<1>17. CASE \E d \in Service : cmd_kill(t, d)
  <2>1. PICK d \in Service : th[t].pc = "cb" /\ ReleaseRef(t, th[t], d, "cb")
    BY <1>17 DEF cmd_kill, Drop
  <2>2. th'[t].run = th[t].run /\ th'[t].pc \in {"remove", "cb"}
    BY <1>0, <2>1 DEF ReleaseRef
  <2> QED BY <1>0, <2>1, <2>2
<1>18. CASE cmd_abort(t)
  BY <1>0, <1>18 DEF cmd_abort
<1>19. CASE new_regist(t)
  BY <1>0, <1>19 DEF new_regist
<1>20. CASE init_expose(t)
  BY <1>0, <1>20 DEF init_expose
<1> QED BY <1>1, <1>2, <1>3, <1>4, <1>5, <1>6, <1>7, <1>8, <1>9, <1>10, <1>11, <1>12,
           <1>13, <1>14, <1>15, <1>16, <1>17, <1>18, <1>19, <1>20 DEF Neutral

\* handle_grab adds one grab of its handle if that is registered, and
\* handle_release takes one back.
LEMMA PairedGrab ==
    ASSUME Types, NEW t \in Thread, NEW h \in Service
    PROVE  /\ handle_release(t) =>
                 Grab(th'[t], h) = Grab(th[t], h) - One(h = th[t].tgt)
           /\ dispatch_grab(t) =>
                 Grab(th'[t], h) = Grab(th[t], h) + One(slot[h] = "used" /\ h = th[t].q)
           /\ new_grab(t) =>
                 Grab(th'[t], h) = Grab(th[t], h) + One(slot[h] = "used" /\ h = th[t].tgt)
           /\ \A d \in Service : grab_target(t, d) =>
                 Grab(th'[t], h) = Grab(th[t], h) + One(slot[h] = "used" /\ h = d)
<1> USE ServiceFacts DEF Registers, Shape, Place, Sub, Dispatch, Callback, Targets, Returns,
                         InNew, Grab, One
<1>0. th \in [Thread -> Registers] /\ Shape(th[t]) /\ th[t] \in Registers
  BY DEF Types, Threads
<1>1. ASSUME handle_release(t)
      PROVE  Grab(th'[t], h) = Grab(th[t], h) - One(h = th[t].tgt)
  <2>1. /\ th[t].pc = "rel" /\ th'[t].run = th[t].run
        /\ th'[t].pc = "remove" \/ th'[t].pc = th[t].ret
    BY <1>0, <1>1 DEF handle_release, ReleaseRef
  <2>2. th[t].ret = "grab" => th[t].run = None
    BY <1>0, <2>1
  <2> QED BY <1>0, <2>1, <2>2
<1>2. ASSUME dispatch_grab(t)
      PROVE  Grab(th'[t], h) = Grab(th[t], h) + One(slot[h] = "used" /\ h = th[t].q)
  BY <1>0, <1>2 DEF dispatch_grab, Go
<1>3. ASSUME new_grab(t)
      PROVE  Grab(th'[t], h) = Grab(th[t], h) + One(slot[h] = "used" /\ h = th[t].tgt)
  BY <1>0, <1>3 DEF new_grab, Go
<1>4. ASSUME NEW d \in Service, grab_target(t, d)
      PROVE  Grab(th'[t], h) = Grab(th[t], h) + One(slot[h] = "used" /\ h = d)
  BY <1>0, <1>4 DEF grab_target
<1> QED BY <1>1, <1>2, <1>3, <1>4

\* KILL, ABORT and pixel_force_free release a handle without a grab.
Kills(t) ==
    abort_release(t) \/ force_release(t) \/ \E d \in Service : cmd_kill(t, d)

LEMMA KillStep ==
    ASSUME Types, NEW t \in Thread, Kills(t)
    PROVE  \E d \in Service :
              /\ ref' = IF slot[d] = "used" THEN [ref EXCEPT ![d] = @ - 1] ELSE ref
              /\ drops' = IF slot[d] = "used" THEN [drops EXCEPT ![d] = @ + 1] ELSE drops
              /\ UNCHANGED <<slot, ctx>>
<1>1. th[t].todo \subseteq Service /\ (th[t].pc = "n_force" => th[t].tgt \in Service)
  BY DEF Types, Threads, Registers, Shape, Targets
<1>2. CASE abort_release(t)
  BY <1>1, <1>2 DEF abort_release, Drop, ReleaseRef
<1>3. CASE force_release(t)
  BY <1>1, <1>3 DEF force_release, Drop, ReleaseRef
<1>4. CASE \E d \in Service : cmd_kill(t, d)
  BY <1>4 DEF cmd_kill, Drop, ReleaseRef
<1> QED BY <1>2, <1>3, <1>4 DEF Kills

\* The steps that touch neither slots nor counts.
LEMMA QuietStep ==
    ASSUME Types, NEW t \in Thread, Neutral(t), ~Kills(t), ~handle_remove(t), ~new_regist(t)
    PROVE  UNCHANGED <<slot, ref, drops>>
<1> USE DEF handles, history
<1>1. CASE queue_mark_free(t) \/ free_ctx(t) \/ total_dec(t)
  BY <1>1 DEF queue_mark_free, free_ctx, total_dec
<1>2. CASE dispatch_pop_global(t) \/ dispatch_free(t) \/ dispatch_pop(t)
           \/ dispatch_next(t) \/ dispatch_swap(t)
  BY <1>2 DEF dispatch_pop_global, dispatch_free, dispatch_pop, dispatch_next, dispatch_swap
<1>3. CASE use_push(t) \/ use_other(t) \/ abort_done(t) \/ cmd_abort(t)
  BY <1>3 DEF use_push, use_other, abort_done, cmd_abort
<1>4. CASE new_queue(t) \/ init_ok(t) \/ init_fail(t) \/ new_publish(t) \/ new_done(t)
           \/ init_expose(t)
  BY <1>4 DEF new_queue, init_ok, init_fail, new_publish, new_done, init_expose
<1>5. CASE force_free(t)
  BY <1>5 DEF force_free
<1> QED BY <1>1, <1>2, <1>3, <1>4, <1>5 DEF Neutral, Kills

\* A slot goes from "none" to "used" in handle_regist and from "used" to
\* "gone" in handle_remove, once its count is down; only a registered
\* handle's count is written, and its change is that of the grabs, less the
\* releases that pair with no grab.
SlotRule(t, h) ==
    /\ slot'[h] # slot[h] =>
          \/ /\ handle_remove(t) /\ th[t].tgt = h /\ slot[h] = "used" /\ ref[h] <= 0
             /\ slot'[h] = "gone" /\ drops'[h] = drops[h]
             /\ Grab(th'[t], h) = Grab(th[t], h)
          \/ /\ new_regist(t) /\ slot[h] = "none" /\ slot'[h] = "used" /\ ref'[h] = 1
             /\ drops'[h] = drops[h] /\ Grab(th'[t], h) = Grab(th[t], h)
             /\ ctx'[h] = "raw"
    /\ slot[h] = "used" =>
          /\ drops'[h] >= drops[h]
          /\ ref'[h] + drops'[h] = ref[h] + drops[h] + Grab(th'[t], h) - Grab(th[t], h)
    /\ slot[h] # "used" =>
          drops'[h] = drops[h] /\ Grab(th'[t], h) <= Grab(th[t], h)

LEMMA SlotStep ==
    ASSUME Types, NEW t \in Thread, Run(t) \/ Ask(t), NEW h \in Service
    PROVE  SlotRule(t, h)
<1> USE DEF SlotRule
<1>0. /\ slot \in [Service -> {"none", "used", "gone"}] /\ ref \in [Service -> Int]
      /\ drops \in [Service -> Nat] /\ ctx \in [Service -> {"none", "raw", "ready", "freed"}]
  BY DEF Types, Tables
<1>a. /\ th[t].pc \in Targets => th[t].tgt \in Service
      /\ th[t].pc = "grab" => th[t].q \in Service
  BY DEF Types, Threads, Registers, Shape, Place, Sub
<1>b. Grab(th[t], h) \in Nat /\ Grab(th'[t], h) \in Nat
  BY DEF Grab, One
<1>1. CASE Neutral(t) /\ ~Kills(t) /\ ~handle_remove(t) /\ ~new_regist(t)
  <2>1. UNCHANGED <<slot, ref, drops>> /\ Grab(th'[t], h) = Grab(th[t], h)
    BY <1>1, QuietStep, NeutralGrab
  <2> QED BY <1>0, <1>b, <2>1
<1>2. CASE Kills(t)
  <2>1. Grab(th'[t], h) = Grab(th[t], h)
    BY <1>2, NeutralGrab DEF Kills, Neutral
  <2>2. PICK d \in Service :
              /\ ref' = IF slot[d] = "used" THEN [ref EXCEPT ![d] = @ - 1] ELSE ref
              /\ drops' = IF slot[d] = "used" THEN [drops EXCEPT ![d] = @ + 1] ELSE drops
              /\ UNCHANGED <<slot, ctx>>
    BY <1>2, KillStep
  <2> QED BY <1>0, <1>b, <2>1, <2>2
<1>3. CASE handle_remove(t)
  <2>1. Grab(th'[t], h) = Grab(th[t], h)
    BY <1>3, NeutralGrab DEF Neutral
  <2>2. /\ UNCHANGED <<ref, drops>>
        /\ \/ slot' = slot
           \/ /\ slot[th[t].tgt] = "used" /\ ref[th[t].tgt] <= 0
              /\ slot' = [slot EXCEPT ![th[t].tgt] = "gone"]
    BY <1>3 DEF handle_remove, history
  <2> QED BY <1>0, <1>b, <1>3, <2>1, <2>2
<1>4. CASE new_regist(t)
  <2>1. Grab(th'[t], h) = Grab(th[t], h)
    BY <1>4, NeutralGrab DEF Neutral
  <2>2. \E g \in Service : /\ slot[g] = "none" /\ slot' = [slot EXCEPT ![g] = "used"]
                           /\ ref' = [ref EXCEPT ![g] = 1] /\ drops' = drops
                           /\ ctx' = [ctx EXCEPT ![g] = "raw"]
    BY <1>4 DEF new_regist, history
  <2> QED BY <1>0, <1>b, <1>4, <2>1, <2>2
<1>5. CASE handle_release(t)
  <2>1. Grab(th'[t], h) = Grab(th[t], h) - One(h = th[t].tgt)
    BY <1>5, PairedGrab
  <2>2. /\ ref' = IF slot[th[t].tgt] = "used" THEN [ref EXCEPT ![th[t].tgt] = @ - 1] ELSE ref
        /\ UNCHANGED <<slot, drops>> /\ th[t].tgt \in Service
    BY <1>5, <1>a DEF handle_release, ReleaseRef, history, Targets
  <2> QED BY <1>0, <1>b, <2>1, <2>2 DEF One
<1>6. CASE dispatch_grab(t)
  <2>1. Grab(th'[t], h) = Grab(th[t], h) + One(slot[h] = "used" /\ h = th[t].q)
    BY <1>6, PairedGrab
  <2>2. /\ ref' = IF slot[th[t].q] = "used" THEN [ref EXCEPT ![th[t].q] = @ + 1] ELSE ref
        /\ UNCHANGED <<slot, drops>> /\ th[t].q \in Service
    BY <1>6, <1>a DEF dispatch_grab, history
  <2> QED BY <1>0, <1>b, <2>1, <2>2 DEF One
<1>7. CASE new_grab(t)
  <2>1. Grab(th'[t], h) = Grab(th[t], h) + One(slot[h] = "used" /\ h = th[t].tgt)
    BY <1>7, PairedGrab
  <2>2. /\ ref' = IF slot[th[t].tgt] = "used" THEN [ref EXCEPT ![th[t].tgt] = @ + 1] ELSE ref
        /\ UNCHANGED <<slot, drops>> /\ th[t].tgt \in Service
    BY <1>7, <1>a DEF new_grab, history, Targets
  <2> QED BY <1>0, <1>b, <2>1, <2>2 DEF One
<1>8. ASSUME NEW d \in Service, grab_target(t, d) PROVE SlotRule(t, h)
  <2>1. Grab(th'[t], h) = Grab(th[t], h) + One(slot[h] = "used" /\ h = d)
    BY <1>8, PairedGrab
  <2>2. /\ ref' = IF slot[d] = "used" THEN [ref EXCEPT ![d] = @ + 1] ELSE ref
        /\ UNCHANGED <<slot, drops>>
    BY <1>8 DEF grab_target, history
  <2> QED BY <1>0, <1>b, <2>1, <2>2 DEF One
<1> QED BY <1>1, <1>2, <1>3, <1>4, <1>5, <1>6, <1>7, <1>8 DEF Run, Ask, Neutral

LEMMA CountsNext ==
    ASSUME Types, NEW t \in Thread, Run(t) \/ Ask(t), NEW h \in Service, Counts(h)
    PROVE  Counts(h)'
<1>1. SlotRule(t, h)
  BY SlotStep
<1>2. /\ Grabs(h) \in Nat /\ Grabs(h)' \in Nat
      /\ Grabs(h)' = Grabs(h) + Grab(th'[t], h) - Grab(th[t], h)
  BY ThreadsNext, GrabsStep
<1>3. /\ slot[h] \in {"none", "used", "gone"} /\ ref[h] \in Int /\ drops[h] \in Nat
      /\ slot'[h] \in {"none", "used", "gone"} /\ ref'[h] \in Int /\ drops'[h] \in Nat
  BY TypesNext DEF Types, Tables
<1>4. Grab(th[t], h) \in Nat /\ Grab(th'[t], h) \in Nat
  BY DEF Grab, One
<1>5. Standing(h) \in Nat /\ (h # Log => Standing(h) = 1)
  BY DEF Standing
<1> HIDE DEF Grabs
<1>6. CASE slot'[h] = slot[h]
  <2>1. CASE slot[h] = "none"
    BY <1>1, <1>2, <1>3, <1>4, <1>6, <2>1 DEF SlotRule, Counts
  <2>2. CASE slot[h] = "used"
    BY <1>1, <1>2, <1>3, <1>4, <1>5, <1>6, <2>2 DEF SlotRule, Counts
  <2>3. CASE slot[h] = "gone"
    BY <1>1, <1>2, <1>3, <1>4, <1>5, <1>6, <2>3 DEF SlotRule, Counts, OverReleased
  <2> QED BY <1>3, <2>1, <2>2, <2>3
<1>7. CASE slot'[h] # slot[h]
  <2>1. CASE slot[h] = "used"
    BY <1>1, <1>2, <1>3, <1>4, <1>5, <1>7, <2>1 DEF SlotRule, Counts, OverReleased
  <2>2. CASE slot[h] = "none"
    BY <1>1, <1>2, <1>3, <1>4, <1>5, <1>7, <2>2 DEF SlotRule, Counts, OverReleased
  <2> QED BY <1>1, <1>7, <2>1, <2>2 DEF SlotRule
<1> QED BY <1>6, <1>7

LEMMA TypesInit == Init => Types
<1> SUFFICES ASSUME Init PROVE Types
  OBVIOUS
<1> USE ServiceFacts DEF Init
<1>1. Tables
  <2>1. Q \in Seq(Service)
    OBVIOUS
  <2>2. budget \in [send : Nat, kill : Nat, abort : Nat]
    BY ActorAssumption
  <2>3. known \subseteq Service /\ orphans \subseteq Service /\ total \in Int /\ early \in Nat
    OBVIOUS
  <2> QED BY <2>1, <2>2, <2>3 DEF Tables
<1>2. Threads
  BY DEF Threads, Idle, Registers, Shape, Place, Sub, Dispatch, Callback, Returns, Targets
<1> QED BY <1>1, <1>2 DEF Types

\* Nobody has grabbed anything when pixel_start has launched log and the
\* bootstrap service.
LEMMA CountsInit == Init => \A h \in Service : Counts(h)
<1> SUFFICES ASSUME Init, NEW h \in Service PROVE Counts(h)
  OBVIOUS
<1>1. Runners(h) = {} /\ Lookers(h) = {} /\ Users(h) = {}
  BY ServiceFacts DEF Init, Idle, Runners, Lookers, Users
<1>2. Grabs(h) = 0
  BY <1>1, FS_EmptySet DEF Grabs
<1>3. h \in Int /\ Service \subseteq Int
  BY DEF Service
<1>4. /\ slot[h] = IF h <= 2 THEN "used" ELSE "none"
      /\ ref[h] = IF h = 1 THEN 2 ELSE IF h = 2 THEN 1 ELSE 0
      /\ drops[h] = 0
  BY DEF Init, Log, Boot
<1>5. h = 1 \/ h = 2 \/ ~(h <= 2)
  BY DEF Service
<1> HIDE DEF Grabs
<1> QED BY <1>2, <1>3, <1>4, <1>5 DEF Counts, Standing, Log

CountInv == Types /\ \A h \in Service : Counts(h)

LEMMA CountInvNext == CountInv /\ [Next]_vars => CountInv'
<1> SUFFICES ASSUME CountInv, [Next]_vars PROVE CountInv'
  OBVIOUS
<1>1. CASE UNCHANGED vars
  <2>1. Types'
    BY <1>1 DEF vars, CountInv, Types, Tables, Threads
  <2>2. \A h \in Service : Grabs(h)' = Grabs(h)
    BY <1>1 DEF vars, Grabs, Runners, Lookers, Users
  <2> QED BY <1>1, <2>1, <2>2 DEF vars, CountInv, Counts, OverReleased
<1>2. ASSUME NEW t \in Thread, Run(t) \/ Ask(t) PROVE CountInv'
  BY <1>2, TypesNext, CountsNext DEF CountInv
<1> QED BY <1>1, <1>2 DEF Next

\* RefExact: however threads interleave grabs, releases, kills and removals,
\* slot->ref of a registered handle is the standing references left plus the
\* grabs in progress, and every variable keeps its type.
THEOREM RefsCounted == Spec => []RefExact
<1>1. Init => CountInv
  BY TypesInit, CountsInit DEF CountInv
<1>2. CountInv => RefExact
  BY DEF CountInv, RefExact, Types, Tables, Threads, Registers, TypeOK, Counts
<1> QED BY <1>1, <1>2, CountInvNext, PTL DEF Spec

-----------------------------------------------------------------------------
(* Where queues are *)

\* A thread with registers j launches h and has not yet published its queue.
Launches(j, h) ==
    /\ j.tgt = h
    /\ \/ j.pc \in {"n_grab", "init", "publish", "n_force", "n_forced"}
       \/ j.ret \in {"n_force", "n_forced"}

\* The places that hold queue h: entries of the global list, and registers.
Listed(h)    == {i \in 1 .. Len(Q) : Q[i] = h}
Current(h)   == {t \in Thread : th[t].q = h}
Following(h) == {t \in Thread : th[t].nxt = h}
Launching(h) == {t \in Thread : Launches(th[t], h)}

Hands(h)  == Cardinality(Current(h)) + Cardinality(Following(h)) + Cardinality(Launching(h))
Places(h) == Cardinality(Listed(h)) + Hands(h)

\* What a thread with registers j contributes to Hands(h).
Hand(j, h) == One(j.q = h) + One(j.nxt = h) + One(Launches(j, h))

LEMMA HandsStep ==
    ASSUME NEW t \in Thread, \A u \in Thread : u # t => th'[u] = th[u],
           NEW h \in Service
    PROVE  /\ Hands(h) \in Nat /\ Hands(h)' \in Nat
           /\ Hands(h)' = Hands(h) + Hand(th'[t], h) - Hand(th[t], h)
<1> USE ServiceFacts
<1>1. /\ Cardinality(Current(h)) \in Nat /\ Cardinality(Current(h)') \in Nat
      /\ Cardinality(Current(h)') = Cardinality(Current(h))
            + One(th'[t].q = h) - One(th[t].q = h)
  <2>1. /\ Current(h) \in SUBSET Thread /\ Current(h)' \in SUBSET Thread
        /\ \A u \in Thread : u # t => (u \in Current(h) <=> u \in Current(h)')
        /\ t \in Current(h) <=> th[t].q = h
        /\ t \in Current(h)' <=> th'[t].q = h
    BY DEF Current
  <2> QED BY <2>1, CountStep DEF One
<1>2. /\ Cardinality(Following(h)) \in Nat /\ Cardinality(Following(h)') \in Nat
      /\ Cardinality(Following(h)') = Cardinality(Following(h))
            + One(th'[t].nxt = h) - One(th[t].nxt = h)
  <2>1. /\ Following(h) \in SUBSET Thread /\ Following(h)' \in SUBSET Thread
        /\ \A u \in Thread : u # t => (u \in Following(h) <=> u \in Following(h)')
        /\ t \in Following(h) <=> th[t].nxt = h
        /\ t \in Following(h)' <=> th'[t].nxt = h
    BY DEF Following
  <2> QED BY <2>1, CountStep DEF One
<1>3. /\ Cardinality(Launching(h)) \in Nat /\ Cardinality(Launching(h)') \in Nat
      /\ Cardinality(Launching(h)') = Cardinality(Launching(h))
            + One(Launches(th'[t], h)) - One(Launches(th[t], h))
  <2>1. /\ Launching(h) \in SUBSET Thread /\ Launching(h)' \in SUBSET Thread
        /\ \A u \in Thread : u # t => (u \in Launching(h) <=> u \in Launching(h)')
        /\ t \in Launching(h) <=> Launches(th[t], h)
        /\ t \in Launching(h)' <=> Launches(th'[t], h)
    BY DEF Launching
  <2> QED BY <2>1, CountStep DEF One
<1>4. /\ Hands(h) = Cardinality(Current(h)) + Cardinality(Following(h))
                    + Cardinality(Launching(h))
      /\ Hands(h)' = Cardinality(Current(h)') + Cardinality(Following(h)')
                     + Cardinality(Launching(h)')
  BY DEF Hands
<1> QED BY <1>1, <1>2, <1>3, <1>4 DEF Hand, One

\* queue_push_global and queue_pop_global add and take one entry.
LEMMA ListedStep ==
    ASSUME Q \in Seq(Service), NEW h \in Service
    PROVE  /\ Cardinality(Listed(h)) \in Nat
           /\ \A x \in Service : Q' = Append(Q, x) =>
                 Cardinality(Listed(h)') = Cardinality(Listed(h)) + One(h = x)
           /\ Q # <<>> /\ Q' = Tail(Q) =>
                 Cardinality(Listed(h)') = Cardinality(Listed(h)) - One(h = Head(Q))
           /\ Q' = Q => Cardinality(Listed(h)') = Cardinality(Listed(h))
<1>1. IsFiniteSet(Listed(h)) /\ Cardinality(Listed(h)) \in Nat /\ Len(Q) \in Nat
  <2>1. Len(Q) \in Nat
    BY LenProperties
  <2>2. IsFiniteSet(1 .. Len(Q))
    BY <2>1, FS_Interval
  <2> QED BY <2>1, <2>2, FS_Subset, FS_CardinalityType DEF Listed
<1>2. ASSUME NEW x \in Service, Q' = Append(Q, x)
      PROVE  Cardinality(Listed(h)') = Cardinality(Listed(h)) + One(h = x)
  <2>1. Len(Q') = Len(Q) + 1 /\ \A i \in 1 .. Len(Q) + 1 : Q'[i] = IF i <= Len(Q) THEN Q[i] ELSE x
    BY <1>2, AppendProperties
  <2>2. CASE h = x
    <3>1. Listed(h)' = Listed(h) \cup {Len(Q) + 1} /\ Len(Q) + 1 \notin Listed(h)
      BY <1>1, <2>1, <2>2 DEF Listed
    <3> QED BY <1>1, <2>2, <3>1, FS_AddElement DEF One
  <2>3. CASE h # x
    <3>1. Listed(h)' = Listed(h)
      BY <1>1, <2>1, <2>3 DEF Listed
    <3> QED BY <1>1, <2>3, <3>1 DEF One
  <2> QED BY <2>2, <2>3
<1>3. ASSUME Q # <<>>, Q' = Tail(Q)
      PROVE  Cardinality(Listed(h)') = Cardinality(Listed(h)) - One(h = Head(Q))
  <2>1. /\ Len(Q') = Len(Q) - 1 /\ \A i \in 1 .. Len(Q) - 1 : Q'[i] = Q[i + 1]
        /\ Head(Q) = Q[1] /\ Len(Q) >= 1
    BY <1>3, HeadTailProperties, LenProperties, EmptySeq
  <2> DEFINE S == Listed(h) \ {1}
             f == [i \in S |-> i - 1]
  <2>2. IsFiniteSet(S) /\ Cardinality(S) = Cardinality(Listed(h)) - One(h = Head(Q))
    <3>1. 1 \in Listed(h) <=> h = Head(Q)
      BY <1>1, <2>1 DEF Listed
    <3>2. /\ IsFiniteSet(Listed(h) \ {1})
          /\ Cardinality(Listed(h) \ {1}) = IF 1 \in Listed(h) THEN Cardinality(Listed(h)) - 1
                                            ELSE Cardinality(Listed(h))
      BY <1>1, FS_RemoveElement
    <3> QED BY <1>1, <3>1, <3>2 DEF One
  <2>3. f \in Bijection(S, Listed(h)')
    <3>1. \A i \in S : i - 1 \in Listed(h)'
      BY <1>1, <2>1 DEF Listed
    <3>2. \A j \in Listed(h)' : j + 1 \in S /\ f[j + 1] = j
      BY <1>1, <2>1 DEF Listed
    <3>3. \A i, j \in S : f[i] = f[j] => i = j
      BY <1>1 DEF Listed
    <3>4. f \in [S -> Listed(h)']
      BY <3>1
    <3> HIDE DEF f, S
    <3> QED BY <3>2, <3>3, <3>4 DEF Bijection, Injection, Surjection, IsInjective
  <2> QED BY <2>2, <2>3, FS_Bijection DEF ExistsBijection
<1>4. Q' = Q => Listed(h)' = Listed(h)
  BY DEF Listed
<1> QED BY <1>1, <1>2, <1>3, <1>4

\* The steps that leave every queue where it is.
Still(t) ==
    \/ handle_release(t) \/ handle_remove(t) \/ free_ctx(t) \/ total_dec(t)
    \/ dispatch_grab(t) \/ use_other(t) \/ abort_release(t) \/ abort_done(t)
    \/ new_grab(t) \/ init_ok(t) \/ init_fail(t) \/ new_done(t) \/ force_release(t)
    \/ (\E d \in Service : grab_target(t, d) \/ cmd_kill(t, d))
    \/ cmd_abort(t) \/ new_regist(t) \/ init_expose(t)

\* The steps that move a queue between the list and the thread.
Moves(t) ==
    dispatch_pop_global(t) \/ dispatch_next(t) \/ dispatch_swap(t) \/ new_publish(t)

LEMMA StillHand ==
    ASSUME Types, NEW t \in Thread, Still(t), NEW h \in Service
    PROVE  Hand(th'[t], h) = Hand(th[t], h)
<1> USE ServiceFacts DEF Registers, Shape, Place, Sub, Dispatch, Callback, Targets, Returns,
                         InNew, Launches
<1>0. th \in [Thread -> Registers] /\ Shape(th[t]) /\ th[t] \in Registers
  BY DEF Types, Threads
<1>a. SUFFICES /\ th'[t].q = th[t].q /\ th'[t].nxt = th[t].nxt
               /\ Launches(th'[t], h) <=> Launches(th[t], h)
  BY DEF Hand, One
<1>1. CASE handle_release(t)
  <2>1. /\ th[t].pc = "rel" /\ th'[t].q = th[t].q /\ th'[t].nxt = th[t].nxt
        /\ \/ th'[t].pc = "remove" /\ th'[t].tgt = th[t].tgt /\ th'[t].ret = th[t].ret
           \/ /\ th'[t].pc = th[t].ret /\ th'[t].ret = "idle"
              /\ th'[t].tgt = IF th[t].ret \in InNew THEN th[t].tgt ELSE None
    BY <1>0, <1>1 DEF handle_release, ReleaseRef
  <2> QED BY <1>0, <2>1
<1>2. CASE handle_remove(t) \/ free_ctx(t)
  <2>1. /\ th[t].pc \in {"remove", "free"} /\ th'[t].q = th[t].q /\ th'[t].nxt = th[t].nxt
        /\ \/ th'[t].pc = "mark" /\ th'[t].tgt = th[t].tgt /\ th'[t].ret = th[t].ret
           \/ /\ th'[t].pc = th[t].ret /\ th'[t].ret = "idle"
              /\ th'[t].tgt = IF th[t].ret \in InNew THEN th[t].tgt ELSE None
    <3>1. CASE th' = [th EXCEPT ![t].pc = "mark"] /\ th[t].pc = "remove"
      BY <1>0, <3>1
    <3>2. CASE Return(t, FALSE) /\ th[t].pc \in {"remove", "free"}
      BY <1>0, <3>2 DEF Return
    <3> QED BY <1>2, <3>1, <3>2 DEF handle_remove, free_ctx, Go
  <2> QED BY <1>0, <2>1
<1>3. CASE total_dec(t)
  BY <1>0, <1>3 DEF total_dec
<1>4. CASE dispatch_grab(t) \/ use_other(t) \/ abort_done(t) \/ init_ok(t)
  BY <1>0, <1>4 DEF dispatch_grab, use_other, abort_done, init_ok, Go
<1>5. CASE new_grab(t)
  BY <1>0, <1>5 DEF new_grab, Go
<1>6. CASE init_fail(t) \/ new_done(t) \/ cmd_abort(t) \/ init_expose(t)
  BY <1>0, <1>6 DEF init_fail, new_done, cmd_abort, init_expose
<1>7. CASE abort_release(t)
  <2>1. PICK d \in th[t].todo :
           th[t].pc = "abort" /\ ReleaseRef(t, [th[t] EXCEPT !.todo = @ \ {d}], d, "abort")
    BY <1>7 DEF abort_release, Drop
  <2>2. /\ th'[t].q = th[t].q /\ th'[t].nxt = th[t].nxt
        /\ th'[t].pc \in {"remove", "abort"} /\ th'[t].ret \in {"abort", "idle"}
    BY <1>0, <2>1 DEF ReleaseRef
  <2> QED BY <1>0, <2>1, <2>2
<1>8. CASE force_release(t)
  <2>1. th[t].pc = "n_force" /\ ReleaseRef(t, th[t], th[t].tgt, "n_forced")
    BY <1>8 DEF force_release, Drop
  <2>2. /\ th'[t].q = th[t].q /\ th'[t].nxt = th[t].nxt /\ th'[t].tgt = th[t].tgt
        /\ \/ th'[t].pc = "n_forced"
           \/ th'[t].pc = "remove" /\ th'[t].ret = "n_forced"
    <3>1. CASE slot[th[t].tgt] = "used" /\ ref[th[t].tgt] <= 1
      BY <1>0, <2>1, <3>1 DEF ReleaseRef
    <3>2. CASE ~(slot[th[t].tgt] = "used" /\ ref[th[t].tgt] <= 1)
      <4> DEFINE a == "n_forced" \in InNew => slot[th[t].tgt] = "used"
                 j == [th[t] EXCEPT !.pc = "n_forced", !.ret = "idle",
                                    !.tgt = IF "n_forced" \in InNew THEN th[t].tgt ELSE None,
                                    !.alive = a]
      <4>1. th' = [th EXCEPT ![t] = j]
        BY <2>1, <3>2, Zenon DEF ReleaseRef
      <4>2. j.q = th[t].q /\ j.nxt = th[t].nxt /\ j.tgt = th[t].tgt /\ j.pc = "n_forced"
        <5> HIDE DEF a
        <5> QED BY <1>0
      <4> HIDE DEF j
      <4>3. th'[t] = j
        BY <1>0, <4>1
      <4>4. /\ th'[t].q = th[t].q /\ th'[t].nxt = th[t].nxt /\ th'[t].tgt = th[t].tgt
            /\ th'[t].pc = "n_forced"
        BY <4>2, <4>3
      <4> QED BY <4>4
    <3> QED BY <3>1, <3>2
  <2> QED BY <1>0, <2>1, <2>2
<1>9. CASE \E d \in Service : cmd_kill(t, d)
  <2>1. PICK d \in Service : th[t].pc = "cb" /\ ReleaseRef(t, th[t], d, "cb")
    BY <1>9 DEF cmd_kill, Drop
  <2>2. /\ th'[t].q = th[t].q /\ th'[t].nxt = th[t].nxt
        /\ th'[t].pc \in {"remove", "cb"} /\ th'[t].ret \in {"cb", "idle"}
    BY <1>0, <2>1 DEF ReleaseRef
  <2> QED BY <1>0, <2>1, <2>2
<1>10. CASE \E d \in Service : grab_target(t, d)
  BY <1>0, <1>10 DEF grab_target
<1>11. CASE new_regist(t)
  BY <1>0, <1>11 DEF new_regist
<1> QED BY <1>1, <1>2, <1>3, <1>4, <1>5, <1>6, <1>7, <1>8, <1>9, <1>10, <1>11 DEF Still

\* Whatever else these steps do, every queue is in as many places as before
\* and keeps its flags.
LEMMA StillPlaces ==
    ASSUME Types, NEW t \in Thread, Still(t) \/ Moves(t), NEW h \in Service
    PROVE  /\ Places(h) \in Nat /\ Places(h)' = Places(h)
           /\ UNCHANGED <<mem, global, release, orphans>>
           /\ ~init_ok(t) => UNCHANGED len
<1> USE ServiceFacts
<1>0. /\ Q \in Seq(Service) /\ th \in [Thread -> Registers] /\ Shape(th[t])
      /\ th[t] \in Registers
  BY DEF Types, Tables, Threads
<1>1. \A u \in Thread : u # t => th'[u] = th[u]
  BY ThreadsNext DEF Still, Moves, Run, Ask
<1>2. /\ Hands(h) \in Nat /\ Hands(h)' \in Nat /\ Cardinality(Listed(h)) \in Nat
      /\ Hands(h)' = Hands(h) + Hand(th'[t], h) - Hand(th[t], h)
  BY <1>0, <1>1, HandsStep, ListedStep
<1>3. /\ Places(h) = Cardinality(Listed(h)) + Hands(h)
      /\ Places(h)' = Cardinality(Listed(h)') + Hands(h)'
  BY DEF Places
<1>4. Hand(th[t], h) \in Nat /\ Hand(th'[t], h) \in Nat
  BY DEF Hand, One
<1>5. CASE Still(t)
  <2>1. UNCHANGED <<mem, global, release, orphans, Q>>
    BY <1>5 DEF Still, handle_release, handle_remove, free_ctx, total_dec, dispatch_grab,
                use_other, abort_release, abort_done, new_grab, init_ok, init_fail, new_done,
                force_release, grab_target, cmd_kill, cmd_abort, new_regist, init_expose,
                queues, history
  <2>2. ~init_ok(t) => UNCHANGED len
    BY <1>5 DEF Still, handle_release, handle_remove, free_ctx, total_dec, dispatch_grab,
                use_other, abort_release, abort_done, new_grab, init_fail, new_done,
                force_release, grab_target, cmd_kill, cmd_abort, new_regist, init_expose,
                queues
  <2>3. Hand(th'[t], h) = Hand(th[t], h) /\ Cardinality(Listed(h)') = Cardinality(Listed(h))
    BY <1>0, <1>5, <2>1, StillHand, ListedStep
  <2> QED BY <1>2, <1>3, <1>4, <2>1, <2>2, <2>3
<1>6. CASE Moves(t)
  <2>1. UNCHANGED <<mem, len, global, release, orphans>>
    BY <1>6 DEF Moves, dispatch_pop_global, dispatch_next, dispatch_swap, new_publish,
                queues, history
  <2>2. /\ Cardinality(Listed(h)') \in Int
        /\ Cardinality(Listed(h)') + Hand(th'[t], h) = Cardinality(Listed(h)) + Hand(th[t], h)
    <3> USE DEF Registers, Shape, Place, Sub, Dispatch, Callback, Targets, Returns, Launches,
                Hand, One
    <3>1. CASE dispatch_pop_global(t)
      <4>1. Cardinality(Listed(h)') = Cardinality(Listed(h)) - One(h = Head(Q))
        BY <1>0, <3>1, ListedStep DEF dispatch_pop_global
      <4>2. /\ th[t].pc = "idle" /\ th[t].q = None /\ th'[t].q = Head(Q) /\ Head(Q) \in Service
            /\ th'[t].nxt = th[t].nxt /\ Launches(th'[t], h) = Launches(th[t], h)
        BY <1>0, <3>1, HeadTailProperties DEF dispatch_pop_global
      <4> QED BY <1>2, <4>1, <4>2
    <3>2. CASE dispatch_next(t) /\ Q # <<>>
      <4>1. Cardinality(Listed(h)') = Cardinality(Listed(h)) - One(h = Head(Q))
        BY <1>0, <3>2, ListedStep DEF dispatch_next
      <4>2. /\ th[t].nxt = None /\ th'[t].nxt = Head(Q) /\ Head(Q) \in Service
            /\ th'[t].q = th[t].q /\ Launches(th'[t], h) = Launches(th[t], h)
        BY <1>0, <3>2, HeadTailProperties DEF dispatch_next
      <4> QED BY <1>2, <4>1, <4>2
    <3>3. CASE dispatch_next(t) /\ Q = <<>>
      <4>1. Cardinality(Listed(h)') = Cardinality(Listed(h))
        BY <1>0, <3>3, ListedStep DEF dispatch_next
      <4>2. /\ th'[t].nxt = th[t].nxt /\ th'[t].q = th[t].q
            /\ ~Launches(th'[t], h) /\ ~Launches(th[t], h)
        BY <1>0, <3>3 DEF dispatch_next
      <4> QED BY <1>2, <4>1, <4>2
    <3>4. CASE dispatch_swap(t)
      <4>1. /\ th[t].q \in Service /\ th'[t].q = th[t].nxt /\ th'[t].nxt = None
            /\ ~Launches(th'[t], h) /\ ~Launches(th[t], h)
        BY <1>0, <3>4 DEF dispatch_swap
      <4>2. Cardinality(Listed(h)') = Cardinality(Listed(h)) + One(h = th[t].q)
        BY <1>0, <3>4, <4>1, ListedStep DEF dispatch_swap
      <4> QED BY <1>2, <4>1, <4>2
    <3>5. CASE new_publish(t)
      <4>1. /\ th[t].tgt \in Service /\ th'[t].q = th[t].q /\ th'[t].nxt = th[t].nxt
            /\ ~Launches(th'[t], h)
            /\ Launches(th[t], h) <=> h = th[t].tgt
        BY <1>0, <3>5 DEF new_publish
      <4>2. Cardinality(Listed(h)') = Cardinality(Listed(h)) + One(h = th[t].tgt)
        BY <1>0, <3>5, <4>1, ListedStep DEF new_publish
      <4> QED BY <1>2, <4>1, <4>2
    <3> QED BY <1>6, <3>1, <3>2, <3>3, <3>4, <3>5 DEF Moves
  <2> QED BY <1>2, <1>3, <1>4, <2>1, <2>2
<1> QED BY <1>5, <1>6

\* The steps that give or take a queue a place, or write its flags: what each
\* does to service h.  pop: a message, or an empty queue given up; push: by a
\* sender, or by the launcher's script; free: the queue is gone; born: it is
\* created; mark: for release; lost: a failed launch leaves it behind.
PopRule(t, h) ==
    /\ th[t].pc = "pop" /\ th[t].q = h
    /\ \/ len[h] > 0 /\ len'[h] = len[h] - 1 /\ global'[h] = global[h]
          /\ Places(h)' = Places(h)
       \/ len[h] = 0 /\ len'[h] = 0 /\ global'[h] = 0 /\ Places(h)' = Places(h) - 1
    /\ mem'[h] = mem[h] /\ release'[h] = release[h] /\ (h \in orphans' <=> h \in orphans)

PushRule(t, h) ==
    /\ th[t].tgt = h /\ len'[h] = len[h] + 1
    /\ \/ th[t].pc = "init" /\ global'[h] = global[h] /\ Places(h)' = Places(h)
       \/ th[t].pc = "use" /\ global'[h] = 1
          /\ Places(h)' = Places(h) + One(global[h] = 0)
    /\ mem'[h] = mem[h] /\ release'[h] = release[h] /\ (h \in orphans' <=> h \in orphans)

FreeRule(t, h) ==
    /\ \/ th[t].pc = "qfree" /\ th[t].q = h
       \/ th[t].pc = "n_forced" /\ th[t].tgt = h
    /\ release[h] = 1 /\ release'[h] = 1
    /\ mem'[h] = "freed" /\ len'[h] = 0 /\ global'[h] = 0
    /\ Places(h)' = Places(h) - 1 /\ (h \in orphans' <=> h \in orphans)

BornRule(t, h) ==
    /\ th[t].pc = "n_queue" /\ th[t].tgt = h /\ ctx'[h] = "ready"
    /\ mem'[h] = "alloc" /\ global'[h] = 1 /\ Places(h)' = Places(h) + 1
    /\ len'[h] = len[h] /\ release'[h] = release[h] /\ (h \in orphans' <=> h \in orphans)

MarkRule(t, h) ==
    /\ th[t].pc = "mark" /\ th[t].tgt = h /\ ctx[h] # "raw"
    /\ release'[h] = 1 /\ Places(h)' = Places(h) + One(global[h] = 0)
    /\ mem'[h] = mem[h] /\ len'[h] = len[h] /\ global'[h] = global[h]
    /\ (h \in orphans' <=> h \in orphans)

LostRule(t, h) ==
    /\ th[t].pc = "n_forced" /\ th[t].tgt = h
    /\ h \in orphans' /\ Places(h)' = Places(h) - 1
    /\ mem'[h] = mem[h] /\ len'[h] = len[h] /\ global'[h] = global[h]
    /\ release'[h] = release[h]

Untouched(h) ==
    /\ mem'[h] = mem[h] /\ len'[h] = len[h] /\ global'[h] = global[h]
    /\ release'[h] = release[h] /\ Places(h)' = Places(h) /\ (h \in orphans' <=> h \in orphans)

QueueRule(t, h) ==
    \/ PopRule(t, h) \/ PushRule(t, h) \/ FreeRule(t, h)
    \/ BornRule(t, h) \/ MarkRule(t, h) \/ LostRule(t, h) \/ Untouched(h)

LEMMA QueueStep ==
    ASSUME Types, NEW t \in Thread, Run(t) \/ Ask(t), NEW h \in Service
    PROVE  QueueRule(t, h) /\ Places(h) \in Nat /\ Places(h)' \in Nat
<1> USE ServiceFacts
<1>0. /\ Q \in Seq(Service) /\ th \in [Thread -> Registers] /\ Shape(th[t])
      /\ th[t] \in Registers
  BY DEF Types, Tables, Threads
<1>a. /\ len \in [Service -> Nat] /\ global \in [Service -> {0, 1}]
      /\ release \in [Service -> {0, 1}]
  BY DEF Types, Tables
<1>b. /\ mem \in [Service -> {"none", "alloc", "freed"}] /\ orphans \subseteq Service
      /\ ctx \in [Service -> {"none", "raw", "ready", "freed"}]
  BY DEF Types, Tables
<1>1. \A u \in Thread : u # t => th'[u] = th[u]
  BY ThreadsNext
<1>2. /\ Hands(h) \in Nat /\ Hands(h)' \in Nat /\ Cardinality(Listed(h)) \in Nat
      /\ Hands(h)' = Hands(h) + Hand(th'[t], h) - Hand(th[t], h)
  BY <1>0, <1>1, HandsStep, ListedStep
<1>3. /\ Places(h) = Cardinality(Listed(h)) + Hands(h)
      /\ Places(h)' = Cardinality(Listed(h)') + Hands(h)'
  BY DEF Places
<1>4. Hand(th[t], h) \in Nat /\ Hand(th'[t], h) \in Nat
  BY DEF Hand, One
<1>5. Cardinality(Listed(h)') \in Nat
  <2>1. Q' \in Seq(Service)
    BY TypesNext DEF Types, Tables
  <2>2. Len(Q') \in Nat /\ IsFiniteSet(1 .. Len(Q'))
    BY <2>1, LenProperties, FS_Interval
  <2>3. IsFiniteSet(Listed(h)')
    BY <2>2, FS_Subset DEF Listed
  <2> QED BY <2>3, FS_CardinalityType
<1>6. Places(h) \in Nat /\ Places(h)' \in Nat
  BY <1>2, <1>3, <1>5
<1> SUFFICES QueueRule(t, h)
  BY <1>6
<1> USE DEF QueueRule, PopRule, PushRule, FreeRule, BornRule, MarkRule, LostRule, Untouched
<1>7. CASE (Still(t) \/ Moves(t)) /\ ~init_ok(t)
  BY <1>7, StillPlaces
<1>8. CASE init_ok(t)
  <2>1. Places(h)' = Places(h) /\ UNCHANGED <<mem, global, release, orphans>>
    BY <1>8, StillPlaces DEF Still
  <2>2. /\ th[t].pc = "init" /\ th[t].tgt \in Service
        /\ len' = [len EXCEPT ![th[t].tgt] = @ + 1]
    BY <1>0, <1>8 DEF init_ok, Shape, Targets, Registers
  <2> QED BY <1>a, <2>1, <2>2
<1>9. CASE queue_mark_free(t)
  <2>1. CASE ctx[th[t].tgt] = "raw"
    <3>1. UNCHANGED <<mem, len, global, release, orphans, Q, th>>
      BY <1>9, <2>1 DEF queue_mark_free, history
    <3>2. Places(h)' = Places(h)
      BY <3>1 DEF Places, Hands, Listed, Current, Following, Launching
    <3> QED BY <3>1, <3>2
  <2>2. CASE ctx[th[t].tgt] # "raw"
    <3>1. /\ th[t].pc = "mark" /\ th[t].tgt \in Service /\ th[t].ret \in Returns
          /\ release' = [release EXCEPT ![th[t].tgt] = 1]
          /\ th' = [th EXCEPT ![t].pc = "free"] /\ UNCHANGED <<mem, len, global, orphans>>
          /\ Q' = IF global[th[t].tgt] = 0 THEN Append(Q, th[t].tgt) ELSE Q
      BY <1>0, <1>9, <2>2 DEF queue_mark_free, history, Shape, Targets, Registers, Schedule, Go
    <3>2. Hand(th'[t], h) = Hand(th[t], h)
      BY <1>0, <3>1 DEF Hand, Launches, Registers
    <3>3. Cardinality(Listed(h)') = Cardinality(Listed(h))
                + One(global[th[t].tgt] = 0 /\ h = th[t].tgt)
      BY <1>0, <1>2, <3>1, ListedStep DEF One
    <3>4. Places(h)' = Places(h) + One(global[th[t].tgt] = 0 /\ h = th[t].tgt)
      BY <1>2, <1>3, <1>4, <3>2, <3>3 DEF One
    <3> QED BY <1>a, <1>6, <2>2, <3>1, <3>4 DEF One
  <2> QED BY <2>1, <2>2
<1>10. CASE use_push(t)
  <2>1. /\ th[t].pc = "use" /\ th[t].tgt \in Service /\ th[t].ret \in {"idle", "cb"}
        /\ len' = [len EXCEPT ![th[t].tgt] = @ + 1]
        /\ global' = [global EXCEPT ![th[t].tgt] = 1]
        /\ th' = [th EXCEPT ![t].pc = "rel"] /\ UNCHANGED <<mem, release, orphans>>
        /\ Q' = IF global[th[t].tgt] = 0 THEN Append(Q, th[t].tgt) ELSE Q
    BY <1>0, <1>10 DEF use_push, history, Shape, Targets, Registers, Schedule, Go
  <2>2. Hand(th'[t], h) = Hand(th[t], h)
    BY <1>0, <2>1 DEF Hand, Launches, Registers
  <2>3. Cardinality(Listed(h)') = Cardinality(Listed(h))
              + One(global[th[t].tgt] = 0 /\ h = th[t].tgt)
    BY <1>0, <1>2, <2>1, ListedStep DEF One
  <2>4. Places(h)' = Places(h) + One(global[th[t].tgt] = 0 /\ h = th[t].tgt)
    BY <1>2, <1>3, <1>4, <2>2, <2>3 DEF One
  <2> QED BY <1>a, <1>6, <2>1, <2>4 DEF One
<1>11. CASE dispatch_pop(t)
  <2>1. /\ th[t].pc = "pop" /\ th[t].q \in Service /\ UNCHANGED <<mem, release, orphans, Q>>
        /\ ~Launches(th[t], h) /\ ~Launches(th'[t], h) /\ th'[t].nxt = th[t].nxt
        /\ \/ /\ len[th[t].q] > 0 /\ len' = [len EXCEPT ![th[t].q] = @ - 1]
              /\ UNCHANGED global /\ th'[t].q = th[t].q
           \/ /\ len[th[t].q] = 0 /\ UNCHANGED len /\ th'[t].q = None
              /\ global' = [global EXCEPT ![th[t].q] = 0]
    BY <1>0, <1>a, <1>11 DEF dispatch_pop, history, Shape, Targets, Registers, Place, Sub, Launches
  <2>2. Cardinality(Listed(h)') = Cardinality(Listed(h))
    BY <1>0, <2>1, ListedStep
  <2>3. Places(h)' = Places(h) + One(th'[t].q = h) - One(th[t].q = h)
    BY <1>2, <1>3, <1>4, <2>1, <2>2 DEF Hand, One
  <2> QED BY <1>a, <1>6, <2>1, <2>3 DEF One
<1>12. CASE dispatch_free(t)
  <2>1. /\ th[t].pc = "qfree" /\ th[t].q \in Service /\ UNCHANGED <<release, orphans>>
        /\ ~Launches(th[t], h) /\ ~Launches(th'[t], h) /\ th'[t].nxt = th[t].nxt
        /\ th'[t].q = None
    BY <1>0, <1>12 DEF dispatch_free, Shape, Targets, Registers, Place, Sub, Launches
  <2>2. CASE release[th[t].q] = 1
    <3>1. /\ mem' = [mem EXCEPT ![th[t].q] = "freed"] /\ len' = [len EXCEPT ![th[t].q] = 0]
          /\ global' = [global EXCEPT ![th[t].q] = 0] /\ UNCHANGED Q
      BY <1>12, <2>2 DEF dispatch_free, QueueFree
    <3>2. Cardinality(Listed(h)') = Cardinality(Listed(h))
      BY <1>0, <3>1, ListedStep
    <3>3. Places(h)' = Places(h) - One(th[t].q = h)
      BY <1>2, <1>3, <1>4, <2>1, <3>2 DEF Hand, One
    <3> QED BY <1>a, <1>b, <1>6, <2>1, <2>2, <3>1, <3>3 DEF One
  <2>3. CASE release[th[t].q] # 1
    <3>1. Q' = Append(Q, th[t].q) /\ UNCHANGED <<mem, len, global>>
      BY <1>12, <2>3 DEF dispatch_free, QueueFree
    <3>2. Cardinality(Listed(h)') = Cardinality(Listed(h)) + One(h = th[t].q)
      BY <1>0, <2>1, <3>1, ListedStep
    <3>3. Places(h)' = Places(h)
      BY <1>2, <1>3, <1>4, <2>1, <3>2 DEF Hand, One
    <3> QED BY <2>1, <3>1, <3>3
  <2> QED BY <2>2, <2>3
<1>13. CASE new_queue(t)
  <2>1. /\ th[t].pc = "n_queue" /\ th[t].tgt \in Service /\ UNCHANGED <<len, release, orphans, Q>>
        /\ mem' = [mem EXCEPT ![th[t].tgt] = "alloc"]
        /\ ctx' = [ctx EXCEPT ![th[t].tgt] = "ready"]
        /\ global' = [global EXCEPT ![th[t].tgt] = 1]
        /\ th' = [th EXCEPT ![t].pc = "n_grab"] /\ th[t].ret = "idle"
    BY <1>0, <1>13 DEF new_queue, history, Shape, Targets, Registers, Sub, Go
  <2>2. Hand(th'[t], h) = Hand(th[t], h) + One(h = th[t].tgt)
    BY <1>0, <2>1 DEF Hand, Launches, One, Registers
  <2>3. Cardinality(Listed(h)') = Cardinality(Listed(h))
    BY <1>0, <2>1, ListedStep
  <2>4. Places(h)' = Places(h) + One(h = th[t].tgt)
    BY <1>2, <1>3, <1>4, <2>2, <2>3 DEF One
  <2> QED BY <1>a, <1>b, <1>6, <2>1, <2>4 DEF One
<1>14. CASE force_free(t)
  <2>1. /\ th[t].pc = "n_forced" /\ th[t].tgt \in Service
        /\ th'[t].q = th[t].q /\ th'[t].nxt = th[t].nxt
        /\ Launches(th[t], h) <=> th[t].tgt = h
        /\ ~Launches(th'[t], h)
    BY <1>0, <1>14 DEF force_free, Shape, Targets, Registers, Launches
  <2>2. Hand(th'[t], h) = Hand(th[t], h) - One(h = th[t].tgt)
    BY <2>1 DEF Hand, One
  <2>3. CASE th[t].alive
    <3>1. orphans' = orphans \cup {th[t].tgt} /\ UNCHANGED <<mem, len, global, release, Q>>
      BY <1>14, <2>3 DEF force_free, queues
    <3>2. Cardinality(Listed(h)') = Cardinality(Listed(h))
      BY <1>0, <3>1, ListedStep
    <3>3. Places(h)' = Places(h) - One(h = th[t].tgt)
      BY <1>2, <1>3, <1>4, <2>2, <3>2 DEF One
    <3> QED BY <1>a, <1>b, <1>6, <2>1, <3>1, <3>3 DEF One
  <2>4. CASE ~th[t].alive /\ release[th[t].tgt] = 1
    <3>1. /\ mem' = [mem EXCEPT ![th[t].tgt] = "freed"] /\ len' = [len EXCEPT ![th[t].tgt] = 0]
          /\ global' = [global EXCEPT ![th[t].tgt] = 0] /\ UNCHANGED <<Q, release, orphans>>
      BY <1>14, <2>4 DEF force_free, QueueFree
    <3>2. Cardinality(Listed(h)') = Cardinality(Listed(h))
      BY <1>0, <3>1, ListedStep
    <3>3. Places(h)' = Places(h) - One(h = th[t].tgt)
      BY <1>2, <1>3, <1>4, <2>2, <3>2 DEF One
    <3> QED BY <1>a, <1>b, <1>6, <2>1, <2>4, <3>1, <3>3 DEF One
  <2>5. CASE ~th[t].alive /\ release[th[t].tgt] # 1
    <3>1. Q' = Append(Q, th[t].tgt) /\ UNCHANGED <<mem, len, global, release, orphans>>
      BY <1>14, <2>5 DEF force_free, QueueFree
    <3>2. Cardinality(Listed(h)') = Cardinality(Listed(h)) + One(h = th[t].tgt)
      BY <1>0, <2>1, <3>1, ListedStep
    <3>3. Places(h)' = Places(h)
      BY <1>2, <1>3, <1>4, <2>2, <3>2 DEF One
    <3> QED BY <3>1, <3>3
  <2> QED BY <2>3, <2>4, <2>5
<1> QED BY <1>7, <1>8, <1>9, <1>10, <1>11, <1>12, <1>13, <1>14 DEF Run, Ask, Still, Moves

-----------------------------------------------------------------------------
(* The life of a service: registered, complete, marked, freed *)

\* Between handle_regist and queue_create a context has nothing yet, and
\* nobody but the launcher and an ABORT can name it; what is freed was marked
\* for release before, and what is marked has lost its handle.
Born(h) ==
    /\ slot[h] = "none" <=> ctx[h] = "none"
    /\ ctx[h] \in {"none", "raw"} =>
          /\ mem[h] = "none" /\ len[h] = 0 /\ global[h] = 0 /\ release[h] = 0
          /\ h \notin known /\ h \notin orphans /\ Places(h) = 0 /\ h # Log
    /\ ctx[h] \in {"ready", "freed"} => mem[h] # "none"
    /\ release[h] = 1 => slot[h] = "gone"
    /\ ctx[h] = "freed" \/ mem[h] = "freed" => release[h] = 1

\* What a thread's registers say about the handle it works on.
Refers(t) ==
    /\ \A h \in th[t].todo : slot[h] # "none"
    /\ th[t].pc \in Targets => slot[th[t].tgt] # "none"
    /\ th[t].pc \in Targets /\ ctx[th[t].tgt] = "raw" =>
          \/ th[t].pc = "n_queue"
          \/ th[t].pc \in {"remove", "mark"} /\ th[t].ret = "abort"
    /\ th[t].pc = "n_queue" => ctx[th[t].tgt] = "raw"
    /\ th[t].pc = "mark" => slot[th[t].tgt] = "gone" /\ release[th[t].tgt] = 0
    /\ th[t].pc = "free" => release[th[t].tgt] = 1 /\ ctx[th[t].tgt] = "ready"

\* One launcher completes a context and one thread takes it apart.
Apart(t, u) ==
    t # u /\ th[t].tgt = th[u].tgt =>
        /\ ~(th[t].pc = "n_queue" /\ th[u].pc = "n_queue")
        /\ ~(th[t].pc \in {"mark", "free"} /\ th[u].pc \in {"mark", "free"})

LifeInv ==
    /\ CountInv
    /\ \A h \in Service : Born(h)
    /\ \A t \in Thread : Refers(t)
    /\ \A t, u \in Thread : Apart(t, u)

\* The context of h is registered, completed and freed by the thread that
\* has it as its target, and by these three steps.
CtxRule(t, h) ==
    \/ ctx'[h] = ctx[h]
    \/ /\ slot[h] = "none" /\ slot'[h] = "used" /\ ctx'[h] = "raw"
       /\ th'[t].pc = "n_queue" /\ th'[t].tgt = h
    \/ /\ th[t].pc = "n_queue" /\ th[t].tgt = h /\ th'[t].pc = "n_grab"
       /\ ctx'[h] = "ready" /\ mem'[h] = "alloc"
    \/ /\ th[t].pc = "free" /\ th[t].tgt = h /\ th'[t].pc \notin {"mark", "free"}
       /\ ctx'[h] = "freed"

LEMMA CtxStep ==
    ASSUME Types, NEW t \in Thread, Run(t) \/ Ask(t), NEW h \in Service
    PROVE  CtxRule(t, h)
<1> USE DEF CtxRule
<1>0. /\ ctx \in [Service -> {"none", "raw", "ready", "freed"}]
      /\ slot \in [Service -> {"none", "used", "gone"}]
      /\ mem \in [Service -> {"none", "alloc", "freed"}]
  BY DEF Types, Tables
<1>1. th \in [Thread -> Registers] /\ Shape(th[t]) /\ th[t] \in Registers
  BY DEF Types, Threads
<1>2. CASE new_regist(t)
  BY <1>0, <1>1, <1>2 DEF new_regist, Registers
<1>3. CASE new_queue(t)
  BY <1>0, <1>1, <1>3 DEF new_queue, Go, Registers
<1>4. CASE free_ctx(t)
  <2>1. th[t].pc = "free" /\ th'[t].pc = th[t].ret /\ ctx' = [ctx EXCEPT ![th[t].tgt] = "freed"]
    BY <1>1, <1>4 DEF free_ctx, Return, Registers
  <2> QED BY <1>0, <1>1, <2>1 DEF Registers, Returns
<1>5. CASE ~new_regist(t) /\ ~new_queue(t) /\ ~free_ctx(t)
  <2>1. CASE \/ handle_release(t) \/ handle_remove(t) \/ queue_mark_free(t) \/ total_dec(t)
             \/ dispatch_pop_global(t) \/ dispatch_grab(t) \/ dispatch_free(t)
             \/ dispatch_pop(t) \/ dispatch_next(t) \/ dispatch_swap(t)
    BY <2>1 DEF handle_release, handle_remove, queue_mark_free, total_dec, dispatch_pop_global,
                dispatch_grab, dispatch_free, dispatch_pop, dispatch_next, dispatch_swap, handles
  <2>2. CASE \/ use_push(t) \/ use_other(t) \/ abort_release(t) \/ abort_done(t) \/ cmd_abort(t)
             \/ \E d \in Service : grab_target(t, d) \/ cmd_kill(t, d)
    BY <2>2 DEF use_push, use_other, abort_release, abort_done, cmd_abort, grab_target, cmd_kill,
                handles
  <2>3. CASE \/ new_grab(t) \/ init_ok(t) \/ init_fail(t) \/ init_expose(t) \/ new_publish(t)
             \/ new_done(t) \/ force_release(t) \/ force_free(t)
    BY <2>3 DEF new_grab, init_ok, init_fail, init_expose, new_publish, new_done, force_release,
                force_free, handles
  <2> QED BY <1>5, <2>1, <2>2, <2>3 DEF Run, Ask
<1> QED BY <1>2, <1>3, <1>4, <1>5

\* Where a thread's target and its label come from.
Turn(t) ==
    LET j == th[t]
        k == th'[t]
    IN
    /\ k.tgt # None =>
          \/ /\ k.tgt = j.tgt
             /\ j.pc = "remove" /\ k.pc = "mark" => k.ret = j.ret
             /\ j.pc = "remove" /\ j.ret = "abort" => k.pc = "mark"
             /\ j.pc = "n_queue" => ctx'[j.tgt] = "ready"
             /\ j.pc = "mark" => (k.pc = "free" /\ ctx[j.tgt] # "raw") \/ k = j
          \/ k.tgt = j.q /\ k.pc = "rel"
          \/ k.tgt \in known /\ k.pc \in {"use", "remove"} /\ j.pc \in {"idle", "cb"}
          \/ k.tgt \in j.todo /\ k.pc = "remove" /\ k.ret = "abort"
          \/ k.pc = "n_queue" /\ slot[k.tgt] = "none" /\ slot'[k.tgt] = "used"
             /\ ctx'[k.tgt] = "raw"
    /\ k.pc = "n_queue" => slot[k.tgt] = "none" /\ slot'[k.tgt] = "used" /\ ctx'[k.tgt] = "raw"
    /\ k.pc = "n_grab" =>
          \/ j.pc = "n_queue" /\ k.tgt = j.tgt /\ ctx'[k.tgt] = "ready"
          \/ j.pc = "n_grab" /\ slot[j.tgt] # "used"
    /\ k.pc = "mark" =>
          \/ /\ j.pc = "remove" /\ k.tgt = j.tgt
             /\ slot[k.tgt] = "used" /\ slot'[k.tgt] = "gone" /\ release' = release
          \/ k = j /\ slot' = slot /\ ctx' = ctx /\ release' = release
    /\ k.pc = "free" => j.pc = "mark" /\ k.tgt = j.tgt /\ ctx[k.tgt] # "raw"
                        /\ release'[k.tgt] = 1 /\ ctx' = ctx
    /\ \A h \in k.todo : h \in j.todo \/ slot[h] = "used"

LEMMA TurnStep ==
    ASSUME Types, NEW t \in Thread, Run(t) \/ Ask(t)
    PROVE  Turn(t)
<1> USE ServiceFacts DEF Registers, Shape, Place, Sub, Dispatch, Callback, Targets, Returns,
                         InNew
<1>0. th \in [Thread -> Registers] /\ Shape(th[t]) /\ th[t] \in Registers
  BY DEF Types, Threads
<1>a. /\ slot \in [Service -> {"none", "used", "gone"}] /\ release \in [Service -> {0, 1}]
      /\ ctx \in [Service -> {"none", "raw", "ready", "freed"}]
  BY DEF Types, Tables
<1>1. CASE handle_release(t)
  <2>1. /\ th[t].pc = "rel" /\ th'[t].todo = th[t].todo
        /\ \/ th'[t].pc = "remove" /\ th'[t].tgt = th[t].tgt
           \/ /\ th'[t].pc = th[t].ret
              /\ th'[t].tgt = IF th[t].ret \in InNew THEN th[t].tgt ELSE None
    BY <1>0, <1>1 DEF handle_release, ReleaseRef
  <2> QED BY <1>0, <2>1 DEF Turn
<1>2. CASE handle_remove(t)
  <2>1. CASE slot[th[t].tgt] = "used" /\ ref[th[t].tgt] <= 0
    <3>1. /\ th[t].pc = "remove" /\ th'[t].todo = th[t].todo /\ th'[t].pc = "mark"
          /\ th'[t].tgt = th[t].tgt /\ th'[t].ret = th[t].ret /\ th[t].tgt \in Service
          /\ slot' = [slot EXCEPT ![th[t].tgt] = "gone"] /\ release' = release
      BY <1>0, <1>2, <2>1 DEF handle_remove, Go, queues
    <3> QED BY <1>0, <1>a, <2>1, <3>1 DEF Turn
  <2>2. CASE ~(slot[th[t].tgt] = "used" /\ ref[th[t].tgt] <= 0)
    <3>1. th[t].pc = "remove" /\ Return(t, FALSE)
      BY <1>2, <2>2 DEF handle_remove
    <3>2. /\ th'[t].todo = th[t].todo /\ th'[t].pc = th[t].ret
          /\ th'[t].tgt = IF th[t].ret \in InNew THEN th[t].tgt ELSE None
      BY <1>0, <3>1 DEF Return
    <3> QED BY <1>0, <3>1, <3>2 DEF Turn
  <2> QED BY <2>1, <2>2
<1>3. CASE queue_mark_free(t)
  <2>1. CASE ctx[th[t].tgt] = "raw"
    <3>1. th[t].pc = "mark" /\ th' = th /\ slot' = slot /\ ctx' = ctx /\ release' = release
      BY <1>3, <2>1 DEF queue_mark_free, handles
    <3> QED BY <1>0, <3>1 DEF Turn
  <2>2. CASE ctx[th[t].tgt] # "raw"
    <3>1. /\ th[t].pc = "mark" /\ th'[t].todo = th[t].todo /\ th'[t].pc = "free"
          /\ th'[t].tgt = th[t].tgt /\ th[t].tgt \in Service /\ ctx' = ctx
          /\ release' = [release EXCEPT ![th[t].tgt] = 1]
      BY <1>0, <1>3, <2>2 DEF queue_mark_free, handles, Go
    <3> QED BY <1>0, <1>a, <2>2, <3>1 DEF Turn
  <2> QED BY <2>1, <2>2
<1>4. CASE free_ctx(t)
  <2>1. th[t].pc = "free" /\ Return(t, FALSE)
    BY <1>4 DEF free_ctx
  <2>2. /\ th'[t].todo = th[t].todo /\ th'[t].pc = th[t].ret
        /\ th'[t].tgt = IF th[t].ret \in InNew THEN th[t].tgt ELSE None
    BY <1>0, <2>1 DEF Return
  <2> QED BY <1>0, <2>1, <2>2 DEF Turn
<1>5. CASE total_dec(t) \/ dispatch_pop_global(t) \/ dispatch_grab(t) \/ dispatch_free(t)
  <2>1. /\ th[t].pc \in {"dec", "idle", "grab", "qfree"} /\ th'[t].todo = th[t].todo
        /\ th'[t].tgt = None /\ th'[t].pc \in Returns \cup {"grab", "pop", "qfree", "dec"}
    BY <1>0, <1>5 DEF total_dec, dispatch_pop_global, dispatch_grab, dispatch_free, Go
  <2> QED BY <1>0, <2>1 DEF Turn
<1>6. CASE dispatch_pop(t) \/ dispatch_next(t) \/ dispatch_swap(t)
  <2>1. /\ th[t].pc \in {"pop", "cb", "swap"} /\ th'[t].todo = th[t].todo
        /\ \/ th'[t].tgt = None /\ th'[t].pc \in {"cb", "swap"}
           \/ th'[t].tgt = th[t].q /\ th'[t].pc = "rel"
    <3>1. CASE dispatch_pop(t)
      BY <1>0, <3>1 DEF dispatch_pop
    <3>2. CASE dispatch_next(t)
      BY <1>0, <3>2 DEF dispatch_next
    <3>3. CASE dispatch_swap(t)
      BY <1>0, <3>3 DEF dispatch_swap
    <3> QED BY <1>6, <3>1, <3>2, <3>3
  <2> QED BY <1>0, <2>1 DEF Turn
<1>7. CASE use_push(t) \/ use_other(t)
  <2>1. /\ th[t].pc = "use" /\ th'[t].todo = th[t].todo
        /\ th'[t].tgt = th[t].tgt /\ th'[t].pc = "rel"
    BY <1>0, <1>7 DEF use_push, use_other, Go
  <2> QED BY <1>0, <2>1 DEF Turn
<1>8. CASE abort_release(t)
  <2>1. PICK d \in th[t].todo :
           th[t].pc = "abort" /\ ReleaseRef(t, [th[t] EXCEPT !.todo = @ \ {d}], d, "abort")
    BY <1>8 DEF abort_release, Drop
  <2>2. /\ th'[t].todo \subseteq th[t].todo
        /\ \/ th'[t].pc = "remove" /\ th'[t].ret = "abort" /\ th'[t].tgt = d
           \/ th'[t].pc = "abort" /\ th'[t].tgt = None
    BY <1>0, <2>1 DEF ReleaseRef
  <2> QED BY <1>0, <2>1, <2>2 DEF Turn
<1>9. CASE abort_done(t) \/ new_done(t) \/ cmd_abort(t)
  <2>1. /\ th[t].pc \in {"abort", "n_done", "cb"} /\ th'[t].tgt = None
        /\ th'[t].pc \in {"cb", "abort"} /\ \A h \in th'[t].todo : h \in th[t].todo \/ slot[h] = "used"
    BY <1>0, <1>9 DEF abort_done, new_done, cmd_abort, Go
  <2> QED BY <2>1 DEF Turn
<1>10. CASE new_queue(t) \/ init_ok(t) \/ init_fail(t) \/ new_publish(t)
  <2>0. /\ th[t].pc = "n_queue" => ctx'[th[t].tgt] = "ready"
        /\ th'[t].pc = "n_grab" => th[t].pc = "n_queue"
    BY <1>0, <1>a, <1>10 DEF new_queue, init_ok, init_fail, new_publish, Go
  <2>1. /\ th[t].pc \in {"n_queue", "init", "publish"} /\ th'[t].todo = th[t].todo
        /\ th'[t].tgt = th[t].tgt /\ th'[t].pc \in {"n_grab", "rel", "publish"}
    BY <1>0, <1>10 DEF new_queue, init_ok, init_fail, new_publish, Go
  <2> QED BY <1>0, <2>0, <2>1 DEF Turn
<1>11. CASE new_grab(t) \/ init_expose(t)
  <2>1. /\ th[t].pc \in {"n_grab", "init"} /\ th'[t].todo = th[t].todo
        /\ th'[t].tgt = th[t].tgt /\ th'[t].pc \in {"n_grab", "init"}
        /\ th'[t].pc = "n_grab" => th[t].pc = "n_grab" /\ slot[th[t].tgt] # "used"
    BY <1>0, <1>11 DEF new_grab, init_expose, Go
  <2> QED BY <1>0, <2>1 DEF Turn
<1>12. CASE force_release(t)
  <2>1. th[t].pc = "n_force" /\ ReleaseRef(t, th[t], th[t].tgt, "n_forced")
    BY <1>12 DEF force_release, Drop
  <2>2. /\ th'[t].todo = th[t].todo /\ th'[t].tgt = th[t].tgt
        /\ th'[t].pc \in {"n_forced", "remove"}
    <3>1. CASE slot[th[t].tgt] = "used" /\ ref[th[t].tgt] <= 1
      BY <1>0, <2>1, <3>1 DEF ReleaseRef
    <3>2. CASE ~(slot[th[t].tgt] = "used" /\ ref[th[t].tgt] <= 1)
      <4> DEFINE a == "n_forced" \in InNew => slot[th[t].tgt] = "used"
                 j == [th[t] EXCEPT !.pc = "n_forced", !.ret = "idle",
                                    !.tgt = IF "n_forced" \in InNew THEN th[t].tgt ELSE None,
                                    !.alive = a]
      <4>1. th' = [th EXCEPT ![t] = j]
        BY <2>1, <3>2, Zenon DEF ReleaseRef
      <4>2. j.todo = th[t].todo /\ j.tgt = th[t].tgt /\ j.pc = "n_forced"
        <5> HIDE DEF a
        <5> QED BY <1>0
      <4> HIDE DEF j
      <4>3. th'[t] = j
        BY <1>0, <4>1
      <4> QED BY <4>2, <4>3
    <3> QED BY <3>1, <3>2
  <2> QED BY <1>0, <2>1, <2>2 DEF Turn
<1>13. CASE force_free(t)
  <2>1. /\ th[t].pc = "n_forced" /\ th'[t].todo = th[t].todo /\ th'[t].tgt = None
        /\ th'[t].pc \in {"cb", "dec"}
    BY <1>0, <1>13 DEF force_free
  <2> QED BY <2>1 DEF Turn
<1>14. ASSUME NEW d \in Service, grab_target(t, d) PROVE Turn(t)
  <2>1. /\ th[t].pc \in {"idle", "cb"} /\ d \in known /\ th'[t].todo = th[t].todo
        /\ \/ th'[t].tgt = d /\ th'[t].pc = "use"
           \/ th'[t].tgt = None /\ th'[t].pc = th[t].pc
    BY <1>0, <1>14 DEF grab_target
  <2> QED BY <1>0, <2>1 DEF Turn
<1>15. ASSUME NEW d \in Service, cmd_kill(t, d) PROVE Turn(t)
  <2>1. th[t].pc = "cb" /\ d \in known /\ ReleaseRef(t, th[t], d, "cb")
    BY <1>15 DEF cmd_kill, Drop
  <2>2. /\ th'[t].todo = th[t].todo
        /\ \/ th'[t].tgt = d /\ th'[t].pc = "remove"
           \/ th'[t].tgt = None /\ th'[t].pc = "cb"
    BY <1>0, <2>1 DEF ReleaseRef
  <2> QED BY <1>0, <2>1, <2>2 DEF Turn
<1>16. CASE new_regist(t)
  <2>1. PICK h \in Service :
           /\ th[t].pc = "cb" /\ slot[h] = "none" /\ slot' = [slot EXCEPT ![h] = "used"]
           /\ ctx' = [ctx EXCEPT ![h] = "raw"]
           /\ th' = [th EXCEPT ![t].pc = "n_queue", ![t].tgt = h]
    BY <1>16 DEF new_regist
  <2>2. th'[t].pc = "n_queue" /\ th'[t].tgt = h /\ th'[t].todo = th[t].todo
    BY <1>0, <2>1
  <2> QED BY <1>0, <1>a, <2>1, <2>2 DEF Turn
<1> QED BY <1>1, <1>2, <1>3, <1>4, <1>5, <1>6, <1>7, <1>8, <1>9, <1>10, <1>11, <1>12,
           <1>13, <1>14, <1>15, <1>16 DEF Run, Ask

\* A handle becomes known through its own launcher.
LEMMA KnownStep ==
    ASSUME NEW t \in Thread, Run(t) \/ Ask(t), NEW h \in Service, h \in known', h \notin known
    PROVE  th[t].pc \in {"init", "publish"} /\ th[t].tgt = h
<1>1. CASE init_expose(t) \/ new_publish(t)
  BY <1>1 DEF init_expose, new_publish
<1>2. CASE ~init_expose(t) /\ ~new_publish(t)
  <2>1. CASE \/ handle_release(t) \/ handle_remove(t) \/ queue_mark_free(t) \/ total_dec(t)
             \/ dispatch_pop_global(t) \/ dispatch_grab(t) \/ dispatch_free(t) \/ free_ctx(t)
             \/ dispatch_pop(t) \/ dispatch_next(t) \/ dispatch_swap(t)
    BY <2>1 DEF handle_release, handle_remove, queue_mark_free, total_dec, dispatch_pop_global,
                dispatch_grab, dispatch_free, dispatch_pop, dispatch_next, dispatch_swap, free_ctx
  <2>2. CASE \/ use_push(t) \/ use_other(t) \/ abort_release(t) \/ abort_done(t) \/ cmd_abort(t)
             \/ \E d \in Service : grab_target(t, d) \/ cmd_kill(t, d)
    BY <2>2 DEF use_push, use_other, abort_release, abort_done, cmd_abort, grab_target, cmd_kill
  <2>3. CASE \/ new_grab(t) \/ init_ok(t) \/ init_fail(t) \/ new_regist(t) \/ new_queue(t)
             \/ new_done(t) \/ force_release(t) \/ force_free(t)
    BY <2>3 DEF new_grab, init_ok, init_fail, new_regist, new_queue, new_done, force_release,
                force_free
  <2> QED BY <1>2, <2>1, <2>2, <2>3 DEF Run, Ask
<1> QED BY <1>1, <1>2

\* A queue in the list or in a thread's registers is somewhere.
LEMMA SomePlace ==
    ASSUME Types, NEW h \in Service, Places(h) = 0
    PROVE  /\ \A t \in Thread : th[t].q # h /\ th[t].nxt # h /\ ~Launches(th[t], h)
           /\ \A i \in 1 .. Len(Q) : Q[i] # h
<1>1. /\ IsFiniteSet(Current(h)) /\ IsFiniteSet(Following(h)) /\ IsFiniteSet(Launching(h))
  BY ServiceFacts, FS_Subset DEF Current, Following, Launching
<1>2. IsFiniteSet(Listed(h))
  <2>1. Len(Q) \in Nat
    BY LenProperties DEF Types, Tables
  <2>2. IsFiniteSet(1 .. Len(Q))
    BY <2>1, FS_Interval
  <2> QED BY <2>2, FS_Subset DEF Listed
<1>3. /\ Cardinality(Current(h)) \in Nat /\ Cardinality(Following(h)) \in Nat
      /\ Cardinality(Launching(h)) \in Nat /\ Cardinality(Listed(h)) \in Nat
  BY <1>1, <1>2, FS_CardinalityType
<1>4. /\ Cardinality(Current(h)) = 0 /\ Cardinality(Following(h)) = 0
      /\ Cardinality(Launching(h)) = 0 /\ Cardinality(Listed(h)) = 0
  <2>1. 0 = Cardinality(Listed(h)) + (Cardinality(Current(h)) + Cardinality(Following(h))
                                      + Cardinality(Launching(h)))
    BY DEF Places, Hands
  <2> DEFINE a == Cardinality(Listed(h))
             b == Cardinality(Current(h))
             c == Cardinality(Following(h))
             d == Cardinality(Launching(h))
  <2>2. a \in Nat /\ b \in Nat /\ c \in Nat /\ d \in Nat /\ 0 = a + (b + c + d)
    BY <1>3, <2>1
  <2> HIDE DEF a, b, c, d
  <2>3. a = 0 /\ b = 0 /\ c = 0 /\ d = 0
    BY <2>2
  <2> QED BY <2>3 DEF a, b, c, d
<1>5. Current(h) = {} /\ Following(h) = {} /\ Launching(h) = {} /\ Listed(h) = {}
  BY <1>1, <1>2, <1>4, FS_EmptySet
<1> QED BY <1>5 DEF Current, Following, Launching, Listed

\* A thread that has grabbed a handle keeps it registered.
LEMMA GrabKeeps ==
    ASSUME CountInv, NEW t \in Thread, NEW h \in Service, Grab(th[t], h) > 0
    PROVE  slot[h] # "none" /\ (~OverReleased(h) => slot[h] = "used")
<1>1. IsFiniteSet(Runners(h)) /\ IsFiniteSet(Lookers(h)) /\ IsFiniteSet(Users(h))
  BY ServiceFacts, FS_Subset DEF Runners, Lookers, Users
<1>2. /\ Cardinality(Runners(h)) \in Nat /\ Cardinality(Lookers(h)) \in Nat
      /\ Cardinality(Users(h)) \in Nat
  BY <1>1, FS_CardinalityType
<1>3. t \in Runners(h) \/ t \in Lookers(h) \/ t \in Users(h)
  BY DEF Grab, One, Runners, Lookers, Users
<1>4. Runners(h) # {} \/ Lookers(h) # {} \/ Users(h) # {}
  BY <1>3
<1>5. Grabs(h) # 0
  <2>1. \/ Cardinality(Runners(h)) # 0 \/ Cardinality(Lookers(h)) # 0
        \/ Cardinality(Users(h)) # 0
    BY <1>1, <1>4, FS_EmptySet
  <2>2. Grabs(h) = Cardinality(Runners(h)) + Cardinality(Lookers(h)) + Cardinality(Users(h))
    BY DEF Grabs
  <2> QED BY <1>2, <2>1, <2>2
<1>6. Counts(h) /\ slot[h] \in {"none", "used", "gone"}
  BY DEF CountInv, Types, Tables
<1> QED BY <1>5, <1>6 DEF Counts

LEMMA BornNext ==
    ASSUME LifeInv, NEW t \in Thread, Run(t) \/ Ask(t), NEW h \in Service
    PROVE  Born(h)'
<1>0. Types /\ Born(h) /\ Refers(t)
  BY DEF LifeInv, CountInv
<1>1. QueueRule(t, h) /\ CtxRule(t, h) /\ SlotRule(t, h)
  BY <1>0, QueueStep, CtxStep, SlotStep
<1>2. /\ th[t].pc \in Targets <=> th[t].tgt # None
      /\ None \notin Service
  BY <1>0, ServiceFacts DEF Types, Threads, Shape
<1>3. /\ slot[h] \in {"none", "used", "gone"} /\ release[h] \in {0, 1}
      /\ ctx[h] \in {"none", "raw", "ready", "freed"}
      /\ ctx'[h] \in {"none", "raw", "ready", "freed"}
  BY <1>0, TypesNext DEF Types, Tables
<1>4. h \in known' => h \in known \/ (th[t].pc \in {"init", "publish"} /\ th[t].tgt = h)
  BY KnownStep
<1>5. Places(h) = 0 => th[t].q # h
  BY <1>0, SomePlace
<1> HIDE DEF Places
<1> USE DEF Targets
<1>6. CASE ctx[h] \in {"none", "raw"} /\ ctx'[h] \in {"none", "raw"}
  <2>1. th[t].tgt # h \/ th[t].pc \in {"n_queue", "remove", "mark"}
    BY <1>0, <1>2, <1>3, <1>6 DEF Born, Refers
  <2>2. mem[h] = "none" /\ len[h] = 0 /\ global[h] = 0 /\ release[h] = 0
        /\ h \notin known /\ h \notin orphans /\ Places(h) = 0 /\ h # Log
    BY <1>0, <1>6 DEF Born
  <2>3. th[t].pc = "mark" /\ th[t].tgt = h => ctx[h] = "raw"
    BY <1>0, <1>6 DEF Born, Refers
  <2>4. Untouched(h)
    BY <1>1, <1>5, <1>6, <2>1, <2>2, <2>3 DEF QueueRule, PopRule, PushRule, FreeRule, BornRule,
       MarkRule, LostRule
  <2>5. h \notin known'
    BY <1>4, <2>1, <2>2
  <2>6. slot'[h] = "none" <=> ctx'[h] = "none"
    BY <1>0, <1>1, <1>3, <1>6 DEF CtxRule, SlotRule, Born
  <2> QED BY <1>6, <2>2, <2>4, <2>5, <2>6 DEF Born, Untouched
<1>7. CASE ctx[h] \in {"none", "raw"} /\ ctx'[h] \notin {"none", "raw"}
  <2>1. /\ th[t].pc = "n_queue" /\ th[t].tgt = h /\ ctx'[h] = "ready" /\ mem'[h] = "alloc"
        /\ slot[h] # "none"
    BY <1>0, <1>1, <1>3, <1>7 DEF CtxRule, Refers, Born
  <2>2. release[h] = 0 /\ release'[h] = 0
    BY <1>0, <1>1, <1>7, <2>1 DEF QueueRule, PopRule, PushRule, FreeRule, BornRule, MarkRule,
       LostRule, Untouched, Born
  <2>3. slot'[h] # "none"
    BY <1>1, <2>1 DEF SlotRule
  <2> QED BY <2>1, <2>2, <2>3 DEF Born
<1>8. CASE ctx[h] \in {"ready", "freed"}
  <2>1. ctx'[h] \in {"ready", "freed"} /\ slot[h] # "none" /\ slot'[h] # "none"
    BY <1>0, <1>1, <1>8 DEF CtxRule, SlotRule, Born
  <2>2. mem'[h] # "none"
    BY <1>0, <1>1, <1>8 DEF QueueRule, PopRule, PushRule, FreeRule, BornRule, MarkRule,
       LostRule, Untouched, Born
  <2>3. slot[h] = "gone" => slot'[h] = "gone"
    BY <1>1 DEF SlotRule
  <2>4. release'[h] = 1 => slot'[h] = "gone"
    BY <1>0, <1>1, <2>3 DEF QueueRule, PopRule, PushRule, FreeRule, BornRule, MarkRule,
       LostRule, Untouched, Born, Refers
  <2>5. release[h] = 1 => release'[h] = 1
    BY <1>1 DEF QueueRule, PopRule, PushRule, FreeRule, BornRule, MarkRule,
       LostRule, Untouched
  <2>6. mem'[h] = "freed" => release'[h] = 1
    BY <1>0, <1>1, <2>5 DEF QueueRule, PopRule, PushRule, FreeRule, BornRule, MarkRule,
       LostRule, Untouched, Born
  <2>7. ctx'[h] = "freed" => release'[h] = 1
    BY <1>0, <1>1, <1>8, <2>5 DEF CtxRule, Born, Refers
  <2> QED BY <2>1, <2>2, <2>4, <2>6, <2>7 DEF Born
<1> QED BY <1>3, <1>6, <1>7, <1>8

\* What the other threads refer to is not taken away from them.
LEMMA OthersRefer ==
    ASSUME LifeInv, NEW t \in Thread, Run(t) \/ Ask(t), NEW u \in Thread, u # t
    PROVE  Refers(u)'
<1>0. Types /\ Refers(u) /\ Refers(t) /\ Apart(u, t)
  BY DEF LifeInv, CountInv
<1>1. th'[u] = th[u]
  BY <1>0, ThreadsNext
<1>2. \A h \in Service : QueueRule(t, h) /\ CtxRule(t, h) /\ SlotRule(t, h) /\ Born(h)
  BY <1>0, QueueStep, CtxStep, SlotStep DEF LifeInv
<1>3. th[u].todo \subseteq Service /\ (th[u].pc \in Targets => th[u].tgt \in Service)
  BY <1>0 DEF Types, Threads, Registers, Shape
<1>4. \A h \in Service : slot[h] # "none" => slot'[h] # "none"
  BY <1>2 DEF SlotRule
<1>5. \A h \in th[u].todo : slot'[h] # "none"
  BY <1>0, <1>3, <1>4 DEF Refers
<1>6. CASE th[u].pc \notin Targets
  BY <1>1, <1>5, <1>6 DEF Refers, Targets
<1>7. CASE th[u].pc \in Targets
  <2> DEFINE h == th[u].tgt
  <2>0. h \in Service /\ QueueRule(t, h) /\ CtxRule(t, h) /\ SlotRule(t, h) /\ Born(h)
    BY <1>2, <1>3, <1>7
  <2>1. slot[h] # "none" /\ slot'[h] # "none"
    BY <1>0, <1>4, <1>7, <2>0 DEF Refers
  <2>2. ctx'[h] = "raw" => ctx[h] = "raw"
    BY <2>0, <2>1 DEF CtxRule
  <2>3. th[u].pc = "n_queue" => ctx'[h] = "raw"
    BY <1>0, <2>0 DEF CtxRule, Apart, Refers
  <2>4. th[u].pc = "mark" => slot'[h] = "gone" /\ release'[h] = 0
    <3>1. ASSUME th[u].pc = "mark" PROVE slot'[h] = "gone"
      BY <1>0, <2>0, <3>1 DEF SlotRule, Refers
    <3>2. ASSUME th[u].pc = "mark" PROVE release'[h] = 0
      BY <1>0, <2>0, <3>2 DEF QueueRule, PopRule, PushRule, FreeRule, BornRule, MarkRule,
         LostRule, Untouched, Apart, Refers
    <3> QED BY <3>1, <3>2
  <2>5. th[u].pc = "free" => release'[h] = 1 /\ ctx'[h] = "ready"
    <3>1. ASSUME th[u].pc = "free" PROVE release'[h] = 1
      BY <1>0, <2>0, <3>1 DEF QueueRule, PopRule, PushRule, FreeRule, BornRule, MarkRule,
         LostRule, Untouched, Refers
    <3>2. ASSUME th[u].pc = "free" PROVE ctx'[h] = "ready"
      BY <1>0, <2>0, <3>2 DEF CtxRule, Apart, Refers, Born
    <3> QED BY <3>1, <3>2
  <2> HIDE DEF h
  <2>6. /\ th[u].pc \in Targets /\ ctx[h] = "raw" =>
              \/ th[u].pc = "n_queue"
              \/ th[u].pc \in {"remove", "mark"} /\ th[u].ret = "abort"
    BY <1>0 DEF Refers, h
  <2>7. th'[u].tgt = h
    BY <1>1 DEF h
  <2> QED BY <1>1, <1>5, <2>1, <2>2, <2>3, <2>4, <2>5, <2>6, <2>7 DEF Refers
<1> QED BY <1>6, <1>7

LEMMA SelfRefers ==
    ASSUME LifeInv, NEW t \in Thread, Run(t) \/ Ask(t)
    PROVE  Refers(t)'
<1>0. Types /\ Refers(t) /\ Turn(t)
  BY TurnStep DEF LifeInv, CountInv
<1>1. /\ th'[t].pc \in Targets <=> th'[t].tgt # None
      /\ th'[t].tgt \in Service \cup {None} /\ None \notin Service
      /\ th[t].q \in Service \cup {None} /\ known \subseteq Service
      /\ th'[t].todo \subseteq Service /\ th[t].todo \subseteq Service
      /\ th[t].pc \in Targets <=> th[t].tgt # None
  BY <1>0, TypesNext, ServiceFacts DEF Types, Tables, Threads, Registers, Shape
<1>2. \A h \in Service : CtxRule(t, h) /\ SlotRule(t, h) /\ Born(h)
  BY <1>0, CtxStep, SlotStep DEF LifeInv
<1>4. \A h \in Service : slot[h] # "none" => slot'[h] # "none"
  BY <1>2 DEF SlotRule
<1>5. \A h \in th'[t].todo : slot'[h] # "none"
  BY <1>0, <1>1, <1>4 DEF Refers, Turn
<1>6. CASE th'[t].pc \notin Targets
  BY <1>5, <1>6 DEF Refers, Targets
<1>7. CASE th'[t].pc \in Targets
  <2>h. PICK h \in Service : h = th'[t].tgt
    BY <1>1, <1>7
  <2>0. CtxRule(t, h) /\ SlotRule(t, h) /\ Born(h)
    BY <1>2
  <2>a. /\ release[h] \in {0, 1} /\ slot[h] \in {"none", "used", "gone"}
        /\ ctx[h] \in {"none", "raw", "ready", "freed"}
    BY <1>0 DEF Types, Tables
  <2>b. th[t].q = h => Places(h) # 0
    BY <1>0, SomePlace
  <2>1. CASE th'[t].pc = "n_queue"
    BY <1>0, <1>5, <2>h, <2>1 DEF Refers, Turn
  <2>2. CASE th'[t].pc = "mark"
    <3>1. CASE th[t].pc = "remove" /\ slot[h] = "used" /\ slot'[h] = "gone"
               /\ th[t].tgt = h /\ release' = release /\ th'[t].ret = th[t].ret
      <4>1. release'[h] = 0
        BY <2>0, <2>a, <3>1 DEF Born
      <4>2. ctx'[h] = "raw" => ctx[h] = "raw"
        BY <2>0, <3>1 DEF CtxRule
      <4>3. ctx[h] = "raw" => th[t].ret = "abort"
        BY <1>0, <3>1 DEF Refers, Targets
      <4> QED BY <1>5, <2>h, <2>2, <3>1, <4>1, <4>2, <4>3 DEF Refers, Targets
    <3>2. CASE th'[t] = th[t] /\ slot' = slot /\ ctx' = ctx /\ release' = release
      BY <1>0, <3>2 DEF Refers
    <3> QED BY <1>0, <1>1, <2>h, <2>2, <3>1, <3>2 DEF Turn
  <2>3. CASE th'[t].pc = "free"
    <3>1. th[t].pc = "mark" /\ h = th[t].tgt /\ ctx[h] # "raw" /\ release'[h] = 1 /\ ctx' = ctx
      BY <1>0, <2>h, <2>3 DEF Turn
    <3>2. slot[h] = "gone" /\ release[h] = 0
      BY <1>0, <3>1 DEF Refers
    <3>3. ctx[h] = "ready" /\ ctx'[h] = "ready"
      BY <2>0, <2>a, <3>1, <3>2 DEF Born
    <3>4. slot'[h] # "none"
      BY <1>4, <3>2
    <3> QED BY <1>5, <2>h, <2>3, <3>1, <3>3, <3>4 DEF Refers
  <2>4. CASE th'[t].pc \notin {"n_queue", "mark", "free"}
    <3> DEFINE Safe == /\ slot[h] # "none"
                       /\ ctx'[h] = "raw" => th'[t].pc = "remove" /\ th'[t].ret = "abort"
    <3>1. ASSUME h = th[t].tgt,
                 th[t].pc = "remove" /\ th[t].ret = "abort" => th'[t].pc = "mark",
                 th[t].pc = "n_queue" => ctx'[th[t].tgt] = "ready",
                 th[t].pc = "mark" => th'[t].pc = "free" \/ th'[t] = th[t]
          PROVE  Safe
      <4>1. th[t].pc \in Targets
        BY <1>1, <3>1
      <4>2. slot[h] # "none"
        BY <1>0, <3>1, <4>1 DEF Refers
      <4>3. ctx'[h] = "raw" => ctx[h] = "raw"
        BY <2>0, <4>2 DEF CtxRule
      <4>4. ASSUME ctx[h] = "raw" PROVE ctx'[h] = "ready"
        <5>1. th[t].pc = "n_queue" \/ (th[t].pc \in {"remove", "mark"} /\ th[t].ret = "abort")
          BY <1>0, <3>1, <4>1, <4>4 DEF Refers
        <5> QED BY <2>4, <3>1, <5>1
      <4> QED BY <4>2, <4>3, <4>4
    <3>2. ASSUME h = th[t].q \/ h \in known PROVE Safe
      <4>1. ctx[h] \notin {"none", "raw"}
        BY <2>0, <2>b, <3>2 DEF Born
      <4>2. slot[h] # "none"
        BY <2>0, <4>1 DEF Born
      <4>3. ctx'[h] # "raw"
        BY <2>0, <4>1, <4>2 DEF CtxRule
      <4> QED BY <4>2, <4>3
    <3>3. ASSUME h \in th[t].todo, th'[t].pc = "remove", th'[t].ret = "abort" PROVE Safe
      BY <1>0, <3>3 DEF Refers
    <3>4. Safe
      <4> HIDE DEF Safe
      <4>1. th'[t].tgt # None
        BY <1>1, <1>7
      <4> QED BY <1>0, <2>h, <2>4, <3>1, <3>2, <3>3, <4>1 DEF Turn
    <3>5. slot'[h] # "none"
      BY <1>4, <3>4
    <3> QED BY <1>5, <2>h, <2>4, <3>4, <3>5 DEF Refers
  <2> QED BY <2>1, <2>2, <2>3, <2>4
<1> QED BY <1>6, <1>7

LEMMA ApartNext ==
    ASSUME LifeInv, NEW t \in Thread, Run(t) \/ Ask(t), NEW u \in Thread, NEW v \in Thread
    PROVE  Apart(u, v)'
<1>0. Types /\ Refers(u) /\ Refers(v) /\ Apart(u, v) /\ Turn(t)
      /\ Apart(u, t) /\ Apart(v, t)
  BY TurnStep DEF LifeInv, CountInv
<1>1. \A w \in Thread : w # t => th'[w] = th[w]
  BY <1>0, ThreadsNext
<1>2. \A w \in Thread : th[w].pc \in Targets => th[w].tgt \in Service
  BY <1>0 DEF Types, Threads, Registers, Shape
<1>3. \A h \in Service : release[h] = 1 => slot[h] = "gone"
  BY DEF LifeInv, Born
<1>4. CASE u # t /\ v # t
  BY <1>0, <1>1, <1>4 DEF Apart
<1>5. ASSUME NEW w \in Thread, w # t, th'[w].tgt = th'[t].tgt, Refers(w), Apart(w, t)
      PROVE  /\ ~(th'[t].pc = "n_queue" /\ th'[w].pc = "n_queue")
             /\ ~(th'[t].pc \in {"mark", "free"} /\ th'[w].pc \in {"mark", "free"})
  <2>1. th'[w] = th[w]
    BY <1>1, <1>5
  <2>2. th'[t].pc = "n_queue" => th'[w].pc # "n_queue"
    BY <1>0, <1>5, <2>1 DEF Turn, Refers, Targets
  <2>3. th[w].pc \in {"mark", "free"} => slot[th[w].tgt] = "gone"
    BY <1>2, <1>3, <1>5 DEF Refers, Targets
  <2>4. th'[t].pc \in {"mark", "free"} => th'[w].pc \notin {"mark", "free"}
    BY <1>0, <1>5, <2>1, <2>3 DEF Turn, Apart
  <2> QED BY <2>2, <2>4
<1> QED BY <1>0, <1>4, <1>5 DEF Apart

LEMMA LifeNext ==
    ASSUME LifeInv, NEW t \in Thread, Run(t) \/ Ask(t)
    PROVE  LifeInv'
<1>1. CountInv'
  <2>1. CountInv
    BY DEF LifeInv
  <2>2. Types /\ Types'
    BY <2>1, TypesNext DEF CountInv
  <2>3. \A h \in Service : Counts(h)'
    BY <2>1, <2>2, CountsNext DEF CountInv
  <2> QED BY <2>2, <2>3 DEF CountInv
<1>2. \A h \in Service : Born(h)'
  BY BornNext
<1>3. \A u \in Thread : Refers(u)'
  BY SelfRefers, OthersRefer
<1>4. \A u, v \in Thread : Apart(u, v)'
  BY ApartNext
<1> QED BY <1>1, <1>2, <1>3, <1>4 DEF LifeInv

\* When pixel_start is done, the queues of log and bootstrap are in the list.
LEMMA PlacesInit == Init => \A h \in Service : Places(h) = IF h <= 2 THEN 1 ELSE 0
<1> SUFFICES ASSUME Init, NEW h \in Service PROVE Places(h) = IF h <= 2 THEN 1 ELSE 0
  OBVIOUS
<1>0. None \notin Service
  BY ServiceFacts
<1>1. Current(h) = {} /\ Following(h) = {} /\ Launching(h) = {}
  BY <1>0 DEF Init, Idle, Current, Following, Launching, Launches
<1>2. Hands(h) = 0
  BY <1>1, FS_EmptySet DEF Hands
<1>3. h \in Nat /\ h >= 1
  BY DEF Service
<1>4. Len(Q) = 2 /\ Q[1] = 1 /\ Q[2] = 2
  BY DEF Init, Log, Boot
<1>5. Listed(h) = IF h <= 2 THEN {h} ELSE {}
  BY <1>3, <1>4 DEF Listed
<1>6. Cardinality(Listed(h)) = IF h <= 2 THEN 1 ELSE 0
  BY <1>5, FS_Singleton, FS_EmptySet
<1> QED BY <1>2, <1>6 DEF Places

LEMMA LifeInit == Init => LifeInv
<1> SUFFICES ASSUME Init PROVE LifeInv
  OBVIOUS
<1>1. CountInv
  BY TypesInit, CountsInit DEF CountInv
<1>2. ASSUME NEW h \in Service PROVE Born(h)
  <2>1. Places(h) = IF h <= 2 THEN 1 ELSE 0
    BY PlacesInit
  <2>2. h \in Nat /\ h >= 1
    BY DEF Service
  <2>3. /\ slot[h] = IF h <= 2 THEN "used" ELSE "none"
        /\ ctx[h] = IF h <= 2 THEN "ready" ELSE "none"
        /\ mem[h] = IF h <= 2 THEN "alloc" ELSE "none"
        /\ len[h] = IF h = 2 THEN 1 ELSE 0
        /\ global[h] = IF h <= 2 THEN 1 ELSE 0
        /\ release[h] = 0 /\ known = {1, 2} /\ orphans = {}
    BY DEF Init, Log, Boot
  <2> HIDE DEF Places
  <2> QED BY <2>1, <2>2, <2>3 DEF Born, Log
<1>3. \A t \in Thread : Refers(t)
  BY DEF Init, Idle, Refers, Targets
<1>4. \A t, u \in Thread : Apart(t, u)
  BY DEF Init, Idle, Apart
<1> QED BY <1>1, <1>2, <1>3, <1>4 DEF LifeInv

-----------------------------------------------------------------------------
(* One place per queue *)

\* A queue that exists and is scheduled or marked is in exactly one place, a
\* queue that is neither is nowhere; one with messages is scheduled; and the
\* queue of a failed launch that somebody else had grabbed is in no place.
Token(h) ==
    ~OverReleased(h) =>
        /\ Places(h) <= 1
        /\ mem[h] # "alloc" => Places(h) = 0
        /\ global[h] = 0 /\ release[h] = 0 => Places(h) = 0
        /\ mem[h] = "alloc" /\ h \notin orphans /\ (global[h] = 1 \/ release[h] = 1)
              => Places(h) = 1
        /\ len[h] > 0 => global[h] = 1
        /\ h \in orphans => Places(h) = 0 /\ (global[h] = 1 \/ release[h] = 1)

LEMMA TokenNext ==
    ASSUME LifeInv, NEW t \in Thread, Run(t) \/ Ask(t), NEW h \in Service, Token(h)
    PROVE  Token(h)'
<1>0. Types /\ Born(h) /\ Refers(t) /\ CountInv
  BY DEF LifeInv, CountInv
<1>1. /\ QueueRule(t, h) /\ SlotRule(t, h)
      /\ Places(h) \in Nat /\ Places(h)' \in Nat
  BY <1>0, QueueStep, SlotStep
<1>2. /\ slot[h] \in {"none", "used", "gone"} /\ release[h] \in {0, 1} /\ global[h] \in {0, 1}
      /\ len[h] \in Nat /\ drops[h] \in Nat /\ drops'[h] \in Nat
      /\ ctx[h] \in {"none", "raw", "ready", "freed"} /\ mem[h] \in {"none", "alloc", "freed"}
      /\ Standing(h) \in Nat
  BY <1>0, TypesNext DEF Types, Tables, Standing
<1>3. ~OverReleased(h)' => ~OverReleased(h)
  BY <1>1, <1>2 DEF SlotRule, OverReleased
<1> SUFFICES ASSUME ~OverReleased(h)' PROVE Token(h)'
  BY DEF Token
<1>4. /\ Places(h) <= 1
      /\ mem[h] # "alloc" => Places(h) = 0
      /\ global[h] = 0 /\ release[h] = 0 => Places(h) = 0
      /\ mem[h] = "alloc" /\ h \notin orphans /\ (global[h] = 1 \/ release[h] = 1)
            => Places(h) = 1
      /\ len[h] > 0 => global[h] = 1
      /\ h \in orphans => Places(h) = 0 /\ (global[h] = 1 \/ release[h] = 1)
  BY <1>3 DEF Token
<1>5. ASSUME \/ th[t].pc = "pop" /\ th[t].q = h
             \/ th[t].pc \in {"use", "init"} /\ th[t].tgt = h
      PROVE  slot[h] = "used" /\ release[h] = 0
  <2>1. Grab(th[t], h) > 0
    BY <1>5 DEF Grab, One
  <2> QED BY <1>0, <1>2, <1>3, <2>1, GrabKeeps DEF Born
<1>6. CASE Untouched(h)
  BY <1>4, <1>6 DEF Untouched, Token
<1>7. CASE PopRule(t, h)
  BY <1>1, <1>2, <1>4, <1>5, <1>7 DEF PopRule, Token
<1>8. CASE PushRule(t, h)
  <2>1. slot[h] = "used" /\ release[h] = 0
    BY <1>5, <1>8 DEF PushRule
  <2>2. mem[h] = "alloc"
    BY <1>0, <1>2, <1>8, <2>1 DEF PushRule, Born, Refers, Targets
  <2>3. th[t].pc = "init" => Places(h) # 0
    BY <1>0, <1>8, SomePlace DEF PushRule, Launches
  <2> QED BY <1>1, <1>2, <1>4, <1>8, <2>1, <2>2, <2>3 DEF PushRule, Token, One
<1>9. CASE FreeRule(t, h)
  BY <1>1, <1>2, <1>4, <1>9 DEF FreeRule, Token
<1>10. CASE BornRule(t, h)
  BY <1>0, <1>1, <1>2, <1>4, <1>10 DEF BornRule, Token, Refers, Born, Targets
<1>11. CASE MarkRule(t, h)
  <2>1. slot[h] = "gone" /\ release[h] = 0
    BY <1>0, <1>11 DEF MarkRule, Refers
  <2>2. mem[h] = "alloc"
    BY <1>0, <1>2, <1>11, <2>1 DEF MarkRule, Born
  <2> QED BY <1>1, <1>2, <1>4, <1>11, <2>1, <2>2 DEF MarkRule, Token, One
<1>12. CASE LostRule(t, h)
  BY <1>1, <1>2, <1>4, <1>12 DEF LostRule, Token
<1> QED BY <1>1, <1>6, <1>7, <1>8, <1>9, <1>10, <1>11, <1>12 DEF QueueRule

TokenInv == LifeInv /\ \A h \in Service : Token(h)

LEMMA TokenInit == Init => TokenInv
<1> SUFFICES ASSUME Init, NEW h \in Service PROVE Token(h)
  BY LifeInit DEF TokenInv
<1>1. Places(h) = IF h <= 2 THEN 1 ELSE 0
  BY PlacesInit
<1>2. h \in Nat /\ h >= 1
  BY DEF Service
<1>3. /\ mem[h] = IF h <= 2 THEN "alloc" ELSE "none"
      /\ len[h] = IF h = 2 THEN 1 ELSE 0
      /\ global[h] = IF h <= 2 THEN 1 ELSE 0
      /\ release[h] = 0 /\ orphans = {}
  BY DEF Init, Log, Boot
<1> HIDE DEF Places
<1> QED BY <1>1, <1>2, <1>3 DEF Token

LEMMA TokenInvNext == TokenInv /\ [Next]_vars => TokenInv'
<1> SUFFICES ASSUME TokenInv, [Next]_vars PROVE TokenInv'
  OBVIOUS
<1>1. CASE UNCHANGED vars
  <2>1. CountInv'
    BY <1>1, CountInvNext DEF TokenInv, LifeInv
  <2>2. \A h \in Service : Places(h)' = Places(h)
    BY <1>1 DEF vars, Places, Hands, Listed, Current, Following, Launching
  <2>3. \A h \in Service : Born(h)'
    BY <1>1, <2>2 DEF vars, TokenInv, LifeInv, Born
  <2>4. \A t \in Thread : Refers(t)'
    BY <1>1 DEF vars, TokenInv, LifeInv, Refers
  <2>5. \A t, u \in Thread : Apart(t, u)'
    BY <1>1 DEF vars, TokenInv, LifeInv, Apart
  <2>6. \A h \in Service : Token(h)'
    BY <1>1, <2>2 DEF vars, TokenInv, Token, OverReleased
  <2> QED BY <2>1, <2>3, <2>4, <2>5, <2>6 DEF TokenInv, LifeInv
<1>2. ASSUME NEW t \in Thread, Run(t) \/ Ask(t) PROVE TokenInv'
  BY <1>2, LifeNext, TokenNext DEF TokenInv
<1> QED BY <1>1, <1>2 DEF Next

\* A queue in one place has one token, a queue in none has none.
LEMMA TokensArePlaces ==
    ASSUME Types, NEW h \in Service
    PROVE  /\ Tokens(h) \in Nat /\ Places(h) \in Nat
           /\ Tokens(h) <= Places(h)
           /\ Places(h) # 0 => Tokens(h) # 0
<1> DEFINE I == {t \in Thread : InHand(t, h)}
<1>1. /\ IsFiniteSet(Current(h)) /\ IsFiniteSet(Following(h)) /\ IsFiniteSet(Launching(h))
  BY ServiceFacts, FS_Subset DEF Current, Following, Launching
<1>2. I = (Current(h) \cup Following(h)) \cup Launching(h)
  BY DEF InHand, Current, Following, Launching, Launches
<1>3. IsFiniteSet(Listed(h))
  <2>1. Len(Q) \in Nat
    BY LenProperties DEF Types, Tables
  <2>2. IsFiniteSet(1 .. Len(Q))
    BY <2>1, FS_Interval
  <2> QED BY <2>2, FS_Subset DEF Listed
<1> DEFINE a == Cardinality(Listed(h))
           b == Cardinality(Current(h))
           c == Cardinality(Following(h))
           d == Cardinality(Launching(h))
           i == Cardinality(I)
<1>4. a \in Nat /\ b \in Nat /\ c \in Nat /\ d \in Nat
  BY <1>1, <1>3, FS_CardinalityType
<1>5. i \in Nat /\ i <= b + c + d /\ (i = 0 => b = 0 /\ c = 0 /\ d = 0)
  <2>1. /\ IsFiniteSet(Current(h) \cup Following(h))
        /\ Cardinality(Current(h) \cup Following(h)) \in Nat
        /\ Cardinality(Current(h) \cup Following(h)) <= b + c
    <3>1. /\ IsFiniteSet(Current(h) \cup Following(h))
          /\ IsFiniteSet(Current(h) \cap Following(h))
          /\ Cardinality(Current(h) \cup Following(h)) =
                b + c - Cardinality(Current(h) \cap Following(h))
      BY <1>1, FS_Union, FS_Intersection
    <3>2. /\ Cardinality(Current(h) \cup Following(h)) \in Nat
          /\ Cardinality(Current(h) \cap Following(h)) \in Nat
      BY <3>1, FS_CardinalityType
    <3> QED BY <1>4, <3>1, <3>2
  <2> DEFINE S == Current(h) \cup Following(h)
             s == Cardinality(S)
  <2>2. IsFiniteSet(S) /\ s \in Nat /\ s <= b + c
    BY <2>1
  <2>3. I = S \cup Launching(h)
    BY <1>2
  <2> HIDE DEF S
  <2>4. /\ IsFiniteSet(I) /\ IsFiniteSet(S \cap Launching(h))
        /\ i = s + d - Cardinality(S \cap Launching(h))
    BY <1>1, <2>2, <2>3, FS_Union, FS_Intersection
  <2>5. i \in Nat /\ Cardinality(S \cap Launching(h)) \in Nat
    BY <2>4, FS_CardinalityType
  <2>6. i <= b + c + d
    <3> HIDE DEF b, c, d, i, s
    <3> QED BY <1>4, <2>2, <2>4, <2>5
  <2>7. ASSUME i = 0 PROVE b = 0 /\ c = 0 /\ d = 0
    <3>1. I = {}
      BY <2>4, <2>7, FS_EmptySet
    <3>2. Current(h) = {} /\ Following(h) = {} /\ Launching(h) = {}
      BY <1>2, <3>1
    <3> QED BY <3>2, FS_EmptySet
  <2> QED BY <2>5, <2>6, <2>7
<1>6. Places(h) = a + (b + c + d) /\ Tokens(h) = a + i
  BY DEF Places, Hands, Tokens, Listed
<1> HIDE DEF a, b, c, d, i
<1> QED BY <1>4, <1>5, <1>6

\* CallbackSerial: the queue of a service is in at most one place, so at most
\* one thread runs its callback, however workers, senders, launches, kills
\* and aborts interleave.
THEOREM OneThread == Spec => []CallbackSerial
<1>1. ASSUME TokenInv PROVE CallbackSerial
  <2> SUFFICES ASSUME NEW h \in Service, ~OverReleased(h)
               PROVE  /\ Tokens(h) <= 1
                      /\ \A t, u \in Thread : th[t].run = h /\ th[u].run = h => t = u
    BY DEF CallbackSerial
  <2>1. Types /\ Places(h) <= 1
    BY <1>1 DEF TokenInv, LifeInv, CountInv, Token
  <2>2. Tokens(h) <= 1
    BY <2>1, TokensArePlaces
  <2>3. ASSUME NEW t \in Thread, NEW u \in Thread, th[t].run = h, th[u].run = h PROVE t = u
    <3>1. t \in Current(h) /\ u \in Current(h)
      BY <2>1, <2>3, ServiceFacts DEF Types, Threads, Shape, Current
    <3>2. IsFiniteSet(Current(h)) /\ IsFiniteSet(Following(h)) /\ IsFiniteSet(Launching(h))
      BY ServiceFacts, FS_Subset DEF Current, Following, Launching
    <3>3. Cardinality(Current(h)) = 1
      <4>1. /\ Cardinality(Current(h)) \in Nat /\ Cardinality(Following(h)) \in Nat
            /\ Cardinality(Launching(h)) \in Nat /\ Cardinality(Current(h)) # 0
        BY <3>1, <3>2, FS_CardinalityType, FS_EmptySet
      <4>2. Cardinality(Listed(h)) \in Nat
        BY <2>1, ListedStep DEF Types, Tables
      <4>3. Places(h) = Cardinality(Listed(h)) + (Cardinality(Current(h))
                          + Cardinality(Following(h)) + Cardinality(Launching(h)))
        BY DEF Places, Hands
      <4> DEFINE a == Cardinality(Listed(h))
                 b == Cardinality(Current(h))
                 c == Cardinality(Following(h))
                 d == Cardinality(Launching(h))
      <4>4. a \in Nat /\ b \in Nat /\ c \in Nat /\ d \in Nat /\ b # 0 /\ a + (b + c + d) <= 1
        BY <2>1, <4>1, <4>2, <4>3
      <4> HIDE DEF a, b, c, d
      <4>5. b = 1
        BY <4>4
      <4> QED BY <4>5 DEF b
    <3> QED BY <3>1, <3>2, <3>3, FS_Singleton
  <2> QED BY <2>2, <2>3
<1> QED BY <1>1, TokenInit, TokenInvNext, PTL DEF Spec

\* NoStranded: a queue with messages, or one that is marked for release, is
\* in the list or in a thread's hands, so somebody will look at it, except
\* after a failed launch whose handle somebody else had grabbed.
THEOREM NothingStranded == Spec => []NoStranded
<1>1. ASSUME TokenInv PROVE NoStranded
  <2> SUFFICES ASSUME NEW h \in Service, mem[h] = "alloc", ~OverReleased(h), h \notin orphans,
                      len[h] > 0 \/ release[h] = 1
               PROVE  Tokens(h) = 1
    BY DEF NoStranded
  <2>1. Types /\ Places(h) = 1
    BY <1>1 DEF TokenInv, LifeInv, CountInv, Token
  <2> QED BY <2>1, TokensArePlaces
<1> QED BY <1>1, TokenInit, TokenInvNext, PTL DEF Spec

-----------------------------------------------------------------------------
(* ABORT, launches and null pointers *)

\* As long as nobody has called ABORT no null pointer is dereferenced: until
\* its launcher has grabbed it, nobody else can get at a new service.
Alone(t) ==
    /\ slot[th[t].tgt] = "used" /\ th[t].tgt \notin known
    /\ Places(th[t].tgt) = One(th[t].pc = "n_grab")
    /\ \A u \in Thread : u # t => th[u].tgt # th[t].tgt

Sheltered ==
    /\ budget.abort <= MaxAbort
    /\ budget.abort = MaxAbort =>
          /\ ~crashed
          /\ \A t \in Thread : Place(th[t]) # "abort"
          /\ \A t \in Thread : th[t].pc \in {"n_queue", "n_grab"} => Alone(t)

\* What a step does to the commands left, and when it crashes.
AbortRule(t) ==
    /\ budget'.abort <= budget.abort
    /\ Place(th'[t]) = "abort" => Place(th[t]) = "abort" \/ budget'.abort < budget.abort
    /\ crashed' => \/ crashed
                   \/ th[t].pc = "mark" /\ ctx[th[t].tgt] = "raw"
                   \/ th[t].pc = "n_grab" /\ slot[th[t].tgt] # "used"

LEMMA AbortStep ==
    ASSUME Types, NEW t \in Thread, Run(t) \/ Ask(t)
    PROVE  AbortRule(t)
<1> USE ServiceFacts DEF Registers, Shape, Place, Sub, Dispatch, Callback, Targets, Returns,
                         InNew, AbortRule
<1>0. th \in [Thread -> Registers] /\ Shape(th[t]) /\ th[t] \in Registers
  BY DEF Types, Threads
<1>a. budget \in [send : Nat, kill : Nat, abort : Nat] /\ budget.abort \in Nat
  BY DEF Types, Tables
<1>1. CASE handle_release(t)
  <2>1. /\ th[t].pc = "rel" /\ UNCHANGED <<budget, crashed>>
        /\ \/ th'[t].pc = "remove" /\ th'[t].ret = th[t].ret
           \/ th'[t].pc = th[t].ret /\ th'[t].ret = "idle"
    BY <1>0, <1>1 DEF handle_release, ReleaseRef
  <2> QED BY <1>0, <1>a, <2>1
<1>2. CASE handle_remove(t) \/ free_ctx(t)
  <2>1. /\ th[t].pc \in {"remove", "free"} /\ UNCHANGED <<budget, crashed>>
        /\ \/ th'[t].pc = "mark" /\ th'[t].ret = th[t].ret
           \/ th'[t].pc = th[t].ret /\ th'[t].ret = "idle"
    <3>1. CASE th' = [th EXCEPT ![t].pc = "mark"]
      BY <1>0, <1>2, <3>1 DEF handle_remove, free_ctx
    <3>2. CASE Return(t, FALSE)
      BY <1>0, <1>2, <3>2 DEF handle_remove, free_ctx, Return
    <3> QED BY <1>2, <3>1, <3>2 DEF handle_remove, free_ctx, Go
  <2> QED BY <1>0, <1>a, <2>1
<1>3. CASE queue_mark_free(t)
  BY <1>0, <1>a, <1>3 DEF queue_mark_free, Go
<1>5. CASE total_dec(t) \/ dispatch_pop_global(t) \/ dispatch_grab(t) \/ dispatch_free(t)
  <2>1. /\ UNCHANGED <<budget, crashed>> /\ th'[t].pc \in {"grab", "pop", "qfree", "dec", "idle", "cb"}
        /\ th'[t].ret \in {"idle", "cb"}
    BY <1>0, <1>5 DEF total_dec, dispatch_pop_global, dispatch_grab, dispatch_free, Go
  <2> QED BY <1>a, <2>1
<1>6. CASE dispatch_pop(t) \/ dispatch_next(t) \/ dispatch_swap(t)
  <2>1. /\ UNCHANGED <<budget, crashed>> /\ th'[t].pc \in {"cb", "swap", "rel"}
        /\ th'[t].ret \in {"idle", "grab"}
    <3>1. CASE dispatch_pop(t)
      BY <1>0, <3>1 DEF dispatch_pop
    <3>2. CASE dispatch_next(t)
      BY <1>0, <3>2 DEF dispatch_next
    <3>3. CASE dispatch_swap(t)
      BY <1>0, <3>3 DEF dispatch_swap
    <3> QED BY <1>6, <3>1, <3>2, <3>3
  <2> QED BY <1>a, <2>1
<1>7. CASE use_push(t) \/ use_other(t)
  <2>1. th[t].pc = "use" /\ th'[t].pc = "rel" /\ th'[t].ret = th[t].ret
        /\ UNCHANGED <<budget, crashed>>
    BY <1>0, <1>7 DEF use_push, use_other, Go
  <2> QED BY <1>0, <1>a, <2>1
<1>8. CASE abort_release(t)
  <2>1. th[t].pc = "abort" /\ UNCHANGED <<budget, crashed>>
    BY <1>8 DEF abort_release
  <2> QED BY <1>a, <2>1
<1>9. CASE cmd_abort(t)
  <2>1. budget'.abort = budget.abort - 1 /\ crashed' = crashed
    BY <1>a, <1>9 DEF cmd_abort
  <2> QED BY <1>a, <2>1
<1>10. CASE \/ abort_done(t) \/ new_done(t) \/ new_queue(t) \/ init_ok(t) \/ init_fail(t)
            \/ new_publish(t) \/ init_expose(t)
  <2>1. /\ UNCHANGED <<budget, crashed>> /\ th'[t].pc \in {"cb", "n_grab", "publish", "rel", "init"}
        /\ th'[t].ret \in {"idle", "n_force", "n_done"}
    BY <1>0, <1>10 DEF abort_done, new_done, new_queue, init_ok, init_fail, new_publish,
                       init_expose, Go
  <2> QED BY <1>a, <2>1
<1>11. CASE new_grab(t)
  BY <1>0, <1>a, <1>11 DEF new_grab, Go
<1>12. CASE force_release(t)
  <2>1. /\ th[t].pc = "n_force" /\ ReleaseRef(t, th[t], th[t].tgt, "n_forced")
        /\ UNCHANGED <<budget, crashed>>
    BY <1>12 DEF force_release, Drop
  <2>2. \/ th'[t].pc = "remove" /\ th'[t].ret = "n_forced"
        \/ th'[t].pc = "n_forced"
    <3>1. CASE slot[th[t].tgt] = "used" /\ ref[th[t].tgt] <= 1
      BY <1>0, <2>1, <3>1 DEF ReleaseRef
    <3>2. CASE ~(slot[th[t].tgt] = "used" /\ ref[th[t].tgt] <= 1)
      <4> DEFINE a == "n_forced" \in InNew => slot[th[t].tgt] = "used"
                 j == [th[t] EXCEPT !.pc = "n_forced", !.ret = "idle",
                                    !.tgt = IF "n_forced" \in InNew THEN th[t].tgt ELSE None,
                                    !.alive = a]
      <4>1. th' = [th EXCEPT ![t] = j]
        BY <2>1, <3>2, Zenon DEF ReleaseRef
      <4>2. j.pc = "n_forced"
        <5> HIDE DEF a
        <5> QED BY <1>0
      <4> HIDE DEF j
      <4>3. th'[t] = j
        BY <1>0, <4>1
      <4> QED BY <4>2, <4>3
    <3> QED BY <3>1, <3>2
  <2> QED BY <1>a, <2>1, <2>2
<1>13. CASE force_free(t)
  BY <1>0, <1>a, <1>13 DEF force_free
<1>14. ASSUME NEW d \in Service, grab_target(t, d) PROVE AbortRule(t)
  <2>1. /\ th'[t].pc \in {"use", "idle", "cb"} /\ th'[t].ret \in {"idle", "cb"}
        /\ crashed' = crashed
    BY <1>0, <1>14 DEF grab_target
  <2>2. budget'.abort = budget.abort
    BY <1>a, <1>14 DEF grab_target
  <2> QED BY <1>a, <2>1, <2>2
<1>15. ASSUME NEW d \in Service, cmd_kill(t, d) PROVE AbortRule(t)
  <2>1. th[t].pc = "cb" /\ ReleaseRef(t, th[t], d, "cb") /\ crashed' = crashed
    BY <1>15 DEF cmd_kill, Drop
  <2>2. th'[t].pc \in {"remove", "cb"} /\ th'[t].ret \in {"cb", "idle"}
    BY <1>0, <2>1 DEF ReleaseRef
  <2>3. budget'.abort = budget.abort
    BY <1>a, <1>15 DEF cmd_kill
  <2> QED BY <1>a, <2>1, <2>2, <2>3
<1>16. CASE new_regist(t)
  BY <1>0, <1>a, <1>16 DEF new_regist
<1> QED BY <1>1, <1>2, <1>3, <1>5, <1>6, <1>7, <1>8, <1>9, <1>10, <1>11, <1>12,
           <1>13, <1>14, <1>15, <1>16 DEF Run, Ask

\* A launcher's queue that is in one place is in no other.
LEMMA OnlyPlace ==
    ASSUME Types, NEW h \in Service, NEW w \in Thread, Launches(th[w], h), Places(h) <= 1
    PROVE  \A t \in Thread : th[t].q # h /\ th[t].nxt # h
<1>1. /\ IsFiniteSet(Current(h)) /\ IsFiniteSet(Following(h)) /\ IsFiniteSet(Launching(h))
  BY ServiceFacts, FS_Subset DEF Current, Following, Launching
<1> DEFINE a == Cardinality(Listed(h))
           b == Cardinality(Current(h))
           c == Cardinality(Following(h))
           d == Cardinality(Launching(h))
<1>2. w \in Launching(h)
  BY DEF Launching
<1>3. a \in Nat /\ b \in Nat /\ c \in Nat /\ d \in Nat /\ d # 0
  <2>1. Cardinality(Listed(h)) \in Nat
    BY ListedStep DEF Types, Tables
  <2> QED BY <1>1, <1>2, <2>1, FS_CardinalityType, FS_EmptySet
<1>4. a + (b + c + d) <= 1
  BY DEF Places, Hands
<1>5. b = 0 /\ c = 0
  <2> HIDE DEF a, b, c, d
  <2> QED BY <1>3, <1>4
<1>6. Current(h) = {} /\ Following(h) = {}
  BY <1>1, <1>5, FS_EmptySet
<1> QED BY <1>6 DEF Current, Following

\* The launcher stays alone with its service while the others take steps ...
LEMMA OthersAlone ==
    ASSUME LifeInv, NEW t \in Thread, Run(t) \/ Ask(t), NEW w \in Thread, w # t,
           th[w].pc \in {"n_queue", "n_grab"}, Alone(w), Place(th[t]) # "abort"
    PROVE  Alone(w)'
<1>0. Types /\ Turn(t)
  BY TurnStep DEF LifeInv, CountInv
<1>1. \A u \in Thread : u # t => th'[u] = th[u]
  BY <1>0, ThreadsNext
<1>2. PICK h \in Service : h = th[w].tgt
  BY <1>0 DEF Types, Threads, Registers, Shape, Targets
<1>3. /\ slot[h] = "used" /\ h \notin known /\ Places(h) = One(th[w].pc = "n_grab")
      /\ \A u \in Thread : u # w => th[u].tgt # h
  BY <1>2 DEF Alone
<1>4. QueueRule(t, h) /\ SlotRule(t, h) /\ Places(h) \in Nat
  BY <1>0, QueueStep, SlotStep
<1>5. th[t].q # h
  <2>1. CASE th[w].pc = "n_queue"
    <3>1. Places(h) = 0
      BY <1>3, <2>1 DEF One
    <3> QED BY <1>0, <3>1, SomePlace
  <2>2. CASE th[w].pc = "n_grab"
    <3>1. Places(h) = 1 /\ Launches(th[w], h)
      BY <1>2, <1>3, <2>2 DEF One, Launches
    <3> QED BY <1>0, <3>1, OnlyPlace
  <2> QED BY <2>1, <2>2
<1>6. th[t].tgt # h
  BY <1>3
<1>7. slot'[h] = "used"
  BY <1>3, <1>4, <1>6 DEF SlotRule
<1>8. h \notin known'
  BY <1>3, <1>6, KnownStep
<1>9. Places(h)' = Places(h)
  BY <1>4, <1>5, <1>6 DEF QueueRule, PopRule, PushRule, FreeRule, BornRule, MarkRule, LostRule,
     Untouched
<1>10. th[t].todo = {}
  BY <1>0 DEF Types, Threads, Shape
<1>11. th'[t].tgt # h
  <2>1. h # None
    BY ServiceFacts
  <2> QED BY <1>0, <1>3, <1>5, <1>6, <1>10, <2>1 DEF Turn
<1>12. \A u \in Thread : u # w => th'[u].tgt # h
  BY <1>1, <1>3, <1>11
<1>13. th'[w] = th[w]
  BY <1>1
<1>14. Alone(w)' = ( /\ slot'[th'[w].tgt] = "used" /\ th'[w].tgt \notin known'
                     /\ (Places(th[w].tgt))' = One(th'[w].pc = "n_grab")
                     /\ \A u \in Thread : u # w => th'[u].tgt # th'[w].tgt )
  BY DEF Alone, One
<1>15. (Places(th[w].tgt))' = Places(h)'
  BY <1>2, <1>13 DEF Places, Hands, Listed, Current, Following, Launching
<1> QED BY <1>2, <1>3, <1>7, <1>8, <1>9, <1>12, <1>13, <1>14, <1>15

\* ... and while it completes the service itself.
LEMMA SelfAlone ==
    ASSUME LifeInv, NEW t \in Thread, Run(t) \/ Ask(t),
           th[t].pc \in {"n_queue", "n_grab"} => Alone(t),
           th'[t].pc \in {"n_queue", "n_grab"}
    PROVE  Alone(t)'
<1>0. Types /\ Turn(t) /\ LifeInv'
  BY TurnStep, LifeNext DEF LifeInv, CountInv
<1>1. \A u \in Thread : u # t => th'[u] = th[u]
  BY <1>0, ThreadsNext
<1>2. PICK h \in Service : h = th'[t].tgt
  BY <1>0 DEF LifeInv, CountInv, Types, Threads, Registers, Shape, Targets
<1>3. \A u \in Thread : th[u].tgt \in Service => slot[th[u].tgt] # "none"
  BY <1>0, ServiceFacts DEF LifeInv, Refers, Types, Threads, Shape
<1>4. QueueRule(t, h) /\ SlotRule(t, h) /\ Places(h) \in Nat /\ Born(h) /\ Born(h)'
  BY <1>0, QueueStep, SlotStep DEF LifeInv
<1>a. SUFFICES /\ slot'[h] = "used" /\ h \notin known'
               /\ Places(h)' = One(th'[t].pc = "n_grab")
               /\ \A u \in Thread : u # t => th[u].tgt # h
  <2>1. (Places(th[t].tgt))' = Places(h)'
    BY <1>2 DEF Places, Hands, Listed, Current, Following, Launching
  <2>2. Alone(t)' = ( /\ slot'[th'[t].tgt] = "used" /\ th'[t].tgt \notin known'
                      /\ (Places(th[t].tgt))' = One(th'[t].pc = "n_grab")
                      /\ \A u \in Thread : u # t => th'[u].tgt # th'[t].tgt )
    BY DEF Alone, One
  <2> QED BY <1>1, <1>2, <2>1, <2>2
<1>5. CASE th'[t].pc = "n_queue"
  <2>1. slot[h] = "none" /\ slot'[h] = "used" /\ ctx'[h] = "raw"
    BY <1>0, <1>2, <1>5 DEF Turn
  <2>2. \A u \in Thread : th[u].tgt # h
    BY <1>3, <2>1
  <2>3. Places(h)' = 0 /\ h \notin known'
    BY <1>4, <2>1 DEF Born
  <2> QED BY <1>5, <2>1, <2>2, <2>3 DEF One
<1>6. CASE th'[t].pc = "n_grab"
  <2>1. /\ th[t].pc = "n_queue" /\ h = th[t].tgt /\ ctx'[h] = "ready" /\ Alone(t)
    BY <1>0, <1>2, <1>6 DEF Turn, Alone
  <2>2. /\ slot[h] = "used" /\ h \notin known /\ Places(h) = 0
        /\ \A u \in Thread : u # t => th[u].tgt # h
    BY <2>1 DEF Alone, One
  <2>3. ctx[h] = "raw"
    BY <2>1 DEF LifeInv, Refers
  <2>4. Places(h)' = 1
    <3>1. mem[h] = "none" /\ mem'[h] # "none"
      BY <1>4, <2>1, <2>3 DEF Born
    <3> QED BY <1>4, <2>1, <2>2, <3>1 DEF QueueRule, PopRule, PushRule, FreeRule, BornRule,
               MarkRule, LostRule, Untouched
  <2>5. slot'[h] = "used"
    BY <1>4, <2>1, <2>2 DEF SlotRule, handle_remove
  <2>6. h \notin known'
    BY <2>1, <2>2, KnownStep
  <2> QED BY <1>6, <2>2, <2>4, <2>5, <2>6 DEF One
<1> QED BY <1>5, <1>6

LEMMA ShelteredNext ==
    ASSUME LifeInv, Sheltered, NEW t \in Thread, Run(t) \/ Ask(t)
    PROVE  Sheltered'
<1>0. Types /\ Types' /\ AbortRule(t) /\ Refers(t)
  BY AbortStep, TypesNext DEF LifeInv, CountInv
<1>1. \A u \in Thread : u # t => th'[u] = th[u]
  BY <1>0, ThreadsNext
<1>2. budget.abort \in Nat /\ budget'.abort \in Nat /\ MaxAbort \in Nat
  BY <1>0, ActorAssumption DEF Types, Tables
<1>3. budget'.abort <= MaxAbort
  BY <1>0, <1>2 DEF Sheltered, AbortRule
<1>4. ASSUME budget'.abort = MaxAbort
      PROVE  /\ ~crashed'
             /\ \A u \in Thread : Place(th'[u]) # "abort"
             /\ \A u \in Thread : th'[u].pc \in {"n_queue", "n_grab"} => Alone(u)'
  <2>1. budget.abort = MaxAbort
    BY <1>0, <1>2, <1>4 DEF Sheltered, AbortRule
  <2>2. /\ ~crashed /\ \A u \in Thread : Place(th[u]) # "abort"
        /\ \A u \in Thread : th[u].pc \in {"n_queue", "n_grab"} => Alone(u)
    BY <2>1 DEF Sheltered
  <2>3. ~crashed'
    <3>1. ~(th[t].pc = "mark" /\ ctx[th[t].tgt] = "raw")
      BY <1>0, <2>2 DEF Refers, Targets, Place, Sub
    <3>2. ~(th[t].pc = "n_grab" /\ slot[th[t].tgt] # "used")
      BY <2>2 DEF Alone
    <3> QED BY <1>0, <2>2, <3>1, <3>2 DEF AbortRule
  <2>4. \A u \in Thread : Place(th'[u]) # "abort"
    <3>1. Place(th'[t]) # "abort"
      BY <1>0, <1>2, <1>4, <2>1, <2>2 DEF AbortRule
    <3> QED BY <1>1, <2>2, <3>1
  <2>5. ASSUME NEW u \in Thread, th'[u].pc \in {"n_queue", "n_grab"} PROVE Alone(u)'
    <3>1. CASE u = t
      BY <2>2, <2>5, <3>1, SelfAlone
    <3>2. CASE u # t
      <4>1. th'[u] = th[u]
        BY <1>1, <3>2
      <4> QED BY <2>2, <2>5, <3>2, <4>1, OthersAlone
    <3> QED BY <3>1, <3>2
  <2> QED BY <2>3, <2>4, <2>5
<1> QED BY <1>3, <1>4 DEF Sheltered

ShelterInv == TokenInv /\ Sheltered

LEMMA ShelterInit == Init => ShelterInv
<1> SUFFICES ASSUME Init PROVE Sheltered
  BY TokenInit DEF ShelterInv
<1>1. budget.abort = MaxAbort /\ MaxAbort \in Nat /\ ~crashed
  BY ActorAssumption DEF Init
<1>2. \A t \in Thread : th[t].pc = "idle"
  BY DEF Init, Idle
<1> QED BY <1>1, <1>2 DEF Sheltered, Place, Sub

LEMMA ShelterInvNext == ShelterInv /\ [Next]_vars => ShelterInv'
<1> SUFFICES ASSUME ShelterInv, [Next]_vars PROVE Sheltered'
  BY TokenInvNext DEF ShelterInv
<1>1. CASE UNCHANGED vars
  <2>1. \A h : Places(h)' = Places(h)
    BY <1>1 DEF vars, Places, Hands, Listed, Current, Following, Launching
  <2>2. \A t \in Thread : Alone(t)' <=> Alone(t)
    <3> TAKE t \in Thread
    <3>1. (Places(th[t].tgt))' = Places(th[t].tgt)
      BY <1>1 DEF vars, Places, Hands, Listed, Current, Following, Launching
    <3> QED BY <1>1, <3>1 DEF vars, Alone, One
  <2> QED BY <1>1, <2>2 DEF vars, ShelterInv, Sheltered
<1>2. ASSUME NEW t \in Thread, Run(t) \/ Ask(t) PROVE Sheltered'
  BY <1>2, ShelteredNext DEF ShelterInv, TokenInv
<1> QED BY <1>1, <1>2 DEF Next

\* NoUseAfterFree: contexts and queues are not freed under the threads that
\* use them, log's not under pixel_log while one of the references that keep
\* it is left, no queue is marked twice, and no null pointer is dereferenced
\* before an ABORT.
THEOREM NothingFreedInUse == Spec => []NoUseAfterFree
<1>1. ASSUME ShelterInv PROVE NoUseAfterFree
  <2>0. LifeInv /\ Types /\ CountInv
    BY <1>1 DEF ShelterInv, TokenInv, LifeInv, CountInv
  <2>1. crashed => budget.abort < MaxAbort
    <3>1. budget.abort \in Nat /\ MaxAbort \in Nat
      BY <2>0, ActorAssumption DEF Types, Tables
    <3> QED BY <1>1, <3>1 DEF ShelterInv, Sheltered
  <2>2. \A h \in Service :
           ctx[h] = "freed" => drops[h] > 0 /\ drops[h] >= Standing(h) /\ slot[h] = "gone"
    <3> SUFFICES ASSUME NEW h \in Service, ctx[h] = "freed"
                 PROVE  drops[h] > 0 /\ drops[h] >= Standing(h) /\ slot[h] = "gone"
      OBVIOUS
    <3>1. slot[h] = "gone"
      BY <2>0 DEF LifeInv, Born
    <3>2. drops[h] >= Standing(h) /\ drops[h] \in Nat
      BY <2>0, <3>1 DEF CountInv, Counts, Types, Tables
    <3> QED BY <3>1, <3>2 DEF Standing
  <2>3. ASSUME NEW t \in Thread, NEW h \in TailUses(t), ctx[h] = "freed" PROVE drops[h] > 0
    <3>1. h \in Service
      BY <2>0, <2>3 DEF TailUses, Types, Threads, Registers, Shape, Targets
    <3> QED BY <2>2, <2>3, <3>1
  <2>4. ASSUME NEW t \in Thread, NEW h \in Uses(t), ~OverReleased(h) PROVE ctx[h] # "freed"
    <3>1. h \in Service
      BY <2>0, <2>4 DEF Uses, Types, Threads, Registers, Shape, Targets
    <3>2. CASE Grab(th[t], h) > 0
      BY <2>0, <2>2, <2>4, <3>1, <3>2, GrabKeeps
    <3>3. CASE th[t].pc \in {"mark", "free"} /\ th[t].tgt = h
      BY <2>0, <3>1, <3>3 DEF LifeInv, Refers, Born
    <3>4. Grab(th[t], h) > 0 \/ (th[t].pc \in {"mark", "free"} /\ th[t].tgt = h)
      BY <2>4 DEF Uses, Grab, One
    <3> QED BY <3>2, <3>3, <3>4
  <2>5. \A t \in Thread : th[t].pc = "mark" => release[th[t].tgt] = 0
    BY <2>0 DEF LifeInv, Refers
  <2>6. ASSUME NEW t \in Thread, th[t].q # None, ~OverReleased(th[t].q)
        PROVE  mem[th[t].q] = "alloc"
    <3>1. PICK h \in Service : h = th[t].q
      BY <2>0, <2>6 DEF Types, Threads, Registers
    <3>2. Places(h) # 0
      BY <2>0, <3>1, SomePlace
    <3> QED BY <1>1, <2>6, <3>1, <3>2 DEF ShelterInv, TokenInv, Token
  <2>7. ctx[Log] = "freed" => drops[Log] >= Standing(Log)
    BY <2>2, ServiceFacts
  <2> QED BY <2>1, <2>3, <2>4, <2>5, <2>6, <2>7 DEF NoUseAfterFree
<1> QED BY <1>1, ShelterInit, ShelterInvNext, PTL DEF Spec

-----------------------------------------------------------------------------
(* G.total *)

\* The services that count, and the threads that are about to count one out.
Live    == {h \in Service \ {Log} : mem[h] = "alloc"}
Leaving == {t \in Thread : th[t].pc = "dec"}

Counted ==
    (\A h \in Service : ~OverReleased(h)) =>
        total = Cardinality(Live) + Cardinality(Leaving) - early - One(mem[Log] = "freed")

\* What a step does to the terms of that sum.
TotalRule(t) ==
    \/ /\ total' = total /\ mem' = mem /\ early' = early
       /\ th[t].pc # "dec" /\ th'[t].pc # "dec"
    \/ /\ total' = total - 1 /\ mem' = mem /\ early' = early
       /\ th[t].pc = "dec" /\ th'[t].pc # "dec"
    \/ /\ total' = total + 1 /\ early' = early
       /\ th[t].pc = "n_queue" /\ th'[t].pc # "dec"
       /\ mem' = [mem EXCEPT ![th[t].tgt] = "alloc"]
    \/ /\ total' = total /\ early' = early + 1 /\ mem' = mem
       /\ th[t].pc # "dec" /\ th'[t].pc = "dec"
    \/ /\ total' = total /\ early' = early
       /\ th[t].pc # "dec" /\ th'[t].pc = "dec"
       /\ \E h \in Service : /\ th[t].q = h \/ Launches(th[t], h)
                             /\ mem' = [mem EXCEPT ![h] = "freed"]

LEMMA TotalStep ==
    ASSUME Types, NEW t \in Thread, Run(t) \/ Ask(t)
    PROVE  TotalRule(t)
<1> USE DEF TotalRule
<1>0. th \in [Thread -> Registers] /\ Shape(th[t]) /\ th[t] \in Registers
  BY DEF Types, Threads
<1>1. CASE handle_release(t) \/ Kills(t)
  <2>1. /\ total' = total /\ mem' = mem /\ early' = early
    BY <1>1 DEF handle_release, Kills, abort_release, force_release, cmd_kill, queues, history
  <2>2. th[t].pc # "dec" /\ th[t].pc \in Sub \cup Dispatch \cup Callback
    BY <1>0, <1>1 DEF handle_release, Kills, abort_release, force_release, cmd_kill, Registers
  <2>3. th'[t].pc \in Returns \cup {"remove"}
    <3>1. \E j \in Registers, h \in Service, r \in Returns : ReleaseRef(t, j, h, r)
      <4>1. CASE handle_release(t)
        BY <1>0, <4>1 DEF handle_release, Registers, Shape, Targets
      <4>2. CASE abort_release(t)
        <5>1. PICK h \in th[t].todo : ReleaseRef(t, [th[t] EXCEPT !.todo = @ \ {h}], h, "abort")
          BY <4>2 DEF abort_release, Drop
        <5>2. h \in Service /\ [th[t] EXCEPT !.todo = @ \ {h}] \in Registers /\ "abort" \in Returns
          BY <1>0 DEF Registers, Returns
        <5> QED BY <5>1, <5>2
      <4>3. CASE force_release(t)
        <5>1. ReleaseRef(t, th[t], th[t].tgt, "n_forced") /\ th[t].pc = "n_force"
          BY <4>3 DEF force_release, Drop
        <5>2. th[t].tgt \in Service /\ "n_forced" \in Returns
          BY <1>0, <5>1 DEF Registers, Returns, Shape, Targets
        <5> QED BY <1>0, <5>1, <5>2
      <4>4. CASE \E d \in Service : cmd_kill(t, d)
        <5>1. PICK d \in Service : ReleaseRef(t, th[t], d, "cb")
          BY <4>4 DEF cmd_kill, Drop
        <5>2. "cb" \in Returns
          BY DEF Returns
        <5> QED BY <1>0, <5>1, <5>2
      <4> QED BY <1>1, <4>1, <4>2, <4>3, <4>4 DEF Kills
    <3>2. PICK j \in Registers, h \in Service, r \in Returns : ReleaseRef(t, j, h, r)
      BY <3>1
    <3>3. CASE slot[h] = "used" /\ ref[h] <= 1
      <4>1. th'[t] = [j EXCEPT !.pc = "remove", !.tgt = h, !.ret = r]
        BY <1>0, <3>2, <3>3 DEF ReleaseRef
      <4> QED BY <4>1 DEF Registers
    <3>4. CASE ~(slot[h] = "used" /\ ref[h] <= 1)
      <4> DEFINE a == r \in InNew => slot[h] = "used"
                 k == [j EXCEPT !.pc = r, !.ret = "idle",
                                !.tgt = IF r \in InNew THEN h ELSE None, !.alive = a]
      <4>1. th' = [th EXCEPT ![t] = k]
        BY <3>2, <3>4, Zenon DEF ReleaseRef
      <4>2. k.pc = r
        <5> HIDE DEF a
        <5> QED BY DEF Registers
      <4> HIDE DEF k
      <4>3. th'[t] = k
        BY <1>0, <4>1
      <4> QED BY <4>2, <4>3
    <3> QED BY <3>3, <3>4
  <2> QED BY <2>1, <2>2, <2>3 DEF Returns
<1>2. CASE handle_remove(t) \/ free_ctx(t)
  <2>1. /\ total' = total /\ mem' = mem /\ early' = early /\ th[t].pc # "dec"
    BY <1>2 DEF handle_remove, free_ctx, queues, history
  <2>2. th'[t].pc \in Returns \cup {"mark"}
    <3>1. CASE th' = [th EXCEPT ![t].pc = "mark"]
      BY <1>0, <3>1 DEF Registers
    <3>2. CASE Return(t, FALSE)
      BY <1>0, <3>2 DEF Return, Registers
    <3> QED BY <1>2, <3>1, <3>2 DEF handle_remove, free_ctx, Go
  <2> QED BY <2>1, <2>2 DEF Returns
<1>3. CASE total_dec(t)
  <2>1. /\ total' = total - 1 /\ mem' = mem /\ early' = early /\ th[t].pc = "dec"
        /\ th'[t].pc = th[t].ret
    BY <1>0, <1>3 DEF total_dec, queues, history, Registers
  <2> QED BY <1>0, <2>1 DEF Registers, Returns
<1>4. CASE new_queue(t)
  BY <1>0, <1>4 DEF new_queue, Go, history, Registers
<1>5. CASE \/ queue_mark_free(t) \/ dispatch_pop_global(t) \/ dispatch_grab(t) \/ dispatch_pop(t)
           \/ dispatch_next(t) \/ dispatch_swap(t)
  BY <1>0, <1>5 DEF queue_mark_free, dispatch_pop_global, dispatch_grab, dispatch_pop,
     dispatch_next, dispatch_swap, Go, queues, history, Registers
<1>6. CASE use_push(t) \/ use_other(t) \/ abort_done(t) \/ cmd_abort(t)
  BY <1>0, <1>6 DEF use_push, use_other, abort_done, cmd_abort, Go, queues, history, Registers
<1>10. CASE new_regist(t)
  BY <1>0, <1>10 DEF new_regist, queues, history, Registers
<1>11. CASE \E d \in Service : grab_target(t, d)
  <2>1. th[t].pc \in {"cb", "idle"} /\ UNCHANGED <<total, mem, early>>
    BY <1>11 DEF grab_target, queues, history
  <2>2. th'[t].pc \in {"cb", "idle", "use"}
    BY <1>0, <1>11, <2>1 DEF grab_target, Registers
  <2> QED BY <2>1, <2>2
<1>7. CASE \/ new_grab(t) \/ init_ok(t) \/ init_fail(t) \/ init_expose(t) \/ new_publish(t)
           \/ new_done(t)
  BY <1>0, <1>7 DEF new_grab, init_ok, init_fail, init_expose, new_publish, new_done, Go,
     queues, history, Registers
<1>8. CASE dispatch_free(t)
  <2>1. /\ total' = total /\ th[t].pc = "qfree" /\ th'[t].pc = "dec" /\ th[t].q \in Service
    BY <1>0, <1>8 DEF dispatch_free, Registers, Shape, Place, Sub
  <2> QED BY <1>8, <2>1 DEF dispatch_free, QueueFree
<1>9. CASE force_free(t)
  <2>1. total' = total /\ th[t].pc = "n_forced" /\ th[t].tgt \in Service
        /\ Launches(th[t], th[t].tgt)
    BY <1>0, <1>9 DEF force_free, Registers, Shape, Targets, Launches
  <2>2. CASE th[t].alive
    BY <1>0, <1>9, <2>1, <2>2 DEF force_free, Registers, queues
  <2>3. CASE ~th[t].alive
    <3>1. th'[t].pc = "dec" /\ QueueFree(th[t].tgt)
      BY <1>0, <1>9, <2>3 DEF force_free, Registers
    <3> QED BY <2>1, <3>1 DEF QueueFree
  <2> QED BY <2>2, <2>3
<1> QED BY <1>1, <1>2, <1>3, <1>4, <1>5, <1>6, <1>7, <1>8, <1>9, <1>10,
           <1>11 DEF Run, Ask, Kills

\* How the set of live services changes with one entry of mem.
LEMMA LiveStep ==
    ASSUME Types, NEW h \in Service, NEW m \in {"alloc", "freed"},
           mem' = [mem EXCEPT ![h] = m]
    PROVE  /\ Cardinality(Live) \in Nat
           /\ h = Log => Live' = Live
           /\ h # Log /\ m = "alloc" /\ mem[h] # "alloc" =>
                 Cardinality(Live') = Cardinality(Live) + 1
           /\ h # Log /\ m = "freed" /\ mem[h] = "alloc" =>
                 Cardinality(Live') = Cardinality(Live) - 1
<1>0. mem \in [Service -> {"none", "alloc", "freed"}]
  BY DEF Types, Tables
<1>1. IsFiniteSet(Live)
  <2>1. IsFiniteSet(Service)
    BY ActorAssumption, FS_Interval DEF Service
  <2> QED BY <2>1, FS_Subset DEF Live
<1>2. Cardinality(Live) \in Nat
  BY <1>1, FS_CardinalityType
<1>3. h = Log => Live' = Live
  BY <1>0 DEF Live
<1>4. ASSUME h # Log, m = "alloc", mem[h] # "alloc"
      PROVE  Cardinality(Live') = Cardinality(Live) + 1
  <2>1. Live' = Live \cup {h} /\ h \notin Live
    BY <1>0, <1>4 DEF Live
  <2> QED BY <1>1, <2>1, FS_AddElement
<1>5. ASSUME h # Log, m = "freed", mem[h] = "alloc"
      PROVE  Cardinality(Live') = Cardinality(Live) - 1
  <2>1. Live' = Live \ {h} /\ h \in Live
    BY <1>0, <1>5 DEF Live
  <2> QED BY <1>1, <2>1, FS_RemoveElement
<1> QED BY <1>2, <1>3, <1>4, <1>5

LEMMA CountedNext ==
    ASSUME TokenInv, Counted, NEW t \in Thread, Run(t) \/ Ask(t)
    PROVE  Counted'
<1>0. Types /\ LifeInv /\ TotalRule(t) /\ mem \in [Service -> {"none", "alloc", "freed"}]
  BY TotalStep DEF TokenInv, LifeInv, CountInv, Types, Tables
<1>1. ASSUME NEW h \in Service, ~OverReleased(h)' PROVE ~OverReleased(h)
  <2>1. SlotRule(t, h) /\ drops[h] \in Nat /\ drops'[h] \in Nat /\ Standing(h) \in Nat
        /\ slot[h] \in {"none", "used", "gone"}
    BY <1>0, SlotStep, TypesNext DEF Types, Tables, Standing
  <2> QED BY <1>1, <2>1 DEF SlotRule, OverReleased
<1> SUFFICES ASSUME \A h \in Service : ~OverReleased(h)'
             PROVE  total' = Cardinality(Live') + Cardinality(Leaving') - early'
                             - One(mem'[Log] = "freed")
  BY DEF Counted, One
<1>2. /\ total = Cardinality(Live) + Cardinality(Leaving) - early - One(mem[Log] = "freed")
      /\ \A h \in Service : ~OverReleased(h)
  BY <1>1 DEF Counted
<1>3. /\ Cardinality(Leaving) \in Nat /\ Cardinality(Leaving') \in Nat
      /\ Cardinality(Leaving') = Cardinality(Leaving)
            + One(th'[t].pc = "dec") - One(th[t].pc = "dec")
  <2>1. \A u \in Thread : u # t => th'[u] = th[u]
    BY <1>0, ThreadsNext
  <2>2. /\ Leaving \in SUBSET Thread /\ Leaving' \in SUBSET Thread
        /\ \A u \in Thread : u # t => (u \in Leaving <=> u \in Leaving')
        /\ t \in Leaving <=> th[t].pc = "dec"
        /\ t \in Leaving' <=> th'[t].pc = "dec"
    BY <2>1 DEF Leaving
  <2> QED BY <2>2, ServiceFacts, CountStep DEF One
<1>4. total \in Int /\ early \in Nat /\ Log \in Service
  BY <1>0, ServiceFacts DEF Types, Tables
<1>5. mem' = mem => Live' = Live
  BY DEF Live
<1>6. Cardinality(Live) \in Nat
  <2>1. IsFiniteSet(Service)
    BY ActorAssumption, FS_Interval DEF Service
  <2> QED BY <2>1, FS_Subset, FS_CardinalityType DEF Live
<1> DEFINE L == Cardinality(Live)
           M == Cardinality(Live')
           C == Cardinality(Leaving)
           D == Cardinality(Leaving')
<1>7. CASE th[t].pc = "n_queue" /\ mem' = [mem EXCEPT ![th[t].tgt] = "alloc"]
           /\ total' = total + 1 /\ early' = early /\ th'[t].pc # "dec"
  <2>1. PICK h \in Service : h = th[t].tgt
    BY <1>0, <1>7 DEF Types, Threads, Registers, Shape, Targets
  <2>2. ctx[h] = "raw" /\ mem[h] = "none" /\ h # Log
    BY <1>0, <1>7, <2>1 DEF LifeInv, Refers, Born
  <2>3. M = L + 1
    BY <1>0, <1>7, <2>1, <2>2, LiveStep
  <2>4. mem'[Log] = mem[Log] /\ D = C
    BY <1>0, <1>3, <1>4, <1>7, <2>1, <2>2 DEF One
  <2>5. total = L + C - early - One(mem[Log] = "freed") /\ L \in Nat /\ C \in Nat
    BY <1>2, <1>3, <1>6
  <2> HIDE DEF L, M, C, D
  <2>6. total' = M + D - early' - One(mem'[Log] = "freed")
    BY <1>4, <1>7, <2>3, <2>4, <2>5 DEF One
  <2> QED BY <2>6 DEF M, D
<1>8. CASE mem' = mem
  <2>1. M = L /\ L \in Nat /\ C \in Nat /\ D = C + One(th'[t].pc = "dec") - One(th[t].pc = "dec")
        /\ total = L + C - early - One(mem[Log] = "freed")
    BY <1>2, <1>3, <1>5, <1>6, <1>8
  <2> HIDE DEF L, M, C, D
  <2>2. \/ total' = total /\ early' = early /\ th[t].pc # "dec" /\ th'[t].pc # "dec"
        \/ total' = total - 1 /\ early' = early /\ th[t].pc = "dec" /\ th'[t].pc # "dec"
        \/ total' = total /\ early' = early + 1 /\ th[t].pc # "dec" /\ th'[t].pc = "dec"
        \/ th[t].pc = "n_queue" /\ mem' = [mem EXCEPT ![th[t].tgt] = "alloc"]
        \/ \E h \in Service : /\ th[t].q = h \/ Launches(th[t], h)
                              /\ mem' = [mem EXCEPT ![h] = "freed"]
    BY <1>0 DEF TotalRule
  <2>3. ~(th[t].pc = "n_queue" /\ mem' = [mem EXCEPT ![th[t].tgt] = "alloc"])
    <3>1. th[t].pc = "n_queue" => th[t].tgt \in Service
      BY <1>0 DEF Types, Threads, Registers, Shape, Targets
    <3>2. th[t].pc = "n_queue" => ctx[th[t].tgt] = "raw"
      BY <1>0 DEF LifeInv, Refers
    <3>3. th[t].pc = "n_queue" => mem[th[t].tgt] = "none"
      BY <1>0, <3>1, <3>2 DEF LifeInv, Born
    <3> QED BY <1>0, <1>8, <3>1, <3>3
  <2>4. \A h \in Service : th[t].q = h \/ Launches(th[t], h) => mem[h] = "alloc"
    BY <1>0, <1>2, SomePlace DEF TokenInv, Token
  <2>5. ~\E h \in Service : /\ th[t].q = h \/ Launches(th[t], h)
                            /\ mem' = [mem EXCEPT ![h] = "freed"]
    BY <1>0, <1>8, <2>4
  <2>6. total' = M + D - early' - One(mem'[Log] = "freed")
    BY <1>4, <1>8, <2>1, <2>2, <2>3, <2>5 DEF One
  <2> QED BY <2>6 DEF M, D
<1>9. ASSUME NEW h \in Service, th[t].q = h \/ Launches(th[t], h),
             mem' = [mem EXCEPT ![h] = "freed"],
             total' = total, early' = early, th[t].pc # "dec", th'[t].pc = "dec"
      PROVE  total' = Cardinality(Live') + Cardinality(Leaving') - early'
                      - One(mem'[Log] = "freed")
  <2>1. mem[h] = "alloc"
    BY <1>0, <1>2, <1>9, SomePlace DEF TokenInv, Token
  <2>2. /\ h = Log => M = L
        /\ h # Log => M = L - 1
    BY <1>0, <1>9, <2>1, LiveStep
  <2>3. One(mem'[Log] = "freed") = One(mem[Log] = "freed") + One(h = Log)
    BY <1>0, <1>4, <1>9, <2>1 DEF One
  <2>4. total = L + C - early - One(mem[Log] = "freed") /\ L \in Nat /\ C \in Nat /\ D = C + 1
    BY <1>2, <1>3, <1>6, <1>9 DEF One
  <2> HIDE DEF L, M, C, D
  <2>5. total' = M + D - early' - One(mem'[Log] = "freed")
    BY <1>4, <1>9, <2>2, <2>3, <2>4 DEF One
  <2> QED BY <2>5 DEF M, D
<1> QED BY <1>0, <1>7, <1>8, <1>9 DEF TotalRule

CountedInv == TokenInv /\ Counted

LEMMA CountedInit == Init => CountedInv
<1> SUFFICES ASSUME Init PROVE Counted
  BY TokenInit DEF CountedInv
<1>1. Boot \in Service /\ Boot # Log /\ Log \in Service
  BY ServiceFacts DEF Boot, Log
<1>2. Live = {Boot}
  BY <1>1 DEF Init, Live, Boot, Log, Service
<1>3. Leaving = {}
  BY DEF Init, Idle, Leaving
<1>4. Cardinality(Live) = 1 /\ Cardinality(Leaving) = 0
  BY <1>2, <1>3, FS_Singleton, FS_EmptySet
<1>5. total = 1 /\ early = 0 /\ mem[Log] = "alloc"
  BY <1>1 DEF Init, Log, Boot
<1> QED BY <1>4, <1>5 DEF Counted, One

LEMMA CountedInvNext == CountedInv /\ [Next]_vars => CountedInv'
<1> SUFFICES ASSUME CountedInv, [Next]_vars PROVE Counted'
  BY TokenInvNext DEF CountedInv
<1>1. CASE UNCHANGED vars
  <2>1. Live' = Live /\ Leaving' = Leaving
    BY <1>1 DEF vars, Live, Leaving
  <2> QED BY <1>1, <2>1 DEF vars, CountedInv, Counted, OverReleased, One
<1>2. ASSUME NEW t \in Thread, Run(t) \/ Ask(t) PROVE Counted'
  BY <1>2, CountedNext DEF CountedInv
<1> QED BY <1>1, <1>2 DEF Next

\* ExitMeansEmpty: when pixel_total() tells the other threads to stop, every
\* service but log is gone, with the exceptions the property lists.
THEOREM ExitIsEmpty == Spec => []ExitMeansEmpty
<1>1. ASSUME CountedInv PROVE ExitMeansEmpty
  <2> SUFFICES ASSUME total <= 0, early = 0, drops[Log] < Standing(Log),
                      \A h \in Service : ~OverReleased(h)
               PROVE  \A h \in Service \ {Log} : mem[h] # "alloc"
    BY DEF ExitMeansEmpty
  <2>1. total = Cardinality(Live) + Cardinality(Leaving) - early - One(mem[Log] = "freed")
    BY <1>1 DEF CountedInv, Counted
  <2>2. mem[Log] # "freed"
    <3>1. Log \in Service
      BY ServiceFacts
    <3>2. mem[Log] = "freed" => slot[Log] = "gone"
      BY <1>1, <3>1 DEF CountedInv, TokenInv, LifeInv, Born
    <3>3. slot[Log] = "gone" => drops[Log] >= Standing(Log)
      BY <1>1, <3>1 DEF CountedInv, TokenInv, LifeInv, CountInv, Counts
    <3>4. drops[Log] \in Nat /\ Standing(Log) \in Nat
      BY <1>1, <3>1 DEF CountedInv, TokenInv, LifeInv, CountInv, Types, Tables, Standing
    <3> QED BY <3>2, <3>3, <3>4
  <2>3. IsFiniteSet(Live) /\ IsFiniteSet(Leaving)
    <3>1. IsFiniteSet(Service)
      BY ActorAssumption, FS_Interval DEF Service
    <3> QED BY <3>1, ServiceFacts, FS_Subset DEF Live, Leaving
  <2> DEFINE L == Cardinality(Live)
             C == Cardinality(Leaving)
  <2>4. L \in Nat /\ C \in Nat /\ total = L + C - 0 - 0
    BY <2>1, <2>2, <2>3, FS_CardinalityType DEF One
  <2>5. L = 0
    <3> HIDE DEF L, C
    <3> QED BY <2>4
  <2>6. Live = {}
    BY <2>3, <2>5, FS_EmptySet
  <2> QED BY <2>6 DEF Live
<1> QED BY <1>1, CountedInit, CountedInvNext, PTL DEF Spec

=============================================================================
