------------------------------- MODULE RwLock -------------------------------
(***************************************************************************)
(* The readers-writer spin lock of src/src/lock.h (the build without       *)
(* USE_PTHREAD_LOCK), which guards the handle table and the environment.   *)
(* One step per atomic access to `read' or `write'.                        *)
(***************************************************************************)
EXTENDS Integers, FiniteSets

CONSTANT Thread

ASSUME ThreadAssumption == IsFiniteSet(Thread)

VARIABLES
    read,    \* lock->read
    write,   \* lock->write
    at       \* where each thread stands in the lock functions

lockVars == <<read, write, at>>

RwInit ==
    /\ read = 0 /\ write = 0
    /\ at = [t \in Thread |-> "idle"]

RwGoto(t, from, to) == at[t] = from /\ at' = [at EXCEPT ![t] = to]

-----------------------------------------------------------------------------
\* rwlock_rlock: wait until no writer is announced, announce oneself, and
\* look again; on a writer announced in between, withdraw and start over.
rlock_call(t)  == RwGoto(t, "idle", "r_wait") /\ UNCHANGED <<read, write>>
rlock_wait(t)  == write = 0 /\ RwGoto(t, "r_wait", "r_inc") /\ UNCHANGED <<read, write>>
\* Mutants of the steps below: no second look, no withdrawal.
rlock_check_blind(t) == RwGoto(t, "r_check", "reading") /\ UNCHANGED <<read, write>>
rlock_undo_lost(t)   == RwGoto(t, "r_undo", "r_wait") /\ UNCHANGED <<read, write>>

rlock_inc(t)   == RwGoto(t, "r_inc", "r_check") /\ read' = read + 1 /\ UNCHANGED write
rlock_check(t) == /\ RwGoto(t, "r_check", IF write = 0 THEN "reading" ELSE "r_undo")
                  /\ UNCHANGED <<read, write>>
rlock_undo(t)  == RwGoto(t, "r_undo", "r_wait") /\ read' = read - 1 /\ UNCHANGED write

runlock(t)     == RwGoto(t, "reading", "idle") /\ read' = read - 1 /\ UNCHANGED write

\* rwlock_wlock: test-and-set of write, then wait for the readers to leave.
wlock_call(t)  == RwGoto(t, "idle", "w_spin") /\ UNCHANGED <<read, write>>
wlock_spin(t)  == write = 0 /\ RwGoto(t, "w_spin", "w_drain") /\ write' = 1 /\ UNCHANGED read
wlock_drain(t) == read = 0 /\ RwGoto(t, "w_drain", "writing") /\ UNCHANGED <<read, write>>

wunlock(t)     == RwGoto(t, "writing", "idle") /\ write' = 0 /\ UNCHANGED read

\* The steps a thread takes once it has called, up to and including unlock.
Progress(t) ==
    \/ rlock_wait(t) \/ rlock_inc(t) \/ rlock_check(t) \/ rlock_undo(t)
    \/ runlock(t)
    \/ wlock_spin(t) \/ wlock_drain(t) \/ wunlock(t)

RwNext == \E t \in Thread : rlock_call(t) \/ wlock_call(t) \/ Progress(t)

RwSpec == RwInit /\ [][RwNext]_lockVars

\* A thread that called a lock function is scheduled again, and the critical
\* sections of handle.c and env.c are straight-line code that always unlocks.
RwFairSpec == RwSpec /\ \A t \in Thread : WF_lockVars(Progress(t))

-----------------------------------------------------------------------------
(* Properties *)

Labels == {"idle", "r_wait", "r_inc", "r_check", "r_undo", "reading",
           "w_spin", "w_drain", "writing"}

\* Types; read never goes below zero.
RwTypeOK == read \in Nat /\ write \in {0, 1} /\ at \in [Thread -> Labels]

\* A thread between wlock and wunlock is alone: no other writer, and no
\* reader, not even one that saw write = 0 before the writer announced
\* itself and incremented `read' after the writer looked at it.
Exclusion ==
    \A t, u \in Thread :
        at[t] = "writing" /\ u # t => at[u] \notin {"reading", "writing"}

\* A writer that owns `write' gets in: readers that keep coming can delay it
\* by their transient increments but not shut it out.
WriterProceeds ==
    \A t \in Thread : at[t] = "w_drain" ~> at[t] = "writing"
=============================================================================
