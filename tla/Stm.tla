--------------------------------- MODULE Stm ---------------------------------
(***************************************************************************)
(* The shared object of src/lualib/lstm.c: one writer box publishes        *)
(* copies, reader boxes of other services take them.  The object and its   *)
(* copies are reference counted; the object's rwlock is taken as what      *)
(* RwLock shows of it.  The steps of one operation that other threads can  *)
(* come between are actions of their own.                                  *)
(***************************************************************************)
EXTENDS Integers, FiniteSets

CONSTANTS
    StmReader,      \* bound: the services that read
    MAX_COPIES      \* bound: copies the writer publishes

ASSUME StmAssumption == MAX_COPIES \in Nat \ {0} /\ IsFiniteSet(StmReader)

VARIABLES
    stmObj,     \* struct stm_object: copy (0 for NULL), reference, freed
    stmRef,     \* copy->reference of the copies made so far
    stmWr,      \* the writer: where it is, the old copy in its hand
    stmRd,      \* a reader: where it is, its lastcopy, the copy in its hand
    stmLock     \* holders of obj->lock: the readers inside, or the writer

stmVars == <<stmObj, stmRef, stmWr, stmRd, stmLock>>

StmCopy   == DOMAIN stmRef
Freed(c)  == stmRef[c] = 0

\* lnewwriter: stm_new with the first copy.
StmInit ==
    /\ stmObj = [copy |-> 1, reference |-> 1, freed |-> FALSE]
    /\ stmRef = [c \in {1} |-> 1]
    /\ stmWr = [pc |-> "idle", old |-> 0]
    /\ stmRd = [r \in StmReader |-> [pc |-> "none", last |-> 0, hand |-> 0]]
    /\ stmLock = [readers |-> {}, writer |-> FALSE]

-----------------------------------------------------------------------------
rlock(r)    == ~stmLock.writer
               /\ stmLock' = [stmLock EXCEPT !.readers = @ \union {r}]
runlock(r)  == stmLock' = [stmLock EXCEPT !.readers = @ \ {r}]
wlock       == ~stmLock.writer /\ stmLock.readers = {}
               /\ stmLock' = [stmLock EXCEPT !.writer = TRUE]
wunlock     == stmLock' = [stmLock EXCEPT !.writer = FALSE]

\* stm_releasecopy(NULL) does nothing; the last reference frees the copy.
stm_releasecopy(ref, c) == IF c = 0 THEN ref ELSE [ref EXCEPT ![c] = @ - 1]

At(r, pc)       == stmRd[r].pc = pc
Goto(r, pc)     == stmRd' = [stmRd EXCEPT ![r].pc = pc]

-----------------------------------------------------------------------------
\* lcopy and stm_grab by the writer's service; the pointer goes to reader r.
\* The count is atomic and the writer is its only user of the write lock.
stm_grab(r) ==
    /\ stmWr.pc = "idle" /\ At(r, "none")
    /\ stmObj' = [stmObj EXCEPT !.reference = @ + 1]
    /\ Goto(r, "granted")
    /\ UNCHANGED <<stmRef, stmWr, stmLock>>

\* lupdate and stm_update: the new copy is swapped in under the write lock.
stm_update ==
    /\ stmWr.pc = "idle" /\ Cardinality(StmCopy) < MAX_COPIES
    /\ LET new == Cardinality(StmCopy) + 1 IN
       /\ wlock
       /\ stmWr' = [pc |-> "swap", old |-> 0]
       /\ stmRef' = [c \in StmCopy \union {new} |-> IF c = new THEN 1 ELSE stmRef[c]]
    /\ UNCHANGED <<stmObj, stmRd>>

stm_update_swap ==
    /\ stmWr.pc = "swap"
    /\ stmObj' = [stmObj EXCEPT !.copy = Cardinality(StmCopy)]
    /\ stmWr' = [pc |-> "swapped", old |-> stmObj.copy]
    /\ wunlock
    /\ UNCHANGED <<stmRef, stmRd>>

stm_update_release ==
    /\ stmWr.pc = "swapped"
    /\ stmRef' = stm_releasecopy(stmRef, stmWr.old)
    /\ stmWr' = [pc |-> "idle", old |-> 0]
    /\ UNCHANGED <<stmObj, stmRd, stmLock>>

\* ldeletewriter and stm_release, entirely under the write lock.
stm_release ==
    /\ stmWr.pc = "idle" /\ wlock
    /\ stmWr' = [stmWr EXCEPT !.pc = "release"]
    /\ UNCHANGED <<stmObj, stmRef, stmRd>>

stm_release_free ==
    /\ stmWr.pc = "release" /\ stmWr' = [stmWr EXCEPT !.pc = "gone"]
    /\ stmRef' = stm_releasecopy(stmRef, stmObj.copy)
    /\ stmObj' = [copy |-> 0, reference |-> stmObj.reference - 1,
                  freed |-> stmObj.reference = 1]
    /\ wunlock
    /\ UNCHANGED stmRd

-----------------------------------------------------------------------------
\* lnewreader, when the pointer arrives.
lnewreader(r) ==
    /\ At(r, "granted") /\ Goto(r, "idle")
    /\ UNCHANGED <<stmObj, stmRef, stmWr, stmLock>>

\* lread: stm_copy under the read lock.
stm_copy_lock(r) ==
    /\ At(r, "idle") /\ rlock(r) /\ Goto(r, "copying")
    /\ UNCHANGED <<stmObj, stmRef, stmWr>>

\* Mutant of stm_copy: the copy is taken without being counted.
stm_copy_uncounted(r) ==
    /\ At(r, "copying") /\ runlock(r)
    /\ stmRd' = [stmRd EXCEPT ![r].hand = stmObj.copy, ![r].pc = "compare"]
    /\ UNCHANGED <<stmObj, stmRef, stmWr>>

stm_copy(r) ==
    /\ At(r, "copying") /\ runlock(r)
    /\ stmRd' = [stmRd EXCEPT ![r].hand = stmObj.copy, ![r].pc = "compare"]
    /\ stmRef' = IF stmObj.copy = 0 THEN stmRef
                 ELSE [stmRef EXCEPT ![stmObj.copy] = @ + 1]
    /\ UNCHANGED <<stmObj, stmWr>>

\* The rest of lread: an unchanged copy is let go, a new one replaces the
\* last one and is read until the next call.
lread(r) ==
    LET box == stmRd[r] IN
    /\ At(r, "compare")
    /\ stmRef' = stm_releasecopy(stmRef, IF box.hand = box.last THEN box.hand ELSE box.last)
    /\ stmRd' = [stmRd EXCEPT ![r] = [pc |-> "idle", last |-> box.hand, hand |-> 0]]
    /\ UNCHANGED <<stmObj, stmWr, stmLock>>

\* ldeletereader: stm_releasereader under the read lock; the last one frees
\* the object, the others unlock it after their reference is gone.
stm_releasereader_lock(r) ==
    /\ At(r, "idle") /\ rlock(r) /\ Goto(r, "leaving")
    /\ UNCHANGED <<stmObj, stmRef, stmWr>>

stm_releasereader(r) ==
    LET last == stmObj.reference = 1 IN
    /\ At(r, "leaving")
    /\ stmObj' = [stmObj EXCEPT !.reference = @ - 1, !.freed = last]
    /\ Goto(r, IF last THEN "left" ELSE "unlocking")
    /\ UNCHANGED <<stmRef, stmWr, stmLock>>

stm_releasereader_unlock(r) ==
    /\ At(r, "unlocking") /\ runlock(r) /\ Goto(r, "left")
    /\ UNCHANGED <<stmObj, stmRef, stmWr>>

ldeletereader(r) ==
    /\ At(r, "left")
    /\ stmRef' = stm_releasecopy(stmRef, stmRd[r].last)
    /\ stmRd' = [stmRd EXCEPT ![r] = [pc |-> "gone", last |-> 0, hand |-> 0]]
    /\ UNCHANGED <<stmObj, stmWr, stmLock>>

StmNext ==
    \/ stm_update \/ stm_update_swap \/ stm_update_release
    \/ stm_release \/ stm_release_free
    \/ \E r \in StmReader :
          \/ stm_grab(r) \/ lnewreader(r)
          \/ stm_copy_lock(r) \/ stm_copy(r) \/ lread(r)
          \/ stm_releasereader_lock(r) \/ stm_releasereader(r)
          \/ stm_releasereader_unlock(r) \/ ldeletereader(r)

StmSpec == StmInit /\ [][StmNext]_stmVars

-----------------------------------------------------------------------------
Count(S) == Cardinality(S)

\* Every copy's count is the number of pointers to it, so a copy is freed
\* exactly when nobody can read it any more, whatever the writer swaps while
\* readers take it.  The object's count is that of its boxes; nobody whose
\* next step uses the object finds it freed, except a reader that has given
\* its reference back and still has to unlock; and when all boxes are gone
\* nothing is left allocated.
StmExact ==
    /\ \A c \in StmCopy :
          stmRef[c] = Count({r \in StmReader : stmRd[r].last = c})
                    + Count({r \in StmReader : stmRd[r].hand = c})
                    + (IF stmObj.copy = c THEN 1 ELSE 0)
                    + (IF stmWr.old = c THEN 1 ELSE 0)
                    + (IF stmWr.pc = "swap" /\ c = Cardinality(StmCopy) THEN 1 ELSE 0)
    /\ stmObj.freed =>
          /\ stmWr.pc = "gone"
          /\ \A r \in StmReader : stmRd[r].pc \in {"none", "left", "gone", "unlocking"}
    /\ stmWr.pc = "gone" /\ (\A r \in StmReader : stmRd[r].pc \in {"none", "gone"}) =>
          stmObj.freed /\ \A c \in StmCopy : Freed(c)
=============================================================================
