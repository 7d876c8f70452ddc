---------------------------- MODULE ThreadProofs ----------------------------
(***************************************************************************)
(* Proofs about what the threads of start.c share, for any number of       *)
(* threads, services and timeouts:                                         *)
(*                                                                         *)
(*   - the lock of lock.h excludes;                                        *)
(*   - the table of handle.c that it guards finds every handle and name;   *)
(*   - watcher.sleep of start.c counts the sleeping workers;               *)
(*   - the timing wheel of timer.c, for rings of any size, loses no node,  *)
(*     fires each at its tick and keeps the order of equal ticks.          *)
(***************************************************************************)
EXTENDS RwLock, HandleTable, Workers, Timer, SequenceTheorems, Lemmas

-----------------------------------------------------------------------------
(* The readers-writer lock *)

\* The threads whose increment of `read' has not been taken back.
Announced == {t \in Thread : at[t] \in {"r_check", "r_undo", "reading"}}

\* The threads that own `write'.
Owners == {t \in Thread : at[t] \in {"w_drain", "writing"}}

\* `read' counts the announced readers and `write' tells whether there is
\* an owner; together with Exclusion this is inductive.
LockInv ==
    /\ RwTypeOK
    /\ read = Cardinality(Announced)
    /\ write = 0 <=> Owners = {}
    /\ \A t, u \in Owners : t = u
    /\ Exclusion

\* The announced readers are finitely many, as the threads are.
LEMMA AnnouncedFinite ==
    /\ IsFiniteSet(Announced)
    /\ Cardinality(Announced) \in Nat
    /\ Cardinality(Announced) = 0 <=> Announced = {}
<1>1. Announced \subseteq Thread
  BY DEF Announced
<1>2. IsFiniteSet(Announced)
  BY <1>1, ThreadAssumption, FS_Subset
<1> QED BY <1>2, FS_CardinalityType, FS_EmptySet

\* The initial state of rwlock_init satisfies the invariant.
LEMMA LockInit == RwInit => LockInv
<1> SUFFICES ASSUME RwInit PROVE LockInv
  OBVIOUS
<1>1. Announced = {} /\ Owners = {}
  BY DEF RwInit, Announced, Owners
<1>2. RwTypeOK /\ Exclusion
  BY DEF RwInit, RwTypeOK, Labels, Exclusion
<1> QED BY <1>1, <1>2, FS_EmptySet DEF RwInit, LockInv

\* rlock_inc announces one reader more, and `read' counts it.
LEMMA Announce ==
    ASSUME LockInv, NEW t \in Thread, rlock_inc(t)
    PROVE  Announced' = Announced \cup {t} /\ read' = Cardinality(Announced')
<1>1. Announced' = Announced \cup {t} /\ t \notin Announced
  BY DEF rlock_inc, RwGoto, LockInv, RwTypeOK, Announced
<1>2. Cardinality(Announced \cup {t}) = Cardinality(Announced) + 1
  BY <1>1, AnnouncedFinite, FS_AddElement
<1> QED BY <1>1, <1>2 DEF rlock_inc, LockInv

\* rlock_undo and runlock take one announcement back.
LEMMA Withdraw ==
    ASSUME LockInv, NEW t \in Thread, rlock_undo(t) \/ runlock(t)
    PROVE  Announced' = Announced \ {t} /\ read' = Cardinality(Announced')
           /\ read' \in Nat
<1>1. Announced' = Announced \ {t} /\ t \in Announced
  BY DEF rlock_undo, runlock, RwGoto, LockInv, RwTypeOK, Announced
<1>2. Cardinality(Announced \ {t}) = Cardinality(Announced) - 1
  BY <1>1, AnnouncedFinite, FS_RemoveElement
<1>3. IsFiniteSet(Announced \ {t})
  BY AnnouncedFinite, FS_RemoveElement
<1>4. Cardinality(Announced \ {t}) \in Nat
  BY <1>3, FS_CardinalityType
<1> QED BY <1>1, <1>2, <1>4 DEF rlock_undo, runlock, LockInv

\* Every step of every thread keeps the invariant.
LEMMA LockNext == LockInv /\ [RwNext]_lockVars => LockInv'
<1> SUFFICES ASSUME LockInv, [RwNext]_lockVars PROVE LockInv'
  OBVIOUS
<1>0. CASE UNCHANGED lockVars
  BY <1>0 DEF lockVars, LockInv, RwTypeOK, Announced, Owners, Exclusion
<1>1. ASSUME NEW t \in Thread,
             rlock_call(t) \/ rlock_wait(t) \/ wlock_call(t)
      PROVE  LockInv'
  <2>1. Announced' = Announced /\ Owners' = Owners
    BY <1>1 DEF rlock_call, rlock_wait, wlock_call, RwGoto, LockInv, RwTypeOK,
                Announced, Owners
  <2>2. RwTypeOK' /\ Exclusion' /\ UNCHANGED <<read, write>>
    BY <1>1 DEF rlock_call, rlock_wait, wlock_call, RwGoto, LockInv, RwTypeOK,
                Labels, Exclusion
  <2> QED BY <2>1, <2>2 DEF LockInv
<1>2. ASSUME NEW t \in Thread, rlock_inc(t) PROVE LockInv'
  <2>1. Owners' = Owners
    BY <1>2 DEF rlock_inc, RwGoto, LockInv, RwTypeOK, Owners
  <2>2. RwTypeOK' /\ Exclusion' /\ UNCHANGED write
    BY <1>2 DEF rlock_inc, RwGoto, LockInv, RwTypeOK, Labels, Exclusion
  <2> QED BY <1>2, <2>1, <2>2, Announce DEF LockInv
<1>3. ASSUME NEW t \in Thread, rlock_check(t) PROVE LockInv'
  <2>1. Announced' = Announced /\ Owners' = Owners
    BY <1>3 DEF rlock_check, RwGoto, LockInv, RwTypeOK, Announced, Owners
  <2>2. RwTypeOK' /\ UNCHANGED <<read, write>>
    BY <1>3 DEF rlock_check, RwGoto, LockInv, RwTypeOK, Labels
  \* The reader passes only when nobody owns `write'.
  <2>3. Exclusion'
    <3>1. write = 0 => \A u \in Thread : at[u] # "writing"
      BY DEF LockInv, Owners
    <3> QED BY <1>3, <3>1 DEF rlock_check, RwGoto, LockInv, RwTypeOK, Exclusion
  <2> QED BY <2>1, <2>2, <2>3 DEF LockInv
<1>4. ASSUME NEW t \in Thread, rlock_undo(t) \/ runlock(t) PROVE LockInv'
  <2>1. Owners' = Owners
    BY <1>4 DEF rlock_undo, runlock, RwGoto, LockInv, RwTypeOK, Owners
  <2>2. RwTypeOK' /\ Exclusion' /\ UNCHANGED write
    BY <1>4, Withdraw
    DEF rlock_undo, runlock, RwGoto, LockInv, RwTypeOK, Labels, Exclusion
  <2> QED BY <1>4, <2>1, <2>2, Withdraw DEF LockInv
<1>5. ASSUME NEW t \in Thread, wlock_spin(t) PROVE LockInv'
  <2>1. Announced' = Announced /\ Owners' = {t}
    BY <1>5 DEF wlock_spin, RwGoto, LockInv, RwTypeOK, Announced, Owners
  <2>2. RwTypeOK' /\ Exclusion' /\ UNCHANGED read /\ write' = 1
    BY <1>5 DEF wlock_spin, RwGoto, LockInv, RwTypeOK, Labels, Exclusion
  <2> QED BY <2>1, <2>2 DEF LockInv
<1>6. ASSUME NEW t \in Thread, wlock_drain(t) PROVE LockInv'
  <2>1. Announced' = Announced /\ Owners' = Owners /\ t \in Owners
    BY <1>6 DEF wlock_drain, RwGoto, LockInv, RwTypeOK, Announced, Owners
  <2>2. RwTypeOK' /\ UNCHANGED <<read, write>>
    BY <1>6 DEF wlock_drain, RwGoto, LockInv, RwTypeOK, Labels
  \* read = 0 says that no reader is inside, and t is the only owner.
  <2>3. Exclusion'
    <3>1. \A u \in Thread : at[u] # "reading"
      BY <1>6, AnnouncedFinite DEF wlock_drain, LockInv, Announced
    <3>2. \A u \in Thread : u # t => at[u] # "writing"
      BY <2>1 DEF LockInv, Owners
    <3> QED BY <1>6, <3>1, <3>2 DEF wlock_drain, RwGoto, LockInv, RwTypeOK, Exclusion
  <2> QED BY <2>1, <2>2, <2>3 DEF LockInv
<1>7. ASSUME NEW t \in Thread, wunlock(t) PROVE LockInv'
  <2>1. Announced' = Announced
    BY <1>7 DEF wunlock, RwGoto, LockInv, RwTypeOK, Announced
  <2>2. Owners' = {}
    <3>1. Owners = {t}
      BY <1>7 DEF wunlock, RwGoto, LockInv, Owners
    <3> QED BY <1>7, <3>1 DEF wunlock, RwGoto, LockInv, RwTypeOK, Owners
  <2>3. RwTypeOK' /\ Exclusion' /\ UNCHANGED read /\ write' = 0
    BY <1>7 DEF wunlock, RwGoto, LockInv, RwTypeOK, Labels, Exclusion
  <2> QED BY <2>1, <2>2, <2>3 DEF LockInv
<1> QED
  BY <1>0, <1>1, <1>2, <1>3, <1>4, <1>5, <1>6, <1>7 DEF RwNext, Progress

\* The invariant holds in every reachable state.
THEOREM LockInvariance == RwSpec => []LockInv
BY LockInit, LockNext, PTL DEF RwSpec

\* Exclusion: the lock of lock.h never lets a writer in together with a
\* reader or another writer.
THEOREM LockExcludes == RwSpec => []Exclusion
<1>1. LockInv => Exclusion BY DEF LockInv
<1> QED BY <1>1, LockInvariance, PTL

-----------------------------------------------------------------------------
(* The handle table: slots *)

LEMMA ModType == ASSUME NEW x \in Nat, NEW b \in Nat, b > 0 PROVE x % b \in 0 .. b - 1 /\ x % b \in Nat
  OBVIOUS

LEMMA ModUnique ==
    ASSUME NEW c \in Nat, c > 0, NEW k \in Nat, NEW r \in 0 .. c - 1
    PROVE  (c * k + r) % c = r
  OBVIOUS

LEMMA ModMod ==
    ASSUME NEW x \in Nat, NEW b \in Nat, b > 0, NEW c \in Nat, c > 0, b % c = 0
    PROVE  (x % b) % c = x % c
<1>1. PICK q \in Nat : q = b \div c
  OBVIOUS
<1>2. b = c * q
  BY <1>1
<1>3. PICK a \in Nat : a = x \div b
  OBVIOUS
<1>4. PICK m \in Nat : m = x % b
  OBVIOUS
<1>5. x = b * a + m
  BY <1>3, <1>4
<1>6. PICK d \in Nat : d = q * a
  OBVIOUS
<1>7. b * a = c * d
  BY <1>2, <1>6
<1>8. x = c * d + m
  BY <1>5, <1>7
<1>9. PICK e \in Nat : e = m \div c
  OBVIOUS
<1>10. PICK r \in 0 .. c - 1 : r = m % c
  BY ModType
<1>11. m = c * e + r
  BY <1>9, <1>10
<1>12. c * d + c * e = c * (d + e) /\ d + e \in Nat
  OBVIOUS
<1>13. x = c * (d + e) + r
  BY <1>8, <1>11, <1>12
<1>14. x % c = r
  BY <1>12, <1>13, ModUnique
<1> QED BY <1>4, <1>10, <1>14

LEMMA ModHalf ==
    ASSUME NEW x \in Nat, NEW c \in Nat, c > 0
    PROVE  2 * c \in Nat /\ 2 * c > 0 /\ (x % (2 * c)) % c = x % c
<1>1. 2 * c \in Nat /\ 2 * c > 0 /\ (2 * c) % c = 0
  OBVIOUS
<1> QED BY <1>1, ModMod

\* A table s of cap slots with the services L, ids up to last: a handle is in
\* the slot of its number, with its service, and is the newest one there; the
\* old pointer of an empty slot is to no service that lives.
SlotsType(s, cap, last) == s \in [0 .. cap - 1 -> [handle : 0 .. last, ctx : 0 .. last]]
SlotsIn(s, cap, L) ==
    \A i \in 0 .. cap - 1 :
        IF s[i].handle = 0 THEN s[i].ctx \notin L
        ELSE /\ s[i].handle % cap = i /\ s[i].ctx = s[i].handle /\ s[i].handle \in L
             /\ \A g \in L : g % cap = i => g <= s[i].handle
\* The services that the table still knows.
SlotsKeep(s, cap, L) == \A h \in L : s[h % cap].handle = h

SlotInv ==
    /\ hCap \in Nat /\ hCap > 0 /\ last_id \in Nat /\ live \in SUBSET (1 .. last_id)
    /\ SlotsType(slot, hCap, last_id) /\ SlotsIn(slot, hCap, live)
    /\ SlotsKeep(slot, hCap, live \ wiped)

\* Where the slots of a table that is doubled come from.
LEMMA ExpandFrom ==
    ASSUME NEW cap \in Nat, cap > 0, NEW s, NEW i \in 0 .. 2 * cap - 1
    PROVE  LET from == {j \in 0 .. cap - 1 : s[j].handle % (2 * cap) = i} IN
           IF from = {} THEN handle_expand(s, cap)[i] = NoSlot
           ELSE \E j \in from : handle_expand(s, cap)[i] = s[j]
<1> DEFINE from == {j \in 0 .. cap - 1 : s[j].handle % (2 * cap) = i}
<1>1. handle_expand(s, cap)[i] =
          IF from = {} THEN NoSlot ELSE s[CHOOSE j \in from : \A k \in from : k <= j]
  BY DEF handle_expand
<1>2. from \in SUBSET (0 .. cap - 1) /\ cap - 1 \in Nat
  OBVIOUS
<1> HIDE DEF from
<1>3. from # {} => \E j \in from : \A k \in from : k <= j
  BY <1>2, Greatest
<1>4. from # {} => (CHOOSE j \in from : \A k \in from : k <= j) \in from
  BY <1>3
<1>5. IF from = {} THEN handle_expand(s, cap)[i] = NoSlot
      ELSE \E j \in from : handle_expand(s, cap)[i] = s[j]
  BY <1>1, <1>4
<1> QED BY <1>5 DEF from

\* handle_expand keeps what was said, but for the multiples of the new capacity.
LEMMA ExpandInv ==
    ASSUME NEW cap \in Nat, cap > 0, NEW last \in Nat, NEW L \in SUBSET (1 .. last), NEW K \in SUBSET L,
           NEW s, SlotsType(s, cap, last), SlotsIn(s, cap, L), SlotsKeep(s, cap, K),
           NEW r, r = handle_expand(s, cap)
    PROVE  /\ SlotsType(r, 2 * cap, last) /\ SlotsIn(r, 2 * cap, L)
           /\ SlotsKeep(r, 2 * cap, {k \in K : k % (2 * cap) # 0})
<1>1. PICK c \in Nat : c = 2 * cap /\ c > 0
  OBVIOUS
<1>2. ASSUME NEW x \in Nat PROVE x % c \in 0 .. c - 1 /\ (x % c) % cap = x % cap
  BY <1>1, <1>2, ModType, ModHalf
<1>3. \A j \in 0 .. cap - 1 : s[j] \in [handle : 0 .. last, ctx : 0 .. last] /\ s[j].handle \in Nat
  BY DEF SlotsType
<1>4. \A i \in 0 .. c - 1 :
         \/ r[i] = NoSlot /\ ~\E j \in 0 .. cap - 1 : s[j].handle % c = i
         \/ \E j \in 0 .. cap - 1 : r[i] = s[j] /\ s[j].handle % c = i
  BY <1>1, ExpandFrom
<1>5. NoSlot \in [handle : 0 .. last, ctx : 0 .. last] /\ NoSlot.handle = 0 /\ NoSlot.ctx = 0 /\ 0 \notin L
  BY DEF NoSlot
<1>6. SlotsType(r, c, last)
  <2>1. \A i \in 0 .. c - 1 : r[i] \in [handle : 0 .. last, ctx : 0 .. last]
    BY <1>3, <1>4, <1>5
  <2>2. r = [i \in 0 .. c - 1 |-> r[i]]
    BY <1>1 DEF handle_expand
  <2> QED BY <2>1, <2>2 DEF SlotsType
<1>7. SlotsIn(r, c, L)
  <2> SUFFICES ASSUME NEW i \in 0 .. c - 1
               PROVE  IF r[i].handle = 0 THEN r[i].ctx \notin L
                      ELSE /\ r[i].handle % c = i /\ r[i].ctx = r[i].handle /\ r[i].handle \in L
                           /\ \A g \in L : g % c = i => g <= r[i].handle
    BY DEF SlotsIn
  <2>1. CASE r[i] = NoSlot
    BY <1>5, <2>1
  <2>2. ASSUME NEW j \in 0 .. cap - 1, r[i] = s[j], s[j].handle % c = i, s[j].handle # 0
        PROVE  /\ r[i].handle % c = i /\ r[i].ctx = r[i].handle /\ r[i].handle \in L
               /\ \A g \in L : g % c = i => g <= r[i].handle
    <3>1. s[j].handle % cap = j /\ s[j].ctx = s[j].handle /\ s[j].handle \in L
      BY <2>2 DEF SlotsIn
    <3>2. ASSUME NEW g \in L, g % c = i PROVE g <= s[j].handle
      <4>1. g \in Nat
        OBVIOUS
      <4>2. g % cap = j
        BY <1>2, <1>3, <2>2, <3>1, <3>2, <4>1
      <4> QED BY <2>2, <4>2 DEF SlotsIn
    <3> QED BY <2>2, <3>1, <3>2
  <2>3. ASSUME NEW j \in 0 .. cap - 1, r[i] = s[j], s[j].handle = 0
        PROVE  r[i].handle = 0 /\ r[i].ctx \notin L
    BY <2>3 DEF SlotsIn
  <2> QED BY <1>4, <2>1, <2>2, <2>3
<1>8. ASSUME NEW k \in K, k % c # 0 PROVE r[k % c].handle = k
  <2>1. k \in Nat /\ k # 0 /\ k % c \in 0 .. c - 1
    BY <1>2
  <2>2. PICK i \in 0 .. c - 1 : i = k % c
    BY <2>1
  <2>3. k % cap \in 0 .. cap - 1 /\ s[k % cap].handle = k
    BY <2>1, ModType DEF SlotsKeep
  <2>4. PICK j \in 0 .. cap - 1 : r[i] = s[j] /\ s[j].handle % c = i
    BY <1>4, <2>2, <2>3
  <2>5. s[j].handle # 0
    <3>1. 0 % c = 0
      BY <1>1
    <3> QED BY <1>8, <2>2, <2>4, <3>1
  <2>6. s[j].handle % cap = j
    BY <2>5 DEF SlotsIn
  <2>7. j = k % cap
    BY <1>2, <1>3, <2>1, <2>2, <2>4, <2>6
  <2> QED BY <2>2, <2>3, <2>4, <2>7
<1>9. SlotsKeep(r, c, {k \in K : k % c # 0})
  BY <1>8 DEF SlotsKeep
<1> QED BY <1>1, <1>6, <1>7, <1>9

\* The new handle, in a slot that is free.
Enter(s, cap, h) == [s EXCEPT ![h % cap] = [handle |-> h, ctx |-> h]]

LEMMA EnterInv ==
    ASSUME NEW cap \in Nat, cap > 0, NEW last \in Nat, NEW L \in SUBSET (1 .. last), NEW K \in SUBSET L,
           NEW s, SlotsType(s, cap, last), SlotsIn(s, cap, L), SlotsKeep(s, cap, K),
           NEW h \in Nat, h > last, s[h % cap].handle = 0,
           NEW r, r = Enter(s, cap, h)
    PROVE  /\ L \cup {h} \in SUBSET (1 .. h) /\ SlotsType(r, cap, h)
           /\ SlotsIn(r, cap, L \cup {h}) /\ SlotsKeep(r, cap, K \cup {h})
<1>1. PICK p \in 0 .. cap - 1 : p = h % cap
  BY ModType
<1>2. /\ r[p] = [handle |-> h, ctx |-> h] /\ r[p].handle = h /\ r[p].ctx = h
      /\ \A i \in 0 .. cap - 1 : i # p => r[i] = s[i]
  BY <1>1 DEF SlotsType, Enter
<1>3. L \cup {h} \in SUBSET (1 .. h) /\ h # 0 /\ h \notin L /\ \A g \in L : g \in Nat /\ g <= h
  BY ONLY L \in SUBSET (1 .. last), last \in Nat, h \in Nat, h > last
<1>4. \A i \in 0 .. cap - 1 : s[i] \in [handle : 0 .. last, ctx : 0 .. last] /\ s[i].ctx # h
  BY DEF SlotsType
<1>5. SlotsType(r, cap, h)
  <2>1. [handle : 0 .. last, ctx : 0 .. last] \subseteq [handle : 0 .. h, ctx : 0 .. h]
    OBVIOUS
  <2>2. s \in [0 .. cap - 1 -> [handle : 0 .. h, ctx : 0 .. h]]
    BY <2>1 DEF SlotsType
  <2>3. [handle |-> h, ctx |-> h] \in [handle : 0 .. h, ctx : 0 .. h]
    OBVIOUS
  <2> QED BY <1>1, <2>2, <2>3 DEF SlotsType, Enter
<1>6. SlotsIn(r, cap, L \cup {h})
  <2> SUFFICES ASSUME NEW i \in 0 .. cap - 1
               PROVE  IF r[i].handle = 0 THEN r[i].ctx \notin L \cup {h}
                      ELSE /\ r[i].handle % cap = i /\ r[i].ctx = r[i].handle /\ r[i].handle \in L \cup {h}
                           /\ \A g \in L \cup {h} : g % cap = i => g <= r[i].handle
    BY DEF SlotsIn
  <2>1. CASE i = p
    BY <1>1, <1>2, <1>3, <2>1
  <2>2. CASE i # p
    BY <1>1, <1>2, <1>4, <2>2 DEF SlotsIn
  <2> QED BY <2>1, <2>2
<1>7. ASSUME NEW k \in K PROVE r[k % cap].handle = k
  <2>1. k \in Nat /\ k # 0
    BY ONLY k \in K, K \in SUBSET L, L \in SUBSET (1 .. last), last \in Nat
  <2>2. k % cap \in 0 .. cap - 1 /\ s[k % cap].handle = k
    BY <2>1, ModType DEF SlotsKeep
  <2> QED BY <1>1, <1>2, <2>1, <2>2
<1> QED BY <1>1, <1>2, <1>3, <1>5, <1>6, <1>7 DEF SlotsKeep

LEMMA NextFreeIs ==
    ASSUME NEW s, NEW cap \in Nat, NEW id \in Nat, Free(s, cap, id) # {}
    PROVE  /\ NextFree(s, cap, id) \in Nat /\ NextFree(s, cap, id) > id
           /\ s[NextFree(s, cap, id) % cap].handle = 0
<1>1. Free(s, cap, id) \in SUBSET Nat
  BY DEF Free
<1>2. \E h \in Free(s, cap, id) : \A k \in Free(s, cap, id) : h <= k
  BY <1>1, Least
<1>3. NextFree(s, cap, id) \in Free(s, cap, id)
  BY <1>2 DEF NextFree
<1> QED BY <1>3 DEF Free

LEMMA RegistInv == ASSUME SlotInv, handle_regist PROVE SlotInv'
<1> DEFINE full == hN >= (hCap * 3) \div 4
<1>1. PICK cap : cap = IF full THEN 2 * hCap ELSE hCap
  OBVIOUS
<1>2. PICK s : s = IF full THEN handle_expand(slot, hCap) ELSE slot
  OBVIOUS
<1>3. PICK h : h = NextFree(s, cap, last_id)
  OBVIOUS
<1>4. PICK K : K = IF full THEN {k \in live \ wiped : k % cap # 0} ELSE live \ wiped
  OBVIOUS
<1>5. /\ Free(s, cap, last_id) # {} /\ hCap' = cap
      /\ slot' = [s EXCEPT ![h % cap] = [handle |-> h, ctx |-> h]]
      /\ last_id' = h /\ live' = live \cup {h}
      /\ wiped' = IF full THEN wiped \cup {k \in live : k % cap = 0} ELSE wiped
  BY <1>1, <1>2, <1>3 DEF handle_regist
<1>6. /\ hCap \in Nat /\ hCap > 0 /\ last_id \in Nat /\ live \in SUBSET (1 .. last_id)
      /\ SlotsType(slot, hCap, last_id) /\ SlotsIn(slot, hCap, live)
      /\ SlotsKeep(slot, hCap, live \ wiped)
  BY DEF SlotInv
<1>7. /\ cap \in Nat /\ cap > 0 /\ K \in SUBSET live
      /\ SlotsType(s, cap, last_id) /\ SlotsIn(s, cap, live) /\ SlotsKeep(s, cap, K)
  <2>1. CASE full
    <3>1. live \ wiped \in SUBSET live /\ cap = 2 * hCap /\ s = handle_expand(slot, hCap)
          /\ K = {k \in live \ wiped : k % (2 * hCap) # 0}
      BY <1>1, <1>2, <1>4, <2>1
    <3>2. /\ SlotsType(s, 2 * hCap, last_id) /\ SlotsIn(s, 2 * hCap, live) /\ SlotsKeep(s, 2 * hCap, K)
      BY <1>6, <3>1, ExpandInv
    <3> QED BY <1>6, <3>1, <3>2
  <2>2. CASE ~full
    BY <1>1, <1>2, <1>4, <1>6, <2>2
  <2> QED BY <2>1, <2>2
<1>8. h \in Nat /\ h > last_id /\ s[h % cap].handle = 0
  BY <1>3, <1>5, <1>6, <1>7, NextFreeIs
<1>9. /\ live' \in SUBSET (1 .. h) /\ SlotsType(slot', cap, h)
      /\ SlotsIn(slot', cap, live') /\ SlotsKeep(slot', cap, K \cup {h})
  <2>1. PICK r : r = slot'
    OBVIOUS
  <2>2. r = Enter(s, cap, h)
    BY <1>5, <2>1 DEF Enter
  <2>3. /\ live \cup {h} \in SUBSET (1 .. h) /\ SlotsType(r, cap, h)
        /\ SlotsIn(r, cap, live \cup {h}) /\ SlotsKeep(r, cap, K \cup {h})
    BY ONLY <1>6, <1>7, <1>8, <2>2, EnterInv
  <2> QED BY <1>5, <2>1, <2>3
<1>10. live' \ wiped' \subseteq K \cup {h}
  BY <1>4, <1>5
<1>11. SlotsKeep(slot', cap, live' \ wiped')
  BY <1>9, <1>10 DEF SlotsKeep
<1> QED BY <1>5, <1>7, <1>8, <1>9, <1>11 DEF SlotInv

LEMMA RemoveInv == ASSUME SlotInv, NEW h \in live, handle_remove_slot(h) PROVE SlotInv'
<1>1. /\ hCap \in Nat /\ hCap > 0 /\ last_id \in Nat /\ live \in SUBSET (1 .. last_id)
      /\ SlotsType(slot, hCap, last_id) /\ SlotsIn(slot, hCap, live)
      /\ SlotsKeep(slot, hCap, live \ wiped)
  BY DEF SlotInv
<1>2. h \in Nat /\ h % MASK \in Nat
  BY <1>1, HandleAssumption, ModType
<1>3. PICK i \in 0 .. hCap - 1 : i = (h % MASK) % hCap
  BY <1>1, <1>2, ModType
<1>4. UNCHANGED <<hCap, last_id, wiped>>
  BY DEF handle_remove_slot
<1>5. CASE slot[i].handle = h % MASK
  <2>1. slot' = [slot EXCEPT ![i] = [handle |-> 0, ctx |-> @.ctx]] /\ live' = live \ {slot[i].ctx}
    BY <1>3, <1>5 DEF handle_remove_slot
  <2>2. slot \in [0 .. hCap - 1 -> [handle : 0 .. last_id, ctx : 0 .. last_id]]
    BY <1>1 DEF SlotsType
  <2>3. /\ slot'[i] = [handle |-> 0, ctx |-> slot[i].ctx] /\ slot'[i].handle = 0 /\ slot'[i].ctx = slot[i].ctx
        /\ \A j \in 0 .. hCap - 1 : j # i => slot'[j] = slot[j]
    BY <2>1, <2>2
  <2>4. SlotsType(slot', hCap, last_id)
    <3>1. [handle |-> 0, ctx |-> slot[i].ctx] \in [handle : 0 .. last_id, ctx : 0 .. last_id]
      BY <1>1, <2>2
    <3> QED BY <2>1, <2>2, <3>1 DEF SlotsType
  <2>5. ASSUME NEW j \in 0 .. hCap - 1, slot[j].handle # 0, j # i PROVE slot[j].handle # slot[i].ctx
    BY <1>1, <2>5 DEF SlotsIn
  <2>6. SlotsIn(slot', hCap, live')
    BY <1>1, <2>1, <2>3, <2>5 DEF SlotsIn
  <2>7. ASSUME NEW k \in live' \ wiped PROVE slot'[k % hCap].handle = k
    <3>1. k \in live \ wiped /\ k \in Nat /\ k # 0 /\ k # slot[i].ctx
      BY <1>1, <2>1
    <3>2. k % hCap \in 0 .. hCap - 1 /\ slot[k % hCap].handle = k
      BY <1>1, <3>1, ModType DEF SlotsKeep
    <3>3. k % hCap # i
      BY <1>1, <3>1, <3>2 DEF SlotsIn
    <3> QED BY <2>3, <3>2, <3>3
  <2>8. live' \in SUBSET (1 .. last_id)
    BY <1>1, <2>1
  <2> QED BY <1>1, <1>4, <2>4, <2>6, <2>7, <2>8 DEF SlotInv, SlotsKeep
<1>6. CASE slot[i].handle # h % MASK
  <2>1. UNCHANGED <<slot, live>>
    BY <1>3, <1>6 DEF handle_remove_slot
  <2> QED BY <1>1, <1>4, <2>1 DEF SlotInv
<1> QED BY <1>5, <1>6

\* What handle_grab finds.
LEMMA GrabIs ==
    ASSUME SlotInv
    PROVE  /\ \A h \in live \ wiped : h < MASK => handle_grab(h) = h
           /\ \A h \in 1 .. last_id :
                 h % MASK # 0 => handle_grab(h) \in {0} \cup (live \cap {h % MASK})
           /\ MASK % hCap = 0 => \A h \in live : h % MASK # 0 => handle_grab(h) \in {0, h}
<1>1. /\ hCap \in Nat /\ hCap > 0 /\ last_id \in Nat /\ live \in SUBSET (1 .. last_id)
      /\ SlotsIn(slot, hCap, live) /\ SlotsKeep(slot, hCap, live \ wiped)
      /\ MASK \in Nat /\ MASK > 0
  BY HandleAssumption DEF SlotInv
<1>2. ASSUME NEW h \in 1 .. last_id, h % MASK # 0, handle_grab(h) # 0
      PROVE  /\ handle_grab(h) = h % MASK /\ h % MASK \in live
             /\ \A g \in live : g % hCap = (h % MASK) % hCap => g <= h % MASK
  <2>1. h \in Nat /\ h % MASK \in Nat
    BY <1>1, ModType
  <2>2. PICK i \in 0 .. hCap - 1 : i = (h % MASK) % hCap
    BY <1>1, <2>1, ModType
  <2>3. slot[i].handle = h % MASK /\ handle_grab(h) = slot[i].ctx
    BY <1>2, <2>2 DEF handle_grab
  <2> QED BY <1>1, <1>2, <2>2, <2>3 DEF SlotsIn
<1>3. ASSUME NEW h \in live \ wiped, h < MASK PROVE handle_grab(h) = h
  <2>1. h \in Nat /\ h # 0 /\ h % MASK = h /\ h % hCap \in 0 .. hCap - 1
    BY <1>1, <1>3, ModType
  <2>2. slot[h % hCap].handle = h
    BY <1>1, <1>3 DEF SlotsKeep
  <2>3. slot[h % hCap].ctx = h
    BY <1>1, <2>1, <2>2 DEF SlotsIn
  <2> QED BY <2>1, <2>2, <2>3 DEF handle_grab
<1>4. ASSUME MASK % hCap = 0, NEW h \in live, h % MASK # 0, handle_grab(h) # 0 PROVE handle_grab(h) = h
  <2>1. h \in Nat /\ h \in 1 .. last_id
    BY <1>1
  <2>2. (h % MASK) % hCap = h % hCap /\ h % MASK <= h
    <3>1. (h % MASK) % hCap = h % hCap
      BY <1>1, <1>4, <2>1, ModMod
    <3>2. h % MASK <= h
      BY ONLY <1>1, <2>1
    <3> QED BY <3>1, <3>2
  <2>3. handle_grab(h) = h % MASK /\ h <= h % MASK
    BY <1>2, <1>4, <2>1, <2>2
  <2> QED BY <1>1, <2>1, <2>2, <2>3, ModType
<1> QED BY <1>2, <1>3, <1>4

-----------------------------------------------------------------------------
(* The handle table: names *)

NameInv ==
    /\ name_cap \in Nat /\ name_cap > 0 /\ name_count \in 0 .. name_cap /\ first \in [Name -> Nat]
    /\ names \in [0 .. name_cap - 1 -> [name : Nat, handle : Nat]]
    /\ \A i, j \in 0 .. name_count - 1 : i < j => names[i].name < names[j].name
    /\ \A i \in 0 .. name_count - 1 :
          /\ names[i].name \in Name /\ names[i].handle # 0
          /\ first[names[i].name] = names[i].handle
    /\ \A n \in Name : first[n] # 0 => \E i \in 0 .. name_count - 1 : names[i].name = n

LEMMA MidIs ==
    ASSUME NEW a \in Int, NEW b \in Int, a <= b
    PROVE  (a + b) \div 2 \in a .. b
  OBVIOUS

\* The binary search is at most name_count steps from its end: the entries
\* before beg are smaller than the name, those after end are larger.
Ranges == [beg : 0 .. name_count, end : -1 .. name_count - 1]
Bracket(n, r, k) ==
    /\ r.beg <= r.end + 1
    /\ \A i \in 0 .. name_count - 1 : (i < r.beg => names[i].name < n) /\ (i > r.end => names[i].name > n)
    /\ \/ r.beg <= r.end /\ names[Mid(r)].name = n
       \/ r.end - r.beg + 1 <= name_count - k

LEMMA HalveIs ==
    ASSUME NameInv, NEW n \in Nat, NEW r \in Ranges
    PROVE  /\ Halve(n, r) \in Ranges \/ ~(r.beg <= r.end + 1)
           /\ \A k \in 0 .. name_count - 1 : Bracket(n, r, k) => Bracket(n, Halve(n, r), k + 1)
<1>1. name_count \in Nat /\ \A i \in 0 .. name_count - 1 : names[i].name \in Nat
  BY DEF NameInv
<1>2. r.beg \in 0 .. name_count /\ r.end \in -1 .. name_count - 1 /\ r.beg \in Nat /\ r.end \in Int
  BY <1>1 DEF Ranges
<1>3. CASE r.beg > r.end
  <2>1. Halve(n, r) = r
    BY <1>2, <1>3 DEF Halve
  <2>2. \A k \in 0 .. name_count - 1 : r.end - r.beg + 1 <= name_count - (k + 1)
    BY <1>1, <1>2, <1>3
  <2> QED BY <2>1, <2>2 DEF Bracket
<1>4. CASE r.beg <= r.end
  <2>1. PICK m \in r.beg .. r.end : m = Mid(r)
    BY <1>2, <1>4, MidIs DEF Mid
  <2>2. m \in 0 .. name_count - 1 /\ m \in Nat /\ names[m].name \in Nat
    BY <1>1, <1>2, <2>1
  <2>3. CASE names[m].name = n
    <3>1. Halve(n, r) = r
      BY <2>1, <2>3 DEF Halve
    <3> QED BY <1>4, <2>1, <2>3, <3>1 DEF Bracket
  <2>4. CASE names[m].name < n
    <3>1. PICK q : q = [r EXCEPT !.beg = m + 1]
      OBVIOUS
    <3>2. names[m].name # n /\ ~(names[m].name > n)
      BY <2>2, <2>4
    <3>3. Halve(n, r) = q
      BY <1>2, <1>4, <2>1, <2>4, <3>1, <3>2 DEF Halve
    <3>4. q \in Ranges /\ q.beg = m + 1 /\ q.end = r.end
      BY <1>1, <1>2, <2>1, <2>2, <3>1 DEF Ranges
    <3>5. \A i \in 0 .. name_count - 1 : i < m + 1 => names[i].name < n
      <4>1. \A i \in 0 .. name_count - 1 : i < m => names[i].name < names[m].name
        BY <2>2 DEF NameInv
      <4>2. \A i \in 0 .. name_count - 1 : i < m + 1 => i < m \/ i = m
        BY <2>2
      <4> QED BY <1>1, <2>2, <2>4, <4>1, <4>2
    <3>6. ASSUME NEW k \in 0 .. name_count - 1, Bracket(n, r, k) PROVE Bracket(n, q, k + 1)
      <4>1. q.beg <= q.end + 1
        BY <1>2, <2>1, <3>4
      <4>2. \A i \in 0 .. name_count - 1 : (i < q.beg => names[i].name < n) /\ (i > q.end => names[i].name > n)
        BY <3>4, <3>5, <3>6 DEF Bracket
      <4>3. r.end - r.beg + 1 <= name_count - k
        BY <2>1, <3>2, <3>6 DEF Bracket
      <4>4. q.end - q.beg + 1 <= name_count - (k + 1)
        BY <1>1, <1>2, <2>1, <3>4, <4>3
      <4> QED BY <4>1, <4>2, <4>4 DEF Bracket
    <3> QED BY <3>3, <3>4, <3>6
  <2>5. CASE names[m].name > n
    <3>1. PICK q : q = [r EXCEPT !.end = m - 1]
      OBVIOUS
    <3>2. names[m].name # n /\ ~(names[m].name < n)
      BY <2>2, <2>5
    <3>3. Halve(n, r) = q
      BY <1>2, <1>4, <2>1, <2>5, <3>1, <3>2 DEF Halve
    <3>4. q \in Ranges /\ q.beg = r.beg /\ q.end = m - 1
      BY <1>1, <1>2, <2>1, <2>2, <3>1 DEF Ranges
    <3>5. \A i \in 0 .. name_count - 1 : i > m - 1 => names[i].name > n
      <4>1. \A i \in 0 .. name_count - 1 : i > m => names[i].name > names[m].name
        BY <2>2 DEF NameInv
      <4>2. \A i \in 0 .. name_count - 1 : i > m - 1 => i > m \/ i = m
        BY <2>2
      <4> QED BY <1>1, <2>2, <2>5, <4>1, <4>2
    <3>6. ASSUME NEW k \in 0 .. name_count - 1, Bracket(n, r, k) PROVE Bracket(n, q, k + 1)
      <4>1. q.beg <= q.end + 1
        BY <1>2, <2>1, <3>4
      <4>2. \A i \in 0 .. name_count - 1 : (i < q.beg => names[i].name < n) /\ (i > q.end => names[i].name > n)
        BY <3>4, <3>5, <3>6 DEF Bracket
      <4>3. r.end - r.beg + 1 <= name_count - k
        BY <2>1, <3>2, <3>6 DEF Bracket
      <4>4. q.end - q.beg + 1 <= name_count - (k + 1)
        BY <1>1, <1>2, <2>1, <3>4, <4>3
      <4> QED BY <4>1, <4>2, <4>4 DEF Bracket
    <3> QED BY <3>3, <3>4, <3>6
  <2> QED BY <2>2, <2>3, <2>4, <2>5
<1> QED BY <1>2, <1>3, <1>4

LEMMA HalvesIs ==
    ASSUME NameInv, NEW n \in Nat
    PROVE  \A k \in 0 .. name_count : Halves(n)[k] \in Ranges /\ Bracket(n, Halves(n)[k], k)
<1>1. name_count \in Nat
  BY DEF NameInv
<1>2. PICK a : a = [beg |-> 0, end |-> name_count - 1]
  OBVIOUS
<1>3. a \in Ranges /\ Bracket(n, a, 0)
  BY <1>1, <1>2 DEF Ranges, Bracket
<1> DEFINE F == [r \in Ranges |-> Halve(n, r)]
<1>4. F \in [Ranges -> Ranges] /\ \A r \in Ranges : F[r] = Halve(n, r)
  <2>1. \A r \in Ranges : r.beg <= r.end + 1 => Halve(n, r) \in Ranges
    BY HalveIs
  <2>3. \A r \in Ranges : r.beg \in Int /\ r.end \in Int
    BY <1>1 DEF Ranges
  <2>2. \A r \in Ranges : r.beg > r.end => Halve(n, r) = r
    BY <2>3 DEF Halve
  <2>4. \A r \in Ranges : Halve(n, r) \in Ranges
    BY <2>1, <2>2, <2>3
  <2> QED BY <2>4
<1> HIDE DEF F
<1>5. PICK f : Iterates(f, name_count, Ranges, a, F)
  BY <1>1, <1>3, <1>4, Iterate
<1>6. f \in [0 .. name_count -> Ranges] /\ \A k \in 0 .. name_count : f[k] = IF k = 0 THEN a ELSE F[f[k - 1]]
  BY <1>5 DEF Iterates
<1>7. \A k \in 0 .. name_count : k # 0 => k - 1 \in 0 .. name_count /\ f[k - 1] \in Ranges
  BY <1>1, <1>6
<1>8. f = [k \in 0 .. name_count |-> IF k = 0 THEN [beg |-> 0, end |-> name_count - 1] ELSE Halve(n, f[k - 1])]
  BY <1>2, <1>4, <1>6, <1>7
<1>9. PICK g : g = Halves(n)
  OBVIOUS
<1>10. g = [k \in 0 .. name_count |-> IF k = 0 THEN [beg |-> 0, end |-> name_count - 1] ELSE Halve(n, g[k - 1])]
  BY <1>8, <1>9 DEF Halves
<1> DEFINE S == {k \in Nat : k \in 0 .. name_count => g[k] \in Ranges /\ Bracket(n, g[k], k)}
<1>11. 0 \in S
  BY <1>1, <1>2, <1>3, <1>10
<1>12. ASSUME NEW k \in S PROVE k + 1 \in S
  <2> SUFFICES ASSUME k + 1 \in 0 .. name_count PROVE g[k + 1] \in Ranges /\ Bracket(n, g[k + 1], k + 1)
    OBVIOUS
  <2>1. k \in Nat /\ k \in 0 .. name_count /\ k \in 0 .. name_count - 1 /\ k + 1 # 0 /\ (k + 1) - 1 = k
    BY <1>1
  <2>2. g[k + 1] = Halve(n, g[k])
    BY <1>10, <2>1
  <2>3. g[k] \in Ranges /\ Bracket(n, g[k], k)
    BY <1>12, <2>1
  <2>4. g[k].beg <= g[k].end + 1
    BY <2>3 DEF Bracket
  <2> QED BY <2>1, <2>2, <2>3, <2>4, HalveIs
<1>13. S \in SUBSET Nat
  OBVIOUS
<1> HIDE DEF S
<1>14. S = Nat
  BY <1>11, <1>12, <1>13, Induct
<1> QED BY <1>1, <1>9, <1>14 DEF S

\* What the search finds: the entry of the name, or the place where it belongs.
LEMMA SearchIs ==
    ASSUME NameInv, NEW n \in Nat
    PROVE  IF Found(n)
           THEN Mid(SearchName(n)) \in 0 .. name_count - 1 /\ names[Mid(SearchName(n))].name = n
           ELSE /\ SearchName(n).beg \in 0 .. name_count
                /\ \A i \in 0 .. name_count - 1 :
                      IF i < SearchName(n).beg THEN names[i].name < n ELSE names[i].name > n
<1>1. name_count \in Nat /\ name_count \in 0 .. name_count
  BY DEF NameInv
<1>2. PICK r : r = SearchName(n)
  OBVIOUS
<1>3. r \in Ranges /\ Bracket(n, r, name_count)
  BY <1>1, <1>2, HalvesIs DEF SearchName
<1>4. r.beg \in 0 .. name_count /\ r.end \in -1 .. name_count - 1 /\ r.beg \in Nat /\ r.end \in Int
  BY <1>1, <1>3 DEF Ranges
<1>5. CASE r.beg <= r.end
  <2>1. Mid(r) \in r.beg .. r.end
    BY <1>4, <1>5, MidIs DEF Mid
  <2>2. Mid(r) \in 0 .. name_count - 1
    BY <1>1, <1>4, <2>1
  <2>3. names[Mid(r)].name = n
    BY <1>1, <1>3, <1>4, <1>5 DEF Bracket
  <2> QED BY <1>2, <1>5, <2>2, <2>3 DEF Found
<1>6. CASE ~(r.beg <= r.end)
  <2>1. r.beg = r.end + 1
    BY <1>3, <1>4, <1>6 DEF Bracket
  <2>2. \A i \in 0 .. name_count - 1 : IF i < r.beg THEN names[i].name < n ELSE names[i].name > n
    BY <1>1, <1>3, <1>4, <2>1 DEF Bracket
  <2> QED BY <1>2, <1>4, <1>6, <2>2 DEF Found
<1> QED BY <1>5, <1>6

\* _insert_before keeps the array sorted, around the place that was found.
LEMMA InsertInv ==
    ASSUME NameInv, NEW n \in Name, NEW h \in Nat, h # 0, ~Found(n), handle_name(n, h)
    PROVE  NameInv'
<1>1. PICK p : p = SearchName(n).beg
  OBVIOUS
<1>2. n \in Nat
  BY HandleAssumption
<1>3. p \in 0 .. name_count /\ p \in Nat /\ name_count \in Nat
      /\ \A i \in 0 .. name_count - 1 : IF i < p THEN names[i].name < n ELSE names[i].name > n
  BY <1>1, <1>2, SearchIs DEF NameInv
<1>4. PICK cap : cap = IF name_count >= name_cap THEN 2 * name_cap ELSE name_cap
  OBVIOUS
<1>5. /\ name_cap' = cap /\ name_count' = name_count + 1
      /\ names' = [i \in 0 .. cap - 1 |->
                      CASE i = p -> [name |-> n, handle |-> h]
                        [] i < p -> names[i]
                        [] i > p /\ i <= name_count -> names[i - 1]
                        [] i > p /\ i > name_count -> IF i < name_cap THEN names[i] ELSE NoName]
      /\ first' = IF first[n] = 0 THEN [first EXCEPT ![n] = h] ELSE first
  BY <1>1, <1>4 DEF handle_name, _insert_before
<1>6. /\ name_cap \in Nat /\ name_cap > 0 /\ name_count <= name_cap /\ first \in [Name -> Nat]
      /\ names \in [0 .. name_cap - 1 -> [name : Nat, handle : Nat]]
  BY DEF NameInv
<1>7. cap \in Nat /\ cap > 0 /\ name_count + 1 <= cap /\ cap >= name_cap
  BY <1>3, <1>4, <1>6
<1>8. \A i \in 0 .. name_count - 1 : names[i] \in [name : Nat, handle : Nat] /\ names[i].name \in Nat
  BY <1>3, <1>6
<1>9. ASSUME NEW i \in 0 .. cap - 1
      PROVE  /\ i = p => names'[i] = [name |-> n, handle |-> h]
             /\ i < p => names'[i] = names[i]
             /\ i > p /\ i <= name_count => names'[i] = names[i - 1]
             /\ i > name_count => names'[i] = IF i < name_cap THEN names[i] ELSE NoName
  <2>1. i \in Nat
    BY <1>7
  <2> QED BY <1>3, <1>5, <2>1
<1>10. names' \in [0 .. cap - 1 -> [name : Nat, handle : Nat]]
  <2>1. ASSUME NEW i \in 0 .. cap - 1 PROVE names'[i] \in [name : Nat, handle : Nat]
    <3>1. i \in Nat
      BY <1>7
    <3>2. CASE i = p
      BY <1>2, <1>9, <3>2
    <3>3. CASE i < p
      <4>1. i \in 0 .. name_count - 1
        BY <1>3, <3>1, <3>3
      <4> QED BY <1>8, <1>9, <3>3, <4>1
    <3>4. CASE i > p /\ i <= name_count
      <4>1. i - 1 \in 0 .. name_count - 1
        BY <1>3, <3>1, <3>4
      <4> QED BY <1>8, <1>9, <3>4, <4>1
    <3>5. CASE i > name_count
      <4>1. NoName \in [name : Nat, handle : Nat]
        BY DEF NoName
      <4>2. i < name_cap => names[i] \in [name : Nat, handle : Nat]
        BY <1>6, <3>1
      <4> QED BY <1>9, <3>5, <4>1, <4>2
    <3> QED BY <1>3, <3>1, <3>2, <3>3, <3>4, <3>5
  <2> DEFINE E(i) == CASE i = p -> [name |-> n, handle |-> h]
                       [] i < p -> names[i]
                       [] i > p /\ i <= name_count -> names[i - 1]
                       [] i > p /\ i > name_count -> IF i < name_cap THEN names[i] ELSE NoName
  <2>2. names' = [i \in 0 .. cap - 1 |-> E(i)]
    BY <1>5
  <2> HIDE DEF E
  <2> QED BY <2>1, <2>2
\* The entries of the new array: the old ones and the new one.
<1>11. /\ p \in 0 .. name_count' - 1 /\ names'[p].name = n /\ names'[p].handle = h
       /\ \A i \in 0 .. name_count - 1 : names[i].name # n
  BY <1>3, <1>5, <1>7, <1>8, <1>9
<1>12. ASSUME NEW i \in 0 .. name_count' - 1
       PROVE  /\ i < p => i \in 0 .. name_count - 1 /\ names'[i] = names[i]
              /\ i > p => i - 1 \in 0 .. name_count - 1 /\ ~(i - 1 < p) /\ names'[i] = names[i - 1]
  <2>1. i \in Nat /\ i \in 0 .. cap - 1 /\ i <= name_count
    BY <1>3, <1>5, <1>7
  <2> QED BY <1>3, <1>9, <2>1
<1>13. ASSUME NEW i \in 0 .. name_count - 1
       PROVE  \E j \in 0 .. name_count' - 1 : names'[j] = names[i]
  <2>1. i \in Nat /\ i \in 0 .. name_count' - 1 /\ i + 1 \in 0 .. name_count' - 1 /\ (i + 1) - 1 = i
    BY <1>3, <1>5
  <2>2. CASE i < p
    BY <1>12, <2>1, <2>2
  <2>3. CASE ~(i < p)
    BY <1>3, <1>12, <2>1, <2>3
  <2> QED BY <2>2, <2>3
<1>14. first[n] = 0
  BY <1>11 DEF NameInv
<1>15. first' \in [Name -> Nat] /\ first'[n] = h /\ \A m \in Name : m # n => first'[m] = first[m]
  BY <1>5, <1>6, <1>14
<1>16. ASSUME NEW i \in 0 .. name_count' - 1, NEW j \in 0 .. name_count' - 1, i < j
       PROVE  names'[i].name < names'[j].name
  <2>1. i \in Nat /\ j \in Nat
    BY <1>3, <1>5
  <2>2. CASE j < p
    <3>1. i < p
      BY <1>3, <1>16, <2>1, <2>2
    <3> QED BY <1>12, <1>16, <2>2, <3>1 DEF NameInv
  <2>3. CASE j = p
    BY <1>3, <1>11, <1>12, <1>16, <2>3
  <2>4. CASE j > p
    <3>1. j - 1 \in 0 .. name_count - 1 /\ ~(j - 1 < p) /\ names'[j] = names[j - 1]
      BY <1>12, <2>4
    <3>2. names[j - 1].name > n /\ names[j - 1].name \in Nat
      BY <1>3, <1>8, <3>1
    <3>3. CASE i = p
      BY <1>2, <1>11, <3>1, <3>2, <3>3
    <3>4. CASE i < p
      <4>1. names'[i] = names[i] /\ names[i].name < n /\ names[i].name \in Nat
        BY <1>3, <1>8, <1>12, <3>4
      <4> QED BY <1>2, <3>1, <3>2, <4>1
    <3>5. CASE i > p
      <4>1. i - 1 \in 0 .. name_count - 1 /\ names'[i] = names[i - 1] /\ i - 1 < j - 1
        BY <1>12, <1>16, <2>1, <3>5
      <4> QED BY <3>1, <4>1 DEF NameInv
    <3> QED BY <1>3, <2>1, <3>3, <3>4, <3>5
  <2> QED BY <1>3, <2>1, <2>2, <2>3, <2>4
<1>17. ASSUME NEW i \in 0 .. name_count' - 1
       PROVE  /\ names'[i].name \in Name /\ names'[i].handle # 0
              /\ first'[names'[i].name] = names'[i].handle
  <2>1. CASE i = p
    BY <1>11, <1>15, <2>1
  <2>2. ASSUME NEW k \in 0 .. name_count - 1, names'[i] = names[k]
        PROVE  /\ names'[i].name \in Name /\ names'[i].handle # 0
               /\ first'[names'[i].name] = names'[i].handle
    <3>1. PICK e : e = names[k]
      OBVIOUS
    <3>2. e.name \in Name /\ e.handle # 0 /\ first[e.name] = e.handle /\ e.name # n
      BY <1>11, <2>2, <3>1 DEF NameInv
    <3>3. first'[e.name] = e.handle
      BY <1>15, <3>2
    <3> QED BY <2>2, <3>1, <3>2, <3>3
  <2>3. i \in Nat
    BY <1>3, <1>5
  <2> QED BY <1>3, <1>12, <2>1, <2>2, <2>3
<1>18. ASSUME NEW m \in Name, first'[m] # 0
       PROVE  \E i \in 0 .. name_count' - 1 : names'[i].name = m
  <2>1. CASE m = n
    BY <1>11, <2>1
  <2>2. CASE m # n
    <3>1. PICK i \in 0 .. name_count - 1 : names[i].name = m
      BY <1>15, <1>18, <2>2 DEF NameInv
    <3>2. PICK j \in 0 .. name_count' - 1 : names'[j] = names[i]
      BY <1>13
    <3> QED BY <3>1, <3>2
  <2> QED BY <2>1, <2>2
<1>19. name_cap' \in Nat /\ name_cap' > 0 /\ name_count' \in 0 .. name_cap'
  BY <1>3, <1>5, <1>7
<1>20. names' \in [0 .. name_cap' - 1 -> [name : Nat, handle : Nat]]
  BY <1>5, <1>10
<1> QED BY <1>15, <1>16, <1>17, <1>18, <1>19, <1>20 DEF NameInv

LEMMA NameStepInv ==
    ASSUME NameInv, NEW n \in Name, NEW h \in Nat, h # 0, handle_name(n, h)
    PROVE  NameInv'
<1>1. CASE ~Found(n)
  BY <1>1, InsertInv
<1>2. CASE Found(n)
  <2>1. n \in Nat
    BY HandleAssumption
  <2>2. PICK i \in 0 .. name_count - 1 : names[i].name = n
    BY <1>2, <2>1, SearchIs
  <2>3. first[n] # 0
    BY <2>2 DEF NameInv
  <2>4. UNCHANGED <<names, name_cap, name_count, first>>
    BY <1>2, <2>3 DEF handle_name
  <2> QED BY <2>4 DEF NameInv
<1> QED BY <1>1, <1>2

LEMMA QueryIs == ASSUME NameInv, NEW n \in Name PROVE query_name(n) = first[n]
<1>1. n \in Nat
  BY HandleAssumption
<1>2. CASE Found(n)
  <2>1. Mid(SearchName(n)) \in 0 .. name_count - 1 /\ names[Mid(SearchName(n))].name = n
    BY <1>1, <1>2, SearchIs
  <2> QED BY <1>2, <2>1 DEF query_name, NameInv
<1>3. CASE ~Found(n)
  <2>1. \A i \in 0 .. name_count - 1 : names[i].name \in Nat /\ names[i].name # n
    <3>1. \A i \in 0 .. name_count - 1 :
              IF i < SearchName(n).beg THEN names[i].name < n ELSE names[i].name > n
      BY <1>1, <1>3, SearchIs
    <3>2. \A i \in 0 .. name_count - 1 : names[i].name \in Nat
      BY HandleAssumption DEF NameInv
    <3> QED BY <1>1, <3>1, <3>2
  <2> QED BY <1>3, <2>1 DEF query_name, NameInv
<1> QED BY <1>2, <1>3

-----------------------------------------------------------------------------
\* The inductive invariant of the handle table and of the names.
HandleInv == SlotInv /\ NameInv

LEMMA HandleInitInv == HandleInit => HandleInv
<1> SUFFICES ASSUME HandleInit PROVE HandleInv
  OBVIOUS
<1>1. /\ hCap = CAP /\ slot = [i \in 0 .. CAP - 1 |-> NoSlot] /\ last_id = 0
      /\ names = [i \in 0 .. NAME_CAP - 1 |-> NoName] /\ name_cap = NAME_CAP /\ name_count = 0
      /\ live = {} /\ wiped = {} /\ first = [n \in Name |-> 0]
  BY DEF HandleInit
<1>2. CAP \in Nat /\ CAP > 0 /\ NAME_CAP \in Nat /\ NAME_CAP > 0
  BY HandleAssumption
<1>3. SlotsType(slot, hCap, last_id)
  BY <1>1, <1>2 DEF SlotsType, NoSlot
<1>4. SlotsIn(slot, hCap, live) /\ SlotsKeep(slot, hCap, live \ wiped)
  BY <1>1, <1>2 DEF SlotsIn, SlotsKeep, NoSlot
<1>5. SlotInv
  BY <1>1, <1>2, <1>3, <1>4 DEF SlotInv
<1>6. NameInv
  <2>1. names \in [0 .. name_cap - 1 -> [name : Nat, handle : Nat]]
    BY <1>1, <1>2 DEF NoName
  <2>2. 0 .. name_count - 1 = {} /\ name_count \in 0 .. name_cap
    BY <1>1, <1>2
  <2> QED BY <1>1, <1>2, <2>1, <2>2 DEF NameInv
<1> QED BY <1>5, <1>6 DEF HandleInv

LEMMA HandleStepInv == HandleInv /\ [HandleNext]_handleVars => HandleInv'
<1> SUFFICES ASSUME HandleInv, [HandleNext]_handleVars PROVE HandleInv'
  OBVIOUS
<1>1. CASE UNCHANGED handleVars
  BY <1>1 DEF handleVars, HandleInv, SlotInv, NameInv
<1>2. ASSUME UNCHANGED <<names, name_cap, name_count, first>> PROVE NameInv'
  BY <1>2 DEF HandleInv, NameInv
<1>3. CASE handle_regist
  <2>1. UNCHANGED <<names, name_cap, name_count, first>>
    BY <1>3 DEF handle_regist
  <2> QED BY <1>2, <1>3, <2>1, RegistInv DEF HandleInv
<1>4. ASSUME NEW h \in live, handle_remove_slot(h) PROVE HandleInv'
  <2>1. UNCHANGED <<names, name_cap, name_count, first>>
    BY <1>4 DEF handle_remove_slot
  <2> QED BY <1>2, <1>4, <2>1, RemoveInv DEF HandleInv
<1>5. ASSUME NEW n \in Name, NEW h \in live, handle_name(n, h) PROVE HandleInv'
  <2>1. h \in Nat /\ h # 0
    BY DEF HandleInv, SlotInv
  <2>2. NameInv'
    BY <1>5, <2>1, NameStepInv DEF HandleInv
  <2>3. SlotInv'
    BY <1>5 DEF handle_name, HandleInv, SlotInv
  <2> QED BY <2>2, <2>3 DEF HandleInv
<1> QED BY <1>1, <1>3, <1>4, <1>5 DEF HandleNext

\* The table of handle.c and its names, for every capacity, mask and number of
\* services: expansions and reused slots lose no handle but those they write
\* over, no handle finds a freed service or another one, and the binary search
\* finds every name.
THEOREM HandlesExact == HandleSpec => []HandleExact
<1>1. HandleInv => HandleExact
  <2> SUFFICES ASSUME HandleInv PROVE HandleExact
    OBVIOUS
  <2>1. \A i, j \in 0 .. name_count - 1 : i < j => names[i].name < names[j].name
    BY DEF HandleInv, NameInv
  <2>2. \A n \in Name : query_name(n) = first[n]
    BY QueryIs DEF HandleInv
  <2> QED BY <2>1, <2>2, GrabIs DEF HandleInv, HandleExact
<1>2. HandleSpec => []HandleInv
  BY HandleInitInv, HandleStepInv, PTL DEF HandleSpec
<1> QED BY <1>1, <1>2, PTL

-----------------------------------------------------------------------------
(* The sleeping workers *)

\* The workers whose increment of `sleep' has not been taken back.
Sleepers == {w \in Worker : \/ pc[w] \in {"test", "wait", "wake", "awake"}
                            \/ pc[w] = "done" /\ mutex = w}

\* Who owns watcher.mutex: the worker between its lock and its wait, the one
\* that came out of the wait, the one that ended in between, or the timer
\* thread while it ends the program.
Owner ==
    /\ \A w \in Worker : pc[w] \in {"test", "awake"} => mutex = w
    /\ \A w \in Worker : mutex = w => pc[w] \in {"test", "awake", "done"}
    /\ tpc \in {"quit", "broadcast"} => mutex = Timer

\* A worker that ends at the top of the loop is not counted only because it
\* does not own the mutex: that is why SleepExact needs Owner.
SleepInv == SleepExact /\ Owner

LEMMA SleepersFinite == IsFiniteSet(Sleepers) /\ Cardinality(Sleepers) \in Nat
<1>1. Sleepers \subseteq Worker
  BY DEF Sleepers
<1> QED BY <1>1, WorkersAssumption, FS_Subset, FS_CardinalityType

LEMMA SleepInit == Init => SleepInv
<1> SUFFICES ASSUME Init PROVE SleepInv
  OBVIOUS
<1>1. Sleepers = {}
  BY DEF Init, Sleepers
<1>2. sleep = Cardinality(Sleepers)
  BY <1>1, FS_EmptySet DEF Init
<1>3. TypeOK
  <2>1. waiting = {w \in Worker : pc[w] = "wait"} /\ Q \in Seq(Service)
    BY DEF Init
  <2>2. quit \in BOOLEAN /\ stop \in BOOLEAN /\ sleep \in Nat
    BY DEF Init
  <2> QED BY <2>1, <2>2 DEF Init, TypeOK
<1>4. Owner
  BY WorkersAssumption DEF Init, Owner
<1> QED BY <1>2, <1>3, <1>4 DEF SleepInv, SleepExact, Sleepers

\* A message that reaches a parked service, from whichever thread.
LEMMA ArriveType ==
    ASSUME TypeOK, NEW s \in Service, Arrive(s)
    PROVE  /\ Q' \in Seq(Service)
           /\ svc' \in [Service -> {"parked", "queued", "held", "gone"}]
BY DEF TypeOK, Arrive

\* pthread_cond_signal moves a worker from the wait to the way out of it:
\* the count and the owner stay.
LEMMA SignalKeeps ==
    ASSUME SleepInv, Signal, UNCHANGED <<mutex, sleep, quit, cur, stop, services>>,
           tpc' = tpc \/ tpc' = "update"
    PROVE  SleepInv'
<1>1. CASE waiting = {}
  BY <1>1 DEF SleepInv, SleepExact, TypeOK, Owner, Signal, services
<1>2. ASSUME NEW w \in waiting, waiting' = waiting \ {w}, pc' = [pc EXCEPT ![w] = "wake"]
      PROVE  SleepInv'
  <2>1. w \in Worker /\ pc[w] = "wait"
    BY <1>2 DEF SleepInv, SleepExact, TypeOK
  <2>2. Sleepers' = Sleepers
    BY <1>2, <2>1 DEF SleepInv, SleepExact, TypeOK, Sleepers
  <2>3. TypeOK'
    BY <1>2, <2>1 DEF SleepInv, SleepExact, TypeOK, services
  <2>4. Owner'
    BY <1>2, <2>1 DEF SleepInv, SleepExact, TypeOK, Owner
  <2> QED BY <2>2, <2>3, <2>4 DEF SleepInv, SleepExact, Sleepers
<1> QED BY <1>1, <1>2 DEF Signal

\* The steps of a worker that leave the mutex and the count alone.
LEMMA AwakeKeeps ==
    ASSUME SleepInv, NEW w \in Worker,
           \/ worker_check(w) \/ worker_fetch(w) \/ worker_next(w) \/ worker_keep(w)
           \/ worker_finish(w, "parked") \/ worker_finish(w, "gone")
    PROVE  SleepInv'
<1>0. Q # <<>> => Head(Q) \in Service /\ Tail(Q) \in Seq(Service)
  BY HeadTailProperties DEF SleepInv, SleepExact, TypeOK
<1>1. /\ pc[w] \in {"check", "dispatch", "next"}
      /\ \E to \in {"check", "dispatch", "next", "lock", "done"} : pc' = [pc EXCEPT ![w] = to]
      /\ UNCHANGED <<watcher, tpc, stop>>
  BY DEF worker_check, worker_fetch, worker_next, worker_keep, worker_finish, Fetch, Goto
<1>2. /\ Q' \in Seq(Service)
      /\ svc' \in [Service -> {"parked", "queued", "held", "gone"}]
      /\ cur' \in [Worker -> Service \cup {None}]
  <2>1. CASE worker_check(w)
    BY <2>1 DEF worker_check, services, SleepInv, SleepExact, TypeOK
  <2>2. CASE worker_fetch(w) \/ worker_next(w)
    BY <2>2, <1>0 DEF worker_fetch, worker_next, Fetch, SleepInv, SleepExact, TypeOK
  <2>3. CASE worker_keep(w)
    <3>1. cur[w] \in Service
      BY <2>3 DEF worker_keep, SleepInv, SleepExact, TypeOK
    <3>2. CASE Q = <<>>
      BY <2>3, <3>2 DEF worker_keep, SleepInv, SleepExact, TypeOK
    <3>3. CASE Q # <<>>
      <4>1. Q' = Append(Tail(Q), cur[w]) /\ cur' = [cur EXCEPT ![w] = Head(Q)]
            /\ svc' = [svc EXCEPT ![cur[w]] = "queued", ![Head(Q)] = "held"]
        BY <2>3, <3>3 DEF worker_keep
      <4>2. Q' \in Seq(Service)
        BY <4>1, <3>1, <3>3, <1>0, AppendProperties
      <4> QED BY <4>1, <4>2, <3>3, <1>0 DEF SleepInv, SleepExact, TypeOK
    <3> QED BY <3>2, <3>3
  <2>4. CASE worker_finish(w, "parked") \/ worker_finish(w, "gone")
    BY <2>4 DEF worker_finish, SleepInv, SleepExact, TypeOK
  <2> QED BY <2>1, <2>2, <2>3, <2>4
<1>3. Sleepers' = Sleepers
  BY <1>1 DEF Sleepers, SleepInv, SleepExact, TypeOK, Owner, watcher
<1>4. TypeOK'
  BY <1>1, <1>2, ZenonT(30) DEF SleepInv, SleepExact, TypeOK, watcher
<1>5. Owner'
  BY <1>1 DEF SleepInv, SleepExact, TypeOK, Owner, watcher
<1> QED BY <1>1, <1>3, <1>4, <1>5 DEF SleepInv, SleepExact, Sleepers, watcher

\* The steps of a worker into, in and out of the wait.
LEMMA WaitKeeps ==
    ASSUME SleepInv, NEW w \in Worker,
           \/ worker_lock(w) \/ worker_test(w) \/ worker_spurious(w)
           \/ worker_relock(w) \/ worker_unlock(w)
    PROVE  SleepInv'
<1>0. /\ w # None /\ w # Timer /\ None # Timer /\ None \notin Worker
      /\ TypeOK /\ Owner /\ sleep = Cardinality(Sleepers)
  BY WorkersAssumption DEF SleepInv, SleepExact, Sleepers
<1>1. UNCHANGED <<services, cur, tpc, stop, quit>>
  BY DEF worker_lock, worker_test, worker_spurious, worker_relock, worker_unlock
<1>2. TypeOK' /\ Owner'
  <2>1. Owner'
    <3>1. CASE worker_lock(w)
      BY <1>0, <3>1 DEF worker_lock, Goto, TypeOK, Owner
    <3>2. CASE worker_test(w)
      BY <1>0, <3>2 DEF worker_test, Goto, TypeOK, Owner
    <3>3. CASE worker_spurious(w)
      BY <1>0, <3>3 DEF worker_spurious, Goto, TypeOK, Owner
    <3>4. CASE worker_relock(w)
      BY <1>0, <3>4 DEF worker_relock, Goto, TypeOK, Owner
    <3>5. CASE worker_unlock(w)
      BY <1>0, <3>5 DEF worker_unlock, Goto, TypeOK, Owner
    <3> QED BY <3>1, <3>2, <3>3, <3>4, <3>5
  <2>2. sleep' \in Nat
    <3>1. CASE worker_unlock(w)
      <4>1. w \in Sleepers
        BY <3>1 DEF worker_unlock, Goto, Sleepers
      <4>2. Cardinality(Sleepers \ {w}) = Cardinality(Sleepers) - 1 /\ IsFiniteSet(Sleepers \ {w})
        BY <4>1, SleepersFinite, FS_RemoveElement
      <4> QED BY <3>1, <1>0, <4>2, FS_CardinalityType DEF worker_unlock
    <3> QED BY <3>1, <1>0 DEF worker_lock, worker_test, worker_spurious, worker_relock, TypeOK
  <2>3. TypeOK'
    BY <1>0, <1>1, <2>2
    DEF TypeOK, services, worker_lock, worker_test, worker_spurious, worker_relock,
        worker_unlock, Goto
  <2> QED BY <2>1, <2>3
<1>3. sleep' = Cardinality(Sleepers')
  <2>1. CASE worker_lock(w)
    <3>1. Sleepers' = Sleepers \cup {w} /\ w \notin Sleepers
      BY <1>0, <2>1 DEF worker_lock, Goto, TypeOK, Owner, Sleepers
    <3> QED BY <1>0, <2>1, <3>1, SleepersFinite, FS_AddElement DEF worker_lock
  <2>2. CASE worker_test(w) \/ worker_spurious(w) \/ worker_relock(w)
    <3>1. Sleepers' = Sleepers
      BY <1>0, <2>2 DEF worker_test, worker_spurious, worker_relock, Goto, TypeOK, Owner, Sleepers
    <3> QED BY <1>0, <2>2, <3>1 DEF worker_test, worker_spurious, worker_relock
  <2>3. CASE worker_unlock(w)
    <3>1. Sleepers' = Sleepers \ {w} /\ w \in Sleepers
      BY <1>0, <2>3 DEF worker_unlock, Goto, TypeOK, Owner, Sleepers
    <3> QED BY <1>0, <2>3, <3>1, SleepersFinite, FS_RemoveElement DEF worker_unlock
  <2> QED BY <2>1, <2>2, <2>3
<1> QED BY <1>2, <1>3 DEF SleepInv, SleepExact, Sleepers

\* The timer thread's end of the program.
LEMMA EndKeeps ==
    ASSUME SleepInv, timer_lock \/ timer_quit \/ timer_broadcast
    PROVE  SleepInv'
<1>0. None # Timer /\ None \notin Worker /\ Timer \notin Worker
      /\ TypeOK /\ Owner /\ sleep = Cardinality(Sleepers)
  BY WorkersAssumption DEF SleepInv, SleepExact, Sleepers
<1>1. UNCHANGED <<services, cur, stop, sleep>>
  BY DEF timer_lock, timer_quit, timer_broadcast
<1>2. CASE timer_lock \/ timer_quit
  <2>1. Sleepers' = Sleepers
    BY <1>0, <1>2 DEF timer_lock, timer_quit, Sleepers, TypeOK, Owner
  <2>2. TypeOK'
    BY <1>0, <1>1, <1>2 DEF timer_lock, timer_quit, TypeOK, services
  <2>3. Owner'
    BY <1>0, <1>2 DEF timer_lock, timer_quit, Owner
  <2> QED BY <1>0, <1>1, <2>1, <2>2, <2>3 DEF SleepInv, SleepExact, Sleepers
<1>3. CASE timer_broadcast
  <2>1. Sleepers' = Sleepers
    BY <1>0, <1>3 DEF timer_broadcast, Sleepers, TypeOK, Owner
  <2>2. TypeOK'
    <3>1. waiting' = {w \in Worker : pc'[w] = "wait"}
      BY <1>0, <1>3 DEF timer_broadcast, TypeOK
    <3> QED BY <1>0, <1>1, <1>3, <3>1 DEF timer_broadcast, TypeOK, services
  <2>3. Owner'
    BY <1>0, <1>3 DEF timer_broadcast, Owner, TypeOK
  <2> QED BY <1>0, <1>1, <2>1, <2>2, <2>3 DEF SleepInv, SleepExact, Sleepers
<1> QED BY <1>2, <1>3

\* Every step of every thread keeps the invariant.
LEMMA SleepNext == SleepInv /\ [Next]_vars => SleepInv'
<1> SUFFICES ASSUME SleepInv, [Next]_vars PROVE SleepInv'
  OBVIOUS
<1> USE DEF services, watcher
<1>0. CASE UNCHANGED vars
  BY <1>0 DEF vars, SleepInv, SleepExact, TypeOK, Owner
<1>1. ASSUME NEW w \in Worker, Work(w) \/ worker_spurious(w) PROVE SleepInv'
  BY <1>1, AwakeKeeps, WaitKeeps DEF Work
<1>2. ASSUME NEW w \in Worker, NEW s \in Service, worker_send(w, s) PROVE SleepInv'
  BY <1>2, ArriveType DEF worker_send, SleepInv, SleepExact, TypeOK, Owner
<1>3. CASE timer_update
  BY <1>3, ArriveType DEF timer_update, SleepInv, SleepExact, TypeOK, Owner
<1>4. CASE timer_check \/ timer_exit \/ monitor_loop
  BY <1>4 DEF timer_check, timer_exit, monitor_loop, SleepInv, SleepExact, TypeOK, Owner
<1>5. CASE timer_signal
  <2>1. CASE sleep >= 1
    BY <1>5, <2>1, SignalKeeps DEF timer_signal
  <2> QED BY <1>5, <2>1 DEF timer_signal, SleepInv, SleepExact, TypeOK, Owner
<1>6. CASE timer_lock \/ timer_quit \/ timer_broadcast
  BY <1>6, EndKeeps
<1>7. CASE socket_poll
  BY <1>7, ArriveType DEF socket_poll, SleepInv, SleepExact, TypeOK, Owner
<1>8. CASE socket_signal
  <2>1. CASE sleep >= Cardinality(Worker)
    BY <1>8, <2>1, SignalKeeps DEF socket_signal
  <2> QED BY <1>8, <2>1 DEF socket_signal, SleepInv, SleepExact, TypeOK, Owner
<1> QED BY <1>0, <1>1, <1>2, <1>3, <1>4, <1>5, <1>6, <1>7, <1>8
        DEF Next, TimerLoop, SocketLoop

\* The invariant holds in every reachable state.
THEOREM SleepInvariance == Spec => []SleepInv
BY SleepInit, SleepNext, PTL DEF Spec

\* SleepExact: the socket thread, which signals only when watcher.sleep says
\* that all workers sleep, reads the exact number of workers between their
\* increment and their decrement, plus the one that left the loop in between.
THEOREM SleepCounted == Spec => []SleepExact
<1>1. SleepInv => SleepExact BY DEF SleepInv
<1> QED BY <1>1, SleepInvariance, PTL

-----------------------------------------------------------------------------
(* The timer wheel: numbers *)

LEMMA DivSame ==
    ASSUME NEW x \in Nat, NEW b \in Nat, b > 0, (x + 1) % b # 0
    PROVE  (x + 1) \div b = x \div b
  OBVIOUS

LEMMA DivLater ==
    ASSUME NEW x \in Nat, NEW y \in Nat, NEW b \in Nat, b > 0, (x + 1) % b = 0, y > x
    PROVE  y \div b # x \div b
  OBVIOUS

LEMMA DivClose ==
    ASSUME NEW x \in Nat, NEW y \in Nat, NEW b \in Nat, b > 0, x \div b = y \div b
    PROVE  x - y < b
  OBVIOUS

LEMMA DivModSame ==
    ASSUME NEW x \in Nat, NEW y \in Nat, NEW b \in Nat, b > 0,
           x \div b = y \div b, x % b = y % b
    PROVE  x = y
  OBVIOUS

LEMMA DivTwice ==
    ASSUME NEW x \in Nat, NEW b \in Nat, b > 0, NEW c \in Nat, c > 0
    PROVE  x \div (c * b) = (x \div b) \div c
  OBVIOUS

\* A multiple of c * b is a multiple of b whose quotient is one of c.
LEMMA MultipleUp ==
    ASSUME NEW x \in Nat, NEW b \in Nat, b > 0, NEW c \in Nat, c > 0,
           x % b = 0, (x \div b) % c = 0
    PROVE  x % (c * b) = 0
<1>1. PICK q \in Nat : x = b * q /\ q = x \div b
  OBVIOUS
<1>2. PICK p \in Nat : q = c * p
  BY <1>1
<1>3. x = (c * b) * p
  BY <1>1, <1>2
<1>4. c * b \in Nat /\ c * b > 0
  OBVIOUS
<1>5. PICK d \in Nat : d = c * b
  BY <1>4
<1>6. x = d * p /\ d > 0
  BY <1>3, <1>4, <1>5
<1>7. x % d = 0
  BY <1>6
<1> QED BY <1>5, <1>7

LEMMA MultipleDown ==
    ASSUME NEW x \in Nat, NEW b \in Nat, b > 0, NEW c \in Nat, c > 0, x % (c * b) = 0
    PROVE  x % b = 0 /\ (x \div b) % c = 0
<1>1. c * b \in Nat /\ c * b > 0
  OBVIOUS
<1>2. PICK d \in Nat : d = c * b /\ d > 0
  BY <1>1
<1>3. x % d = 0
  BY <1>2
<1>4. x = d * (x \div d) /\ x \div d \in Nat
  BY <1>2, <1>3
<1>5. PICK p \in Nat : x = d * p
  BY <1>4
<1>6. PICK q \in Nat : q = c * p
  OBVIOUS
<1>7. x = b * q
  BY <1>2, <1>5, <1>6
<1>8. x % b = 0 /\ x \div b = q
  BY <1>7
<1>9. q % c = 0
  BY <1>6
<1> QED BY <1>8, <1>9

-----------------------------------------------------------------------------
(* The widths of the rings *)

LEMMA WidthExists ==
    ASSUME NEW n \in Nat
    PROVE  \E f \in [0 .. n -> Nat] :
              \A i \in 0 .. n : f[i] = IF i = 0 THEN NEAR ELSE LEVEL * f[i - 1]
<1> DEFINE G == [x \in Nat |-> LEVEL * x]
<1>1. G \in [Nat -> Nat] /\ NEAR \in Nat
  BY TimerAssumption
<1>2. \A x \in Nat : G[x] = LEVEL * x
  OBVIOUS
<1> HIDE DEF G
<1>3. PICK f : Iterates(f, n, Nat, NEAR, G)
  BY <1>1, Iterate
<1>4. f \in [0 .. n -> Nat] /\ \A i \in 0 .. n : f[i] = IF i = 0 THEN NEAR ELSE G[f[i - 1]]
  BY <1>3 DEF Iterates
<1>5. \A i \in 0 .. n : i # 0 => f[i - 1] \in Nat
  BY <1>4
<1> QED BY <1>2, <1>4, <1>5

LEMMA WidthIs ==
    /\ Width \in [0 .. LEVELS -> Nat] /\ Width[0] = NEAR
    /\ \A i \in Levels : Width[i + 1] = LEVEL * Width[i]
<1>1. LEVELS \in Nat
  BY TimerAssumption
<1>2. PICK f \in [0 .. LEVELS -> Nat] :
          \A i \in 0 .. LEVELS : f[i] = IF i = 0 THEN NEAR ELSE LEVEL * f[i - 1]
  BY <1>1, WidthExists
<1>3. f = [i \in 0 .. LEVELS |-> IF i = 0 THEN NEAR ELSE LEVEL * f[i - 1]]
  BY <1>2
<1>4. Width = [i \in 0 .. LEVELS |-> IF i = 0 THEN NEAR ELSE LEVEL * Width[i - 1]]
  BY <1>3 DEF Width
<1>5. \A i \in 0 .. LEVELS : Width[i] = IF i = 0 THEN NEAR ELSE LEVEL * Width[i - 1]
  BY <1>4
<1>6. \A i \in Levels : Width[i + 1] = LEVEL * Width[i]
  <2> SUFFICES ASSUME NEW i \in Levels PROVE Width[i + 1] = LEVEL * Width[i]
    OBVIOUS
  <2>1. i + 1 \in 0 .. LEVELS /\ i + 1 # 0 /\ (i + 1) - 1 = i
    BY <1>1 DEF Levels
  <2> QED BY <1>5, <2>1
<1>7. Width[0] = NEAR
  BY <1>1, <1>5
<1> DEFINE S == {i \in Nat : i <= LEVELS => Width[i] \in Nat}
<1>8. 0 \in S
  BY <1>7, TimerAssumption
<1>9. ASSUME NEW i \in S PROVE i + 1 \in S
  <2>1. CASE i + 1 <= LEVELS
    <3>1. i \in Levels /\ i <= LEVELS /\ i \in Nat
      BY <1>1, <2>1 DEF Levels
    <3>2. Width[i] \in Nat
      BY <3>1
    <3>3. LEVEL * Width[i] \in Nat
      BY <3>2, TimerAssumption
    <3> QED BY <1>6, <3>1, <3>3
  <2>2. CASE ~(i + 1 <= LEVELS)
    BY <2>2
  <2> QED BY <2>1, <2>2
<1> HIDE DEF S
<1>10. S = Nat
  <2>1. S \in SUBSET Nat
    BY DEF S
  <2> QED BY <1>8, <1>9, <2>1, Induct
<1>11. \A i \in 0 .. LEVELS : Width[i] \in Nat
  BY <1>1, <1>10 DEF S
<1> QED BY <1>4, <1>6, <1>7, <1>11

\* From ring i up to ring j, one ring at a time.
LEMMA Climb ==
    ASSUME NEW i \in 0 .. LEVELS, NEW j \in i .. LEVELS, NEW P, i \in P,
           \A k \in Levels : i <= k /\ k \in P => k + 1 \in P
    PROVE  j \in P
<1> DEFINE S == {n \in Nat : i + n <= LEVELS => i + n \in P}
<1>1. LEVELS \in Nat /\ i \in Nat /\ j \in Nat /\ i <= j
  BY TimerAssumption
<1>2. 0 \in S
  BY <1>1
<1>3. ASSUME NEW n \in S PROVE n + 1 \in S
  <2>1. n \in Nat /\ (i + n <= LEVELS => i + n \in P)
    OBVIOUS
  <2>2. ASSUME i + (n + 1) <= LEVELS PROVE i + (n + 1) \in P
    <3>1. i + n \in Levels /\ i <= i + n /\ i + n <= LEVELS /\ (i + n) + 1 = i + (n + 1)
      BY <1>1, <2>1, <2>2 DEF Levels
    <3> QED BY <2>1, <3>1
  <2> QED BY <2>1, <2>2
<1> HIDE DEF S
<1>4. S = Nat
  <2>1. S \in SUBSET Nat
    BY DEF S
  <2> QED BY <1>2, <1>3, <2>1, Induct
<1>5. j - i \in S /\ i + (j - i) = j
  BY <1>1, <1>4
<1> QED BY <1>1, <1>5 DEF S

LEMMA WidthPositive == ASSUME NEW j \in 0 .. LEVELS PROVE Width[j] \in Nat /\ Width[j] > 0
<1> DEFINE P == {k \in 0 .. LEVELS : Width[k] > 0}
<1>1. 0 \in P /\ 0 \in 0 .. LEVELS /\ j \in 0 .. LEVELS
  BY WidthIs, TimerAssumption
<1>2. ASSUME NEW k \in Levels, k \in P PROVE k + 1 \in P
  <2>1. k \in 0 .. LEVELS /\ k + 1 \in 0 .. LEVELS
    BY TimerAssumption DEF Levels
  <2>2. PICK w \in Nat : w = Width[k] /\ w > 0
    BY <1>2, <2>1, WidthIs
  <2>3. LEVEL * w > 0
    BY <2>2, TimerAssumption
  <2> QED BY <2>1, <2>2, <2>3, WidthIs
<1> HIDE DEF P
<1>3. j \in P
  BY <1>1, <1>2, Climb
<1> QED BY <1>3, WidthIs DEF P

LEMMA NextWidth ==
    ASSUME NEW k \in Levels
    PROVE  /\ k \in 0 .. LEVELS /\ k + 1 \in 0 .. LEVELS
           /\ Width[k] \in Nat /\ Width[k] > 0 /\ Width[k + 1] \in Nat /\ Width[k + 1] > 0
           /\ Width[k + 1] = LEVEL * Width[k] /\ LEVEL \in Nat /\ LEVEL > 0
<1>1. k \in 0 .. LEVELS /\ k + 1 \in 0 .. LEVELS
  BY TimerAssumption DEF Levels
<1> QED BY <1>1, WidthIs, WidthPositive, TimerAssumption

\* Two ticks in one slot of ring i are in one slot of every ring above.
LEMMA Agree ==
    ASSUME NEW i \in 0 .. LEVELS, NEW j \in i .. LEVELS, NEW x \in Nat, NEW y \in Nat,
           x \div Width[i] = y \div Width[i]
    PROVE  x \div Width[j] = y \div Width[j]
<1> DEFINE P == {k \in 0 .. LEVELS : x \div Width[k] = y \div Width[k]}
<1>1. i \in P
  OBVIOUS
<1>2. ASSUME NEW k \in Levels, k \in P PROVE k + 1 \in P
  <2>1. PICK w \in Nat : w = Width[k] /\ w > 0 /\ Width[k + 1] = LEVEL * w
    BY NextWidth
  <2>2. x \div w = y \div w
    BY <1>2, <2>1
  <2>3. x \div (LEVEL * w) = (x \div w) \div LEVEL /\ y \div (LEVEL * w) = (y \div w) \div LEVEL
    BY <2>1, DivTwice, NextWidth
  <2> QED BY <2>1, <2>2, <2>3, NextWidth
<1> HIDE DEF P
<1>3. j \in P
  BY <1>1, <1>2, Climb
<1> QED BY <1>3 DEF P

\* A tick that does not begin a slot of ring i begins none above.
LEMMA Multiple ==
    ASSUME NEW i \in 0 .. LEVELS, NEW j \in i .. LEVELS, NEW x \in Nat, x % Width[i] # 0
    PROVE  x % Width[j] # 0
<1> DEFINE P == {k \in 0 .. LEVELS : x % Width[k] # 0}
<1>1. i \in P
  OBVIOUS
<1>2. ASSUME NEW k \in Levels, k \in P PROVE k + 1 \in P
  <2>1. PICK w \in Nat : w = Width[k] /\ w > 0 /\ Width[k + 1] = LEVEL * w
    BY NextWidth
  <2>2. x % w # 0
    BY <1>2, <2>1
  <2>3. x % (LEVEL * w) # 0
    BY <2>1, <2>2, MultipleDown, NextWidth
  <2> QED BY <2>1, <2>3, NextWidth
<1> HIDE DEF P
<1>3. j \in P
  BY <1>1, <1>2, Climb
<1> QED BY <1>3 DEF P

\* With zero indexes below, a tick begins a slot of ring j.
LEMMA Begins ==
    ASSUME NEW j \in 0 .. LEVELS, NEW x \in Nat, x % NEAR = 0,
           \A k \in 0 .. j - 1 : Index(k, x) = 0
    PROVE  x % Width[j] = 0
<1> DEFINE P == {k \in 0 .. LEVELS : k <= j => x % Width[k] = 0}
<1>1. 0 \in P /\ 0 \in 0 .. LEVELS /\ j \in 0 .. LEVELS
  BY WidthIs, TimerAssumption
<1>2. ASSUME NEW k \in Levels, k \in P PROVE k + 1 \in P
  <2>1. PICK w \in Nat : w = Width[k] /\ w > 0 /\ Width[k + 1] = LEVEL * w
    BY NextWidth
  <2>2. ASSUME k + 1 <= j PROVE x % (LEVEL * w) = 0
    <3>1. k <= j /\ k \in 0 .. j - 1
      BY <2>2, TimerAssumption DEF Levels
    <3>2. x % w = 0 /\ (x \div w) % LEVEL = 0
      BY <1>2, <2>1, <3>1 DEF Index
    <3> QED BY <2>1, <3>2, MultipleUp, NextWidth
  <2> QED BY <2>1, <2>2, NextWidth
<1> HIDE DEF P
<1>3. j \in P
  BY <1>1, <1>2, Climb
<1> QED BY <1>3 DEF P

\* A slot of a ring is at most half of the wheel.
LEMMA Half == ASSUME NEW i \in Levels PROVE 2 * Width[i] <= W /\ W \in Nat /\ W > 1
<1> DEFINE P == {k \in 0 .. LEVELS : 2 * Width[i] <= Width[k]}
<1>1. i + 1 \in 0 .. LEVELS /\ LEVELS \in i + 1 .. LEVELS /\ i \in Nat
  BY TimerAssumption DEF Levels
<1>2. i + 1 \in P
  <2>1. PICK w \in Nat : w = Width[i] /\ w > 0 /\ Width[i + 1] = LEVEL * w
    BY NextWidth
  <2>2. 2 * w <= LEVEL * w
    BY TimerAssumption
  <2> QED BY <1>1, <2>1, <2>2
<1>3. ASSUME NEW k \in Levels, k \in P PROVE k + 1 \in P
  <2>1. PICK w \in Nat : w = Width[k] /\ w > 0 /\ Width[k + 1] = LEVEL * w
    BY NextWidth
  <2>2. PICK v \in Nat : v = Width[i]
    BY NextWidth
  <2>3. 2 * v <= w
    BY <1>3, <2>1, <2>2
  <2>4. w <= LEVEL * w /\ LEVEL * w \in Nat
    BY TimerAssumption
  <2>5. 2 * v <= LEVEL * w
    BY <2>3, <2>4
  <2> QED BY <2>1, <2>2, <2>5, NextWidth
<1> HIDE DEF P
<1>4. LEVELS \in P
  BY <1>1, <1>2, <1>3, Climb
<1>5. 2 * Width[i] <= W
  BY <1>4 DEF P, W
<1>6. Width[i] \in Nat /\ Width[i] > 0
  BY NextWidth
<1>7. W \in Nat
  BY <1>1, WidthPositive DEF W
<1> QED BY <1>5, <1>6, <1>7

-----------------------------------------------------------------------------
(* The slot of a node *)

\* Slot s is where a node that expires at e belongs at tick now.
Placed(s, e, now) ==
    \/ /\ s[1] = Near /\ s[2] = e % NEAR
       /\ e \div NEAR = now \div NEAR
    \/ /\ s[1] \in Levels /\ s[2] = Index(s[1], e)
       /\ e \div Width[s[1]] # now \div Width[s[1]]
       /\ s[1] # LEVELS - 1 => e \div Width[s[1] + 1] = now \div Width[s[1] + 1]

LEMMA SlotIs ==
    ASSUME NEW s \in Slots
    PROVE  /\ s = <<s[1], s[2]>>
           /\ (s[1] = Near /\ s[2] \in 0 .. NEAR - 1) \/ (s[1] \in Levels /\ s[2] \in 0 .. LEVEL - 1)
  BY DEF Slots

LEMMA NearNoLevel == Near \notin Levels
  BY TimerAssumption DEF Near, Levels

LEMMA IndexType == ASSUME NEW i \in Levels, NEW x \in Nat PROVE Index(i, x) \in 0 .. LEVEL - 1
<1>1. PICK w \in Nat : w = Width[i] /\ w > 0
  BY NextWidth
<1>2. x \div w \in Nat
  BY <1>1
<1>3. (x \div w) % LEVEL \in 0 .. LEVEL - 1
  BY <1>2, TimerAssumption
<1> QED BY <1>1, <1>3 DEF Index

LEMMA RingIs ==
    ASSUME NEW e \in Nat, NEW now \in Nat
    PROVE  LET i == Ring(e, now) IN
           /\ i \in Levels
           /\ i = LEVELS - 1 \/ e \div Width[i + 1] = now \div Width[i + 1]
           /\ \A k \in 0 .. i - 1 : e \div Width[k + 1] # now \div Width[k + 1]
<1> DEFINE S == {i \in Levels : i = LEVELS - 1 \/ e \div Width[i + 1] = now \div Width[i + 1]}
<1>1. LEVELS - 1 \in S /\ S \in SUBSET Nat
  BY TimerAssumption DEF Levels
<1>2. PICK m \in S : \A k \in S : m <= k
  BY <1>1, Least
<1>3. ASSUME NEW k \in 0 .. m - 1 PROVE e \div Width[k + 1] # now \div Width[k + 1]
  <2>1. k \in Levels /\ ~(m <= k)
    BY <1>1 DEF Levels
  <2> QED BY <1>2, <2>1
<1>4. /\ m \in Levels
      /\ m = LEVELS - 1 \/ e \div Width[m + 1] = now \div Width[m + 1]
      /\ \A k \in 0 .. m - 1 : e \div Width[k + 1] # now \div Width[k + 1]
  BY <1>3
<1> HIDE DEF S
<1> QED BY <1>4 DEF Ring

LEMMA SlotPlaced ==
    ASSUME NEW e \in Nat, NEW now \in Nat
    PROVE  Slot(e, now) \in Slots /\ Placed(Slot(e, now), e, now)
<1>1. CASE e \div NEAR = now \div NEAR
  <2>1. Slot(e, now) = <<Near, e % NEAR>>
    BY <1>1 DEF Slot
  <2>2. e % NEAR \in 0 .. NEAR - 1
    BY TimerAssumption
  <2> QED BY <1>1, <2>1, <2>2 DEF Slots, Placed
<1>2. CASE e \div NEAR # now \div NEAR
  <2>1. PICK i : i = Ring(e, now)
    OBVIOUS
  <2>2. /\ i \in Levels
        /\ i = LEVELS - 1 \/ e \div Width[i + 1] = now \div Width[i + 1]
        /\ \A k \in 0 .. i - 1 : e \div Width[k + 1] # now \div Width[k + 1]
    BY <2>1, RingIs
  <2>3. Slot(e, now) = <<i, Index(i, e)>>
    BY <1>2, <2>1 DEF Slot, Index
  <2>4. Index(i, e) \in 0 .. LEVEL - 1
    BY <2>2, IndexType
  <2>5. e \div Width[i] # now \div Width[i]
    <3>1. CASE i = 0
      BY <1>2, <3>1, WidthIs
    <3>2. CASE i # 0
      <4>1. i - 1 \in 0 .. i - 1 /\ (i - 1) + 1 = i
        BY <2>2, <3>2 DEF Levels
      <4> QED BY <2>2, <4>1
    <3> QED BY <3>1, <3>2
  <2> QED BY <2>2, <2>3, <2>4, <2>5 DEF Slots, Placed
<1> QED BY <1>1, <1>2

\* There is one such slot.
LEMMA PlacedOnce ==
    ASSUME NEW e \in Nat, NEW now \in Nat, NEW s \in Slots, NEW r \in Slots,
           Placed(s, e, now), Placed(r, e, now)
    PROVE  s = r
<1>1. s = <<s[1], s[2]>> /\ r = <<r[1], r[2]>>
  BY SlotIs
<1>2. ASSUME NEW i \in Levels, e \div NEAR = now \div NEAR PROVE e \div Width[i] = now \div Width[i]
  <2>1. 0 \in 0 .. LEVELS /\ i \in 0 .. LEVELS
    BY TimerAssumption DEF Levels
  <2> QED BY <1>2, <2>1, Agree, WidthIs
<1>3. ASSUME NEW i \in Levels, NEW j \in Levels, i < j, e \div Width[i + 1] = now \div Width[i + 1]
      PROVE  e \div Width[j] = now \div Width[j]
  <2>1. i + 1 \in 0 .. LEVELS /\ j \in i + 1 .. LEVELS
    BY <1>3, TimerAssumption DEF Levels
  <2> QED BY <1>3, <2>1, Agree
<1>4. \A i, j \in Levels : i < j => i # LEVELS - 1
  BY TimerAssumption DEF Levels
<1>5. CASE s[1] = Near
  <2>1. s[2] = e % NEAR /\ e \div NEAR = now \div NEAR
    BY <1>5, NearNoLevel DEF Placed
  <2>2. r[1] = Near /\ r[2] = e % NEAR
    BY <1>2, <2>1 DEF Placed
  <2> QED BY <1>1, <1>5, <2>1, <2>2
<1>6. CASE s[1] \in Levels
  <2>1. /\ s[2] = Index(s[1], e) /\ e \div Width[s[1]] # now \div Width[s[1]]
        /\ s[1] # LEVELS - 1 => e \div Width[s[1] + 1] = now \div Width[s[1] + 1]
    BY <1>6, NearNoLevel DEF Placed
  <2>2. /\ r[1] \in Levels /\ r[2] = Index(r[1], e) /\ e \div Width[r[1]] # now \div Width[r[1]]
        /\ r[1] # LEVELS - 1 => e \div Width[r[1] + 1] = now \div Width[r[1] + 1]
    BY <1>2, <1>6, <2>1 DEF Placed
  <2>3. ~(s[1] < r[1])
    BY <1>3, <1>4, <1>6, <2>1, <2>2
  <2>4. ~(r[1] < s[1])
    BY <1>3, <1>4, <1>6, <2>1, <2>2
  <2>5. s[1] = r[1]
    BY <1>6, <2>2, <2>3, <2>4 DEF Levels
  <2> QED BY <1>1, <2>1, <2>2, <2>5
<1> QED BY <1>5, <1>6 DEF Placed

\* The slot that a tick at the beginning of a near block spreads.
LEMMA DueIs ==
    ASSUME NEW now \in 0 .. W - 1, now # 0, now % NEAR = 0
    PROVE  \E i \in Levels :
              /\ Due(now) = <<i, Index(i, now)>> /\ Index(i, now) # 0
              /\ \A k \in 0 .. i - 1 : Index(k, now) = 0
<1> DEFINE S == {i \in Levels : Index(i, now) # 0}
<1>1. S \in SUBSET Nat /\ now \in Nat /\ W \in Nat /\ now < W
  BY TimerAssumption, WidthIs DEF Levels, W
<1>2. S # {}
  <2> SUFFICES ASSUME \A i \in Levels : Index(i, now) = 0 PROVE FALSE
    OBVIOUS
  <2>1. LEVELS \in 0 .. LEVELS /\ 0 .. LEVELS - 1 = Levels
    BY TimerAssumption DEF Levels
  <2>2. now % W = 0
    BY <1>1, <2>1, Begins DEF W
  <2> QED BY <1>1, <2>2
<1>3. PICK m \in S : \A k \in S : m <= k
  BY <1>1, <1>2, Least
<1>4. ASSUME NEW k \in 0 .. m - 1 PROVE Index(k, now) = 0
  <2>1. m \in Levels
    OBVIOUS
  <2>2. k \in Levels /\ ~(m <= k)
    BY ONLY <2>1, k \in 0 .. m - 1, TimerAssumption DEF Levels
  <2> QED BY <1>3, <2>2
<1>5. m \in Levels /\ Index(m, now) # 0 /\ \A k \in 0 .. m - 1 : Index(k, now) = 0
  BY <1>4
<1> HIDE DEF S
<1>6. PICK i : i = CHOOSE j \in Levels :
                      Index(j, now) # 0 /\ \A k \in 0 .. j - 1 : Index(k, now) = 0
  OBVIOUS
<1>7. i \in Levels /\ Index(i, now) # 0 /\ \A k \in 0 .. i - 1 : Index(k, now) = 0
  BY <1>5, <1>6
<1>8. Due(now) = <<i, Index(i, now)>>
  BY <1>6 DEF Due
<1> QED BY <1>7, <1>8

-----------------------------------------------------------------------------
(* The timer wheel: the inductive invariant *)

Promised(n) == left[n] # -1 /\ left[n] # W

\* What the ghost counts down to.
Ticks ==
    \A n \in Node : Promised(n) =>
        /\ left[n] \in Nat /\ 2 * left[n] < W
        /\ expire[n] = (time + left[n]) % W

\* A node is in the slot where it belongs now.
InPlace ==
    \A s \in Slots : \A n \in Range(wheel[s]) : Promised(n) => Placed(s, expire[n], time)

\* Every node is in one list, once.
Once ==
    /\ \A n \in Node :
          n \in Pending <=> (\E s \in Slots : n \in Range(wheel[s])) \/ n \in Range(taken)
    /\ \A s \in Slots :
          /\ IsInjective(wheel[s]) /\ Range(wheel[s]) \cap Range(taken) = {}
          /\ \A r \in Slots \ {s} : Range(wheel[s]) \cap Range(wheel[r]) = {}
    /\ IsInjective(taken)

Phases ==
    /\ phase \in {"idle", "execute", "dispatch", "shift", "move", "reexecute", "redispatch"}
    /\ phase \notin {"dispatch", "move", "redispatch"} => taken = <<>>
    /\ phase = "shift" => wheel[<<Near, time % NEAR>>] = <<>>
    /\ phase \in {"dispatch", "redispatch"} => \A n \in Range(taken) : left[n] \in {0, W}

Precedes(l, m, n) == \E j, k \in DOMAIN l : j < k /\ l[j] = m /\ l[k] = n

\* m will be dispatched before n if both expire at the same tick.
Ahead(m, n) ==
    \/ \E s \in Slots : Precedes(wheel[s], m, n)
    \/ Precedes(taken, m, n)
    \/ phase # "move" /\ m \in Range(taken) /\ n \notin Range(taken)
    \/ phase = "move" /\ n \in Range(taken) /\ m \notin Range(taken)

Ordered ==
    \A m, n \in Node :
        <<m, n>> \in before /\ Promised(m) /\ Promised(n) /\ expire[m] = expire[n] => Ahead(m, n)

WheelInv == WheelTypeOK /\ Ticks /\ InPlace /\ Once /\ Phases /\ Ordered

-----------------------------------------------------------------------------
(* The timer wheel: ticks *)

LEMMA WType == W \in Nat /\ W > 1 /\ NEAR \in Nat /\ NEAR > 0 /\ 2 * NEAR <= W
<1>1. 0 \in Levels
  BY TimerAssumption DEF Levels
<1>2. 2 * Width[0] <= W /\ W \in Nat /\ W > 1
  BY <1>1, Half
<1> QED BY <1>2, WidthIs, TimerAssumption

\* What is left of a timeout, by the tick at which it expires.
LEMMA LeftIs ==
    ASSUME NEW w \in Nat, w > 1, NEW x \in 0 .. w - 1, NEW l \in Nat, 2 * l < w,
           NEW e, e = (x + l) % w
    PROVE  /\ e \in 0 .. w - 1
           /\ e = x + l \/ (e = x + l - w /\ x + l >= w)
           /\ e = x <=> l = 0
<1>1. CASE x + l < w
  <2>1. e = x + l
    BY <1>1
  <2> QED BY <1>1, <2>1
<1>2. CASE x + l >= w
  <2>1. e = x + l - w
    BY <1>2
  <2> QED BY <1>2, <2>1
<1> QED BY <1>1, <1>2

\* A tick in the same slot, of at most half of the wheel, has not wrapped.
LEMMA NoWrap ==
    ASSUME NEW w \in Nat, w > 1, NEW x \in 0 .. w - 1, NEW l \in Nat, 2 * l < w,
           NEW e, e = (x + l) % w, NEW b \in Nat, b > 0, 2 * b <= w, e \div b = x \div b
    PROVE  e = x + l
<1>1. /\ e \in Nat /\ x \in Nat
      /\ e = x + l \/ (e = x + l - w /\ x + l >= w)
  <2>1. e \in 0 .. w - 1 /\ (e = x + l \/ (e = x + l - w /\ x + l >= w))
    BY ONLY w \in Nat, w > 1, x \in 0 .. w - 1, l \in Nat, 2 * l < w, e = (x + l) % w, LeftIs
  <2> QED BY ONLY <2>1, x \in 0 .. w - 1, w \in Nat
<1>2. x - e < b
  BY <1>1, DivClose
<1> QED BY <1>1, <1>2

LEMMA TickOf ==
    ASSUME WheelTypeOK, Ticks, NEW n \in Node, Promised(n)
    PROVE  /\ time \in 0 .. W - 1 /\ time \in Nat /\ expire[n] \in 0 .. W - 1 /\ expire[n] \in Nat
           /\ left[n] \in Nat /\ 2 * left[n] < W /\ expire[n] = (time + left[n]) % W
           /\ expire[n] = time <=> left[n] = 0
<1>1. /\ left[n] \in Nat /\ 2 * left[n] < W /\ expire[n] = (time + left[n]) % W
      /\ time \in 0 .. W - 1 /\ time \in Nat
  BY WType DEF Ticks, WheelTypeOK
<1>2. expire[n] \in 0 .. W - 1 /\ (expire[n] = time <=> left[n] = 0)
  <2>1. PICK l \in Nat : l = left[n]
    BY <1>1
  <2>0. PICK e : e = expire[n]
    OBVIOUS
  <2>2. e = (time + l) % W /\ 2 * l < W
    BY <1>1, <2>1, <2>0
  <2>3. e \in 0 .. W - 1 /\ (e = time <=> l = 0)
    <3>1. W \in Nat /\ W > 1 /\ time \in 0 .. W - 1
      BY <1>1, WType
    <3> QED BY ONLY <2>2, <3>1, l \in Nat, LeftIs
  <2> QED BY <2>1, <2>0, <2>3
<1> QED BY <1>1, <1>2, WType

\* The near list of the current tick holds nodes that are due.
LEMMA CurrentDue ==
    ASSUME WheelTypeOK, Ticks, InPlace, NEW n \in Node, Promised(n),
           n \in Range(wheel[<<Near, time % NEAR>>])
    PROVE  left[n] = 0
<1>1. time \in Nat /\ expire[n] \in Nat /\ (expire[n] = time => left[n] = 0)
  BY TickOf
<1>2. PICK s : s = <<Near, time % NEAR>>
  OBVIOUS
<1>3. s \in Slots
  BY <1>1, <1>2, WType DEF Slots
<1>4. Placed(s, expire[n], time)
  BY <1>2, <1>3 DEF InPlace
<1>5. s[1] = Near /\ s[2] = time % NEAR
  BY <1>2
<1>6. time % NEAR = expire[n] % NEAR /\ expire[n] \div NEAR = time \div NEAR
  BY <1>4, <1>5, NearNoLevel DEF Placed
<1>7. expire[n] = time
  BY <1>1, <1>6, WType, DivModSame
<1> QED BY <1>1, <1>7

\* When the tick is passed nothing is due.
LEMMA NothingDue ==
    ASSUME WheelInv, phase = "shift", NEW n \in Pending
    PROVE  left[n] > 0
<1> SUFFICES ASSUME ~(left[n] > 0) PROVE FALSE
  OBVIOUS
<1>1. n \in Node /\ left[n] \in -1 .. W /\ left[n] # -1
  BY DEF WheelInv, WheelTypeOK, Pending
<1>2. left[n] = 0 /\ Promised(n)
  BY <1>1, WType DEF Promised
<1>3. time \in Nat /\ expire[n] = time
  BY <1>1, <1>2, TickOf DEF WheelInv
<1>4. taken = <<>> /\ wheel[<<Near, time % NEAR>>] = <<>>
  BY DEF WheelInv, Phases
<1>5. PICK s \in Slots : n \in Range(wheel[s])
  BY <1>1, <1>4, RangeOfEmpty DEF WheelInv, Once
<1>6. Placed(s, time, time)
  BY <1>2, <1>3, <1>5 DEF WheelInv, InPlace
<1>7. s[1] = Near /\ s[2] = time % NEAR
  BY <1>6 DEF Placed
<1>8. s = <<Near, time % NEAR>>
  BY <1>7, SlotIs
<1> QED BY <1>4, <1>5, <1>8, RangeOfEmpty

\* The next tick: which slots of which rings it begins.
LEMMA TickWithin ==
    ASSUME NEW x \in Nat, x < W, NEW i \in 0 .. LEVELS, (x + 1) % Width[i] # 0,
           NEW j \in i .. LEVELS
    PROVE  (x + 1) \div Width[j] = x \div Width[j]
<1>1. x + 1 \in Nat /\ j \in 0 .. LEVELS
  BY TimerAssumption
<1>2. (x + 1) % Width[j] # 0
  BY <1>1, Multiple
<1>3. Width[j] \in Nat /\ Width[j] > 0
  BY <1>1, WidthPositive
<1> QED BY <1>2, <1>3, DivSame

LEMMA BlockOver ==
    ASSUME NEW x \in 0 .. W - 1, NEW l \in Nat, l > 0, 2 * l < W, NEW e, e = (x + l) % W,
           NEW j \in Levels, (x + 1) % Width[j] = 0
    PROVE  e \div Width[j] # x \div Width[j]
<1> SUFFICES ASSUME e \div Width[j] = x \div Width[j] PROVE FALSE
  OBVIOUS
<1>1. PICK b \in Nat : b = Width[j] /\ b > 0 /\ 2 * b <= W
  BY NextWidth, Half
<1>2. e = x + l
  BY <1>1, WType, NoWrap
<1>3. e > x /\ e \in Nat /\ x \in Nat
  BY <1>2, WType
<1> QED BY <1>1, <1>3, DivLater

\* Passing a tick keeps the nodes in place, but those of the slot to spread.
LEMMA ShiftPlaced ==
    ASSUME NEW x \in 0 .. W - 1, NEW l \in Nat, l > 0, 2 * l < W, NEW e, e = (x + l) % W,
           NEW s \in Slots, Placed(s, e, x), NEW now, now = (x + 1) % W,
           now % NEAR = 0 => s # Due(now)
    PROVE  Placed(s, e, now)
<1>1. x \in Nat /\ x < W /\ e \in Nat /\ LEVELS \in Nat /\ 0 \in Levels /\ 0 \in 0 .. LEVELS
  BY WType, TimerAssumption, LeftIs DEF Levels
<1>2. now = x + 1 \/ (now = 0 /\ x + 1 = W)
  BY <1>1, WType
<1>3. now \in 0 .. W - 1 /\ now \in Nat
  BY <1>1, <1>2, WType
<1>4. CASE now % NEAR # 0
  <2>1. now = x + 1
    BY <1>2, <1>4, WType
  <2>2. (x + 1) % Width[0] # 0
    BY <1>4, <2>1, WidthIs
  <2>3. \A j \in 0 .. LEVELS : now \div Width[j] = x \div Width[j]
    BY <1>1, <2>1, <2>2, TickWithin
  <2>4. now \div NEAR = x \div NEAR
    BY <1>1, <2>3, WidthIs
  <2>5. \A j \in Levels : j \in 0 .. LEVELS /\ j + 1 \in 0 .. LEVELS
    BY NextWidth
  <2> QED BY <2>3, <2>4, <2>5 DEF Placed
<1>5. CASE now = 0 /\ x + 1 = W
  <2>1. now % NEAR = 0
    BY <1>5, WType
  <2>2. s # <<LEVELS - 1, 0>>
    BY <1>5, <2>1 DEF Due
  <2>3. ASSUME NEW j \in 0 .. LEVELS PROVE (x + 1) % Width[j] = 0
    <3>1. LEVELS \in j .. LEVELS /\ x + 1 \in Nat
      BY <1>1
    <3>2. (x + 1) % Width[LEVELS] = 0
      BY <1>5, WType DEF W
    <3> QED BY <3>1, <3>2, Multiple
  <2>4. ASSUME s[1] = Near PROVE FALSE
    <3>1. e \div NEAR = x \div NEAR
      BY <2>4, NearNoLevel DEF Placed
    <3>2. e \div Width[0] # x \div Width[0]
      BY <1>1, <2>3, BlockOver
    <3> QED BY <3>1, <3>2, WidthIs
  <2>5. s[1] \in Levels /\ s[2] = Index(s[1], e)
    BY <2>4 DEF Placed
  <2>6. ASSUME s[1] # LEVELS - 1 PROVE FALSE
    <3>1. s[1] + 1 \in Levels /\ s[1] + 1 \in 0 .. LEVELS
      BY <1>1, <2>5, <2>6 DEF Levels
    <3>2. e \div Width[s[1] + 1] = x \div Width[s[1] + 1]
      BY <2>4, <2>6 DEF Placed
    <3> QED BY <2>3, <3>1, <3>2, BlockOver
  <2>7. s[1] = LEVELS - 1
    BY <2>6
  <2>8. Index(s[1], e) # 0
    BY <2>2, <2>5, <2>7, SlotIs
  <2>9. PICK b \in Nat : b = Width[s[1]] /\ b > 0
    BY <2>5, NextWidth
  <2>10. 0 \div b = 0 /\ 0 % LEVEL = 0
    BY <2>9, TimerAssumption
  <2>11. e \div b # 0
    BY <2>8, <2>9, <2>10 DEF Index
  <2> QED BY <1>5, <2>5, <2>7, <2>9, <2>10, <2>11 DEF Placed
<1>6. CASE now % NEAR = 0 /\ now # 0
  <2>1. now = x + 1
    BY <1>2, <1>6
  <2>2. PICK i \in Levels :
              /\ Due(now) = <<i, Index(i, now)>> /\ Index(i, now) # 0
              /\ \A k \in 0 .. i - 1 : Index(k, now) = 0
    BY <1>3, <1>6, DueIs
  <2>3. i \in Nat /\ i + 1 \in 0 .. LEVELS /\ i \in 0 .. LEVELS
    BY <2>2, TimerAssumption DEF Levels
  <2>4. ASSUME NEW j \in 0 .. i PROVE j \in Levels /\ (x + 1) % Width[j] = 0
    <3>1. j \in Levels /\ j \in 0 .. LEVELS /\ 0 .. j - 1 \subseteq 0 .. i - 1
      BY <2>3, TimerAssumption DEF Levels
    <3>2. now % Width[j] = 0
      BY <1>3, <1>6, <2>2, <3>1, Begins
    <3> QED BY <2>1, <3>1, <3>2
  <2>5. (x + 1) % Width[i + 1] # 0
    <3>1. PICK b \in Nat : b = Width[i] /\ b > 0 /\ Width[i + 1] = LEVEL * b
      BY NextWidth
    <3>2. (now \div b) % LEVEL # 0
      BY <2>2, <3>1 DEF Index
    <3>3. now % (LEVEL * b) # 0
      BY <1>3, <3>1, <3>2, MultipleDown, NextWidth
    <3> QED BY <2>1, <3>1, <3>3
  <2>6. \A j \in i + 1 .. LEVELS : now \div Width[j] = x \div Width[j]
    BY <1>1, <2>1, <2>3, <2>5, TickWithin
  <2>7. ASSUME s[1] = Near PROVE FALSE
    <3>1. e \div NEAR = x \div NEAR
      BY <2>7, NearNoLevel DEF Placed
    <3>2. 0 \in 0 .. i
      BY <2>3
    <3>3. e \div Width[0] # x \div Width[0]
      BY <1>1, <2>4, <3>2, BlockOver
    <3> QED BY <3>1, <3>3, WidthIs
  <2>8. PICK k \in Levels : k = s[1]
    BY <2>7 DEF Placed
  <2>9. /\ s[2] = Index(k, e) /\ e \div Width[k] # x \div Width[k]
        /\ k # LEVELS - 1 => e \div Width[k + 1] = x \div Width[k + 1]
    BY <2>7, <2>8 DEF Placed
  <2>10. k \in Nat /\ k <= LEVELS - 1
    BY <2>8, TimerAssumption DEF Levels
  <2>11. CASE k < i
    <3>1. k + 1 \in 0 .. i /\ k # LEVELS - 1
      BY <2>3, <2>10, <2>11, TimerAssumption
    <3>2. e \div Width[k + 1] # x \div Width[k + 1]
      BY <2>4, <3>1, BlockOver
    <3> QED BY <2>9, <3>1, <3>2
  <2>12. CASE k = i
    <3>1. Index(k, e) # Index(k, now)
      BY <1>6, <2>2, <2>8, <2>9, <2>12, SlotIs
    <3>2. e \div Width[k] # now \div Width[k]
      BY <3>1 DEF Index
    <3>3. k # LEVELS - 1 => now \div Width[k + 1] = x \div Width[k + 1]
      <4>1. k + 1 \in i + 1 .. LEVELS
        BY <2>3, <2>10, <2>12, TimerAssumption
      <4> QED BY <2>6, <4>1
    <3> QED BY <2>8, <2>9, <3>2, <3>3 DEF Placed
  <2>13. CASE k > i
    <3>1. k \in i + 1 .. LEVELS /\ k + 1 \in i + 1 .. LEVELS
      BY <2>3, <2>10, <2>13, TimerAssumption
    <3>2. now \div Width[k] = x \div Width[k] /\ now \div Width[k + 1] = x \div Width[k + 1]
      BY <2>6, <3>1
    <3> QED BY <2>8, <2>9, <3>2 DEF Placed
  <2> QED BY <2>3, <2>10, <2>11, <2>12, <2>13
<1> QED BY <1>2, <1>4, <1>5, <1>6

-----------------------------------------------------------------------------
(* The timer wheel: lists *)

LEMMA PrecedesAppend ==
    ASSUME NEW l \in Seq(Node), NEW x \in Node, NEW m, NEW n
    PROVE  /\ Precedes(l, m, n) => Precedes(Append(l, x), m, n)
           /\ m \in Range(l) => Precedes(Append(l, x), m, x)
<1>1. PICK c \in Nat : c = Len(l) /\ DOMAIN l = 1 .. c
  OBVIOUS
<1>2. PICK a : a = Append(l, x)
  OBVIOUS
<1>3. DOMAIN a = 1 .. c + 1 /\ a[c + 1] = x /\ \A i \in 1 .. c : a[i] = l[i]
  BY <1>1, <1>2
<1>4. \A i \in 1 .. c : i \in 1 .. c + 1 /\ i < c + 1 /\ c + 1 \in 1 .. c + 1
  OBVIOUS
<1>5. Precedes(l, m, n) => Precedes(a, m, n)
  BY <1>1, <1>3, <1>4 DEF Precedes
<1>6. ASSUME m \in Range(l) PROVE Precedes(a, m, x)
  <2>1. PICK i \in 1 .. c : l[i] = m
    BY <1>1, <1>6 DEF Range
  <2> QED BY <1>3, <1>4, <2>1 DEF Precedes
<1> QED BY <1>2, <1>5, <1>6

LEMMA PrecedesTail ==
    ASSUME NEW l \in Seq(Node), l # <<>>, NEW m, NEW n, Precedes(l, m, n)
    PROVE  (m = Head(l) /\ n \in Range(Tail(l))) \/ Precedes(Tail(l), m, n)
<1>1. PICK k \in Nat : k = Len(l) /\ DOMAIN l = 1 .. k
  OBVIOUS
<1>2. k # 0
  BY <1>1
<1>3. PICK c \in Nat : c + 1 = k
  <2>1. k - 1 \in Nat /\ (k - 1) + 1 = k
    BY <1>2
  <2> QED BY <2>1
<1>4. PICK u : u = Tail(l)
  OBVIOUS
<1>5. Head(l) = l[1] /\ DOMAIN u = 1 .. c /\ \A i \in 1 .. c : u[i] = l[i + 1]
  BY <1>1, <1>2, <1>3, <1>4
<1>6. PICK i, j \in 1 .. k : i < j /\ l[i] = m /\ l[j] = n
  BY <1>1 DEF Precedes
<1>7. j - 1 \in 1 .. c /\ (j - 1) + 1 = j
  BY <1>3, <1>6
<1>8. u[j - 1] = n
  BY <1>5, <1>6, <1>7
<1>9. CASE i = 1
  BY <1>4, <1>5, <1>6, <1>7, <1>8, <1>9 DEF Range
<1>10. CASE i # 1
  <2>1. i - 1 \in 1 .. c /\ (i - 1) + 1 = i /\ i - 1 < j - 1
    BY <1>3, <1>6, <1>10
  <2>2. u[i - 1] = m
    BY <1>5, <1>6, <2>1
  <2> QED BY <1>4, <1>5, <1>7, <1>8, <2>1, <2>2 DEF Precedes
<1> QED BY <1>9, <1>10

LEMMA PrecedesIn ==
    ASSUME NEW l, NEW m, NEW n, Precedes(l, m, n)
    PROVE  m \in Range(l) /\ n \in Range(l)
  BY DEF Precedes, Range

\* A node that was in no slot is linked into slot S.
LEMMA LinkOnce ==
    ASSUME WheelTypeOK, Once, NEW S \in Slots, NEW n \in Node, link(S, n),
           \A s \in Slots : n \notin Range(wheel[s]),
           taken' \in Seq(Node), IsInjective(taken'), n \notin Range(taken'),
           Range(taken) \cup {n} = Range(taken') \cup {n}, Pending' = Pending \cup {n}
    PROVE  /\ wheel' \in [Slots -> Seq(Node)] /\ Once'
           /\ wheel'[S] = Append(wheel[S], n) /\ \A s \in Slots \ {S} : wheel'[s] = wheel[s]
           /\ Range(wheel'[S]) = Range(wheel[S]) \cup {n}
<1>1. wheel \in [Slots -> Seq(Node)]
  BY DEF WheelTypeOK
<1>2. wheel'[S] = Append(wheel[S], n) /\ \A s \in Slots \ {S} : wheel'[s] = wheel[s]
  BY <1>1 DEF link
<1>3. PICK l \in Seq(Node) : l = wheel[S]
  BY <1>1
<1>4. Append(l, n) \in Seq(Node) /\ Range(Append(l, n)) = Range(l) \cup {n}
  BY RangeOfAppend
<1>5. IsInjective(Append(l, n))
  <2>1. n \notin Range(l) /\ IsInjective(l)
    BY <1>3 DEF Once
  <2> QED BY <2>1, InjectiveAppend
<1>6. wheel' \in [Slots -> Seq(Node)]
  BY <1>1, <1>3, <1>4 DEF link
<1>7. Range(wheel'[S]) = Range(wheel[S]) \cup {n}
  BY <1>2, <1>3, <1>4
<1>8. \A s \in Slots : IsInjective(wheel'[s])
  BY <1>2, <1>3, <1>5 DEF Once
<1>9. \A m \in Node :
          m \in Pending' <=> (\E s \in Slots : m \in Range(wheel'[s])) \/ m \in Range(taken')
  <2> SUFFICES ASSUME NEW m \in Node
               PROVE  m \in Pending' <=> (\E s \in Slots : m \in Range(wheel'[s])) \/ m \in Range(taken')
    OBVIOUS
  <2>1. CASE m = n
    BY <1>7, <2>1
  <2>2. CASE m # n
    <3>1. \A s \in Slots : m \in Range(wheel'[s]) <=> m \in Range(wheel[s])
      BY <1>2, <1>7, <2>2
    <3>2. m \in Pending <=> (\E s \in Slots : m \in Range(wheel[s])) \/ m \in Range(taken)
      BY DEF Once
    <3> QED BY <2>2, <3>1, <3>2
  <2> QED BY <2>1, <2>2
<1>10. \A s \in Slots :
          /\ Range(wheel'[s]) \cap Range(taken') = {}
          /\ \A r \in Slots \ {s} : Range(wheel'[s]) \cap Range(wheel'[r]) = {}
  <2> SUFFICES ASSUME NEW s \in Slots
               PROVE  /\ Range(wheel'[s]) \cap Range(taken') = {}
                      /\ \A r \in Slots \ {s} : Range(wheel'[s]) \cap Range(wheel'[r]) = {}
    OBVIOUS
  <2>1. \A r \in Slots : Range(wheel'[r]) = IF r = S THEN Range(wheel[r]) \cup {n} ELSE Range(wheel[r])
    BY <1>2, <1>7
  <2>2. \A r \in Slots \ {s} : Range(wheel[s]) \cap Range(wheel[r]) = {}
    BY DEF Once
  <2>3. Range(wheel[s]) \cap Range(taken) = {}
    BY DEF Once
  <2> QED BY <2>1, <2>2, <2>3
<1> QED BY <1>2, <1>6, <1>7, <1>8, <1>9, <1>10 DEF Once

\* The list of slot S is taken.
LEMMA ClearOnce ==
    ASSUME WheelTypeOK, Once, NEW S \in Slots, link_clear(S), taken = <<>>, Pending' = Pending
    PROVE  /\ wheel' \in [Slots -> Seq(Node)] /\ taken' \in Seq(Node) /\ Once'
           /\ taken' = wheel[S] /\ wheel'[S] = <<>> /\ \A s \in Slots \ {S} : wheel'[s] = wheel[s]
<1>1. wheel \in [Slots -> Seq(Node)]
  BY DEF WheelTypeOK
<1>2. taken' = wheel[S] /\ wheel'[S] = <<>> /\ \A s \in Slots \ {S} : wheel'[s] = wheel[s]
  BY <1>1 DEF link_clear
<1>3. wheel' \in [Slots -> Seq(Node)]
  BY <1>1 DEF link_clear
<1>4. IsInjective(<<>>)
  BY DEF IsInjective
<1>5. Range(<<>>) = {}
  BY RangeOfEmpty
<1>6. \A s \in Slots : IsInjective(wheel'[s])
  BY <1>2, <1>4 DEF Once
<1>7. ASSUME NEW m \in Node
      PROVE  m \in Pending' <=> (\E s \in Slots : m \in Range(wheel'[s])) \/ m \in Range(taken')
  <2>1. m \in Pending <=> \E s \in Slots : m \in Range(wheel[s])
    BY <1>5 DEF Once
  <2>2. m \notin Range(wheel'[S]) /\ (m \in Range(taken') <=> m \in Range(wheel[S]))
    BY <1>2, <1>5
  <2>3. \A s \in Slots \ {S} : m \in Range(wheel'[s]) <=> m \in Range(wheel[s])
    BY <1>2
  <2> QED BY <2>1, <2>2, <2>3
<1>8. ASSUME NEW s \in Slots
      PROVE  /\ Range(wheel'[s]) \cap Range(taken') = {}
             /\ \A r \in Slots \ {s} : Range(wheel'[s]) \cap Range(wheel'[r]) = {}
  <2>1. \A r \in Slots : Range(wheel'[r]) = IF r = S THEN {} ELSE Range(wheel[r])
    BY <1>2, <1>5
  <2>2. \A r \in Slots \ {s} : Range(wheel[s]) \cap Range(wheel[r]) = {}
    BY DEF Once
  <2> QED BY <1>2, <2>1, <2>2
<1>9. IsInjective(taken') /\ taken' \in Seq(Node)
  BY <1>1, <1>2 DEF Once
<1> QED BY <1>2, <1>3, <1>6, <1>7, <1>8, <1>9 DEF Once

-----------------------------------------------------------------------------
(* The timer wheel: every step keeps the invariant *)

\* A node is linked where its tick belongs: behind those of the same tick that
\* are in the wheel.
LEMMA LinkOrder ==
    ASSUME WheelTypeOK, InPlace, NEW S \in Slots, NEW n \in Node,
           wheel'[S] = Append(wheel[S], n), \A s \in Slots \ {S} : wheel'[s] = wheel[s],
           NEW e \in Nat, Placed(S, e, time),
           NEW s \in Slots, NEW m \in Range(wheel[s]), Promised(m), expire[m] = e
    PROVE  \E r \in Slots : Precedes(wheel'[r], m, n)
<1>1. time \in Nat /\ wheel[S] \in Seq(Node)
  BY WType DEF WheelTypeOK
<1>2. Placed(s, e, time)
  BY DEF InPlace
<1>3. s = S
  BY <1>1, <1>2, PlacedOnce
<1>4. Precedes(Append(wheel[S], n), m, n)
  BY <1>1, <1>3, PrecedesAppend
<1> QED BY <1>4

LEMMA LinkKeepsOrder ==
    ASSUME WheelTypeOK, NEW S \in Slots, NEW n \in Node,
           wheel'[S] = Append(wheel[S], n), \A s \in Slots \ {S} : wheel'[s] = wheel[s],
           NEW s \in Slots, NEW m, NEW k, Precedes(wheel[s], m, k)
    PROVE  Precedes(wheel'[s], m, k)
<1>1. wheel[S] \in Seq(Node)
  BY DEF WheelTypeOK
<1> QED BY <1>1, PrecedesAppend

LEMMA StartInv == TimerInit => WheelInv
<1> SUFFICES ASSUME TimerInit PROVE WheelInv
  OBVIOUS
<1>1. /\ time = 0 /\ wheel = [s \in Slots |-> <<>>] /\ expire = [n \in Node |-> 0]
      /\ phase = "idle" /\ taken = <<>> /\ left = [n \in Node |-> -1] /\ before = {}
  BY DEF TimerInit
<1>2. Pending = {} /\ \A n \in Node : ~Promised(n)
  BY <1>1 DEF Pending, Promised
<1>3. WheelTypeOK
  <2>1. 0 \in 0 .. W - 1 /\ -1 \in -1 .. W
    BY WType
  <2>2. <<>> \in Seq(Node)
    OBVIOUS
  <2> QED BY <1>1, <1>2, <2>1, <2>2 DEF WheelTypeOK
<1>4. Once
  <2>1. IsInjective(<<>>)
    BY DEF IsInjective
  <2>2. \A s \in Slots : wheel[s] = <<>>
    BY <1>1
  <2> QED BY <1>1, <1>2, <2>1, <2>2, RangeOfEmpty DEF Once
<1>5. Phases
  BY <1>1 DEF Phases
<1>6. Ticks /\ InPlace
  <2>1. \A s \in Slots : Range(wheel[s]) = {}
    BY <1>1, RangeOfEmpty
  <2> QED BY <1>2, <2>1 DEF Ticks, InPlace
<1>7. Ordered
  BY <1>1 DEF Ordered
<1> QED BY <1>3, <1>4, <1>5, <1>6, <1>7 DEF WheelInv

LEMMA StutterInv == WheelInv /\ UNCHANGED timerVars => WheelInv'
  BY DEF WheelInv, timerVars, WheelTypeOK, Pending, Ticks, Promised, InPlace, Once, Phases, Ordered, Ahead

\* The timer thread goes on to its next phase.
LEMMA PhaseInv ==
    ASSUME WheelInv, UNCHANGED <<time, wheel, expire, taken, left, before>>,
           taken = <<>>, phase' \in {"idle", "execute", "shift", "reexecute"},
           phase' = "shift" => wheel[<<Near, time % NEAR>>] = <<>>
    PROVE  WheelInv'
<1>1. WheelTypeOK' /\ Ticks' /\ InPlace' /\ Once'
  BY DEF WheelInv, WheelTypeOK, Pending, Ticks, Promised, InPlace, Once
<1>2. Phases'
  BY DEF WheelInv, Phases
<1>3. Ordered'
  <2> SUFFICES ASSUME NEW m \in Node, NEW n \in Node, Ahead(m, n) PROVE Ahead(m, n)'
    BY DEF WheelInv, Ordered, Promised
  <2>1. \A x : x \notin Range(taken)
    BY RangeOfEmpty
  <2> QED BY <2>1 DEF Ahead
<1> QED BY <1>1, <1>2, <1>3 DEF WheelInv

\* The list of slot S is taken, to be dispatched or to be moved.
LEMMA TakenOrder ==
    ASSUME WheelTypeOK, Ordered, taken = <<>>, NEW S \in Slots, taken' = wheel[S],
           \A s \in Slots \ {S} : wheel'[s] = wheel[s], UNCHANGED <<expire, before>>,
           \A n \in Node : Promised(n)' <=> Promised(n)
    PROVE  Ordered'
<1> SUFFICES ASSUME NEW m \in Node, NEW n \in Node, Ahead(m, n) PROVE Ahead(m, n)'
  BY DEF Ordered
<1>1. \A x : x \notin Range(taken)
  BY RangeOfEmpty
<1>2. ~Precedes(taken, m, n)
  BY <1>1, PrecedesIn
<1>3. PICK s \in Slots : Precedes(wheel[s], m, n)
  BY <1>1, <1>2 DEF Ahead
<1> QED BY <1>3 DEF Ahead

LEMMA UpdateInv == WheelInv /\ _timer_update => WheelInv'
  BY PhaseInv DEF _timer_update, WheelInv, Phases

LEMMA ExecuteInv ==
    ASSUME WheelInv, NEW here, NEW dispatching, NEW done,
           _timer_execute(here, dispatching, done),
           here \in {"execute", "reexecute"}, dispatching \in {"dispatch", "redispatch"},
           done \in {"shift", "idle"}
    PROVE  WheelInv'
<1>1. PICK S : S = <<Near, time % NEAR>>
  OBVIOUS
<1>2. time \in Nat /\ S \in Slots
  <2>1. time \in Nat
    BY WType DEF WheelInv, WheelTypeOK
  <2>2. time % NEAR \in 0 .. NEAR - 1
    BY <2>1, WType
  <2> QED BY <1>1, <2>1, <2>2 DEF Slots
<1>3. /\ phase = here /\ UNCHANGED <<time, expire, left, before>>
      /\ \/ link_clear(S) /\ phase' = dispatching
         \/ wheel[S] = <<>> /\ phase' = done /\ UNCHANGED <<wheel, taken>>
  BY <1>1 DEF _timer_execute
<1>4. taken = <<>>
  BY <1>3 DEF WheelInv, Phases
<1>5. CASE wheel[S] = <<>> /\ phase' = done /\ UNCHANGED <<wheel, taken>>
  BY <1>1, <1>3, <1>4, <1>5, PhaseInv
<1>6. CASE link_clear(S) /\ phase' = dispatching
  <2>1. Pending' = Pending /\ (\A n : Promised(n)' <=> Promised(n))
    BY <1>3 DEF Pending, Promised
  <2>2. /\ wheel' \in [Slots -> Seq(Node)] /\ taken' \in Seq(Node) /\ Once'
        /\ taken' = wheel[S] /\ wheel'[S] = <<>> /\ \A s \in Slots \ {S} : wheel'[s] = wheel[s]
    BY <1>2, <1>4, <1>6, <2>1, ClearOnce DEF WheelInv
  <2>3. WheelTypeOK'
    BY <1>3, <2>1, <2>2 DEF WheelInv, WheelTypeOK
  <2>4. Ticks'
    BY <1>3, <2>1 DEF WheelInv, Ticks
  <2>5. InPlace'
    BY <1>3, <2>1, <2>2, RangeOfEmpty DEF WheelInv, InPlace
  <2>6. ASSUME NEW n \in Range(taken') PROVE left'[n] \in {0, W}
    <3>1. n \in Node /\ n \in Range(wheel[S])
      BY <2>2, <2>6, RangeType
    <3>2. n \in Pending
      BY <1>2, <3>1 DEF WheelInv, Once
    <3>3. Promised(n) => left[n] = 0
      BY <1>1, <3>1, CurrentDue DEF WheelInv
    <3> QED BY <1>3, <3>1, <3>2, <3>3 DEF Pending, Promised
  <2>7. Phases'
    BY <1>6, <2>6 DEF Phases
  <2>8. Ordered'
    BY <1>2, <1>3, <1>4, <2>1, <2>2, TakenOrder DEF WheelInv
  <2> QED BY <2>2, <2>3, <2>4, <2>5, <2>7, <2>8 DEF WheelInv
<1> QED BY <1>3, <1>5, <1>6

LEMMA DispatchInv ==
    ASSUME WheelInv, NEW here, NEW back, _timer_dispatch(here, back),
           here \in {"dispatch", "redispatch"}, back \in {"execute", "reexecute"}
    PROVE  WheelInv'
<1>1. phase = here /\ UNCHANGED <<time, wheel, expire>>
  BY DEF _timer_dispatch
<1>2. CASE taken = <<>> /\ phase' = back /\ UNCHANGED <<taken, left, before>>
  BY <1>1, <1>2, PhaseInv
<1>3. CASE taken # <<>> /\ taken' = Tail(taken) /\ UNCHANGED phase
  <2>1. PICK n : n = Head(taken)
    OBVIOUS
  <2>2. left' = [left EXCEPT ![n] = -1] /\ before' = {b \in before : b[1] # n /\ b[2] # n}
    BY <1>3, <2>1 DEF _timer_dispatch
  <2>3. taken \in Seq(Node) /\ IsInjective(taken) /\ left \in [Node -> -1 .. W]
    BY DEF WheelInv, WheelTypeOK, Once
  <2>4. /\ n \in Node /\ taken' \in Seq(Node) /\ Range(taken) = {n} \cup Range(taken')
        /\ IsInjective(taken') /\ n \notin Range(taken')
    BY <1>3, <2>1, <2>3, RangeOfTail, InjectiveTail
  <2>5. /\ left'[n] = -1 /\ (\A m \in Node \ {n} : left'[m] = left[m])
        /\ left' \in [Node -> -1 .. W] /\ Pending' = Pending \ {n}
    <3>1. /\ left'[n] = -1 /\ (\A m \in Node \ {n} : left'[m] = left[m])
          /\ left' \in [Node -> -1 .. W]
      BY <2>2, <2>3, <2>4, WType
    <3> QED BY <2>4, <3>1 DEF Pending
  <2>6. \A m \in Node : Promised(m)' => m # n /\ Promised(m) /\ left'[m] = left[m]
    BY <2>5 DEF Promised
  <2>7. WheelTypeOK'
    <3>1. before' \subseteq Pending' \X Pending'
      BY <2>2, <2>5 DEF WheelInv, WheelTypeOK
    <3> QED BY <1>1, <2>4, <2>5, <3>1 DEF WheelInv, WheelTypeOK
  <2>8. Ticks'
    BY <1>1, <2>6 DEF WheelInv, Ticks
  <2>9. InPlace'
    <3>1. \A s \in Slots : Range(wheel[s]) \subseteq Node
      BY RangeType DEF WheelInv, WheelTypeOK
    <3> QED BY <1>1, <2>6, <3>1 DEF WheelInv, InPlace
  <2>10. Once'
    <3>1. \A s \in Slots : n \notin Range(wheel[s])
      BY <2>4 DEF WheelInv, Once
    <3>2. ASSUME NEW m \in Node
          PROVE  m \in Pending' <=> (\E s \in Slots : m \in Range(wheel[s])) \/ m \in Range(taken')
      <4>1. m \in Pending <=> (\E s \in Slots : m \in Range(wheel[s])) \/ m \in Range(taken)
        BY DEF WheelInv, Once
      <4> QED BY <2>4, <2>5, <3>1, <4>1
    <3>3. \A s \in Slots : Range(wheel[s]) \cap Range(taken') = {}
      BY <2>4 DEF WheelInv, Once
    <3> QED BY <1>1, <2>4, <3>2, <3>3 DEF WheelInv, Once
  <2>11. Phases'
    <3>1. \A m \in Range(taken') : m # n /\ m \in Node /\ m \in Range(taken)
      BY <2>4, RangeType
    <3> QED BY <1>1, <1>3, <2>5, <3>1 DEF WheelInv, Phases
  <2>12. Ordered'
    <3> SUFFICES ASSUME NEW m \in Node, NEW k \in Node, m # n, k # n, Ahead(m, k)
                 PROVE  Ahead(m, k)'
      <4>1. \A m, k \in Node : <<m, k>> \in before' => <<m, k>> \in before /\ m # n /\ k # n
        BY <2>2
      <4> QED BY <1>1, <2>6, <4>1 DEF WheelInv, Ordered
    <3>1. phase # "move" /\ phase' # "move"
      BY <1>1, <1>3
    <3>2. CASE Precedes(taken, m, k)
      BY <1>3, <2>1, <2>3, <3>2, PrecedesTail DEF Ahead
    <3> QED BY <1>1, <1>3, <2>4, <3>1, <3>2 DEF Ahead
  <2> QED BY <2>7, <2>8, <2>9, <2>10, <2>11, <2>12 DEF WheelInv
<1> QED BY <1>2, <1>3 DEF _timer_dispatch

LEMMA MoveInv == ASSUME WheelInv, _timer_move_list PROVE WheelInv'
<1>1. phase = "move" /\ UNCHANGED <<time, expire, left, before>>
  BY DEF _timer_move_list
<1>2. CASE taken = <<>> /\ phase' = "reexecute" /\ UNCHANGED <<wheel, taken>>
  BY <1>1, <1>2, PhaseInv
<1>3. CASE taken # <<>> /\ taken' = Tail(taken) /\ UNCHANGED phase
  <2>1. PICK n : n = Head(taken)
    OBVIOUS
  <2>2. PICK S : S = Slot(expire[n], time)
    OBVIOUS
  <2>3. link(S, n)
    BY <1>3, <2>1, <2>2 DEF _timer_move_list
  <2>4. taken \in Seq(Node) /\ IsInjective(taken)
    BY DEF WheelInv, WheelTypeOK, Once
  <2>5. /\ n \in Node /\ taken' \in Seq(Node) /\ Range(taken) = {n} \cup Range(taken')
        /\ IsInjective(taken') /\ n \notin Range(taken')
    BY <1>3, <2>1, <2>4, RangeOfTail, InjectiveTail
  <2>6. time \in Nat /\ expire[n] \in Nat
    BY <2>5, WType DEF WheelInv, WheelTypeOK
  <2>7. S \in Slots /\ Placed(S, expire[n], time)
    BY <2>2, <2>6, SlotPlaced
  <2>8. Pending' = Pending /\ n \in Pending /\ (\A m : Promised(m)' <=> Promised(m))
    BY <1>1, <2>5 DEF Pending, Promised, WheelInv, Once
  <2>9. \A s \in Slots : n \notin Range(wheel[s])
    BY <2>5 DEF WheelInv, Once
  <2>10. /\ wheel' \in [Slots -> Seq(Node)] /\ Once'
         /\ wheel'[S] = Append(wheel[S], n) /\ \A s \in Slots \ {S} : wheel'[s] = wheel[s]
         /\ Range(wheel'[S]) = Range(wheel[S]) \cup {n}
    <3>1. Pending' = Pending \cup {n} /\ Range(taken) \cup {n} = Range(taken') \cup {n}
      BY <2>5, <2>8
    <3> QED BY <2>3, <2>5, <2>7, <2>9, <3>1, LinkOnce DEF WheelInv
  <2>11. WheelTypeOK'
    BY <1>1, <2>5, <2>8, <2>10 DEF WheelInv, WheelTypeOK
  <2>12. Ticks'
    BY <1>1, <2>8 DEF WheelInv, Ticks
  <2>13. InPlace'
    BY <1>1, <2>7, <2>8, <2>10 DEF WheelInv, InPlace
  <2>14. Phases'
    BY <1>1, <1>3 DEF WheelInv, Phases
  <2>15. Ordered'
    <3> SUFFICES ASSUME NEW m \in Node, NEW k \in Node, <<m, k>> \in before, Promised(m), Promised(k),
                        expire[m] = expire[k], Ahead(m, k)
                 PROVE  Ahead(m, k)'
      BY <1>1, <2>8 DEF WheelInv, Ordered
    <3>1. phase' = "move"
      BY <1>1, <1>3
    <3>2. CASE \E s \in Slots : Precedes(wheel[s], m, k)
      <4>1. PICK s \in Slots : Precedes(wheel[s], m, k)
        BY <3>2
      <4>2. Precedes(wheel'[s], m, k)
        BY <2>5, <2>7, <2>10, <4>1, LinkKeepsOrder DEF WheelInv
      <4> QED BY <4>2 DEF Ahead
    <3>3. CASE Precedes(taken, m, k)
      <4>1. (m = n /\ k \in Range(taken')) \/ Precedes(taken', m, k)
        BY <1>3, <2>1, <2>4, <3>3, PrecedesTail
      <4> QED BY <2>5, <3>1, <4>1 DEF Ahead
    <3>4. CASE k \in Range(taken) /\ m \notin Range(taken)
      <4>1. CASE k # n
        BY <2>5, <3>1, <3>4, <4>1 DEF Ahead
      <4>2. CASE k = n
        <5>1. m \in Pending
          BY DEF WheelInv, WheelTypeOK
        <5>2. PICK s \in Slots : m \in Range(wheel[s])
          BY <3>4, <5>1 DEF WheelInv, Once
        <5>3. PICK r \in Slots : Precedes(wheel'[r], m, n)
          BY <2>5, <2>6, <2>7, <2>10, <4>2, <5>2, LinkOrder DEF WheelInv
        <5> QED BY <4>2, <5>3 DEF Ahead
      <4> QED BY <4>1, <4>2
    <3> QED BY <1>1, <3>2, <3>3, <3>4 DEF Ahead
  <2> QED BY <2>10, <2>11, <2>12, <2>13, <2>14, <2>15 DEF WheelInv
<1> QED BY <1>2, <1>3 DEF _timer_move_list

LEMMA TimeoutInv ==
    ASSUME WheelInv, NEW n \in Node, NEW ti \in -(W \div 2) .. W \div 2 - 1, timer_timeout(n, ti)
    PROVE  WheelInv'
<1>1. PICK e : e = (time + ti) % W
  OBVIOUS
<1>2. PICK S : S = Slot(e, time)
  OBVIOUS
<1>3. /\ phase \in {"idle", "dispatch", "redispatch"} /\ n \notin Pending
      /\ expire' = [expire EXCEPT ![n] = e] /\ link(S, n)
      /\ left' = [left EXCEPT ![n] = IF ti < 0 THEN W ELSE ti]
      /\ before' = before \cup (Pending \X {n}) /\ UNCHANGED <<time, phase, taken>>
  BY <1>1, <1>2 DEF timer_timeout
<1>4. /\ time \in 0 .. W - 1 /\ time \in Nat /\ taken \in Seq(Node) /\ expire \in [Node -> 0 .. W - 1]
      /\ left \in [Node -> -1 .. W] /\ wheel \in [Slots -> Seq(Node)] /\ W \in Nat /\ W > 1
  BY WType DEF WheelInv, WheelTypeOK
<1>5. ti \in Int /\ 2 * ti < W
  <2>1. PICK h \in Nat : h = W \div 2 /\ 2 * h <= W
    BY <1>4
  <2> QED BY <2>1, <1>4
<1>6. e \in 0 .. W - 1 /\ e \in Nat
  BY <1>1, <1>4, <1>5
<1>7. S \in Slots /\ Placed(S, e, time)
  BY <1>2, <1>4, <1>6, SlotPlaced
<1>8. /\ expire'[n] = e /\ (\A m \in Node \ {n} : expire'[m] = expire[m])
      /\ expire' \in [Node -> 0 .. W - 1]
  BY <1>3, <1>4, <1>6
<1>9. /\ left'[n] = IF ti < 0 THEN W ELSE ti
      /\ \A m \in Node \ {n} : left'[m] = left[m]
      /\ left' \in [Node -> -1 .. W] /\ left'[n] # -1
  <2>1. PICK x : x = IF ti < 0 THEN W ELSE ti
    OBVIOUS
  <2>2. x \in -1 .. W /\ x # -1
    BY <1>4, <1>5, <2>1
  <2> QED BY <1>3, <1>4, <2>1, <2>2
<1>10. Pending' = Pending \cup {n} /\ \A m \in Node \ {n} : Promised(m)' <=> Promised(m)
  BY <1>9 DEF Pending, Promised
<1>11. n \notin Range(taken) /\ \A s \in Slots : n \notin Range(wheel[s])
  BY <1>3 DEF WheelInv, Once
<1>12. /\ wheel' \in [Slots -> Seq(Node)] /\ Once'
       /\ wheel'[S] = Append(wheel[S], n) /\ \A s \in Slots \ {S} : wheel'[s] = wheel[s]
       /\ Range(wheel'[S]) = Range(wheel[S]) \cup {n}
  <2>1. taken' \in Seq(Node) /\ IsInjective(taken') /\ taken' = taken
    BY <1>3, <1>4 DEF WheelInv, Once
  <2> QED BY <1>3, <1>7, <1>10, <1>11, <2>1, LinkOnce DEF WheelInv
<1>13. WheelTypeOK'
  <2>1. before' \subseteq Pending' \X Pending'
    BY <1>3, <1>10 DEF WheelInv, WheelTypeOK
  <2> QED BY <1>3, <1>4, <1>8, <1>9, <1>12, <2>1 DEF WheelTypeOK
<1>14. Ticks'
  <2> SUFFICES ASSUME NEW m \in Node, Promised(m)'
               PROVE  /\ left'[m] \in Nat /\ 2 * left'[m] < W
                      /\ expire'[m] = (time + left'[m]) % W
    BY <1>3 DEF Ticks
  <2>1. CASE m = n
    BY <1>1, <1>5, <1>8, <1>9, <2>1 DEF Promised
  <2>2. CASE m # n
    BY <1>8, <1>9, <1>10, <2>2 DEF WheelInv, Ticks
  <2> QED BY <2>1, <2>2
<1>15. InPlace'
  <2> SUFFICES ASSUME NEW s \in Slots, NEW m \in Range(wheel'[s]), Promised(m)'
               PROVE  Placed(s, expire'[m], time)
    BY <1>3 DEF InPlace
  <2>1. m \in Node
    BY <1>12, RangeType
  <2>2. CASE m = n
    <3>1. s = S
      BY <1>11, <1>12, <2>2
    <3> QED BY <1>7, <1>8, <2>2, <3>1
  <2>3. CASE m # n
    <3>1. m \in Range(wheel[s]) /\ Promised(m)
      BY <1>10, <1>12, <2>1, <2>3
    <3> QED BY <1>8, <2>1, <2>3, <3>1 DEF WheelInv, InPlace
  <2> QED BY <2>2, <2>3
<1>16. Phases'
  <2>1. \A m \in Range(taken) : m \in Node \ {n}
    BY <1>4, <1>11, RangeType
  <2> QED BY <1>3, <1>9, <2>1 DEF WheelInv, Phases
<1>17. Ordered'
  <2> SUFFICES ASSUME NEW m \in Node, NEW k \in Node, <<m, k>> \in before', Promised(m)', Promised(k)',
                      expire'[m] = expire'[k]
               PROVE  Ahead(m, k)'
    BY DEF Ordered
  <2>1. phase # "move" /\ phase' # "move" /\ taken' = taken
    BY <1>3
  <2>2. CASE <<m, k>> \in before
    <3>1. m # n /\ k # n
      BY <1>3, <2>2 DEF WheelInv, WheelTypeOK
    <3>2. Ahead(m, k)
      BY <1>8, <1>10, <2>2, <3>1 DEF WheelInv, Ordered
    <3>3. CASE \E s \in Slots : Precedes(wheel[s], m, k)
      <4>1. PICK s \in Slots : Precedes(wheel[s], m, k)
        BY <3>3
      <4>2. Precedes(wheel'[s], m, k)
        BY <1>7, <1>12, <4>1, LinkKeepsOrder DEF WheelInv
      <4> QED BY <4>2 DEF Ahead
    <3> QED BY <2>1, <3>2, <3>3 DEF Ahead
  <2>3. CASE m \in Pending /\ k = n
    <3>1. m # n
      BY <1>3, <2>3
    <3>2. Promised(m) /\ expire[m] = e
      BY <1>8, <1>10, <2>3, <3>1
    <3>3. CASE m \in Range(taken)
      BY <1>11, <2>1, <2>3, <3>3 DEF Ahead
    <3>4. CASE m \notin Range(taken)
      <4>1. PICK s \in Slots : m \in Range(wheel[s])
        BY <2>3, <3>4 DEF WheelInv, Once
      <4>2. PICK r \in Slots : Precedes(wheel'[r], m, n)
        BY <1>6, <1>7, <1>12, <3>2, <4>1, LinkOrder DEF WheelInv
      <4> QED BY <2>3, <4>2 DEF Ahead
    <3> QED BY <3>3, <3>4
  <2> QED BY <1>3, <2>2, <2>3
<1> QED BY <1>12, <1>13, <1>14, <1>15, <1>16, <1>17 DEF WheelInv

\* The countdown goes on with the clock.
LEMMA CountDown ==
    ASSUME NEW w \in Nat, w > 1, NEW x \in 0 .. w - 1, NEW l \in Nat, l > 0, 2 * l < w,
           NEW now, now = (x + 1) % w
    PROVE  (now + (l - 1)) % w = (x + l) % w
<1>1. CASE x + 1 < w
  <2>1. now = x + 1
    BY <1>1
  <2> QED BY <2>1
<1>2. CASE x + 1 >= w
  <2>1. now = 0 /\ x + 1 = w
    BY <1>2
  <2>2. x + l >= w /\ x + l < w + w /\ x + l - w = l - 1
    BY <2>1
  <2>3. (x + l) % w = l - 1 /\ (l - 1) % w = l - 1
    BY <2>2
  <2> QED BY <2>1, <2>3
<1> QED BY <1>1, <1>2

LEMMA ShiftInv == ASSUME WheelInv, _timer_shift PROVE WheelInv'
<1>1. PICK now : now = (time + 1) % W
  OBVIOUS
<1>2. /\ phase = "shift" /\ time' = now /\ UNCHANGED <<expire, before>>
      /\ \/ now % NEAR # 0 /\ phase' = "reexecute" /\ UNCHANGED <<wheel, taken>>
         \/ now % NEAR = 0 /\ phase' = "move" /\ link_clear(Due(now))
      /\ left' = [n \in Node |-> IF left[n] \in {-1, W} THEN left[n] ELSE left[n] - 1]
  BY <1>1 DEF _timer_shift
<1>3. /\ time \in 0 .. W - 1 /\ time \in Nat /\ taken \in Seq(Node)
      /\ left \in [Node -> -1 .. W] /\ wheel \in [Slots -> Seq(Node)] /\ W \in Nat /\ W > 1
  BY WType DEF WheelInv, WheelTypeOK
<1>4. now \in 0 .. W - 1 /\ now \in Nat
  BY <1>1, <1>3
<1>5. taken = <<>>
  BY <1>2 DEF WheelInv, Phases
<1>6. ASSUME NEW n \in Node, Promised(n)
      PROVE  /\ left[n] \in Nat /\ left[n] > 0 /\ 2 * left[n] < W /\ left'[n] = left[n] - 1
             /\ expire[n] = (time + left[n]) % W
  <2>1. /\ left[n] \in Nat /\ 2 * left[n] < W /\ expire[n] = (time + left[n]) % W
    BY <1>6, TickOf DEF WheelInv
  <2>2. n \in Pending
    BY <1>6 DEF Promised, Pending
  <2>3. left[n] > 0
    BY <1>2, <2>2, NothingDue
  <2> QED BY <1>2, <1>6, <2>1, <2>3 DEF Promised
<1>7. ASSUME NEW n \in Node, ~Promised(n) PROVE left'[n] = left[n]
  BY <1>2, <1>7 DEF Promised
<1>8. \A n \in Node : /\ Promised(n)' <=> Promised(n)
                      /\ left'[n] = -1 <=> left[n] = -1
  BY <1>3, <1>6, <1>7 DEF Promised
<1>9. left' \in [Node -> -1 .. W]
  <2>1. ASSUME NEW n \in Node PROVE left'[n] \in -1 .. W
    <3>1. left[n] \in -1 .. W
      BY <1>3
    <3>2. CASE Promised(n)
      <4>1. PICK l \in Nat : l = left[n] /\ l > 0 /\ left'[n] = l - 1
        BY <1>6, <3>2
      <4> QED BY <1>3, <3>1, <4>1
    <3>3. CASE ~Promised(n)
      BY <1>7, <3>1, <3>3
    <3> QED BY <3>2, <3>3
  <2> QED BY <1>2, <2>1
<1>10. Pending' = Pending
  BY <1>8 DEF Pending
<1>11. ASSUME NEW n \in Node, Promised(n)
       PROVE  /\ left'[n] \in Nat /\ 2 * left'[n] < W /\ expire'[n] = (time' + left'[n]) % W
  <2>1. PICK l \in Nat : l = left[n] /\ l > 0 /\ 2 * l < W /\ left'[n] = l - 1 /\ expire[n] = (time + l) % W
    BY <1>6, <1>11
  <2>2. (now + (l - 1)) % W = (time + l) % W
    BY ONLY <1>1, <1>3, <2>1, CountDown
  <2>3. l - 1 \in Nat /\ 2 * (l - 1) < W
    <3>1. l > 0 /\ 2 * l < W /\ W \in Nat
      BY <1>3, <2>1
    <3> QED BY ONLY <3>1, l \in Nat
  <2>4. time' + left'[n] = now + (l - 1) /\ expire'[n] = expire[n]
    BY <1>2, <2>1
  <2> QED BY <2>1, <2>2, <2>3, <2>4
<1>12. Ticks'
  BY <1>8, <1>11 DEF Ticks
<1>13. ASSUME NEW s \in Slots, NEW n \in Range(wheel[s]), Promised(n), now % NEAR = 0 => s # Due(now)
       PROVE  Placed(s, expire[n], now)
  <2>1. n \in Node
    BY <1>3, RangeType
  <2>2. PICK l \in Nat : l = left[n] /\ l > 0 /\ 2 * l < W /\ expire[n] = (time + l) % W
    BY <1>6, <1>13, <2>1
  <2>3. Placed(s, expire[n], time)
    BY <1>13 DEF WheelInv, InPlace
  <2> QED BY <1>1, <1>3, <1>13, <2>2, <2>3, ShiftPlaced
<1>14. \A s \in Slots : \A n \in Range(wheel[s]) : n \in Node
  BY <1>3, RangeType
<1>15. CASE now % NEAR # 0 /\ phase' = "reexecute" /\ UNCHANGED <<wheel, taken>>
  <2>1. WheelTypeOK'
    BY <1>2, <1>4, <1>9, <1>10, <1>15 DEF WheelInv, WheelTypeOK
  <2>2. InPlace'
    BY <1>2, <1>8, <1>13, <1>14, <1>15 DEF InPlace
  <2>3. Once'
    BY <1>10, <1>15 DEF WheelInv, Once
  <2>4. Phases'
    BY <1>5, <1>15 DEF Phases
  <2>5. Ordered'
    <3> SUFFICES ASSUME NEW m \in Node, NEW n \in Node, Ahead(m, n) PROVE Ahead(m, n)'
      BY <1>2, <1>8 DEF WheelInv, Ordered
    <3>1. \A x : x \notin Range(taken)
      BY <1>5, RangeOfEmpty
    <3> QED BY <1>15, <3>1 DEF Ahead
  <2> QED BY <1>12, <2>1, <2>2, <2>3, <2>4, <2>5 DEF WheelInv
<1>16. CASE now % NEAR = 0 /\ phase' = "move" /\ link_clear(Due(now))
  <2>1. PICK S : S = Due(now)
    OBVIOUS
  <2>2. S \in Slots
    <3>1. CASE now = 0
      <4>1. LEVELS - 1 \in Levels /\ 0 \in 0 .. LEVEL - 1
        BY TimerAssumption DEF Levels
      <4> QED BY <2>1, <3>1, <4>1 DEF Due, Slots
    <3>2. CASE now # 0
      <4>1. PICK i \in Levels : Due(now) = <<i, Index(i, now)>>
        BY <1>4, <1>16, <3>2, DueIs
      <4> QED BY <1>4, <2>1, <4>1, IndexType DEF Slots
    <3> QED BY <3>1, <3>2
  <2>3. /\ wheel' \in [Slots -> Seq(Node)] /\ taken' \in Seq(Node) /\ Once'
        /\ taken' = wheel[S] /\ wheel'[S] = <<>> /\ \A s \in Slots \ {S} : wheel'[s] = wheel[s]
    BY <1>5, <1>10, <1>16, <2>1, <2>2, ClearOnce DEF WheelInv
  <2>4. WheelTypeOK'
    BY <1>2, <1>4, <1>9, <1>10, <2>3 DEF WheelInv, WheelTypeOK
  <2>5. InPlace'
    <3> SUFFICES ASSUME NEW s \in Slots, NEW n \in Range(wheel'[s]), Promised(n)'
                 PROVE  Placed(s, expire[n], now)
      BY <1>2 DEF InPlace
    <3>1. s # S /\ n \in Range(wheel[s])
      BY <2>3, RangeOfEmpty
    <3> QED BY <1>8, <1>13, <1>14, <2>1, <3>1
  <2>6. Phases'
    BY <1>16 DEF Phases
  <2>7. Ordered'
    BY <1>2, <1>5, <1>8, <2>2, <2>3, TakenOrder DEF WheelInv
  <2> QED BY <1>12, <2>3, <2>4, <2>5, <2>6, <2>7 DEF WheelInv
<1> QED BY <1>2, <1>15, <1>16

LEMMA StepInv == WheelInv /\ [TimerNext]_timerVars => WheelInv'
<1> SUFFICES ASSUME WheelInv, [TimerNext]_timerVars PROVE WheelInv'
  OBVIOUS
<1>1. CASE UNCHANGED timerVars
  BY <1>1, StutterInv
<1>2. CASE TimerThread
  <2>1. CASE _timer_update
    BY <2>1, UpdateInv
  <2>2. CASE _timer_execute("execute", "dispatch", "shift")
    BY <2>2, ExecuteInv
  <2>3. CASE _timer_dispatch("dispatch", "execute")
    BY <2>3, DispatchInv
  <2>4. CASE _timer_shift
    BY <2>4, ShiftInv
  <2>5. CASE _timer_move_list
    BY <2>5, MoveInv
  <2>6. CASE _timer_execute("reexecute", "redispatch", "idle")
    BY <2>6, ExecuteInv
  <2>7. CASE _timer_dispatch("redispatch", "reexecute")
    BY <2>7, DispatchInv
  <2> QED BY <1>2, <2>1, <2>2, <2>3, <2>4, <2>5, <2>6, <2>7 DEF TimerThread
<1>3. ASSUME NEW n \in Node, NEW ti \in -(W \div 2) .. W \div 2 - 1, timer_timeout(n, ti)
      PROVE  WheelInv'
  BY <1>3, TimeoutInv
<1> QED BY <1>1, <1>2, <1>3 DEF TimerNext

\* The inductive invariant of the timing wheel of timer.c.
THEOREM WheelCorrect == TimerSpec => []WheelInv
  BY StartInv, StepInv, PTL DEF TimerSpec

\* The wheel fires every node exactly at its tick, for every number and size
\* of the rings of timer.c and through the wrap-around of T.time.
THEOREM FiresOnTick == TimerSpec => []ExactTick
<1>1. WheelInv => ExactTick
  BY NothingDue DEF WheelInv, Phases, ExactTick
<1> QED BY <1>1, WheelCorrect, PTL

\* Adding, cascading and dispatching (timer.c:76-166) lose no node and link
\* none twice.
THEOREM NodesOnce == TimerSpec => []NodeOnce
<1>1. WheelInv => NodeOnce
  BY DEF WheelInv, Once, NodeOnce
<1> QED BY <1>1, WheelCorrect, PTL

\* Only a dispatch frees a node, and it frees the head of the list it took.
LEMMA FreedBy ==
    ASSUME WheelInv, [TimerNext]_timerVars, NEW n \in Pending, left'[n] = -1
    PROVE  phase \in {"dispatch", "redispatch"} /\ taken # <<>> /\ n = Head(taken)
<1>1. n \in Node /\ left[n] # -1 /\ left \in [Node -> -1 .. W] /\ W \in Nat
  BY WType DEF Pending, WheelInv, WheelTypeOK
<1>2. ASSUME NEW here, NEW back, _timer_dispatch(here, back) PROVE taken # <<>> /\ n = Head(taken)
  BY <1>1, <1>2 DEF _timer_dispatch
<1>3. ASSUME _timer_shift PROVE FALSE
  <2>1. left[n] > 0
    BY <1>3, NothingDue DEF _timer_shift
  <2>2. left'[n] = IF left[n] \in {-1, W} THEN left[n] ELSE left[n] - 1
    BY <1>1, <1>3 DEF _timer_shift
  <2> QED BY <1>1, <2>1, <2>2
<1>4. ASSUME NEW m \in Node, NEW ti \in -(W \div 2) .. W \div 2 - 1, timer_timeout(m, ti) PROVE FALSE
  <2>1. m # n /\ left'[n] = left[n]
    BY <1>1, <1>4 DEF timer_timeout
  <2> QED BY <1>1, <2>1
<1>5. ~UNCHANGED left
  BY <1>1
<1>6. ~_timer_update /\ ~_timer_move_list /\ ~UNCHANGED timerVars
  BY <1>5 DEF _timer_update, _timer_move_list, timerVars
<1>7. \A h, d, o : ~_timer_execute(h, d, o)
  BY <1>5 DEF _timer_execute
<1>8. _timer_dispatch("dispatch", "execute") \/ _timer_dispatch("redispatch", "reexecute")
  BY <1>3, <1>4, <1>6, <1>7 DEF TimerNext, TimerThread
<1> QED BY <1>2, <1>8 DEF _timer_dispatch

\* Two timeouts of the same tick fire in the order of their timer_timeout
\* calls, whichever rings each came down through.
THEOREM InOrder == TimerSpec => FiresInOrder
<1> DEFINE A == \A n \in Pending : left[n] # W /\ left'[n] = -1 =>
                    \A m \in Node : <<m, n>> \in before => left[m] > 0
<1>1. ASSUME WheelInv, [TimerNext]_timerVars PROVE A
  <2> SUFFICES ASSUME NEW n \in Pending, left[n] # W, left'[n] = -1,
                      NEW m \in Node, <<m, n>> \in before
               PROVE  left[m] > 0
    OBVIOUS
  <2>1. phase \in {"dispatch", "redispatch"} /\ taken # <<>> /\ n = Head(taken)
    BY <1>1, FreedBy
  <2>2. /\ taken \in Seq(Node) /\ IsInjective(taken) /\ m \in Pending /\ left \in [Node -> -1 .. W]
        /\ W \in Nat /\ W > 1
    BY <1>1, WType DEF WheelInv, WheelTypeOK, Once
  <2>3. n \in Node /\ n \in Range(taken) /\ n \notin Range(Tail(taken))
    BY <2>1, <2>2, RangeOfTail, InjectiveTail
  <2> SUFFICES ASSUME ~(left[m] > 0) PROVE FALSE
    OBVIOUS
  <2>4. left[m] = 0 /\ Promised(m) /\ left[n] = 0 /\ Promised(n)
    <3>1. left[m] # -1 /\ left[m] \in -1 .. W
      BY <2>2 DEF Pending
    <3>2. left[n] \in {0, W}
      BY <1>1, <2>1, <2>3 DEF WheelInv, Phases
    <3> QED BY <2>2, <3>1, <3>2 DEF Promised
  <2>5. expire[m] = expire[n]
    BY <1>1, <2>3, <2>4, TickOf DEF WheelInv
  <2>6. Ahead(m, n)
    BY <1>1, <2>3, <2>4, <2>5 DEF WheelInv, Ordered
  <2>7. ~\E s \in Slots : Precedes(wheel[s], m, n)
    BY <1>1, <2>3, PrecedesIn DEF WheelInv, Once
  <2>8. Precedes(taken, m, n)
    BY <2>1, <2>3, <2>6, <2>7 DEF Ahead
  <2>9. n \in Range(Tail(taken))
    <3>1. Tail(taken) \in Seq(Node)
      BY <2>1, <2>2, RangeOfTail
    <3>2. n \in Range(Tail(taken)) \/ Precedes(Tail(taken), m, n)
      BY <2>1, <2>2, <2>8, PrecedesTail
    <3> QED BY <3>2, PrecedesIn
  <2> QED BY <2>3, <2>9
<1>2. WheelInv /\ [TimerNext]_timerVars => [A]_timerVars
  BY <1>1
<1> QED BY <1>2, WheelCorrect, PTL DEF TimerSpec, FiresInOrder

=============================================================================
