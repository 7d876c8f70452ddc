---------------------------- MODULE SharedProofs ----------------------------
(***************************************************************************)
(* Proofs about the memory that services hand to each other: what Lua      *)
(* services share without a lock around its use (the copies of an stm      *)
(* object, the packages of multicast, the tables of sharedata, each an     *)
(* exact reference count), and the blocks of messages, each with exactly   *)
(* one owner; for any number of services, copies, packages, tables and     *)
(* blocks.                                                                 *)
(***************************************************************************)
EXTENDS Messages, Stm, Multicast, ShareData, Lemmas

-----------------------------------------------------------------------------
(* lstm.c *)

Made      == Cardinality(StmCopy)
Lasts(c)  == {r \in StmReader : stmRd[r].last = c}
Hands(c)  == {r \in StmReader : stmRd[r].hand = c}

\* Boxes of readers that still count in the object's reference.
NoBox     == {"none", "left", "gone", "unlocking"}
Boxed     == {r \in StmReader : stmRd[r].pc \notin NoBox}

ReaderBox(n) ==
    [pc : NoBox \cup {"granted", "idle", "copying", "compare", "leaving"},
     last : 0 .. n, hand : 0 .. n]

StmTypes ==
    /\ Made \in Nat \ {0} /\ stmRef \in [1 .. Made -> Int]
    /\ stmObj \in [copy : 0 .. Made, reference : Int, freed : BOOLEAN]
    /\ stmWr \in [pc : {"idle", "swap", "swapped", "release", "gone"}, old : 0 .. Made]
    /\ stmRd \in [StmReader -> ReaderBox(Made)]

\* The writer holds an old copy only between the swap and its release, a
\* reader a copy in its hand only until it is compared, and no last copy
\* before its first read and after its end.
StmShape ==
    /\ stmWr.old = 0 \/ stmWr.pc = "swapped"
    /\ stmObj.copy = 0 <=> stmWr.pc = "gone"
    /\ \A r \in StmReader :
          /\ stmRd[r].hand = 0 \/ stmRd[r].pc = "compare"
          /\ stmRd[r].pc \in {"none", "granted", "gone"} => stmRd[r].last = 0

\* The object counts its boxes, and is freed when the last is gone.
StmBoxes ==
    /\ stmObj.reference = One(stmWr.pc # "gone") + Cardinality(Boxed)
    /\ stmObj.freed <=> stmObj.reference = 0

Pointers(c) ==
    Cardinality(Lasts(c)) + Cardinality(Hands(c)) + One(stmObj.copy = c)
      + One(stmWr.old = c) + One(stmWr.pc = "swap" /\ c = Made)

StmCounts == \A c \in 1 .. Made : stmRef[c] = Pointers(c)

StmInv == StmTypes /\ StmShape /\ StmBoxes /\ StmCounts

LEMMA StmCopies == StmTypes => StmCopy = 1 .. Made
  BY DEF StmTypes, StmCopy

\* The domain of the copies after a step.
LEMMA MadeIs == ASSUME NEW n \in Nat, DOMAIN stmRef = 1 .. n PROVE Made = n
  BY FS_Interval DEF Made, StmCopy

LEMMA StmInitInv == StmInit => StmInv
<1> SUFFICES ASSUME StmInit PROVE StmInv
  OBVIOUS
<1>1. Made = 1
  <2>1. DOMAIN stmRef = 1 .. 1
    BY DEF StmInit
  <2> QED BY <2>1, MadeIs
<1>2. StmTypes
  BY <1>1 DEF StmInit, StmTypes, ReaderBox, NoBox
<1>3. StmShape
  BY DEF StmInit, StmShape
<1>4. Boxed = {} /\ Lasts(1) = {} /\ Hands(1) = {}
  BY DEF StmInit, Boxed, Lasts, Hands, NoBox
<1>5. StmBoxes
  BY <1>4, FS_EmptySet DEF StmInit, StmBoxes, One
<1>6. StmCounts
  <2>1. stmRef[1] = Pointers(1)
    BY <1>4, FS_EmptySet DEF StmInit, Pointers, One
  <2> QED BY <1>1, <2>1 DEF StmCounts
<1> QED BY <1>2, <1>3, <1>5, <1>6 DEF StmInv

\* What a reader's step does to the counts that its box is part of.
LEMMA ReaderStep ==
    ASSUME NEW r \in StmReader, \A s \in StmReader : s # r => stmRd'[s] = stmRd[s], NEW c
    PROVE  /\ Cardinality(Lasts(c)) \in Nat /\ Cardinality(Hands(c)) \in Nat
           /\ Cardinality(Lasts(c)') \in Nat /\ Cardinality(Hands(c)') \in Nat
           /\ Cardinality(Boxed) \in Nat /\ Cardinality(Boxed') \in Nat
           /\ Cardinality(Lasts(c)') = Cardinality(Lasts(c))
                 + One(stmRd'[r].last = c) - One(stmRd[r].last = c)
           /\ Cardinality(Hands(c)') = Cardinality(Hands(c))
                 + One(stmRd'[r].hand = c) - One(stmRd[r].hand = c)
           /\ Cardinality(Boxed') = Cardinality(Boxed)
                 + One(stmRd'[r].pc \notin NoBox) - One(stmRd[r].pc \notin NoBox)
<1>fin. IsFiniteSet(StmReader)
  BY StmAssumption
<1>1. /\ Cardinality(Lasts(c)) \in Nat /\ Cardinality(Lasts(c)') \in Nat
      /\ Cardinality(Lasts(c)') = Cardinality(Lasts(c))
            + One(stmRd'[r].last = c) - One(stmRd[r].last = c)
  <2>1. /\ Lasts(c) \in SUBSET StmReader /\ Lasts(c)' \in SUBSET StmReader
        /\ \A s \in StmReader : s # r => (s \in Lasts(c) <=> s \in Lasts(c)')
        /\ r \in Lasts(c) <=> stmRd[r].last = c
        /\ r \in Lasts(c)' <=> stmRd'[r].last = c
    BY DEF Lasts
  <2> QED BY <1>fin, <2>1, CountStep DEF One
<1>2. /\ Cardinality(Hands(c)) \in Nat /\ Cardinality(Hands(c)') \in Nat
      /\ Cardinality(Hands(c)') = Cardinality(Hands(c))
            + One(stmRd'[r].hand = c) - One(stmRd[r].hand = c)
  <2>1. /\ Hands(c) \in SUBSET StmReader /\ Hands(c)' \in SUBSET StmReader
        /\ \A s \in StmReader : s # r => (s \in Hands(c) <=> s \in Hands(c)')
        /\ r \in Hands(c) <=> stmRd[r].hand = c
        /\ r \in Hands(c)' <=> stmRd'[r].hand = c
    BY DEF Hands
  <2> QED BY <1>fin, <2>1, CountStep DEF One
<1>3. /\ Cardinality(Boxed) \in Nat /\ Cardinality(Boxed') \in Nat
      /\ Cardinality(Boxed') = Cardinality(Boxed)
            + One(stmRd'[r].pc \notin NoBox) - One(stmRd[r].pc \notin NoBox)
  <2>1. /\ Boxed \in SUBSET StmReader /\ Boxed' \in SUBSET StmReader
        /\ \A s \in StmReader : s # r => (s \in Boxed <=> s \in Boxed')
        /\ r \in Boxed <=> stmRd[r].pc \notin NoBox
        /\ r \in Boxed' <=> stmRd'[r].pc \notin NoBox
    BY DEF Boxed
  <2> QED BY <1>fin, <2>1, CountStep DEF One
<1> QED BY <1>1, <1>2, <1>3

\* The counts are numbers, and zero when nobody is counted.
LEMMA ReaderCounts ==
    ASSUME NEW c
    PROVE  /\ Cardinality(Lasts(c)) \in Nat /\ Cardinality(Hands(c)) \in Nat
           /\ Cardinality(Boxed) \in Nat
           /\ Cardinality(Boxed) = 0 <=> Boxed = {}
           /\ Lasts(c) = {} => Cardinality(Lasts(c)) = 0
           /\ Hands(c) = {} => Cardinality(Hands(c)) = 0
<1>1. Lasts(c) \in SUBSET StmReader /\ Hands(c) \in SUBSET StmReader
      /\ Boxed \in SUBSET StmReader
  BY DEF Lasts, Hands, Boxed
<1> QED BY <1>1, StmAssumption, CountType

\* The writer's steps leave the readers' boxes alone.
LEMMA SameReaders ==
    ASSUME UNCHANGED stmRd, NEW c
    PROVE  Lasts(c)' = Lasts(c) /\ Hands(c)' = Hands(c) /\ Boxed' = Boxed
  BY DEF Lasts, Hands, Boxed

\* Copies are only added by stm_update.
LEMMA SameMade ==
    ASSUME StmTypes, DOMAIN stmRef' = DOMAIN stmRef
    PROVE  Made' = Made
  BY DEF Made, StmCopy

\* stm_update: the new copy has the writer's pointer and no other.
LEMMA StmUpdateKeeps == StmInv /\ stm_update => StmInv'
<1> SUFFICES ASSUME StmInv, stm_update PROVE StmInv'
  OBVIOUS
<1> DEFINE n == Made
<1>n. n \in Nat \ {0} /\ StmCopy = 1 .. n /\ Cardinality(StmCopy) = n
  BY StmCopies DEF StmInv, StmTypes, Made
<1>1. stmRef' = [c \in 1 .. n + 1 |-> IF c = n + 1 THEN 1 ELSE stmRef[c]]
  BY <1>n DEF stm_update
<1>2. Made' = n + 1
  BY <1>n, <1>1, FS_Interval DEF Made, StmCopy
<1>3. /\ stmWr.pc = "idle" /\ stmWr' = [pc |-> "swap", old |-> 0]
      /\ stmObj' = stmObj /\ stmRd' = stmRd
  BY DEF stm_update
<1>old. stmWr.old = 0
  BY <1>3 DEF StmInv, StmShape
<1> HIDE DEF n
<1>4. StmTypes'
  <2>1. stmRef' \in [1 .. n + 1 -> Int]
    BY <1>1, <1>n DEF StmInv, StmTypes, n
  <2>2. stmRd' \in [StmReader -> ReaderBox(n + 1)]
    BY <1>3, <1>n DEF StmInv, StmTypes, ReaderBox, n
  <2>3. stmObj' \in [copy : 0 .. n + 1, reference : Int, freed : BOOLEAN]
    BY <1>3, <1>n DEF StmInv, StmTypes, n
  <2>4. stmWr' \in [pc : {"idle", "swap", "swapped", "release", "gone"}, old : 0 .. n + 1]
    BY <1>3, <1>n
  <2>5. n + 1 \in Nat \ {0}
    BY <1>n
  <2> QED BY <1>2, <2>1, <2>2, <2>3, <2>4, <2>5 DEF StmTypes
<1>5. StmShape'
  BY <1>3 DEF StmInv, StmShape
<1>6. StmBoxes'
  <2>1. Boxed' = Boxed
    BY <1>3 DEF Boxed
  <2> QED BY <1>3, <2>1 DEF StmInv, StmBoxes
<1>7. StmCounts'
  <2> SUFFICES ASSUME NEW c \in 1 .. n + 1 PROVE stmRef'[c] = Pointers(c)'
    BY <1>2 DEF StmCounts
  <2>1. Lasts(c)' = Lasts(c) /\ Hands(c)' = Hands(c)
    BY <1>3 DEF Lasts, Hands
  <2>2. CASE c = n + 1
    <3>1. Lasts(c) = {} /\ Hands(c) = {} /\ stmObj.copy # c
      BY <1>n, <2>2 DEF StmInv, StmTypes, ReaderBox, Lasts, Hands, n
    <3>2. Cardinality(Lasts(c)') = 0 /\ Cardinality(Hands(c)') = 0
      BY <2>1, <3>1, FS_EmptySet
    <3>3. stmObj'.copy # c /\ stmWr'.old # c /\ stmWr'.pc = "swap" /\ Made' = c
      BY <1>2, <1>3, <1>n, <2>2, <3>1
    <3>4. stmRef'[c] = 1
      BY <1>1, <2>2
    <3> QED BY <3>2, <3>3, <3>4 DEF Pointers, One
  <2>3. CASE c # n + 1
    <3>1. c \in 1 .. n
      BY <1>n, <2>3
    <3>2. stmRef[c] = Pointers(c)
      BY <3>1 DEF StmInv, StmCounts, n
    <3>3. stmRef'[c] = stmRef[c]
      BY <1>1, <2>3
    <3> QED BY <1>2, <1>3, <1>n, <1>old, <2>1, <2>3, <3>1, <3>2, <3>3, ReaderCounts
            DEF Pointers, One
  <2> QED BY <2>2, <2>3
<1> QED BY <1>4, <1>5, <1>6, <1>7 DEF StmInv

\* The writer's other steps.
LEMMA StmWriterKeeps ==
    StmInv /\ (stm_update_swap \/ stm_update_release \/ stm_release \/ stm_release_free)
      => StmInv'
<1> SUFFICES ASSUME StmInv,
                    stm_update_swap \/ stm_update_release \/ stm_release \/ stm_release_free
             PROVE  StmInv'
  OBVIOUS
<1> DEFINE n == Made
<1>n. n \in Nat \ {0} /\ Cardinality(StmCopy) = n /\ n \in 1 .. n
  BY DEF StmInv, StmTypes, Made
<1>rd. stmRd' = stmRd
  BY DEF stm_update_swap, stm_update_release, stm_release, stm_release_free
<1>ref. /\ stmRef \in [1 .. n -> Int] /\ stmObj.copy \in 0 .. n /\ stmWr.old \in 0 .. n
        /\ stmObj \in [copy : 0 .. n, reference : Int, freed : BOOLEAN]
        /\ stmWr \in [pc : {"idle", "swap", "swapped", "release", "gone"}, old : 0 .. n]
        /\ stmRd \in [StmReader -> ReaderBox(n)]
  BY DEF StmInv, StmTypes
<1>shape. /\ stmWr.old = 0 \/ stmWr.pc = "swapped"
          /\ stmObj.copy = 0 <=> stmWr.pc = "gone"
  BY DEF StmInv, StmShape
<1>cnt. \A c \in 1 .. n : stmRef[c] = Pointers(c)
  BY DEF StmInv, StmCounts
<1>box. /\ stmObj.reference = One(stmWr.pc # "gone") + Cardinality(Boxed)
        /\ stmObj.freed <=> stmObj.reference = 0
        /\ Cardinality(Boxed) \in Nat /\ Cardinality(Boxed') = Cardinality(Boxed)
  BY <1>rd, ReaderCounts, SameReaders DEF StmInv, StmBoxes
<1>same. \A c : /\ Cardinality(Lasts(c)') = Cardinality(Lasts(c)) /\ Cardinality(Lasts(c)) \in Nat
                /\ Cardinality(Hands(c)') = Cardinality(Hands(c)) /\ Cardinality(Hands(c)) \in Nat
  BY <1>rd, ReaderCounts, SameReaders
<1> HIDE DEF n
\* What each step leaves, and that its effect on the counts is that on the pointers.
<1>e. /\ stmRef' \in [1 .. n -> Int]
      /\ stmObj' \in [copy : 0 .. n, reference : Int, freed : BOOLEAN]
      /\ stmWr' \in [pc : {"idle", "swap", "swapped", "release", "gone"}, old : 0 .. n]
      /\ stmWr'.old = 0 \/ stmWr'.pc = "swapped"
      /\ stmObj'.copy = 0 <=> stmWr'.pc = "gone"
      /\ stmObj'.reference = One(stmWr'.pc # "gone") + Cardinality(Boxed)
      /\ stmObj'.freed <=> stmObj'.reference = 0
      /\ \A c \in 1 .. n :
            stmRef'[c] = stmRef[c] + One(stmObj'.copy = c) - One(stmObj.copy = c)
                         + One(stmWr'.old = c) - One(stmWr.old = c)
                         + One(stmWr'.pc = "swap" /\ c = n) - One(stmWr.pc = "swap" /\ c = n)
  <2>1. CASE stm_update_swap
    <3>1. /\ stmWr.pc = "swap" /\ stmObj' = [stmObj EXCEPT !.copy = n]
          /\ stmWr' = [pc |-> "swapped", old |-> stmObj.copy] /\ stmRef' = stmRef
      BY <2>1, <1>n DEF stm_update_swap
    <3> QED BY <3>1, <1>n, <1>ref, <1>shape, <1>box DEF One
  <2>2. CASE stm_update_release
    <3>1. /\ stmWr.pc = "swapped" /\ stmObj' = stmObj
          /\ stmWr' = [pc |-> "idle", old |-> 0]
          /\ stmRef' = IF stmWr.old = 0 THEN stmRef ELSE [stmRef EXCEPT ![stmWr.old] = @ - 1]
      BY <2>2 DEF stm_update_release, stm_releasecopy
    <3> QED BY <3>1, <1>n, <1>ref, <1>shape, <1>box DEF One
  <2>3. CASE stm_release
    <3>1. /\ stmWr.pc = "idle" /\ stmObj' = stmObj /\ stmRef' = stmRef
          /\ stmWr' = [stmWr EXCEPT !.pc = "release"]
      BY <2>3 DEF stm_release
    <3> QED BY <3>1, <1>n, <1>ref, <1>shape, <1>box DEF One
  <2>4. CASE stm_release_free
    <3>1. /\ stmWr.pc = "release" /\ stmWr' = [stmWr EXCEPT !.pc = "gone"]
          /\ stmRef' = IF stmObj.copy = 0 THEN stmRef
                       ELSE [stmRef EXCEPT ![stmObj.copy] = @ - 1]
          /\ stmObj' = [copy |-> 0, reference |-> stmObj.reference - 1,
                        freed |-> stmObj.reference = 1]
      BY <2>4 DEF stm_release_free, stm_releasecopy
    <3>2. /\ stmObj'.copy = 0 /\ stmObj'.reference = stmObj.reference - 1
          /\ stmObj'.freed <=> stmObj.reference = 1
      BY <3>1
    <3>3. stmObj' \in [copy : 0 .. n, reference : Int, freed : BOOLEAN]
      BY <3>1, <1>n, <1>ref
    <3>4. stmWr'.pc = "gone" /\ stmWr'.old = stmWr.old
          /\ stmWr' \in [pc : {"idle", "swap", "swapped", "release", "gone"}, old : 0 .. n]
      BY <3>1, <1>ref
    <3>5. stmRef' \in [1 .. n -> Int]
          /\ \A c \in 1 .. n : stmRef'[c] = stmRef[c] - One(stmObj.copy = c)
      BY <3>1, <1>n, <1>ref DEF One
    <3> QED BY <3>1, <3>2, <3>3, <3>4, <3>5, <1>n, <1>ref, <1>shape, <1>box DEF One
  <2> QED BY <2>1, <2>2, <2>3, <2>4
<1>m. Made' = n
  BY <1>e, <1>n, FS_Interval DEF Made, StmCopy
<1>4. StmTypes'
  BY <1>e, <1>m, <1>n, <1>rd, <1>ref DEF StmTypes
<1>5. StmShape'
  BY <1>e, <1>rd DEF StmInv, StmShape
<1>6. StmBoxes'
  BY <1>e, <1>box DEF StmBoxes
<1>7. StmCounts'
  <2> SUFFICES ASSUME NEW c \in 1 .. n PROVE stmRef'[c] = Pointers(c)'
    BY <1>m DEF StmCounts
  <2>1. stmRef[c] = Pointers(c) /\ Made = n
    BY <1>cnt DEF n
  <2>2. stmRef'[c] = stmRef[c] + One(stmObj'.copy = c) - One(stmObj.copy = c)
                     + One(stmWr'.old = c) - One(stmWr.old = c)
                     + One(stmWr'.pc = "swap" /\ c = n) - One(stmWr.pc = "swap" /\ c = n)
    BY <1>e
  <2>3. /\ Cardinality(Lasts(c)') = Cardinality(Lasts(c)) /\ Cardinality(Lasts(c)) \in Nat
        /\ Cardinality(Hands(c)') = Cardinality(Hands(c)) /\ Cardinality(Hands(c)) \in Nat
    BY <1>same
  <2> QED BY <1>m, <2>1, <2>2, <2>3 DEF Pointers, One
<1> QED BY <1>4, <1>5, <1>6, <1>7 DEF StmInv

\* The reader's steps.
LEMMA StmReaderKeeps ==
    ASSUME StmInv, NEW r \in StmReader,
           \/ stm_grab(r) \/ lnewreader(r) \/ stm_copy_lock(r) \/ stm_copy(r) \/ lread(r)
           \/ stm_releasereader_lock(r) \/ stm_releasereader(r)
           \/ stm_releasereader_unlock(r) \/ ldeletereader(r)
    PROVE  StmInv'
<1> DEFINE n == Made
           PC == NoBox \cup {"granted", "idle", "copying", "compare", "leaving"}
<1>n. n \in Nat \ {0}
  BY DEF StmInv, StmTypes
<1>wr. stmWr' = stmWr
  BY DEF stm_grab, lnewreader, stm_copy_lock, stm_copy, lread, stm_releasereader_lock,
         stm_releasereader, stm_releasereader_unlock, ldeletereader
<1>ref. stmRef \in [1 .. n -> Int] /\ stmObj.copy \in 0 .. n
  BY DEF StmInv, StmTypes
<1>obj. /\ stmObj \in [copy : 0 .. n, reference : Int, freed : BOOLEAN]
        /\ stmWr \in [pc : {"idle", "swap", "swapped", "release", "gone"}, old : 0 .. n]
  BY DEF StmInv, StmTypes
<1>rd. /\ stmRd \in [StmReader -> ReaderBox(n)]
       /\ stmRd[r] \in [pc : PC, last : 0 .. n, hand : 0 .. n]
  BY DEF StmInv, StmTypes, ReaderBox
<1>shape. /\ stmRd[r].hand = 0 \/ stmRd[r].pc = "compare"
          /\ stmRd[r].pc \in {"none", "granted", "gone"} => stmRd[r].last = 0
          /\ stmObj.copy = 0 <=> stmWr.pc = "gone"
  BY DEF StmInv, StmShape
<1>box. /\ stmObj.reference = One(stmWr.pc # "gone") + Cardinality(Boxed)
        /\ stmObj.freed <=> stmObj.reference = 0
        /\ Cardinality(Boxed) \in Nat
  BY ReaderCounts DEF StmInv, StmBoxes
<1>cnt. \A c \in 1 .. n : stmRef[c] = Pointers(c)
  BY DEF StmInv, StmCounts
<1> HIDE DEF n
\* What each step leaves: its effect on a copy's count is that on the
\* reader's pointers, its effect on the object's that on its box.
<1>e. /\ stmRd' = [stmRd EXCEPT ![r] = stmRd'[r]]
      /\ stmRd'[r] \in [pc : PC, last : 0 .. n, hand : 0 .. n]
      /\ stmRd'[r].hand = 0 \/ stmRd'[r].pc = "compare"
      /\ stmRd'[r].pc \in {"none", "granted", "gone"} => stmRd'[r].last = 0
      /\ stmObj' \in [copy : 0 .. n, reference : Int, freed : BOOLEAN]
      /\ stmObj'.copy = stmObj.copy
      /\ stmObj'.reference = stmObj.reference
            + One(stmRd'[r].pc \notin NoBox) - One(stmRd[r].pc \notin NoBox)
      /\ stmObj'.freed <=> stmObj'.reference = 0
      /\ stmRef' \in [1 .. n -> Int]
      /\ \A c \in 1 .. n :
            stmRef'[c] = stmRef[c] + One(stmRd'[r].last = c) - One(stmRd[r].last = c)
                                   + One(stmRd'[r].hand = c) - One(stmRd[r].hand = c)
  <2>1. CASE stm_grab(r)
    <3>1. /\ stmRd' = [stmRd EXCEPT ![r].pc = "granted"] /\ stmRef' = stmRef
          /\ stmRd[r].pc = "none" /\ stmWr.pc = "idle"
          /\ stmObj' = [stmObj EXCEPT !.reference = @ + 1]
      BY <2>1 DEF stm_grab, At, Goto
    <3>2. /\ stmRd' = [stmRd EXCEPT ![r] = stmRd'[r]]
          /\ stmRd'[r] = [stmRd[r] EXCEPT !.pc = "granted"]
      BY <3>1, <1>rd
    <3>3. stmObj'.freed = stmObj.freed /\ stmObj'.reference = stmObj.reference + 1
          /\ stmObj'.copy = stmObj.copy
          /\ stmObj' \in [copy : 0 .. n, reference : Int, freed : BOOLEAN]
      BY <3>1, <1>obj
    <3> QED BY <3>1, <3>2, <3>3, <1>n, <1>ref, <1>obj, <1>rd, <1>shape, <1>box DEF One, NoBox
  <2>2. CASE lnewreader(r)
    <3>1. /\ stmRd' = [stmRd EXCEPT ![r].pc = "idle"] /\ stmRef' = stmRef
          /\ stmRd[r].pc = "granted" /\ stmObj' = stmObj
      BY <2>2 DEF lnewreader, At, Goto
    <3>2. /\ stmRd' = [stmRd EXCEPT ![r] = stmRd'[r]]
          /\ stmRd'[r] = [stmRd[r] EXCEPT !.pc = "idle"]
      BY <3>1, <1>rd
    <3> QED BY <3>1, <3>2, <1>n, <1>ref, <1>obj, <1>rd, <1>shape, <1>box DEF One, NoBox
  <2>3. CASE stm_copy_lock(r)
    <3>1. /\ stmRd' = [stmRd EXCEPT ![r].pc = "copying"] /\ stmRef' = stmRef
          /\ stmRd[r].pc = "idle" /\ stmObj' = stmObj
      BY <2>3 DEF stm_copy_lock, At, Goto
    <3>2. /\ stmRd' = [stmRd EXCEPT ![r] = stmRd'[r]]
          /\ stmRd'[r] = [stmRd[r] EXCEPT !.pc = "copying"]
      BY <3>1, <1>rd
    <3> QED BY <3>1, <3>2, <1>n, <1>ref, <1>obj, <1>rd, <1>shape, <1>box DEF One, NoBox
  <2>4. CASE stm_copy(r)
    <3>1. /\ stmRd' = [stmRd EXCEPT ![r].hand = stmObj.copy, ![r].pc = "compare"]
          /\ stmRef' = IF stmObj.copy = 0 THEN stmRef
                       ELSE [stmRef EXCEPT ![stmObj.copy] = @ + 1]
          /\ stmRd[r].pc = "copying" /\ stmObj' = stmObj
      BY <2>4 DEF stm_copy, At
    <3>2. /\ stmRd' = [stmRd EXCEPT ![r] = stmRd'[r]]
          /\ stmRd'[r] = [stmRd[r] EXCEPT !.hand = stmObj.copy, !.pc = "compare"]
      BY <3>1, <1>rd
    <3>3. stmRd[r].hand = 0
      BY <3>1, <1>shape
    <3>4. /\ stmRef' \in [1 .. n -> Int]
          /\ \A c \in 1 .. n : stmRef'[c] = stmRef[c] + One(stmObj.copy = c)
      BY <3>1, <1>n, <1>ref DEF One
    <3>5. /\ stmRd'[r].pc = "compare" /\ stmRd'[r].last = stmRd[r].last
          /\ stmRd'[r].hand = stmObj.copy
          /\ stmRd'[r] \in [pc : PC, last : 0 .. n, hand : 0 .. n]
      BY <3>2, <1>rd, <1>ref
    <3>6. \A c \in 1 .. n :
            stmRef'[c] = stmRef[c] + One(stmRd'[r].last = c) - One(stmRd[r].last = c)
                                   + One(stmRd'[r].hand = c) - One(stmRd[r].hand = c)
      BY <3>3, <3>4, <3>5, <1>n, <1>ref DEF One
    <3>7. One(stmRd'[r].pc \notin NoBox) = 1 /\ One(stmRd[r].pc \notin NoBox) = 1
      BY <3>1, <3>5 DEF One, NoBox
    <3>8. /\ stmObj' = stmObj /\ stmObj.reference \in Int
          /\ stmRd' = [stmRd EXCEPT ![r] = stmRd'[r]]
      BY <3>1, <3>2, <1>obj
    <3> QED BY <3>4, <3>5, <3>6, <3>7, <3>8, <1>obj, <1>box
  <2>5. CASE lread(r)
    <3> DEFINE old == IF stmRd[r].hand = stmRd[r].last THEN stmRd[r].hand ELSE stmRd[r].last
    <3>1. /\ stmRd' = [stmRd EXCEPT ![r] = [pc |-> "idle", last |-> stmRd[r].hand, hand |-> 0]]
          /\ stmRef' = IF old = 0 THEN stmRef ELSE [stmRef EXCEPT ![old] = @ - 1]
          /\ stmRd[r].pc = "compare" /\ stmObj' = stmObj
      BY <2>5 DEF lread, At, stm_releasecopy
    <3>2. /\ stmRd' = [stmRd EXCEPT ![r] = stmRd'[r]]
          /\ stmRd'[r] = [pc |-> "idle", last |-> stmRd[r].hand, hand |-> 0]
      BY <3>1, <1>rd
    <3>3. old \in 0 .. n /\ old = stmRd[r].last
      BY <1>rd
    <3> HIDE DEF old
    <3>4. /\ stmRef' \in [1 .. n -> Int]
          /\ \A c \in 1 .. n : stmRef'[c] = stmRef[c] - One(stmRd[r].last = c)
      BY <3>1, <3>3, <1>n, <1>ref DEF One
    <3>5. /\ stmRd'[r].pc = "idle" /\ stmRd'[r].last = stmRd[r].hand
          /\ stmRd'[r].hand = 0
          /\ stmRd'[r] \in [pc : PC, last : 0 .. n, hand : 0 .. n]
      BY <3>2, <1>n, <1>rd
    <3>6. \A c \in 1 .. n :
            stmRef'[c] = stmRef[c] + One(stmRd'[r].last = c) - One(stmRd[r].last = c)
                                   + One(stmRd'[r].hand = c) - One(stmRd[r].hand = c)
      BY <3>4, <3>5, <1>n, <1>ref DEF One
    <3> QED BY <3>1, <3>2, <3>4, <3>5, <3>6, <1>obj, <1>box DEF One, NoBox
  <2>6. CASE stm_releasereader_lock(r)
    <3>1. /\ stmRd' = [stmRd EXCEPT ![r].pc = "leaving"] /\ stmRef' = stmRef
          /\ stmRd[r].pc = "idle" /\ stmObj' = stmObj
      BY <2>6 DEF stm_releasereader_lock, At, Goto
    <3>2. /\ stmRd' = [stmRd EXCEPT ![r] = stmRd'[r]]
          /\ stmRd'[r] = [stmRd[r] EXCEPT !.pc = "leaving"]
      BY <3>1, <1>rd
    <3> QED BY <3>1, <3>2, <1>n, <1>ref, <1>obj, <1>rd, <1>shape, <1>box DEF One, NoBox
  <2>7. CASE stm_releasereader(r)
    <3> DEFINE last == stmObj.reference = 1
               pc   == IF last THEN "left" ELSE "unlocking"
    <3>1. /\ stmRd' = [stmRd EXCEPT ![r].pc = pc] /\ stmRef' = stmRef
          /\ stmRd[r].pc = "leaving"
          /\ stmObj' = [stmObj EXCEPT !.reference = @ - 1, !.freed = last]
      BY <2>7 DEF stm_releasereader, At, Goto
    <3>2. /\ stmRd' = [stmRd EXCEPT ![r] = stmRd'[r]]
          /\ stmRd'[r] = [stmRd[r] EXCEPT !.pc = pc] /\ pc \in {"left", "unlocking"}
      BY <3>1, <1>rd
    <3>3. /\ stmObj'.freed <=> stmObj.reference = 1
          /\ stmObj'.reference = stmObj.reference - 1 /\ stmObj'.copy = stmObj.copy
          /\ stmObj' \in [copy : 0 .. n, reference : Int, freed : BOOLEAN]
      <4>1. last \in BOOLEAN /\ (last <=> stmObj.reference = 1)
        OBVIOUS
      <4> HIDE DEF last
      <4>2. stmObj'.freed = last
        BY <3>1, <1>obj, Zenon
      <4>3. stmObj'.reference = stmObj.reference - 1 /\ stmObj'.copy = stmObj.copy
        BY <3>1, <1>obj
      <4>4. stmObj' \in [copy : 0 .. n, reference : Int, freed : BOOLEAN]
        <5> DEFINE ref == stmObj.reference - 1
        <5>1. ref \in Int
          BY <1>obj
        <5>2. stmObj' = [stmObj EXCEPT !.reference = ref, !.freed = last]
          BY <3>1, <1>obj
        <5> HIDE DEF ref
        <5> QED BY <5>1, <5>2, <4>1, <1>obj, Zenon
      <4> QED BY <4>1, <4>2, <4>3, <4>4
    <3> HIDE DEF last, pc
    <3> QED BY <3>1, <3>2, <3>3, <1>n, <1>ref, <1>obj, <1>rd, <1>shape, <1>box DEF One, NoBox
  <2>8. CASE stm_releasereader_unlock(r)
    <3>1. /\ stmRd' = [stmRd EXCEPT ![r].pc = "left"] /\ stmRef' = stmRef
          /\ stmRd[r].pc = "unlocking" /\ stmObj' = stmObj
      BY <2>8 DEF stm_releasereader_unlock, At, Goto
    <3>2. /\ stmRd' = [stmRd EXCEPT ![r] = stmRd'[r]]
          /\ stmRd'[r] = [stmRd[r] EXCEPT !.pc = "left"]
      BY <3>1, <1>rd
    <3> QED BY <3>1, <3>2, <1>n, <1>ref, <1>obj, <1>rd, <1>shape, <1>box DEF One, NoBox
  <2>9. CASE ldeletereader(r)
    <3>1. /\ stmRd' = [stmRd EXCEPT ![r] = [pc |-> "gone", last |-> 0, hand |-> 0]]
          /\ stmRef' = IF stmRd[r].last = 0 THEN stmRef
                       ELSE [stmRef EXCEPT ![stmRd[r].last] = @ - 1]
          /\ stmRd[r].pc = "left" /\ stmObj' = stmObj
      BY <2>9 DEF ldeletereader, At, stm_releasecopy
    <3>2. /\ stmRd' = [stmRd EXCEPT ![r] = stmRd'[r]]
          /\ stmRd'[r] = [pc |-> "gone", last |-> 0, hand |-> 0]
      BY <3>1, <1>rd
    <3>3. stmRd[r].hand = 0 /\ stmRd[r].last \in 0 .. n
      BY <3>1, <1>shape, <1>rd
    <3>4. /\ stmRef' \in [1 .. n -> Int]
          /\ \A c \in 1 .. n : stmRef'[c] = stmRef[c] - One(stmRd[r].last = c)
      BY <3>1, <3>3, <1>n, <1>ref DEF One
    <3> QED BY <3>1, <3>2, <3>3, <3>4, <1>n, <1>ref, <1>obj, <1>rd, <1>shape, <1>box DEF One, NoBox
  <2> QED BY <2>1, <2>2, <2>3, <2>4, <2>5, <2>6, <2>7, <2>8, <2>9
<1>m. Made' = n
  BY <1>e, <1>n, FS_Interval DEF Made, StmCopy
<1>others. \A s \in StmReader : s # r => stmRd'[s] = stmRd[s]
  BY <1>e, <1>rd
<1>4. StmTypes'
  <2>1. stmRd' \in [StmReader -> ReaderBox(n)]
    <3>1. stmRd'[r] \in ReaderBox(n)
      BY <1>e DEF ReaderBox
    <3> QED BY <1>e, <1>rd, <3>1
  <2> QED BY <1>e, <1>m, <1>n, <1>wr, <1>obj, <2>1 DEF StmTypes
<1>5. StmShape'
  BY <1>e, <1>wr, <1>others DEF StmInv, StmShape
<1>6. StmBoxes'
  <2>1. /\ Cardinality(Boxed') \in Nat
        /\ Cardinality(Boxed') = Cardinality(Boxed)
             + One(stmRd'[r].pc \notin NoBox) - One(stmRd[r].pc \notin NoBox)
    BY <1>others, ReaderStep
  <2> QED BY <1>e, <1>box, <1>wr, <2>1 DEF StmBoxes, One
<1>7. StmCounts'
  <2> SUFFICES ASSUME NEW c \in 1 .. n PROVE stmRef'[c] = Pointers(c)'
    BY <1>m DEF StmCounts
  <2>1. stmRef[c] = Pointers(c) /\ Made = n
    BY <1>cnt DEF n
  <2>2. stmRef'[c] = stmRef[c] + One(stmRd'[r].last = c) - One(stmRd[r].last = c)
                               + One(stmRd'[r].hand = c) - One(stmRd[r].hand = c)
    BY <1>e
  <2>3. /\ Cardinality(Lasts(c)) \in Nat /\ Cardinality(Hands(c)) \in Nat
        /\ Cardinality(Lasts(c)') \in Nat /\ Cardinality(Hands(c)') \in Nat
        /\ Cardinality(Lasts(c)') = Cardinality(Lasts(c))
              + One(stmRd'[r].last = c) - One(stmRd[r].last = c)
        /\ Cardinality(Hands(c)') = Cardinality(Hands(c))
              + One(stmRd'[r].hand = c) - One(stmRd[r].hand = c)
    BY <1>others, ReaderStep
  <2>4. stmObj'.copy = stmObj.copy /\ stmWr' = stmWr
    BY <1>e, <1>wr
  <2> QED BY <1>m, <2>1, <2>2, <2>3, <2>4 DEF Pointers, One
<1> QED BY <1>4, <1>5, <1>6, <1>7 DEF StmInv

LEMMA StmNextInv == StmInv /\ [StmNext]_stmVars => StmInv'
<1>1. StmInv /\ UNCHANGED stmVars => StmInv'
  <2> SUFFICES ASSUME StmInv, UNCHANGED stmVars PROVE StmInv'
    OBVIOUS
  <2>1. Made' = Made /\ Boxed' = Boxed
    BY DEF Made, StmCopy, Boxed, stmVars
  <2>2. StmTypes' /\ StmShape' /\ StmBoxes'
    BY <2>1 DEF StmInv, StmTypes, StmShape, StmBoxes, stmVars
  <2>3. \A c : Pointers(c)' = Pointers(c)
    BY <2>1 DEF Pointers, Lasts, Hands, stmVars
  <2>4. StmCounts'
    BY <2>1, <2>3 DEF StmInv, StmCounts, stmVars
  <2> QED BY <2>2, <2>4 DEF StmInv
<1> QED BY <1>1, StmUpdateKeeps, StmWriterKeeps, StmReaderKeeps DEF StmNext

\* The invariant says what StmExact does.
LEMMA StmInvExact == StmInv => StmExact
<1> SUFFICES ASSUME StmInv PROVE StmExact
  OBVIOUS
<1>n. StmCopy = 1 .. Made
  BY StmCopies DEF StmInv
<1>1. \A c \in StmCopy :
         stmRef[c] = Count({r \in StmReader : stmRd[r].last = c})
                   + Count({r \in StmReader : stmRd[r].hand = c})
                   + (IF stmObj.copy = c THEN 1 ELSE 0)
                   + (IF stmWr.old = c THEN 1 ELSE 0)
                   + (IF stmWr.pc = "swap" /\ c = Cardinality(StmCopy) THEN 1 ELSE 0)
  BY <1>n DEF StmInv, StmCounts, Pointers, Lasts, Hands, One, Count, Made
<1>box. /\ stmObj.reference = One(stmWr.pc # "gone") + Cardinality(Boxed)
        /\ stmObj.freed <=> stmObj.reference = 0
        /\ Cardinality(Boxed) \in Nat
        /\ Cardinality(Boxed) = 0 <=> Boxed = {}
  BY ReaderCounts DEF StmInv, StmBoxes
<1>2. ASSUME stmObj.freed
      PROVE  /\ stmWr.pc = "gone"
             /\ \A r \in StmReader : stmRd[r].pc \in NoBox
  <2>1. stmWr.pc = "gone" /\ Boxed = {}
    BY <1>2, <1>box DEF One
  <2> QED BY <2>1 DEF Boxed
<1>3. ASSUME stmWr.pc = "gone", \A r \in StmReader : stmRd[r].pc \in {"none", "gone"}
      PROVE  stmObj.freed /\ \A c \in StmCopy : Freed(c)
  <2>1. Boxed = {}
    BY <1>3 DEF Boxed, NoBox
  <2>2. stmObj.freed
    BY <1>3, <1>box, <2>1 DEF One
  <2>3. ASSUME NEW c \in 1 .. Made PROVE stmRef[c] = 0
    <3>1. Lasts(c) = {} /\ Hands(c) = {} /\ stmObj.copy # c /\ stmWr.old # c
      BY <1>3, <2>3 DEF StmInv, StmShape, Lasts, Hands
    <3>2. stmRef[c] = Pointers(c)
      BY <2>3 DEF StmInv, StmCounts
    <3> QED BY <1>3, <3>1, <3>2, FS_EmptySet DEF Pointers, One
  <2> QED BY <1>n, <2>2, <2>3 DEF Freed
<1> QED BY <1>1, <1>2, <1>3 DEF StmExact, NoBox

THEOREM StmInvariance == StmSpec => []StmInv
  BY StmInitInv, StmNextInv, PTL DEF StmSpec

\* Every copy and the object of lstm.c are counted exactly, whatever the
\* writer swaps while readers take, compare and give back copies: nothing is
\* freed that a box still uses, and nothing is left when the boxes are gone.
THEOREM StmCounted == StmSpec => []StmExact
  BY StmInvariance, StmInvExact, PTL

-----------------------------------------------------------------------------
(* lmulticast.c *)

Mailed(p) == {s \in Subscriber : p \in mcMail[s]}
Unsent(p) == IF mcPub.pack = p THEN Cardinality(mcPub.to) ELSE 0

McTypes ==
    /\ mcGroup \subseteq Subscriber
    /\ mcPack \in [Package -> [reference : Int, state : {"none", "live", "freed"}]]
    /\ mcPub \in [phase : {"idle", "send"}, pack : Package \cup {0}, to : SUBSET Subscriber]
    /\ mcMail \in [Subscriber -> SUBSET Package]
    /\ mcLost \in [Package -> Nat]

\* Who is still to be sent a package has no pointer to it, and pointers lead
\* to live packages only.
McShape ==
    /\ mcPub.phase = "idle" => mcPub.to = {}
    /\ mcPub.phase = "send" => mcPub.pack \in Package
    /\ \A s \in mcPub.to : mcPub.pack \notin mcMail[s] /\ mcPack[mcPub.pack].state = "live"
    /\ \A p \in Package, s \in Subscriber : p \in mcMail[s] => mcPack[p].state = "live"
    /\ \A p \in Package : mcPack[p].state # "live" => mcLost[p] = 0

McCounts ==
    \A p \in Package : mcPack[p].state = "live" =>
        mcPack[p].reference = Cardinality(Mailed(p)) + mcLost[p] + Unsent(p)

McInv == McTypes /\ McShape /\ McCounts /\ "dispatch" \notin mcUse

LEMMA MailStep ==
    ASSUME NEW s \in Subscriber, NEW p,
           \A u \in Subscriber : u # s => (p \in mcMail'[u] <=> p \in mcMail[u])
    PROVE  /\ Cardinality(Mailed(p)) \in Nat /\ Cardinality(Mailed(p)') \in Nat
           /\ Cardinality(Mailed(p)') = Cardinality(Mailed(p))
                 + One(p \in mcMail'[s]) - One(p \in mcMail[s])
<1>1. /\ Mailed(p) \in SUBSET Subscriber /\ Mailed(p)' \in SUBSET Subscriber
      /\ \A u \in Subscriber : u # s => (u \in Mailed(p) <=> u \in Mailed(p)')
      /\ s \in Mailed(p) <=> p \in mcMail[s]
      /\ s \in Mailed(p)' <=> p \in mcMail'[s]
  BY DEF Mailed
<1> QED BY <1>1, MulticastAssumption, CountStep DEF One

LEMMA MailCounts ==
    ASSUME McTypes, NEW p
    PROVE  /\ Cardinality(Mailed(p)) \in Nat
           /\ Cardinality(Mailed(p)) = 0 <=> Mailed(p) = {}
           /\ Unsent(p) \in Nat
           /\ mcPub.to = {} => Unsent(p) = 0
<1>1. Mailed(p) \in SUBSET Subscriber /\ mcPub.to \in SUBSET Subscriber
  BY DEF Mailed, McTypes
<1>2. Cardinality(mcPub.to) \in Nat /\ (mcPub.to = {} => Cardinality(mcPub.to) = 0)
  BY <1>1, MulticastAssumption, CountType
<1> QED BY <1>1, <1>2, MulticastAssumption, CountType DEF Unsent

LEMMA McInitInv == MulticastInit => McInv
<1> SUFFICES ASSUME MulticastInit PROVE McInv
  OBVIOUS
<1>1. McTypes
  BY DEF MulticastInit, McTypes
<1>2. McShape
  BY DEF MulticastInit, McShape
<1> QED BY <1>1, <1>2 DEF MulticastInit, McInv, McCounts

\* SUB, USUB, SUBR and DEL leave packages and queues alone.
LEMMA McGroupKeeps ==
    ASSUME McInv, SUBR \/ DEL \/ \E s \in Subscriber : SUB(s) \/ USUB(s)
    PROVE  McInv'
<1>1. /\ UNCHANGED <<mcPack, mcPub, mcMail, mcLost, mcUse>>
      /\ mcGroup' \subseteq Subscriber
  BY DEF SUBR, DEL, SUB, USUB, McInv, McTypes
<1>2. McTypes'
  BY <1>1 DEF McInv, McTypes
<1>3. McShape'
  BY <1>1 DEF McInv, McShape
<1>4. McCounts'
  BY <1>1 DEF McInv, McCounts, Mailed, Unsent
<1> QED BY <1>1, <1>2, <1>3, <1>4 DEF McInv

LEMMA McPublishKeeps ==
    ASSUME McInv, NEW p \in Package, publish(p)
    PROVE  McInv'
<1>t. McTypes /\ McShape /\ McCounts
  BY DEF McInv
<1>e. /\ mcPub.phase = "idle" /\ mcPack[p].state = "none"
      /\ mcMail' = mcMail /\ mcLost' = mcLost /\ mcGroup' = mcGroup /\ mcUse' = mcUse
  BY DEF publish, Idle
<1>z. mcPub.to = {} /\ (\A s \in Subscriber : p \notin mcMail[s]) /\ mcLost[p] = 0
  BY <1>e, <1>t DEF McShape
<1>g. Cardinality(mcGroup) \in Nat
  BY <1>t, MulticastAssumption, CountType DEF McTypes
<1>m. \A q : /\ Mailed(q)' = Mailed(q) /\ Cardinality(Mailed(q)) \in Nat /\ Unsent(q) = 0
  BY <1>e, <1>t, <1>z, MailCounts DEF Mailed
<1>mp. Cardinality(Mailed(p)) = 0
  BY <1>z, FS_EmptySet DEF Mailed
<1>1. CASE mcOpen
  <2>1. /\ mcPub' = [phase |-> "send", pack |-> p, to |-> mcGroup]
        /\ mcPack' = [mcPack EXCEPT ![p] = [reference |-> Cardinality(mcGroup),
                                            state |-> "live"]]
    BY <1>1 DEF publish
  <2>2. /\ \A q \in Package : q # p => mcPack'[q] = mcPack[q]
        /\ mcPack'[p].state = "live" /\ mcPack'[p].reference = Cardinality(mcGroup)
    BY <2>1, <1>t DEF McTypes
  <2>3. McTypes'
    BY <2>1, <1>e, <1>g, <1>t DEF McTypes
  <2>4. McShape'
    BY <2>1, <2>2, <1>e, <1>t, <1>z DEF McShape, McTypes
  <2>5. McCounts'
    <3> SUFFICES ASSUME NEW q \in Package, mcPack'[q].state = "live"
                 PROVE  mcPack'[q].reference
                          = Cardinality(Mailed(q)') + mcLost'[q] + Unsent(q)'
      BY DEF McCounts
    <3>1. CASE q = p
      <4>1. Unsent(p)' = Cardinality(mcGroup)
        BY <2>1 DEF Unsent
      <4> QED BY <3>1, <4>1, <2>2, <1>m, <1>mp, <1>g, <1>e, <1>z
    <3>2. CASE q # p
      <4>1. Unsent(q)' = 0 /\ Unsent(q) = 0
        BY <3>2, <2>1, <1>m DEF Unsent
      <4>2. mcPack[q].reference = Cardinality(Mailed(q)) + mcLost[q] + Unsent(q)
        BY <3>2, <2>2, <1>t DEF McCounts
      <4> QED BY <3>2, <4>1, <4>2, <2>2, <1>m, <1>e
    <3> QED BY <3>1, <3>2
  <2> QED BY <2>3, <2>4, <2>5, <1>e DEF McInv
<1>2. CASE ~mcOpen
  <2>1. /\ mcPub' = mcPub
        /\ mcPack' = [mcPack EXCEPT ![p] = [reference |-> 0, state |-> "freed"]]
    BY <1>2 DEF publish
  <2>2. /\ \A q \in Package : q # p => mcPack'[q] = mcPack[q]
        /\ mcPack'[p].state = "freed"
    BY <2>1, <1>t DEF McTypes
  <2>3. McTypes'
    BY <2>1, <1>e, <1>t DEF McTypes
  <2>4. McShape'
    BY <2>1, <2>2, <1>e, <1>t, <1>z DEF McShape, McTypes
  <2>5. McCounts'
    BY <2>1, <2>2, <1>e, <1>m, <1>t DEF McCounts, Unsent
  <2> QED BY <2>3, <2>4, <2>5, <1>e DEF McInv
<1> QED BY <1>1, <1>2

\* A pointer moves from the list of those to be sent to into the queue of s,
\* or is lost with s.
LEMMA McSendKeeps ==
    ASSUME McInv, NEW s \in Subscriber, publish_send(s)
    PROVE  McInv'
<1>t. McTypes /\ McShape /\ McCounts
  BY DEF McInv
<1> DEFINE k == mcPub.pack
<1>e. /\ mcPub.phase = "send" /\ s \in mcPub.to
      /\ mcPub' = [mcPub EXCEPT !.to = @ \ {s}]
      /\ mcMail' = [mcMail EXCEPT ![s] = IF s \in mcDead THEN @ ELSE @ \cup {k}]
      /\ mcLost' = [mcLost EXCEPT ![k] = IF s \in mcDead THEN @ + 1 ELSE @]
      /\ mcPack' = mcPack /\ mcGroup' = mcGroup /\ mcUse' = mcUse
  BY DEF publish_send
<1>k. k \in Package /\ k \notin mcMail[s] /\ mcPack[k].state = "live"
  BY <1>e, <1>t DEF McShape
<1>to. mcPub.to \in SUBSET Subscriber /\ mcPub'.to = mcPub.to \ {s} /\ mcPub'.pack = k
       /\ mcPub'.phase = "send"
  BY <1>e, <1>t DEF McTypes
<1>c. /\ Cardinality(mcPub.to) \in Nat
      /\ Cardinality(mcPub'.to) = Cardinality(mcPub.to) - 1
  BY <1>to, <1>e, MulticastAssumption, FS_Subset, FS_CardinalityType, FS_RemoveElement
<1>mail. \A u \in Subscriber, q \in Package :
           /\ u # s \/ q # k => (q \in mcMail'[u] <=> q \in mcMail[u])
           /\ k \in mcMail'[s] <=> s \notin mcDead
  BY <1>e, <1>t, <1>k DEF McTypes
<1>lost. /\ mcLost \in [Package -> Nat]
         /\ mcLost'[k] = mcLost[k] + One(s \in mcDead)
         /\ \A q \in Package : q # k => mcLost'[q] = mcLost[q]
  BY <1>e, <1>t, <1>k DEF McTypes, One
<1>1. McTypes'
  <2>1. mcMail' \in [Subscriber -> SUBSET Package]
    BY <1>e, <1>t, <1>k DEF McTypes
  <2>2. mcLost' \in [Package -> Nat]
    BY <1>e, <1>t, <1>k DEF McTypes
  <2>3. mcPub' \in [phase : {"idle", "send"}, pack : Package \cup {0}, to : SUBSET Subscriber]
    BY <1>e, <1>t DEF McTypes
  <2> QED BY <1>e, <1>t, <2>1, <2>2, <2>3 DEF McTypes
<1>2. McShape'
  <2> HIDE DEF k
  <2>1. \A u \in mcPub'.to : k \notin mcMail'[u] /\ mcPack'[k].state = "live"
    BY <1>e, <1>t, <1>k, <1>to, <1>mail DEF McShape, k
  <2>2. \A q \in Package, u \in Subscriber : q \in mcMail'[u] => mcPack'[q].state = "live"
    BY <1>e, <1>t, <1>k, <1>mail DEF McShape
  <2>3. \A q \in Package : mcPack'[q].state # "live" => mcLost'[q] = 0
    BY <1>e, <1>t, <1>k, <1>lost DEF McShape
  <2> QED BY <1>to, <1>k, <2>1, <2>2, <2>3 DEF McShape
<1>3. McCounts'
  <2> SUFFICES ASSUME NEW q \in Package, mcPack'[q].state = "live"
               PROVE  mcPack'[q].reference
                        = Cardinality(Mailed(q)') + mcLost'[q] + Unsent(q)'
    BY DEF McCounts
  <2>1. /\ Cardinality(Mailed(q)) \in Nat /\ Cardinality(Mailed(q)') \in Nat
        /\ Cardinality(Mailed(q)') = Cardinality(Mailed(q))
              + One(q \in mcMail'[s]) - One(q \in mcMail[s])
    BY <1>mail, MailStep
  <2>2. mcPack'[q].reference = Cardinality(Mailed(q)) + mcLost[q] + Unsent(q)
    BY <1>e, <1>t DEF McCounts
  <2>3. Unsent(q) \in Nat /\ mcLost[q] \in Nat
    BY <1>t, <1>lost, MailCounts
  <2>4. CASE q = k
    <3>1. Unsent(q)' = Unsent(q) - 1
      BY <1>to, <1>c, <2>4 DEF Unsent
    <3>2. /\ One(q \in mcMail[s]) = 0 /\ One(q \in mcMail'[s]) = 1 - One(s \in mcDead)
          /\ One(s \in mcDead) \in Nat
      BY <1>k, <1>mail, <2>4 DEF One
    <3>3. mcLost'[q] = mcLost[q] + One(s \in mcDead)
      BY <1>lost, <2>4
    <3> QED BY <2>1, <2>2, <2>3, <3>1, <3>2, <3>3
  <2>5. CASE q # k
    <3>1. Unsent(q)' = Unsent(q)
      BY <1>to, <2>5 DEF Unsent
    <3>2. q \in mcMail'[s] <=> q \in mcMail[s]
      BY <1>mail, <2>5
    <3> HIDE DEF k
    <3> QED BY <2>1, <2>2, <2>3, <2>5, <3>1, <3>2, <1>lost DEF One
  <2> QED BY <2>4, <2>5
<1> QED BY <1>1, <1>2, <1>3, <1>e DEF McInv

\* The publish ends; the package is let go by multicastd without a count.
LEMMA McRemoteKeeps ==
    ASSUME McInv, publish_remote
    PROVE  McInv'
<1>t. McTypes /\ McShape /\ McCounts
  BY DEF McInv
<1>e. /\ mcPub.to = {} /\ mcPub' = [phase |-> "idle", pack |-> 0, to |-> {}]
      /\ mcPack' = mcPack /\ mcGroup' = mcGroup /\ mcMail' = mcMail /\ mcLost' = mcLost
      /\ mcUse' \subseteq mcUse \cup {"publish_remote"}
  BY DEF publish_remote
<1>1. McTypes'
  BY <1>e, <1>t DEF McTypes
<1>2. McShape'
  BY <1>e, <1>t DEF McShape
<1>3. McCounts'
  <2>1. \A q : Unsent(q) = 0 /\ Unsent(q)' = 0
    BY <1>e, <1>t, MailCounts, FS_EmptySet DEF Unsent
  <2>2. \A q : Mailed(q)' = Mailed(q)
    BY <1>e DEF Mailed
  <2> QED BY <1>e, <1>t, <2>1, <2>2 DEF McCounts
<1> QED BY <1>e, <1>1, <1>2, <1>3 DEF McInv

\* A subscriber takes a pointer from its queue and closes the package; it is
\* freed when that was the last pointer, sent or still to be sent.
LEMMA McDispatchKeeps ==
    ASSUME McInv, NEW s \in Subscriber, NEW p \in Package, dispatch_subscribe(s, p)
    PROVE  McInv'
<1>t. McTypes /\ McShape /\ McCounts /\ "dispatch" \notin mcUse
  BY DEF McInv
<1> DEFINE old == mcPack[p].reference
           st  == IF old <= 1 THEN "freed" ELSE "live"
<1>e. /\ p \in mcMail[s] /\ mcMail' = [mcMail EXCEPT ![s] = @ \ {p}]
      /\ mcPub' = mcPub /\ mcGroup' = mcGroup /\ mcLost' = mcLost
      /\ mcUse' = IF mcPack[p].state = "freed" THEN mcUse \cup {"dispatch"} ELSE mcUse
  BY DEF dispatch_subscribe
<1>live. mcPack[p].state = "live"
  BY <1>e, <1>t DEF McShape
<1>use. "dispatch" \notin mcUse'
  BY <1>e, <1>live, <1>t
<1>pack. mcPack' = [mcPack EXCEPT ![p] = [reference |-> old - 1, state |-> st]]
  BY <1>live, <1>t DEF dispatch_subscribe, mc_closelocal, McTypes
<1>old. /\ old \in Int /\ old = Cardinality(Mailed(p)) + mcLost[p] + Unsent(p)
        /\ mcLost[p] \in Nat
  BY <1>live, <1>t DEF McCounts, McTypes
<1> HIDE DEF old
<1>eff. /\ mcPack'[p].reference = old - 1 /\ mcPack'[p].state = st
        /\ \A q \in Package : q # p => mcPack'[q] = mcPack[q]
        /\ st \in {"live", "freed"}
  BY <1>pack, <1>t DEF McTypes
<1>mail. \A u \in Subscriber, q \in Package :
           q \in mcMail'[u] <=> q \in mcMail[u] /\ ~(u = s /\ q = p)
  BY <1>e, <1>t DEF McTypes
<1>cm. /\ Cardinality(Mailed(p)) \in Nat /\ Cardinality(Mailed(p)') \in Nat
       /\ Cardinality(Mailed(p)') = Cardinality(Mailed(p)) - 1
       /\ Unsent(p) \in Nat
  <2>1. /\ Cardinality(Mailed(p)) \in Nat /\ Cardinality(Mailed(p)') \in Nat
        /\ Cardinality(Mailed(p)') = Cardinality(Mailed(p))
              + One(p \in mcMail'[s]) - One(p \in mcMail[s])
    BY <1>mail, MailStep
  <2>2. One(p \in mcMail'[s]) = 0 /\ One(p \in mcMail[s]) = 1
    BY <1>mail, <1>e DEF One
  <2> QED BY <2>1, <2>2, <1>t, MailCounts
<1>1. McTypes'
  <2>1. mcMail' \in [Subscriber -> SUBSET Package]
    BY <1>e, <1>t DEF McTypes
  <2>2. mcPack' \in [Package -> [reference : Int, state : {"none", "live", "freed"}]]
    BY <1>pack, <1>old, <1>t, <1>eff DEF McTypes
  <2> QED BY <1>e, <1>t, <2>1, <2>2 DEF McTypes
\* The last one: nobody else has, loses or is to be sent a pointer.
<1>last. ASSUME st = "freed"
         PROVE  /\ Mailed(p)' = {} /\ mcLost[p] = 0
                /\ mcPub.pack = p => mcPub.to = {}
  <2>1. Cardinality(Mailed(p)') = 0 /\ mcLost[p] = 0 /\ Unsent(p) = 0
    BY <1>last, <1>old, <1>cm
  <2>2. Mailed(p)' = {}
    <3>1. Mailed(p)' \in SUBSET Subscriber
      BY DEF Mailed
    <3> QED BY <2>1, <3>1, MulticastAssumption, CountType
  <2>3. ASSUME mcPub.pack = p PROVE mcPub.to = {}
    <3>1. mcPub.to \in SUBSET Subscriber
      BY <1>t DEF McTypes
    <3>2. Cardinality(mcPub.to) = 0
      BY <2>1, <2>3 DEF Unsent
    <3> QED BY <3>1, <3>2, MulticastAssumption, CountType
  <2> QED BY <2>1, <2>2, <2>3
<1>2. McShape'
  <2> HIDE DEF st
  <2>1. \A u \in mcPub.to : mcPub.pack \notin mcMail'[u]
    BY <1>mail, <1>t DEF McShape, McTypes
  <2>2. \A u \in mcPub.to : mcPack'[mcPub.pack].state = "live"
    BY <1>eff, <1>last, <1>t DEF McShape, McTypes
  <2>3. \A q \in Package, u \in Subscriber : q \in mcMail'[u] => mcPack'[q].state = "live"
    <3> SUFFICES ASSUME NEW q \in Package, NEW u \in Subscriber, q \in mcMail'[u]
                 PROVE  mcPack'[q].state = "live"
      OBVIOUS
    <3>1. CASE q = p
      BY <3>1, <1>eff, <1>last DEF Mailed
    <3>2. CASE q # p
      BY <3>2, <1>eff, <1>mail, <1>t DEF McShape
    <3> QED BY <3>1, <3>2
  <2>4. \A q \in Package : mcPack'[q].state # "live" => mcLost[q] = 0
    BY <1>eff, <1>last, <1>t DEF McShape
  <2> QED BY <1>e, <1>t, <2>1, <2>2, <2>3, <2>4 DEF McShape
<1>3. McCounts'
  <2> HIDE DEF st
  <2> SUFFICES ASSUME NEW q \in Package, mcPack'[q].state = "live"
               PROVE  mcPack'[q].reference
                        = Cardinality(Mailed(q)') + mcLost'[q] + Unsent(q)'
    BY DEF McCounts
  <2>1. Unsent(q)' = Unsent(q)
    BY <1>e DEF Unsent
  <2>2. CASE q = p
    BY <2>1, <2>2, <1>eff, <1>old, <1>cm, <1>e
  <2>3. CASE q # p
    <3>1. Mailed(q)' = Mailed(q)
      BY <2>3, <1>mail DEF Mailed
    <3> QED BY <2>1, <2>3, <3>1, <1>eff, <1>e, <1>t DEF McCounts
  <2> QED BY <2>2, <2>3
<1> QED BY <1>1, <1>2, <1>3, <1>use DEF McInv

\* An unpack raises: the pointer is gone, and its reference is a lost one.
LEMMA McRaiseKeeps ==
    ASSUME McInv, NEW s \in Subscriber, NEW p \in Package, unpack_raises(s, p)
    PROVE  McInv'
<1>t. McTypes /\ McShape /\ McCounts /\ "dispatch" \notin mcUse
  BY DEF McInv
<1>e. /\ p \in mcMail[s] /\ mcMail' = [mcMail EXCEPT ![s] = @ \ {p}]
      /\ mcLost' = [mcLost EXCEPT ![p] = @ + 1]
      /\ mcPub' = mcPub /\ mcGroup' = mcGroup /\ mcPack' = mcPack
      /\ mcUse' = IF mcPack[p].state = "freed" THEN mcUse \cup {"dispatch"} ELSE mcUse
  BY DEF unpack_raises
<1>live. mcPack[p].state = "live"
  BY <1>e, <1>t DEF McShape
<1>use. "dispatch" \notin mcUse'
  BY <1>e, <1>live, <1>t
<1>lost. /\ mcLost[p] \in Nat /\ mcLost'[p] = mcLost[p] + 1
         /\ \A q \in Package : q # p => mcLost'[q] = mcLost[q]
  BY <1>e, <1>t DEF McTypes
<1>mail. \A u \in Subscriber, q \in Package :
           q \in mcMail'[u] <=> q \in mcMail[u] /\ ~(u = s /\ q = p)
  BY <1>e, <1>t DEF McTypes
<1>1. McTypes'
  <2>1. mcMail' \in [Subscriber -> SUBSET Package]
    BY <1>e, <1>t DEF McTypes
  <2>2. mcLost' \in [Package -> Nat]
    BY <1>e, <1>t DEF McTypes
  <2> QED BY <1>e, <1>t, <2>1, <2>2 DEF McTypes
<1>2. McShape'
  <2>1. \A u \in mcPub.to : mcPub.pack \notin mcMail'[u]
    BY <1>mail, <1>t DEF McShape, McTypes
  <2>2. \A q \in Package : mcPack[q].state # "live" => mcLost'[q] = 0
    BY <1>lost, <1>live, <1>t DEF McShape
  <2>3. \A q \in Package, u \in Subscriber : q \in mcMail'[u] => mcPack[q].state = "live"
    BY <1>mail, <1>t DEF McShape
  <2> QED BY <1>e, <1>t, <2>1, <2>2, <2>3 DEF McShape
<1>3. McCounts'
  <2> SUFFICES ASSUME NEW q \in Package, mcPack'[q].state = "live"
               PROVE  mcPack'[q].reference
                        = Cardinality(Mailed(q)') + mcLost'[q] + Unsent(q)'
    BY DEF McCounts
  <2>1. Unsent(q)' = Unsent(q) /\ Unsent(q) \in Nat
    BY <1>e, <1>t, MailCounts DEF Unsent
  <2>2. mcPack'[q].reference = Cardinality(Mailed(q)) + mcLost[q] + Unsent(q)
    BY <1>e, <1>t DEF McCounts
  <2>3. CASE q = p
    <3>1. /\ Cardinality(Mailed(p)) \in Nat /\ Cardinality(Mailed(p)') \in Nat
          /\ Cardinality(Mailed(p)') = Cardinality(Mailed(p))
                + One(p \in mcMail'[s]) - One(p \in mcMail[s])
      BY <1>mail, MailStep
    <3>2. One(p \in mcMail'[s]) = 0 /\ One(p \in mcMail[s]) = 1
      BY <1>mail, <1>e DEF One
    <3> QED BY <2>1, <2>2, <2>3, <3>1, <3>2, <1>lost
  <2>4. CASE q # p
    <3>1. Mailed(q)' = Mailed(q)
      BY <2>4, <1>mail DEF Mailed
    <3> QED BY <2>1, <2>2, <2>4, <3>1, <1>lost
  <2> QED BY <2>3, <2>4
<1> QED BY <1>1, <1>2, <1>3, <1>use DEF McInv

\* A subscriber dies: the pointers in its queue become lost ones.
LEMMA McExitKeeps ==
    ASSUME McInv, NEW s \in Subscriber, subscriber_exit(s)
    PROVE  McInv'
<1>t. McTypes /\ McShape /\ McCounts
  BY DEF McInv
<1>e. /\ mcLost' = [p \in Package |-> mcLost[p] + (IF p \in mcMail[s] THEN 1 ELSE 0)]
      /\ mcMail' = [mcMail EXCEPT ![s] = {}]
      /\ mcPub' = mcPub /\ mcGroup' = mcGroup /\ mcPack' = mcPack /\ mcUse' = mcUse
  BY DEF subscriber_exit
<1>lost. \A q \in Package : /\ mcLost[q] \in Nat
                            /\ mcLost'[q] = mcLost[q] + One(q \in mcMail[s])
  BY <1>e, <1>t DEF One, McTypes
<1>mail. /\ \A u \in Subscriber : u # s => mcMail'[u] = mcMail[u]
         /\ mcMail'[s] = {}
  BY <1>e, <1>t DEF McTypes
<1>1. McTypes'
  <2>1. mcMail' \in [Subscriber -> SUBSET Package]
    BY <1>e, <1>t DEF McTypes
  <2>2. mcLost' \in [Package -> Nat]
    BY <1>e, <1>t DEF McTypes
  <2> QED BY <1>e, <1>t, <2>1, <2>2 DEF McTypes
<1>2. McShape'
  <2>1. \A u \in Subscriber : mcMail'[u] \subseteq mcMail[u]
    BY <1>mail
  <2>2. \A q \in Package : mcPack[q].state # "live" => mcLost'[q] = 0
    BY <1>lost, <1>t DEF McShape, One
  <2> QED BY <1>e, <1>t, <2>1, <2>2 DEF McShape, McTypes
<1>3. McCounts'
  <2> SUFFICES ASSUME NEW q \in Package, mcPack'[q].state = "live"
               PROVE  mcPack'[q].reference
                        = Cardinality(Mailed(q)') + mcLost'[q] + Unsent(q)'
    BY DEF McCounts
  <2>1. /\ Cardinality(Mailed(q)) \in Nat /\ Cardinality(Mailed(q)') \in Nat
        /\ Cardinality(Mailed(q)') = Cardinality(Mailed(q))
              + One(q \in mcMail'[s]) - One(q \in mcMail[s])
    BY <1>mail, MailStep
  <2>2. Unsent(q)' = Unsent(q) /\ Unsent(q) \in Nat
    BY <1>e, <1>t, MailCounts DEF Unsent
  <2>3. mcPack'[q].reference = Cardinality(Mailed(q)) + mcLost[q] + Unsent(q)
    BY <1>e, <1>t DEF McCounts
  <2>4. One(q \in mcMail'[s]) = 0 /\ One(q \in mcMail[s]) \in Nat
    BY <1>mail DEF One
  <2>5. mcLost[q] \in Nat /\ mcLost'[q] = mcLost[q] + One(q \in mcMail[s])
    BY <1>lost
  <2> QED BY <2>1, <2>2, <2>3, <2>4, <2>5
<1> QED BY <1>1, <1>2, <1>3, <1>e DEF McInv

LEMMA McNextInv == McInv /\ [MulticastNext]_mcVars => McInv'
<1>1. McInv /\ UNCHANGED mcVars => McInv'
  BY DEF McInv, McTypes, McShape, McCounts, Mailed, Unsent, mcVars
<1> QED BY <1>1, McGroupKeeps, McPublishKeeps, McSendKeeps, McRemoteKeeps,
           McDispatchKeeps, McRaiseKeeps, McExitKeeps DEF MulticastNext

LEMMA McInvExact == McInv => MulticastExact
  BY DEF McInv, McShape, McCounts, MulticastExact, Mailed, Unsent

THEOREM MulticastInvariance == MulticastSpec => []McInv
  BY McInitInv, McNextInv, PTL DEF MulticastSpec

\* mc_closelocal by the last subscriber, and only by it, frees a package of
\* lmulticast.c, although subscribers close while multicastd is still
\* sending, leave the channel or die with the package in their queue; a
\* reference that dies with a subscriber, or that an unpack's error keeps
\* from mc.close, is counted as lost and leaves the package allocated.
THEOREM MulticastCounted == MulticastSpec => []MulticastExact
  BY MulticastInvariance, McInvExact, PTL

-----------------------------------------------------------------------------
(* lsharedata.c *)

Gone  == {"condemned", "deleted"}
Total == Cardinality(Tabs)
Tab   == [ref : Int, dirty : BOOLEAN, at : {"pool", "retired", "condemned", "deleted"}]
Box(n) ==
    [phase : {"none", "queried", "confirms", "asks", "waits", "told", "boxed"},
     obj : 0 .. n, upd : 0 .. n, msg : 0 .. n]

SdTypes ==
    /\ Total \in Nat \ {0}
    /\ sdTab \in [1 .. Total -> Tab]
    /\ sdCli \in [SdClient -> Box(Total)]
    /\ sdWatch \subseteq SdClient

\* A client has no box before it has boxed the answer to its query, and a
\* pointer on its way where it goes on to use one.
BoxShape(b) ==
    /\ b.phase \in {"none", "queried"} => b.obj = 0 /\ b.upd = 0
    /\ b.phase \in {"queried", "confirms", "told"} => b.msg # 0

SdShape ==
    /\ \A c \in SdClient : BoxShape(sdCli[c])
    /\ \A c \in sdWatch : sdCli[c].phase = "waits"

Objs(t) == {c \in SdClient : sdCli[c].obj = t}
Upds(t) == {c \in SdClient : sdCli[c].upd = t}
Msgs(t) == {c \in SdClient : sdCli[c].phase \in {"queried", "confirms"} /\ sdCli[c].msg = t}
Boxes(t) == Cardinality(Objs(t)) + Cardinality(Upds(t)) + Cardinality(Msgs(t))

SdCounts ==
    \A t \in 1 .. Total :
        /\ sdTab[t].at # "deleted" => sdTab[t].ref = Boxes(t) + One(sdTab[t].at = "pool")
        /\ sdTab[t].at \in Gone => Boxes(t) = 0 \/ t \in sdLate

SdInv == SdTypes /\ SdShape /\ SdCounts

\* What a client with box b contributes to Boxes(t).
Share(b, t) ==
    One(b.obj = t) + One(b.upd = t) + One(b.phase \in {"queried", "confirms"} /\ b.msg = t)

LEMMA BoxCounts ==
    ASSUME NEW t
    PROVE  /\ Cardinality(Objs(t)) \in Nat /\ Cardinality(Upds(t)) \in Nat
           /\ Cardinality(Msgs(t)) \in Nat /\ Boxes(t) \in Nat
           /\ Boxes(t) = 0 => \A c \in SdClient : Share(sdCli[c], t) = 0
<1>1. Objs(t) \in SUBSET SdClient /\ Upds(t) \in SUBSET SdClient /\ Msgs(t) \in SUBSET SdClient
  BY DEF Objs, Upds, Msgs
<1>2. /\ Cardinality(Objs(t)) \in Nat /\ Cardinality(Upds(t)) \in Nat
      /\ Cardinality(Msgs(t)) \in Nat
      /\ Cardinality(Objs(t)) = 0 => Objs(t) = {}
      /\ Cardinality(Upds(t)) = 0 => Upds(t) = {}
      /\ Cardinality(Msgs(t)) = 0 => Msgs(t) = {}
  BY <1>1, ShareDataAssumption, CountType
<1>3. ASSUME Boxes(t) = 0, NEW c \in SdClient PROVE Share(sdCli[c], t) = 0
  <2>1. Objs(t) = {} /\ Upds(t) = {} /\ Msgs(t) = {}
    <3>1. /\ Cardinality(Objs(t)) = 0 /\ Cardinality(Upds(t)) = 0
          /\ Cardinality(Msgs(t)) = 0
      BY <1>2, <1>3 DEF Boxes
    <3> QED BY <1>2, <3>1
  <2>2. /\ sdCli[c].obj # t /\ sdCli[c].upd # t
        /\ ~(sdCli[c].phase \in {"queried", "confirms"} /\ sdCli[c].msg = t)
    BY <2>1 DEF Objs, Upds, Msgs
  <2> QED BY <2>2 DEF Share, One
<1> QED BY <1>2, <1>3 DEF Boxes

LEMMA BoxStep ==
    ASSUME NEW c \in SdClient, \A d \in SdClient : d # c => sdCli'[d] = sdCli[d], NEW t
    PROVE  /\ Boxes(t)' \in Nat
           /\ Boxes(t)' = Boxes(t) + Share(sdCli'[c], t) - Share(sdCli[c], t)
<1>fin. IsFiniteSet(SdClient)
  BY ShareDataAssumption
<1>1. /\ Cardinality(Objs(t)) \in Nat /\ Cardinality(Objs(t)') \in Nat
      /\ Cardinality(Objs(t)') = Cardinality(Objs(t))
            + One(sdCli'[c].obj = t) - One(sdCli[c].obj = t)
  <2>1. /\ Objs(t) \in SUBSET SdClient /\ Objs(t)' \in SUBSET SdClient
        /\ \A d \in SdClient : d # c => (d \in Objs(t) <=> d \in Objs(t)')
        /\ c \in Objs(t) <=> sdCli[c].obj = t
        /\ c \in Objs(t)' <=> sdCli'[c].obj = t
    BY DEF Objs
  <2> QED BY <1>fin, <2>1, CountStep DEF One
<1>2. /\ Cardinality(Upds(t)) \in Nat /\ Cardinality(Upds(t)') \in Nat
      /\ Cardinality(Upds(t)') = Cardinality(Upds(t))
            + One(sdCli'[c].upd = t) - One(sdCli[c].upd = t)
  <2>1. /\ Upds(t) \in SUBSET SdClient /\ Upds(t)' \in SUBSET SdClient
        /\ \A d \in SdClient : d # c => (d \in Upds(t) <=> d \in Upds(t)')
        /\ c \in Upds(t) <=> sdCli[c].upd = t
        /\ c \in Upds(t)' <=> sdCli'[c].upd = t
    BY DEF Upds
  <2> QED BY <1>fin, <2>1, CountStep DEF One
<1>3. /\ Cardinality(Msgs(t)) \in Nat /\ Cardinality(Msgs(t)') \in Nat
      /\ Cardinality(Msgs(t)') = Cardinality(Msgs(t))
            + One(sdCli'[c].phase \in {"queried", "confirms"} /\ sdCli'[c].msg = t)
            - One(sdCli[c].phase \in {"queried", "confirms"} /\ sdCli[c].msg = t)
  <2>1. /\ Msgs(t) \in SUBSET SdClient /\ Msgs(t)' \in SUBSET SdClient
        /\ \A d \in SdClient : d # c => (d \in Msgs(t) <=> d \in Msgs(t)')
        /\ c \in Msgs(t) <=> sdCli[c].phase \in {"queried", "confirms"} /\ sdCli[c].msg = t
        /\ c \in Msgs(t)' <=> sdCli'[c].phase \in {"queried", "confirms"} /\ sdCli'[c].msg = t
    BY DEF Msgs
  <2> QED BY <1>fin, <2>1, CountStep DEF One
<1> QED BY <1>1, <1>2, <1>3 DEF Boxes, Share, One

\* What lincref and ldecref do to the tables.
LEMMA RefEffect ==
    ASSUME NEW n \in Nat, NEW tab \in [1 .. n -> Tab], NEW t \in 0 .. n, NEW k \in Int
    PROVE  /\ Ref(tab, t, k) \in [1 .. n -> Tab]
           /\ \A u \in 1 .. n : /\ Ref(tab, t, k)[u].at = tab[u].at
                                /\ Ref(tab, t, k)[u].ref = tab[u].ref + k * One(u = t)
<1>1. CASE t = 0
  BY <1>1 DEF Ref, One, Tab
<1>2. CASE t # 0
  <2>1. Ref(tab, t, k) = [tab EXCEPT ![t] = [tab[t] EXCEPT !.ref = tab[t].ref + k]]
    BY <1>2 DEF Ref
  <2>2. tab[t] \in Tab /\ t \in 1 .. n
    BY <1>2
  <2>3. [tab[t] EXCEPT !.ref = tab[t].ref + k] \in Tab
    BY <2>2 DEF Tab
  <2>4. Ref(tab, t, k) \in [1 .. n -> Tab]
    BY <2>1, <2>3
  <2>5. ASSUME NEW u \in 1 .. n
        PROVE  /\ Ref(tab, t, k)[u].at = tab[u].at
               /\ Ref(tab, t, k)[u].ref = tab[u].ref + k * One(u = t)
    BY <2>1, <2>2 DEF One, Tab
  <2> QED BY <2>4, <2>5
<1> QED BY <1>1, <1>2

\* A step of one client, or of the host for one client: the tables' counts
\* change as the client's boxes do, and it holds no deleted table it did not
\* hold before, unless the table is one of the late ones.
LEMMA ClientRule ==
    ASSUME SdInv, NEW c \in SdClient,
           sdTab' \in [1 .. Total -> Tab],
           sdCli'[c] \in Box(Total), sdCli' = [sdCli EXCEPT ![c] = sdCli'[c]],
           BoxShape(sdCli'[c]),
           sdWatch' \subseteq sdWatch \cup {c}, c \in sdWatch' => sdCli'[c].phase = "waits",
           sdLate \subseteq sdLate',
           \A t \in 1 .. Total :
              /\ sdTab'[t].at = sdTab[t].at
              /\ sdTab[t].at # "deleted" =>
                    sdTab'[t].ref = sdTab[t].ref + Share(sdCli'[c], t) - Share(sdCli[c], t)
              /\ sdTab[t].at \in Gone /\ t \notin sdLate' /\ Share(sdCli[c], t) = 0 =>
                    Share(sdCli'[c], t) = 0
    PROVE  SdInv'
<1> DEFINE n == Total
<1>n. n \in Nat \ {0} /\ sdTab \in [1 .. n -> Tab] /\ sdCli \in [SdClient -> Box(n)]
      /\ sdWatch \subseteq SdClient
  BY DEF SdInv, SdTypes
<1>m. Total' = n
  BY <1>n, FS_Interval DEF Total, Tabs
<1>o. \A d \in SdClient : d # c => sdCli'[d] = sdCli[d]
  BY <1>n
<1>1. SdTypes'
  BY <1>n, <1>m DEF SdTypes
<1>2. SdShape'
  <2>1. \A d \in SdClient : BoxShape(sdCli'[d])
    BY <1>o DEF SdInv, SdShape
  <2>2. \A d \in sdWatch' : sdCli'[d].phase = "waits"
    BY <1>o, <1>n DEF SdInv, SdShape
  <2> QED BY <2>1, <2>2 DEF SdShape
<1>3. SdCounts'
  <2> SUFFICES ASSUME NEW t \in 1 .. n
               PROVE  /\ sdTab'[t].at # "deleted" =>
                           sdTab'[t].ref = Boxes(t)' + One(sdTab'[t].at = "pool")
                      /\ sdTab'[t].at \in Gone => Boxes(t)' = 0 \/ t \in sdLate'
    BY <1>m DEF SdCounts
  <2>1. /\ Boxes(t)' \in Nat /\ Boxes(t) \in Nat
        /\ Boxes(t)' = Boxes(t) + Share(sdCli'[c], t) - Share(sdCli[c], t)
    BY <1>o, BoxStep, BoxCounts
  <2>2. Share(sdCli'[c], t) \in Int /\ Share(sdCli[c], t) \in Int
    BY DEF Share, One
  <2>3. ASSUME sdTab[t].at # "deleted"
        PROVE  sdTab'[t].ref = Boxes(t)' + One(sdTab'[t].at = "pool")
    <3>1. sdTab[t].ref = Boxes(t) + One(sdTab[t].at = "pool")
      BY <2>3 DEF SdInv, SdCounts
    <3>2. One(sdTab[t].at = "pool") \in Int
      BY DEF One
    <3> QED BY <2>1, <2>2, <2>3, <3>1, <3>2
  <2>4. ASSUME sdTab[t].at \in Gone, t \notin sdLate'
        PROVE  Boxes(t)' = 0
    <3>1. Boxes(t) = 0
      BY <2>4 DEF SdInv, SdCounts
    <3>2. Share(sdCli[c], t) = 0 /\ Share(sdCli'[c], t) = 0
      BY <2>4, <3>1, BoxCounts
    <3> QED BY <2>1, <2>4, <3>1, <3>2
  <2> QED BY <2>3, <2>4
<1> QED BY <1>1, <1>2, <1>3 DEF SdInv

LEMMA SdInitInv == ShareDataInit => SdInv
<1> SUFFICES ASSUME ShareDataInit PROVE SdInv
  OBVIOUS
<1>1. Total = 1
  <2>1. Tabs = {1}
    BY DEF ShareDataInit, Tabs
  <2> QED BY <2>1, FS_Singleton DEF Total
<1>2. SdTypes
  BY <1>1 DEF ShareDataInit, SdTypes, Tab, Box
<1>3. SdShape
  BY DEF ShareDataInit, SdShape, BoxShape
<1>4. Objs(1) = {} /\ Upds(1) = {} /\ Msgs(1) = {}
  BY DEF ShareDataInit, Objs, Upds, Msgs
<1>5. SdCounts
  BY <1>1, <1>4, FS_EmptySet DEF ShareDataInit, SdCounts, Boxes, One
<1> QED BY <1>2, <1>3, <1>5 DEF SdInv

\* The pool's table, when there is one.
LEMMA CurrentInPool ==
    ASSUME SdTypes, InPool # {}
    PROVE  Current \in 1 .. Total /\ sdTab[Current].at = "pool"
<1>1. Current \in InPool
  BY DEF Current
<1> QED BY <1>1 DEF InPool, Tabs, SdTypes

LEMMA SdClientKeeps ==
    ASSUME SdInv, NEW c \in SdClient,
           \/ query(c) \/ monitor(c) \/ confirm(c) \/ lboxconf(c)
           \/ lupdate(c) \/ update_refused(c) \/ getcobj(c)
    PROVE  SdInv'
<1> DEFINE n == Total
           b == sdCli[c]
<1>n. n \in Nat \ {0} /\ sdTab \in [1 .. n -> Tab] /\ b \in Box(n)
      /\ sdCli \in [SdClient -> Box(n)]
  BY DEF SdInv, SdTypes
<1>int. \A t \in 1 .. n : sdTab[t].ref \in Int
  BY <1>n DEF Tab
<1>b. BoxShape(b) /\ (c \in sdWatch => b.phase = "waits")
  BY DEF SdInv, SdShape
<1>1. CASE query(c)
  <2> DEFINE k == Current
  <2>1. /\ b.phase = "none" /\ sdTab' = Ref(sdTab, k, 1)
        /\ sdCli' = [sdCli EXCEPT ![c].phase = "queried", ![c].msg = k]
        /\ sdWatch' = sdWatch /\ sdLate' = sdLate
    BY <1>1 DEF query
  <2>2. k \in 1 .. n /\ sdTab[k].at = "pool"
    BY <1>1, CurrentInPool DEF query, SdInv
  <2> HIDE DEF k
  <2>3. /\ sdCli' = [sdCli EXCEPT ![c] = sdCli'[c]] /\ sdCli'[c].phase = "queried"
        /\ sdCli'[c].obj = b.obj /\ sdCli'[c].upd = b.upd /\ sdCli'[c].msg = k
        /\ sdCli'[c] \in Box(n)
    <3>1. /\ sdCli' = [sdCli EXCEPT ![c] = sdCli'[c]]
          /\ sdCli'[c] = [b EXCEPT !.phase = "queried", !.msg = k]
      BY <2>1, <1>n
    <3>2. k \in 0 .. n
      BY <2>2, <1>n
    <3> QED BY <3>1, <3>2, <1>n DEF Box
  <2>4. BoxShape(sdCli'[c]) /\ c \notin sdWatch'
    BY <2>1, <2>2, <2>3, <1>b, <1>n DEF BoxShape
  <2>5. /\ sdTab' \in [1 .. n -> Tab]
        /\ \A t \in 1 .. n : /\ sdTab'[t].at = sdTab[t].at
                             /\ sdTab'[t].ref = sdTab[t].ref + 1 * One(t = k)
    BY <2>1, <2>2, <1>n, RefEffect
  <2>6. \A t \in 1 .. n : Share(sdCli'[c], t) = Share(b, t) + One(t = k)
    BY <2>1, <2>3 DEF Share, One
  <2>7. \A t \in 1 .. n : Share(b, t) \in Int /\ One(t = k) \in Int
    BY DEF Share, One
  <2>8. ASSUME NEW t \in 1 .. n
        PROVE  /\ sdTab'[t].ref = sdTab[t].ref + Share(sdCli'[c], t) - Share(b, t)
               /\ sdTab[t].at \in Gone => Share(sdCli'[c], t) = Share(b, t)
    <3>1. sdTab'[t].ref = sdTab[t].ref + 1 * One(t = k)
      BY <2>5
    <3>2. Share(sdCli'[c], t) = Share(b, t) + One(t = k)
      BY <2>6
    <3>3. Share(b, t) \in Int /\ One(t = k) \in Int /\ sdTab[t].ref \in Int
      BY <2>7, <1>int
    <3>4. sdTab[t].at \in Gone => One(t = k) = 0
      BY <2>2 DEF One, Gone
    <3> QED BY <3>1, <3>2, <3>3, <3>4
  <2> QED BY <2>1, <2>3, <2>4, <2>5, <2>8, ClientRule
<1>2. CASE monitor(c)
  <2>1. /\ b.phase = "asks" /\ sdTab' = sdTab /\ sdLate' = sdLate
        /\ \/ sdCli' = [sdCli EXCEPT ![c].phase = "boxed"] /\ sdWatch' = sdWatch
           \/ /\ InPool # {} /\ sdCli' = [sdCli EXCEPT ![c].phase = "told", ![c].msg = Current]
              /\ sdWatch' = sdWatch
           \/ sdCli' = [sdCli EXCEPT ![c].phase = "waits"] /\ sdWatch' = sdWatch \cup {c}
    BY <1>2 DEF monitor
  <2>2. InPool # {} => Current \in 1 .. n
    BY CurrentInPool DEF SdInv
  <2>3. /\ sdCli' = [sdCli EXCEPT ![c] = sdCli'[c]] /\ sdCli'[c] \in Box(n)
        /\ sdCli'[c].obj = b.obj /\ sdCli'[c].upd = b.upd
        /\ sdCli'[c].phase \in {"boxed", "told", "waits"}
        /\ sdCli'[c].phase = "told" => sdCli'[c].msg # 0
        /\ sdWatch' \subseteq sdWatch \cup {c}
        /\ c \in sdWatch' => sdCli'[c].phase = "waits"
    <3>w. c \notin sdWatch
      BY <2>1, <1>b
    <3>1. CASE sdCli' = [sdCli EXCEPT ![c].phase = "boxed"] /\ sdWatch' = sdWatch
      BY <3>w, <3>1, <1>n DEF Box
    <3>2. CASE /\ InPool # {}
               /\ sdCli' = [sdCli EXCEPT ![c].phase = "told", ![c].msg = Current]
               /\ sdWatch' = sdWatch
      <4>1. PICK k \in 1 .. n : k = Current
        BY <2>2, <3>2
      <4>2. sdCli' = [sdCli EXCEPT ![c].phase = "told", ![c].msg = k]
        BY <3>2, <4>1
      <4>3. /\ sdCli' = [sdCli EXCEPT ![c] = sdCli'[c]]
            /\ sdCli'[c] = [b EXCEPT !.phase = "told", !.msg = k]
        BY <4>2, <1>n
      <4>4. k \in 0 .. n /\ k # 0
        BY <4>1, <1>n
      <4> HIDE DEF b
      <4>5. /\ sdCli'[c] \in Box(n) /\ sdCli'[c].obj = b.obj /\ sdCli'[c].upd = b.upd
            /\ sdCli'[c].phase = "told" /\ sdCli'[c].msg = k
        BY <4>3, <4>4, <1>n DEF Box
      <4> QED BY <3>w, <3>2, <4>3, <4>4, <4>5
    <3>3. CASE /\ sdCli' = [sdCli EXCEPT ![c].phase = "waits"]
               /\ sdWatch' = sdWatch \cup {c}
      BY <3>3, <1>n DEF Box
    <3> QED BY <2>1, <3>1, <3>2, <3>3
  <2>4. \A t : Share(sdCli'[c], t) = Share(b, t)
    BY <2>1, <2>3 DEF Share, One
  <2>5. \A t : Share(b, t) \in Int
    BY DEF Share, One
  <2>6. BoxShape(sdCli'[c])
    BY <2>3 DEF BoxShape
  <2>7. \A t \in 1 .. n : sdTab'[t].ref = sdTab[t].ref + Share(sdCli'[c], t) - Share(b, t)
    BY <2>1, <2>4, <2>5, <1>int
  <2> QED BY <2>1, <2>3, <2>4, <2>6, <2>7, <1>n, ClientRule
<1>3. CASE confirm(c)
  <2> DEFINE k == b.msg
  <2>1. /\ b.phase = "confirms"
        /\ sdTab' = IF sdTab[k].at # "deleted" THEN Ref(sdTab, k, -1) ELSE sdTab
        /\ sdCli' = [sdCli EXCEPT ![c].phase = "asks", ![c].msg = 0]
        /\ sdWatch' = sdWatch /\ sdLate' = sdLate
    BY <1>3 DEF confirm
  <2>2. k \in 1 .. n
    BY <2>1, <1>b, <1>n DEF BoxShape, Box
  <2>3. /\ sdCli' = [sdCli EXCEPT ![c] = sdCli'[c]] /\ sdCli'[c].phase = "asks"
        /\ sdCli'[c].obj = b.obj /\ sdCli'[c].upd = b.upd
        /\ sdCli'[c] \in Box(n)
    <3>1. /\ sdCli' = [sdCli EXCEPT ![c] = sdCli'[c]]
          /\ sdCli'[c] = [b EXCEPT !.phase = "asks", !.msg = 0]
      BY <2>1, <1>n
    <3>2. 0 \in 0 .. n
      BY <1>n
    <3> QED BY <3>1, <3>2, <1>n DEF Box
  <2>4. BoxShape(sdCli'[c]) /\ c \notin sdWatch'
    BY <2>1, <2>3, <1>b DEF BoxShape
  <2>5. \A t : /\ Share(b, t) = Share(sdCli'[c], t) + One(t = k)
               /\ Share(sdCli'[c], t) \in Nat /\ One(t = k) \in Nat
    BY <2>1, <2>3 DEF Share, One
  <2> HIDE DEF k
  <2>6. /\ sdTab' \in [1 .. n -> Tab]
        /\ \A t \in 1 .. n : /\ sdTab'[t].at = sdTab[t].at
                             /\ sdTab[t].at # "deleted" =>
                                  sdTab'[t].ref = sdTab[t].ref - One(t = k)
    <3>1. CASE sdTab[k].at # "deleted"
      <4>1. /\ sdTab' \in [1 .. n -> Tab]
            /\ \A t \in 1 .. n : /\ sdTab'[t].at = sdTab[t].at
                                 /\ sdTab'[t].ref = sdTab[t].ref + (-1) * One(t = k)
        BY <2>1, <2>2, <3>1, <1>n, RefEffect
      <4> QED BY <4>1, <1>int DEF One
    <3>2. CASE sdTab[k].at = "deleted"
      BY <2>1, <3>2, <1>n, <1>int DEF One
    <3> QED BY <3>1, <3>2
  <2>7. ASSUME NEW t \in 1 .. n
        PROVE  /\ sdTab[t].at # "deleted" =>
                     sdTab'[t].ref = sdTab[t].ref + Share(sdCli'[c], t) - Share(b, t)
               /\ Share(b, t) = 0 => Share(sdCli'[c], t) = 0
    <3>1. /\ Share(b, t) = Share(sdCli'[c], t) + One(t = k)
          /\ Share(sdCli'[c], t) \in Nat /\ One(t = k) \in Nat /\ sdTab[t].ref \in Int
      BY <2>5, <1>int
    <3>2. sdTab[t].at # "deleted" => sdTab'[t].ref = sdTab[t].ref - One(t = k)
      BY <2>6
    <3> QED BY <3>1, <3>2
  <2> QED BY <2>1, <2>3, <2>4, <2>6, <2>7, ClientRule
<1>4. CASE lboxconf(c)
  <2> DEFINE k == b.msg
  <2>1. /\ b.phase = "queried" /\ sdTab' = Ref(sdTab, k, 1)
        /\ sdCli' = [sdCli EXCEPT ![c].phase = "confirms", ![c].obj = k]
        /\ sdWatch' = sdWatch /\ sdLate' = sdLate
    BY <1>4 DEF lboxconf
  <2>2. k \in 1 .. n /\ b.obj = 0
    BY <2>1, <1>b, <1>n DEF BoxShape, Box
  <2>3. /\ sdCli' = [sdCli EXCEPT ![c] = sdCli'[c]] /\ sdCli'[c].phase = "confirms"
        /\ sdCli'[c].obj = k /\ sdCli'[c].upd = b.upd /\ sdCli'[c].msg = b.msg
        /\ sdCli'[c] \in Box(n)
    BY <2>1, <2>2, <1>n DEF Box
  <2>4. BoxShape(sdCli'[c]) /\ c \notin sdWatch'
    BY <2>1, <2>2, <2>3, <1>b, <1>n DEF BoxShape
  <2>5. \A t \in 1 .. n : /\ Share(sdCli'[c], t) = Share(b, t) + One(t = k)
                          /\ Share(b, t) \in Nat /\ One(t = k) \in Nat
                          /\ Share(b, t) >= One(t = k)
    BY <2>1, <2>2, <2>3 DEF Share, One
  <2> HIDE DEF k
  <2>6. /\ sdTab' \in [1 .. n -> Tab]
        /\ \A t \in 1 .. n : /\ sdTab'[t].at = sdTab[t].at
                             /\ sdTab'[t].ref = sdTab[t].ref + 1 * One(t = k)
    BY <2>1, <2>2, <1>n, RefEffect
  <2>7. ASSUME NEW t \in 1 .. n
        PROVE  /\ sdTab'[t].ref = sdTab[t].ref + Share(sdCli'[c], t) - Share(b, t)
               /\ Share(b, t) = 0 => Share(sdCli'[c], t) = 0
    <3>1. /\ Share(sdCli'[c], t) = Share(b, t) + One(t = k) /\ Share(b, t) >= One(t = k)
          /\ Share(b, t) \in Nat /\ One(t = k) \in Nat /\ sdTab[t].ref \in Int
      BY <2>5, <1>int
    <3>2. sdTab'[t].ref = sdTab[t].ref + 1 * One(t = k)
      BY <2>6
    <3> QED BY <3>1, <3>2
  <2> QED BY <2>1, <2>3, <2>4, <2>6, <2>7, ClientRule
<1>5. CASE lupdate(c)
  <2> DEFINE k == b.msg
             u == b.upd
             mid == Ref(sdTab, k, 1)
  <2>1. /\ b.phase = "told" /\ sdTab' = Ref(mid, u, -1)
        /\ sdCli' = [sdCli EXCEPT ![c] = [b EXCEPT !.phase = "asks", !.upd = k, !.msg = 0]]
        /\ sdWatch' = sdWatch
        /\ sdLate' = IF sdTab[k].at \in Gone THEN sdLate \cup {k} ELSE sdLate
    BY <1>5 DEF lupdate, Gone
  <2>2. k \in 1 .. n /\ u \in 0 .. n
    BY <2>1, <1>b, <1>n DEF BoxShape, Box
  <2>3. /\ sdCli' = [sdCli EXCEPT ![c] = sdCli'[c]] /\ sdCli'[c].phase = "asks"
        /\ sdCli'[c].obj = b.obj /\ sdCli'[c].upd = k
        /\ sdCli'[c] \in Box(n)
    <3>1. /\ sdCli' = [sdCli EXCEPT ![c] = sdCli'[c]]
          /\ sdCli'[c] = [b EXCEPT !.phase = "asks", !.upd = k, !.msg = 0]
      BY <2>1, <1>n
    <3>2. 0 \in 0 .. n /\ k \in 0 .. n
      BY <2>2, <1>n
    <3> HIDE DEF k
    <3> QED BY <3>1, <3>2, <1>n DEF Box
  <2>4. BoxShape(sdCli'[c]) /\ c \notin sdWatch'
    BY <2>1, <2>3, <1>b DEF BoxShape
  <2>5. \A t \in 1 .. n : /\ Share(sdCli'[c], t) = Share(b, t) + One(t = k) - One(t = u)
                          /\ Share(b, t) \in Nat /\ One(t = k) \in Nat /\ One(t = u) \in Nat
                          /\ Share(b, t) >= One(t = u)
    BY <2>1, <2>3 DEF Share, One
  <2> HIDE DEF k, u, mid
  <2>6. /\ mid \in [1 .. n -> Tab]
        /\ \A t \in 1 .. n : /\ mid[t].at = sdTab[t].at
                             /\ mid[t].ref = sdTab[t].ref + 1 * One(t = k)
    BY <2>2, <1>n, RefEffect DEF mid
  <2>7. /\ sdTab' \in [1 .. n -> Tab]
        /\ \A t \in 1 .. n : /\ sdTab'[t].at = mid[t].at
                             /\ sdTab'[t].ref = mid[t].ref + (-1) * One(t = u)
    BY <2>1, <2>2, <2>6, <1>n, RefEffect
  <2>8. sdLate \subseteq sdLate'
        /\ \A t \in 1 .. n : sdTab[t].at \in Gone /\ t \notin sdLate' => One(t = k) = 0
    BY <2>1 DEF One
  <2>9. ASSUME NEW t \in 1 .. n
        PROVE  /\ sdTab'[t].at = sdTab[t].at
               /\ sdTab'[t].ref = sdTab[t].ref + Share(sdCli'[c], t) - Share(b, t)
               /\ sdTab[t].at \in Gone /\ t \notin sdLate' /\ Share(b, t) = 0 =>
                     Share(sdCli'[c], t) = 0
    <3>1. /\ Share(sdCli'[c], t) = Share(b, t) + One(t = k) - One(t = u)
          /\ Share(b, t) \in Nat /\ One(t = k) \in Nat /\ One(t = u) \in Nat
          /\ Share(b, t) >= One(t = u) /\ sdTab[t].ref \in Int
      BY <2>5, <1>int
    <3>2. /\ mid[t].ref = sdTab[t].ref + 1 * One(t = k)
          /\ sdTab'[t].ref = mid[t].ref + (-1) * One(t = u)
          /\ sdTab'[t].at = sdTab[t].at
      BY <2>6, <2>7
    <3> QED BY <3>1, <3>2, <2>8
  <2> QED BY <2>1, <2>3, <2>4, <2>7, <2>8, <2>9, ClientRule
<1>6. CASE getcobj(c)
  <2> DEFINE k == b.obj
             u == b.upd
  <2>1. /\ k # 0 /\ u # 0 /\ sdTab' = Ref(sdTab, k, -1)
        /\ sdCli' = [sdCli EXCEPT ![c].obj = u, ![c].upd = 0]
        /\ sdWatch' = sdWatch /\ sdLate' = sdLate
    BY <1>6 DEF getcobj
  <2>2. k \in 1 .. n /\ u \in 1 .. n
    BY <2>1, <1>n DEF Box
  <2>3. /\ sdCli' = [sdCli EXCEPT ![c] = sdCli'[c]] /\ sdCli'[c].phase = b.phase
        /\ sdCli'[c].obj = u /\ sdCli'[c].upd = 0 /\ sdCli'[c].msg = b.msg
        /\ sdCli'[c] \in Box(n)
    <3>1. /\ sdCli' = [sdCli EXCEPT ![c] = sdCli'[c]]
          /\ sdCli'[c] = [b EXCEPT !.obj = u, !.upd = 0]
      BY <2>1, <1>n
    <3>2. 0 \in 0 .. n /\ u \in 0 .. n
      BY <2>2, <1>n
    <3> HIDE DEF u
    <3> QED BY <3>1, <3>2, <1>n DEF Box
  <2>4. BoxShape(sdCli'[c]) /\ (c \in sdWatch' => sdCli'[c].phase = "waits")
    BY <2>1, <2>3, <1>b DEF BoxShape
  <2>5. \A t \in 1 .. n : /\ Share(b, t) = Share(sdCli'[c], t) + One(t = k)
                          /\ Share(sdCli'[c], t) \in Nat /\ One(t = k) \in Nat
    BY <2>3 DEF Share, One
  <2> HIDE DEF k, u
  <2>6. /\ sdTab' \in [1 .. n -> Tab]
        /\ \A t \in 1 .. n : /\ sdTab'[t].at = sdTab[t].at
                             /\ sdTab'[t].ref = sdTab[t].ref + (-1) * One(t = k)
    BY <2>1, <2>2, <1>n, RefEffect
  <2>7. ASSUME NEW t \in 1 .. n
        PROVE  /\ sdTab'[t].ref = sdTab[t].ref + Share(sdCli'[c], t) - Share(b, t)
               /\ Share(b, t) = 0 => Share(sdCli'[c], t) = 0
    <3>1. /\ Share(b, t) = Share(sdCli'[c], t) + One(t = k)
          /\ Share(sdCli'[c], t) \in Nat /\ One(t = k) \in Nat /\ sdTab[t].ref \in Int
      BY <2>5, <1>int
    <3>2. sdTab'[t].ref = sdTab[t].ref + (-1) * One(t = k)
      BY <2>6
    <3> QED BY <3>1, <3>2
  <2> QED BY <2>1, <2>3, <2>4, <2>6, <2>7, ClientRule
<1>7. CASE update_refused(c)
  <2>1. /\ b.phase = "told" /\ sdTab' = sdTab
        /\ sdCli' = [sdCli EXCEPT ![c].phase = "boxed", ![c].msg = 0]
        /\ sdWatch' = sdWatch /\ sdLate' = sdLate
    BY <1>7 DEF update_refused
  <2>2. /\ sdCli' = [sdCli EXCEPT ![c] = sdCli'[c]] /\ sdCli'[c].phase = "boxed"
        /\ sdCli'[c].obj = b.obj /\ sdCli'[c].upd = b.upd
        /\ sdCli'[c] \in Box(n)
    <3>1. /\ sdCli' = [sdCli EXCEPT ![c] = sdCli'[c]]
          /\ sdCli'[c] = [b EXCEPT !.phase = "boxed", !.msg = 0]
      BY <2>1, <1>n
    <3>2. 0 \in 0 .. n
      BY <1>n
    <3> QED BY <3>1, <3>2, <1>n DEF Box
  <2>3. BoxShape(sdCli'[c]) /\ c \notin sdWatch'
    BY <2>1, <2>2, <1>b DEF BoxShape
  <2>4. \A t : Share(sdCli'[c], t) = Share(b, t) /\ Share(b, t) \in Int
    BY <2>1, <2>2 DEF Share, One
  <2>5. \A t \in 1 .. n : sdTab'[t].ref = sdTab[t].ref + Share(sdCli'[c], t) - Share(b, t)
    <3> SUFFICES ASSUME NEW t \in 1 .. n
                 PROVE  sdTab[t].ref = sdTab[t].ref + Share(sdCli'[c], t) - Share(b, t)
      BY <2>1
    <3>1. /\ Share(sdCli'[c], t) = Share(b, t) /\ Share(b, t) \in Int
          /\ sdTab[t].ref \in Int
      BY <2>4, <1>int
    <3> QED BY ONLY <3>1
  <2>6. \A t \in 1 .. n : sdTab'[t].at = sdTab[t].at
    BY <2>1
  <2>7. \A t \in 1 .. n : Share(b, t) = 0 => Share(sdCli'[c], t) = 0
    BY <2>4
  <2>8. sdTab' \in [1 .. n -> Tab] /\ sdLate \subseteq sdLate' /\ sdWatch' \subseteq sdWatch \cup {c}
    BY <2>1, <1>n
  <2> QED BY <2>2, <2>3, <2>5, <2>6, <2>7, <2>8, ClientRule
<1> QED BY <1>1, <1>2, <1>3, <1>4, <1>5, <1>6, <1>7

\* request:update: the new table has the pool's reference, the one it
\* replaces loses it; the waiting clients are told the new one.
LEMMA SdUpdateKeeps == ASSUME SdInv, update PROVE SdInv'
<1> DEFINE n == Total
<1>n. n \in Nat \ {0} /\ sdTab \in [1 .. n -> Tab] /\ sdCli \in [SdClient -> Box(n)]
      /\ sdWatch \subseteq SdClient /\ Tabs = 1 .. n /\ Cardinality(Tabs) = n
  BY DEF SdInv, SdTypes, Tabs, Total
<1> DEFINE fresh == [ref |-> 1, dirty |-> FALSE, at |-> "pool"]
           was(t) == Retire(sdTab, t)[t]
<1>1. /\ sdTab' = [t \in 1 .. n + 1 |->
                     IF t = n + 1 THEN fresh
                     ELSE IF t \in InPool THEN [was(t) EXCEPT !.dirty = TRUE] ELSE sdTab[t]]
      /\ sdCli' = [c \in SdClient |->
                     IF c \in sdWatch THEN [sdCli[c] EXCEPT !.phase = "told", !.msg = n + 1]
                     ELSE sdCli[c]]
      /\ sdWatch' = {} /\ sdLate' = sdLate
  <2>1. 1 .. n \cup {n + 1} = 1 .. n + 1
    BY <1>n
  <2> QED BY <1>n, <2>1 DEF update
<1> HIDE DEF n, was, fresh
<1>2. Total' = n + 1
  <2>1. DOMAIN sdTab' = 1 .. n + 1
    BY <1>1
  <2>2. n + 1 \in Int /\ Cardinality(1 .. n + 1) = n + 1
    BY <1>n, FS_Interval
  <2> QED BY <2>1, <2>2 DEF Total, Tabs
<1>old. ASSUME NEW t \in 1 .. n
        PROVE  /\ sdTab[t].at # "pool" => sdTab'[t] = sdTab[t]
               /\ sdTab[t].at = "pool" => /\ sdTab'[t] \in Tab /\ sdTab'[t].at = "retired"
                                          /\ sdTab'[t].ref = sdTab[t].ref - 1
  <2>1. t \in InPool <=> sdTab[t].at = "pool"
    BY <1>n DEF InPool
  <2>2. sdTab'[t] = IF t \in InPool THEN [was(t) EXCEPT !.dirty = TRUE] ELSE sdTab[t]
    <3>1. t \in 1 .. n + 1 /\ t # n + 1
      BY <1>n
    <3> QED BY <1>1, <3>1
  <2>3. ASSUME sdTab[t].at = "pool"
        PROVE  /\ was(t) \in Tab /\ was(t).at = "retired" /\ was(t).ref = sdTab[t].ref - 1
    <3> DEFINE mid == [sdTab EXCEPT ![t].at = "retired"]
    <3>1. /\ mid \in [1 .. n -> Tab] /\ mid[t].at = "retired" /\ mid[t].ref = sdTab[t].ref
      BY <1>n DEF Tab
    <3>2. was(t) = Ref(mid, t, -1)[t]
      BY DEF Retire, was
    <3> HIDE DEF mid
    <3>3. t \in 0 .. n /\ -1 \in Int /\ n \in Nat
      BY <1>n
    <3>4. /\ Ref(mid, t, -1) \in [1 .. n -> Tab] /\ Ref(mid, t, -1)[t].at = mid[t].at
          /\ Ref(mid, t, -1)[t].ref = mid[t].ref + (-1) * One(t = t)
      BY <3>1, <3>3, RefEffect
    <3>5. sdTab[t].ref \in Int
      BY <1>n DEF Tab
    <3>6. Ref(mid, t, -1)[t] \in Tab
      BY <3>4
    <3>7. (-1) * One(t = t) = -1
      BY DEF One
    <3> QED BY <3>1, <3>2, <3>4, <3>5, <3>6, <3>7
  <2>4. CASE sdTab[t].at = "pool"
    <3>1. sdTab'[t] = [was(t) EXCEPT !.dirty = TRUE]
      BY <2>1, <2>2, <2>4
    <3> QED BY <3>1, <2>3, <2>4 DEF Tab
  <2>5. CASE sdTab[t].at # "pool"
    BY <2>1, <2>2, <2>5
  <2> QED BY <2>4, <2>5
<1>new. sdTab'[n + 1] = [ref |-> 1, dirty |-> FALSE, at |-> "pool"]
  <2>1. n + 1 \in 1 .. n + 1
    BY <1>n
  <2> QED BY <1>1, <2>1 DEF fresh
<1>cli. ASSUME NEW c \in SdClient
        PROVE  /\ sdCli'[c] \in Box(n + 1) /\ BoxShape(sdCli'[c])
               /\ sdCli'[c].obj = sdCli[c].obj /\ sdCli'[c].upd = sdCli[c].upd
               /\ \A t \in 1 .. n + 1 : c \in Msgs(t)' <=> c \in Msgs(t)
  <2>1. CASE c \in sdWatch
    <3>1. sdCli'[c] = [sdCli[c] EXCEPT !.phase = "told", !.msg = n + 1]
          /\ sdCli[c].phase = "waits" /\ sdCli[c] \in Box(n)
      BY <1>1, <1>n, <2>1 DEF SdInv, SdShape
    <3>2. n + 1 \in 0 .. n + 1 /\ n + 1 # 0 /\ \A x \in 0 .. n : x \in 0 .. n + 1
      BY <1>n
    <3> DEFINE m == n + 1
    <3> HIDE DEF m
    <3>3. /\ sdCli'[c] \in Box(m) /\ sdCli'[c].phase = "told" /\ sdCli'[c].msg = m
          /\ sdCli'[c].obj = sdCli[c].obj /\ sdCli'[c].upd = sdCli[c].upd
      BY <3>1, <3>2 DEF Box, m
    <3> QED BY <3>1, <3>2, <3>3 DEF BoxShape, Msgs, m
  <2>2. CASE c \notin sdWatch
    <3>1. sdCli'[c] = sdCli[c] /\ sdCli[c] \in Box(n) /\ BoxShape(sdCli[c])
      BY <1>1, <1>n, <2>2 DEF SdInv, SdShape
    <3> QED BY <3>1, <1>n DEF Box, Msgs
  <2> QED BY <2>1, <2>2
<1>same. \A t \in 1 .. n + 1 : Boxes(t)' = Boxes(t)
  <2>1. \A t \in 1 .. n + 1 : Objs(t)' = Objs(t) /\ Upds(t)' = Upds(t)
    BY <1>cli DEF Objs, Upds
  <2>2. \A t \in 1 .. n + 1 : Msgs(t)' = Msgs(t)
    <3> SUFFICES ASSUME NEW t \in 1 .. n + 1 PROVE Msgs(t)' = Msgs(t)
      OBVIOUS
    <3>1. Msgs(t) \subseteq SdClient /\ Msgs(t)' \subseteq SdClient
      BY DEF Msgs
    <3>2. \A c \in SdClient : c \in Msgs(t)' <=> c \in Msgs(t)
      BY <1>cli
    <3> QED BY <3>1, <3>2
  <2> QED BY <2>1, <2>2 DEF Boxes
<1>3. SdTypes'
  <2>1. ASSUME NEW t \in 1 .. n + 1 PROVE sdTab'[t] \in Tab
    <3>1. CASE t = n + 1
      BY <3>1, <1>new DEF Tab
    <3>2. CASE t # n + 1
      <4>1. t \in 1 .. n
        BY <1>n, <3>2
      <4> QED BY <1>n, <1>old, <4>1
    <3> QED BY <3>1, <3>2
  <2>2. sdTab' \in [1 .. n + 1 -> Tab]
    BY <1>1, <2>1
  <2>3. sdCli' \in [SdClient -> Box(n + 1)]
    BY <1>1, <1>cli
  <2>4. n + 1 \in Nat \ {0}
    BY <1>n
  <2>5. sdWatch' \subseteq SdClient
    BY <1>1
  <2> QED BY <1>2, <2>2, <2>3, <2>4, <2>5 DEF SdTypes
<1>4. SdShape'
  BY <1>1, <1>cli DEF SdShape
<1>5. SdCounts'
  <2> SUFFICES ASSUME NEW t \in 1 .. n + 1
               PROVE  /\ sdTab'[t].at # "deleted" =>
                           sdTab'[t].ref = Boxes(t)' + One(sdTab'[t].at = "pool")
                      /\ sdTab'[t].at \in Gone => Boxes(t)' = 0 \/ t \in sdLate'
    BY <1>2 DEF SdCounts
  <2>0. Boxes(t)' = Boxes(t) /\ Boxes(t) \in Nat
    BY <1>same, BoxCounts
  <2>1. CASE t = n + 1
    <3>1. Objs(t) = {} /\ Upds(t) = {} /\ Msgs(t) = {}
      BY <1>n, <2>1 DEF Objs, Upds, Msgs, Box
    <3>2. Boxes(t) = 0
      BY <3>1, FS_EmptySet DEF Boxes
    <3> QED BY <2>0, <2>1, <3>2, <1>new DEF One
  <2>2. CASE t # n + 1
    <3>1. t \in 1 .. n
      BY <1>n, <2>2
    <3>2. /\ sdTab[t].at # "deleted" => sdTab[t].ref = Boxes(t) + One(sdTab[t].at = "pool")
          /\ sdTab[t].at \in Gone => Boxes(t) = 0 \/ t \in sdLate
      BY <3>1 DEF SdInv, SdCounts, n
    <3>3. CASE sdTab[t].at = "pool"
      BY <2>0, <3>1, <3>2, <3>3, <1>old DEF One, Gone
    <3>4. CASE sdTab[t].at # "pool"
      BY <2>0, <3>1, <3>2, <3>4, <1>old, <1>1
    <3> QED BY <3>3, <3>4
  <2> QED BY <2>1, <2>2
<1> QED BY <1>3, <1>4, <1>5 DEF SdInv

\* request:delete, and request:update when it fails: the pool gives its
\* reference back, and the clients that waited stop or wait for ever.
LEMMA SdDeleteKeeps == ASSUME SdInv, delete \/ update_raises PROVE SdInv'
<1> DEFINE n == Total
           k == Current
           mid == [sdTab EXCEPT ![k].at = "retired"]
<1>n. n \in Nat \ {0} /\ sdTab \in [1 .. n -> Tab] /\ sdCli \in [SdClient -> Box(n)]
  BY DEF SdInv, SdTypes
<1>k. k \in 1 .. n /\ sdTab[k].at = "pool"
  BY CurrentInPool DEF delete, update_raises, SdInv
<1>1. sdTab' = Ref(mid, k, -1) /\ sdWatch' = {} /\ sdLate' = sdLate
  BY DEF delete, update_raises, Retire
<1>c. /\ sdCli' \in [SdClient -> Box(n)]
      /\ \A c \in SdClient :
            \/ sdCli'[c] = sdCli[c]
            \/ sdCli[c].phase = "waits" /\ sdCli'[c] = [sdCli[c] EXCEPT !.phase = "boxed"]
  <2>1. CASE delete
    <3>1. sdCli' = [c \in SdClient |-> IF c \in sdWatch THEN [sdCli[c] EXCEPT !.phase = "boxed"]
                                       ELSE sdCli[c]]
      BY <2>1 DEF delete
    <3>2. \A c \in SdClient : sdCli[c] \in Box(n) /\ [sdCli[c] EXCEPT !.phase = "boxed"] \in Box(n)
      BY <1>n DEF Box
    <3>3. \A c \in sdWatch : sdCli[c].phase = "waits"
      BY DEF SdInv, SdShape
    <3> QED BY <3>1, <3>2, <3>3
  <2>2. CASE update_raises
    BY <2>2, <1>n DEF update_raises
  <2> QED BY <2>1, <2>2
<1> HIDE DEF k, n
<1>mid. /\ mid \in [1 .. n -> Tab]
        /\ \A t \in 1 .. n : /\ mid[t].ref = sdTab[t].ref
                             /\ mid[t].at = IF t = k THEN "retired" ELSE sdTab[t].at
  BY <1>n, <1>k DEF Tab
<1> HIDE DEF mid
<1>tab. /\ sdTab' \in [1 .. n -> Tab]
        /\ \A t \in 1 .. n : /\ sdTab'[t].at = mid[t].at
                             /\ sdTab'[t].ref = mid[t].ref + (-1) * One(t = k)
  <2>1. k \in 0 .. n /\ -1 \in Int /\ n \in Nat
    BY <1>k, <1>n
  <2>2. mid \in [1 .. n -> Tab]
    BY <1>mid
  <2> QED BY ONLY <1>1, <2>1, <2>2, RefEffect
<1>cli. ASSUME NEW c \in SdClient
        PROVE  /\ BoxShape(sdCli'[c])
               /\ sdCli'[c].obj = sdCli[c].obj /\ sdCli'[c].upd = sdCli[c].upd
               /\ \A t : c \in Msgs(t)' <=> c \in Msgs(t)
  <2>1. CASE sdCli'[c] = sdCli[c]
    BY <2>1 DEF Msgs, SdInv, SdShape
  <2>2. CASE sdCli[c].phase = "waits" /\ sdCli'[c] = [sdCli[c] EXCEPT !.phase = "boxed"]
    <3>1. /\ sdCli'[c].phase = "boxed"
          /\ sdCli'[c].obj = sdCli[c].obj /\ sdCli'[c].upd = sdCli[c].upd
      BY <2>2, <1>n DEF Box
    <3> QED BY <2>2, <3>1 DEF BoxShape, Msgs
  <2> QED BY <1>c, <2>1, <2>2
<1>same. \A t : Boxes(t)' = Boxes(t)
  <2>1. \A t : Objs(t)' = Objs(t) /\ Upds(t)' = Upds(t)
    BY <1>cli DEF Objs, Upds
  <2>2. \A t : Msgs(t)' = Msgs(t)
    <3>1. \A t : Msgs(t) \subseteq SdClient /\ Msgs(t)' \subseteq SdClient
      BY DEF Msgs
    <3> QED BY <1>cli, <3>1
  <2> QED BY <2>1, <2>2 DEF Boxes
<1>m. Total' = n
  BY <1>tab, <1>n, FS_Interval DEF Total, Tabs
<1>3. SdTypes'
  BY <1>1, <1>c, <1>m, <1>n, <1>tab DEF SdTypes
<1>4. SdShape'
  BY <1>1, <1>cli DEF SdShape
<1>5. SdCounts'
  <2> SUFFICES ASSUME NEW t \in 1 .. n
               PROVE  /\ sdTab'[t].at # "deleted" =>
                           sdTab'[t].ref = Boxes(t)' + One(sdTab'[t].at = "pool")
                      /\ sdTab'[t].at \in Gone => Boxes(t)' = 0 \/ t \in sdLate'
    BY <1>m DEF SdCounts
  <2>1. Boxes(t)' = Boxes(t) /\ Boxes(t) \in Nat /\ sdTab[t].ref \in Int
    BY <1>same, <1>n, BoxCounts DEF Tab
  <2>2. /\ sdTab[t].at # "deleted" => sdTab[t].ref = Boxes(t) + One(sdTab[t].at = "pool")
        /\ sdTab[t].at \in Gone => Boxes(t) = 0 \/ t \in sdLate
    BY DEF SdInv, SdCounts, n
  <2>3. /\ sdTab'[t].at = IF t = k THEN "retired" ELSE sdTab[t].at
        /\ sdTab'[t].ref = sdTab[t].ref + (-1) * One(t = k)
    BY <1>tab, <1>mid
  <2> QED BY <1>1, <1>k, <2>1, <2>2, <2>3 DEF One, Gone
<1> QED BY <1>3, <1>4, <1>5 DEF SdInv

\* collectobj: a retired table without references is in no client's hands.
LEMMA SdCollectKeeps == ASSUME SdInv, NEW t \in Tabs, collectobj(t) PROVE SdInv'
<1> DEFINE n == Total
<1>n. n \in Nat \ {0} /\ sdTab \in [1 .. n -> Tab] /\ t \in 1 .. n
  BY DEF SdInv, SdTypes, Tabs
<1>1. /\ sdTab[t].at = "retired" /\ sdTab[t].ref <= 0
      /\ sdTab' = [sdTab EXCEPT ![t].at = "condemned"]
      /\ sdCli' = sdCli /\ sdWatch' = sdWatch /\ sdLate' = sdLate
  BY DEF collectobj
<1>tab. /\ sdTab' \in [1 .. n -> Tab]
        /\ \A u \in 1 .. n : /\ sdTab'[u].ref = sdTab[u].ref
                             /\ sdTab'[u].at = IF u = t THEN "condemned" ELSE sdTab[u].at
  BY <1>1, <1>n DEF Tab
<1>m. Total' = n
  BY <1>tab, <1>n, FS_Interval DEF Total, Tabs
<1>same. \A u : Boxes(u)' = Boxes(u)
  BY <1>1 DEF Boxes, Objs, Upds, Msgs
<1>zero. Boxes(t) = 0
  <2>1. sdTab[t].ref = Boxes(t) + One(sdTab[t].at = "pool") /\ Boxes(t) \in Nat
    BY <1>1, <1>n, BoxCounts DEF SdInv, SdCounts
  <2> QED BY <2>1, <1>1 DEF One
<1>2. SdTypes'
  BY <1>1, <1>m, <1>tab DEF SdInv, SdTypes
<1>3. SdShape'
  BY <1>1 DEF SdInv, SdShape
<1>4. SdCounts'
  <2> SUFFICES ASSUME NEW u \in 1 .. n
               PROVE  /\ sdTab'[u].at # "deleted" =>
                           sdTab'[u].ref = Boxes(u)' + One(sdTab'[u].at = "pool")
                      /\ sdTab'[u].at \in Gone => Boxes(u)' = 0 \/ u \in sdLate'
    BY <1>m DEF SdCounts
  <2>1. CASE u = t
    <3>1. sdTab[u].ref = Boxes(u) + One(sdTab[u].at = "pool")
      BY <2>1, <1>1, <1>n DEF SdInv, SdCounts
    <3> QED BY <2>1, <3>1, <1>1, <1>tab, <1>same, <1>zero DEF One
  <2>2. CASE u # t
    BY <2>2, <1>1, <1>tab, <1>same DEF SdInv, SdCounts
  <2> QED BY <2>1, <2>2
<1> QED BY <1>2, <1>3, <1>4 DEF SdInv

\* ldeleteconf: only a client that was told of the table meanwhile has it.
LEMMA SdFreeKeeps == ASSUME SdInv, NEW t \in Tabs, ldeleteconf(t) PROVE SdInv'
<1> DEFINE n == Total
<1>n. n \in Nat \ {0} /\ sdTab \in [1 .. n -> Tab] /\ t \in 1 .. n
  BY DEF SdInv, SdTypes, Tabs
<1>1. /\ sdTab[t].at = "condemned"
      /\ sdTab' = [sdTab EXCEPT ![t].at = "deleted"]
      /\ sdCli' = sdCli /\ sdWatch' = sdWatch /\ sdLate' = sdLate
  BY DEF ldeleteconf
<1>tab. /\ sdTab' \in [1 .. n -> Tab]
        /\ \A u \in 1 .. n : /\ sdTab'[u].ref = sdTab[u].ref
                             /\ sdTab'[u].at = IF u = t THEN "deleted" ELSE sdTab[u].at
  BY <1>1, <1>n DEF Tab
<1>m. Total' = n
  BY <1>tab, <1>n, FS_Interval DEF Total, Tabs
<1>same. \A u : Boxes(u)' = Boxes(u)
  BY <1>1 DEF Boxes, Objs, Upds, Msgs
<1>zero. Boxes(t) = 0 \/ t \in sdLate
  BY <1>1, <1>n DEF SdInv, SdCounts, Gone
<1>2. SdTypes'
  BY <1>1, <1>m, <1>tab DEF SdInv, SdTypes
<1>3. SdShape'
  BY <1>1 DEF SdInv, SdShape
<1>4. SdCounts'
  <2> SUFFICES ASSUME NEW u \in 1 .. n
               PROVE  /\ sdTab'[u].at # "deleted" =>
                           sdTab'[u].ref = Boxes(u)' + One(sdTab'[u].at = "pool")
                      /\ sdTab'[u].at \in Gone => Boxes(u)' = 0 \/ u \in sdLate'
    BY <1>m DEF SdCounts
  <2>1. CASE u = t
    BY <2>1, <1>1, <1>tab, <1>same, <1>zero
  <2>2. CASE u # t
    BY <2>2, <1>1, <1>tab, <1>same DEF SdInv, SdCounts
  <2> QED BY <2>1, <2>2
<1> QED BY <1>2, <1>3, <1>4 DEF SdInv

LEMMA SdNextInv == SdInv /\ [ShareDataNext]_sdVars => SdInv'
<1>1. SdInv /\ UNCHANGED sdVars => SdInv'
  BY DEF SdInv, SdTypes, SdShape, SdCounts, Boxes, Objs, Upds, Msgs, Total, Tabs, sdVars
<1> QED BY <1>1, SdClientKeeps, SdUpdateKeeps, SdDeleteKeeps, SdCollectKeeps, SdFreeKeeps
        DEF ShareDataNext

LEMMA SdInvExact == SdInv => ShareDataExact
<1> SUFFICES ASSUME SdInv, NEW t \in 1 .. Total
             PROVE  /\ sdTab[t].at # "deleted" => sdTab[t].ref = Holders(t)
                    /\ sdTab[t].at \in Gone => Holders(t) = 0 \/ t \in sdLate
  BY DEF SdInv, SdTypes, ShareDataExact, Tabs, Gone
<1>1. Holders(t) = Boxes(t) + One(sdTab[t].at = "pool") /\ Boxes(t) \in Nat
  BY BoxCounts DEF Holders, Boxes, Objs, Upds, Msgs, One
<1>2. /\ sdTab[t].at # "deleted" => sdTab[t].ref = Boxes(t) + One(sdTab[t].at = "pool")
      /\ sdTab[t].at \in Gone => Boxes(t) = 0 \/ t \in sdLate
  BY DEF SdInv, SdCounts
<1> QED BY <1>1, <1>2 DEF One, Gone

THEOREM ShareDataInvariance == ShareDataSpec => []SdInv
  BY SdInitInv, SdNextInv, PTL DEF ShareDataSpec

\* A table of lsharedata.c is counted by its boxes, the answers to query on
\* their way and the pool; so sharedatad's collecting round deletes no table
\* a client reads, except one the client was told of by a monitor and boxed
\* after collectobj had read its count as zero.
THEOREM ShareDataCounted == ShareDataSpec => []ShareDataExact
  BY ShareDataInvariance, SdInvExact, PTL

-----------------------------------------------------------------------------
(* pixel.c: the memory of messages *)

\* A block is held at a place <<s, i, k>>: part k of message i of queue s; of
\* the message of the running callback (0, 1); by Lua (0, 0, "data") or by
\* nobody any more (0, 0, "payload").
Holds(s, i, k, b) ==
    \/ s \in Svc /\ i \in 1 .. Len(box[s]) /\ Held(box[s][i], k) = b
    \/ s = 0 /\ i = 1 /\ Busy /\ Held(cur.m, k) = b /\ (k = "data" => ~cur.forward)
    \/ s = 0 /\ i = 0 /\ k = "data" /\ b \in lua
    \/ s = 0 /\ i = 0 /\ k = "payload" /\ b \in leaked

Part == {"data", "payload"}
Home == Svc \cup {0}
Letter == [data : Block \cup {0}, payload : Block \cup {0}]

MessagesTypes ==
    /\ up \in SUBSET Svc /\ hctx \in Svc \cup {0}
    /\ box \in [Svc -> Seq(Letter)] /\ (\A s \in Svc : Len(box[s]) <= MAX_BOX)
    /\ cur = NoCall \/ cur \in [svc : Svc, m : Letter, forward : BOOLEAN]
    /\ heap \in SUBSET Block /\ lua \in SUBSET Block /\ leaked \in SUBSET Block
    /\ wrong = FALSE

\* A block is held at one place if it is allocated, and nowhere if it is not.
OwnedOnce(b) ==
    /\ \A s \in Home, i \in Nat, k \in Part : Holds(s, i, k, b) =>
          /\ b \in heap
          /\ \A t \in Home, j \in Nat, l \in Part :
                Holds(t, j, l, b) => t = s /\ j = i /\ l = k
    /\ b \in heap => \E s \in Home, i \in Nat, k \in Part : Holds(s, i, k, b)

MessagesInv == MessagesTypes /\ \A b \in Block : OwnedOnce(b)

\* The places in queues, and the others.
LEMMA BoxedHolds ==
    ASSUME NEW s \in Svc, NEW i, NEW k, NEW b
    PROVE  /\ Holds(s, i, k, b) <=> i \in 1 .. Len(box[s]) /\ Held(box[s][i], k) = b
           /\ Holds(s, i, k, b)' <=> i \in 1 .. Len(box'[s]) /\ Held(box'[s][i], k) = b
  BY MessagesAssumption DEF Holds

LEMMA OtherHolds ==
    ASSUME NEW i, NEW k, NEW b
    PROVE  /\ Holds(0, i, k, b) <=>
                \/ i = 1 /\ Busy /\ Held(cur.m, k) = b /\ (k = "data" => ~cur.forward)
                \/ i = 0 /\ k = "data" /\ b \in lua
                \/ i = 0 /\ k = "payload" /\ b \in leaked
           /\ Holds(0, i, k, b)' <=>
                \/ i = 1 /\ Busy' /\ Held(cur'.m, k) = b /\ (k = "data" => ~cur'.forward)
                \/ i = 0 /\ k = "data" /\ b \in lua'
                \/ i = 0 /\ k = "payload" /\ b \in leaked'
  BY MessagesAssumption DEF Holds, Held

\* Blocks that can be allocated.
LEMMA UnusedOne ==
    ASSUME MessagesTypes, Room(1)
    PROVE  Unused(1)[1] \in Block /\ Unused(1)[1] \notin heap
<1>1. IsFiniteSet(Block \ heap)
  BY MessagesAssumption, FS_Subset
<1>2. PICK b \in Block \ heap : TRUE
  BY <1>1, FS_EmptySet DEF Room
<1>3. [i \in 1 .. 1 |-> b] \in [1 .. 1 -> Block \ heap]
  OBVIOUS
<1>4. \E f \in [1 .. 1 -> Block \ heap] : \A i, j \in 1 .. 1 : i # j => f[i] # f[j]
  <2> WITNESS [i \in 1 .. 1 |-> b] \in [1 .. 1 -> Block \ heap]
  <2> QED OBVIOUS
<1>5. Unused(1) \in [1 .. 1 -> Block \ heap]
  BY <1>4 DEF Unused
<1> QED BY <1>5

LEMMA UnusedTwo ==
    ASSUME MessagesTypes, Room(2)
    PROVE  /\ Unused(2)[1] \in Block /\ Unused(2)[1] \notin heap
           /\ Unused(2)[2] \in Block /\ Unused(2)[2] \notin heap
           /\ Unused(2)[1] # Unused(2)[2]
<1>1. IsFiniteSet(Block \ heap) /\ Cardinality(Block \ heap) \in Nat
  BY MessagesAssumption, FS_Subset, FS_CardinalityType
<1>2. PICK b \in Block \ heap : TRUE
  BY <1>1, FS_EmptySet DEF Room
<1>3. IsFiniteSet((Block \ heap) \ {b}) /\ Cardinality((Block \ heap) \ {b}) >= 1
  BY <1>1, <1>2, FS_RemoveElement DEF Room
<1>4. PICK c \in (Block \ heap) \ {b} : TRUE
  BY <1>3, FS_EmptySet
<1>5. [i \in 1 .. 2 |-> IF i = 1 THEN b ELSE c] \in [1 .. 2 -> Block \ heap]
  BY <1>2, <1>4
<1>6. \E f \in [1 .. 2 -> Block \ heap] : \A i, j \in 1 .. 2 : i # j => f[i] # f[j]
  <2> WITNESS [i \in 1 .. 2 |-> IF i = 1 THEN b ELSE c] \in [1 .. 2 -> Block \ heap]
  <2> QED BY <1>4
<1>7. /\ Unused(2) \in [1 .. 2 -> Block \ heap]
      /\ \A i, j \in 1 .. 2 : i # j => Unused(2)[i] # Unused(2)[j]
  BY <1>6 DEF Unused
<1> QED BY <1>7

\* The property, from the invariant.
LEMMA OwnersCounted == MessagesInv => PayloadOwned
<1> SUFFICES ASSUME MessagesInv, NEW b \in Block
             PROVE  ~wrong /\ Owners(b) = IF b \in heap THEN 1 ELSE 0
  BY DEF MessagesInv, MessagesTypes, PayloadOwned
<1> DEFINE P(s, i, k) == Holds(s, i, k, b)
<1>1. ~wrong /\ MAX_BOX \in Nat
  BY MessagesAssumption DEF MessagesInv, MessagesTypes
<1>2. \A o \in InBoxes(b) : o.svc \in Svc /\ o.at \in Nat /\ o.part \in Part /\ P(o.svc, o.at, o.part)
                            /\ o = [svc |-> o.svc, at |-> o.at, part |-> o.part]
  BY <1>1, BoxedHolds DEF InBoxes, Part, MessagesInv, MessagesTypes
<1>3. ASSUME NEW s \in Svc, NEW i \in Nat, NEW k \in Part, P(s, i, k)
      PROVE  [svc |-> s, at |-> i, part |-> k] \in InBoxes(b)
  BY <1>1, <1>3, BoxedHolds DEF InBoxes, Part, MessagesInv, MessagesTypes
<1>4. /\ b \in lua <=> P(0, 0, "data")
      /\ b \in leaked <=> P(0, 0, "payload")
      /\ (Busy /\ ~cur.forward /\ cur.m.data = b) <=> P(0, 1, "data")
      /\ (Busy /\ cur.m.payload = b) <=> P(0, 1, "payload")
  BY OtherHolds DEF Held
<1>5. /\ \A s \in Home, i \in Nat, k \in Part : P(s, i, k) =>
            /\ b \in heap
            /\ \A t \in Home, j \in Nat, l \in Part : P(t, j, l) => t = s /\ j = i /\ l = k
      /\ b \in heap => \E s \in Home, i \in Nat, k \in Part : P(s, i, k)
  BY DEF MessagesInv, OwnedOnce
<1>6. Svc \subseteq Home /\ 0 \in Home /\ 0 \notin Svc /\ "data" \in Part /\ "payload" \in Part
  BY MessagesAssumption DEF Home, Part
<1>7. Owners(b) = Cardinality(InBoxes(b)) + One(P(0, 0, "data")) + One(P(0, 0, "payload"))
                    + One(P(0, 1, "data")) + One(P(0, 1, "payload"))
  BY <1>4 DEF Owners, One
<1> HIDE DEF P
<1>8. CASE \E o : o \in InBoxes(b)
  <2>1. PICK o \in InBoxes(b) : TRUE
    BY <1>8
  <2>2. \A q \in InBoxes(b) : q = o
    BY <1>2, <1>5, <1>6
  <2>3. InBoxes(b) = {o}
    BY <2>1, <2>2
  <2>4. Cardinality(InBoxes(b)) = 1
    BY <2>3, FS_Singleton
  <2>5. ~P(0, 0, "data") /\ ~P(0, 0, "payload") /\ ~P(0, 1, "data") /\ ~P(0, 1, "payload")
    BY <1>2, <1>5, <1>6
  <2>6. b \in heap
    BY <1>2, <1>5, <1>6
  <2> QED BY <1>1, <1>7, <2>4, <2>5, <2>6 DEF One
<1>9. CASE ~ \E o : o \in InBoxes(b)
  <2>1. InBoxes(b) = {}
    BY <1>9
  <2>2. Cardinality(InBoxes(b)) = 0
    BY <2>1, FS_EmptySet
  <2>3. \A s \in Svc, i \in Nat, k \in Part : ~P(s, i, k)
    BY <1>3, <1>9
  <2>4. ASSUME NEW i \in Nat, NEW k \in Part, P(0, i, k)
        PROVE  i \in {0, 1} /\ k \in {"data", "payload"}
    BY <2>4, OtherHolds DEF P, Part
  <2>5. b \in heap => P(0, 0, "data") \/ P(0, 0, "payload") \/ P(0, 1, "data") \/ P(0, 1, "payload")
    <3>1. SUFFICES ASSUME b \in heap
                   PROVE  P(0, 0, "data") \/ P(0, 0, "payload") \/ P(0, 1, "data") \/ P(0, 1, "payload")
      OBVIOUS
    <3>2. PICK s \in Home, i \in Nat, k \in Part : P(s, i, k)
      BY <3>1, <1>5
    <3>3. s = 0
      BY <2>3, <3>2 DEF Home
    <3> QED BY <2>4, <3>2, <3>3
  <2> QED BY <1>1, <1>5, <1>6, <1>7, <2>2, <2>5 DEF One
<1> QED BY <1>8, <1>9

\* After a step: a block is held at this place only; message m is the n-th of
\* queue s, and the rest of the queues is as before; a block is held nowhere
\* outside the queues, or there as before.  Before it: a block is in no queue.
OnlyAt(s, i, k, b) ==
    \A t \in Home, j \in Nat, l \in Part :
        Holds(t, j, l, b)' <=> t = s /\ j = i /\ l = k
Joined(s, n, m) ==
    \A t \in Svc, i \in Nat, k \in Part, b \in Block :
        Holds(t, i, k, b)' <=> Holds(t, i, k, b) \/ (t = s /\ i = n /\ Held(m, k) = b)
Queued(b) == \A i \in Nat, k \in Part : ~Holds(0, i, k, b)'
Aside(b) == \A i \in Nat, k \in Part : Holds(0, i, k, b)' <=> Holds(0, i, k, b)
Unqueued(b) == \A s \in Svc, i \in Nat, k \in Part : ~Holds(s, i, k, b)

\* What a step does to one block: nothing, ...
LEMMA Same ==
    ASSUME NEW b, OwnedOnce(b), b \in heap' <=> b \in heap,
           \A s \in Home, i \in Nat, k \in Part : Holds(s, i, k, b)' <=> Holds(s, i, k, b)
    PROVE  OwnedOnce(b)'
  BY DEF OwnedOnce, Home, Part

\* ... it is freed, ...
LEMMA Nowhere ==
    ASSUME NEW b, b \notin heap',
           \A s \in Home, i \in Nat, k \in Part : ~Holds(s, i, k, b)'
    PROVE  OwnedOnce(b)'
  BY DEF OwnedOnce, Home, Part

\* ... it is now held at one place, ...
LEMMA HeldAt ==
    ASSUME NEW b, b \in heap', NEW s \in Home, NEW i \in Nat, NEW k \in Part,
           OnlyAt(s, i, k, b)
    PROVE  OwnedOnce(b)'
  BY DEF OnlyAt, OwnedOnce, Home, Part

\* ... or it moves up in its queue.
LEMMA Shifted ==
    ASSUME NEW b, OwnedOnce(b), b \in heap' <=> b \in heap, NEW s \in Svc,
           \A k \in Part : ~Holds(s, 0, k, b) /\ ~Holds(s, 1, k, b),
           \A i \in Nat, k \in Part : Holds(s, i, k, b)' <=> i >= 1 /\ Holds(s, i + 1, k, b),
           \A t \in Home, i \in Nat, k \in Part :
              t # s => (Holds(t, i, k, b)' <=> Holds(t, i, k, b))
    PROVE  OwnedOnce(b)'
<1>1. ASSUME NEW t \in Home, NEW i \in Nat, NEW k \in Part, Holds(t, i, k, b)',
             NEW u \in Home, NEW j \in Nat, NEW l \in Part, Holds(u, j, l, b)'
      PROVE  b \in heap' /\ t = u /\ i = j /\ k = l
  <2>1. CASE t = s /\ u = s
    <3>1. i + 1 \in Nat /\ j + 1 \in Nat /\ Holds(t, i + 1, k, b) /\ Holds(u, j + 1, l, b)
      BY <1>1, <2>1
    <3>2. i + 1 = j + 1 /\ k = l /\ b \in heap
      BY <3>1, <2>1 DEF OwnedOnce
    <3> QED BY <2>1, <3>2
  <2>2. CASE t = s /\ u # s
    <3>1. i + 1 \in Nat /\ Holds(t, i + 1, k, b) /\ Holds(u, j, l, b)
      BY <1>1, <2>2
    <3> QED BY <3>1, <2>2 DEF OwnedOnce
  <2>3. CASE t # s /\ u = s
    <3>1. j + 1 \in Nat /\ Holds(t, i, k, b) /\ Holds(u, j + 1, l, b)
      BY <1>1, <2>3
    <3> QED BY <3>1, <2>3 DEF OwnedOnce
  <2>4. CASE t # s /\ u # s
    <3>1. Holds(t, i, k, b) /\ Holds(u, j, l, b)
      BY <1>1, <2>4
    <3> QED BY <3>1 DEF OwnedOnce
  <2> QED BY <2>1, <2>2, <2>3, <2>4
<1>2. ASSUME b \in heap'
      PROVE  \E t \in Home, i \in Nat, k \in Part : Holds(t, i, k, b)'
  <2>1. PICK t \in Home, i \in Nat, k \in Part : Holds(t, i, k, b)
    BY <1>2 DEF OwnedOnce
  <2>2. CASE t = s
    <3>1. i # 0 /\ i # 1
      BY <2>1, <2>2
    <3>2. PICK j \in Nat : j >= 1 /\ i = j + 1
      <4>1. i - 1 \in Nat /\ i - 1 >= 1 /\ i = (i - 1) + 1
        BY <3>1
      <4> QED BY <4>1
    <3>3. Holds(s, j, k, b)'
      BY <2>1, <2>2, <3>2
    <3>4. s \in Home
      BY DEF Home
    <3> QED BY <3>3, <3>4
  <2>3. CASE t # s
    BY <2>1, <2>3
  <2> QED BY <2>2, <2>3
<1>3. \A t \in Home, i \in Nat, k \in Part : Holds(t, i, k, b)' =>
         /\ b \in heap'
         /\ \A u \in Home, j \in Nat, l \in Part :
               Holds(u, j, l, b)' => u = t /\ j = i /\ l = k
  BY <1>1
<1> QED BY <1>2, <1>3 DEF OwnedOnce

\* A message at the end of a queue.
LEMMA Pushed ==
    ASSUME MessagesTypes, NEW s \in Svc, Len(box[s]) < MAX_BOX, NEW m \in Letter,
           pixel_push(s, m)
    PROVE  /\ box' \in [Svc -> Seq(Letter)] /\ \A t \in Svc : Len(box'[t]) <= MAX_BOX
           /\ Len(box[s]) + 1 \in Nat
           /\ Joined(s, Len(box[s]) + 1, m)
<1>1. box \in [Svc -> Seq(Letter)] /\ MAX_BOX \in Nat /\ box' = [box EXCEPT ![s] = Append(box[s], m)]
  BY MessagesAssumption DEF MessagesTypes, pixel_push
<1>2. PICK q \in Seq(Letter) : q = box[s]
  BY <1>1
<1>3. PICK n \in Nat : n = Len(q)
  BY <1>2
<1>4. /\ Append(q, m) \in Seq(Letter) /\ Len(Append(q, m)) = n + 1
      /\ Append(q, m)[n + 1] = m /\ \A i \in 1 .. n : Append(q, m)[i] = q[i]
  BY ONLY q \in Seq(Letter), n \in Nat, n = Len(q), m \in Letter
<1>5. box'[s] = Append(q, m) /\ \A t \in Svc : t # s => box'[t] = box[t]
  BY <1>1, <1>2
<1>6. box' \in [Svc -> Seq(Letter)] /\ \A t \in Svc : Len(box'[t]) <= MAX_BOX
  <2>1. box' \in [Svc -> Seq(Letter)]
    BY <1>1, <1>2, <1>4
  <2>2. n + 1 <= MAX_BOX
    BY <1>1, <1>2, <1>3
  <2> QED BY <1>4, <1>5, <2>1, <2>2 DEF MessagesTypes
<1>7. ASSUME NEW t \in Svc, NEW i \in Nat, NEW k \in Part, NEW b \in Block
      PROVE  Holds(t, i, k, b)' <=> \/ Holds(t, i, k, b)
                                    \/ t = s /\ i = n + 1 /\ Held(m, k) = b
  <2>1. CASE t # s
    BY <2>1, <1>5, BoxedHolds
  <2>2. CASE t = s
    <3>1. Holds(t, i, k, b)' <=> i \in 1 .. n + 1 /\ Held(Append(q, m)[i], k) = b
      BY <2>2, <1>4, <1>5, BoxedHolds
    <3>2. Holds(t, i, k, b) <=> i \in 1 .. n /\ Held(q[i], k) = b
      BY <2>2, <1>2, <1>3, BoxedHolds
    <3>3. CASE i \in 1 .. n
      BY <3>1, <3>2, <3>3, <1>4
    <3>4. CASE i = n + 1
      BY <3>1, <3>2, <3>4, <1>4, <2>2
    <3>5. CASE i \notin 1 .. n + 1
      BY <3>1, <3>2, <3>5
    <3> QED BY <3>3, <3>4, <3>5
  <2> QED BY <2>1, <2>2
<1>8. Joined(s, n + 1, m)
  BY <1>7 DEF Joined
<1> QED BY <1>2, <1>3, <1>6, <1>8

\* The first message of a queue is taken.
LEMMA Popped ==
    ASSUME MessagesTypes, NEW s \in Svc, box[s] # <<>>, box' = [box EXCEPT ![s] = Tail(@)]
    PROVE  /\ box' \in [Svc -> Seq(Letter)] /\ \A t \in Svc : Len(box'[t]) <= MAX_BOX
           /\ Head(box[s]) \in Letter
           /\ \A k \in Part, b \in Block :
                 /\ Holds(s, 1, k, b) <=> Held(Head(box[s]), k) = b
                 /\ ~Holds(s, 0, k, b)
           /\ \A i \in Nat, k \in Part, b \in Block :
                 Holds(s, i, k, b)' <=> i >= 1 /\ Holds(s, i + 1, k, b)
           /\ \A t \in Svc, i \in Nat, k \in Part, b \in Block :
                 t # s => (Holds(t, i, k, b)' <=> Holds(t, i, k, b))
<1>1. box \in [Svc -> Seq(Letter)] /\ MAX_BOX \in Nat
  BY MessagesAssumption DEF MessagesTypes
<1>2. PICK q \in Seq(Letter) : q = box[s]
  BY <1>1
<1>3. PICK n \in Nat : n + 1 = Len(q)
  <2>1. Len(q) \in Nat /\ Len(q) # 0
    BY <1>2
  <2> QED BY <2>1
<1>4. /\ Tail(q) \in Seq(Letter) /\ Len(Tail(q)) = n /\ Head(q) = q[1] /\ q[1] \in Letter
      /\ \A i \in 1 .. n : Tail(q)[i] = q[i + 1]
  BY ONLY q \in Seq(Letter), n \in Nat, n + 1 = Len(q)
<1>5. box'[s] = Tail(q) /\ \A t \in Svc : t # s => box'[t] = box[t]
  BY <1>1, <1>2
<1>6. box' \in [Svc -> Seq(Letter)] /\ \A t \in Svc : Len(box'[t]) <= MAX_BOX
  <2>1. box' \in [Svc -> Seq(Letter)]
    BY <1>1, <1>2, <1>4
  <2>2. n <= MAX_BOX
    BY <1>1, <1>2, <1>3 DEF MessagesTypes
  <2> QED BY <1>4, <1>5, <2>1, <2>2 DEF MessagesTypes
<1>7. ASSUME NEW i \in Nat, NEW k \in Part, NEW b \in Block
      PROVE  /\ Holds(s, i, k, b)' <=> i \in 1 .. n /\ Held(q[i + 1], k) = b
             /\ Holds(s, i, k, b) <=> i \in 1 .. n + 1 /\ Held(q[i], k) = b
  <2>1. Holds(s, i, k, b)' <=> i \in 1 .. n /\ Held(Tail(q)[i], k) = b
    BY <1>4, <1>5, BoxedHolds
  <2>2. Holds(s, i, k, b) <=> i \in 1 .. n + 1 /\ Held(q[i], k) = b
    BY <1>2, <1>3, BoxedHolds
  <2> QED BY <2>1, <2>2, <1>4
<1>8. ASSUME NEW i \in Nat, NEW k \in Part, NEW b \in Block
      PROVE  Holds(s, i, k, b)' <=> i >= 1 /\ Holds(s, i + 1, k, b)
  <2>1. i + 1 \in Nat /\ (i + 1 \in 1 .. n + 1 <=> i \in 0 .. n)
    OBVIOUS
  <2> QED BY <1>7, <2>1
<1>9. \A k \in Part, b \in Block :
         /\ Holds(s, 1, k, b) <=> Held(Head(box[s]), k) = b
         /\ ~Holds(s, 0, k, b)
  BY <1>2, <1>4, <1>7
<1>10. \A t \in Svc, i \in Nat, k \in Part, b \in Block :
          t # s => (Holds(t, i, k, b)' <=> Holds(t, i, k, b))
  BY <1>5, BoxedHolds
<1> QED BY <1>2, <1>4, <1>6, <1>8, <1>9, <1>10

LEMMA AsideHolds ==
    ASSUME NEW b, UNCHANGED cur, b \in lua' <=> b \in lua, b \in leaked' <=> b \in leaked
    PROVE  Aside(b)
  BY OtherHolds DEF Aside, Busy

LEMMA MessageTypes ==
    ASSUME NEW d \in Block \cup {0}, NEW p \in Block \cup {0}
    PROVE  /\ Message(d, p) \in Letter
           /\ Held(Message(d, p), "data") = d /\ Held(Message(d, p), "payload") = p
  BY DEF Message, Letter, Held

\* A block that is in no queue, and is put into one.
LEMMA Arrives ==
    ASSUME NEW s \in Svc, NEW n \in Nat, NEW m, NEW b \in Block, NEW k \in Part,
           b \in heap', Held(m, k) = b, \A l \in Part : l # k => Held(m, l) # b,
           Queued(b), Unqueued(b), Joined(s, n, m)
    PROVE  OwnedOnce(b)'
<1>1. s \in Home /\ s # 0
  BY MessagesAssumption DEF Home
<1>2. ASSUME NEW t \in Home, NEW i \in Nat, NEW l \in Part
      PROVE  Holds(t, i, l, b)' <=> t = s /\ i = n /\ l = k
  <2>1. CASE t = 0
    BY <1>1, <2>1 DEF Queued
  <2>2. CASE t \in Svc
    BY <2>2 DEF Joined, Unqueued
  <2> QED BY <2>1, <2>2 DEF Home
<1>3. OnlyAt(s, n, k, b)
  BY <1>2 DEF OnlyAt
<1> QED BY <1>1, <1>3, HeldAt

\* A block that a message put into a queue does not carry.
LEMMA Stays ==
    ASSUME NEW s \in Svc, NEW n \in Nat, NEW m, NEW b \in Block, OwnedOnce(b),
           b \in heap' <=> b \in heap, \A l \in Part : Held(m, l) # b, Aside(b),
           Joined(s, n, m)
    PROVE  OwnedOnce(b)'
<1>1. ASSUME NEW t \in Home, NEW i \in Nat, NEW l \in Part
      PROVE  Holds(t, i, l, b)' <=> Holds(t, i, l, b)
  BY DEF Home, Aside, Joined
<1> QED BY <1>1, Same

\* A block that no step touches while the queues stay as they are.
LEMMA Rests ==
    ASSUME NEW b \in Block, OwnedOnce(b), UNCHANGED box, Aside(b), b \in heap' <=> b \in heap
    PROVE  OwnedOnce(b)'
<1>1. ASSUME NEW t \in Home, NEW i \in Nat, NEW l \in Part
      PROVE  Holds(t, i, l, b)' <=> Holds(t, i, l, b)
  <2>1. CASE t = 0
    BY <2>1 DEF Aside
  <2>2. CASE t \in Svc
    BY <2>2, BoxedHolds
  <2> QED BY <2>1, <2>2 DEF Home
<1> QED BY <1>1, Same

LEMMA NotHeld ==
    ASSUME NEW b, OwnedOnce(b), b \notin heap
    PROVE  \A s \in Home, i \in Nat, k \in Part : ~Holds(s, i, k, b)
  BY DEF OwnedOnce

\* The other places of a block that is held at <<s, i, k>>.
LEMMA HeldHere ==
    ASSUME NEW b, OwnedOnce(b), NEW s \in Home, NEW i \in Nat, NEW k \in Part, Holds(s, i, k, b)
    PROVE  /\ b \in heap
           /\ \A t \in Home, j \in Nat, l \in Part : Holds(t, j, l, b) <=> t = s /\ j = i /\ l = k
  BY DEF OwnedOnce

\* The end of pixel_send, for a copy.
LEMMA DeliverCopy ==
    ASSUME MessagesInv, NEW c \in Block, c \notin heap, NEW s, HasRoom(s),
           Deliver(heap \cup {c}, s, c), UNCHANGED <<up, hctx, cur, lua, leaked>>
    PROVE  MessagesInv'
<1>1. MessagesTypes /\ (\A b \in Block : OwnedOnce(b)) /\ heap \in SUBSET Block /\ c # 0
  BY MessagesAssumption DEF MessagesInv, MessagesTypes
<1>2. \A b \in Block : Aside(b)
  BY AsideHolds
<1>3. CASE s \notin up
  <2>1. UNCHANGED box /\ heap' = (heap \cup {c}) \ {c}
        /\ wrong' = (wrong \/ ~({c} \ {0} \subseteq heap \cup {c}))
    BY <1>3 DEF Deliver, Release
  <2>2. UNCHANGED box /\ heap' = heap /\ UNCHANGED wrong
    BY <2>1, <1>1 DEF MessagesTypes
  <2>3. MessagesTypes'
    BY <2>2, <1>1 DEF MessagesTypes
  <2>4. \A b \in Block : OwnedOnce(b)'
    BY <1>1, <1>2, <2>2, Rests
  <2> QED BY <2>3, <2>4 DEF MessagesInv
<1>4. CASE s \in up
  <2>1. pixel_push(s, Message(c, 0)) /\ heap' = heap \cup {c} /\ UNCHANGED wrong
    BY <1>4 DEF Deliver
  <2>2. s \in Svc /\ Len(box[s]) < MAX_BOX
    BY <1>1, <1>4 DEF MessagesTypes, HasRoom
  <2>3. PICK m \in Letter : m = Message(c, 0)
    BY MessageTypes
  <2>4. Held(m, "data") = c /\ Held(m, "payload") = 0
    BY <2>3, MessageTypes
  <2>5. pixel_push(s, m)
    BY <2>1, <2>3
  <2>6. PICK n \in Nat : Joined(s, n, m)
    BY <1>1, <2>2, <2>5, Pushed
  <2>7. box' \in [Svc -> Seq(Letter)] /\ \A t \in Svc : Len(box'[t]) <= MAX_BOX
    BY <1>1, <2>2, <2>5, Pushed
  <2>8. MessagesTypes'
    BY <1>1, <2>1, <2>7 DEF MessagesTypes
  <2>9. OwnedOnce(c)'
    <3>1. \A t \in Home, i \in Nat, l \in Part : ~Holds(t, i, l, c)
      BY <1>1, NotHeld
    <3>2. Unqueued(c)
      BY <3>1 DEF Home, Unqueued
    <3>3. Queued(c)
      BY <1>2, <3>1 DEF Aside, Home, Queued
    <3>4. "data" \in Part /\ c \in heap' /\ \A l \in Part : l # "data" => Held(m, l) # c
      BY <1>1, <2>1, <2>4 DEF Part
    <3> QED BY <2>2, <2>4, <2>6, <3>2, <3>3, <3>4, Arrives
  <2>10. ASSUME NEW b \in Block, b # c
         PROVE  OwnedOnce(b)'
    <3>1. (b \in heap' <=> b \in heap) /\ \A l \in Part : Held(m, l) # b
      BY <2>1, <2>4, <2>10, MessagesAssumption DEF Part
    <3> QED BY <1>1, <1>2, <2>2, <2>6, <3>1, Stays
  <2> QED BY <2>8, <2>9, <2>10 DEF MessagesInv
<1> QED BY <1>3, <1>4

\* The end of pixel_send, for a block of Lua's.
LEMMA DeliverBlock ==
    ASSUME MessagesInv, NEW c \in lua, NEW s, HasRoom(s), lua' = lua \ {c},
           Deliver(heap, s, c) \/ (Release(heap, {c}) /\ UNCHANGED box),
           UNCHANGED <<up, hctx, cur, leaked>>
    PROVE  MessagesInv'
<1>1. /\ MessagesTypes /\ (\A b \in Block : OwnedOnce(b)) /\ heap \in SUBSET Block
      /\ c \in Block /\ c # 0
  BY MessagesAssumption DEF MessagesInv, MessagesTypes
<1>2. \A b \in Block : b # c => Aside(b)
  BY AsideHolds
<1>3. 0 \in Home /\ 0 \in Nat /\ "data" \in Part /\ Holds(0, 0, "data", c)
  BY OtherHolds DEF Home, Part
<1>4. c \in heap /\ \A t \in Home, j \in Nat, l \in Part :
                       Holds(t, j, l, c) <=> t = 0 /\ j = 0 /\ l = "data"
  BY <1>1, <1>3, HeldHere
<1>5. Queued(c)
  <2> SUFFICES ASSUME NEW i \in Nat, NEW l \in Part PROVE ~Holds(0, i, l, c)'
    BY DEF Queued
  <2>1. c \notin lua' /\ c \notin leaked
    BY <1>1, <1>3, <1>4, OtherHolds DEF Part
  <2>2. i = 1 => ~Holds(0, i, l, c)
    BY <1>3, <1>4
  <2> QED BY <2>1, <2>2, OtherHolds DEF Busy
<1>6. Unqueued(c)
  BY <1>4, MessagesAssumption DEF Home, Unqueued
<1>7. CASE Release(heap, {c}) /\ UNCHANGED box
  <2>1. heap' = heap \ {c} /\ wrong' = (wrong \/ ~({c} \ {0} \subseteq heap))
    BY <1>7 DEF Release
  <2>2. UNCHANGED wrong
    BY <2>1, <1>1, <1>4 DEF MessagesTypes
  <2>3. MessagesTypes'
    BY <1>7, <2>1, <2>2, <1>1 DEF MessagesTypes
  <2>4. \A b \in Block : b # c => OwnedOnce(b)'
    BY <1>1, <1>2, <1>7, <2>1, Rests
  <2>5. \A t \in Home, i \in Nat, l \in Part : ~Holds(t, i, l, c)'
    BY <1>5, <1>6, <1>7, BoxedHolds DEF Home, Queued, Unqueued
  <2>6. OwnedOnce(c)'
    BY <2>1, <2>5, Nowhere
  <2> QED BY <2>3, <2>4, <2>6 DEF MessagesInv
<1>8. CASE Deliver(heap, s, c) /\ s \in up
  <2>1. pixel_push(s, Message(c, 0)) /\ heap' = heap /\ UNCHANGED wrong
    BY <1>8 DEF Deliver
  <2>2. s \in Svc /\ Len(box[s]) < MAX_BOX
    BY <1>1, <1>8 DEF MessagesTypes, HasRoom
  <2>3. PICK m \in Letter : m = Message(c, 0)
    BY <1>1, MessageTypes
  <2>4. Held(m, "data") = c /\ Held(m, "payload") = 0
    BY <1>1, <2>3, MessageTypes
  <2>5. pixel_push(s, m)
    BY <2>1, <2>3
  <2>6. PICK n \in Nat : Joined(s, n, m)
    BY <1>1, <2>2, <2>5, Pushed
  <2>7. box' \in [Svc -> Seq(Letter)] /\ \A t \in Svc : Len(box'[t]) <= MAX_BOX
    BY <1>1, <2>2, <2>5, Pushed
  <2>8. MessagesTypes'
    BY <1>1, <2>1, <2>7 DEF MessagesTypes
  <2>9. OwnedOnce(c)'
    <3>1. c \in heap' /\ \A l \in Part : l # "data" => Held(m, l) # c
      BY <1>1, <1>4, <2>1, <2>4 DEF Part
    <3> QED BY <1>1, <1>3, <1>5, <1>6, <2>2, <2>4, <2>6, <3>1, Arrives
  <2>10. ASSUME NEW b \in Block, b # c
         PROVE  OwnedOnce(b)'
    <3>1. (b \in heap' <=> b \in heap) /\ \A l \in Part : Held(m, l) # b
      BY <2>1, <2>4, <2>10, MessagesAssumption DEF Part
    <3> QED BY <1>1, <1>2, <2>2, <2>6, <2>10, <3>1, Stays
  <2> QED BY <2>8, <2>9, <2>10 DEF MessagesInv
<1>9. CASE Deliver(heap, s, c) /\ s \notin up
  <2>1. Release(heap, {c}) /\ UNCHANGED box
    BY <1>9 DEF Deliver
  <2> QED BY <2>1, <1>7
<1> QED BY <1>7, <1>8, <1>9

\* After a step: the first message of queue s is gone; no queue holds b.
Left(s) ==
    \A t \in Svc, i \in Nat, k \in Part, b \in Block :
        Holds(t, i, k, b)' <=>
            IF t = s THEN i >= 1 /\ Holds(s, i + 1, k, b) ELSE Holds(t, i, k, b)
Dequeued(b) == \A s \in Svc, i \in Nat, k \in Part : ~Holds(s, i, k, b)'

\* A block of the message that was taken is in no queue any more, and it was
\* nowhere else.
LEMMA TakenOut ==
    ASSUME NEW s \in Svc, NEW b \in Block, OwnedOnce(b), NEW k \in Part, Holds(s, 1, k, b), Left(s)
    PROVE  /\ Dequeued(b) /\ b \in heap
           /\ \A i \in Nat, l \in Part : ~Holds(0, i, l, b)
           /\ \A l \in Part : l # k => ~Holds(s, 1, l, b)
<1>1. s \in Home /\ 0 \in Home /\ s # 0 /\ 1 \in Nat /\ Svc \subseteq Home
  BY MessagesAssumption DEF Home
<1>2. b \in heap /\ \A t \in Home, j \in Nat, l \in Part :
                       Holds(t, j, l, b) <=> t = s /\ j = 1 /\ l = k
  BY <1>1, HeldHere
<1>3. ASSUME NEW t \in Svc, NEW i \in Nat, NEW l \in Part
      PROVE  ~Holds(t, i, l, b)'
  <2>1. CASE t = s
    <3>1. i + 1 \in Nat /\ (i >= 1 => i + 1 # 1)
      OBVIOUS
    <3> QED BY <2>1, <3>1, <1>1, <1>2 DEF Left
  <2>2. CASE t # s
    BY <2>2, <1>1, <1>2 DEF Left
  <2> QED BY <2>1, <2>2
<1> QED BY <1>1, <1>2, <1>3 DEF Dequeued

\* A block of another message moves up, or stays where it is.
LEMMA MovesUp ==
    ASSUME NEW s \in Svc, NEW b \in Block, OwnedOnce(b), b \in heap' <=> b \in heap,
           \A k \in Part : ~Holds(s, 0, k, b) /\ ~Holds(s, 1, k, b), Aside(b), Left(s)
    PROVE  OwnedOnce(b)'
<1>1. \A i \in Nat, k \in Part : Holds(s, i, k, b)' <=> i >= 1 /\ Holds(s, i + 1, k, b)
  BY DEF Left
<1>2. \A t \in Home, i \in Nat, k \in Part : t # s => (Holds(t, i, k, b)' <=> Holds(t, i, k, b))
  BY DEF Left, Home, Aside
<1> QED BY <1>1, <1>2, Shifted

\* The message at the head, as the dispatchers see it.
LEMMA TakesHead ==
    ASSUME MessagesInv, NEW s \in Svc, box[s] # <<>>, box' = [box EXCEPT ![s] = Tail(@)]
    PROVE  /\ box' \in [Svc -> Seq(Letter)] /\ \A t \in Svc : Len(box'[t]) <= MAX_BOX
           /\ Head(box[s]) \in Letter /\ Left(s)
           /\ \A b \in Block : /\ Holds(s, 1, "data", b) <=> Head(box[s]).data = b
                               /\ Holds(s, 1, "payload", b) <=> Head(box[s]).payload = b
                               /\ \A k \in Part : ~Holds(s, 0, k, b)
<1>1. MessagesTypes /\ "data" \in Part /\ "payload" \in Part
  BY DEF MessagesInv, Part
<1>2. Left(s)
  <2>1. /\ \A i \in Nat, k \in Part, b \in Block :
                 Holds(s, i, k, b)' <=> i >= 1 /\ Holds(s, i + 1, k, b)
        /\ \A t \in Svc, i \in Nat, k \in Part, b \in Block :
                 t # s => (Holds(t, i, k, b)' <=> Holds(t, i, k, b))
    BY <1>1, Popped
  <2> QED BY <2>1 DEF Left
<1>3. \A k \in Part, b \in Block :
                 /\ Holds(s, 1, k, b) <=> Held(Head(box[s]), k) = b
                 /\ ~Holds(s, 0, k, b)
  BY <1>1, Popped
<1>4. /\ box' \in [Svc -> Seq(Letter)] /\ \A t \in Svc : Len(box'[t]) <= MAX_BOX
      /\ Head(box[s]) \in Letter
  BY <1>1, Popped
<1>5. \A b \in Block : /\ Holds(s, 1, "data", b) <=> Head(box[s]).data = b
                       /\ Holds(s, 1, "payload", b) <=> Head(box[s]).payload = b
  BY <1>1, <1>3 DEF Held
<1> QED BY <1>2, <1>3, <1>4, <1>5

\* A block that is freed with the message it was in.
LEMMA FreedWithIt ==
    ASSUME NEW b, b \notin heap', Dequeued(b), Queued(b)
    PROVE  OwnedOnce(b)'
<1>1. \A t \in Home, i \in Nat, l \in Part : ~Holds(t, i, l, b)'
  BY DEF Dequeued, Queued, Home
<1> QED BY <1>1, Nowhere

\* A block that is now held outside the queues.
LEMMA Outside ==
    ASSUME NEW b, b \in heap', Dequeued(b), NEW i \in Nat, NEW k \in Part,
           \A j \in Nat, l \in Part : Holds(0, j, l, b)' <=> j = i /\ l = k
    PROVE  OwnedOnce(b)'
<1>1. OnlyAt(0, i, k, b) /\ 0 \in Home
  BY MessagesAssumption DEF Dequeued, OnlyAt, Home
<1> QED BY <1>1, HeldAt

LEMMA MuteInv == ASSUME MessagesInv, NEW s \in Svc, dispatch_mute(s) PROVE MessagesInv'
<1>1. /\ MessagesTypes /\ (\A b \in Block : OwnedOnce(b)) /\ heap \in SUBSET Block
      /\ "data" \in Part /\ "payload" \in Part /\ 0 \notin Block
  BY MessagesAssumption DEF MessagesInv, MessagesTypes, Part
<1>2. /\ box[s] # <<>> /\ box' = [box EXCEPT ![s] = Tail(@)]
      /\ Release(heap, {Head(box[s]).data})
      /\ leaked' = leaked \cup Payloads(<<Head(box[s])>>)
      /\ UNCHANGED <<up, hctx, cur, lua>>
  BY DEF dispatch_mute
<1>3. /\ box' \in [Svc -> Seq(Letter)] /\ \A t \in Svc : Len(box'[t]) <= MAX_BOX
      /\ Head(box[s]) \in Letter /\ Left(s)
      /\ \A b \in Block : /\ Holds(s, 1, "data", b) <=> Head(box[s]).data = b
                          /\ Holds(s, 1, "payload", b) <=> Head(box[s]).payload = b
                          /\ \A k \in Part : ~Holds(s, 0, k, b)
  BY <1>2, TakesHead
<1>4. PICK m \in Letter : m = Head(box[s])
  BY <1>3
<1>5. m.data \in Block \cup {0} /\ m.payload \in Block \cup {0}
  BY DEF Letter
<1>6. /\ heap' = heap \ {m.data} /\ wrong' = (wrong \/ ~({m.data} \ {0} \subseteq heap))
      /\ leaked' = leaked \cup ({m.payload} \ {0})
  BY <1>2, <1>4 DEF Release, Payloads
<1>7. ASSUME NEW b \in Block, m.data = b
      PROVE  OwnedOnce(b)' /\ b \in heap
  <2>1. Holds(s, 1, "data", b)
    BY <1>3, <1>4, <1>7
  <2>2. Dequeued(b) /\ b \in heap /\ (\A i \in Nat, l \in Part : ~Holds(0, i, l, b))
        /\ ~Holds(s, 1, "payload", b)
    BY <1>1, <1>3, <2>1, TakenOut
  <2>3. b # m.payload
    BY <1>3, <1>4, <2>2
  <2>4. Aside(b)
    BY <1>2, <1>6, <2>3, AsideHolds
  <2>5. Queued(b)
    BY <2>2, <2>4 DEF Queued, Aside
  <2> QED BY <1>6, <1>7, <2>2, <2>5, FreedWithIt
<1>8. ASSUME NEW b \in Block, m.payload = b
      PROVE  OwnedOnce(b)'
  <2>1. Holds(s, 1, "payload", b)
    BY <1>3, <1>4, <1>8
  <2>2. Dequeued(b) /\ b \in heap /\ (\A i \in Nat, l \in Part : ~Holds(0, i, l, b))
        /\ ~Holds(s, 1, "data", b)
    BY <1>1, <1>3, <2>1, TakenOut
  <2>3. b # m.data
    BY <1>3, <1>4, <2>2
  <2>4. b \in leaked' /\ b \in heap'
    BY <1>1, <1>6, <1>8, <2>2, <2>3
  <2>5. \A j \in Nat, l \in Part : Holds(0, j, l, b)' <=> j = 0 /\ l = "payload"
    BY <1>1, <1>2, <2>2, <2>4, OtherHolds DEF Busy
  <2> QED BY <1>1, <2>2, <2>4, <2>5, Outside
<1>9. ASSUME NEW b \in Block, b # m.data, b # m.payload
      PROVE  OwnedOnce(b)'
  <2>1. \A k \in Part : ~Holds(s, 0, k, b) /\ ~Holds(s, 1, k, b)
    BY <1>3, <1>4, <1>9 DEF Part
  <2>2. Aside(b)
    BY <1>2, <1>6, <1>9, AsideHolds
  <2>3. b \in heap' <=> b \in heap
    BY <1>6, <1>9
  <2> QED BY <1>1, <1>3, <2>1, <2>2, <2>3, MovesUp
<1>10. UNCHANGED wrong
  BY <1>1, <1>5, <1>6, <1>7 DEF MessagesTypes
<1>11. MessagesTypes'
  BY <1>1, <1>2, <1>3, <1>5, <1>6, <1>10 DEF MessagesTypes
<1> QED BY <1>7, <1>8, <1>9, <1>11 DEF MessagesInv

LEMMA CallInv == ASSUME MessagesInv, NEW s \in Svc, dispatch_call(s) PROVE MessagesInv'
<1>1. /\ MessagesTypes /\ (\A b \in Block : OwnedOnce(b)) /\ heap \in SUBSET Block
      /\ "data" \in Part /\ "payload" \in Part /\ 0 \notin Block /\ s # 0
      /\ lua \in SUBSET Block /\ leaked \in SUBSET Block
  BY MessagesAssumption DEF MessagesInv, MessagesTypes, Part
<1>2. /\ box[s] # <<>> /\ box' = [box EXCEPT ![s] = Tail(@)] /\ ~Busy
      /\ cur' = [svc |-> s, m |-> Head(box[s]), forward |-> cb[s] = "forward"]
      /\ lua' = IF cb[s] = "forward" THEN lua \cup ({Head(box[s]).data} \ {0}) ELSE lua
      /\ UNCHANGED <<up, hctx, heap, leaked, wrong>>
  BY DEF dispatch_call
<1>3. /\ box' \in [Svc -> Seq(Letter)] /\ \A t \in Svc : Len(box'[t]) <= MAX_BOX
      /\ Head(box[s]) \in Letter /\ Left(s)
      /\ \A b \in Block : /\ Holds(s, 1, "data", b) <=> Head(box[s]).data = b
                          /\ Holds(s, 1, "payload", b) <=> Head(box[s]).payload = b
                          /\ \A k \in Part : ~Holds(s, 0, k, b)
  BY <1>2, TakesHead
<1>4. PICK m \in Letter : m = Head(box[s])
  BY <1>3
<1>5. m.data \in Block \cup {0} /\ m.payload \in Block \cup {0}
  BY DEF Letter
<1>6. PICK f \in BOOLEAN : f = (cb[s] = "forward")
  OBVIOUS
<1>7. /\ cur'.m = m /\ cur'.forward = f /\ Busy'
      /\ lua' = IF f THEN lua \cup ({m.data} \ {0}) ELSE lua
  BY <1>1, <1>2, <1>4, <1>6 DEF Busy
<1>8. ASSUME NEW b \in Block, NEW i \in Nat, NEW k \in Part
      PROVE  /\ Holds(0, i, k, b)' <=>
                  \/ i = 1 /\ Held(m, k) = b /\ (k = "data" => ~f)
                  \/ i = 0 /\ k = "data" /\ b \in lua'
                  \/ i = 0 /\ k = "payload" /\ b \in leaked
             /\ Holds(0, i, k, b) <=>
                  \/ i = 0 /\ k = "data" /\ b \in lua
                  \/ i = 0 /\ k = "payload" /\ b \in leaked
  BY <1>2, <1>7, OtherHolds
<1>9. ASSUME NEW b \in Block, m.data = b
      PROVE  OwnedOnce(b)'
  <2>1. Holds(s, 1, "data", b)
    BY <1>3, <1>4, <1>9
  <2>2. Dequeued(b) /\ b \in heap /\ (\A i \in Nat, l \in Part : ~Holds(0, i, l, b))
        /\ ~Holds(s, 1, "payload", b)
    BY <1>1, <1>3, <2>1, TakenOut
  <2>3. b # m.payload /\ b \notin lua /\ b \notin leaked
    BY <1>1, <1>3, <1>4, <1>8, <2>2
  <2>4. CASE f
    <3>1. b \in lua'
      BY <1>1, <1>7, <1>9, <2>4
    <3>2. \A j \in Nat, l \in Part : Holds(0, j, l, b)' <=> j = 0 /\ l = "data"
      BY <1>8, <1>9, <2>3, <2>4, <3>1 DEF Held, Part
    <3> QED BY <1>1, <1>2, <2>2, <3>2, Outside
  <2>5. CASE ~f
    <3>1. \A j \in Nat, l \in Part : Holds(0, j, l, b)' <=> j = 1 /\ l = "data"
      BY <1>7, <1>8, <1>9, <2>3, <2>5 DEF Held, Part
    <3>2. 1 \in Nat /\ b \in heap' /\ Dequeued(b)
      BY <1>2, <2>2
    <3> QED BY <1>1, <3>1, <3>2, Outside
  <2> QED BY <2>4, <2>5
<1>10. ASSUME NEW b \in Block, m.payload = b
       PROVE  OwnedOnce(b)'
  <2>1. Holds(s, 1, "payload", b)
    BY <1>3, <1>4, <1>10
  <2>2. Dequeued(b) /\ b \in heap /\ (\A i \in Nat, l \in Part : ~Holds(0, i, l, b))
        /\ ~Holds(s, 1, "data", b)
    BY <1>1, <1>3, <2>1, TakenOut
  <2>3. b # m.data /\ b \notin lua /\ b \notin leaked
    BY <1>1, <1>3, <1>4, <1>8, <2>2
  <2>4. \A j \in Nat, l \in Part : Holds(0, j, l, b)' <=> j = 1 /\ l = "payload"
    BY <1>7, <1>8, <1>10, <2>3 DEF Held, Part
  <2>5. 1 \in Nat /\ b \in heap' /\ Dequeued(b)
    BY <1>2, <2>2
  <2> QED BY <1>1, <2>4, <2>5, Outside
<1>11. ASSUME NEW b \in Block, b # m.data, b # m.payload
       PROVE  OwnedOnce(b)'
  <2>1. \A k \in Part : ~Holds(s, 0, k, b) /\ ~Holds(s, 1, k, b)
    BY <1>3, <1>4, <1>11 DEF Part
  <2>2. Aside(b)
    BY <1>7, <1>8, <1>11 DEF Aside, Held, Part
  <2> QED BY <1>1, <1>2, <1>3, <2>1, <2>2, MovesUp
<1>12. MessagesTypes'
  <2>1. lua' \in SUBSET Block
    BY <1>1, <1>5, <1>7
  <2>2. cur' \in [svc : Svc, m : Letter, forward : BOOLEAN]
    BY <1>2, <1>3
  <2> QED BY <1>1, <1>2, <1>3, <2>1, <2>2 DEF MessagesTypes
<1> QED BY <1>9, <1>10, <1>11, <1>12 DEF MessagesInv

\* The message of the running callback.
LEMMA Running ==
    ASSUME MessagesTypes, Busy
    PROVE  cur \in [svc : Svc, m : Letter, forward : BOOLEAN]
  BY DEF MessagesTypes, Busy, NoCall

LEMMA UnpackInv == ASSUME MessagesInv, socket_unpack PROVE MessagesInv'
<1>1. /\ MessagesTypes /\ (\A b \in Block : OwnedOnce(b)) /\ heap \in SUBSET Block
      /\ "data" \in Part /\ "payload" \in Part /\ 0 \notin Block
      /\ lua \in SUBSET Block /\ leaked \in SUBSET Block /\ 0 \in Home /\ 1 \in Nat
  BY MessagesAssumption DEF MessagesInv, MessagesTypes, Part, Home
<1>2. /\ Busy /\ cur.m.payload # 0 /\ lua' = lua \cup {cur.m.payload}
      /\ cur' = [cur EXCEPT !.m.payload = 0]
      /\ UNCHANGED <<up, box, hctx, heap, leaked, wrong>>
  BY DEF socket_unpack
<1>3. cur \in [svc : Svc, m : Letter, forward : BOOLEAN]
  BY <1>1, <1>2, Running
<1>4. PICK c \in Block : c = cur.m.payload
  BY <1>2, <1>3 DEF Letter
<1>5. /\ cur' \in [svc : Svc, m : Letter, forward : BOOLEAN] /\ cur'.svc = cur.svc
      /\ cur'.forward = cur.forward /\ cur'.m.data = cur.m.data /\ cur'.m.payload = 0
  BY <1>2, <1>3 DEF Letter
<1>6. Busy'
  BY <1>2, <1>5 DEF Busy
<1>7. /\ \A k : Held(cur.m, k) = IF k = "data" THEN cur.m.data ELSE c
      /\ \A k : Held(cur'.m, k) = IF k = "data" THEN cur.m.data ELSE 0
  BY <1>4, <1>5 DEF Held
<1>8. ASSUME NEW b \in Block, NEW i \in Nat, NEW k \in Part
      PROVE  /\ Holds(0, i, k, b)' <=>
                  \/ i = 1 /\ k = "data" /\ cur.m.data = b /\ ~cur.forward
                  \/ i = 0 /\ k = "data" /\ (b \in lua \/ b = c)
                  \/ i = 0 /\ k = "payload" /\ b \in leaked
             /\ Holds(0, i, k, b) <=>
                  \/ i = 1 /\ k = "data" /\ cur.m.data = b /\ ~cur.forward
                  \/ i = 1 /\ k = "payload" /\ b = c
                  \/ i = 0 /\ k = "data" /\ b \in lua
                  \/ i = 0 /\ k = "payload" /\ b \in leaked
  <2>1. Holds(0, i, k, b)' <=>
            \/ i = 1 /\ Held(cur'.m, k) = b /\ (k = "data" => ~cur'.forward)
            \/ i = 0 /\ k = "data" /\ b \in lua'
            \/ i = 0 /\ k = "payload" /\ b \in leaked
    BY <1>2, <1>6, OtherHolds
  <2>2. Holds(0, i, k, b) <=>
            \/ i = 1 /\ Held(cur.m, k) = b /\ (k = "data" => ~cur.forward)
            \/ i = 0 /\ k = "data" /\ b \in lua
            \/ i = 0 /\ k = "payload" /\ b \in leaked
    BY <1>2, OtherHolds
  <2>3. 0 # b /\ cur'.forward = cur.forward /\ (b \in lua' <=> b \in lua \/ b = c)
    BY <1>1, <1>2, <1>4, <1>5
  <2>4. k = "data" \/ k = "payload"
    BY DEF Part
  <2> QED BY <1>7, <2>1, <2>2, <2>3, <2>4
<1>9. OwnedOnce(c)'
  <2>1. Holds(0, 1, "payload", c)
    BY <1>1, <1>8
  <2>2. c \in heap /\ \A t \in Home, j \in Nat, l \in Part :
                         Holds(t, j, l, c) <=> t = 0 /\ j = 1 /\ l = "payload"
    BY <1>1, <2>1, HeldHere
  <2>3. Dequeued(c)
    BY <1>2, <2>2, MessagesAssumption, BoxedHolds DEF Dequeued, Home
  <2>4. ~Holds(0, 1, "data", c) /\ ~Holds(0, 0, "payload", c)
    BY <1>1, <2>2
  <2>5. \A j \in Nat, l \in Part : Holds(0, j, l, c)' <=> j = 0 /\ l = "data"
    BY <1>1, <1>8, <2>4 DEF Part
  <2> QED BY <1>1, <1>2, <2>2, <2>3, <2>5, Outside
<1>10. ASSUME NEW b \in Block, b # c
       PROVE  OwnedOnce(b)'
  <2>1. Aside(b)
    BY <1>8, <1>10 DEF Aside
  <2> QED BY <1>1, <1>2, <2>1, Rests
<1>11. MessagesTypes'
  BY <1>1, <1>2, <1>4, <1>5 DEF MessagesTypes
<1> QED BY <1>9, <1>10, <1>11 DEF MessagesInv

LEMMA ReturnInv == ASSUME MessagesInv, callback_return PROVE MessagesInv'
<1>1. /\ MessagesTypes /\ (\A b \in Block : OwnedOnce(b)) /\ heap \in SUBSET Block
      /\ "data" \in Part /\ "payload" \in Part /\ 0 \notin Block
      /\ lua \in SUBSET Block /\ leaked \in SUBSET Block /\ 0 \in Home /\ 1 \in Nat
  BY MessagesAssumption DEF MessagesInv, MessagesTypes, Part, Home
<1>2. /\ Busy /\ leaked' = leaked \cup ({cur.m.payload} \ {0}) /\ cur' = NoCall
      /\ IF cur.forward THEN UNCHANGED <<heap, wrong>> ELSE Release(heap, {cur.m.data})
      /\ UNCHANGED <<up, box, hctx, lua>>
  BY DEF callback_return
<1>3. cur \in [svc : Svc, m : Letter, forward : BOOLEAN]
  BY <1>1, <1>2, Running
<1>4. PICK d \in Block \cup {0}, p \in Block \cup {0} : d = cur.m.data /\ p = cur.m.payload
  BY <1>3 DEF Letter
<1>5. PICK f \in BOOLEAN : f = cur.forward
  BY <1>3
<1>6. /\ heap' = IF f THEN heap ELSE heap \ {d}
      /\ wrong' = IF f THEN wrong ELSE wrong \/ ~({d} \ {0} \subseteq heap)
      /\ leaked' = leaked \cup ({p} \ {0}) /\ ~Busy'
  <2>1. leaked' = leaked \cup ({p} \ {0}) /\ ~Busy'
    BY <1>2, <1>4 DEF Busy, NoCall
  <2>2. CASE f
    BY <1>2, <1>5, <2>1, <2>2
  <2>3. CASE ~f
    BY <1>2, <1>4, <1>5, <2>1, <2>3 DEF Release
  <2> QED BY <2>2, <2>3
<1>7. ASSUME NEW b \in Block, NEW i \in Nat, NEW k \in Part
      PROVE  /\ Holds(0, i, k, b)' <=>
                  \/ i = 0 /\ k = "data" /\ b \in lua
                  \/ i = 0 /\ k = "payload" /\ (b \in leaked \/ b = p)
             /\ Holds(0, i, k, b) <=>
                  \/ i = 1 /\ k = "data" /\ d = b /\ ~f
                  \/ i = 1 /\ k = "payload" /\ b = p
                  \/ i = 0 /\ k = "data" /\ b \in lua
                  \/ i = 0 /\ k = "payload" /\ b \in leaked
  <2>1. Holds(0, i, k, b)' <=>
            \/ i = 0 /\ k = "data" /\ b \in lua
            \/ i = 0 /\ k = "payload" /\ b \in leaked'
    BY <1>2, <1>6, OtherHolds
  <2>2. b \in leaked' <=> b \in leaked \/ b = p
    BY <1>1, <1>6
  <2>3. Holds(0, i, k, b) <=>
            \/ i = 1 /\ Held(cur.m, k) = b /\ (k = "data" => ~f)
            \/ i = 0 /\ k = "data" /\ b \in lua
            \/ i = 0 /\ k = "payload" /\ b \in leaked
    BY <1>2, <1>5, OtherHolds
  <2>4. Held(cur.m, k) = (IF k = "data" THEN d ELSE p) /\ (k = "data" \/ k = "payload")
    BY <1>4 DEF Held, Part
  <2> QED BY <2>1, <2>2, <2>3, <2>4
<1>8. ASSUME NEW b \in Block, b = d, ~f
      PROVE  OwnedOnce(b)' /\ b \in heap
  <2>1. Holds(0, 1, "data", b)
    BY <1>1, <1>7, <1>8
  <2>2. b \in heap /\ \A t \in Home, j \in Nat, l \in Part :
                         Holds(t, j, l, b) <=> t = 0 /\ j = 1 /\ l = "data"
    BY <1>1, <2>1, HeldHere
  <2>3. Dequeued(b)
    BY <1>2, <2>2, MessagesAssumption, BoxedHolds DEF Dequeued, Home
  <2>4. b # p /\ b \notin lua /\ b \notin leaked
    BY <1>1, <1>7, <2>2
  <2>5. Queued(b)
    BY <1>7, <2>4 DEF Queued
  <2> QED BY <1>6, <1>8, <2>2, <2>3, <2>5, FreedWithIt
<1>9. ASSUME NEW b \in Block, b = p
      PROVE  OwnedOnce(b)'
  <2>1. Holds(0, 1, "payload", b)
    BY <1>1, <1>7, <1>9
  <2>2. b \in heap /\ \A t \in Home, j \in Nat, l \in Part :
                         Holds(t, j, l, b) <=> t = 0 /\ j = 1 /\ l = "payload"
    BY <1>1, <2>1, HeldHere
  <2>3. Dequeued(b)
    BY <1>2, <2>2, MessagesAssumption, BoxedHolds DEF Dequeued, Home
  <2>4. b \notin lua /\ (b # d \/ f)
    BY <1>1, <1>7, <2>2
  <2>5. \A j \in Nat, l \in Part : Holds(0, j, l, b)' <=> j = 0 /\ l = "payload"
    BY <1>7, <1>9, <2>4
  <2>6. b \in heap'
    BY <1>6, <2>2, <2>4
  <2> QED BY <1>1, <2>3, <2>5, <2>6, Outside
<1>10. ASSUME NEW b \in Block, b # d \/ f, b # p
       PROVE  OwnedOnce(b)'
  <2>1. Aside(b) /\ (b \in heap' <=> b \in heap)
    BY <1>6, <1>7, <1>10 DEF Aside
  <2> QED BY <1>1, <1>2, <2>1, Rests
<1>11. UNCHANGED wrong
  <2>1. CASE f
    BY <1>6, <2>1
  <2>2. CASE ~f
    <3>1. {d} \ {0} \subseteq heap
      BY <1>8, <2>2
    <3> QED BY <1>1, <1>6, <2>2, <3>1 DEF MessagesTypes
  <2> QED BY <2>1, <2>2
<1>12. MessagesTypes'
  <2>1. leaked' \in SUBSET Block /\ heap' \in SUBSET Block
    BY <1>1, <1>6
  <2> QED BY <1>1, <1>2, <1>11, <2>1 DEF MessagesTypes
<1> QED BY <1>8, <1>9, <1>10, <1>12 DEF MessagesInv

\* queue_free with _drop_message.
LEMMA GoneInv == ASSUME MessagesInv, NEW s \in Svc, dispatch_gone(s) PROVE MessagesInv'
<1>1. /\ MessagesTypes /\ (\A b \in Block : OwnedOnce(b)) /\ heap \in SUBSET Block
      /\ "data" \in Part /\ "payload" \in Part /\ 0 \notin Block /\ leaked \in SUBSET Block
      /\ box \in [Svc -> Seq(Letter)] /\ s \in Home /\ 0 \in Home /\ Svc \subseteq Home /\ s # 0
  BY MessagesAssumption DEF MessagesInv, MessagesTypes, Part, Home
<1>2. /\ box' = [box EXCEPT ![s] = <<>>] /\ leaked' = leaked \cup Payloads(box[s])
      /\ Release(heap, Datas(box[s])) /\ UNCHANGED <<up, hctx, cur, lua>>
  BY DEF dispatch_gone
<1>3. PICK q \in Seq(Letter) : q = box[s]
  BY <1>1
<1>4. PICK n \in Nat : n = Len(q)
  OBVIOUS
<1>5. DOMAIN q = 1 .. n /\ \A i \in 1 .. n : q[i] \in Letter
  BY <1>4
<1>6. /\ heap' = heap \ Datas(q) /\ wrong' = (wrong \/ ~(Datas(q) \ {0} \subseteq heap))
      /\ leaked' = leaked \cup Payloads(q)
  BY <1>2, <1>3 DEF Release
<1>7. /\ \A b : b \in Datas(q) <=> \E i \in 1 .. n : q[i].data = b
      /\ \A b \in Block : b \in Payloads(q) <=> \E i \in 1 .. n : q[i].payload = b
      /\ Datas(q) \subseteq Block \cup {0} /\ Payloads(q) \subseteq Block
  BY <1>1, <1>5 DEF Datas, Payloads, Letter
<1>8. \A b \in Block, i \in Nat :
         /\ Holds(s, i, "data", b) <=> i \in 1 .. n /\ q[i].data = b
         /\ Holds(s, i, "payload", b) <=> i \in 1 .. n /\ q[i].payload = b
  BY <1>3, <1>4, BoxedHolds DEF Held
<1>9. /\ box' \in [Svc -> Seq(Letter)] /\ box'[s] = <<>> /\ \A t \in Svc : t # s => box'[t] = box[t]
  BY <1>1, <1>2
<1>10. \A t \in Svc, i \in Nat, k \in Part, b \in Block :
         Holds(t, i, k, b)' <=> t # s /\ Holds(t, i, k, b)
  <2>1. Len(<<>>) = 0
    OBVIOUS
  <2>2. \A i \in Nat, k \in Part, b \in Block : ~Holds(s, i, k, b)'
    BY <1>9, <2>1, BoxedHolds
  <2>3. \A t \in Svc, i \in Nat, k \in Part, b \in Block :
           t # s => (Holds(t, i, k, b)' <=> Holds(t, i, k, b))
    BY <1>9, BoxedHolds
  <2> QED BY <2>2, <2>3
<1>11. ASSUME NEW b \in Block, b \in Datas(q)
       PROVE  OwnedOnce(b)' /\ b \in heap
  <2>1. PICK i \in Nat : Holds(s, i, "data", b)
    BY <1>7, <1>8, <1>11
  <2>2. b \in heap /\ \A t \in Home, j \in Nat, l \in Part :
                         Holds(t, j, l, b) <=> t = s /\ j = i /\ l = "data"
    BY <1>1, <2>1, HeldHere
  <2>3. Dequeued(b)
    BY <1>1, <1>10, <2>2 DEF Dequeued
  <2>4. b \notin Payloads(q)
    BY <1>1, <1>7, <1>8, <2>2
  <2>5. Aside(b)
    BY <1>2, <1>6, <2>4, AsideHolds
  <2>6. Queued(b)
    BY <1>1, <2>2, <2>5 DEF Queued, Aside
  <2> QED BY <1>6, <1>11, <2>2, <2>3, <2>6, FreedWithIt
<1>12. ASSUME NEW b \in Block, b \in Payloads(q)
       PROVE  OwnedOnce(b)'
  <2>1. PICK i \in Nat : Holds(s, i, "payload", b)
    BY <1>7, <1>8, <1>12
  <2>2. b \in heap /\ \A t \in Home, j \in Nat, l \in Part :
                         Holds(t, j, l, b) <=> t = s /\ j = i /\ l = "payload"
    BY <1>1, <2>1, HeldHere
  <2>3. Dequeued(b)
    BY <1>1, <1>10, <2>2 DEF Dequeued
  <2>4. b \notin Datas(q)
    BY <1>1, <1>7, <1>8, <2>2
  <2>5. b \in leaked' /\ b \in heap'
    BY <1>6, <1>12, <2>2, <2>4
  <2>6. \A j \in Nat, l \in Part : ~Holds(0, j, l, b)
    BY <1>1, <2>2
  <2>7. \A j \in Nat, l \in Part : Holds(0, j, l, b)' <=> j = 0 /\ l = "payload"
    BY <1>1, <1>2, <2>5, <2>6, OtherHolds DEF Busy
  <2>8. 0 \in Nat
    OBVIOUS
  <2> QED BY <1>1, <2>3, <2>5, <2>7, <2>8, Outside
<1>13. ASSUME NEW b \in Block, b \notin Datas(q), b \notin Payloads(q)
       PROVE  OwnedOnce(b)'
  <2>1. Aside(b) /\ (b \in heap' <=> b \in heap)
    BY <1>2, <1>6, <1>13, AsideHolds
  <2>2. \A i \in Nat, k \in Part : ~Holds(s, i, k, b)
    BY <1>7, <1>8, <1>13 DEF Part
  <2>3. \A t \in Home, i \in Nat, k \in Part : Holds(t, i, k, b)' <=> Holds(t, i, k, b)
    BY <1>10, <2>1, <2>2 DEF Aside, Home
  <2> QED BY <1>1, <2>1, <2>3, Same
<1>14. UNCHANGED wrong
  <2>1. Datas(q) \ {0} \subseteq heap
    BY <1>7, <1>11
  <2> QED BY <1>1, <1>6, <2>1 DEF MessagesTypes
<1>15. MessagesTypes'
  <2>1. \A t \in Svc : Len(box'[t]) <= MAX_BOX
    <3>1. Len(<<>>) = 0 /\ MAX_BOX \in Nat
      BY MessagesAssumption
    <3>2. \A t \in Svc : Len(box[t]) <= MAX_BOX
      BY <1>1 DEF MessagesTypes
    <3>3. Len(box'[s]) <= MAX_BOX
      BY <1>9, <3>1
    <3> QED BY <1>9, <3>2, <3>3
  <2>2. leaked' \in SUBSET Block /\ heap' \in SUBSET Block
    BY <1>1, <1>6, <1>7
  <2> QED BY <1>1, <1>2, <1>9, <1>14, <2>1, <2>2 DEF MessagesTypes
<1> QED BY <1>11, <1>12, <1>13, <1>15 DEF MessagesInv

\* A socket event with payload p, or without.
Event(s, c, p) ==
    IF s \in up
    THEN pixel_push(s, Message(c, p)) /\ heap' = heap \cup ({c, p} \ {0}) /\ UNCHANGED leaked
    ELSE /\ heap' = heap \cup ({p} \ {0}) /\ leaked' = leaked \cup ({p} \ {0})
         /\ UNCHANGED box

LEMMA EventInv ==
    ASSUME MessagesInv, NEW s \in Svc, HasRoom(s), NEW c \in Block, c \notin heap,
           NEW p \in Block \cup {0}, p \notin heap, p # c, Event(s, c, p),
           UNCHANGED <<up, hctx, cur, lua, wrong>>
    PROVE  MessagesInv'
<1>1. /\ MessagesTypes /\ (\A b \in Block : OwnedOnce(b)) /\ heap \in SUBSET Block
      /\ leaked \in SUBSET Block /\ c # 0 /\ 0 \notin Block
      /\ "data" \in Part /\ "payload" \in Part /\ 0 \in Nat /\ 0 \in Home /\ Svc \subseteq Home
  BY MessagesAssumption DEF MessagesInv, MessagesTypes, Part, Home
<1>2. ASSUME NEW b \in Block, b \notin heap
      PROVE  /\ \A t \in Home, i \in Nat, l \in Part : ~Holds(t, i, l, b)
             /\ Unqueued(b) /\ b \notin leaked
  <2>1. \A t \in Home, i \in Nat, l \in Part : ~Holds(t, i, l, b)
    BY <1>1, <1>2, NotHeld
  <2>2. ~Holds(0, 0, "payload", b)
    BY <1>1, <2>1
  <2> QED BY <1>1, <2>1, <2>2, OtherHolds DEF Unqueued
<1>3. CASE s \notin up
  <2>1. /\ UNCHANGED box /\ heap' = heap \cup ({p} \ {0})
        /\ leaked' = leaked \cup ({p} \ {0})
    BY <1>3 DEF Event
  <2>2. ASSUME p \in Block
        PROVE  OwnedOnce(p)'
    <3>1. (\A t \in Home, i \in Nat, l \in Part : ~Holds(t, i, l, p)) /\ Unqueued(p)
      BY <1>2, <2>2
    <3>2. Dequeued(p)
      BY <2>1, <3>1, BoxedHolds DEF Dequeued, Unqueued
    <3>3. p \in leaked' /\ p \in heap'
      BY <1>1, <2>1, <2>2
    <3>4. \A j \in Nat, l \in Part : ~Holds(0, j, l, p)
      BY <1>1, <3>1
    <3>5. \A j \in Nat, l \in Part : Holds(0, j, l, p)' <=> j = 0 /\ l = "payload"
      BY <3>3, <3>4, OtherHolds DEF Busy
    <3> QED BY <1>1, <3>2, <3>3, <3>5, Outside
  <2>3. ASSUME NEW b \in Block, b # p
        PROVE  OwnedOnce(b)'
    <3>1. Aside(b) /\ (b \in heap' <=> b \in heap)
      BY <2>1, <2>3, AsideHolds
    <3> QED BY <1>1, <2>1, <3>1, Rests
  <2>4. MessagesTypes'
    BY <1>1, <2>1 DEF MessagesTypes
  <2> QED BY <2>2, <2>3, <2>4 DEF MessagesInv
<1>4. CASE s \in up
  <2>1. pixel_push(s, Message(c, p)) /\ heap' = heap \cup ({c, p} \ {0}) /\ UNCHANGED leaked
    BY <1>4 DEF Event
  <2>2. Len(box[s]) < MAX_BOX
    BY <1>4 DEF HasRoom
  <2>3. PICK m \in Letter : m = Message(c, p)
    BY MessageTypes
  <2>4. Held(m, "data") = c /\ Held(m, "payload") = p
    BY <2>3, MessageTypes
  <2>5. pixel_push(s, m)
    BY <2>1, <2>3
  <2>6. PICK n \in Nat : Joined(s, n, m)
    BY <1>1, <2>2, <2>5, Pushed
  <2>7. box' \in [Svc -> Seq(Letter)] /\ \A t \in Svc : Len(box'[t]) <= MAX_BOX
    BY <1>1, <2>2, <2>5, Pushed
  <2>8. MessagesTypes'
    BY <1>1, <2>1, <2>7 DEF MessagesTypes
  <2>9. \A b \in Block : Aside(b)
    BY <2>1, AsideHolds
  <2>10. ASSUME NEW b \in Block, b \notin heap
         PROVE  Unqueued(b) /\ Queued(b)
    BY <1>1, <1>2, <2>9, <2>10 DEF Queued, Aside
  <2>11. OwnedOnce(c)'
    <3>1. Unqueued(c) /\ Queued(c)
      BY <2>10
    <3>2. c \in heap' /\ \A l \in Part : l # "data" => Held(m, l) # c
      BY <1>1, <2>1, <2>4 DEF Part
    <3> QED BY <1>1, <2>4, <2>6, <3>1, <3>2, Arrives
  <2>12. ASSUME p \in Block
         PROVE  OwnedOnce(p)'
    <3>1. Unqueued(p) /\ Queued(p)
      BY <2>10, <2>12
    <3>2. p \in heap' /\ \A l \in Part : l # "payload" => Held(m, l) # p
      BY <1>1, <2>1, <2>4, <2>12 DEF Part
    <3> QED BY <1>1, <2>4, <2>6, <2>12, <3>1, <3>2, Arrives
  <2>13. ASSUME NEW b \in Block, b # c, b # p
         PROVE  OwnedOnce(b)'
    <3>1. (b \in heap' <=> b \in heap) /\ \A l \in Part : Held(m, l) # b
      BY <2>1, <2>4, <2>13 DEF Part
    <3> QED BY <1>1, <2>6, <2>9, <3>1, Stays
  <2> QED BY <2>8, <2>11, <2>12, <2>13 DEF MessagesInv
<1> QED BY <1>3, <1>4

LEMMA SocketEventInv ==
    ASSUME MessagesInv, NEW s \in Svc, NEW payload \in BOOLEAN, pixel_socket_dispatch(s, payload)
    PROVE  MessagesInv'
<1>1. MessagesTypes /\ 0 \notin heap /\ 0 \notin Block
  BY MessagesAssumption DEF MessagesInv, MessagesTypes
<1>2. HasRoom(s) /\ UNCHANGED <<up, hctx, cur, lua, wrong>>
  BY DEF pixel_socket_dispatch
<1>3. CASE payload
  <2>1. Room(2) /\ Event(s, Unused(2)[1], Unused(2)[2])
    BY <1>3 DEF pixel_socket_dispatch, Event
  <2> QED BY <1>1, <1>2, <2>1, UnusedTwo, EventInv
<1>4. CASE ~payload
  <2>1. Room(1) /\ Event(s, Unused(1)[1], 0)
    BY <1>4 DEF pixel_socket_dispatch, Event
  <2>2. Unused(1)[1] \in Block /\ Unused(1)[1] \notin heap
    BY <1>1, <2>1, UnusedOne
  <2> QED BY <1>1, <1>2, <2>1, <2>2, EventInv
<1> QED BY <1>3, <1>4

\* An expired timer.
LEMMA TimerEventInv ==
    ASSUME MessagesInv, NEW s \in Svc, pixel_timer_dispatch(s) PROVE MessagesInv'
<1>1. MessagesTypes /\ (\A b \in Block : OwnedOnce(b)) /\ 0 \notin Block
  BY MessagesAssumption DEF MessagesInv
<1>2. HasRoom(s) /\ UNCHANGED <<up, hctx, cur, heap, lua, leaked, wrong>>
  BY DEF pixel_timer_dispatch
<1>3. \A b \in Block : Aside(b)
  BY <1>2, AsideHolds
<1>4. CASE s \notin up
  <2>1. UNCHANGED box
    BY <1>4 DEF pixel_timer_dispatch
  <2>2. MessagesTypes'
    BY <1>1, <1>2, <2>1 DEF MessagesTypes
  <2>3. \A b \in Block : OwnedOnce(b)'
    BY <1>1, <1>2, <1>3, <2>1, Rests
  <2> QED BY <2>2, <2>3 DEF MessagesInv
<1>5. CASE s \in up
  <2>1. PICK m \in Letter : m = Message(0, 0)
    BY MessageTypes
  <2>2. pixel_push(s, m) /\ Len(box[s]) < MAX_BOX
    BY <1>2, <1>5, <2>1 DEF pixel_timer_dispatch, HasRoom
  <2>3. PICK n \in Nat : Joined(s, n, m)
    BY <1>1, <2>2, Pushed
  <2>4. box' \in [Svc -> Seq(Letter)] /\ \A t \in Svc : Len(box'[t]) <= MAX_BOX
    BY <1>1, <2>2, Pushed
  <2>5. MessagesTypes'
    BY <1>1, <1>2, <2>4 DEF MessagesTypes
  <2>6. \A b \in Block, l \in Part : Held(m, l) # b
    BY <1>1, <2>1 DEF Message, Held
  <2>7. ASSUME NEW b \in Block
        PROVE  OwnedOnce(b)'
    <3>1. Aside(b) /\ (b \in heap' <=> b \in heap) /\ OwnedOnce(b) /\ \A l \in Part : Held(m, l) # b
      BY <1>1, <1>2, <1>3, <2>6
    <3> QED BY <2>3, <3>1, Stays
  <2> QED BY <2>5, <2>7 DEF MessagesInv
<1> QED BY <1>4, <1>5

LEMMA PackInv == ASSUME MessagesInv, lua_pack PROVE MessagesInv'
<1>1. /\ MessagesTypes /\ (\A b \in Block : OwnedOnce(b)) /\ "data" \in Part /\ 0 \in Nat
      /\ 0 \in Home /\ Svc \subseteq Home
  BY DEF MessagesInv, Part, Home
<1>2. /\ Room(1) /\ lua' = lua \cup {Unused(1)[1]} /\ heap' = heap \cup {Unused(1)[1]}
      /\ UNCHANGED <<up, box, hctx, cur, leaked, wrong>>
  BY DEF lua_pack
<1>3. PICK c \in Block : c = Unused(1)[1] /\ c \notin heap
  BY <1>1, <1>2, UnusedOne
<1>4. lua' = lua \cup {c} /\ heap' = heap \cup {c}
  BY <1>2, <1>3
<1>5. \A t \in Home, i \in Nat, l \in Part : ~Holds(t, i, l, c)
  BY <1>1, <1>3, NotHeld
<1>6. OwnedOnce(c)'
  <2>1. Dequeued(c)
    BY <1>1, <1>2, <1>5, BoxedHolds DEF Dequeued
  <2>2. \A j \in Nat, l \in Part : ~Holds(0, j, l, c)
    BY <1>1, <1>5
  <2>3. \A j \in Nat, l \in Part : Holds(0, j, l, c)' <=> j = 0 /\ l = "data"
    BY <1>2, <1>4, <2>2, OtherHolds DEF Busy
  <2>4. c \in heap'
    BY <1>4
  <2> QED BY <1>1, <2>1, <2>3, <2>4, Outside
<1>7. ASSUME NEW b \in Block, b # c
      PROVE  OwnedOnce(b)'
  <2>1. Aside(b) /\ (b \in heap' <=> b \in heap)
    BY <1>2, <1>4, <1>7, AsideHolds
  <2> QED BY <1>1, <1>2, <2>1, Rests
<1>8. MessagesTypes'
  BY <1>1, <1>2, <1>3, <1>4 DEF MessagesTypes
<1> QED BY <1>6, <1>7, <1>8 DEF MessagesInv

\* Steps that move no memory.
LEMMA NoMemoryMoved ==
    ASSUME MessagesInv, UNCHANGED <<box, cur, heap, lua, leaked, wrong>>,
           up' \in SUBSET Svc, hctx' \in Svc \cup {0}
    PROVE  MessagesInv'
<1>1. MessagesTypes'
  BY DEF MessagesInv, MessagesTypes
<1>2. ASSUME NEW b \in Block
      PROVE  OwnedOnce(b)'
  <2>1. Aside(b)
    BY AsideHolds
  <2> QED BY <2>1, Rests DEF MessagesInv
<1> QED BY <1>1, <1>2 DEF MessagesInv

LEMMA SendCopyInv ==
    ASSUME MessagesInv, NEW dest, NEW large \in BOOLEAN, send_copy(dest, large)
    PROVE  MessagesInv'
<1>1. /\ Room(1) /\ HasRoom(Target(dest)) /\ UNCHANGED <<up, hctx, cur, lua, leaked>>
      /\ MessagesTypes
  BY DEF send_copy, MessagesInv
<1>2. CASE large \/ dest = 0
  <2>1. UNCHANGED <<box, heap, wrong>>
    BY <1>2 DEF send_copy
  <2>2. up' \in SUBSET Svc /\ hctx' \in Svc \cup {0}
    BY <1>1 DEF MessagesTypes
  <2> QED BY <1>1, <2>1, <2>2, NoMemoryMoved
<1>3. CASE ~(large \/ dest = 0)
  <2>1. PICK c \in Block : c = Unused(1)[1] /\ c \notin heap
    BY <1>1, UnusedOne
  <2>2. Deliver(heap \cup {c}, Target(dest), c)
    BY <1>3, <2>1 DEF send_copy
  <2> QED BY <1>1, <2>1, <2>2, DeliverCopy
<1> QED BY <1>2, <1>3

LEMMA LogInv == ASSUME MessagesInv, pixel_log PROVE MessagesInv'
<1>1. /\ Room(1) /\ HasRoom(LogSvc) /\ UNCHANGED <<up, hctx, cur, lua, leaked>>
      /\ MessagesTypes
  BY DEF pixel_log, MessagesInv
<1>2. PICK c \in Block : c = Unused(1)[1] /\ c \notin heap
  BY <1>1, UnusedOne
<1>3. Deliver(heap \cup {c}, LogSvc, c)
  BY <1>2 DEF pixel_log
<1> QED BY <1>1, <1>2, <1>3, DeliverCopy

LEMMA SendBlockInv ==
    ASSUME MessagesInv, NEW dest, NEW large \in BOOLEAN, NEW b \in lua, send_block(dest, large, b)
    PROVE  MessagesInv'
<1>1. /\ HasRoom(Target(dest)) /\ lua' = lua \ {b} /\ UNCHANGED <<up, hctx, cur, leaked>>
      /\ Deliver(heap, Target(dest), b) \/ (Release(heap, {b}) /\ UNCHANGED box)
  BY DEF send_block
<1> QED BY <1>1, DeliverBlock

LEMMA DropInv == ASSUME MessagesInv, NEW b \in lua, ldrop(b) PROVE MessagesInv'
<1>1. /\ lua' = lua \ {b} /\ UNCHANGED <<up, hctx, cur, leaked>>
      /\ Release(heap, {b}) /\ UNCHANGED box
  BY DEF ldrop
<1>2. HasRoom(0)
  BY MessagesAssumption DEF HasRoom, MessagesInv, MessagesTypes
<1> QED BY <1>1, <1>2, DeliverBlock

LEMMA MessagesNextInv == MessagesInv /\ [MessagesNext]_msgVars => MessagesInv'
<1> SUFFICES ASSUME MessagesInv, [MessagesNext]_msgVars PROVE MessagesInv'
  OBVIOUS
<1>0. up \in SUBSET Svc /\ hctx \in Svc \cup {0}
  BY DEF MessagesInv, MessagesTypes
<1>1. ASSUME NEW dest \in Svc \cup {0, Remote}, NEW large \in BOOLEAN,
             send_copy(dest, large) \/ \E b \in lua : send_block(dest, large, b)
      PROVE  MessagesInv'
  BY <1>1, SendCopyInv, SendBlockInv
<1>2. CASE pixel_log
  BY <1>2, LogInv
<1>3. CASE lua_pack
  BY <1>3, PackInv
<1>4. CASE socket_unpack
  BY <1>4, UnpackInv
<1>5. CASE callback_return
  BY <1>5, ReturnInv
<1>6. ASSUME NEW b \in lua, ldrop(b) PROVE MessagesInv'
  BY <1>6, DropInv
<1>7. ASSUME NEW s \in Svc, pixel_timer_dispatch(s) PROVE MessagesInv'
  BY <1>7, TimerEventInv
<1>8. ASSUME NEW s \in Svc, dispatch_gone(s) PROVE MessagesInv'
  BY <1>8, GoneInv
<1>9. ASSUME NEW s \in Svc, dispatch_mute(s) PROVE MessagesInv'
  BY <1>9, MuteInv
<1>10. ASSUME NEW s \in Svc, dispatch_call(s) PROVE MessagesInv'
  BY <1>10, CallInv
<1>11. ASSUME NEW s \in Svc, harbor_start(s) PROVE MessagesInv'
  <2>1. UNCHANGED <<box, cur, heap, lua, leaked, wrong>> /\ up' \in SUBSET Svc /\ hctx' \in Svc \cup {0}
    BY <1>0, <1>11 DEF harbor_start
  <2> QED BY <2>1, NoMemoryMoved
<1>12. ASSUME NEW s \in Svc, service_gone(s) PROVE MessagesInv'
  <2>1. UNCHANGED <<box, cur, heap, lua, leaked, wrong>> /\ up' \in SUBSET Svc /\ hctx' \in Svc \cup {0}
    BY <1>0, <1>12 DEF service_gone
  <2> QED BY <2>1, NoMemoryMoved
<1>13. ASSUME NEW s \in Svc, NEW payload \in BOOLEAN, pixel_socket_dispatch(s, payload)
       PROVE  MessagesInv'
  BY <1>13, SocketEventInv
<1>14. ASSUME NEW s \in Svc, NEW kind \in {"cb", "forward"}, lcallback(s, kind) PROVE MessagesInv'
  <2>1. UNCHANGED <<box, cur, heap, lua, leaked, wrong>> /\ up' \in SUBSET Svc /\ hctx' \in Svc \cup {0}
    BY <1>0, <1>14 DEF lcallback
  <2> QED BY <2>1, NoMemoryMoved
<1>15. CASE UNCHANGED msgVars
  <2>1. UNCHANGED <<box, cur, heap, lua, leaked, wrong>> /\ up' \in SUBSET Svc /\ hctx' \in Svc \cup {0}
    BY <1>0, <1>15 DEF msgVars
  <2> QED BY <2>1, NoMemoryMoved
<1> QED BY <1>1, <1>2, <1>3, <1>4, <1>5, <1>6, <1>7, <1>8, <1>9, <1>10, <1>11, <1>12, <1>13,
           <1>14, <1>15 DEF MessagesNext

\* Each block of a message's memory has exactly one place that is going to
\* free it, and nothing is freed twice: PayloadOwned, for any services, blocks
\* and lengths of queues (the ends of pixel_send, pixel_log, the dispatchers
\* and the callbacks of pixel.c and lpixel.c).
THEOREM MessagesOwned == MessagesSpec => []PayloadOwned
<1>1. MessagesInit => MessagesInv
  <2> SUFFICES ASSUME MessagesInit PROVE MessagesInv
    OBVIOUS
  <2>1. /\ up = Svc /\ box = [s \in Svc |-> <<>>] /\ hctx = 0 /\ cur = NoCall
        /\ heap = {} /\ lua = {} /\ leaked = {} /\ wrong = FALSE
    BY DEF MessagesInit
  <2>2. <<>> \in Seq(Letter) /\ Len(<<>>) = 0 /\ MAX_BOX \in Nat
    BY MessagesAssumption
  <2>3. MessagesTypes
    BY <2>1, <2>2 DEF MessagesTypes
  <2>4. \A s \in Home, i \in Nat, k \in Part, b \in Block : ~Holds(s, i, k, b)
    BY <2>1, <2>2 DEF Holds, Busy, NoCall, Home
  <2> QED BY <2>1, <2>3, <2>4 DEF MessagesInv, OwnedOnce
<1> QED BY <1>1, MessagesNextInv, OwnersCounted, PTL DEF MessagesSpec

=============================================================================
