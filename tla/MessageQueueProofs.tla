------------------------- MODULE MessageQueueProofs -------------------------
(***************************************************************************)
(* Proofs about MessageQueue, for every initial capacity, every bound and  *)
(* every set of messages.                                                  *)
(***************************************************************************)
EXTENDS MessageQueue, SequenceTheorems, TLAPS

\* The part of TypeOK the proofs use (the alarm plays no part in them).
FlagsOK ==
    /\ global \in {0, 1} /\ release \in {0, 1}
    /\ live \in BOOLEAN /\ freed \in BOOLEAN
    /\ held \in Nat /\ inQ \in Nat /\ m \in Msg \cup {NoMsg}

\* How the two flags and the token determine each other: until it is marked,
\* a queue is scheduled exactly when `global' says so, and it may be
\* unscheduled only when it is empty; a marked queue keeps its one token
\* until it is freed.
TokenInv ==
    /\ live => release = 0
    /\ release = 0 => ~freed /\ Tokens = global
    /\ release = 0 /\ global = 0 => head = tail
    /\ release = 1 /\ ~freed => Tokens = 1
    /\ freed => Tokens = 0 /\ head = tail

IInv == RingOK /\ FlagsOK /\ TokenInv

\* head and tail move inside the ring, and a push that does not meet head
\* leaves the ring as large as it was (queue_push, lines 82-88).
LEMMA StepInRing ==
    ASSUME RingOK, NEW i \in 0 .. cap - 1
    PROVE  Step(i) \in 0 .. cap - 1
BY DEF RingOK, Step

\* The index arithmetic of _queue_expand: adding at most one lap to an index
\* and reducing modulo the capacity subtracts the capacity at most once.
LEMMA SlotIsWrap ==
    ASSUME NEW c \in Nat \ {0}, NEW h \in 0 .. c - 1, NEW i \in 0 .. c - 1
    PROVE  (h + i) % c = IF h + i < c THEN h + i ELSE h + i - c
<1>1. CASE h + i < c
  BY <1>1
<1>2. CASE h + i >= c
  <2>1. (h + i - c) % c = h + i - c
    BY <1>2
  <2> QED BY <1>2, <2>1
<1> QED BY <1>1, <1>2

-----------------------------------------------------------------------------
(* The inductive invariant *)

\* A new queue (queue_new) satisfies the invariant.
LEMMA InitIInv == Init => IInv
<1> SUFFICES ASSUME Init PROVE IInv
  OBVIOUS
<1>1. RingOK
  BY QueueAssumption DEF Init, RingOK
<1>2. live \in BOOLEAN /\ freed \in BOOLEAN /\ ~freed
  BY DEF Init
<1>3. FlagsOK
  BY <1>2 DEF Init, FlagsOK
<1>4. TokenInv
  BY <1>2 DEF Init, TokenInv, Tokens
<1> QED BY <1>1, <1>3, <1>4 DEF IInv

\* queue_push, with or without _queue_expand, keeps the ring well formed.
LEMMA PushRing ==
    ASSUME RingOK, NEW x \in Msg, Push(x)
    PROVE  RingOK'
<1> DEFINE mq == [mqueue EXCEPT ![tail] = x]
<1>1. mq \in [0 .. cap - 1 -> Msg \cup {NoMsg}]
  BY DEF RingOK
<1>2. CASE head = Step(tail)
  <2>1. ASSUME NEW i \in 0 .. cap - 1
        PROVE  Slot(i) \in 0 .. cap - 1
    BY SlotIsWrap DEF RingOK, Slot
  <2>2. Expanded(mq) \in [0 .. 2 * cap - 1 -> Msg \cup {NoMsg}]
    BY <1>1, <2>1 DEF RingOK, Expanded
  <2>3. mqueue' = Expanded(mq) /\ head' = 0 /\ tail' = cap /\ cap' = 2 * cap
    BY <1>2 DEF Push
  <2>4. cap' \in Nat \ {0} /\ head' \in 0 .. cap' - 1 /\ tail' \in 0 .. cap' - 1
    BY <2>3 DEF RingOK
  <2>5. mqueue' \in [0 .. cap' - 1 -> Msg \cup {NoMsg}]
    BY <2>2, <2>3
  <2> QED BY <2>4, <2>5 DEF RingOK
<1>3. CASE head # Step(tail)
  BY <1>1, <1>3, StepInRing DEF Push, RingOK
<1> QED BY <1>2, <1>3

\* Every operation keeps the invariant.
LEMMA NextIInv == IInv /\ [Next]_vars => IInv'
<1> SUFFICES ASSUME IInv, [Next]_vars PROVE IInv'
  OBVIOUS
<1> USE DEF IInv, FlagsOK, TokenInv, Tokens
<1>1. ASSUME NEW x \in Msg, queue_push(x) PROVE IInv'
  <2>1. RingOK'
    BY <1>1, PushRing DEF queue_push
  <2>2. FlagsOK' /\ TokenInv'
    BY <1>1 DEF queue_push
  <2> QED BY <2>1, <2>2
<1>2. CASE queue_pop_message
  <2>1. RingOK'
    BY <1>2, StepInRing DEF queue_pop_message, RingOK
  <2>2. m' \in Msg \cup {NoMsg}
    BY <1>2 DEF queue_pop_message, RingOK
  <2> QED BY <1>2, <2>1, <2>2 DEF queue_pop_message
<1>3. CASE queue_pop_empty
  BY <1>3 DEF queue_pop_empty, RingOK
<1>4. CASE queue_overload
  BY <1>4 DEF queue_overload, RingOK
<1>5. CASE queue_pop_global
  BY <1>5 DEF queue_pop_global, RingOK, ring
<1>6. CASE queue_push_global
  BY <1>6 DEF queue_push_global, RingOK, ring
<1>7. CASE handle_remove
  BY <1>7 DEF handle_remove, RingOK, ring
<1>8. CASE queue_mark_free
  BY <1>8 DEF queue_mark_free, RingOK, ring
<1>9. CASE queue_free
  <2>1. CASE release = 1
    <3>1. freed' /\ freed' \in BOOLEAN /\ ~live' /\ live' \in BOOLEAN
      BY <1>9, <2>1 DEF queue_free
    <3>2. RingOK' /\ head' = tail'
      BY <1>9, <2>1 DEF queue_free, RingOK
    <3> QED BY <1>9, <2>1, <3>1, <3>2 DEF queue_free
  <2>2. CASE release = 0
    BY <1>9, <2>2 DEF queue_free, RingOK
  <2> QED BY <2>1, <2>2
<1>10. CASE UNCHANGED vars
  BY <1>10 DEF vars, RingOK
<1> QED
  BY <1>1, <1>2, <1>3, <1>4, <1>5, <1>6, <1>7, <1>8, <1>9, <1>10 DEF Next

\* The invariant holds in every reachable state.
THEOREM Invariance == Spec => []IInv
BY InitIInv, NextIInv, PTL DEF Spec

\* RingOK: head, tail and every index the code computes stay inside the
\* allocation, through any number of expansions.
THEOREM RingSafe == Spec => []RingOK
<1>1. IInv => RingOK BY DEF IInv
<1> QED BY <1>1, Invariance, PTL

\* ScheduledOnce: a queue is never linked twice into the global list of
\* queue.c and never in two threads' hands.
THEOREM OneToken == Spec => []ScheduledOnce
<1>1. IInv => ScheduledOnce
  BY DEF IInv, FlagsOK, TokenInv, ScheduledOnce
<1> QED BY <1>1, Invariance, PTL

\* NoStranded: queue_push reschedules a parked queue, so messages (and a
\* queue that waits to be freed) always have somebody to look at them.
THEOREM NothingStranded == Spec => []NoStranded
<1>1. IInv => NoStranded
  BY DEF IInv, RingOK, FlagsOK, TokenInv, Tokens, NoStranded, Length
<1> QED BY <1>1, Invariance, PTL

\* FreedIsUnreachable: queue_free returns only memory nobody can reach.
THEOREM FreeIsSafe == Spec => []FreedIsUnreachable
<1>1. IInv => FreedIsUnreachable
  BY DEF IInv, FlagsOK, TokenInv, FreedIsUnreachable
<1> QED BY <1>1, Invariance, PTL

-----------------------------------------------------------------------------
(* The ring implements the mailbox *)

\* queue_len counts between nothing and one less than the capacity.
LEMMA LengthInRing == RingOK => Length \in 0 .. cap - 1
BY DEF RingOK, Length

\* The message i places behind the oldest, written without a modulo.
LEMMA SlotCases ==
    ASSUME RingOK, NEW i \in 0 .. cap - 1
    PROVE  /\ Slot(i) = IF head + i < cap THEN head + i ELSE head + i - cap
           /\ Slot(i) \in 0 .. cap - 1
<1>1. cap \in Nat \ {0} /\ head \in 0 .. cap - 1
  BY DEF RingOK
<1>2. Slot(i) = IF head + i < cap THEN head + i ELSE head + i - cap
  BY <1>1, SlotIsWrap DEF Slot
<1> QED BY <1>1, <1>2

\* The content of the ring is a sequence of queue_len messages.
LEMMA InboxIsSeq ==
    RingOK => inbox \in Seq(Msg \cup {NoMsg}) /\ Len(inbox) = Length
<1> SUFFICES ASSUME RingOK
             PROVE  inbox \in Seq(Msg \cup {NoMsg}) /\ Len(inbox) = Length
  OBVIOUS
<1>1. Length \in Nat /\ Length < cap
  BY LengthInRing DEF RingOK
<1>2. ASSUME NEW i \in 1 .. Length
      PROVE  mqueue[Slot(i - 1)] \in Msg \cup {NoMsg}
  <2>1. Slot(i - 1) \in 0 .. cap - 1
    BY <1>1, SlotCases DEF RingOK
  <2> QED BY <2>1 DEF RingOK
<1> QED BY <1>1, <1>2 DEF inbox

\* queue_push appends, also when the ring is unrolled by _queue_expand.
LEMMA PushAppends ==
    ASSUME RingOK, NEW x \in Msg, Push(x)
    PROVE  inbox' = Append(inbox, x)
<1> DEFINE mq == [mqueue EXCEPT ![tail] = x]
<1>0. Length \in Nat /\ Length < cap /\ cap \in Nat
  BY LengthInRing DEF RingOK
<1>1. RingOK'
  BY PushRing
<1>2. Length' = Length + 1
  <2>1. CASE head = Step(tail)
    <3>1. Length = cap - 1
      BY <2>1 DEF RingOK, Length, Step
    <3>2. head' = 0 /\ tail' = cap /\ cap' = 2 * cap
      BY <2>1 DEF Push
    <3> QED BY <1>0, <3>1, <3>2 DEF Length
  <2>2. CASE head # Step(tail)
    <3>1. head' = head /\ tail' = Step(tail) /\ cap' = cap
      BY <2>2 DEF Push
    <3> QED BY <2>2, <3>1 DEF RingOK, Length, Step
  <2> QED BY <2>1, <2>2
<1>3. ASSUME NEW i \in 0 .. Length
      PROVE  mqueue'[Slot(i)'] = IF i < Length THEN mqueue[Slot(i)] ELSE x
  <2>1. Slot(i) \in 0 .. cap - 1 /\ (Slot(i) = tail <=> i = Length)
    <3>1. i \in 0 .. cap - 1
      BY <1>0
    <3>2. /\ Slot(i) = IF head + i < cap THEN head + i ELSE head + i - cap
          /\ Slot(i) \in 0 .. cap - 1
      BY <3>1, SlotCases
    <3> QED BY <3>2 DEF RingOK, Length
  <2>2. mq[Slot(i)] = IF i < Length THEN mqueue[Slot(i)] ELSE x
    BY <1>0, <2>1 DEF RingOK
  <2>3. CASE head = Step(tail)
    <3>1. mqueue' = Expanded(mq) /\ head' = 0 /\ cap' = 2 * cap
      BY <2>3 DEF Push
    <3>2. Slot(i)' = i
      <4>1. 2 * cap \in Nat \ {0} /\ 0 \in 0 .. 2 * cap - 1
            /\ i \in 0 .. 2 * cap - 1 /\ 0 + i = i /\ i < 2 * cap
        BY <1>0
      <4>2. (0 + i) % (2 * cap) = i
        BY <4>1, SlotIsWrap
      <4> QED BY <3>1, <4>2 DEF Slot
    <3>3. Expanded(mq)[i] = mq[Slot(i)]
      BY <1>0 DEF Expanded
    <3> QED BY <2>2, <3>1, <3>2, <3>3
  <2>4. CASE head # Step(tail)
    <3>1. mqueue' = mq /\ head' = head /\ cap' = cap
      BY <2>4 DEF Push
    <3>2. Slot(i)' = Slot(i)
      BY <3>1 DEF Slot
    <3> QED BY <2>2, <3>1, <3>2
  <2> QED BY <2>3, <2>4
<1>4. inbox' = [i \in 1 .. Length + 1 |-> mqueue'[Slot(i - 1)']]
  BY <1>2 DEF inbox
<1>5. \A i \in 1 .. Length + 1 :
          mqueue'[Slot(i - 1)'] = IF i <= Length THEN inbox[i] ELSE x
  <2> TAKE i \in 1 .. Length + 1
  <2>1. i - 1 \in 0 .. Length
    BY <1>0
  <2>2. mqueue'[Slot(i - 1)'] = IF i - 1 < Length THEN mqueue[Slot(i - 1)] ELSE x
    BY <1>3, <2>1
  <2> QED BY <1>0, <2>2 DEF inbox
<1>6. inbox \in Seq(Msg \cup {NoMsg}) /\ Len(inbox) = Length
  BY InboxIsSeq
<1>7. inbox' \in Seq(Msg \cup {NoMsg}) /\ Len(inbox') = Length + 1
  <2>1. (inbox \in Seq(Msg \cup {NoMsg}) /\ Len(inbox) = Length)'
    BY <1>1, InboxIsSeq, PTL
  <2> QED BY <1>2, <2>1
<1>8. /\ Append(inbox, x) \in Seq(Msg \cup {NoMsg})
      /\ Len(Append(inbox, x)) = Length + 1
      /\ \A i \in 1 .. Length : Append(inbox, x)[i] = inbox[i]
      /\ Append(inbox, x)[Length + 1] = x
  BY <1>6, AppendProperties
<1>9. \A i \in 1 .. Length + 1 : inbox'[i] = Append(inbox, x)[i]
  <2> TAKE i \in 1 .. Length + 1
  <2>1. inbox'[i] = IF i <= Length THEN inbox[i] ELSE x
    BY <1>4, <1>5
  <2> QED BY <1>0, <1>8, <2>1
<1> QED BY <1>7, <1>8, <1>9, SeqEqual

\* queue_pop returns the oldest message and leaves the others in order.
LEMMA PopTakesHead ==
    ASSUME RingOK, head # tail,
           head' = Step(head), UNCHANGED <<cap, tail, mqueue>>
    PROVE  /\ inbox # <<>>
           /\ mqueue[head] = Head(inbox)
           /\ inbox' = Tail(inbox)
<1>0. Length \in Nat /\ Length < cap /\ cap \in Nat
  BY LengthInRing DEF RingOK
<1>1. Length > 0 /\ Length' = Length - 1
  BY DEF RingOK, Length, Step
<1>2. RingOK'
  BY StepInRing DEF RingOK
<1>3. Slot(0) = head
  BY SlotCases DEF RingOK
<1>4. ASSUME NEW i \in 1 .. Length - 1
      PROVE  mqueue'[Slot(i - 1)'] = mqueue[Slot(i)]
  <2>1. i - 1 \in 0 .. cap - 1 /\ i \in 0 .. cap - 1
    BY <1>0
  <2>2. Slot(i - 1)' =
          IF Step(head) + (i - 1) < cap THEN Step(head) + (i - 1)
          ELSE Step(head) + (i - 1) - cap
    <3>1. Step(head) \in 0 .. cap - 1
      BY StepInRing DEF RingOK
    <3> QED BY <2>1, <3>1, SlotIsWrap DEF Slot, RingOK
  <2>3. Slot(i - 1)' = Slot(i)
    BY <1>0, <2>1, <2>2, SlotCases, SMTT(30) DEF RingOK, Step
  <2> QED BY <2>3
<1>5. inbox' = [i \in 1 .. Length - 1 |-> mqueue[Slot(i)]]
  <2>1. inbox' = [i \in 1 .. Length - 1 |-> mqueue'[Slot(i - 1)']]
    BY <1>1 DEF inbox
  <2> QED BY <1>4, <2>1
<1>6. \A i \in 1 .. Length - 1 : inbox[i + 1] = mqueue[Slot(i)]
  BY <1>0 DEF inbox
<1>7. inbox \in Seq(Msg \cup {NoMsg}) /\ Len(inbox) = Length
  BY InboxIsSeq
<1>8. Head(inbox) = mqueue[head] /\ inbox # <<>>
  <2>1. inbox[1] = mqueue[Slot(0)]
    BY <1>0, <1>1 DEF inbox
  <2> QED BY <1>0, <1>1, <1>3, <1>7, <2>1
<1>9. /\ Tail(inbox) \in Seq(Msg \cup {NoMsg})
      /\ Len(Tail(inbox)) = Length - 1
      /\ \A i \in 1 .. Len(Tail(inbox)) : Tail(inbox)[i] = inbox[i + 1]
  BY <1>7, <1>8, HeadTailProperties
<1>10. inbox' \in Seq(Msg \cup {NoMsg}) /\ Len(inbox') = Length - 1
  <2>1. (inbox \in Seq(Msg \cup {NoMsg}) /\ Len(inbox) = Length)'
    BY <1>2, InboxIsSeq, PTL
  <2> QED BY <1>1, <2>1
<1>11. \A i \in 1 .. Len(inbox') : inbox'[i] = Tail(inbox)[i]
  BY <1>5, <1>6, <1>9, <1>10
<1>12. inbox' = Tail(inbox)
  BY <1>9, <1>10, <1>11, SeqEqual
<1> QED BY <1>8, <1>12

\* A step that leaves the ring alone leaves its content alone.
LEMMA InboxUnchanged == UNCHANGED ring => UNCHANGED inbox
BY DEF ring, inbox, Length, Slot

\* An empty ring is an empty inbox.
LEMMA EmptyInbox == RingOK => (inbox = <<>> <=> head = tail)
<1> SUFFICES ASSUME RingOK PROVE inbox = <<>> <=> head = tail
  OBVIOUS
<1>1. inbox \in Seq(Msg \cup {NoMsg}) /\ Len(inbox) = Length
  BY InboxIsSeq
<1>2. Length = 0 <=> head = tail
  BY DEF RingOK, Length
<1>3. inbox = <<>> <=> Len(inbox) = 0
  BY <1>1, EmptySeq
<1> QED BY <1>1, <1>2, <1>3

\* The initial states map to the initial states of the mailbox.
LEMMA InitRefines == Init => Abstract!Init
<1> SUFFICES ASSUME Init PROVE Abstract!Init
  OBVIOUS
<1>1. inbox = <<>>
  <2>1. RingOK /\ head = tail
    BY InitIInv DEF Init, IInv
  <2> QED BY <2>1, EmptyInbox
<1>2. token = "held"
  BY DEF Init, token
<1> QED BY <1>1, <1>2 DEF Init, Abstract!Init

\* Every operation of queue.c is a step of the mailbox, or invisible to it.
LEMMA NextRefines ==
    IInv /\ IInv' /\ [Next]_vars => [Abstract!Next]_(Abstract!vars)
<1> SUFFICES ASSUME IInv, IInv', [Next]_vars
             PROVE  [Abstract!Next]_(Abstract!vars)
  OBVIOUS
<1> USE DEF IInv
<1>0. FlagsOK /\ TokenInv /\ FlagsOK' /\ RingOK
  OBVIOUS
<1>1. ASSUME NEW x \in Msg, queue_push(x) PROVE Abstract!Put
  <2>1. inbox' = Append(inbox, x)
    BY <1>1, PushAppends DEF queue_push
  <2>2. token' = IF token = "off" THEN "queued" ELSE token
    BY <1>0, <1>1 DEF queue_push, token, FlagsOK, TokenInv, Tokens
  <2>3. live /\ UNCHANGED <<m, live, freed>>
    BY <1>1 DEF queue_push
  <2> QED BY <2>1, <2>2, <2>3 DEF Abstract!Put
<1>2. CASE queue_pop_message
  <2>1. inbox # <<>> /\ m' = Head(inbox) /\ inbox' = Tail(inbox)
    BY <1>2, PopTakesHead DEF queue_pop_message
  <2>2. token = "held" /\ token' = token
    BY <1>2 DEF queue_pop_message, token
  <2>3. live /\ UNCHANGED <<live, freed>>
    BY <1>2 DEF queue_pop_message
  <2>4. Abstract!Take
    BY <2>1, <2>2, <2>3 DEF Abstract!Take
  <2> QED BY <2>4 DEF Abstract!Next
<1>3. CASE queue_pop_empty
  <2>1. inbox = <<>> /\ inbox' = inbox
    BY <1>3, EmptyInbox, InboxUnchanged DEF queue_pop_empty, ring
  <2>2. token = "held" /\ token' = "off"
    <3>1. release = 0 /\ held = 1 /\ inQ = 0
      BY <1>0, <1>3 DEF queue_pop_empty, FlagsOK, TokenInv, Tokens
    <3>2. held' = 0 /\ inQ' = 0
      BY <1>3, <3>1 DEF queue_pop_empty
    <3> QED BY <3>1, <3>2 DEF token
  <2>3. live /\ UNCHANGED <<m, live, freed>>
    BY <1>3 DEF queue_pop_empty
  <2>4. Abstract!Park
    BY <2>1, <2>2, <2>3 DEF Abstract!Park
  <2> QED BY <2>4 DEF Abstract!Next
<1>4. CASE queue_overload
  <2>1. UNCHANGED <<inbox, m, token, live, freed>>
    BY <1>4, InboxUnchanged DEF queue_overload, ring, token
  <2> QED BY <2>1 DEF Abstract!vars
<1>5. CASE queue_pop_global
  <2>1. UNCHANGED <<inbox, m, live, freed>>
    BY <1>5, InboxUnchanged DEF queue_pop_global, ring
  <2>2. token = "queued" /\ token' = "held"
    <3>1. inQ > 0 /\ held = 0
      BY <1>0, <1>5 DEF queue_pop_global, FlagsOK, TokenInv, Tokens
    <3>2. held' = 1
      BY <1>5, <3>1 DEF queue_pop_global
    <3> QED BY <3>1, <3>2 DEF token
  <2>3. Abstract!Fetch
    BY <2>1, <2>2 DEF Abstract!Fetch
  <2> QED BY <2>3 DEF Abstract!Next
<1>6. CASE queue_push_global
  <2>1. UNCHANGED <<inbox, m, live, freed>>
    BY <1>6, InboxUnchanged DEF queue_push_global, ring
  <2>2. token = "held" /\ token' = "queued"
    <3>1. held = 1 /\ inQ = 0
      BY <1>0, <1>6 DEF queue_push_global, FlagsOK, TokenInv, Tokens
    <3>2. held' = 0 /\ inQ' = 1
      BY <1>6, <3>1 DEF queue_push_global
    <3> QED BY <3>1, <3>2 DEF token
  <2>3. Abstract!Yield
    BY <2>1, <2>2 DEF Abstract!Yield
  <2> QED BY <2>3 DEF Abstract!Next
<1>7. CASE handle_remove
  <2>1. UNCHANGED <<inbox, m, token, freed>> /\ live /\ live' = FALSE
    BY <1>7, InboxUnchanged DEF handle_remove, ring, token
  <2>2. Abstract!Close
    BY <2>1 DEF Abstract!Close
  <2> QED BY <2>2 DEF Abstract!Next
<1>8. CASE queue_mark_free
  <2>1. UNCHANGED <<inbox, m, live, freed>> /\ ~live /\ ~freed
    BY <1>0, <1>8, InboxUnchanged DEF queue_mark_free, ring, TokenInv
  <2>2. CASE global = 0
    <3>1. held = 0 /\ inQ = 0 /\ held' = 0 /\ inQ' = 1
      BY <1>0, <1>8, <2>2 DEF queue_mark_free, FlagsOK, TokenInv, Tokens
    <3>2. token = "off" /\ token' = "queued"
      BY <3>1 DEF token
    <3>3. Abstract!Recall
      BY <2>1, <3>2 DEF Abstract!Recall
    <3> QED BY <3>3 DEF Abstract!Next
  <2>3. CASE global = 1
    <3>1. UNCHANGED token
      BY <1>8, <2>3 DEF queue_mark_free, token
    <3> QED BY <2>1, <3>1 DEF Abstract!vars
  <2> QED BY <1>0, <2>2, <2>3 DEF FlagsOK
<1>9. CASE queue_free
  <2>1. held = 1 /\ inQ = 0 /\ held' = 0
    BY <1>0, <1>9 DEF queue_free, FlagsOK, TokenInv, Tokens
  <2>2. token = "held" /\ ~live /\ UNCHANGED <<m, live>>
    BY <1>9, <2>1 DEF queue_free, token
  <2>3. CASE release = 1
    <3>1. RingOK' /\ (head = tail)'
      BY <1>9, <2>3 DEF queue_free
    <3>2. (inbox = <<>>)'
      BY <3>1, EmptyInbox, PTL
    <3>3. token' = "off"
      BY <1>9, <2>1, <2>3 DEF queue_free, token
    <3>4. freed' = TRUE
      BY <1>9, <2>3 DEF queue_free
    <3>5. Abstract!Dispose
      BY <2>2, <3>2, <3>3, <3>4 DEF Abstract!Dispose
    <3> QED BY <3>5 DEF Abstract!Next
  <2>4. CASE release = 0
    <3>1. UNCHANGED <<inbox, freed>>
      BY <1>9, <2>4, InboxUnchanged DEF queue_free, ring
    <3>2. token' = "queued"
      BY <1>9, <2>1, <2>4 DEF queue_free, token
    <3>3. Abstract!Yield
      BY <2>2, <3>1, <3>2 DEF Abstract!Yield
    <3> QED BY <3>3 DEF Abstract!Next
  <2> QED BY <1>0, <2>3, <2>4 DEF FlagsOK
<1>10. CASE UNCHANGED vars
  <2>1. UNCHANGED <<inbox, m, token, live, freed>>
    BY <1>10, InboxUnchanged DEF vars, ring, token
  <2> QED BY <2>1 DEF Abstract!vars
<1> QED
  BY <1>1, <1>2, <1>3, <1>4, <1>5, <1>6, <1>7, <1>8, <1>9, <1>10
  DEF Next, Abstract!Next

\* MailboxSpec: the ring of queue.c, with its growth, its flags and its
\* deferred destruction, is a FIFO with one scheduling token.
THEOREM Refinement == Spec => MailboxSpec
<1>1. Init => Abstract!Init
  BY InitRefines
<1>2. IInv /\ IInv' /\ [Next]_vars => [Abstract!Next]_(Abstract!vars)
  BY NextRefines
<1> QED BY <1>1, <1>2, Invariance, PTL DEF Spec, MailboxSpec, Abstract!Spec

=============================================================================
