------------------------- MODULE SocketServerProofs -------------------------
(***************************************************************************)
(* Proofs about the slots of the socket server, for any number of slots,   *)
(* calling threads, ids and requests: a slot is reserved for one socket,   *)
(* the poller and the descriptors agree with the slots, and events stay    *)
(* with the socket they came for.                                          *)
(***************************************************************************)
EXTENDS SocketServer, SequenceTheorems, FiniteSetTheorems, TLAPS

(***************************************************************************)
(* The inductive invariant, in parts.                                      *)
(***************************************************************************)

Started   == {"opening", "opened", "listen", "bind", "halfclose"}
SlotTypes == Started \cup {"invalid", "reserve", "plisten", "paccept"}
SlotRec   == [type : SlotTypes, id : Nat, buf : BOOLEAN, out : BOOLEAN,
              lent : BOOLEAN, udp : BOOLEAN]
ReqRec    == [kind : Creating \cup {"start", "close", "send"}, id : Nat]
CallRec   == [pc : {"idle", "retry", "reserve", "store"}, id : Nat, tries : Nat]

\* The descriptors the server has made and still accounts for.
Owned     == {slot[s].id : s \in {i \in Slot : Live(i) /\ ~slot[i].lent}}
Coming    == {pipe[i].id : i \in {j \in 1 .. Len(pipe) : pipe[j].kind \in {"listen", "udp"}}}

SlotInv ==
    /\ slot \in [Slot -> SlotRec]
    /\ \A s \in Slot :
          /\ slot[s].type \in {"listen", "plisten", "paccept"} => ~slot[s].buf
          /\ slot[s].type \notin {"bind", "halfclose"} => ~slot[s].lent
          /\ slot[s].type = "bind" => slot[s].lent

\* The thread is alone with the request socket_new failed for.
ThreadInv ==
    /\ pipe \in Seq(ReqRec)
    /\ cl \in [Client -> CallRec]
    /\ known \subseteq Nat
    /\ next_id \in Nat
    /\ closing \in Nat \cup {None}
    /\ phase = "failed" =>
          /\ pipe # <<>> /\ pipe[1].kind \in {"open", "udp"} /\ closing = None
          /\ ~Live(HASH_ID(pipe[1].id))

\* Callers that have got an id, and requests that bring one to its slot.
Has(c) == cl[c].pc \in {"reserve", "store"}
New(i) == i \in 1 .. Len(pipe) /\ pipe[i].kind \in Creating

\* An id is handed out once: it is with one caller, in one request or in its
\* slot, and never comes back after its descriptor was leaked.
IdInv ==
    /\ \A s \in Slot : slot[s].id <= next_id
    /\ \A s \in Slot : Live(s) => HASH_ID(slot[s].id) = s /\ slot[s].id \notin leaked
    /\ leaked \subseteq 0 .. next_id
    /\ \A c \in Client : Has(c) =>
          /\ cl[c].id <= next_id /\ cl[c].id \notin leaked
          /\ \A s \in Slot : slot[s].id # cl[c].id
          /\ \A d \in Client : d # c /\ Has(d) => cl[d].id # cl[c].id
          /\ \A i \in 1 .. Len(pipe) : New(i) => pipe[i].id # cl[c].id
    /\ \A i \in 1 .. Len(pipe) : New(i) =>
          /\ pipe[i].id <= next_id /\ pipe[i].id \notin leaked
          /\ \A j \in 1 .. Len(pipe) : j # i /\ New(j) => pipe[j].id # pipe[i].id

\* A request whose slot is still to be set up.
Due(i)   == New(i) /\ (i = 1 => phase # "failed")
Storing(c) == cl[c].pc = "store"

ReserveInv ==
    failed # "wiped" =>
        /\ \A i \in 1 .. Len(pipe) : Due(i) =>
              /\ Reserve(HASH_ID(pipe[i].id)) /\ slot[HASH_ID(pipe[i].id)].id = pipe[i].id
              /\ \A c \in Client : Storing(c) => HASH_ID(cl[c].id) # HASH_ID(pipe[i].id)
        /\ \A c \in Client : Storing(c) =>
              /\ Reserve(HASH_ID(cl[c].id))
              /\ \A d \in Client : Storing(d) /\ d # c => HASH_ID(cl[d].id) # HASH_ID(cl[c].id)
        /\ \A s \in Slot : Reserve(s) =>
              \/ \E c \in Client : Storing(c) /\ HASH_ID(cl[c].id) = s
              \/ \E i \in 1 .. Len(pipe) : Due(i) /\ HASH_ID(pipe[i].id) = s

\* What is left of the events, if no thread reserved a slot too early: none
\* for a reserved slot, and for a free one only until clear_closed.
EventInv ==
    /\ ev \in [Slot -> SUBSET {"r", "w"}] /\ evid \in [Slot -> Nat]
    /\ ~raced => \A s \in Slot : ev[s] # {} =>
          /\ ~Reserve(s)
          /\ Invalid(s) => closing = slot[s].id
          /\ Live(s) => evid[s] = slot[s].id

FdInv == fds = Owned \cup Coming \cup leaked

IInv ==
    /\ SlotInv /\ ThreadInv /\ IdInv /\ ReserveInv
    /\ WatchedExact /\ watched \subseteq Slot
    /\ FdInv /\ EventInv

-----------------------------------------------------------------------------
(* Lemmas *)

LEMMA HashType == \A id \in Nat : HASH_ID(id) \in Slot
  BY ServerAssumption DEF HASH_ID, Slot

\* A slot is replaced by another record.
LEMMA SlotSet ==
    ASSUME slot \in [Slot -> SlotRec], NEW k \in Slot, NEW r \in SlotRec,
           slot' = [slot EXCEPT ![k] = r]
    PROVE  /\ slot' \in [Slot -> SlotRec] /\ slot'[k] = r
           /\ \A s \in Slot : s # k => slot'[s] = slot[s]
  OBVIOUS

LEMMA FreeRec ==
    ASSUME NEW id \in Nat
    PROVE  /\ Free(id) \in SlotRec /\ Free(id).type = "invalid" /\ Free(id).id = id
           /\ ~Free(id).buf /\ ~Free(id).lent
  BY DEF Free, SlotRec, SlotTypes

\* A record with another type.
LEMMA TypeRec ==
    ASSUME NEW r \in SlotRec, NEW ty \in SlotTypes, NEW q, q = [r EXCEPT !.type = ty]
    PROVE  /\ q \in SlotRec /\ q.type = ty /\ q.id = r.id
           /\ q.buf = r.buf /\ q.lent = r.lent
  BY DEF SlotRec

LEMMA IdRec ==
    ASSUME NEW r \in SlotRec, NEW id \in Nat, NEW q, q = [r EXCEPT !.id = id]
    PROVE  /\ q \in SlotRec /\ q.type = r.type /\ q.id = id
           /\ q.buf = r.buf /\ q.lent = r.lent
  BY DEF SlotRec

\* What socket_new and its caller leave in the slot.
Made(id, type, udp) ==
    [type |-> type, id |-> id, buf |-> FALSE, out |-> type = "opening",
     lent |-> type = "bind", udp |-> udp]

LEMMA MadeRec ==
    ASSUME NEW id \in Nat, NEW ty \in SlotTypes, NEW r,
           r = Made(id, ty, FALSE) \/ r = Made(id, ty, TRUE)
    PROVE  /\ r \in SlotRec /\ r.type = ty /\ r.id = id /\ ~r.buf
           /\ r.lent <=> ty = "bind"
<1> DEFINE o == ty = "opening"
           b == ty = "bind"
           t == [type |-> ty, id |-> id, buf |-> FALSE, out |-> o, lent |-> b, udp |-> FALSE]
           u == [type |-> ty, id |-> id, buf |-> FALSE, out |-> o, lent |-> b, udp |-> TRUE]
<1>1. o \in BOOLEAN /\ b \in BOOLEAN /\ (b <=> ty = "bind")
  OBVIOUS
<1>2. r = t \/ r = u
  BY DEF Made
<1> HIDE DEF o, b
<1>3. t \in SlotRec /\ u \in SlotRec
  BY <1>1, Zenon DEF SlotRec
<1>4. /\ t.type = ty /\ t.id = id /\ ~t.buf /\ t.lent = b
      /\ u.type = ty /\ u.id = id /\ ~u.buf /\ u.lent = b
  BY Zenon
<1> HIDE DEF t, u
<1> QED BY <1>1, <1>2, <1>3, <1>4

\* The pipe when its first request is taken, and when one is added.
LEMMA PipeTail ==
    ASSUME pipe \in Seq(ReqRec), pipe # <<>>, pipe' = Tail(pipe)
    PROVE  /\ pipe' \in Seq(ReqRec) /\ Len(pipe) \in Nat /\ Len(pipe') = Len(pipe) - 1
           /\ Len(pipe) >= 1 /\ Head(pipe) = pipe[1] /\ pipe[1] \in ReqRec
           /\ \A i \in 1 .. Len(pipe') : pipe'[i] = pipe[i + 1] /\ i + 1 \in 1 .. Len(pipe)
           /\ \A i \in 1 .. Len(pipe) : i # 1 => /\ i - 1 \in 1 .. Len(pipe')
                                                 /\ pipe'[i - 1] = pipe[i]
<1>1. Len(pipe) \in Nat /\ Len(pipe) >= 1
  BY EmptySeq, LenProperties
<1>2. /\ pipe' \in Seq(ReqRec) /\ Len(pipe') = Len(pipe) - 1
      /\ Head(pipe) = pipe[1] /\ pipe[1] \in ReqRec
      /\ \A i \in 1 .. Len(pipe) - 1 : pipe'[i] = pipe[i + 1]
  BY <1>1, HeadTailProperties, ElementOfSeq
<1> QED BY <1>1, <1>2

LEMMA PipeAppend ==
    ASSUME pipe \in Seq(ReqRec), NEW q \in ReqRec, pipe' = Append(pipe, q)
    PROVE  /\ pipe' \in Seq(ReqRec) /\ Len(pipe) \in Nat /\ Len(pipe') = Len(pipe) + 1
           /\ pipe'[Len(pipe) + 1] = q
           /\ \A i \in 1 .. Len(pipe) : pipe'[i] = pipe[i]
  BY AppendProperties, LenProperties

LEMMA PipeElement ==
    ASSUME pipe \in Seq(ReqRec), NEW i \in 1 .. Len(pipe)
    PROVE  pipe[i] \in ReqRec /\ pipe[i].id \in Nat /\ HASH_ID(pipe[i].id) \in Slot
<1>1. pipe[i] \in ReqRec
  BY ElementOfSeq
<1>2. pipe[i].id \in Nat
  BY <1>1 DEF ReqRec
<1> QED BY <1>1, <1>2, HashType

LEMMA InitIInv == Init => IInv
<1> SUFFICES ASSUME Init PROVE IInv
  OBVIOUS
<1>1. \A s \in Slot : slot[s] = Free(0)
  BY DEF Init
<1>2. Free(0) \in SlotRec /\ Free(0).type = "invalid" /\ Free(0).id = 0 /\ ~Free(0).lent
  BY FreeRec
<1>3. SlotInv
  BY <1>1, <1>2 DEF Init, SlotInv
<1>4. \A s \in Slot : ~Live(s) /\ ~Reserve(s)
  BY <1>1, <1>2 DEF Live, Invalid, Reserve
<1>5. pipe = <<>> /\ pipe \in Seq(ReqRec) /\ Len(pipe) = 0
  BY DEF Init
<1>6. \A c \in Client : cl[c].pc = "idle"
  BY DEF Init, Idle
<1>7. ThreadInv
  BY <1>5 DEF Init, ThreadInv, CallRec, Idle
<1>8. IdInv
  BY <1>1, <1>2, <1>4, <1>5, <1>6 DEF Init, IdInv, Has
<1>9. ReserveInv
  BY <1>4, <1>5, <1>6 DEF ReserveInv, Storing
<1>10. WatchedExact /\ watched \subseteq Slot
  BY <1>1, <1>2 DEF Init, WatchedExact
<1>11. FdInv
  BY <1>4, <1>5 DEF Init, FdInv, Owned, Coming
<1>12. EventInv
  BY DEF Init, EventInv
<1> QED BY <1>3, <1>7, <1>8, <1>9, <1>10, <1>11, <1>12 DEF IInv

-----------------------------------------------------------------------------
(* The socket thread handles an event, or a request that creates nothing,  *)
(* and slot k at most changes: it stays reserved, live or free, or a live  *)
(* socket is closed, or its descriptor is given up.                        *)

Rest == /\ next_id' = next_id /\ cl' = cl /\ known' = known /\ raced' = raced

Taken ==
    \/ pipe' = pipe /\ phase' # "failed"
    \/ /\ phase' = "ctrl" /\ pipe # <<>> /\ Head(pipe).kind \notin Creating
       /\ pipe' = Tail(pipe)

SlotOK(r) ==
    /\ r \in SlotRec
    /\ r.type \in {"listen", "plisten", "paccept"} => ~r.buf
    /\ r.type \notin {"bind", "halfclose"} => ~r.lent
    /\ r.type = "bind" => r.lent

OnlySlot(k) ==
    /\ slot' \in [Slot -> SlotRec] /\ SlotOK(slot'[k])
    /\ \A s \in Slot : s # k => slot'[s] = slot[s]

Poller(k) ==
    /\ watched' \subseteq Slot
    /\ \A s \in Slot : s # k => (s \in watched' <=> s \in watched)
    /\ k \in watched' <=> slot'[k].type \in Started

Fate(k) ==
    \/ /\ (slot'[k].type = "invalid") <=> (slot[k].type = "invalid")
       /\ (slot'[k].type = "reserve") <=> (slot[k].type = "reserve")
       /\ slot'[k].lent = slot[k].lent /\ fds' = fds /\ leaked' = leaked
    \/ /\ Live(k) /\ slot'[k].type = "invalid" /\ leaked' = leaked
       /\ fds' = IF slot[k].type # "bind" THEN fds \ {slot[k].id} ELSE fds
    \/ /\ Live(k) /\ slot'[k].type = "invalid" /\ ~slot[k].lent /\ fds' = fds
       /\ leaked' = leaked \cup {slot[k].id}

Leftover(k) ==
    /\ ev' \in [Slot -> SUBSET {"r", "w"}] /\ evid' \in [Slot -> Nat]
    /\ \A s \in Slot : s # k => ev'[s] = ev[s] /\ evid'[s] = evid[s]
    /\ ev'[k] # {} => ev[k] # {} /\ evid'[k] = evid[k]
    /\ ~raced /\ ev'[k] # {} /\ slot'[k].type = "invalid" => closing' = slot[k].id

Handles(k) ==
    /\ phase # "failed" /\ closing = None /\ closing' \in Nat \cup {None}
    /\ failed = "no" /\ failed' # "wiped"
    /\ Rest /\ Taken /\ OnlySlot(k) /\ slot'[k].id = slot[k].id
    /\ Poller(k) /\ Fate(k) /\ Leftover(k)

LEMMA SlotRule ==
    ASSUME SlotInv, NEW k \in Slot, OnlySlot(k)
    PROVE  SlotInv'
  BY DEF SlotInv, OnlySlot, SlotOK

LEMMA WatchRule ==
    ASSUME WatchedExact, NEW k \in Slot, OnlySlot(k), Poller(k)
    PROVE  WatchedExact' /\ (watched \subseteq Slot)'
  BY DEF WatchedExact, OnlySlot, Poller, Started

\* Every request that is left was there, one place further on.
LEMMA TakenPipe ==
    ASSUME pipe \in Seq(ReqRec), Taken, phase # "failed"
    PROVE  /\ pipe' \in Seq(ReqRec) /\ phase' # "failed"
           /\ \A i \in 1 .. Len(pipe') :
                 \E j \in 1 .. Len(pipe) :
                    /\ pipe'[i] = pipe[j]
                    /\ \A x \in 1 .. Len(pipe') : x # i => \E y \in 1 .. Len(pipe) :
                                                      y # j /\ pipe'[x] = pipe[y]
           /\ \A j \in 1 .. Len(pipe) : pipe[j].kind \in Creating =>
                 \E i \in 1 .. Len(pipe') : pipe'[i] = pipe[j]
<1>1. CASE pipe' = pipe /\ phase' # "failed"
  BY <1>1
<1>2. CASE /\ phase' = "ctrl" /\ pipe # <<>> /\ Head(pipe).kind \notin Creating
           /\ pipe' = Tail(pipe)
  <2>1. /\ pipe' \in Seq(ReqRec) /\ Len(pipe) \in Nat /\ Len(pipe') = Len(pipe) - 1
        /\ Len(pipe) >= 1 /\ Head(pipe) = pipe[1]
        /\ \A i \in 1 .. Len(pipe') : pipe'[i] = pipe[i + 1] /\ i + 1 \in 1 .. Len(pipe)
        /\ \A i \in 1 .. Len(pipe) : i # 1 => /\ i - 1 \in 1 .. Len(pipe')
                                              /\ pipe'[i - 1] = pipe[i]
    BY <1>2, PipeTail
  <2>2. ASSUME NEW i \in 1 .. Len(pipe')
        PROVE  \E j \in 1 .. Len(pipe) :
                    /\ pipe'[i] = pipe[j]
                    /\ \A x \in 1 .. Len(pipe') : x # i => \E y \in 1 .. Len(pipe) :
                                                      y # j /\ pipe'[x] = pipe[y]
    <3>1. i + 1 \in 1 .. Len(pipe) /\ pipe'[i] = pipe[i + 1]
      BY <2>1
    <3>2. ASSUME NEW x \in 1 .. Len(pipe'), x # i
          PROVE  x + 1 \in 1 .. Len(pipe) /\ x + 1 # i + 1 /\ pipe'[x] = pipe[x + 1]
      BY <2>1, <3>2
    <3> QED BY <3>1, <3>2
  <2>3. ASSUME NEW j \in 1 .. Len(pipe), pipe[j].kind \in Creating
        PROVE  \E i \in 1 .. Len(pipe') : pipe'[i] = pipe[j]
    <3>1. j # 1
      BY <1>2, <2>1, <2>3
    <3> QED BY <2>1, <3>1
  <2> QED BY <1>2, <2>1, <2>2, <2>3
<1> QED BY <1>1, <1>2 DEF Taken

LEMMA HandlesThread ==
    ASSUME IInv, NEW k \in Slot, Handles(k)
    PROVE  ThreadInv'
<1>1. pipe \in Seq(ReqRec)
  BY DEF IInv, ThreadInv
<1>2. pipe' \in Seq(ReqRec) /\ phase' # "failed"
  BY <1>1, TakenPipe DEF Handles
<1> QED BY <1>2 DEF IInv, ThreadInv, Handles, Rest

LEMMA HandlesIds ==
    ASSUME IInv, NEW k \in Slot, Handles(k)
    PROVE  IdInv'
<1>t. /\ slot \in [Slot -> SlotRec] /\ pipe \in Seq(ReqRec) /\ cl \in [Client -> CallRec]
      /\ next_id' = next_id /\ cl' = cl /\ next_id \in Nat /\ IdInv
  BY DEF IInv, SlotInv, ThreadInv, Handles, Rest
<1>p. \A i \in 1 .. Len(pipe') :
        \E j \in 1 .. Len(pipe) :
           /\ pipe'[i] = pipe[j]
           /\ \A x \in 1 .. Len(pipe') : x # i => \E y \in 1 .. Len(pipe) :
                                             y # j /\ pipe'[x] = pipe[y]
  BY <1>t, TakenPipe DEF Handles
<1>id. \A s \in Slot : slot'[s].id = slot[s].id
  BY DEF Handles, OnlySlot
<1>live. \A s \in Slot : Live(s)' => Live(s)
  BY DEF Handles, OnlySlot, Fate, Live, Invalid, Reserve
<1>nat. \A s \in Slot : slot[s].id \in Nat
  BY <1>t DEF SlotRec
\* Only the id of a live socket, which is nowhere else, is leaked.
<1>leak. \/ leaked' = leaked
         \/ /\ leaked' = leaked \cup {slot[k].id} /\ Live(k) /\ ~Live(k)'
  BY DEF Handles, Fate, Live, Invalid
<1>new. ASSUME NEW i \in 1 .. Len(pipe), New(i), Live(k)
        PROVE  pipe[i].id # slot[k].id
  <2>1. Reserve(HASH_ID(pipe[i].id))
    BY <1>new DEF IInv, ReserveInv, Due, Handles
  <2>2. HASH_ID(slot[k].id) = k
    BY <1>t, <1>new DEF IdInv
  <2> QED BY <1>new, <2>1, <2>2 DEF Live
<1>1. \A s \in Slot : slot'[s].id <= next_id'
  BY <1>t, <1>id DEF IdInv
<1>2. \A s \in Slot : Live(s)' => HASH_ID(slot'[s].id) = s /\ slot'[s].id \notin leaked'
  BY <1>t, <1>id, <1>live, <1>leak DEF IdInv
<1>3. leaked' \subseteq 0 .. next_id'
  <2>1. slot[k].id \in 0 .. next_id
    BY <1>t, <1>nat DEF IdInv
  <2> QED BY <2>1, <1>t, <1>leak DEF IdInv
<1>4. ASSUME NEW c \in Client, Has(c)'
      PROVE  /\ cl'[c].id <= next_id' /\ cl'[c].id \notin leaked'
             /\ \A s \in Slot : slot'[s].id # cl'[c].id
             /\ \A d \in Client : d # c /\ Has(d)' => cl'[d].id # cl'[c].id
             /\ \A i \in 1 .. Len(pipe') : New(i)' => pipe'[i].id # cl'[c].id
  <2>1. Has(c) /\ \A d \in Client : Has(d)' => Has(d)
    BY <1>4, <1>t DEF Has
  <2>2. /\ cl[c].id <= next_id /\ cl[c].id \notin leaked
        /\ \A s \in Slot : slot[s].id # cl[c].id
        /\ \A d \in Client : d # c /\ Has(d) => cl[d].id # cl[c].id
        /\ \A i \in 1 .. Len(pipe) : New(i) => pipe[i].id # cl[c].id
    BY <2>1, <1>t DEF IdInv
  <2>3. \A i \in 1 .. Len(pipe') : New(i)' => pipe'[i].id # cl[c].id
    BY <2>2, <1>p DEF New
  <2> QED BY <2>1, <2>2, <2>3, <1>t, <1>id, <1>leak
<1>5. ASSUME NEW i \in 1 .. Len(pipe'), New(i)'
      PROVE  /\ pipe'[i].id <= next_id' /\ pipe'[i].id \notin leaked'
             /\ \A x \in 1 .. Len(pipe') : x # i /\ New(x)' => pipe'[x].id # pipe'[i].id
  <2>1. PICK j \in 1 .. Len(pipe) :
           /\ pipe'[i] = pipe[j]
           /\ \A x \in 1 .. Len(pipe') : x # i => \E y \in 1 .. Len(pipe) :
                                             y # j /\ pipe'[x] = pipe[y]
    BY <1>p
  <2>2. New(j)
    BY <1>5, <2>1 DEF New
  <2>3. /\ pipe[j].id <= next_id /\ pipe[j].id \notin leaked
        /\ \A y \in 1 .. Len(pipe) : y # j /\ New(y) => pipe[y].id # pipe[j].id
    BY <2>2, <1>t DEF IdInv
  <2>4. pipe[j].id \notin leaked'
    BY <2>2, <2>3, <1>leak, <1>new
  <2>5. \A x \in 1 .. Len(pipe') : x # i /\ New(x)' => pipe'[x].id # pipe'[i].id
    BY <2>1, <2>3 DEF New
  <2> QED BY <2>1, <2>3, <2>4, <2>5, <1>t
<1> QED BY <1>1, <1>2, <1>3, <1>4, <1>5 DEF IdInv

LEMMA HandlesReserve ==
    ASSUME IInv, NEW k \in Slot, Handles(k)
    PROVE  ReserveInv'
<1>t. /\ slot \in [Slot -> SlotRec] /\ pipe \in Seq(ReqRec) /\ cl' = cl
      /\ phase # "failed" /\ failed = "no"
      /\ \A c \in Client : Storing(c)' <=> Storing(c)
  BY DEF IInv, SlotInv, ThreadInv, Handles, Rest, Storing
<1>p. /\ phase' # "failed"
      /\ \A i \in 1 .. Len(pipe') : \E j \in 1 .. Len(pipe) : pipe'[i] = pipe[j]
      /\ \A j \in 1 .. Len(pipe) : pipe[j].kind \in Creating =>
                 \E i \in 1 .. Len(pipe') : pipe'[i] = pipe[j]
  BY <1>t, TakenPipe DEF Handles
<1>id. \A s \in Slot : slot'[s].id = slot[s].id
  BY DEF Handles, OnlySlot
<1>r. \A s \in Slot : Reserve(s)' <=> Reserve(s)
  BY DEF Handles, OnlySlot, Fate, Live, Invalid, Reserve
<1>cl. \A c \in Client : HASH_ID(cl[c].id) \in Slot
  BY HashType DEF IInv, ThreadInv, CallRec
<1>old. /\ \A i \in 1 .. Len(pipe) : New(i) =>
              /\ Reserve(HASH_ID(pipe[i].id)) /\ slot[HASH_ID(pipe[i].id)].id = pipe[i].id
              /\ \A c \in Client : Storing(c) => HASH_ID(cl[c].id) # HASH_ID(pipe[i].id)
        /\ \A c \in Client : Storing(c) =>
              /\ Reserve(HASH_ID(cl[c].id))
              /\ \A d \in Client : Storing(d) /\ d # c => HASH_ID(cl[d].id) # HASH_ID(cl[c].id)
        /\ \A s \in Slot : Reserve(s) =>
              \/ \E c \in Client : Storing(c) /\ HASH_ID(cl[c].id) = s
              \/ \E i \in 1 .. Len(pipe) : New(i) /\ HASH_ID(pipe[i].id) = s
  BY <1>t DEF IInv, ReserveInv, Due
<1>1. ASSUME NEW i \in 1 .. Len(pipe'), Due(i)'
      PROVE  /\ slot'[HASH_ID(pipe'[i].id)].type = "reserve"
             /\ slot'[HASH_ID(pipe'[i].id)].id = pipe'[i].id
             /\ \A c \in Client : Storing(c)' => HASH_ID(cl'[c].id) # HASH_ID(pipe'[i].id)
  <2>1. PICK j \in 1 .. Len(pipe) : pipe'[i] = pipe[j]
    BY <1>p
  <2>2. New(j)
    BY <1>1, <2>1 DEF Due, New
  <2>3. PICK h \in Slot : h = HASH_ID(pipe[j].id)
    BY <1>t, PipeElement
  <2>4. Reserve(h) /\ slot[h].id = pipe[j].id
        /\ \A c \in Client : Storing(c) => HASH_ID(cl[c].id) # h
    BY <2>2, <2>3, <1>old
  <2>5. Reserve(h)'
    BY <2>4, <1>r
  <2>6. slot'[h].type = "reserve"
    BY <2>5 DEF Reserve
  <2>7. slot'[HASH_ID(pipe'[i].id)].type = "reserve"
    BY <2>1, <2>3, <2>6
  <2> QED BY <2>1, <2>3, <2>4, <2>7, <1>id, <1>t
<1>2. ASSUME NEW c \in Client, Storing(c)'
      PROVE  /\ slot'[HASH_ID(cl'[c].id)].type = "reserve"
             /\ \A d \in Client : Storing(d)' /\ d # c => HASH_ID(cl'[d].id) # HASH_ID(cl'[c].id)
  <2>1. PICK h \in Slot : h = HASH_ID(cl[c].id)
    BY <1>cl
  <2>2. Reserve(h)'
    BY <1>2, <2>1, <1>t, <1>old, <1>r
  <2>3. slot'[HASH_ID(cl'[c].id)].type = "reserve"
    BY <2>1, <2>2, <1>t DEF Reserve
  <2> QED BY <1>2, <2>3, <1>t, <1>old
<1>3. ASSUME NEW s \in Slot, Reserve(s)'
      PROVE  \/ \E c \in Client : Storing(c)' /\ HASH_ID(cl'[c].id) = s
             \/ \E i \in 1 .. Len(pipe') : Due(i)' /\ HASH_ID(pipe'[i].id) = s
  <2>1. CASE \E c \in Client : Storing(c) /\ HASH_ID(cl[c].id) = s
    BY <2>1, <1>t
  <2>2. CASE \E i \in 1 .. Len(pipe) : New(i) /\ HASH_ID(pipe[i].id) = s
    <3>1. PICK j \in 1 .. Len(pipe) : New(j) /\ HASH_ID(pipe[j].id) = s
      BY <2>2
    <3>2. PICK i \in 1 .. Len(pipe') : pipe'[i] = pipe[j]
      BY <3>1, <1>p DEF New
    <3>3. Due(i)'
      BY <3>1, <3>2, <1>p DEF Due, New
    <3> QED BY <3>1, <3>2, <3>3
  <2> QED BY <1>3, <1>r, <1>old, <2>1, <2>2
<1> QED BY <1>1, <1>2, <1>3 DEF ReserveInv, Reserve

LEMMA HandlesFds ==
    ASSUME IInv, NEW k \in Slot, Handles(k)
    PROVE  FdInv'
<1>t. /\ slot \in [Slot -> SlotRec] /\ pipe \in Seq(ReqRec) /\ phase # "failed"
      /\ failed = "no" /\ IdInv /\ fds = Owned \cup Coming \cup leaked
      /\ slot[k].type = "bind" => slot[k].lent
  BY DEF IInv, SlotInv, ThreadInv, Handles, FdInv
<1>c. Coming' = Coming
  <2>1. /\ \A i \in 1 .. Len(pipe') : \E j \in 1 .. Len(pipe) : pipe'[i] = pipe[j]
        /\ \A j \in 1 .. Len(pipe) : pipe[j].kind \in Creating =>
                 \E i \in 1 .. Len(pipe') : pipe'[i] = pipe[j]
    BY <1>t, TakenPipe DEF Handles
  <2>2. \A q : q.kind \in {"listen", "udp"} => q.kind \in Creating
    BY DEF Creating
  <2>3. Coming' \subseteq Coming
    BY <2>1 DEF Coming
  <2>4. Coming \subseteq Coming'
    <3> SUFFICES ASSUME NEW j \in 1 .. Len(pipe), pipe[j].kind \in {"listen", "udp"}
                 PROVE  pipe[j].id \in Coming'
      BY DEF Coming
    <3>1. PICK i \in 1 .. Len(pipe') : pipe'[i] = pipe[j]
      BY <2>1, <2>2
    <3> QED BY <3>1 DEF Coming
  <2> QED BY <2>3, <2>4
<1>s. \A s \in Slot : s # k => slot'[s] = slot[s]
  BY DEF Handles, OnlySlot
<1>1. CASE /\ Live(k)' <=> Live(k)
           /\ slot'[k].lent = slot[k].lent /\ fds' = fds /\ leaked' = leaked
  <2>1. Owned' = Owned
    <3>1. \A s \in Slot : /\ (Live(s) /\ ~slot[s].lent)' <=> (Live(s) /\ ~slot[s].lent)
                          /\ slot'[s].id = slot[s].id
      BY <1>1, <1>s DEF Live, Invalid, Reserve, Handles
    <3> QED BY <3>1 DEF Owned
  <2> QED BY <1>1, <1>c, <1>t, <2>1 DEF FdInv
<1>2. ASSUME Live(k), slot'[k].type = "invalid"
      PROVE  /\ Owned' = Owned \ {slot[k].id}
             /\ slot[k].lent => slot[k].id \notin Owned
             /\ ~slot[k].lent => slot[k].id \in Owned
             /\ slot[k].id \notin Coming /\ slot[k].id \notin leaked
  <2>1. \A s \in Slot : Live(s) /\ slot[s].id = slot[k].id => s = k
    BY <1>2, <1>t DEF IdInv
  <2>2. \A s \in Slot : (Live(s) /\ ~slot[s].lent)' <=> Live(s) /\ ~slot[s].lent /\ s # k
    BY <1>2, <1>s DEF Live, Invalid, Reserve
  <2>3. Owned' = Owned \ {slot[k].id}
    BY <2>1, <2>2, <1>s DEF Owned
  <2>4. /\ slot[k].lent => slot[k].id \notin Owned
        /\ ~slot[k].lent => slot[k].id \in Owned
    BY <2>1, <1>2 DEF Owned
  <2>5. slot[k].id \notin Coming
    <3> SUFFICES ASSUME NEW i \in 1 .. Len(pipe), pipe[i].kind \in {"listen", "udp"},
                        pipe[i].id = slot[k].id
                 PROVE  FALSE
      BY DEF Coming
    <3>1. Due(i)
      BY <1>t DEF Due, New, Creating
    <3>2. Reserve(HASH_ID(pipe[i].id))
      BY <3>1, <1>t DEF IInv, ReserveInv
    <3> QED BY <3>2, <1>2, <1>t DEF IdInv, Live
  <2> QED BY <2>3, <2>4, <2>5, <1>2, <1>t DEF IdInv
<1>3. CASE /\ Live(k) /\ slot'[k].type = "invalid" /\ leaked' = leaked
           /\ fds' = IF slot[k].type # "bind" THEN fds \ {slot[k].id} ELSE fds
  <2>1. Owned' \cup Coming \cup leaked = fds \ {slot[k].id}
    BY <1>2, <1>3, <1>t
  <2>2. slot[k].lent => slot[k].id \notin fds
    BY <1>2, <1>3, <1>t
  <2> QED BY <1>3, <1>c, <1>t, <2>1, <2>2 DEF FdInv
<1>4. CASE /\ Live(k) /\ slot'[k].type = "invalid" /\ ~slot[k].lent /\ fds' = fds
           /\ leaked' = leaked \cup {slot[k].id}
  <2>1. Owned' \cup Coming \cup leaked' = fds
    BY <1>2, <1>4, <1>t
  <2> QED BY <1>4, <1>c, <2>1 DEF FdInv
<1>5. Live(k)' <=> slot'[k].type # "invalid" /\ slot'[k].type # "reserve"
  BY DEF Live, Invalid, Reserve
<1> QED BY <1>1, <1>3, <1>4, <1>5 DEF Handles, Fate, Live, Invalid, Reserve

LEMMA HandlesEvents ==
    ASSUME IInv, NEW k \in Slot, Handles(k)
    PROVE  EventInv'
<1>t. /\ slot \in [Slot -> SlotRec] /\ closing = None /\ raced' = raced /\ EventInv
      /\ slot'[k].id = slot[k].id
  BY DEF IInv, SlotInv, Handles, Rest
<1>n. \A s \in Slot : slot[s].id # closing
  BY <1>t, ServerAssumption DEF SlotRec
<1>l. /\ ev' \in [Slot -> SUBSET {"r", "w"}] /\ evid' \in [Slot -> Nat]
      /\ \A s \in Slot : s # k => ev'[s] = ev[s] /\ evid'[s] = evid[s] /\ slot'[s] = slot[s]
      /\ ev'[k] # {} => ev[k] # {} /\ evid'[k] = evid[k]
      /\ ~raced /\ ev'[k] # {} /\ slot'[k].type = "invalid" => closing' = slot[k].id
  BY DEF Handles, Leftover, OnlySlot
<1>1. ASSUME ~raced', NEW s \in Slot, ev'[s] # {}
      PROVE  /\ slot'[s].type # "reserve"
             /\ slot'[s].type = "invalid" => closing' = slot'[s].id
             /\ slot'[s].type \notin {"invalid", "reserve"} => evid'[s] = slot'[s].id
  <2>1. ev[s] # {} /\ evid'[s] = evid[s]
    BY <1>1, <1>l
  <2>2. slot[s].type # "reserve" /\ slot[s].type # "invalid" /\ evid[s] = slot[s].id
    BY <1>1, <2>1, <1>t, <1>n DEF EventInv, Live, Invalid, Reserve
  <2>3. CASE s = k
    BY <2>1, <2>2, <2>3, <1>1, <1>l, <1>t DEF Handles, Fate
  <2>4. CASE s # k
    BY <2>1, <2>2, <2>4, <1>l
  <2> QED BY <2>3, <2>4
<1> QED BY <1>1, <1>l DEF EventInv, Live, Invalid, Reserve

LEMMA HandlesKeeps ==
    ASSUME IInv, NEW k \in Slot, Handles(k)
    PROVE  IInv'
<1>1. SlotInv'
  BY SlotRule DEF IInv, Handles
<1>2. WatchedExact' /\ (watched \subseteq Slot)'
  BY WatchRule DEF IInv, Handles
<1> QED BY <1>1, <1>2, HandlesThread, HandlesIds, HandlesReserve, HandlesFds,
           HandlesEvents DEF IInv

-----------------------------------------------------------------------------
(* The socket thread handles a request that creates a socket: slot k, which *)
(* is reserved for it, is set up or given back.                            *)

Creates(k) ==
    /\ phase = "ctrl" /\ phase' = "ctrl" /\ closing = None /\ closing' \in Nat \cup {None}
    /\ failed = "no" /\ failed' = "no" /\ Rest
    /\ pipe # <<>> /\ pipe' = Tail(pipe) /\ Head(pipe).kind \in Creating
    /\ k = HASH_ID(Head(pipe).id)
    /\ OnlySlot(k) /\ slot'[k].id = Head(pipe).id /\ slot'[k].type # "reserve"
    /\ Poller(k) /\ leaked' = leaked
    /\ Head(pipe).kind \in {"listen", "udp"} =>
          slot'[k].type # "invalid" /\ ~slot'[k].lent
    /\ fds' = IF slot'[k].type # "invalid" /\ ~slot'[k].lent
              THEN fds \cup {slot'[k].id} ELSE fds
    /\ ev' = ev /\ evid' = evid

LEMMA CreatesKeeps ==
    ASSUME IInv, NEW k \in Slot, Creates(k)
    PROVE  IInv'
<1> DEFINE q == Head(pipe)
<1>t. /\ slot \in [Slot -> SlotRec] /\ pipe \in Seq(ReqRec) /\ cl' = cl /\ pipe # <<>>
      /\ next_id' = next_id /\ next_id \in Nat /\ leaked' = leaked /\ IdInv /\ raced' = raced
      /\ phase = "ctrl" /\ phase' = "ctrl" /\ failed = "no" /\ failed' = "no"
      /\ k = HASH_ID(q.id) /\ q.kind \in Creating
  BY DEF IInv, SlotInv, ThreadInv, Creates, Rest
<1>has. \A c \in Client : (Has(c)' <=> Has(c)) /\ (Storing(c)' <=> Storing(c))
  BY <1>t DEF Has, Storing
<1>p. /\ pipe' \in Seq(ReqRec) /\ Len(pipe) \in Nat /\ Len(pipe') = Len(pipe) - 1
      /\ Len(pipe) >= 1 /\ q = pipe[1]
      /\ \A i \in 1 .. Len(pipe') : pipe'[i] = pipe[i + 1] /\ i + 1 \in 1 .. Len(pipe)
      /\ \A i \in 1 .. Len(pipe) : i # 1 => /\ i - 1 \in 1 .. Len(pipe')
                                            /\ pipe'[i - 1] = pipe[i]
  BY <1>t, PipeTail DEF Creates
<1>s. /\ slot'[k].id = q.id /\ slot'[k].type # "reserve"
      /\ \A s \in Slot : s # k => slot'[s] = slot[s]
  BY DEF Creates, OnlySlot
<1>cl. \A c \in Client : HASH_ID(cl[c].id) \in Slot
  BY HashType DEF IInv, ThreadInv, CallRec
<1> HIDE DEF q
<1>old. /\ \A i \in 1 .. Len(pipe) : New(i) =>
              /\ Reserve(HASH_ID(pipe[i].id)) /\ slot[HASH_ID(pipe[i].id)].id = pipe[i].id
              /\ \A c \in Client : Storing(c) => HASH_ID(cl[c].id) # HASH_ID(pipe[i].id)
        /\ \A c \in Client : Storing(c) =>
              /\ Reserve(HASH_ID(cl[c].id))
              /\ \A d \in Client : Storing(d) /\ d # c => HASH_ID(cl[d].id) # HASH_ID(cl[c].id)
        /\ \A s \in Slot : Reserve(s) =>
              \/ \E c \in Client : Storing(c) /\ HASH_ID(cl[c].id) = s
              \/ \E i \in 1 .. Len(pipe) : New(i) /\ HASH_ID(pipe[i].id) = s
  BY <1>t DEF IInv, ReserveInv, Due
\* The slot is reserved for this request and no other.
<1>one. /\ 1 \in 1 .. Len(pipe) /\ New(1)
  BY <1>p, <1>t DEF New
<1>k. /\ Reserve(k) /\ slot[k].id = q.id
      /\ \A c \in Client : Storing(c) => HASH_ID(cl[c].id) # k
      /\ q.id <= next_id /\ q.id \notin leaked
  BY <1>one, <1>p, <1>t, <1>old DEF IdInv
<1>u. \A i \in 1 .. Len(pipe) : New(i) /\ i # 1 => HASH_ID(pipe[i].id) # k /\ pipe[i].id # q.id
  <2> SUFFICES ASSUME NEW i \in 1 .. Len(pipe), New(i), i # 1
               PROVE  HASH_ID(pipe[i].id) # k /\ pipe[i].id # q.id
    OBVIOUS
  <2>1. pipe[i].id # pipe[1].id
    BY <1>one, <1>t DEF IdInv
  <2>2. slot[HASH_ID(pipe[i].id)].id = pipe[i].id
    BY <1>old
  <2> QED BY <2>1, <2>2, <1>k, <1>p
<1>1. SlotInv'
  BY SlotRule DEF IInv, Creates
<1>2. WatchedExact' /\ (watched \subseteq Slot)'
  BY WatchRule DEF IInv, Creates
<1>3. ThreadInv'
  BY <1>p, <1>t DEF IInv, ThreadInv, Creates, Rest
<1>4. IdInv'
  <2>1. \A s \in Slot : slot'[s].id = slot[s].id
    BY <1>s, <1>k
  <2>2. \A s \in Slot : Live(s)' => HASH_ID(slot[s].id) = s /\ slot[s].id \notin leaked
    <3>1. \A s \in Slot : s # k /\ Live(s)' => Live(s)
      BY <1>s DEF Live, Invalid, Reserve
    <3> QED BY <3>1, <1>k, <1>t DEF IdInv
  <2>3. ASSUME NEW c \in Client, Has(c)
        PROVE  \A i \in 1 .. Len(pipe') : New(i)' => pipe'[i].id # cl[c].id
    BY <2>3, <1>p, <1>t DEF IdInv, New
  <2>4. ASSUME NEW i \in 1 .. Len(pipe'), New(i)'
        PROVE  /\ pipe'[i].id <= next_id /\ pipe'[i].id \notin leaked
               /\ \A x \in 1 .. Len(pipe') : x # i /\ New(x)' => pipe'[x].id # pipe'[i].id
    <3>1. New(i + 1) /\ i + 1 \in 1 .. Len(pipe) /\ pipe'[i] = pipe[i + 1]
      BY <2>4, <1>p DEF New
    <3>2. /\ pipe[i + 1].id <= next_id /\ pipe[i + 1].id \notin leaked
          /\ \A j \in 1 .. Len(pipe) : j # i + 1 /\ New(j) => pipe[j].id # pipe[i + 1].id
      BY <3>1, <1>t DEF IdInv
    <3>3. ASSUME NEW x \in 1 .. Len(pipe'), x # i, New(x)'
          PROVE  pipe'[x].id # pipe'[i].id
      <4>1. New(x + 1) /\ x + 1 \in 1 .. Len(pipe) /\ pipe'[x] = pipe[x + 1] /\ x + 1 # i + 1
        BY <3>3, <1>p DEF New
      <4> QED BY <3>1, <3>2, <4>1
    <3> QED BY <3>1, <3>2, <3>3
  <2>5. /\ \A s \in Slot : slot'[s].id <= next_id'
        /\ \A s \in Slot : Live(s)' => HASH_ID(slot'[s].id) = s /\ slot'[s].id \notin leaked'
        /\ leaked' \subseteq 0 .. next_id'
    BY <2>1, <2>2, <1>t DEF IdInv
  <2>6. ASSUME NEW c \in Client, Has(c)'
        PROVE  /\ cl'[c].id <= next_id' /\ cl'[c].id \notin leaked'
               /\ \A s \in Slot : slot'[s].id # cl'[c].id
               /\ \A d \in Client : d # c /\ Has(d)' => cl'[d].id # cl'[c].id
               /\ \A i \in 1 .. Len(pipe') : New(i)' => pipe'[i].id # cl'[c].id
    BY <2>1, <2>3, <2>6, <1>t, <1>has DEF IdInv
  <2> QED BY <2>4, <2>5, <2>6, <1>t DEF IdInv
<1>5. ReserveInv'
  <2>1. ASSUME NEW i \in 1 .. Len(pipe'), Due(i)'
        PROVE  /\ slot'[HASH_ID(pipe'[i].id)].type = "reserve"
               /\ slot'[HASH_ID(pipe'[i].id)].id = pipe'[i].id
               /\ \A c \in Client : Storing(c)' => HASH_ID(cl'[c].id) # HASH_ID(pipe'[i].id)
    <3>1. New(i + 1) /\ i + 1 \in 1 .. Len(pipe) /\ i + 1 # 1 /\ pipe'[i] = pipe[i + 1]
      BY <2>1, <1>p DEF New, Due
    <3>2. PICK h \in Slot : h = HASH_ID(pipe[i + 1].id)
      BY <3>1, <1>t, PipeElement
    <3>3. h # k /\ Reserve(h) /\ slot[h].id = pipe[i + 1].id
          /\ \A c \in Client : Storing(c) => HASH_ID(cl[c].id) # h
      BY <3>1, <3>2, <1>u, <1>old
    <3>4. slot'[h] = slot[h]
      BY <3>3, <1>s
    <3> QED BY <3>1, <3>2, <3>3, <3>4, <1>has, <1>t DEF Reserve
  <2>2. ASSUME NEW c \in Client, Storing(c)'
        PROVE  /\ slot'[HASH_ID(cl'[c].id)].type = "reserve"
               /\ \A d \in Client : Storing(d)' /\ d # c => HASH_ID(cl'[d].id) # HASH_ID(cl'[c].id)
    <3>1. PICK h \in Slot : h = HASH_ID(cl[c].id)
      BY <1>cl
    <3>2. Storing(c) /\ h # k /\ Reserve(h)
      BY <2>2, <3>1, <1>has, <1>k, <1>old
    <3>3. slot'[h] = slot[h]
      BY <3>2, <1>s
    <3> QED BY <3>1, <3>2, <3>3, <1>has, <1>t, <1>old DEF Reserve
  <2>3. ASSUME NEW s \in Slot, slot'[s].type = "reserve"
        PROVE  \/ \E c \in Client : Storing(c)' /\ HASH_ID(cl'[c].id) = s
               \/ \E i \in 1 .. Len(pipe') : Due(i)' /\ HASH_ID(pipe'[i].id) = s
    <3>1. s # k /\ Reserve(s)
      BY <2>3, <1>s DEF Reserve
    <3>2. CASE \E c \in Client : Storing(c) /\ HASH_ID(cl[c].id) = s
      BY <3>2, <1>has, <1>t
    <3>3. CASE \E i \in 1 .. Len(pipe) : New(i) /\ HASH_ID(pipe[i].id) = s
      <4>1. PICK j \in 1 .. Len(pipe) : New(j) /\ HASH_ID(pipe[j].id) = s
        BY <3>3
      <4>2. j # 1
        BY <3>1, <4>1, <1>p, <1>t
      <4>3. j - 1 \in 1 .. Len(pipe') /\ pipe'[j - 1] = pipe[j]
        BY <4>2, <1>p
      <4>4. PICK i \in 1 .. Len(pipe') : pipe'[i] = pipe[j]
        BY <4>3
      <4>5. Due(i)'
        BY <4>1, <4>4, <1>t DEF Due, New
      <4> QED BY <4>1, <4>4, <4>5
    <3> QED BY <3>1, <3>2, <3>3, <1>old
  <2> QED BY <2>1, <2>2, <2>3 DEF ReserveInv, Reserve
<1>6. FdInv'
  <2>0. fds = Owned \cup Coming \cup leaked
    BY DEF IInv, FdInv
  <2> DEFINE up == slot'[k].type # "invalid" /\ ~slot'[k].lent
  <2>1. Owned' = IF up THEN Owned \cup {q.id} ELSE Owned
    <3>1. \A s \in Slot : s # k => (Live(s)' <=> Live(s)) /\ slot'[s] = slot[s]
      BY <1>s DEF Live, Invalid, Reserve
    <3>2. ~Live(k) /\ (Live(k)' <=> slot'[k].type # "invalid")
      BY <1>k, <1>s DEF Live, Invalid, Reserve
    <3> QED BY <3>1, <3>2, <1>s DEF Owned
  <2>2. Coming = IF q.kind \in {"listen", "udp"} THEN Coming' \cup {q.id} ELSE Coming'
    <3>1. ASSUME NEW j \in 1 .. Len(pipe), pipe[j].kind \in {"listen", "udp"}, j # 1
          PROVE  pipe[j].id \in Coming'
      <4>1. j - 1 \in 1 .. Len(pipe') /\ pipe'[j - 1] = pipe[j]
        BY <3>1, <1>p
      <4> QED BY <3>1, <4>1 DEF Coming
    <3>2. ASSUME NEW i \in 1 .. Len(pipe'), pipe'[i].kind \in {"listen", "udp"}
          PROVE  pipe'[i].id \in Coming
      BY <3>2, <1>p DEF Coming
    <3>3. Coming' \subseteq Coming
      BY <3>2 DEF Coming
    <3>4. q.kind \in {"listen", "udp"} => q.id \in Coming
      BY <1>p, <1>one DEF Coming
    <3>5. Coming \subseteq IF q.kind \in {"listen", "udp"} THEN Coming' \cup {q.id} ELSE Coming'
      <4> SUFFICES ASSUME NEW j \in 1 .. Len(pipe), pipe[j].kind \in {"listen", "udp"}
                   PROVE  pipe[j].id \in IF q.kind \in {"listen", "udp"}
                                         THEN Coming' \cup {q.id} ELSE Coming'
        BY DEF Coming
      <4> QED BY <3>1, <1>p
    <3> QED BY <3>3, <3>4, <3>5
  <2>3. /\ fds' = IF up THEN fds \cup {q.id} ELSE fds
        /\ q.kind \in {"listen", "udp"} => up
    BY <1>s DEF Creates, q
  <2> HIDE DEF up
  <2>4. fds' = Owned' \cup Coming' \cup leaked
    BY <2>0, <2>1, <2>2, <2>3
  <2> QED BY <2>4, <1>t DEF FdInv
<1>7. EventInv'
  <2>1. EventInv /\ ev' = ev /\ evid' = evid /\ closing = None
    BY DEF IInv, Creates
  <2>2. \A s \in Slot : slot[s].id # closing
    BY <1>t, <2>1, ServerAssumption DEF SlotRec
  <2>3. ASSUME ~raced, NEW s \in Slot, ev[s] # {}
        PROVE  /\ slot'[s].type \notin {"reserve", "invalid"} /\ evid[s] = slot'[s].id
    <3>1. ~Reserve(s) /\ ~Invalid(s) /\ evid[s] = slot[s].id
      BY <2>1, <2>2, <2>3 DEF EventInv, Live
    <3>2. s # k
      BY <3>1, <1>k
    <3> QED BY <3>1, <3>2, <1>s DEF Reserve, Invalid
  <2> QED BY <2>1, <2>3, <1>t DEF EventInv, Live, Reserve, Invalid
<1> QED BY <1>1, <1>2, <1>3, <1>4, <1>5, <1>6, <1>7 DEF IInv

-----------------------------------------------------------------------------
(* The calling threads *)

\* A step that touches no slot, request or id.
LEMMA SameSlots ==
    ASSUME IInv, UNCHANGED <<next_id, slot, pipe, watched, fds, leaked, cl, known, failed>>,
           (phase' = phase) \/ (phase # "failed" /\ phase' # "failed"),
           closing' \in Nat \cup {None}, phase = "failed" => closing' = closing
    PROVE  /\ SlotInv' /\ ThreadInv' /\ IdInv' /\ ReserveInv'
           /\ WatchedExact' /\ (watched \subseteq Slot)' /\ FdInv'
<1>l. \A s : (Live(s)' <=> Live(s)) /\ (Reserve(s)' <=> Reserve(s))
  BY DEF Live, Reserve, Invalid
<1>1. SlotInv' /\ WatchedExact' /\ (watched \subseteq Slot)'
  BY DEF IInv, SlotInv, WatchedExact
<1>2. ThreadInv'
  BY <1>l DEF IInv, ThreadInv, Live, Invalid, Reserve
<1>3. IdInv'
  BY <1>l DEF IInv, IdInv, Has, New
<1>4. ReserveInv'
  BY DEF IInv, ReserveInv, Due, New, Storing, Reserve
<1>5. FdInv'
  BY <1>l DEF IInv, FdInv, Owned, Coming
<1> QED BY <1>1, <1>2, <1>3, <1>4, <1>5

LEMMA IncKeeps ==
    ASSUME IInv, NEW c \in Client, next_id_inc(c)
    PROVE  IInv'
<1>t. /\ slot \in [Slot -> SlotRec] /\ cl \in [Client -> CallRec] /\ next_id \in Nat /\ IdInv
      /\ pipe \in Seq(ReqRec)
  BY DEF IInv, SlotInv, ThreadInv
<1>e. /\ next_id' = next_id + 1 /\ cl[c].pc \in {"idle", "retry"}
      /\ cl' = [cl EXCEPT ![c].pc = "reserve", ![c].id = next_id + 1]
      /\ slot' = slot /\ pipe' = pipe /\ leaked' = leaked /\ fds' = fds /\ watched' = watched
      /\ phase' = phase /\ closing' = closing /\ known' = known /\ failed' = failed
      /\ ev' = ev /\ evid' = evid /\ raced' = raced
  BY DEF next_id_inc, events, thread
<1>c. /\ cl' \in [Client -> CallRec] /\ cl'[c].pc = "reserve" /\ cl'[c].id = next_id + 1
      /\ \A d \in Client : d # c => cl'[d] = cl[d]
  <2> DEFINE n == next_id + 1
             r == [cl[c] EXCEPT !.pc = "reserve", !.id = n]
  <2>0. n \in Nat
    BY <1>t
  <2>e. cl' = [cl EXCEPT ![c].pc = "reserve", ![c].id = n]
    BY <1>e
  <2> HIDE DEF n
  <2>1. cl' = [cl EXCEPT ![c] = r]
    BY <2>e, <1>t
  <2>2. cl[c] \in CallRec
    BY <1>t
  <2>3. r \in CallRec /\ r.pc = "reserve" /\ r.id = n
    BY <2>0, <2>2 DEF CallRec
  <2> USE DEF n
  <2> HIDE DEF r
  <2> QED BY <2>1, <2>3, <1>t
<1>s. /\ \A d \in Client : d # c => (Has(d)' <=> Has(d)) /\ (Storing(d)' <=> Storing(d))
      /\ ~Storing(c) /\ ~Storing(c)'
  BY <1>c, <1>e DEF Has, Storing
<1>l. \A s : (Live(s)' <=> Live(s)) /\ (Reserve(s)' <=> Reserve(s)) /\ (Invalid(s)' <=> Invalid(s))
  BY <1>e DEF Live, Reserve, Invalid
<1>n. \A i : New(i)' <=> New(i)
  BY <1>e DEF New
<1>1. SlotInv' /\ WatchedExact' /\ (watched \subseteq Slot)'
  BY <1>e DEF IInv, SlotInv, WatchedExact
<1>2. ThreadInv'
  BY <1>c, <1>e, <1>t, <1>l DEF IInv, ThreadInv, Live, Invalid, Reserve
<1>3. IdInv'
  <2>nat. /\ \A s \in Slot : slot[s].id \in Nat
          /\ \A d \in Client : cl[d].id \in Nat
          /\ \A i \in 1 .. Len(pipe) : pipe[i].id \in Nat
    BY <1>t, PipeElement DEF SlotRec, CallRec
  <2>1. /\ \A s \in Slot : slot[s].id <= next_id + 1 /\ slot[s].id # next_id + 1
        /\ leaked \subseteq 0 .. next_id + 1 /\ next_id + 1 \notin leaked
    BY <2>nat, <1>t DEF IdInv
  <2>2. \A i \in 1 .. Len(pipe) : New(i) => /\ pipe[i].id <= next_id + 1
                                             /\ pipe[i].id # next_id + 1
    BY <2>nat, <1>t DEF IdInv
  <2>3. \A d \in Client : Has(d) => cl[d].id <= next_id + 1 /\ cl[d].id # next_id + 1
    BY <2>nat, <1>t DEF IdInv
  <2>4. ASSUME NEW d \in Client, Has(d)'
        PROVE  /\ cl'[d].id <= next_id' /\ cl'[d].id \notin leaked'
               /\ \A s \in Slot : slot'[s].id # cl'[d].id
               /\ \A x \in Client : x # d /\ Has(x)' => cl'[x].id # cl'[d].id
               /\ \A i \in 1 .. Len(pipe') : New(i)' => pipe'[i].id # cl'[d].id
    <3>1. CASE d = c
      <4>1. \A x \in Client : x # c /\ Has(x)' => cl'[x].id # next_id + 1
        BY <2>3, <1>c, <1>s
      <4> QED BY <3>1, <4>1, <2>1, <2>2, <1>c, <1>e, <1>n, <1>t
    <3>2. CASE d # c
      <4>1. Has(d) /\ cl'[d] = cl[d]
        BY <3>2, <2>4, <1>c, <1>s
      <4>2. \A x \in Client : x # d /\ Has(x)' => cl'[x].id # cl[d].id
        BY <4>1, <2>3, <1>c, <1>s, <1>t DEF IdInv
      <4> QED BY <4>1, <4>2, <2>3, <1>e, <1>n, <1>t DEF IdInv
    <3> QED BY <3>1, <3>2
  <2>5. ASSUME NEW i \in 1 .. Len(pipe'), New(i)'
        PROVE  /\ pipe'[i].id <= next_id' /\ pipe'[i].id \notin leaked'
               /\ \A j \in 1 .. Len(pipe') : j # i /\ New(j)' => pipe'[j].id # pipe'[i].id
    BY <2>2, <2>5, <1>e, <1>n, <1>t DEF IdInv
  <2>6. \A s \in Slot : Live(s)' => HASH_ID(slot'[s].id) = s /\ slot'[s].id \notin leaked'
    BY <1>e, <1>l, <1>t DEF IdInv
  <2> QED BY <2>1, <2>4, <2>5, <2>6, <1>e DEF IdInv
<1>4. ReserveInv'
  <2>1. ASSUME failed # "wiped", NEW i \in 1 .. Len(pipe), Due(i)
        PROVE  \A d \in Client : Storing(d)' => HASH_ID(cl'[d].id) # HASH_ID(pipe[i].id)
    BY <2>1, <1>c, <1>s DEF IInv, ReserveInv
  <2>2. ASSUME failed # "wiped", NEW d \in Client, Storing(d)'
        PROVE  /\ Reserve(HASH_ID(cl'[d].id))
               /\ \A x \in Client : Storing(x)' /\ x # d => HASH_ID(cl'[x].id) # HASH_ID(cl'[d].id)
    BY <2>2, <1>c, <1>s DEF IInv, ReserveInv
  <2>3. ASSUME failed # "wiped", NEW s \in Slot, Reserve(s)
        PROVE  \/ \E d \in Client : Storing(d)' /\ HASH_ID(cl'[d].id) = s
               \/ \E i \in 1 .. Len(pipe) : Due(i) /\ HASH_ID(pipe[i].id) = s
    BY <2>3, <1>c, <1>s DEF IInv, ReserveInv
  <2>4. \A i : Due(i)' <=> Due(i)
    BY <1>e DEF Due, New
  <2>5. \A i \in 1 .. Len(pipe) : Due(i) /\ failed # "wiped" =>
            Reserve(HASH_ID(pipe[i].id)) /\ slot[HASH_ID(pipe[i].id)].id = pipe[i].id
    BY DEF IInv, ReserveInv
  <2>6. ASSUME failed' # "wiped", NEW i \in 1 .. Len(pipe'), Due(i)'
        PROVE  /\ slot'[HASH_ID(pipe'[i].id)].type = "reserve"
               /\ slot'[HASH_ID(pipe'[i].id)].id = pipe'[i].id
               /\ \A d \in Client : Storing(d)' => HASH_ID(cl'[d].id) # HASH_ID(pipe'[i].id)
    BY <2>1, <2>4, <2>5, <2>6, <1>e DEF Reserve
  <2>7. ASSUME failed' # "wiped", NEW d \in Client, Storing(d)'
        PROVE  /\ slot'[HASH_ID(cl'[d].id)].type = "reserve"
               /\ \A x \in Client : Storing(x)' /\ x # d => HASH_ID(cl'[x].id) # HASH_ID(cl'[d].id)
    BY <2>2, <2>7, <1>e DEF Reserve
  <2>8. ASSUME failed' # "wiped", NEW s \in Slot, slot'[s].type = "reserve"
        PROVE  \/ \E d \in Client : Storing(d)' /\ HASH_ID(cl'[d].id) = s
               \/ \E i \in 1 .. Len(pipe') : Due(i)' /\ HASH_ID(pipe'[i].id) = s
    BY <2>3, <2>4, <2>8, <1>e DEF Reserve
  <2> QED BY <2>6, <2>7, <2>8 DEF ReserveInv, Reserve
<1>5. FdInv'
  BY <1>e, <1>l DEF IInv, FdInv, Owned, Coming
<1>6. EventInv'
  BY <1>e, <1>l DEF IInv, EventInv
<1> QED BY <1>1, <1>2, <1>3, <1>4, <1>5, <1>6 DEF IInv

\* Slot k is reserved for caller c, which was alone with its id.
LEMMA ReserveKeeps ==
    ASSUME IInv, failed = "no", NEW c \in Client, next_id_reserve(c)
    PROVE  IInv'
<1> DEFINE k == HASH_ID(cl[c].id)
<1>t. /\ slot \in [Slot -> SlotRec] /\ cl \in [Client -> CallRec] /\ next_id \in Nat /\ IdInv
      /\ pipe \in Seq(ReqRec) /\ k \in Slot
  BY HashType DEF IInv, SlotInv, ThreadInv, CallRec
<1>e. /\ next_id' = next_id /\ pipe' = pipe /\ leaked' = leaked /\ fds' = fds
      /\ watched' = watched /\ phase' = phase /\ closing' = closing /\ known' = known
      /\ ev' = ev /\ evid' = evid /\ cl[c].pc = "reserve"
  BY Zenon DEF next_id_reserve, events, thread
<1>n. \A i : (New(i)' <=> New(i)) /\ (Due(i)' <=> Due(i))
  BY <1>e DEF New, Due
<1>old. /\ \A i \in 1 .. Len(pipe) : Due(i) =>
              /\ Reserve(HASH_ID(pipe[i].id)) /\ slot[HASH_ID(pipe[i].id)].id = pipe[i].id
              /\ \A d \in Client : Storing(d) => HASH_ID(cl[d].id) # HASH_ID(pipe[i].id)
        /\ \A d \in Client : Storing(d) =>
              /\ Reserve(HASH_ID(cl[d].id))
              /\ \A x \in Client : Storing(x) /\ x # d => HASH_ID(cl[x].id) # HASH_ID(cl[d].id)
        /\ \A s \in Slot : Reserve(s) =>
              \/ \E d \in Client : Storing(d) /\ HASH_ID(cl[d].id) = s
              \/ \E i \in 1 .. Len(pipe) : Due(i) /\ HASH_ID(pipe[i].id) = s
  BY DEF IInv, ReserveInv
<1>cl. \A d \in Client : HASH_ID(cl[d].id) \in Slot /\ cl[d] \in CallRec /\ cl[d].tries \in Nat
  BY <1>t, HashType DEF CallRec
<1>1. CASE Invalid(k)
  <2>e. /\ slot' = [slot EXCEPT ![k].type = "reserve"] /\ cl' = [cl EXCEPT ![c].pc = "store"]
        /\ raced' = (raced \/ (closing = slot[k].id /\ ev[k] # {})) /\ failed' = failed
    BY <1>1 DEF next_id_reserve
  <2> HIDE DEF k
  <2>1. PICK r : r = [slot[k] EXCEPT !.type = "reserve"]
    OBVIOUS
  <2>2. slot[k] \in SlotRec /\ "reserve" \in SlotTypes
    BY <1>t DEF SlotTypes
  <2>3. r \in SlotRec /\ r.type = "reserve" /\ r.id = slot[k].id /\ r.lent = slot[k].lent
    BY <2>1, <2>2, TypeRec
  <2>4. slot' = [slot EXCEPT ![k] = r]
    BY <2>e, <2>1, <1>t
  <2>s. /\ slot' \in [Slot -> SlotRec] /\ slot'[k].type = "reserve" /\ slot'[k].id = slot[k].id
        /\ slot'[k].lent = slot[k].lent
        /\ \A s \in Slot : s # k => slot'[s] = slot[s]
    BY <2>3, <2>4, <1>t, SlotSet
  <2>c. /\ cl' \in [Client -> CallRec] /\ cl'[c].pc = "store" /\ cl'[c].id = cl[c].id
        /\ \A d \in Client : d # c => cl'[d] = cl[d]
    <3>1. PICK q : q = [cl[c] EXCEPT !.pc = "store"]
      OBVIOUS
    <3>2. q \in CallRec /\ q.pc = "store" /\ q.id = cl[c].id
      BY <3>1, <1>cl DEF CallRec
    <3>3. cl' = [cl EXCEPT ![c] = q]
      BY <3>1, <2>e, <1>t
    <3> QED BY <3>2, <3>3, <1>t
  <2>l. /\ \A s \in Slot : Live(s)' <=> Live(s)
        /\ \A s \in Slot : s # k => /\ Reserve(s)' <=> Reserve(s)
                                    /\ Invalid(s)' <=> Invalid(s)
        /\ ~Reserve(k) /\ ~Live(k)
    BY <1>1, <2>s, <1>t DEF Live, Reserve, Invalid
  <2>i. /\ \A s \in Slot : slot'[s].id = slot[s].id
        /\ \A d \in Client : cl'[d].id = cl[d].id /\ (Has(d)' <=> Has(d))
    BY <2>s, <2>c, <1>e DEF Has
  <2>5. SlotInv'
    BY <1>1, <2>s DEF IInv, SlotInv, Invalid
  <2>6. WatchedExact' /\ (watched \subseteq Slot)'
    BY <1>1, <1>e, <2>s DEF IInv, WatchedExact, Invalid
  <2>7. ThreadInv'
    <3>1. phase = "failed" => pipe # <<>> /\ HASH_ID(pipe[1].id) \in Slot
      <4> SUFFICES ASSUME pipe # <<>> PROVE 1 \in 1 .. Len(pipe)
        BY <1>t, PipeElement DEF IInv, ThreadInv
      <4> QED BY <1>t, EmptySeq, LenProperties
    <3>2. phase = "failed" => ~Live(HASH_ID(pipe[1].id))
      BY DEF IInv, ThreadInv
    <3>3. phase = "failed" => (~Live(HASH_ID(pipe[1].id)))'
      <4> SUFFICES ASSUME phase = "failed" PROVE (~Live(HASH_ID(pipe[1].id)))'
        OBVIOUS
      <4>1. PICK h \in Slot : h = HASH_ID(pipe[1].id)
        BY <3>1
      <4>2. ~Live(h)'
        BY <4>1, <3>2, <2>l
      <4> QED BY <4>1, <4>2, <1>e DEF Live, Invalid, Reserve
    <3> QED BY <3>3, <2>c, <1>e DEF IInv, ThreadInv
  <2>8. IdInv'
    BY <2>i, <2>l, <1>e, <1>n, <1>t DEF IdInv
  <2>9. ReserveInv'
    <3>0. /\ \A d \in Client : Storing(d) => d # c /\ HASH_ID(cl[d].id) # k
          /\ \A i \in 1 .. Len(pipe) : Due(i) => HASH_ID(pipe[i].id) # k
          /\ Storing(c)' /\ \A d \in Client : d # c => (Storing(d)' <=> Storing(d))
      BY <2>l, <2>c, <1>old, <1>e DEF Storing
    <3>k. HASH_ID(cl'[c].id) = k
      BY <2>c DEF k
    <3>1. ASSUME NEW i \in 1 .. Len(pipe'), Due(i)'
          PROVE  /\ slot'[HASH_ID(pipe'[i].id)].type = "reserve"
                 /\ slot'[HASH_ID(pipe'[i].id)].id = pipe'[i].id
                 /\ \A d \in Client : Storing(d)' => HASH_ID(cl'[d].id) # HASH_ID(pipe'[i].id)
      <4>1. PICK h \in Slot : h = HASH_ID(pipe[i].id)
        BY <3>1, <1>e, <1>t, PipeElement
      <4>2. /\ h # k /\ Reserve(h) /\ slot[h].id = pipe[i].id
            /\ \A d \in Client : Storing(d) => HASH_ID(cl[d].id) # h
        BY <4>1, <3>0, <3>1, <1>n, <1>e, <1>old
      <4>3. slot'[h] = slot[h]
        BY <4>2, <2>s
      <4>4. \A d \in Client : Storing(d)' => HASH_ID(cl'[d].id) # h
        BY <4>2, <3>0, <3>k, <2>i
      <4> QED BY <4>1, <4>2, <4>3, <4>4, <1>e DEF Reserve
    <3>2. ASSUME NEW d \in Client, Storing(d)'
          PROVE  /\ slot'[HASH_ID(cl'[d].id)].type = "reserve"
                 /\ \A x \in Client : Storing(x)' /\ x # d => HASH_ID(cl'[x].id) # HASH_ID(cl'[d].id)
      <4>1. CASE d = c
        BY <4>1, <3>0, <3>k, <2>i, <2>s
      <4>2. CASE d # c
        <5>1. PICK h \in Slot : h = HASH_ID(cl[d].id)
          BY <1>cl
        <5>2. h # k /\ Reserve(h) /\ Storing(d)
          BY <5>1, <4>2, <3>0, <3>2, <1>old
        <5>3. slot'[h].type = "reserve"
          BY <5>2, <2>s DEF Reserve
        <5>4. \A x \in Client : Storing(x)' /\ x # d => HASH_ID(cl'[x].id) # h
          BY <5>1, <5>2, <3>0, <3>k, <2>i, <1>old
        <5> QED BY <5>1, <5>3, <5>4, <2>i
      <4> QED BY <4>1, <4>2
    <3>3. ASSUME NEW s \in Slot, slot'[s].type = "reserve"
          PROVE  \/ \E d \in Client : Storing(d)' /\ HASH_ID(cl'[d].id) = s
                 \/ \E i \in 1 .. Len(pipe') : Due(i)' /\ HASH_ID(pipe'[i].id) = s
      <4>1. CASE s = k
        BY <4>1, <3>0, <3>k
      <4>2. CASE s # k
        <5>1. Reserve(s)
          BY <4>2, <3>3, <2>s DEF Reserve
        <5> QED BY <5>1, <3>0, <2>i, <1>old, <1>n, <1>e
      <4> QED BY <4>1, <4>2
    <3> QED BY <3>1, <3>2, <3>3 DEF ReserveInv, Reserve
  <2>10. FdInv'
    <3>1. Owned' = Owned
      BY <2>l, <2>s DEF Owned
    <3> QED BY <3>1, <1>e DEF IInv, FdInv, Coming
  <2>11. EventInv'
    <3>1. ~raced' => ~raced /\ ev[k] = {}
      BY <1>1, <2>e, <1>t DEF IInv, EventInv
    <3>2. ASSUME ~raced', NEW s \in Slot, ev[s] # {}
          PROVE  ~Reserve(s)' /\ (Invalid(s)' => closing = slot'[s].id)
                 /\ (Live(s)' => evid[s] = slot'[s].id)
      <4>1. s # k /\ ~raced
        BY <3>1, <3>2
      <4> QED BY <4>1, <3>2, <2>l, <2>s DEF IInv, EventInv
    <3> QED BY <3>2, <1>e DEF IInv, EventInv
  <2> QED BY <2>5, <2>6, <2>7, <2>8, <2>9, <2>10, <2>11 DEF IInv
<1>2. CASE ~Invalid(k)
  <2>e. slot' = slot /\ raced' = raced
    BY <1>2, Zenon DEF next_id_reserve
  <2>n. \E n \in (IF Reserve(k) THEN {0, 1} ELSE {1}) :
            /\ cl' = [cl EXCEPT ![c].pc = "retry", ![c].tries = @ + n]
            /\ failed' = IF cl[c].tries + n = MAX_SOCKET THEN "slot -1" ELSE failed
    BY <1>2, Zenon DEF next_id_reserve
  <2> HIDE DEF k
  <2>c. /\ cl' \in [Client -> CallRec] /\ cl'[c].pc = "retry"
        /\ \A d \in Client : d # c => cl'[d] = cl[d]
    <3>1. PICK n \in (IF Reserve(k) THEN {0, 1} ELSE {1}) :
             cl' = [cl EXCEPT ![c].pc = "retry", ![c].tries = @ + n]
      BY <2>n, Zenon
    <3>n. n \in Nat
      OBVIOUS
    <3>2. PICK m \in Nat : m = cl[c].tries + n
      BY <3>n, <1>cl
    <3>3. cl' = [cl EXCEPT ![c].pc = "retry", ![c].tries = m]
      BY <3>1, <3>2, <1>t
    <3>4. PICK q : q = [cl[c] EXCEPT !.pc = "retry", !.tries = m]
      OBVIOUS
    <3>5. q \in CallRec /\ q.pc = "retry"
      BY <3>4, <1>cl DEF CallRec
    <3>6. cl' = [cl EXCEPT ![c] = q]
      BY <3>3, <3>4, <1>t
    <3> QED BY <3>5, <3>6, <1>t
  <2>s. /\ \A d \in Client : Storing(d)' <=> Storing(d)
        /\ \A d \in Client : Storing(d) => d # c
        /\ \A d \in Client : Has(d)' => Has(d) /\ d # c
    BY <2>c, <1>e DEF Has, Storing
  <2>l. \A s : (Live(s)' <=> Live(s)) /\ (Reserve(s)' <=> Reserve(s)) /\ (Invalid(s)' <=> Invalid(s))
    BY <2>e DEF Live, Reserve, Invalid
  <2>1. SlotInv' /\ WatchedExact' /\ (watched \subseteq Slot)'
    BY <2>e, <1>e DEF IInv, SlotInv, WatchedExact
  <2>2. ThreadInv'
    BY <2>c, <2>e, <1>e, <2>l DEF IInv, ThreadInv, Live, Invalid, Reserve
  <2>3. IdInv'
    <3>1. ASSUME NEW d \in Client, Has(d)'
          PROVE  /\ cl'[d].id <= next_id' /\ cl'[d].id \notin leaked'
                 /\ \A s \in Slot : slot'[s].id # cl'[d].id
                 /\ \A x \in Client : x # d /\ Has(x)' => cl'[x].id # cl'[d].id
                 /\ \A i \in 1 .. Len(pipe') : New(i)' => pipe'[i].id # cl'[d].id
      <4>1. Has(d) /\ cl'[d] = cl[d] /\ \A x \in Client : Has(x)' => Has(x) /\ cl'[x] = cl[x]
        BY <3>1, <2>s, <2>c
      <4> QED BY <4>1, <2>e, <1>e, <1>n, <1>t DEF IdInv
    <3> QED BY <3>1, <2>e, <2>l, <1>e, <1>n, <1>t DEF IdInv
  <2>4. ReserveInv'
    <3>i. \A d \in Client : Storing(d) => cl'[d].id = cl[d].id
      BY <2>s, <2>c
    <3>1. ASSUME NEW i \in 1 .. Len(pipe'), Due(i)'
          PROVE  /\ slot'[HASH_ID(pipe'[i].id)].type = "reserve"
                 /\ slot'[HASH_ID(pipe'[i].id)].id = pipe'[i].id
                 /\ \A d \in Client : Storing(d)' => HASH_ID(cl'[d].id) # HASH_ID(pipe'[i].id)
      BY <3>1, <3>i, <2>s, <2>e, <1>n, <1>e, <1>old DEF Reserve
    <3>2. ASSUME NEW d \in Client, Storing(d)'
          PROVE  /\ slot'[HASH_ID(cl'[d].id)].type = "reserve"
                 /\ \A x \in Client : Storing(x)' /\ x # d => HASH_ID(cl'[x].id) # HASH_ID(cl'[d].id)
      BY <3>2, <3>i, <2>s, <2>e, <1>old DEF Reserve
    <3>3. ASSUME NEW s \in Slot, slot'[s].type = "reserve"
          PROVE  \/ \E d \in Client : Storing(d)' /\ HASH_ID(cl'[d].id) = s
                 \/ \E i \in 1 .. Len(pipe') : Due(i)' /\ HASH_ID(pipe'[i].id) = s
      BY <3>3, <3>i, <2>s, <2>e, <1>n, <1>e, <1>old DEF Reserve
    <3> QED BY <3>1, <3>2, <3>3 DEF ReserveInv, Reserve
  <2>5. FdInv'
    BY <2>e, <1>e, <2>l DEF IInv, FdInv, Owned, Coming
  <2>6. EventInv'
    BY <2>e, <1>e, <2>l DEF IInv, EventInv
  <2> QED BY <2>1, <2>2, <2>3, <2>4, <2>5, <2>6 DEF IInv
<1> QED BY <1>1, <1>2

\* The reservation goes over from the caller to its request.
LEMMA SendKeeps ==
    ASSUME IInv, failed = "no", NEW c \in Client, NEW kind \in Creating, send_req(c, kind)
    PROVE  IInv'
<1>0. PICK id \in Nat, k \in Slot : id = cl[c].id /\ k = HASH_ID(id)
  <2>1. cl[c].id \in Nat
    BY DEF IInv, ThreadInv, CallRec
  <2> QED BY <2>1, HashType
<1>q. PICK q : q = [kind |-> kind, id |-> id]
  OBVIOUS
<1>r. q \in ReqRec /\ q.kind = kind /\ q.id = id
  BY <1>q DEF ReqRec
<1>t. /\ slot \in [Slot -> SlotRec] /\ cl \in [Client -> CallRec] /\ next_id \in Nat /\ IdInv
      /\ pipe \in Seq(ReqRec)
  BY DEF IInv, SlotInv, ThreadInv
<1>e. /\ next_id' = next_id /\ leaked' = leaked /\ raced' = raced
      /\ watched' = watched /\ phase' = phase /\ closing' = closing /\ failed' = failed
      /\ ev' = ev /\ evid' = evid /\ cl[c].pc = "store" /\ known' = known \cup {id}
  BY <1>0 DEF send_req, events, thread
<1>a. /\ slot' = [slot EXCEPT ![k].id = id] /\ pipe' = Append(pipe, q)
      /\ cl' = [cl EXCEPT ![c] = Idle]
      /\ fds' = IF kind \in {"listen", "udp"} THEN fds \cup {id} ELSE fds
  BY <1>0, <1>q DEF send_req
<1>p. /\ pipe' \in Seq(ReqRec) /\ Len(pipe) \in Nat /\ Len(pipe') = Len(pipe) + 1
      /\ pipe'[Len(pipe) + 1] = q
      /\ \A i \in 1 .. Len(pipe) : pipe'[i] = pipe[i]
  BY <1>a, <1>r, <1>t, PipeAppend
<1>n. PICK n \in Nat : n = Len(pipe) + 1
  BY <1>p
<1>w. /\ Len(pipe') = n /\ pipe'[n] = q /\ n \in 1 .. Len(pipe') /\ n \notin 1 .. Len(pipe)
      /\ \A i \in 1 .. Len(pipe') : i # n => i \in 1 .. Len(pipe)
      /\ \A i \in 1 .. Len(pipe) : pipe'[i] = pipe[i] /\ i \in 1 .. Len(pipe') /\ i # n
  BY <1>p, <1>n
<1>s. /\ slot' \in [Slot -> SlotRec] /\ slot'[k].type = slot[k].type /\ slot'[k].id = id
      /\ slot'[k].buf = slot[k].buf /\ slot'[k].lent = slot[k].lent
      /\ \A s \in Slot : s # k => slot'[s] = slot[s]
  <2>1. PICK r : r = [slot[k] EXCEPT !.id = id]
    OBVIOUS
  <2>2. slot[k] \in SlotRec
    BY <1>t
  <2>3. r \in SlotRec /\ r.type = slot[k].type /\ r.id = id /\ r.buf = slot[k].buf
        /\ r.lent = slot[k].lent
    BY <2>1, <2>2, IdRec
  <2>4. slot' = [slot EXCEPT ![k] = r]
    BY <1>a, <2>1, <1>t
  <2> QED BY <2>3, <2>4, <1>t, SlotSet
<1>c. /\ cl' \in [Client -> CallRec] /\ cl'[c].pc = "idle"
      /\ \A d \in Client : d # c => cl'[d] = cl[d]
  <2>1. Idle \in CallRec /\ Idle.pc = "idle"
    BY DEF Idle, CallRec
  <2> QED BY <2>1, <1>a, <1>t
<1>cl. \A d \in Client : HASH_ID(cl[d].id) \in Slot
  BY <1>t, HashType DEF CallRec
<1>l. \A s \in Slot : /\ slot'[s].type = slot[s].type
                      /\ Live(s)' <=> Live(s)
                      /\ Reserve(s)' <=> Reserve(s)
                      /\ Invalid(s)' <=> Invalid(s)
  BY <1>s DEF Live, Reserve, Invalid
<1>h. /\ Has(c) /\ Storing(c) /\ ~Has(c)' /\ ~Storing(c)'
      /\ \A d \in Client : d # c => (Has(d)' <=> Has(d)) /\ (Storing(d)' <=> Storing(d))
  BY <1>c, <1>e DEF Has, Storing
<1>old. /\ \A i \in 1 .. Len(pipe) : Due(i) =>
              /\ Reserve(HASH_ID(pipe[i].id)) /\ slot[HASH_ID(pipe[i].id)].id = pipe[i].id
              /\ \A d \in Client : Storing(d) => HASH_ID(cl[d].id) # HASH_ID(pipe[i].id)
        /\ \A d \in Client : Storing(d) =>
              /\ Reserve(HASH_ID(cl[d].id))
              /\ \A x \in Client : Storing(x) /\ x # d => HASH_ID(cl[x].id) # HASH_ID(cl[d].id)
        /\ \A s \in Slot : Reserve(s) =>
              \/ \E d \in Client : Storing(d) /\ HASH_ID(cl[d].id) = s
              \/ \E i \in 1 .. Len(pipe) : Due(i) /\ HASH_ID(pipe[i].id) = s
  BY DEF IInv, ReserveInv
<1>k. /\ Reserve(k) /\ ~Live(k)
      /\ \A d \in Client : Storing(d) /\ d # c => HASH_ID(cl[d].id) # k
      /\ \A i \in 1 .. Len(pipe) : Due(i) => HASH_ID(pipe[i].id) # k
  BY <1>0, <1>h, <1>old DEF Live
<1>id. /\ id <= next_id /\ id \notin leaked
       /\ \A d \in Client : d # c /\ Has(d) => cl[d].id # id
       /\ \A i \in 1 .. Len(pipe) : New(i) => pipe[i].id # id
  BY <1>0, <1>h, <1>t DEF IdInv
<1>new. New(n)' /\ \A i \in 1 .. Len(pipe) : New(i)' <=> New(i)
  BY <1>w, <1>r DEF New
<1>one. phase = "failed" => 1 \in 1 .. Len(pipe)
  <2> SUFFICES ASSUME pipe # <<>> PROVE 1 \in 1 .. Len(pipe)
    BY DEF IInv, ThreadInv
  <2> QED BY <1>t, EmptySeq, LenProperties
<1>due. Due(n)' /\ \A i \in 1 .. Len(pipe) : Due(i)' <=> Due(i)
  BY <1>new, <1>one, <1>w, <1>e DEF Due
<1>1. SlotInv'
  BY <1>s DEF IInv, SlotInv
<1>2. WatchedExact' /\ (watched \subseteq Slot)'
  BY <1>l, <1>e DEF IInv, WatchedExact
<1>3. ThreadInv'
  <2>1. known' \subseteq Nat
    BY <1>e DEF IInv, ThreadInv
  <2>2. ASSUME phase' = "failed"
        PROVE  /\ pipe' # <<>> /\ pipe'[1].kind \in {"open", "udp"} /\ closing' = None
               /\ slot'[HASH_ID(pipe'[1].id)].type \in {"invalid", "reserve"}
    <3>1. /\ 1 \in 1 .. Len(pipe) /\ pipe[1].kind \in {"open", "udp"} /\ closing = None
          /\ ~Live(HASH_ID(pipe[1].id))
      BY <2>2, <1>e, <1>one DEF IInv, ThreadInv
    <3>2. pipe'[1] = pipe[1] /\ Len(pipe') # 0
      BY <3>1, <1>w, <1>p
    <3>3. PICK h \in Slot : h = HASH_ID(pipe[1].id)
      BY <3>1, <1>t, PipeElement
    <3>4. slot'[h].type \in {"invalid", "reserve"}
      BY <3>1, <3>3, <1>l DEF Live, Invalid, Reserve
    <3>5. pipe' # <<>>
      BY <3>2, <1>p, EmptySeq
    <3> QED BY <3>1, <3>2, <3>3, <3>4, <3>5, <1>e
  <2>3. next_id' \in Nat /\ closing' \in Nat \cup {None}
    BY <1>e DEF IInv, ThreadInv
  <2> QED BY <2>1, <2>2, <2>3, <1>c, <1>p DEF ThreadInv, Live, Invalid, Reserve
<1>4. IdInv'
  <2>1. \A s \in Slot : slot'[s].id <= next_id' /\ (Live(s)' => HASH_ID(slot'[s].id) = s
                                                       /\ slot'[s].id \notin leaked')
    <3>1. \A s \in Slot : s # k => slot'[s] = slot[s] /\ (Live(s)' <=> Live(s))
      BY <1>s, <1>l
    <3> QED BY <3>1, <1>s, <1>l, <1>k, <1>id, <1>e, <1>t DEF IdInv
  <2>2. ASSUME NEW d \in Client, Has(d)'
        PROVE  /\ cl'[d].id <= next_id' /\ cl'[d].id \notin leaked'
               /\ \A s \in Slot : slot'[s].id # cl'[d].id
               /\ \A x \in Client : x # d /\ Has(x)' => cl'[x].id # cl'[d].id
               /\ \A i \in 1 .. Len(pipe') : New(i)' => pipe'[i].id # cl'[d].id
    <3>1. d # c /\ Has(d) /\ cl'[d] = cl[d] /\ cl[d].id # id
      BY <2>2, <1>h, <1>c, <1>id
    <3>2. \A s \in Slot : slot'[s].id # cl[d].id
      BY <3>1, <1>s, <1>t DEF IdInv
    <3>3. \A x \in Client : x # d /\ Has(x)' => cl'[x].id # cl[d].id
      BY <3>1, <1>h, <1>c, <1>t DEF IdInv
    <3>4. \A i \in 1 .. Len(pipe') : New(i)' => pipe'[i].id # cl[d].id
      BY <3>1, <1>w, <1>r, <1>new, <1>t DEF IdInv
    <3> QED BY <3>1, <3>2, <3>3, <3>4, <1>e, <1>t DEF IdInv
  <2>3. ASSUME NEW i \in 1 .. Len(pipe'), New(i)'
        PROVE  /\ pipe'[i].id <= next_id' /\ pipe'[i].id \notin leaked'
               /\ \A j \in 1 .. Len(pipe') : j # i /\ New(j)' => pipe'[j].id # pipe'[i].id
    <3>1. CASE i = n
      <4>1. \A j \in 1 .. Len(pipe') : j # n /\ New(j)' => pipe'[j].id # id
        BY <1>w, <1>new, <1>id
      <4> QED BY <3>1, <4>1, <1>w, <1>r, <1>id, <1>e
    <3>2. CASE i # n
      <4>1. i \in 1 .. Len(pipe) /\ New(i) /\ pipe'[i] = pipe[i]
        BY <3>2, <2>3, <1>w, <1>new
      <4>2. \A j \in 1 .. Len(pipe') : j # i /\ New(j)' => pipe'[j].id # pipe[i].id
        BY <4>1, <1>w, <1>r, <1>new, <1>id, <1>t DEF IdInv
      <4> QED BY <4>1, <4>2, <1>e, <1>t DEF IdInv
    <3> QED BY <3>1, <3>2
  <2> QED BY <2>1, <2>2, <2>3, <1>e, <1>t DEF IdInv
<1>5. ReserveInv'
  <2>1. ASSUME NEW i \in 1 .. Len(pipe'), Due(i)'
        PROVE  /\ slot'[HASH_ID(pipe'[i].id)].type = "reserve"
               /\ slot'[HASH_ID(pipe'[i].id)].id = pipe'[i].id
               /\ \A d \in Client : Storing(d)' => HASH_ID(cl'[d].id) # HASH_ID(pipe'[i].id)
    <3>1. CASE i = n
      <4>1. HASH_ID(pipe'[i].id) = k /\ pipe'[i].id = id
        BY <3>1, <1>w, <1>r, <1>0
      <4>2. \A d \in Client : Storing(d)' => HASH_ID(cl'[d].id) # k
        BY <1>h, <1>c, <1>k
      <4> QED BY <4>1, <4>2, <1>s, <1>k DEF Reserve
    <3>2. CASE i # n
      <4>1. i \in 1 .. Len(pipe) /\ Due(i) /\ pipe'[i] = pipe[i]
        BY <3>2, <2>1, <1>w, <1>due
      <4>2. PICK h \in Slot : h = HASH_ID(pipe[i].id)
        BY <4>1, <1>t, PipeElement
      <4>3. h # k /\ Reserve(h) /\ slot[h].id = pipe[i].id
            /\ \A d \in Client : Storing(d) => HASH_ID(cl[d].id) # h
        BY <4>1, <4>2, <1>k, <1>old
      <4>4. slot'[h] = slot[h]
        BY <4>3, <1>s
      <4>5. \A d \in Client : Storing(d)' => HASH_ID(cl'[d].id) # h
        BY <4>3, <1>h, <1>c
      <4> QED BY <4>1, <4>2, <4>3, <4>4, <4>5 DEF Reserve
    <3> QED BY <3>1, <3>2
  <2>2. ASSUME NEW d \in Client, Storing(d)'
        PROVE  /\ slot'[HASH_ID(cl'[d].id)].type = "reserve"
               /\ \A x \in Client : Storing(x)' /\ x # d => HASH_ID(cl'[x].id) # HASH_ID(cl'[d].id)
    <3>1. d # c /\ Storing(d) /\ cl'[d] = cl[d]
      BY <2>2, <1>h, <1>c
    <3>2. PICK h \in Slot : h = HASH_ID(cl[d].id)
      BY <1>cl
    <3>3. slot'[h].type = "reserve"
      BY <3>1, <3>2, <1>old, <1>l DEF Reserve
    <3>4. \A x \in Client : Storing(x)' /\ x # d => HASH_ID(cl'[x].id) # h
      BY <3>1, <3>2, <1>h, <1>c, <1>old
    <3> QED BY <3>1, <3>2, <3>3, <3>4
  <2>3. ASSUME NEW s \in Slot, slot'[s].type = "reserve"
        PROVE  \/ \E d \in Client : Storing(d)' /\ HASH_ID(cl'[d].id) = s
               \/ \E i \in 1 .. Len(pipe') : Due(i)' /\ HASH_ID(pipe'[i].id) = s
    <3>1. CASE s = k
      <4>1. Due(n)' /\ HASH_ID(pipe'[n].id) = s
        BY <3>1, <1>due, <1>w, <1>r, <1>0
      <4> QED BY <4>1, <1>w
    <3>2. CASE s # k
      <4>1. Reserve(s)
        BY <2>3, <1>l DEF Reserve
      <4>2. CASE \E d \in Client : Storing(d) /\ HASH_ID(cl[d].id) = s
        BY <4>2, <3>2, <1>0, <1>h, <1>c
      <4>3. CASE \E i \in 1 .. Len(pipe) : Due(i) /\ HASH_ID(pipe[i].id) = s
        BY <4>3, <1>due, <1>w
      <4> QED BY <4>1, <4>2, <4>3, <1>old
    <3> QED BY <3>1, <3>2
  <2> QED BY <2>1, <2>2, <2>3 DEF ReserveInv, Reserve
<1>6. FdInv'
  <2>1. Owned' = Owned
    <3>1. \A s \in Slot : Live(s) => slot'[s] = slot[s]
      BY <1>k, <1>s
    <3> QED BY <3>1, <1>l DEF Owned
  <2>2. Coming' = IF kind \in {"listen", "udp"} THEN Coming \cup {id} ELSE Coming
    <3>1. \A i \in 1 .. Len(pipe) : pipe'[i] = pipe[i]
      BY <1>w
    <3>2. Coming \subseteq Coming'
      BY <1>w DEF Coming
    <3>3. kind \in {"listen", "udp"} => id \in Coming'
      BY <1>w, <1>r DEF Coming
    <3>4. ASSUME NEW i \in 1 .. Len(pipe'), pipe'[i].kind \in {"listen", "udp"}
          PROVE  pipe'[i].id \in IF kind \in {"listen", "udp"} THEN Coming \cup {id} ELSE Coming
      <4>1. CASE i = n
        BY <4>1, <3>4, <1>w, <1>r
      <4>2. CASE i # n
        BY <4>2, <3>4, <1>w DEF Coming
      <4> QED BY <4>1, <4>2
    <3>5. Coming' \subseteq IF kind \in {"listen", "udp"} THEN Coming \cup {id} ELSE Coming
      BY <3>4 DEF Coming
    <3> QED BY <3>2, <3>3, <3>5
  <2>3. fds = Owned \cup Coming \cup leaked
    BY DEF IInv, FdInv
  <2>4. fds' = Owned' \cup Coming' \cup leaked'
    BY <2>1, <2>2, <2>3, <1>a, <1>e
  <2> QED BY <2>4 DEF FdInv
<1>7. EventInv'
  <2>1. ASSUME ~raced, NEW s \in Slot, ev[s] # {}
        PROVE  ~Reserve(s)' /\ (Invalid(s)' => closing = slot'[s].id)
               /\ (Live(s)' => evid[s] = slot'[s].id)
    <3>1. s # k
      BY <2>1, <1>k DEF IInv, EventInv
    <3> QED BY <2>1, <3>1, <1>l, <1>s DEF IInv, EventInv
  <2> QED BY <2>1, <1>e DEF IInv, EventInv
<1> QED BY <1>1, <1>2, <1>3, <1>4, <1>5, <1>6, <1>7 DEF IInv

\* A request that creates nothing is added to the pipe.
LEMMA AskKeeps ==
    ASSUME IInv, NEW id \in known, NEW kind \in {"start", "close", "send"}, ask(kind, id)
    PROVE  IInv'
<1>q. PICK q : q = [kind |-> kind, id |-> id]
  OBVIOUS
<1>i. id \in Nat
  BY DEF IInv, ThreadInv
<1>r. q \in ReqRec /\ q.kind = kind /\ q.id = id
  BY <1>q, <1>i DEF ReqRec
<1>t. pipe \in Seq(ReqRec) /\ IdInv
  BY DEF IInv, ThreadInv
<1>e. /\ next_id' = next_id /\ leaked' = leaked /\ raced' = raced
      /\ watched' = watched /\ phase' = phase /\ closing' = closing /\ failed' = failed
      /\ ev' = ev /\ evid' = evid /\ cl' = cl /\ slot' = slot /\ fds' = fds /\ known' = known
  BY DEF ask, events, thread
<1>a. pipe' = Append(pipe, q)
  BY <1>q DEF ask
<1>p. /\ pipe' \in Seq(ReqRec) /\ Len(pipe) \in Nat /\ Len(pipe') = Len(pipe) + 1
      /\ pipe'[Len(pipe) + 1] = q
      /\ \A i \in 1 .. Len(pipe) : pipe'[i] = pipe[i]
  BY <1>a, <1>r, <1>t, PipeAppend
<1>n. PICK n \in Nat : n = Len(pipe) + 1
  BY <1>p
<1>w. /\ Len(pipe') = n /\ pipe'[n].kind \notin Creating
      /\ \A i \in 1 .. Len(pipe') : i # n => i \in 1 .. Len(pipe)
      /\ \A i \in 1 .. Len(pipe) : pipe'[i] = pipe[i] /\ i \in 1 .. Len(pipe')
  BY <1>p, <1>n, <1>r DEF Creating
<1>l. \A s : (Live(s)' <=> Live(s)) /\ (Reserve(s)' <=> Reserve(s)) /\ (Invalid(s)' <=> Invalid(s))
  BY <1>e DEF Live, Reserve, Invalid
<1>h. \A d : (Has(d)' <=> Has(d)) /\ (Storing(d)' <=> Storing(d))
  BY <1>e DEF Has, Storing
<1>new. /\ \A i \in 1 .. Len(pipe') : New(i)' => i \in 1 .. Len(pipe) /\ New(i) /\ pipe'[i] = pipe[i]
        /\ \A i \in 1 .. Len(pipe) : New(i) => i \in 1 .. Len(pipe') /\ New(i)' /\ pipe'[i] = pipe[i]
  BY <1>w DEF New
<1>due. /\ \A i \in 1 .. Len(pipe') : Due(i)' => i \in 1 .. Len(pipe) /\ Due(i) /\ pipe'[i] = pipe[i]
        /\ \A i \in 1 .. Len(pipe) : Due(i) => i \in 1 .. Len(pipe') /\ Due(i)' /\ pipe'[i] = pipe[i]
  BY <1>new, <1>e DEF Due
<1>1. SlotInv' /\ WatchedExact' /\ (watched \subseteq Slot)'
  BY <1>e DEF IInv, SlotInv, WatchedExact
<1>2. ThreadInv'
  <2>1. phase = "failed" => /\ pipe' # <<>> /\ pipe'[1] = pipe[1]
    <3> SUFFICES ASSUME pipe # <<>> PROVE pipe' # <<>> /\ pipe'[1] = pipe[1]
      BY DEF IInv, ThreadInv
    <3>1. 1 \in 1 .. Len(pipe)
      BY <1>t, EmptySeq, LenProperties
    <3> QED BY <3>1, <1>w, <1>p, EmptySeq
  <2> QED BY <2>1, <1>e, <1>p DEF IInv, ThreadInv, Live, Invalid, Reserve
<1>3. IdInv'
  <2>1. ASSUME NEW d \in Client, Has(d)'
        PROVE  \A i \in 1 .. Len(pipe') : New(i)' => pipe'[i].id # cl[d].id
    BY <2>1, <1>h, <1>new, <1>t DEF IdInv
  <2>2. ASSUME NEW i \in 1 .. Len(pipe'), New(i)'
        PROVE  /\ pipe'[i].id <= next_id /\ pipe'[i].id \notin leaked
               /\ \A j \in 1 .. Len(pipe') : j # i /\ New(j)' => pipe'[j].id # pipe'[i].id
    BY <2>2, <1>new, <1>t DEF IdInv
  <2> QED BY <2>1, <2>2, <1>e, <1>l, <1>h, <1>t DEF IdInv
<1>4. ReserveInv'
  <2>1. ASSUME failed' # "wiped", NEW i \in 1 .. Len(pipe'), Due(i)'
        PROVE  /\ slot'[HASH_ID(pipe'[i].id)].type = "reserve"
               /\ slot'[HASH_ID(pipe'[i].id)].id = pipe'[i].id
               /\ \A d \in Client : Storing(d)' => HASH_ID(cl'[d].id) # HASH_ID(pipe'[i].id)
    BY <2>1, <1>due, <1>h, <1>e DEF IInv, ReserveInv, Reserve
  <2>2. ASSUME failed' # "wiped", NEW d \in Client, Storing(d)'
        PROVE  /\ slot'[HASH_ID(cl'[d].id)].type = "reserve"
               /\ \A x \in Client : Storing(x)' /\ x # d => HASH_ID(cl'[x].id) # HASH_ID(cl'[d].id)
    BY <2>2, <1>h, <1>e DEF IInv, ReserveInv, Reserve
  <2>3. ASSUME failed' # "wiped", NEW s \in Slot, slot'[s].type = "reserve"
        PROVE  \/ \E d \in Client : Storing(d)' /\ HASH_ID(cl'[d].id) = s
               \/ \E i \in 1 .. Len(pipe') : Due(i)' /\ HASH_ID(pipe'[i].id) = s
    BY <2>3, <1>due, <1>h, <1>e DEF IInv, ReserveInv, Reserve
  <2> QED BY <2>1, <2>2, <2>3 DEF ReserveInv, Reserve
<1>5. FdInv'
  <2>1. Owned' = Owned
    BY <1>e, <1>l DEF Owned
  <2>2. Coming' = Coming
    <3>1. "listen" \in Creating /\ "udp" \in Creating
      BY DEF Creating
    <3>2. \A i \in 1 .. Len(pipe') : pipe'[i].kind \in {"listen", "udp"} =>
              i \in 1 .. Len(pipe) /\ pipe'[i] = pipe[i]
      BY <3>1, <1>w
    <3> QED BY <3>2, <1>w DEF Coming
  <2> QED BY <2>1, <2>2, <1>e DEF IInv, FdInv
<1>6. EventInv'
  BY <1>e, <1>l DEF IInv, EventInv
<1> QED BY <1>1, <1>2, <1>3, <1>4, <1>5, <1>6 DEF IInv

-----------------------------------------------------------------------------
(* The socket thread: the steps that are neither of the two kinds above *)

\* The first request, whose slot is reserved for it alone, loses its slot.
LEMMA NewFailedKeeps ==
    ASSUME IInv, failed = "no", socket_new_failed
    PROVE  IInv'
<1>t. /\ slot \in [Slot -> SlotRec] /\ cl \in [Client -> CallRec] /\ next_id \in Nat /\ IdInv
      /\ pipe \in Seq(ReqRec) /\ pipe # <<>>
  BY DEF IInv, SlotInv, ThreadInv, socket_new_failed
<1>p. /\ 1 \in 1 .. Len(pipe) /\ Head(pipe) = pipe[1] /\ pipe[1].id \in Nat
      /\ HASH_ID(pipe[1].id) \in Slot
  <2>1. 1 \in 1 .. Len(pipe) /\ Head(pipe) = pipe[1]
    BY <1>t, EmptySeq, LenProperties, HeadTailProperties
  <2> QED BY <2>1, <1>t, PipeElement
<1>0. PICK id \in Nat, k \in Slot : id = pipe[1].id /\ k = HASH_ID(id)
  BY <1>p
<1>e. /\ next_id' = next_id /\ leaked' = leaked /\ raced' = raced /\ pipe' = pipe
      /\ watched' = watched /\ phase' = "failed" /\ phase = "ctrl" /\ closing' = closing
      /\ closing = None /\ failed' = failed /\ ev' = ev /\ evid' = evid /\ cl' = cl
      /\ fds' = fds /\ known' = known /\ pipe[1].kind \in {"open", "udp"}
      /\ slot' = [slot EXCEPT ![k] = Free(id)]
  BY <1>0, <1>p DEF socket_new_failed, events, Forget
<1>s. /\ slot' \in [Slot -> SlotRec] /\ slot'[k].type = "invalid" /\ slot'[k].id = id
      /\ ~slot'[k].lent
      /\ \A s \in Slot : s # k => slot'[s] = slot[s]
  BY <1>e, <1>t, FreeRec, SlotSet
<1>new. New(1) /\ \A i : (New(i)' <=> New(i)) /\ (Due(i) <=> New(i))
  BY <1>e, <1>p DEF New, Due, Creating
<1>h. \A d : (Has(d)' <=> Has(d)) /\ (Storing(d)' <=> Storing(d))
  BY <1>e DEF Has, Storing
<1>old. /\ \A i \in 1 .. Len(pipe) : New(i) =>
              /\ Reserve(HASH_ID(pipe[i].id)) /\ slot[HASH_ID(pipe[i].id)].id = pipe[i].id
              /\ \A d \in Client : Storing(d) => HASH_ID(cl[d].id) # HASH_ID(pipe[i].id)
        /\ \A d \in Client : Storing(d) =>
              /\ Reserve(HASH_ID(cl[d].id))
              /\ \A x \in Client : Storing(x) /\ x # d => HASH_ID(cl[x].id) # HASH_ID(cl[d].id)
        /\ \A s \in Slot : Reserve(s) =>
              \/ \E d \in Client : Storing(d) /\ HASH_ID(cl[d].id) = s
              \/ \E i \in 1 .. Len(pipe) : New(i) /\ HASH_ID(pipe[i].id) = s
  BY <1>new DEF IInv, ReserveInv
<1>k. /\ Reserve(k) /\ ~Live(k) /\ slot[k].id = id
      /\ \A d \in Client : Storing(d) => HASH_ID(cl[d].id) # k
  BY <1>0, <1>p, <1>new, <1>old DEF Live
<1>u. \A i \in 1 .. Len(pipe) : New(i) /\ i # 1 => HASH_ID(pipe[i].id) # k
  <2> SUFFICES ASSUME NEW i \in 1 .. Len(pipe), New(i), i # 1 PROVE HASH_ID(pipe[i].id) # k
    OBVIOUS
  <2>1. pipe[i].id # pipe[1].id
    BY <1>new, <1>p, <1>t DEF IdInv
  <2>2. slot[HASH_ID(pipe[i].id)].id = pipe[i].id
    BY <1>old
  <2> QED BY <2>1, <2>2, <1>k, <1>0
<1>l. /\ \A s \in Slot : (Live(s)' <=> Live(s)) /\ slot'[s].id = slot[s].id
      /\ \A s \in Slot : s # k => /\ Reserve(s)' <=> Reserve(s)
                                  /\ Invalid(s)' <=> Invalid(s)
  BY <1>s, <1>k DEF Live, Reserve, Invalid
<1>1. SlotInv'
  BY <1>s DEF IInv, SlotInv
<1>2. WatchedExact' /\ (watched \subseteq Slot)'
  BY <1>s, <1>k, <1>e DEF IInv, WatchedExact, Reserve
<1>3. ThreadInv'
  <2>1. slot'[HASH_ID(pipe'[1].id)].type = "invalid"
    BY <1>0, <1>e, <1>s
  <2> QED BY <2>1, <1>e, <1>t DEF IInv, ThreadInv, Live, Invalid, Reserve
<1>4. IdInv'
  BY <1>e, <1>l, <1>h, <1>new, <1>t DEF IdInv
<1>5. ReserveInv'
  <2>0. \A i \in 1 .. Len(pipe) : Due(i)' <=> New(i) /\ i # 1
    BY <1>e, <1>new DEF Due
  <2>1. ASSUME NEW i \in 1 .. Len(pipe'), Due(i)'
        PROVE  /\ slot'[HASH_ID(pipe'[i].id)].type = "reserve"
               /\ slot'[HASH_ID(pipe'[i].id)].id = pipe'[i].id
               /\ \A d \in Client : Storing(d)' => HASH_ID(cl'[d].id) # HASH_ID(pipe'[i].id)
    <3>1. i \in 1 .. Len(pipe) /\ New(i) /\ i # 1
      BY <2>0, <2>1, <1>e
    <3>2. PICK h \in Slot : h = HASH_ID(pipe[i].id)
      BY <3>1, <1>t, PipeElement
    <3>3. h # k /\ Reserve(h) /\ slot[h].id = pipe[i].id
          /\ \A d \in Client : Storing(d) => HASH_ID(cl[d].id) # h
      BY <3>1, <3>2, <1>u, <1>old
    <3>4. slot'[h] = slot[h]
      BY <3>3, <1>s
    <3> QED BY <3>2, <3>3, <3>4, <1>h, <1>e DEF Reserve
  <2>2. ASSUME NEW d \in Client, Storing(d)'
        PROVE  /\ slot'[HASH_ID(cl'[d].id)].type = "reserve"
               /\ \A x \in Client : Storing(x)' /\ x # d => HASH_ID(cl'[x].id) # HASH_ID(cl'[d].id)
    <3>1. PICK h \in Slot : h = HASH_ID(cl[d].id)
      BY <1>t, HashType DEF CallRec
    <3>2. Storing(d) /\ h # k /\ Reserve(h)
      BY <2>2, <3>1, <1>h, <1>k, <1>old
    <3>3. slot'[h] = slot[h]
      BY <3>2, <1>s
    <3> QED BY <3>1, <3>2, <3>3, <1>h, <1>e, <1>old DEF Reserve
  <2>3. ASSUME NEW s \in Slot, slot'[s].type = "reserve"
        PROVE  \/ \E d \in Client : Storing(d)' /\ HASH_ID(cl'[d].id) = s
               \/ \E i \in 1 .. Len(pipe') : Due(i)' /\ HASH_ID(pipe'[i].id) = s
    <3>1. s # k /\ Reserve(s)
      BY <2>3, <1>s DEF Reserve
    <3>2. CASE \E d \in Client : Storing(d) /\ HASH_ID(cl[d].id) = s
      BY <3>2, <1>h, <1>e
    <3>3. CASE \E i \in 1 .. Len(pipe) : New(i) /\ HASH_ID(pipe[i].id) = s
      BY <3>1, <3>3, <2>0, <1>0, <1>e
    <3> QED BY <3>1, <3>2, <3>3, <1>old
  <2> QED BY <2>1, <2>2, <2>3 DEF ReserveInv, Reserve
<1>6. FdInv'
  <2>1. Owned' = Owned
    <3>1. \A s \in Slot : Live(s) => slot'[s] = slot[s]
      BY <1>k, <1>s
    <3> QED BY <3>1, <1>l DEF Owned
  <2> QED BY <2>1, <1>e DEF IInv, FdInv, Coming
<1>7. EventInv'
  <2>1. ASSUME ~raced, NEW s \in Slot, ev[s] # {}
        PROVE  ~Reserve(s)' /\ (Invalid(s)' => closing = slot'[s].id)
               /\ (Live(s)' => evid[s] = slot'[s].id)
    <3>1. s # k
      BY <2>1, <1>k DEF IInv, EventInv
    <3> QED BY <2>1, <3>1, <1>l, <1>s DEF IInv, EventInv
  <2> QED BY <2>1, <1>e DEF IInv, EventInv
<1> QED BY <1>1, <1>2, <1>3, <1>4, <1>5, <1>6, <1>7 DEF IInv

\* The same request is given up; a reservation made meanwhile is wiped out.
LEMMA ReqFailedKeeps ==
    ASSUME IInv, failed = "no", socket_req_failed
    PROVE  IInv'
<1>t. /\ slot \in [Slot -> SlotRec] /\ cl \in [Client -> CallRec] /\ next_id \in Nat /\ IdInv
      /\ pipe \in Seq(ReqRec) /\ pipe # <<>> /\ phase = "failed"
  BY DEF IInv, SlotInv, ThreadInv, socket_req_failed
<1>0. PICK id \in Nat, k \in Slot : id = pipe[1].id /\ k = HASH_ID(id)
  <2>1. 1 \in 1 .. Len(pipe)
    BY <1>t, EmptySeq, LenProperties
  <2> QED BY <2>1, <1>t, PipeElement
<1>e. /\ next_id' = next_id /\ leaked' = leaked /\ raced' = raced /\ pipe' = Tail(pipe)
      /\ watched' = watched /\ phase' = "ctrl"
      /\ ev' = ev /\ evid' = evid /\ cl' = cl /\ known' = known
  BY DEF socket_req_failed, events
<1>p. /\ pipe' \in Seq(ReqRec) /\ Len(pipe) \in Nat /\ Len(pipe') = Len(pipe) - 1
      /\ Len(pipe) >= 1 /\ Head(pipe) = pipe[1]
      /\ \A i \in 1 .. Len(pipe') : pipe'[i] = pipe[i + 1] /\ i + 1 \in 1 .. Len(pipe)
      /\ \A i \in 1 .. Len(pipe) : i # 1 => /\ i - 1 \in 1 .. Len(pipe')
                                            /\ pipe'[i - 1] = pipe[i]
  BY <1>e, <1>t, PipeTail
<1>a. /\ fds' = fds \ {id} /\ slot' = [slot EXCEPT ![k].type = "invalid"]
      /\ failed' = IF Reserve(k) THEN "wiped" ELSE failed
      /\ closing' \in Nat \cup {None}
  BY <1>0, <1>p DEF socket_req_failed
<1>th. closing = None /\ ~Live(k) /\ pipe[1].kind \in {"open", "udp"}
  BY <1>0, <1>t DEF IInv, ThreadInv
<1>s. /\ slot' \in [Slot -> SlotRec] /\ slot'[k].type = "invalid" /\ slot'[k].id = slot[k].id
      /\ slot'[k].lent = slot[k].lent
      /\ \A s \in Slot : s # k => slot'[s] = slot[s]
  <2>1. PICK r : r = [slot[k] EXCEPT !.type = "invalid"]
    OBVIOUS
  <2>2. slot[k] \in SlotRec /\ "invalid" \in SlotTypes
    BY <1>t DEF SlotTypes
  <2>3. r \in SlotRec /\ r.type = "invalid" /\ r.id = slot[k].id /\ r.lent = slot[k].lent
    BY <2>1, <2>2, TypeRec
  <2>4. slot' = [slot EXCEPT ![k] = r]
    BY <1>a, <2>1, <1>t
  <2> QED BY <2>3, <2>4, <1>t, SlotSet
<1>l. \A s \in Slot : (Live(s)' <=> Live(s)) /\ slot'[s].id = slot[s].id
  BY <1>s, <1>th DEF Live, Reserve, Invalid
<1>h. \A d : (Has(d)' <=> Has(d)) /\ (Storing(d)' <=> Storing(d))
  BY <1>e DEF Has, Storing
<1>one. 1 \in 1 .. Len(pipe) /\ New(1)
  BY <1>p, <1>th DEF New, Creating
<1>id. /\ id \notin leaked
       /\ \A j \in 1 .. Len(pipe) : j # 1 /\ New(j) => pipe[j].id # id
  BY <1>0, <1>one, <1>t DEF IdInv
<1>1. SlotInv'
  BY <1>s, <1>th DEF IInv, SlotInv, Live, Invalid, Reserve
<1>2. WatchedExact' /\ (watched \subseteq Slot)'
  BY <1>s, <1>th, <1>e DEF IInv, WatchedExact, Live, Reserve, Invalid
<1>3. ThreadInv'
  BY <1>p, <1>a, <1>e DEF IInv, ThreadInv
<1>4. IdInv'
  <2>1. ASSUME NEW i \in 1 .. Len(pipe'), New(i)'
        PROVE  New(i + 1) /\ i + 1 \in 1 .. Len(pipe) /\ pipe'[i] = pipe[i + 1]
    BY <2>1, <1>p DEF New
  <2>2. ASSUME NEW d \in Client, Has(d)
        PROVE  \A i \in 1 .. Len(pipe') : New(i)' => pipe'[i].id # cl[d].id
    BY <2>1, <2>2, <1>t DEF IdInv
  <2>3. ASSUME NEW i \in 1 .. Len(pipe'), New(i)'
        PROVE  /\ pipe'[i].id <= next_id /\ pipe'[i].id \notin leaked
               /\ \A x \in 1 .. Len(pipe') : x # i /\ New(x)' => pipe'[x].id # pipe'[i].id
    <3>1. New(i + 1) /\ i + 1 \in 1 .. Len(pipe) /\ pipe'[i] = pipe[i + 1]
      BY <2>1, <2>3
    <3>2. /\ pipe[i + 1].id <= next_id /\ pipe[i + 1].id \notin leaked
          /\ \A j \in 1 .. Len(pipe) : j # i + 1 /\ New(j) => pipe[j].id # pipe[i + 1].id
      BY <3>1, <1>t DEF IdInv
    <3>3. ASSUME NEW x \in 1 .. Len(pipe'), x # i, New(x)'
          PROVE  pipe'[x].id # pipe'[i].id
      <4>1. New(x + 1) /\ x + 1 \in 1 .. Len(pipe) /\ pipe'[x] = pipe[x + 1] /\ x + 1 # i + 1
        BY <3>3, <2>1
      <4> QED BY <3>1, <3>2, <4>1
    <3> QED BY <3>1, <3>2, <3>3
  <2>4. /\ \A s \in Slot : slot'[s].id <= next_id'
        /\ \A s \in Slot : Live(s)' => HASH_ID(slot'[s].id) = s /\ slot'[s].id \notin leaked'
        /\ leaked' \subseteq 0 .. next_id'
    BY <1>e, <1>l, <1>t DEF IdInv
  <2>5. ASSUME NEW d \in Client, Has(d)'
        PROVE  /\ cl'[d].id <= next_id' /\ cl'[d].id \notin leaked'
               /\ \A s \in Slot : slot'[s].id # cl'[d].id
               /\ \A x \in Client : x # d /\ Has(x)' => cl'[x].id # cl'[d].id
               /\ \A i \in 1 .. Len(pipe') : New(i)' => pipe'[i].id # cl'[d].id
    BY <2>2, <2>5, <1>e, <1>l, <1>h, <1>t DEF IdInv
  <2> QED BY <2>3, <2>4, <2>5, <1>e DEF IdInv
<1>5. ReserveInv'
  <2> SUFFICES ASSUME failed' # "wiped" PROVE ReserveInv'
    BY DEF ReserveInv
  <2>i. ~Reserve(k)
    BY <1>a
  <2>old. /\ \A i \in 1 .. Len(pipe) : Due(i) =>
                /\ Reserve(HASH_ID(pipe[i].id)) /\ slot[HASH_ID(pipe[i].id)].id = pipe[i].id
                /\ \A d \in Client : Storing(d) => HASH_ID(cl[d].id) # HASH_ID(pipe[i].id)
          /\ \A d \in Client : Storing(d) =>
                /\ Reserve(HASH_ID(cl[d].id))
                /\ \A x \in Client : Storing(x) /\ x # d => HASH_ID(cl[x].id) # HASH_ID(cl[d].id)
          /\ \A s \in Slot : Reserve(s) =>
                \/ \E d \in Client : Storing(d) /\ HASH_ID(cl[d].id) = s
                \/ \E i \in 1 .. Len(pipe) : Due(i) /\ HASH_ID(pipe[i].id) = s
    BY DEF IInv, ReserveInv
  <2>r. \A s \in Slot : Reserve(s)' <=> Reserve(s)
    BY <2>i, <1>s DEF Reserve
  <2>1. ASSUME NEW i \in 1 .. Len(pipe'), Due(i)'
        PROVE  /\ slot'[HASH_ID(pipe'[i].id)].type = "reserve"
               /\ slot'[HASH_ID(pipe'[i].id)].id = pipe'[i].id
               /\ \A d \in Client : Storing(d)' => HASH_ID(cl'[d].id) # HASH_ID(pipe'[i].id)
    <3>1. Due(i + 1) /\ i + 1 \in 1 .. Len(pipe) /\ pipe'[i] = pipe[i + 1]
      BY <2>1, <1>p DEF New, Due
    <3>2. PICK h \in Slot : h = HASH_ID(pipe[i + 1].id)
      BY <3>1, <1>t, PipeElement
    <3>3. Reserve(h) /\ slot[h].id = pipe[i + 1].id
          /\ \A d \in Client : Storing(d) => HASH_ID(cl[d].id) # h
      BY <3>1, <3>2, <2>old
    <3>4. slot'[h] = slot[h]
      BY <3>3, <2>i, <1>s
    <3> QED BY <3>1, <3>2, <3>3, <3>4, <1>h, <1>e DEF Reserve
  <2>2. ASSUME NEW d \in Client, Storing(d)'
        PROVE  /\ slot'[HASH_ID(cl'[d].id)].type = "reserve"
               /\ \A x \in Client : Storing(x)' /\ x # d => HASH_ID(cl'[x].id) # HASH_ID(cl'[d].id)
    <3>1. PICK h \in Slot : h = HASH_ID(cl[d].id)
      BY <1>t, HashType DEF CallRec
    <3>2. Storing(d) /\ Reserve(h)
      BY <2>2, <3>1, <1>h, <2>old
    <3>3. slot'[h] = slot[h]
      BY <3>2, <2>i, <1>s
    <3> QED BY <3>1, <3>2, <3>3, <1>h, <1>e, <2>old DEF Reserve
  <2>3. ASSUME NEW s \in Slot, slot'[s].type = "reserve"
        PROVE  \/ \E d \in Client : Storing(d)' /\ HASH_ID(cl'[d].id) = s
               \/ \E i \in 1 .. Len(pipe') : Due(i)' /\ HASH_ID(pipe'[i].id) = s
    <3>1. Reserve(s)
      BY <2>3, <2>r DEF Reserve
    <3>2. CASE \E d \in Client : Storing(d) /\ HASH_ID(cl[d].id) = s
      BY <3>2, <1>h, <1>e
    <3>3. CASE \E i \in 1 .. Len(pipe) : Due(i) /\ HASH_ID(pipe[i].id) = s
      <4>1. PICK j \in 1 .. Len(pipe) : Due(j) /\ HASH_ID(pipe[j].id) = s
        BY <3>3
      <4>2. j # 1
        BY <4>1, <1>t DEF Due
      <4>3. PICK i \in 1 .. Len(pipe') : pipe'[i] = pipe[j]
        BY <4>2, <1>p
      <4>4. Due(i)'
        BY <4>1, <4>3, <1>e DEF Due, New
      <4> QED BY <4>1, <4>3, <4>4
    <3> QED BY <3>1, <3>2, <3>3, <2>old
  <2> QED BY <2>1, <2>2, <2>3 DEF ReserveInv, Reserve
<1>6. FdInv'
  <2>1. Owned' = Owned
    <3>1. \A s \in Slot : Live(s) => slot'[s] = slot[s]
      BY <1>th, <1>s
    <3> QED BY <3>1, <1>l DEF Owned
  <2>2. id \notin Owned
    <3> SUFFICES ASSUME NEW s \in Slot, Live(s), slot[s].id = id PROVE FALSE
      BY DEF Owned
    <3>1. s = k
      BY <1>0, <1>t DEF IdInv
    <3> QED BY <3>1, <1>th
  <2>3. Coming' = Coming \ {id}
    <3>1. ASSUME NEW i \in 1 .. Len(pipe'), pipe'[i].kind \in {"listen", "udp"}
          PROVE  pipe'[i].id \in Coming /\ pipe'[i].id # id
      <4>1. i + 1 \in 1 .. Len(pipe) /\ pipe'[i] = pipe[i + 1] /\ i + 1 # 1
        BY <1>p
      <4>2. New(i + 1)
        BY <3>1, <4>1 DEF New, Creating
      <4> QED BY <3>1, <4>1, <4>2, <1>id DEF Coming
    <3>2. ASSUME NEW j \in 1 .. Len(pipe), pipe[j].kind \in {"listen", "udp"}, pipe[j].id # id
          PROVE  pipe[j].id \in Coming'
      <4>1. j - 1 \in 1 .. Len(pipe') /\ pipe'[j - 1] = pipe[j]
        BY <3>2, <1>p, <1>0
      <4> QED BY <3>2, <4>1 DEF Coming
    <3>3. Coming' \subseteq Coming \ {id}
      BY <3>1 DEF Coming
    <3>4. Coming \ {id} \subseteq Coming'
      <4> SUFFICES ASSUME NEW j \in 1 .. Len(pipe), pipe[j].kind \in {"listen", "udp"},
                          pipe[j].id # id
                   PROVE  pipe[j].id \in Coming'
        BY DEF Coming
      <4> QED BY <3>2
    <3> QED BY <3>3, <3>4
  <2>4. fds = Owned \cup Coming \cup leaked
    BY DEF IInv, FdInv
  <2>5. fds' = Owned' \cup Coming' \cup leaked'
    BY <2>1, <2>2, <2>3, <2>4, <1>id, <1>a, <1>e
  <2> QED BY <2>5 DEF FdInv
<1>7. EventInv'
  <2>0. \A s \in Slot : slot[s].id # closing
    BY <1>t, <1>th, ServerAssumption DEF SlotRec
  <2>1. ASSUME ~raced, NEW s \in Slot, ev[s] # {}
        PROVE  ~Reserve(s)' /\ ~Invalid(s)' /\ evid[s] = slot'[s].id
    <3>1. Live(s) /\ evid[s] = slot[s].id
      BY <2>0, <2>1 DEF IInv, EventInv, Live
    <3>2. s # k
      BY <3>1, <1>th
    <3> QED BY <3>1, <3>2, <1>s DEF Live, Reserve, Invalid
  <2> QED BY <2>1, <1>e DEF IInv, EventInv
<1> QED BY <1>1, <1>2, <1>3, <1>4, <1>5, <1>6, <1>7 DEF IInv

\* The listening socket s has an event: a socket is made in the first free
\* slot, or every slot is taken, which uses up a turn of ids.
LEMMA AcceptKeeps ==
    ASSUME IInv, failed = "no", NEW s \in Slot, Event(s, {}), slot[s].type = "listen",
           next_id' > next_id, next_id' \in Nat, watched' = watched, closing' = closing,
           failed' = failed,
           \/ slot' = slot /\ fds' = fds /\ known' = known
           \/ /\ Invalid(HASH_ID(next_id')) /\ SetUp(next_id', "paccept", FALSE)
              /\ fds' = fds \cup {next_id'} /\ known' = known \cup {next_id'}
    PROVE  IInv'
<1>t. /\ slot \in [Slot -> SlotRec] /\ cl \in [Client -> CallRec] /\ next_id \in Nat /\ IdInv
      /\ pipe \in Seq(ReqRec) /\ ev \in [Slot -> SUBSET {"r", "w"}] /\ evid \in [Slot -> Nat]
      /\ phase # "failed" /\ phase' # "failed" /\ closing = None
  BY DEF IInv, SlotInv, ThreadInv, EventInv, Event
<1>e. /\ leaked' = leaked /\ raced' = raced /\ pipe' = pipe /\ cl' = cl
      /\ ev' = [ev EXCEPT ![s] = {}] /\ evid' = [evid EXCEPT ![s] = 0]
  BY DEF Event
<1>v. /\ ev' \in [Slot -> SUBSET {"r", "w"}] /\ evid' \in [Slot -> Nat] /\ ev'[s] = {}
      /\ \A i \in Slot : i # s => ev'[i] = ev[i] /\ evid'[i] = evid[i]
  BY <1>e, <1>t
<1>new. \A i : /\ New(i)' <=> New(i)
               /\ Due(i)' <=> Due(i)
  BY <1>e, <1>t DEF New, Due
<1>h. \A d : /\ Has(d)' <=> Has(d)
             /\ Storing(d)' <=> Storing(d)
  BY <1>e DEF Has, Storing
<1>nat. /\ \A i \in Slot : slot[i].id \in Nat /\ slot[i].id # closing
        /\ \A d \in Client : cl[d].id \in Nat /\ HASH_ID(cl[d].id) \in Slot
        /\ \A i \in 1 .. Len(pipe) : pipe[i].id \in Nat
  <2>1. \A i \in Slot : slot[i].id \in Nat
    BY <1>t DEF SlotRec
  <2>2. \A d \in Client : cl[d].id \in Nat
    BY <1>t DEF CallRec
  <2>3. \A i \in 1 .. Len(pipe) : pipe[i].id \in Nat
    BY <1>t, PipeElement
  <2> QED BY <2>1, <2>2, <2>3, <1>t, HashType, ServerAssumption
\* No free slot has an event, and no caller or request is bound for one.
<1>free. /\ ~raced => \A i \in Slot : ev[i] # {} => Live(i) /\ evid[i] = slot[i].id
  BY <1>nat DEF IInv, EventInv, Live
<1>old. /\ \A i \in 1 .. Len(pipe) : Due(i) =>
              /\ Reserve(HASH_ID(pipe[i].id)) /\ slot[HASH_ID(pipe[i].id)].id = pipe[i].id
              /\ \A d \in Client : Storing(d) => HASH_ID(cl[d].id) # HASH_ID(pipe[i].id)
        /\ \A d \in Client : Storing(d) =>
              /\ Reserve(HASH_ID(cl[d].id))
              /\ \A x \in Client : Storing(x) /\ x # d => HASH_ID(cl[x].id) # HASH_ID(cl[d].id)
        /\ \A i \in Slot : Reserve(i) =>
              \/ \E d \in Client : Storing(d) /\ HASH_ID(cl[d].id) = i
              \/ \E j \in 1 .. Len(pipe) : Due(j) /\ HASH_ID(pipe[j].id) = i
  BY DEF IInv, ReserveInv
<1>top. /\ \A i \in Slot : slot[i].id < next_id'
        /\ \A d \in Client : Has(d) => cl[d].id < next_id'
        /\ \A i \in 1 .. Len(pipe) : New(i) => pipe[i].id < next_id'
        /\ leaked \subseteq 0 .. next_id' /\ next_id' \notin leaked
  <2>1. \A n \in Nat : n <= next_id => n < next_id'
    BY <1>t
  <2> QED BY <2>1, <1>nat, <1>t DEF IdInv
\* Whatever becomes of the slots, if it is as in one of the two cases.
<1>1. ASSUME slot' \in [Slot -> SlotRec],
             \A i \in Slot : \/ slot'[i] = slot[i]
                             \/ /\ slot[i].type = "invalid" /\ slot'[i].type = "paccept"
                                /\ slot'[i].id = next_id' /\ HASH_ID(next_id') = i
                                /\ ~slot'[i].buf /\ ~slot'[i].lent,
             known' \subseteq Nat, FdInv'
      PROVE  IInv'
  <2>0. \A i \in Slot : Reserve(i) => slot'[i] = slot[i]
    BY <1>1 DEF Reserve
  <2>1. SlotInv'
    <3>1. ASSUME NEW i \in Slot
          PROVE  /\ slot'[i].type \in {"listen", "plisten", "paccept"} => ~slot'[i].buf
                 /\ slot'[i].type \notin {"bind", "halfclose"} => ~slot'[i].lent
                 /\ slot'[i].type = "bind" => slot'[i].lent
      BY <1>1 DEF IInv, SlotInv
    <3> QED BY <3>1, <1>1 DEF SlotInv
  <2>2. WatchedExact' /\ (watched \subseteq Slot)'
    <3>1. ASSUME NEW i \in Slot
          PROVE  slot'[i].type \in Started <=> slot[i].type \in Started
      BY <1>1 DEF Started
    <3> QED BY <3>1 DEF IInv, WatchedExact, Started
  <2>3. ThreadInv'
    BY <1>1, <1>e, <1>t DEF IInv, ThreadInv
  <2>4. IdInv'
    <3>1. ASSUME NEW i \in Slot
          PROVE  /\ slot'[i].id <= next_id'
                 /\ Live(i)' => HASH_ID(slot'[i].id) = i /\ slot'[i].id \notin leaked
      <4>1. CASE slot'[i] = slot[i]
        <5>1. Live(i)' => Live(i)
          BY <4>1 DEF Live, Invalid, Reserve
        <5> QED BY <4>1, <5>1, <1>top, <1>nat, <1>t DEF IdInv
      <4>2. CASE slot'[i].id = next_id' /\ HASH_ID(next_id') = i
        BY <4>2, <1>top
      <4> QED BY <4>1, <4>2, <1>1
    <3>2. ASSUME NEW d \in Client, Has(d)
          PROVE  cl[d].id <= next_id' /\ \A i \in Slot : slot'[i].id # cl[d].id
      <4>1. cl[d].id < next_id' /\ cl[d].id \in Nat
        BY <3>2, <1>top, <1>nat
      <4>2. \A i \in Slot : slot'[i].id = slot[i].id \/ slot'[i].id = next_id'
        BY <1>1
      <4> QED BY <3>2, <4>1, <4>2, <1>t DEF IdInv
    <3>3. ASSUME NEW i \in 1 .. Len(pipe), New(i)
          PROVE  pipe[i].id <= next_id'
      BY <3>3, <1>top, <1>nat
    <3>4. /\ \A i \in Slot : slot'[i].id <= next_id'
          /\ \A i \in Slot : Live(i)' => HASH_ID(slot'[i].id) = i /\ slot'[i].id \notin leaked'
          /\ leaked' \subseteq 0 .. next_id'
      BY <3>1, <1>top, <1>e
    <3>5. ASSUME NEW d \in Client, Has(d)'
          PROVE  /\ cl'[d].id <= next_id' /\ cl'[d].id \notin leaked'
                 /\ \A i \in Slot : slot'[i].id # cl'[d].id
                 /\ \A x \in Client : x # d /\ Has(x)' => cl'[x].id # cl'[d].id
                 /\ \A i \in 1 .. Len(pipe') : New(i)' => pipe'[i].id # cl'[d].id
      BY <3>2, <3>5, <1>e, <1>h, <1>new, <1>t DEF IdInv
    <3>6. ASSUME NEW i \in 1 .. Len(pipe'), New(i)'
          PROVE  /\ pipe'[i].id <= next_id' /\ pipe'[i].id \notin leaked'
                 /\ \A j \in 1 .. Len(pipe') : j # i /\ New(j)' => pipe'[j].id # pipe'[i].id
      BY <3>3, <3>6, <1>e, <1>new, <1>t DEF IdInv
    <3> QED BY <3>4, <3>5, <3>6 DEF IdInv
  <2>5. ReserveInv'
    <3>1. ASSUME NEW i \in 1 .. Len(pipe'), Due(i)'
          PROVE  /\ slot'[HASH_ID(pipe'[i].id)].type = "reserve"
                 /\ slot'[HASH_ID(pipe'[i].id)].id = pipe'[i].id
                 /\ \A d \in Client : Storing(d)' => HASH_ID(cl'[d].id) # HASH_ID(pipe'[i].id)
      <4>1. PICK k \in Slot : k = HASH_ID(pipe[i].id)
        BY <1>e, <1>t, PipeElement
      <4>2. Reserve(k) /\ slot[k].id = pipe[i].id
            /\ \A d \in Client : Storing(d) => HASH_ID(cl[d].id) # k
        BY <3>1, <4>1, <1>new, <1>old, <1>e
      <4> QED BY <4>1, <4>2, <2>0, <1>h, <1>e DEF Reserve
    <3>2. ASSUME NEW d \in Client, Storing(d)'
          PROVE  /\ slot'[HASH_ID(cl'[d].id)].type = "reserve"
                 /\ \A x \in Client : Storing(x)' /\ x # d => HASH_ID(cl'[x].id) # HASH_ID(cl'[d].id)
      BY <3>2, <2>0, <1>nat, <1>h, <1>e, <1>old DEF Reserve
    <3>3. ASSUME NEW i \in Slot, slot'[i].type = "reserve"
          PROVE  \/ \E d \in Client : Storing(d)' /\ HASH_ID(cl'[d].id) = i
                 \/ \E j \in 1 .. Len(pipe') : Due(j)' /\ HASH_ID(pipe'[j].id) = i
      <4>1. Reserve(i)
        BY <3>3, <1>1 DEF Reserve
      <4> QED BY <4>1, <1>old, <1>new, <1>h, <1>e
    <3> QED BY <3>1, <3>2, <3>3 DEF ReserveInv, Reserve
  <2>6. EventInv'
    <3>1. ASSUME ~raced, NEW i \in Slot, ev'[i] # {}
          PROVE  ~Reserve(i)' /\ ~Invalid(i)' /\ evid'[i] = slot'[i].id
      <4>1. Live(i) /\ evid'[i] = slot[i].id
        BY <3>1, <1>v, <1>free
      <4>2. slot'[i] = slot[i]
        BY <4>1, <1>1 DEF Live, Invalid
      <4> QED BY <4>1, <4>2 DEF Live, Invalid, Reserve
    <3> QED BY <3>1, <1>v, <1>e DEF EventInv
  <2> QED BY <2>1, <2>2, <2>3, <2>4, <2>5, <2>6, <1>1 DEF IInv
<1>2. CASE slot' = slot /\ fds' = fds /\ known' = known
  <2>1. FdInv'
    BY <1>2, <1>e DEF IInv, FdInv, Owned, Coming, Live, Invalid, Reserve
  <2> QED BY <1>2, <2>1, <1>1, <1>t DEF IInv, ThreadInv
<1>3. CASE /\ Invalid(HASH_ID(next_id')) /\ SetUp(next_id', "paccept", FALSE)
           /\ fds' = fds \cup {next_id'} /\ known' = known \cup {next_id'}
  <2>1. PICK id \in Nat, k \in Slot : id = next_id' /\ k = HASH_ID(id)
    BY HashType
  <2>2. slot' = [slot EXCEPT ![k] = Made(id, "paccept", FALSE)] /\ slot[k].type = "invalid"
    BY <1>3, <2>1 DEF SetUp, Made, Invalid
  <2>3. PICK r : r = Made(id, "paccept", FALSE)
    OBVIOUS
  <2>4. r \in SlotRec /\ r.type = "paccept" /\ r.id = id /\ ~r.buf /\ ~r.lent
    <3>1. "paccept" \in SlotTypes
      BY DEF SlotTypes
    <3>2. PICK ty \in SlotTypes : ty = "paccept"
      BY <3>1
    <3>3. r = Made(id, ty, FALSE)
      BY <2>3, <3>2
    <3>4. r \in SlotRec /\ r.type = ty /\ r.id = id /\ ~r.buf
      BY <3>3, MadeRec DEF Made
    <3>5. r.lent <=> ty = "bind"
      BY <3>3, MadeRec DEF Made
    <3> QED BY <3>2, <3>4, <3>5
  <2>5. /\ slot' \in [Slot -> SlotRec] /\ slot'[k] = r
        /\ \A i \in Slot : i # k => slot'[i] = slot[i]
    BY <2>2, <2>3, <2>4, <1>t, SlotSet
  <2>6. FdInv'
    <3>1. \A i \in Slot : i # k => (Live(i)' <=> Live(i))
      BY <2>5 DEF Live, Invalid, Reserve
    <3>2. ~Live(k) /\ Live(k)'
      BY <2>2, <2>4, <2>5 DEF Live, Invalid, Reserve
    <3>3. Owned' = Owned \cup {id}
      BY <3>1, <3>2, <2>4, <2>5 DEF Owned
    <3>4. Coming' = Coming /\ fds = Owned \cup Coming \cup leaked
      BY <1>e DEF IInv, FdInv, Coming
    <3>5. fds' = Owned' \cup Coming' \cup leaked'
      BY <3>3, <3>4, <2>1, <1>3, <1>e
    <3> QED BY <3>5 DEF FdInv
  <2>7. known' \subseteq Nat
    BY <1>3, <2>1 DEF IInv, ThreadInv
  <2>8. \A i \in Slot : \/ slot'[i] = slot[i]
                        \/ /\ slot[i].type = "invalid" /\ slot'[i].type = "paccept"
                           /\ slot'[i].id = next_id' /\ HASH_ID(next_id') = i
                           /\ ~slot'[i].buf /\ ~slot'[i].lent
    BY <2>1, <2>2, <2>4, <2>5
  <2> QED BY <1>1, <2>5, <2>6, <2>7, <2>8
<1> QED BY <1>2, <1>3

LEMMA ClearKeeps ==
    ASSUME IInv, clear_closed
    PROVE  IInv'
<1>e. /\ UNCHANGED <<next_id, slot, pipe, watched, fds, leaked, cl, known, failed>>
      /\ phase' = phase /\ closing' = None /\ closing # None /\ raced' = raced
      /\ ev' = [s \in Slot |-> IF Invalid(s) /\ slot[s].id = closing THEN {} ELSE ev[s]]
      /\ evid' = [s \in Slot |-> IF ev'[s] = {} THEN 0 ELSE evid[s]]
  BY DEF clear_closed
<1>f. phase # "failed"
  BY <1>e DEF IInv, ThreadInv
<1>1. /\ SlotInv' /\ ThreadInv' /\ IdInv' /\ ReserveInv'
      /\ WatchedExact' /\ (watched \subseteq Slot)' /\ FdInv'
  BY <1>e, <1>f, SameSlots
<1>2. EventInv'
  <2>t. EventInv
    BY DEF IInv
  <2>1. \A s \in Slot : ev'[s] # {} => /\ ev'[s] = ev[s] /\ evid'[s] = evid[s]
                                       /\ ~(Invalid(s) /\ slot[s].id = closing)
    BY <1>e
  <2>2. ev' \in [Slot -> SUBSET {"r", "w"}] /\ evid' \in [Slot -> Nat]
    <3>1. ev' \in [Slot -> SUBSET {"r", "w"}]
      BY <1>e, <2>t DEF EventInv
    <3> QED BY <3>1, <1>e, <2>t DEF EventInv
  <2>3. ASSUME ~raced, NEW s \in Slot, ev'[s] # {}
        PROVE  ~Reserve(s) /\ ~Invalid(s) /\ evid'[s] = slot[s].id
    BY <2>1, <2>3, <2>t DEF EventInv, Live
  <2> QED BY <2>2, <2>3, <1>e DEF EventInv, Live, Invalid, Reserve
<1> QED BY <1>1, <1>2 DEF IInv

LEMMA NoCtrlKeeps ==
    ASSUME IInv, no_ctrl
    PROVE  IInv'
<1>e. /\ UNCHANGED <<next_id, slot, pipe, watched, fds, leaked, cl, known, failed>>
      /\ phase = "ctrl" /\ phase' = "events" /\ closing' = closing /\ closing = None
      /\ raced' = raced /\ ev' = ev /\ evid' = evid
  BY DEF no_ctrl, events
<1>1. /\ SlotInv' /\ ThreadInv' /\ IdInv' /\ ReserveInv'
      /\ WatchedExact' /\ (watched \subseteq Slot)' /\ FdInv'
  BY <1>e, SameSlots
<1>2. EventInv'
  BY <1>e DEF IInv, EventInv, Live, Invalid, Reserve
<1> QED BY <1>1, <1>2 DEF IInv

\* The poller reports events of the sockets it watches, which are live.
LEMMA WaitKeeps ==
    ASSUME IInv, event_wait
    PROVE  IInv'
<1>e. /\ UNCHANGED <<next_id, slot, pipe, watched, fds, leaked, cl, known, failed>>
      /\ phase = "events" /\ phase' # "failed" /\ closing' = closing /\ closing = None
      /\ raced' = raced
      /\ evid' = [s \in Slot |-> IF ev'[s] # {} THEN slot[s].id ELSE 0]
  BY DEF event_wait
<1>1. /\ SlotInv' /\ ThreadInv' /\ IdInv' /\ ReserveInv'
      /\ WatchedExact' /\ (watched \subseteq Slot)' /\ FdInv'
  BY <1>e, SameSlots
<1>2. EventInv'
  <2>1. PICK e \in [watched -> SUBSET {"r", "w"}] :
            ev' = [s \in Slot |-> IF s \in watched THEN e[s] ELSE {}]
    BY DEF event_wait
  <2>2. ev' \in [Slot -> SUBSET {"r", "w"}]
    BY <2>1
  <2>3. \A s \in Slot : ev'[s] # {} => s \in watched
    BY <2>1
  <2>4. \A s \in Slot : ev'[s] # {} => Live(s)
    BY <2>3 DEF IInv, WatchedExact, Live, Invalid, Reserve
  <2>5. evid' \in [Slot -> Nat] /\ \A s \in Slot : ev'[s] # {} => evid'[s] = slot[s].id
    <3>1. \A s \in Slot : slot[s].id \in Nat
      BY DEF IInv, SlotInv, SlotRec
    <3> QED BY <3>1, <1>e
  <2>6. \A s \in Slot : ev'[s] # {} => ~Invalid(s) /\ ~Reserve(s)
    BY <2>4 DEF Live
  <2> QED BY <2>2, <2>5, <2>6, <1>e DEF EventInv, Invalid, Reserve
<1> QED BY <1>1, <1>2 DEF IInv

-----------------------------------------------------------------------------
(* The requests that create a socket are steps of the second kind *)

\* What Request says of the one that is taken.
LEMMA RequestFacts ==
    ASSUME IInv, failed = "no", NEW kinds, Request(kinds)
    PROVE  /\ phase = "ctrl" /\ phase' = "ctrl" /\ closing = None /\ Rest
           /\ pipe # <<>> /\ pipe' = Tail(pipe) /\ Head(pipe).kind \in kinds
           /\ ev' = ev /\ evid' = evid
           /\ Head(pipe).id \in Nat /\ HASH_ID(Head(pipe).id) \in Slot
           /\ 1 \in 1 .. Len(pipe) /\ Head(pipe) = pipe[1]
<1>1. /\ phase = "ctrl" /\ phase' = "ctrl" /\ closing = None /\ Rest
      /\ pipe # <<>> /\ pipe' = Tail(pipe) /\ Head(pipe).kind \in kinds
      /\ ev' = ev /\ evid' = evid
  BY DEF Request, Rest, events
<1>2. pipe \in Seq(ReqRec)
  BY DEF IInv, ThreadInv
<1>3. 1 \in 1 .. Len(pipe) /\ Head(pipe) = pipe[1]
  BY <1>1, <1>2, EmptySeq, LenProperties, HeadTailProperties
<1> QED BY <1>1, <1>2, <1>3, PipeElement

\* The slot of such a request is reserved, so the poller does not know it;
\* the descriptor of a listening or UDP socket is there already.
LEMMA CreateFacts ==
    ASSUME IInv, failed = "no", NEW kinds, Request(kinds), kinds \subseteq Creating
    PROVE  /\ HASH_ID(Head(pipe).id) \notin watched
           /\ Head(pipe).kind \in {"listen", "udp"} => Head(pipe).id \in fds
<1>1. /\ phase = "ctrl" /\ Head(pipe).kind \in kinds /\ HASH_ID(Head(pipe).id) \in Slot
      /\ 1 \in 1 .. Len(pipe) /\ Head(pipe) = pipe[1]
  BY RequestFacts
<1>2. Due(1)
  BY <1>1 DEF Due, New
<1>3. Reserve(HASH_ID(Head(pipe).id))
  BY <1>1, <1>2 DEF IInv, ReserveInv
<1>4. HASH_ID(Head(pipe).id) \notin watched
  BY <1>1, <1>3 DEF IInv, WatchedExact, Reserve
<1>5. Head(pipe).kind \in {"listen", "udp"} => Head(pipe).id \in Coming
  BY <1>1 DEF Coming
<1> QED BY <1>4, <1>5 DEF IInv, FdInv

LEMMA ForgetKeeps ==
    ASSUME IInv, failed = "no", NEW kinds, Request(kinds), kinds \subseteq {"open", "bind"},
           Forget(Head(pipe).id), closing' = Head(pipe).id, watched' = watched,
           fds' = fds, leaked' = leaked, failed' = failed
    PROVE  IInv'
<1>1. /\ phase = "ctrl" /\ phase' = "ctrl" /\ closing = None /\ Rest
      /\ pipe # <<>> /\ pipe' = Tail(pipe) /\ Head(pipe).kind \in kinds
      /\ ev' = ev /\ evid' = evid
      /\ Head(pipe).id \in Nat /\ HASH_ID(Head(pipe).id) \in Slot
  BY RequestFacts
<1>2. PICK id \in Nat, k \in Slot : id = Head(pipe).id /\ k = HASH_ID(id)
  BY <1>1
<1>3. kinds \subseteq Creating /\ Head(pipe).kind \notin {"listen", "udp"}
  BY <1>1 DEF Creating
<1>4. k \notin watched
  BY <1>2, <1>3, CreateFacts
<1>5. /\ slot' \in [Slot -> SlotRec] /\ slot'[k] = Free(id)
      /\ \A s \in Slot : s # k => slot'[s] = slot[s]
  <2>1. slot' = [slot EXCEPT ![k] = Free(id)] /\ slot \in [Slot -> SlotRec]
    BY <1>2 DEF Forget, IInv, SlotInv
  <2> QED BY <2>1, FreeRec, SlotSet
<1>6. /\ Free(id) \in SlotRec /\ Free(id).type = "invalid" /\ Free(id).id = id /\ ~Free(id).lent
  BY FreeRec
<1>7. OnlySlot(k)
  BY <1>5, <1>6 DEF OnlySlot, SlotOK
<1>8. Poller(k)
  BY <1>4, <1>5, <1>6 DEF IInv, Poller, Started
<1>9. Creates(k)
  BY <1>1, <1>2, <1>3, <1>5, <1>6, <1>7, <1>8 DEF Creates
<1> QED BY <1>9, CreatesKeeps

LEMMA SetUpKeeps ==
    ASSUME IInv, failed = "no", NEW kinds, Request(kinds), kinds \subseteq Creating,
           NEW ty \in {"opening", "opened", "bind", "plisten"},
           SetUp(Head(pipe).id, ty, FALSE) \/ SetUp(Head(pipe).id, ty, TRUE),
           kinds \cap {"listen", "udp"} # {} => ty # "bind",
           watched' = IF ty = "plisten" THEN watched ELSE watched \cup {HASH_ID(Head(pipe).id)},
           fds' = IF ty = "bind" THEN fds ELSE fds \cup {Head(pipe).id},
           leaked' = leaked, failed' = failed, closing' = closing
    PROVE  IInv'
<1>1. /\ phase = "ctrl" /\ phase' = "ctrl" /\ closing = None /\ Rest
      /\ pipe # <<>> /\ pipe' = Tail(pipe) /\ Head(pipe).kind \in kinds
      /\ ev' = ev /\ evid' = evid
      /\ Head(pipe).id \in Nat /\ HASH_ID(Head(pipe).id) \in Slot
  BY RequestFacts
<1>2. PICK id \in Nat, k \in Slot : id = Head(pipe).id /\ k = HASH_ID(id)
  BY <1>1
<1>3. PICK r : /\ slot' = [slot EXCEPT ![k] = r]
               /\ r = Made(id, ty, FALSE) \/ r = Made(id, ty, TRUE)
  BY <1>2 DEF SetUp, Made
<1>4. k \notin watched
  BY <1>2, CreateFacts
<1>5. ty \in SlotTypes
  BY DEF SlotTypes, Started
<1>6. r \in SlotRec /\ r.type = ty /\ r.id = id /\ ~r.buf
  BY <1>3, <1>5, MadeRec DEF Made
<1>7. r.lent <=> ty = "bind"
  BY <1>3, <1>5, MadeRec DEF Made
<1>8. /\ slot' \in [Slot -> SlotRec] /\ slot'[k] = r
      /\ \A s \in Slot : s # k => slot'[s] = slot[s]
  <2>1. slot \in [Slot -> SlotRec]
    BY DEF IInv, SlotInv
  <2> QED BY <2>1, <1>3, <1>6, SlotSet
<1>9. OnlySlot(k)
  <2>1. SlotOK(r)
    BY <1>6, <1>7 DEF SlotOK
  <2> QED BY <2>1, <1>8 DEF OnlySlot
<1>10. Poller(k)
  <2>1. ty \in Started <=> ty # "plisten"
    BY DEF Started
  <2> QED BY <2>1, <1>2, <1>4, <1>6, <1>8 DEF IInv, Poller
<1>11. /\ Head(pipe).kind \in {"listen", "udp"} => ~slot'[k].lent
       /\ slot'[k].type # "invalid" /\ slot'[k].type # "reserve" /\ slot'[k].id = id
       /\ ~slot'[k].lent <=> ty # "bind"
  BY <1>1, <1>6, <1>7, <1>8
<1>12. fds' = IF slot'[k].type # "invalid" /\ ~slot'[k].lent THEN fds \cup {slot'[k].id} ELSE fds
  BY <1>2, <1>11
<1>13. Head(pipe).kind \in Creating
  BY <1>1
<1>14. Creates(k)
  BY <1>1, <1>2, <1>9, <1>10, <1>11, <1>12, <1>13 DEF Creates
<1> QED BY <1>14, CreatesKeeps

LEMMA CreatingKeeps ==
    ASSUME IInv, failed = "no",
           socket_req_open \/ socket_req_listen \/ socket_req_bind \/ socket_req_udp
    PROVE  IInv'
<1>1. CASE socket_req_open
  <2>1. Request({"open"}) /\ {"open"} \subseteq Creating /\ {"open"} \subseteq {"open", "bind"}
        /\ leaked' = leaked /\ failed' = failed
    BY <1>1 DEF socket_req_open, Creating
  <2>2. CASE Forget(Head(pipe).id) /\ closing' = Head(pipe).id /\ UNCHANGED <<watched, fds>>
    BY <2>1, <2>2, ForgetKeeps
  <2>3. CASE /\ \E ty \in {"opening", "opened"} : SetUp(Head(pipe).id, ty, FALSE)
             /\ Watch(Head(pipe).id) /\ fds' = fds \cup {Head(pipe).id} /\ UNCHANGED closing
    <3>1. PICK ty \in {"opening", "opened"} : SetUp(Head(pipe).id, ty, FALSE)
      BY <2>3
    <3>2. /\ ty \in {"opening", "opened", "bind", "plisten"} /\ ty # "bind" /\ ty # "plisten"
          /\ watched' = watched \cup {HASH_ID(Head(pipe).id)}
      BY <2>3 DEF Watch
    <3> QED BY <2>1, <2>3, <3>1, <3>2, SetUpKeeps
  <2> QED BY <1>1, <2>2, <2>3 DEF socket_req_open
<1>2. CASE socket_req_listen
  <2>1. /\ Request({"listen"}) /\ {"listen"} \subseteq Creating
        /\ SetUp(Head(pipe).id, "plisten", FALSE)
        /\ UNCHANGED <<watched, fds, leaked, closing, failed>>
    BY <1>2 DEF socket_req_listen, Creating
  <2>2. Head(pipe).kind \in {"listen", "udp"}
    BY <2>1 DEF Request
  <2>3. Head(pipe).id \in fds
    BY <2>1, <2>2, CreateFacts
  <2>4. fds' = fds \cup {Head(pipe).id}
    BY <2>1, <2>3
  <2>5. PICK ty \in {"opening", "opened", "bind", "plisten"} : ty = "plisten"
    OBVIOUS
  <2>6. SetUp(Head(pipe).id, ty, FALSE)
    BY <2>1, <2>5
  <2> QED BY <2>1, <2>4, <2>5, <2>6, SetUpKeeps
<1>3. CASE socket_req_bind
  <2>1. Request({"bind"}) /\ {"bind"} \subseteq Creating /\ {"bind"} \subseteq {"open", "bind"}
        /\ fds' = fds /\ leaked' = leaked /\ failed' = failed /\ {"bind"} \cap {"listen", "udp"} = {}
    BY <1>3 DEF socket_req_bind, Creating
  <2>2. CASE Forget(Head(pipe).id) /\ closing' = Head(pipe).id /\ UNCHANGED watched
    BY <2>1, <2>2, ForgetKeeps
  <2>3. CASE SetUp(Head(pipe).id, "bind", FALSE) /\ Watch(Head(pipe).id) /\ UNCHANGED closing
    <3>1. PICK ty \in {"opening", "opened", "bind", "plisten"} : ty = "bind"
      OBVIOUS
    <3>2. SetUp(Head(pipe).id, ty, FALSE) /\ watched' = watched \cup {HASH_ID(Head(pipe).id)}
      BY <2>3, <3>1 DEF Watch
    <3> QED BY <2>1, <2>3, <3>1, <3>2, SetUpKeeps
  <2> QED BY <1>3, <2>2, <2>3 DEF socket_req_bind
<1>4. CASE socket_req_udp
  <2>1. /\ Request({"udp"}) /\ {"udp"} \subseteq Creating
        /\ SetUp(Head(pipe).id, "opened", TRUE)
        /\ watched' = watched \cup {HASH_ID(Head(pipe).id)}
        /\ UNCHANGED <<fds, leaked, closing, failed>>
    BY <1>4 DEF socket_req_udp, Creating, Watch
  <2>2. Head(pipe).kind \in {"listen", "udp"}
    BY <2>1 DEF Request
  <2>3. Head(pipe).id \in fds
    BY <2>1, <2>2, CreateFacts
  <2>4. fds' = fds \cup {Head(pipe).id}
    BY <2>1, <2>3
  <2>5. PICK ty \in {"opening", "opened", "bind", "plisten"} : ty = "opened"
    OBVIOUS
  <2>6. SetUp(Head(pipe).id, ty, TRUE)
    BY <2>1, <2>5
  <2> QED BY <2>1, <2>4, <2>5, <2>6, SetUpKeeps
<1> QED BY <1>1, <1>2, <1>3, <1>4

-----------------------------------------------------------------------------
(* The other requests and the events are steps of the first kind *)

\* What such a step does to slot k, the poller and the descriptors.
Effect(k) == OnlySlot(k) /\ slot'[k].id = slot[k].id /\ Poller(k) /\ Fate(k)

LEMMA SameEffect ==
    ASSUME IInv, NEW k \in Slot, slot' = slot, watched' = watched, fds' = fds, leaked' = leaked
    PROVE  Effect(k)
<1>1. OnlySlot(k)
  BY DEF IInv, SlotInv, OnlySlot, SlotOK
<1>2. Poller(k)
  BY DEF IInv, WatchedExact, Poller, Started
<1>3. Fate(k)
  BY DEF Fate
<1> QED BY <1>1, <1>2, <1>3 DEF Effect

\* Slot k stays as free, reserved or live as it is.
LEMMA RecEffect ==
    ASSUME IInv, NEW k \in Slot, NEW r, slot' = [slot EXCEPT ![k] = r], SlotOK(r),
           r.id = slot[k].id, r.lent = slot[k].lent,
           (r.type = "invalid") <=> (slot[k].type = "invalid"),
           (r.type = "reserve") <=> (slot[k].type = "reserve"),
           watched' = watched \cup {k} \/ (watched' = watched),
           k \in watched' <=> r.type \in Started,
           fds' = fds, leaked' = leaked
    PROVE  Effect(k)
<1>1. /\ slot' \in [Slot -> SlotRec] /\ slot'[k] = r
      /\ \A s \in Slot : s # k => slot'[s] = slot[s]
  <2>1. slot \in [Slot -> SlotRec] /\ r \in SlotRec
    BY DEF IInv, SlotInv, SlotOK
  <2> QED BY <2>1, SlotSet
<1>2. OnlySlot(k)
  BY <1>1 DEF OnlySlot
<1>3. Poller(k)
  <2>1. watched' \subseteq Slot
    BY DEF IInv
  <2>2. \A s \in Slot : s # k => (s \in watched' <=> s \in watched)
    OBVIOUS
  <2> QED BY <1>1, <2>1, <2>2 DEF Poller
<1>4. Fate(k)
  BY <1>1 DEF Fate
<1> QED BY <1>1, <1>2, <1>3, <1>4 DEF Effect

\* A live socket is closed.
LEMMA CloseEffect ==
    ASSUME IInv, NEW k \in Slot, Live(k), socket_force_close(k), leaked' = leaked
    PROVE  Effect(k) /\ slot'[k].type = "invalid"
<1>t. slot \in [Slot -> SlotRec] /\ slot[k].id \in Nat
  BY DEF IInv, SlotInv, SlotRec
<1>1. /\ Free(slot[k].id) \in SlotRec /\ Free(slot[k].id).type = "invalid"
      /\ Free(slot[k].id).id = slot[k].id /\ ~Free(slot[k].id).lent
  BY <1>t, FreeRec
<1>2. slot' = [slot EXCEPT ![k] = Free(slot[k].id)]
  BY DEF socket_force_close, close_fd
<1>3. /\ slot' \in [Slot -> SlotRec] /\ slot'[k].type = "invalid" /\ slot'[k].id = slot[k].id /\ ~slot'[k].lent
      /\ \A s \in Slot : s # k => slot'[s] = slot[s]
  BY <1>t, <1>1, <1>2, SlotSet
<1>4. OnlySlot(k)
  BY <1>3 DEF OnlySlot, SlotOK
<1>5. Poller(k)
  <2>1. watched' = IF slot[k].type \in {"paccept", "plisten"} THEN watched ELSE watched \ {k}
    BY DEF socket_force_close, close_fd
  <2>2. slot[k].type \in {"paccept", "plisten"} => k \notin watched
    BY DEF IInv, WatchedExact
  <2>3. k \notin watched' /\ watched' \subseteq watched
        /\ \A s \in Slot : s # k => (s \in watched' <=> s \in watched)
    BY <2>1, <2>2
  <2> QED BY <2>3, <1>3 DEF IInv, Poller, Started
<1>6. Fate(k)
  BY <1>3 DEF Fate, socket_force_close, close_fd
<1> QED BY <1>3, <1>4, <1>5, <1>6 DEF Effect

\* A request.
LEMMA RequestKeeps ==
    ASSUME IInv, failed = "no", NEW kinds, Request(kinds), kinds \subseteq {"start", "close", "send"},
           NEW k \in Slot, Effect(k), closing' \in Nat \cup {None}, failed' # "wiped",
           slot'[k].type = "invalid" => slot[k].type = "invalid" \/ closing' = slot[k].id
    PROVE  IInv'
<1>1. /\ phase = "ctrl" /\ phase' = "ctrl" /\ closing = None /\ Rest
      /\ pipe # <<>> /\ pipe' = Tail(pipe) /\ Head(pipe).kind \in kinds
      /\ ev' = ev /\ evid' = evid
  BY RequestFacts
<1>2. Taken
  BY <1>1 DEF Taken, Creating
<1>t. slot[k].id \in Nat
  BY DEF IInv, SlotInv, SlotRec
<1>3. ~raced /\ ev[k] # {} => slot[k].type # "invalid"
  BY <1>1, <1>t, ServerAssumption DEF IInv, EventInv, Invalid
<1>4. Leftover(k)
  BY <1>1, <1>3 DEF IInv, EventInv, Leftover
<1>5. Handles(k)
  BY <1>1, <1>2, <1>4 DEF Handles, Effect
<1> QED BY <1>5, HandlesKeeps

\* An event of slot k; if a part of it is left, the socket is still there or
\* clear_closed is next.
LEMMA EventKeeps ==
    ASSUME IInv, failed = "no", NEW k \in Slot, NEW rest \in SUBSET {"r", "w"}, Event(k, rest),
           Effect(k), next_id' = next_id, known' = known,
           closing' \in Nat \cup {None}, failed' # "wiped",
           rest # {} /\ slot'[k].type = "invalid" => closing' = slot[k].id
    PROVE  IInv'
<1>1. /\ phase # "failed" /\ phase' # "failed" /\ closing = None /\ ev[k] # {}
      /\ pipe' = pipe /\ cl' = cl /\ raced' = raced
      /\ ev' = [ev EXCEPT ![k] = rest]
      /\ evid' = [evid EXCEPT ![k] = IF rest = {} THEN 0 ELSE @]
  BY DEF Event
<1>t. ev \in [Slot -> SUBSET {"r", "w"}] /\ evid \in [Slot -> Nat]
  BY DEF IInv, EventInv
<1>2. Rest /\ Taken
  BY <1>1 DEF Rest, Taken
<1>3. /\ ev' \in [Slot -> SUBSET {"r", "w"}] /\ ev'[k] = rest
      /\ \A s \in Slot : s # k => ev'[s] = ev[s]
  BY <1>1, <1>t
<1>4. /\ evid' \in [Slot -> Nat] /\ (rest # {} => evid'[k] = evid[k])
      /\ \A s \in Slot : s # k => evid'[s] = evid[s]
  BY <1>1, <1>t
<1>5. Leftover(k)
  BY <1>1, <1>3, <1>4 DEF Leftover
<1>6. Handles(k)
  BY <1>1, <1>2, <1>5 DEF Handles, Effect
<1> QED BY <1>6, HandlesKeeps

LEMMA SlotFacts ==
    ASSUME IInv, NEW k \in Slot
    PROVE  /\ slot[k] \in SlotRec /\ slot[k].id \in Nat /\ SlotOK(slot[k])
           /\ slot[k].buf \in BOOLEAN /\ slot[k].out \in BOOLEAN
           /\ k \in watched <=> slot[k].type \in Started
           /\ slot \in [Slot -> SlotRec]
<1>1. slot[k] \in SlotRec /\ slot \in [Slot -> SlotRec]
  BY DEF IInv, SlotInv
<1>2. slot[k].id \in Nat /\ slot[k].buf \in BOOLEAN /\ slot[k].out \in BOOLEAN
  BY <1>1 DEF SlotRec
<1>3. SlotOK(slot[k])
  BY <1>1 DEF IInv, SlotInv, SlotOK
<1>4. k \in watched <=> slot[k].type \in Started
  BY DEF IInv, WatchedExact, Started
<1> QED BY <1>1, <1>2, <1>3, <1>4

\* Only what waits to be sent changes, in a slot that may have some.
LEMMA BufEffect ==
    ASSUME IInv, NEW k \in Slot, NEW q \in SlotRec, slot' = [slot EXCEPT ![k] = q],
           q.type = slot[k].type, q.id = slot[k].id, q.lent = slot[k].lent,
           q.buf => slot[k].type \notin {"listen", "plisten", "paccept"},
           watched' = watched, fds' = fds, leaked' = leaked
    PROVE  Effect(k) /\ slot'[k].type = slot[k].type
<1>1. /\ slot[k] \in SlotRec /\ SlotOK(slot[k]) /\ slot \in [Slot -> SlotRec]
      /\ k \in watched <=> slot[k].type \in Started
  BY SlotFacts
<1>2. SlotOK(q)
  BY <1>1 DEF SlotOK
<1>3. Effect(k)
  BY <1>1, <1>2, RecEffect
<1> QED BY <1>1, <1>3

LEMMA StartKeeps ==
    ASSUME IInv, failed = "no", socket_req_start
    PROVE  IInv'
<1>1. /\ Request({"start"}) /\ fds' = fds /\ failed' = failed
      /\ {"start"} \subseteq {"start", "close", "send"}
  BY DEF socket_req_start
<1>2. closing = None /\ Head(pipe).id \in Nat /\ HASH_ID(Head(pipe).id) \in Slot
  BY <1>1, RequestFacts
<1>3. PICK id \in Nat, k \in Slot : id = Head(pipe).id /\ k = HASH_ID(id)
  BY <1>2
<1>4. /\ slot[k] \in SlotRec /\ SlotOK(slot[k]) /\ slot \in [Slot -> SlotRec]
      /\ k \in watched <=> slot[k].type \in Started
  BY SlotFacts
<1>5. CASE /\ closing' \in {id, closing} /\ UNCHANGED <<slot, watched, leaked>>
  <2>1. Effect(k)
    BY <1>1, <1>5, SameEffect
  <2>2. closing' \in Nat \cup {None}
    BY <1>2, <1>5
  <2> QED BY <1>1, <1>5, <2>1, <2>2, RequestKeeps
<1>6. CASE /\ slot[k].type \in {"paccept", "plisten"}
           /\ slot' = [slot EXCEPT ![k].type = IF slot[k].type = "paccept" THEN "opened" ELSE "listen"]
           /\ Watch(id) /\ UNCHANGED <<leaked, closing>>
  <2>1. PICK ty \in {"opened", "listen"} :
           ty = IF slot[k].type = "paccept" THEN "opened" ELSE "listen"
    OBVIOUS
  <2>2. PICK q : q = [slot[k] EXCEPT !.type = ty]
    OBVIOUS
  <2>3. ty \in SlotTypes /\ ty \in Started
    BY DEF SlotTypes, Started
  <2>4. q \in SlotRec /\ q.type = ty /\ q.id = slot[k].id /\ q.buf = slot[k].buf
        /\ q.lent = slot[k].lent
    BY <1>4, <2>2, <2>3, TypeRec
  <2>5. slot' = [slot EXCEPT ![k] = q]
    BY <1>4, <1>6, <2>1, <2>2
  <2>6. SlotOK(q)
    BY <1>4, <1>6, <2>4 DEF SlotOK
  <2>7. watched' = watched \cup {k}
    BY <1>3, <1>6 DEF Watch
  <2>8. Effect(k)
    BY <1>1, <1>6, <2>3, <2>4, <2>5, <2>6, <2>7, RecEffect
  <2>9. slot'[k].type # "invalid"
    BY <2>4, <2>5, <1>4
  <2> QED BY <1>1, <1>2, <1>6, <2>8, <2>9, RequestKeeps
<1>7. CASE /\ slot[k].id = id /\ slot[k].type \in {"paccept", "plisten"}
           /\ Forget(id) /\ leaked' = leaked \cup {id} /\ closing' = id /\ UNCHANGED watched
  <2>1. slot' = [slot EXCEPT ![k] = Free(id)]
    BY <1>3, <1>7 DEF Forget
  <2>2. Free(id) \in SlotRec /\ Free(id).type = "invalid" /\ Free(id).id = id /\ ~Free(id).lent
    BY FreeRec
  <2>3. /\ slot' \in [Slot -> SlotRec] /\ slot'[k] = Free(id)
        /\ \A s \in Slot : s # k => slot'[s] = slot[s]
    BY <1>4, <2>1, <2>2, SlotSet
  <2>4. OnlySlot(k)
    BY <2>2, <2>3 DEF OnlySlot, SlotOK
  <2>5. Poller(k)
    BY <1>4, <1>7, <2>2, <2>3 DEF IInv, Poller, Started
  <2>6. Live(k) /\ ~slot[k].lent
    BY <1>4, <1>7 DEF SlotOK, Live, Invalid, Reserve
  <2>7. Fate(k)
    BY <1>1, <1>7, <2>2, <2>3, <2>6 DEF Fate
  <2>8. Effect(k)
    BY <1>7, <2>2, <2>3, <2>4, <2>5, <2>7 DEF Effect
  <2> QED BY <1>1, <1>7, <2>8, RequestKeeps
<1> QED BY <1>3, <1>5, <1>6, <1>7 DEF socket_req_start, Stale

LEMMA CloseKeeps ==
    ASSUME IInv, failed = "no", socket_req_close
    PROVE  IInv'
<1>1. Request({"close"}) /\ {"close"} \subseteq {"start", "close", "send"}
  BY DEF socket_req_close
<1>2. closing = None /\ Head(pipe).id \in Nat /\ HASH_ID(Head(pipe).id) \in Slot
  BY <1>1, RequestFacts
<1>3. PICK id \in Nat, k \in Slot : id = Head(pipe).id /\ k = HASH_ID(id)
  BY <1>2
<1>4. /\ slot[k] \in SlotRec /\ SlotOK(slot[k]) /\ slot \in [Slot -> SlotRec]
      /\ k \in watched <=> slot[k].type \in Started
  BY SlotFacts
<1>5. CASE /\ closing' \in {id, closing} /\ failed' \in {failed, "assert"}
           /\ UNCHANGED <<slot, watched, fds, leaked>>
  <2>1. Effect(k)
    BY <1>5, SameEffect
  <2>2. closing' \in Nat \cup {None} /\ failed' # "wiped"
    BY <1>2, <1>5
  <2> QED BY <1>1, <1>5, <2>1, <2>2, RequestKeeps
<1>6. CASE slot[k].id = id /\ Live(k) /\ socket_force_close(k) /\ closing' = id
           /\ UNCHANGED <<leaked, failed>>
  <2>1. Effect(k)
    BY <1>6, CloseEffect
  <2> QED BY <1>1, <1>6, <2>1, RequestKeeps
<1>7. CASE /\ Live(k) /\ slot[k].buf /\ slot' = [slot EXCEPT ![k].type = "halfclose"]
           /\ UNCHANGED <<watched, fds, leaked, closing, failed>>
  <2>2. PICK q : q = [slot[k] EXCEPT !.type = "halfclose"]
    OBVIOUS
  <2>3. "halfclose" \in SlotTypes /\ "halfclose" \in Started
    BY DEF SlotTypes, Started
  <2>4. q \in SlotRec /\ q.type = "halfclose" /\ q.id = slot[k].id /\ q.lent = slot[k].lent
    BY <1>4, <2>2, <2>3, TypeRec
  <2>5. slot' = [slot EXCEPT ![k] = q]
    BY <1>4, <1>7, <2>2
  <2>6. SlotOK(q)
    BY <2>4 DEF SlotOK
  <2>7. k \in watched
    <3>1. slot[k].type \in SlotTypes
      BY <1>4 DEF SlotRec
    <3> QED BY <3>1, <1>4, <1>7 DEF SlotOK, SlotTypes, Started, Live, Invalid, Reserve
  <2>8. Effect(k)
    BY <1>7, <2>3, <2>4, <2>5, <2>6, <2>7, RecEffect DEF Live, Invalid, Reserve
  <2>9. slot'[k].type # "invalid"
    BY <2>4, <2>5, <1>4
  <2> QED BY <1>1, <1>2, <1>7, <2>8, <2>9, RequestKeeps
<1> QED BY <1>3, <1>5, <1>6, <1>7 DEF socket_req_close, Stale, assertion_fails

LEMMA SendReqKeeps ==
    ASSUME IInv, failed = "no", socket_req_send
    PROVE  IInv'
<1>1. /\ Request({"send"}) /\ {"send"} \subseteq {"start", "close", "send"}
      /\ leaked' = leaked /\ failed' = failed
  BY DEF socket_req_send
<1>2. closing = None /\ Head(pipe).id \in Nat /\ HASH_ID(Head(pipe).id) \in Slot
  BY <1>1, RequestFacts
<1>3. PICK id \in Nat, k \in Slot : id = Head(pipe).id /\ k = HASH_ID(id)
  BY <1>2
<1>4. /\ slot[k] \in SlotRec /\ SlotOK(slot[k]) /\ slot \in [Slot -> SlotRec]
  BY SlotFacts
<1>5. CASE UNCHANGED <<slot, watched, fds, closing>>
  <2>1. Effect(k)
    BY <1>1, <1>5, SameEffect
  <2> QED BY <1>1, <1>2, <1>5, <2>1, RequestKeeps
<1>6. CASE /\ slot[k].type \notin {"halfclose", "paccept", "plisten", "listen"}
           /\ slot[k].type # "invalid"
           /\ slot' = [slot EXCEPT ![k].buf = TRUE, ![k].out = @ \/ slot[k].type = "opened"]
           /\ UNCHANGED <<watched, fds, closing>>
  <2> DEFINE o == slot[k].out \/ slot[k].type = "opened"
  <2>1. o \in BOOLEAN
    OBVIOUS
  <2>2. slot' = [slot EXCEPT ![k] = [slot[k] EXCEPT !.buf = TRUE, !.out = o]]
    BY <1>4, <1>6
  <2> HIDE DEF o
  <2>3. PICK r \in SlotRec : r = slot[k]
    BY <1>4
  <2>4. PICK q : q = [r EXCEPT !.buf = TRUE, !.out = o]
    OBVIOUS
  <2>5. q \in SlotRec /\ q.type = r.type /\ q.id = r.id /\ q.lent = r.lent
    BY <2>1, <2>4, Zenon DEF SlotRec
  <2>6. slot' = [slot EXCEPT ![k] = q]
    BY <2>2, <2>3, <2>4
  <2>7. Effect(k) /\ slot'[k].type = slot[k].type
    BY <1>1, <1>6, <2>3, <2>5, <2>6, BufEffect
  <2> QED BY <1>1, <1>2, <1>6, <2>7, RequestKeeps
<1>7. CASE slot[k].id = id /\ slot[k].type = "opened" /\ socket_force_close(k) /\ closing' = id
  <2>1. Live(k)
    BY <1>7 DEF Live, Invalid, Reserve
  <2>2. Effect(k)
    BY <1>1, <1>7, <2>1, CloseEffect
  <2> QED BY <1>1, <1>7, <2>2, RequestKeeps
<1> QED BY <1>3, <1>5, <1>6, <1>7 DEF socket_req_send, Stale, Invalid

LEMMA IgnoredKeeps ==
    ASSUME IInv, failed = "no", NEW k \in Slot, event_ignored(k)
    PROVE  IInv'
<1>1. /\ Event(k, {}) /\ slot' = slot /\ watched' = watched /\ fds' = fds /\ leaked' = leaked
      /\ next_id' = next_id /\ known' = known /\ failed' = failed /\ closing' = closing
      /\ closing = None
  BY DEF event_ignored, Event
<1>2. Effect(k)
  BY <1>1, SameEffect
<1>3. {} \in SUBSET {"r", "w"}
  OBVIOUS
<1> QED BY <1>1, <1>2, <1>3, EventKeeps

LEMMA TryOpenKeeps ==
    ASSUME IInv, failed = "no", NEW k \in Slot, socket_try_open(k)
    PROVE  IInv'
<1>1. /\ Event(k, {}) /\ slot[k].type = "opening" /\ leaked' = leaked /\ closing = None
      /\ next_id' = next_id /\ known' = known /\ failed' = failed /\ closing' = closing
      /\ {} \in SUBSET {"r", "w"}
  BY DEF socket_try_open, Event
<1>4. /\ slot[k] \in SlotRec /\ SlotOK(slot[k]) /\ slot \in [Slot -> SlotRec]
      /\ k \in watched <=> slot[k].type \in Started
  BY SlotFacts
<1>5. CASE /\ slot' = [slot EXCEPT ![k].type = "opened", ![k].out = @ /\ slot[k].buf]
           /\ UNCHANGED <<watched, fds>>
  <2> DEFINE o == slot[k].out /\ slot[k].buf
  <2>1. o \in BOOLEAN
    OBVIOUS
  <2>2. slot' = [slot EXCEPT ![k] = [slot[k] EXCEPT !.type = "opened", !.out = o]]
    BY <1>4, <1>5
  <2> HIDE DEF o
  <2>3. PICK r \in SlotRec : r = slot[k]
    BY <1>4
  <2>4. PICK q : q = [r EXCEPT !.type = "opened", !.out = o]
    OBVIOUS
  <2>s. "opened" \in SlotTypes /\ "opened" \in Started /\ "opening" \in Started
    BY DEF SlotTypes, Started
  <2>5. q \in SlotRec /\ q.type = "opened" /\ q.id = r.id /\ q.lent = r.lent
    BY <2>1, <2>4, <2>s, Zenon DEF SlotRec
  <2>6. slot' = [slot EXCEPT ![k] = q]
    BY <2>2, <2>3, <2>4
  <2>7. SlotOK(q)
    BY <1>1, <1>4, <2>3, <2>5 DEF SlotOK
  <2>8. Effect(k)
    BY <1>1, <1>4, <1>5, <2>3, <2>5, <2>6, <2>7, <2>s, RecEffect
  <2> QED BY <1>1, <2>8, EventKeeps
<1>6. CASE socket_force_close(k)
  <2>1. Effect(k)
    BY <1>1, <1>6, CloseEffect DEF Live, Invalid, Reserve
  <2> QED BY <1>1, <2>1, EventKeeps
<1> QED BY <1>5, <1>6 DEF socket_try_open

LEMMA TryAcceptKeeps ==
    ASSUME IInv, failed = "no", NEW k \in Slot, socket_try_accept(k)
    PROVE  IInv'
<1>1. /\ Event(k, {}) /\ slot[k].type = "listen" /\ leaked' = leaked /\ closing = None
      /\ failed' = failed /\ closing' = closing /\ watched' = watched
      /\ {} \in SUBSET {"r", "w"}
  BY DEF socket_try_accept, Event
<1>2. next_id \in Nat /\ MAX_SOCKET \in Nat \ {0} /\ MaxId \in Nat
  BY ServerAssumption DEF IInv, ThreadInv
<1>3. CASE UNCHANGED <<next_id, slot, fds, known>>
  <2>1. Effect(k)
    BY <1>1, <1>3, SameEffect
  <2> QED BY <1>1, <1>3, <2>1, EventKeeps
<1>4. CASE next_id' = next_id + MAX_SOCKET /\ UNCHANGED <<slot, fds, known>>
  <2>1. next_id' \in Nat /\ next_id' > next_id
    BY <1>2, <1>4
  <2> QED BY <1>1, <1>4, <2>1, AcceptKeeps
<1>5. CASE \E id \in next_id + 1 .. MaxId :
             /\ Invalid(HASH_ID(id)) /\ next_id' = id /\ SetUp(id, "paccept", FALSE)
             /\ fds' = fds \cup {id} /\ known' = known \cup {id}
  <2>1. PICK id \in next_id + 1 .. MaxId :
             /\ Invalid(HASH_ID(id)) /\ next_id' = id /\ SetUp(id, "paccept", FALSE)
             /\ fds' = fds \cup {id} /\ known' = known \cup {id}
    BY <1>5
  <2>2. next_id' \in Nat /\ next_id' > next_id
    BY <1>2, <2>1
  <2>3. /\ Invalid(HASH_ID(next_id')) /\ SetUp(next_id', "paccept", FALSE)
        /\ fds' = fds \cup {next_id'} /\ known' = known \cup {next_id'}
    BY <2>1, Zenon
  <2> QED BY <1>1, <2>2, <2>3, AcceptKeeps
<1> QED BY <1>3, <1>4, <1>5 DEF socket_try_accept

LEMMA PacketKeeps ==
    ASSUME IInv, failed = "no", NEW k \in Slot, udp_packet(k)
    PROVE  IInv'
<1>1. /\ Event(k, ev[k]) /\ slot' = slot /\ watched' = watched /\ fds' = fds /\ leaked' = leaked
      /\ next_id' = next_id /\ known' = known /\ failed' = failed /\ closing' = closing
      /\ closing = None /\ slot[k].type # "invalid"
  BY DEF udp_packet, Event, Other
<1>2. Effect(k)
  BY <1>1, SameEffect
<1>3. ev[k] \in SUBSET {"r", "w"}
  BY DEF IInv, EventInv
<1> QED BY <1>1, <1>2, <1>3, EventKeeps

LEMMA ReadKeeps ==
    ASSUME IInv, failed = "no", NEW k \in Slot, read_event(k)
    PROVE  IInv'
<1>1. /\ Event(k, ev[k] \ {"r"}) /\ Other(k) /\ leaked' = leaked /\ closing = None
      /\ next_id' = next_id /\ known' = known /\ slot[k].type # "invalid"
  BY DEF read_event, Event, Other
<1>2. PICK rest \in SUBSET {"r", "w"} : rest = ev[k] \ {"r"}
  BY DEF IInv, EventInv
<1>3. slot[k].id \in Nat
  BY SlotFacts
<1>4. CASE UNCHANGED <<slot, watched, fds, closing>> /\ failed' \in {"assert", failed}
  <2>1. Effect(k)
    BY <1>1, <1>4, SameEffect
  <2> QED BY <1>1, <1>2, <1>4, <2>1, EventKeeps
<1>5. CASE ~Reserve(k) /\ socket_force_close(k) /\ closing' = slot[k].id /\ failed' = failed
  <2>1. Effect(k)
    BY <1>1, <1>5, CloseEffect DEF Live, Invalid
  <2> QED BY <1>1, <1>2, <1>3, <1>5, <2>1, EventKeeps
<1> QED BY <1>4, <1>5 DEF read_event

LEMMA WriteKeeps ==
    ASSUME IInv, failed = "no", NEW k \in Slot, write_event(k)
    PROVE  IInv'
<1>1. /\ Event(k, {}) /\ leaked' = leaked /\ closing = None /\ {} \in SUBSET {"r", "w"}
      /\ next_id' = next_id /\ known' = known /\ slot[k].type # "invalid"
  BY DEF write_event, Event, Other
<1>3. /\ slot[k].id \in Nat /\ slot[k] \in SlotRec /\ slot \in [Slot -> SlotRec]
  BY SlotFacts
<1>4. CASE UNCHANGED <<slot, watched, fds, closing>> /\ failed' \in {"assert", failed}
  <2>1. Effect(k)
    BY <1>1, <1>4, SameEffect
  <2> QED BY <1>1, <1>4, <2>1, EventKeeps
<1>5. CASE /\ \/ slot' = [slot EXCEPT ![k].buf = FALSE]
              \/ slot' = [slot EXCEPT ![k].buf = FALSE, ![k].out = FALSE]
           /\ UNCHANGED <<watched, fds, closing>> /\ failed' = failed
  <2>1. PICK r \in SlotRec : r = slot[k]
    BY <1>3
  <2>2. PICK p, q : p = [r EXCEPT !.buf = FALSE] /\ q = [r EXCEPT !.buf = FALSE, !.out = FALSE]
    BY Zenon
  <2>3. p \in SlotRec /\ p.type = r.type /\ p.id = r.id /\ p.lent = r.lent /\ ~p.buf
    BY <2>2, Zenon DEF SlotRec
  <2>4. q \in SlotRec /\ q.type = r.type /\ q.id = r.id /\ q.lent = r.lent /\ ~q.buf
    BY <2>2, Zenon DEF SlotRec
  <2>5. slot' = [slot EXCEPT ![k] = p] \/ slot' = [slot EXCEPT ![k] = q]
    BY <1>3, <1>5, <2>1, <2>2
  <2>6. Effect(k)
    BY <1>1, <1>5, <2>1, <2>3, <2>4, <2>5, BufEffect
  <2> QED BY <1>1, <1>5, <2>6, EventKeeps
<1>6. CASE ~Reserve(k) /\ socket_force_close(k) /\ closing' = slot[k].id /\ failed' = failed
  <2>1. Effect(k)
    BY <1>1, <1>6, CloseEffect DEF Live, Invalid
  <2> QED BY <1>1, <1>3, <1>6, <2>1, EventKeeps
<1>7. \/ UNCHANGED <<slot, watched, fds, closing>> /\ failed' \in {"assert", failed}
      \/ /\ \/ slot' = [slot EXCEPT ![k].buf = FALSE]
            \/ slot' = [slot EXCEPT ![k].buf = FALSE, ![k].out = FALSE]
         /\ UNCHANGED <<watched, fds, closing>> /\ failed' = failed
      \/ ~Reserve(k) /\ socket_force_close(k) /\ closing' = slot[k].id /\ failed' = failed
  BY Zenon DEF write_event, Reserve
<1> QED BY <1>4, <1>5, <1>6, <1>7

-----------------------------------------------------------------------------
(* The theorems *)

LEMMA NextIInv == IInv /\ [Next]_vars => IInv'
<1> SUFFICES ASSUME IInv, [Next]_vars PROVE IInv'
  OBVIOUS
<1>1. CASE UNCHANGED vars
  <2>1. /\ UNCHANGED <<next_id, slot, pipe, watched, fds, leaked, cl, known, failed>>
        /\ phase' = phase /\ closing' = closing /\ ev' = ev /\ evid' = evid /\ raced' = raced
    BY <1>1 DEF vars
  <2>2. closing \in Nat \cup {None}
    BY DEF IInv, ThreadInv
  <2>3. /\ SlotInv' /\ ThreadInv' /\ IdInv' /\ ReserveInv'
        /\ WatchedExact' /\ (watched \subseteq Slot)' /\ FdInv'
    BY <2>1, <2>2, SameSlots
  <2>4. EventInv'
    BY <2>1 DEF IInv, EventInv, Live, Invalid, Reserve
  <2> QED BY <2>3, <2>4 DEF IInv
<1>2. CASE Next
  <2>0. failed = "no"
    BY <1>2 DEF Next
  <2>1. ASSUME NEW c \in Client, Call(c) PROVE IInv'
    BY <2>0, <2>1, IncKeeps, ReserveKeeps, SendKeeps DEF Call
  <2>2. ASSUME NEW id \in known, NEW k \in {"start", "close", "send"}, ask(k, id) PROVE IInv'
    BY <2>2, AskKeeps
  <2>3. CASE Poll
    <3>1. CASE socket_req_open \/ socket_req_listen \/ socket_req_bind \/ socket_req_udp
      BY <2>0, <3>1, CreatingKeeps
    <3>2. CASE socket_new_failed \/ socket_req_failed
      BY <2>0, <3>2, NewFailedKeeps, ReqFailedKeeps
    <3>3. CASE socket_req_start \/ socket_req_close \/ socket_req_send
      BY <2>0, <3>3, StartKeeps, CloseKeeps, SendReqKeeps
    <3>4. ASSUME NEW s \in Slot,
                 \/ event_ignored(s) \/ socket_try_open(s) \/ socket_try_accept(s)
                 \/ udp_packet(s) \/ read_event(s) \/ write_event(s)
          PROVE  IInv'
      BY <2>0, <3>4, IgnoredKeeps, TryOpenKeeps, TryAcceptKeeps, PacketKeeps, ReadKeeps, WriteKeeps
    <3>5. CASE clear_closed \/ no_ctrl \/ event_wait
      BY <3>5, ClearKeeps, NoCtrlKeeps, WaitKeeps
    <3> QED BY <2>3, <3>1, <3>2, <3>3, <3>4, <3>5 DEF Poll
  <2> QED BY <1>2, <2>1, <2>2, <2>3 DEF Next
<1> QED BY <1>1, <1>2

\* The inductive invariant holds in every reachable state.
THEOREM Invariance == Spec => []IInv
  BY InitIInv, NextIInv, PTL DEF Spec

\* A slot is reserved exactly while one caller or one request is going to
\* set it up, and the request carries the id that is stored in the slot.
LEMMA ReserveExact == IInv => ReservedOnce
<1> SUFFICES ASSUME IInv, failed # "wiped", NEW s \in Slot
             PROVE  /\ Cardinality(Reservers(s)) + Cardinality(Requests(s)) =
                            IF Reserve(s) THEN 1 ELSE 0
                    /\ \A i \in Requests(s) : slot[s].id = pipe[i].id
  BY DEF ReservedOnce
<1>1. \A c : c \in Reservers(s) <=> c \in Client /\ Storing(c) /\ HASH_ID(cl[c].id) = s
  BY DEF Reservers, Storing
<1>2. \A i : i \in Requests(s) <=> i \in 1 .. Len(pipe) /\ Due(i) /\ HASH_ID(pipe[i].id) = s
  BY DEF Requests, Due, New
<1>3. /\ \A i \in 1 .. Len(pipe) : Due(i) =>
            /\ Reserve(HASH_ID(pipe[i].id)) /\ slot[HASH_ID(pipe[i].id)].id = pipe[i].id
            /\ \A c \in Client : Storing(c) => HASH_ID(cl[c].id) # HASH_ID(pipe[i].id)
      /\ \A c \in Client : Storing(c) =>
            /\ Reserve(HASH_ID(cl[c].id))
            /\ \A d \in Client : Storing(d) /\ d # c => HASH_ID(cl[d].id) # HASH_ID(cl[c].id)
      /\ Reserve(s) =>
            \/ \E c \in Client : Storing(c) /\ HASH_ID(cl[c].id) = s
            \/ \E i \in 1 .. Len(pipe) : Due(i) /\ HASH_ID(pipe[i].id) = s
  BY DEF IInv, ReserveInv
<1>4. \A i \in Requests(s) : slot[s].id = pipe[i].id
  BY <1>2, <1>3
<1>5. Cardinality({}) = 0
  BY FS_EmptySet
<1>6. CASE ~Reserve(s)
  <2>1. Reservers(s) = {} /\ Requests(s) = {}
    BY <1>1, <1>2, <1>3, <1>6
  <2> QED BY <2>1, <1>4, <1>5, <1>6
<1>7. CASE \E c \in Client : Storing(c) /\ HASH_ID(cl[c].id) = s
  <2>1. PICK c \in Client : Storing(c) /\ HASH_ID(cl[c].id) = s
    BY <1>7
  <2>2. Reservers(s) = {c} /\ Requests(s) = {} /\ Reserve(s)
    BY <2>1, <1>1, <1>2, <1>3
  <2>3. Cardinality({c}) = 1
    BY FS_Singleton
  <2> QED BY <2>2, <2>3, <1>4, <1>5
<1>8. CASE \E i \in 1 .. Len(pipe) : Due(i) /\ HASH_ID(pipe[i].id) = s
  <2>1. PICK i \in 1 .. Len(pipe) : Due(i) /\ HASH_ID(pipe[i].id) = s
    BY <1>8
  <2>2. Reservers(s) = {} /\ Reserve(s)
    BY <2>1, <1>1, <1>3
  <2>3. ASSUME NEW j \in Requests(s) PROVE j = i
    <3>1. j \in 1 .. Len(pipe) /\ Due(j) /\ HASH_ID(pipe[j].id) = s
      BY <1>2
    <3>2. pipe[j].id = pipe[i].id
      BY <2>1, <3>1, <1>3
    <3> QED BY <2>1, <3>1, <3>2 DEF IInv, IdInv, Due
  <2>4. Requests(s) = {i}
    BY <2>1, <2>3, <1>2
  <2>5. Cardinality({i}) = 1
    BY FS_Singleton
  <2> QED BY <2>2, <2>4, <2>5, <1>4, <1>5
<1> QED BY <1>3, <1>6, <1>7, <1>8

\* From the compare-and-swap of socket_next_id in any thread to socket_new in
\* the socket thread a slot belongs to one socket, for any number of slots,
\* threads and requests.
THEOREM ReservedForOne == Spec => []ReservedOnce
<1>1. IInv => ReservedOnce
  BY ReserveExact
<1> QED BY <1>1, Invariance, PTL

\* The poller watches the live and started sockets and no other slot.
THEOREM PollerExact == Spec => []WatchedExact
<1>1. IInv => WatchedExact
  BY DEF IInv
<1> QED BY <1>1, Invariance, PTL

\* What a step does to the lent descriptors: the server closes one only with
\* the socket it belongs to.
Takes ==
    \/ taken' = taken
    \/ \E k \in Slot : /\ Live(k) /\ slot[k].lent /\ slot[k].type # "bind"
                       /\ taken' = taken \cup {[id |-> slot[k].id, as |-> slot[k].type]}

LEMMA ForceCloseTakes ==
    ASSUME NEW k \in Slot, Live(k), socket_force_close(k)
    PROVE  Takes
  BY DEF Takes, socket_force_close, close_fd

LEMMA NextTakes ==
    ASSUME IInv, Next
    PROVE  Takes
<1>0. pipe # <<>> => HASH_ID(Head(pipe).id) \in Slot
  <2>1. pipe # <<>> => Head(pipe) \in ReqRec
    BY HeadTailProperties DEF IInv, ThreadInv
  <2> QED BY <2>1, HashType DEF ReqRec
<1>1. ASSUME NEW c \in Client, Call(c) PROVE Takes
  BY <1>1 DEF Call, next_id_inc, next_id_reserve, send_req, Takes
<1>2. ASSUME NEW id \in known, NEW k \in {"start", "close", "send"}, ask(k, id) PROVE Takes
  BY <1>2 DEF ask, Takes
<1>3. CASE Poll
  <2>1. CASE \/ socket_req_open \/ socket_req_listen \/ socket_req_bind \/ socket_req_udp
             \/ socket_new_failed \/ socket_req_failed \/ socket_req_start
    BY <2>1 DEF socket_req_open, socket_req_listen, socket_req_bind, socket_req_udp,
       socket_new_failed, socket_req_failed, socket_req_start, Takes
  <2>2. CASE socket_req_close
    <3>1. CASE taken' = taken
      BY <3>1 DEF Takes
    <3>2. CASE Live(HASH_ID(Head(pipe).id)) /\ socket_force_close(HASH_ID(Head(pipe).id))
      BY <2>2, <3>2, <1>0, ForceCloseTakes DEF socket_req_close, Request
    <3> QED BY <2>2, <3>1, <3>2 DEF socket_req_close, assertion_fails
  <2>3. CASE socket_req_send
    <3>1. CASE taken' = taken
      BY <3>1 DEF Takes
    <3>2. CASE /\ slot[HASH_ID(Head(pipe).id)].type = "opened"
               /\ socket_force_close(HASH_ID(Head(pipe).id))
      BY <2>3, <3>2, <1>0, ForceCloseTakes DEF socket_req_send, Request, Live, Invalid, Reserve
    <3> QED BY <2>3, <3>1, <3>2 DEF socket_req_send
  <2>4. ASSUME NEW s \in Slot,
               \/ event_ignored(s) \/ socket_try_open(s) \/ socket_try_accept(s)
               \/ udp_packet(s) \/ read_event(s) \/ write_event(s)
        PROVE  Takes
    <3>1. CASE taken' = taken
      BY <3>1 DEF Takes
    <3>2. CASE socket_force_close(s) /\ Live(s)
      BY <3>2, ForceCloseTakes
    <3>3. CASE event_ignored(s) \/ socket_try_accept(s) \/ udp_packet(s)
      BY <3>1, <3>3 DEF event_ignored, socket_try_accept, udp_packet
    <3>4. CASE socket_try_open(s)
      BY <3>1, <3>2, <3>4 DEF socket_try_open, Live, Invalid, Reserve
    <3>5. CASE read_event(s)
      BY <3>1, <3>2, <3>5 DEF read_event, Other, Live, Invalid, Reserve
    <3>6. CASE write_event(s)
      <4>1. slot[s].type # "invalid"
        BY <3>6 DEF write_event, Other
      <4>2. \/ taken' = taken
            \/ socket_force_close(s) /\ (~Reserve(s) \/ ~slot[s].buf)
                /\ (slot[s].buf \/ slot[s].type = "halfclose")
        BY <3>6, Zenon DEF write_event
      <4> QED BY <3>1, <3>2, <4>1, <4>2 DEF Live, Invalid, Reserve
    <3> QED BY <2>4, <3>3, <3>4, <3>5, <3>6
  <2>5. CASE clear_closed \/ no_ctrl \/ event_wait
    BY <2>5 DEF clear_closed, no_ctrl, event_wait, Takes
  <2> QED BY <1>3, <2>1, <2>2, <2>3, <2>4, <2>5 DEF Poll
<1> QED BY <1>1, <1>2, <1>3 DEF Next

\* No descriptor is lost or closed twice, but for those socket_req_start leaks,
\* and one that was lent is closed only if its socket was half-closed.
THEOREM DescriptorsExact == Spec => []FdsExact
<1> DEFINE HalfClosed == \A d \in taken : d.as = "halfclose"
<1>1. IInv /\ HalfClosed => FdsExact
  BY DEF IInv, FdInv, FdsExact, Owned, Coming
<1>2. Init => HalfClosed
  BY DEF Init
<1>3. IInv /\ HalfClosed /\ [Next]_vars => HalfClosed'
  <2> SUFFICES ASSUME IInv, HalfClosed, [Next]_vars PROVE HalfClosed'
    OBVIOUS
  <2>1. Takes
    BY NextTakes DEF vars, Takes
  <2>2. ASSUME NEW k \in Slot, slot[k].lent, slot[k].type # "bind"
        PROVE  slot[k].type = "halfclose"
    BY <2>2 DEF IInv, SlotInv
  <2> QED BY <2>1, <2>2 DEF Takes
<1> QED BY <1>1, <1>2, <1>3, Invariance, PTL DEF Spec

\* No event is taken for one of a later socket in the same slot, unless a
\* thread reserved the slot before clear_closed ran.
THEOREM EventsStayFresh == Spec => []EventsFresh
<1>1. IInv => EventsFresh
  BY DEF IInv, EventInv, EventsFresh
<1> QED BY <1>1, Invariance, PTL

=============================================================================
