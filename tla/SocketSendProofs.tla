-------------------------- MODULE SocketSendProofs --------------------------
(***************************************************************************)
(* Proofs about how a socket sends, for messages of any size and any       *)
(* number of them: messages are whole and never mixed on the wire, wb_size *)
(* is what the lists hold, whoever has data waiting waits for a write      *)
(* event, and no message is lost, repeated or overtaken by one of its own  *)
(* priority.                                                               *)
(***************************************************************************)
EXTENDS SocketSend, SequenceTheorems, FiniteSetTheorems, TLAPS

(***************************************************************************)
(* A sequence of whole messages: the units of one message are together and *)
(* are SIZE many.                                                          *)
(***************************************************************************)
Block(s, i, a) ==
    /\ a <= i /\ i < a + SIZE /\ a + SIZE - 1 <= Len(s)
    /\ \A j \in 1 .. Len(s) : (s[j] = s[i]) <=> (a <= j /\ j < a + SIZE)

Whole(s) == \A i \in 1 .. Len(s) : \E a \in 1 .. Len(s) : Block(s, i, a)

\* No message crosses from the first p units to the rest.
Cut(s, p) == \A i \in 1 .. Len(s), j \in 1 .. Len(s) : i <= p /\ p < j => s[i] # s[j]

\* What was sent and what waits, in the order in which it is going to be
\* sent if nothing is added.
Stream == (wire \o high) \o low

(***************************************************************************)
(* The inductive invariant.  While the socket lives the stream consists of *)
(* whole messages, and low begins with one - or it begins with the rest of *)
(* one, and the assertion in socket_send_buffer lets nothing more be sent. *)
(***************************************************************************)
Types ==
    /\ type \in {"opening", "opened", "bind", "halfclose", "invalid"}
    /\ high \in Seq(Nat) /\ low \in Seq(Nat) /\ wire \in Seq(Nat)
    /\ wb_size \in Int /\ prio \in Seq({"high", "low"})

\* Units are of messages that were sent to the socket.
Numbered == \A i \in 1 .. Len(Stream) : Stream[i] <= Len(prio)

Order ==
    type # "invalid" =>
        \/ Whole(Stream) /\ Cut(Stream, Len(wire) + Len(high))
        \/ low # <<>> /\ First(low) # SIZE

Armed == WriteArmed /\ (type = "opening" => out) /\ (type = "bind" => bound)

\* socket_force_close leaves nothing behind.
Gone == type = "invalid" => high = <<>> /\ low = <<>>

IInv == Types /\ Numbered /\ Order /\ Armed /\ Gone /\ WbExact /\ WholeMessages

-----------------------------------------------------------------------------
(* Sequences of whole messages *)

\* What a prefix of whole messages looks like.
LEMMA WholePrefix ==
    ASSUME NEW s \in Seq(Nat), Whole(s), NEW w \in Seq(Nat), Len(w) <= Len(s),
           \A i \in 1 .. Len(w) : w[i] = s[i]
    PROVE  \A i \in 1 .. Len(w) - 1 : w[i] # w[i + 1] =>
              /\ Cardinality({j \in 1 .. i : w[j] = w[i]}) = SIZE
              /\ \A j \in i + 1 .. Len(w) : w[j] # w[i]
<1> SUFFICES ASSUME NEW i \in 1 .. Len(w) - 1, w[i] # w[i + 1]
             PROVE  /\ Cardinality({j \in 1 .. i : w[j] = w[i]}) = SIZE
                    /\ \A j \in i + 1 .. Len(w) : w[j] # w[i]
  OBVIOUS
<1>t. Len(s) \in Nat /\ Len(w) \in Nat /\ SIZE \in Nat /\ SIZE > 1
  BY LenProperties, SendAssumption
<1>i. i \in 1 .. Len(w) /\ i + 1 \in 1 .. Len(w) /\ i \in 1 .. Len(s) /\ i + 1 \in 1 .. Len(s)
  BY <1>t
<1>1. PICK a \in 1 .. Len(s) : Block(s, i, a)
  BY <1>i DEF Whole
<1>2. /\ a <= i /\ i < a + SIZE
      /\ \A j \in 1 .. Len(s) : (s[j] = s[i]) <=> (a <= j /\ j < a + SIZE)
  BY <1>1 DEF Block
<1>3. ~(a <= i + 1 /\ i + 1 < a + SIZE)
  BY <1>2, <1>i
<1>4. i = a + SIZE - 1
  BY <1>2, <1>3, <1>t
<1>5. \A j \in 1 .. Len(w) : (w[j] = w[i]) <=> (a <= j /\ j < a + SIZE)
  BY <1>2, <1>i, <1>t, SMTT(30)
<1>6. {j \in 1 .. i : w[j] = w[i]} = a .. i
  <2>1. ASSUME NEW j \in 1 .. i PROVE (w[j] = w[i]) <=> j \in a .. i
    <3>1. j \in 1 .. Len(w) /\ j < a + SIZE
      BY <1>4, <1>t
    <3>2. j \in a .. i <=> a <= j
      BY <1>4, <1>t
    <3> QED BY <3>1, <3>2, <1>5
  <2>2. a .. i \subseteq 1 .. i
    BY <1>t
  <2> QED BY <2>1, <2>2
<1>7. Cardinality(a .. i) = SIZE
  <2>1. Cardinality(a .. i) = IF a > i THEN 0 ELSE i - a + 1
    BY FS_Interval
  <2> QED BY <2>1, <1>2, <1>4, <1>t
<1>8. ASSUME NEW j \in i + 1 .. Len(w) PROVE w[j] # w[i]
  <2>0. PICK e \in Nat : e = Len(w)
    BY <1>t
  <2>1. j \in Int /\ i + 1 <= j /\ j <= e /\ i \in Int /\ 1 <= i
    BY <2>0
  <2>2. j \in 1 .. e
    BY <2>1
  <2>3. ~(j < a + SIZE)
    BY <2>1, <1>4, <1>t
  <2> QED BY <2>0, <2>2, <2>3, <1>5
<1> QED BY <1>6, <1>7, <1>8

\* t is s with message v put in after the first p units.
Insert(s, t, p, v) ==
    /\ Len(t) = Len(s) + SIZE
    /\ \A i \in 1 .. Len(t) :
          t[i] = IF i <= p THEN s[i] ELSE IF i <= p + SIZE THEN v ELSE s[i - SIZE]

\* A new message goes in where no message is split.
LEMMA InsertWhole ==
    ASSUME NEW s \in Seq(Nat), NEW t \in Seq(Nat), NEW p \in 0 .. Len(s), NEW v \in Nat,
           Whole(s), Cut(s, p), \A i \in 1 .. Len(s) : s[i] # v, Insert(s, t, p, v)
    PROVE  /\ Whole(t) /\ Cut(t, p + SIZE)
           /\ \A q \in 0 .. p : Cut(s, q) => Cut(t, q)
<1>t. /\ Len(s) \in Nat /\ Len(t) \in Nat /\ SIZE \in Nat /\ SIZE > 1
      /\ Len(t) = Len(s) + SIZE
  BY LenProperties, SendAssumption DEF Insert
<1>a. \A i \in 1 .. Len(t) : i <= p => i \in 1 .. Len(s) /\ t[i] = s[i]
  BY <1>t DEF Insert
<1>b. \A i \in 1 .. Len(t) : p < i /\ i <= p + SIZE => t[i] = v
  BY <1>t DEF Insert
<1>c. \A i \in 1 .. Len(t) : p + SIZE < i =>
          i - SIZE \in 1 .. Len(s) /\ t[i] = s[i - SIZE] /\ p < i - SIZE
  BY <1>t DEF Insert
<1>1. ASSUME NEW i \in 1 .. Len(t), i <= p
      PROVE  \E a \in 1 .. Len(t) : Block(t, i, a)
  <2>1. PICK a \in 1 .. Len(s) : Block(s, i, a)
    BY <1>1, <1>a DEF Whole
  <2>2. /\ a <= i /\ i < a + SIZE /\ a + SIZE - 1 <= Len(s)
        /\ \A j \in 1 .. Len(s) : (s[j] = s[i]) <=> (a <= j /\ j < a + SIZE)
    BY <2>1 DEF Block
  <2>3. a + SIZE - 1 <= p
    <3> SUFFICES ASSUME p < a + SIZE - 1 PROVE FALSE
      BY <1>t
    <3>1. p + 1 \in 1 .. Len(s) /\ a <= p + 1 /\ p + 1 < a + SIZE
      <4>0. PICK e \in Nat : e = Len(s)
        BY <1>t
      <4>1. a \in Nat /\ p \in Nat /\ i \in Nat /\ i <= p /\ a <= i /\ a + SIZE - 1 <= e
        BY <4>0, <2>2, <1>1, <1>t
      <4>2. p + 1 \in 1 .. e /\ a <= p + 1 /\ p + 1 < a + SIZE
        BY <4>1, <1>t, SMTT(30)
      <4> QED BY <4>0, <4>2
    <3>2. s[p + 1] = s[i]
      BY <3>1, <2>2
    <3>3. s[i] # s[p + 1]
      BY <3>1, <1>1, <1>a, <1>t DEF Cut
    <3> QED BY <3>2, <3>3
  <2>4. ASSUME NEW j \in 1 .. Len(t)
        PROVE  (t[j] = t[i]) <=> (a <= j /\ j < a + SIZE)
    <3>1. CASE j <= p
      BY <3>1, <1>1, <1>a, <2>2
    <3>2. CASE p < j /\ j <= p + SIZE
      <4>1. t[j] = v /\ t[i] # v
        BY <3>2, <1>1, <1>a, <1>b
      <4>2. ~(j < a + SIZE)
        BY <3>2, <2>3, <1>t
      <4> QED BY <4>1, <4>2
    <3>3. CASE p + SIZE < j
      <4>1. PICK x \in 1 .. Len(s) : x = j - SIZE /\ t[j] = s[x] /\ p < x
        BY <3>3, <1>c
      <4>2. t[i] # t[j]
        BY <4>1, <1>1, <1>a DEF Cut
      <4>3. ~(j < a + SIZE)
        BY <3>3, <2>3, <1>t
      <4> QED BY <4>2, <4>3
    <3> QED BY <3>1, <3>2, <3>3, <1>t
  <2>5. a \in 1 .. Len(t) /\ a + SIZE - 1 <= Len(t)
    BY <2>2, <1>t, SMTT(30)
  <2> QED BY <2>2, <2>4, <2>5 DEF Block
<1>2. ASSUME NEW i \in 1 .. Len(t), p < i, i <= p + SIZE
      PROVE  \E a \in 1 .. Len(t) : Block(t, i, a)
  <2>1. p + 1 \in 1 .. Len(t) /\ p + 1 <= i /\ i < p + 1 + SIZE /\ p + 1 + SIZE - 1 <= Len(t)
    BY <1>2, <1>t
  <2>2. ASSUME NEW j \in 1 .. Len(t)
        PROVE  (t[j] = t[i]) <=> (p + 1 <= j /\ j < p + 1 + SIZE)
    <3>1. CASE j <= p
      <4>1. t[j] # v /\ t[i] = v
        BY <3>1, <1>2, <1>a, <1>b
      <4>2. ~(p + 1 <= j)
        BY <3>1
      <4> QED BY <4>1, <4>2
    <3>2. CASE p < j /\ j <= p + SIZE
      BY <3>2, <1>2, <1>b, <1>t
    <3>3. CASE p + SIZE < j
      <4>1. t[j] # v /\ t[i] = v
        BY <3>3, <1>2, <1>b, <1>c
      <4>2. ~(j < p + 1 + SIZE)
        BY <3>3, <1>t
      <4> QED BY <4>1, <4>2
    <3> QED BY <3>1, <3>2, <3>3, <1>t
  <2> QED BY <2>1, <2>2 DEF Block
<1>3. ASSUME NEW i \in 1 .. Len(t), p + SIZE < i
      PROVE  \E a \in 1 .. Len(t) : Block(t, i, a)
  <2>0. PICK m \in 1 .. Len(s) : m = i - SIZE /\ t[i] = s[m] /\ p < m
    BY <1>3, <1>c
  <2>1. PICK b \in 1 .. Len(s) : Block(s, m, b)
    BY DEF Whole
  <2>2. /\ b <= m /\ m < b + SIZE /\ b + SIZE - 1 <= Len(s)
        /\ \A j \in 1 .. Len(s) : (s[j] = s[m]) <=> (b <= j /\ j < b + SIZE)
    BY <2>1 DEF Block
  <2>3. p < b
    <3> SUFFICES ASSUME b <= p PROVE FALSE
      BY <1>t
    <3>1. s[b] = s[m]
      BY <2>2, <1>t
    <3>2. s[b] # s[m]
      BY <2>0 DEF Cut
    <3> QED BY <3>1, <3>2
  <2>4. ASSUME NEW j \in 1 .. Len(t)
        PROVE  (t[j] = t[i]) <=> (b + SIZE <= j /\ j < b + SIZE + SIZE)
    <3>1. CASE j <= p
      <4>1. s[j] # s[m]
        BY <3>1, <2>0, <1>a DEF Cut
      <4>2. t[j] = s[j] /\ ~(b + SIZE <= j)
        BY <3>1, <2>3, <1>a, <1>t
      <4> QED BY <4>1, <4>2, <2>0
    <3>2. CASE p < j /\ j <= p + SIZE
      <4>1. t[j] = v /\ t[i] # v
        BY <3>2, <2>0, <1>b
      <4>2. ~(b + SIZE <= j)
        BY <3>2, <2>3, <1>t
      <4> QED BY <4>1, <4>2
    <3>3. CASE p + SIZE < j
      <4>1. PICK x \in 1 .. Len(s) : x = j - SIZE /\ t[j] = s[x]
        BY <3>3, <1>c
      <4>2. (s[x] = s[m]) <=> (b <= x /\ x < b + SIZE)
        BY <2>2
      <4> QED BY <4>1, <4>2, <2>0, <1>t
    <3> QED BY <3>1, <3>2, <3>3, <1>t
  <2>5. /\ b + SIZE \in 1 .. Len(t) /\ b + SIZE <= i /\ i < b + SIZE + SIZE
        /\ b + SIZE + SIZE - 1 <= Len(t)
    BY <2>0, <2>2, <1>t
  <2> QED BY <2>4, <2>5 DEF Block
<1>4. Whole(t)
  BY <1>1, <1>2, <1>3, <1>t, SMTT(30) DEF Whole
<1>5. Cut(t, p + SIZE)
  <2> SUFFICES ASSUME NEW i \in 1 .. Len(t), NEW j \in 1 .. Len(t), i <= p + SIZE, p + SIZE < j
               PROVE  t[i] # t[j]
    BY DEF Cut
  <2>1. CASE i <= p
    BY <2>1, <1>a, <1>c DEF Cut
  <2>2. CASE p < i
    BY <2>2, <1>b, <1>c, SMTT(30)
  <2> QED BY <2>1, <2>2, <1>t
<1>6. ASSUME NEW q \in 0 .. p, Cut(s, q) PROVE Cut(t, q)
  <2> SUFFICES ASSUME NEW i \in 1 .. Len(t), NEW j \in 1 .. Len(t), i <= q, q < j
               PROVE  t[i] # t[j]
    BY DEF Cut
  <2>0. i \in 1 .. Len(s) /\ t[i] = s[i] /\ i <= p
    BY <1>a, <1>t
  <2>1. CASE j <= p
    BY <2>0, <2>1, <1>6, <1>a DEF Cut
  <2>2. CASE p < j /\ j <= p + SIZE
    BY <2>0, <2>2, <1>b
  <2>3. CASE p + SIZE < j
    BY <2>0, <2>3, <1>c DEF Cut
  <2> QED BY <2>1, <2>2, <2>3, <1>t
<1> QED BY <1>4, <1>5, <1>6

\* The rest l of a sequence of whole messages: its first message, as much as
\* is left of it, ends where no message is split, and so does what comes
\* before if that message is all there.
LEMMA FirstOfRest ==
    ASSUME NEW s \in Seq(Nat), Whole(s), NEW q \in 0 .. Len(s), q < Len(s),
           NEW l \in Seq(Nat), Len(l) = Len(s) - q, \A i \in 1 .. Len(l) : l[i] = s[q + i]
    PROVE  /\ First(l) \in 1 .. Len(l) /\ Cut(s, q + First(l))
           /\ First(l) = SIZE => Cut(s, q)
<1>t. Len(s) \in Nat /\ Len(l) \in Nat /\ SIZE \in Nat /\ SIZE > 1
  BY LenProperties, SendAssumption
<1>m. PICK m \in 1 .. Len(s) : m = q + 1
  BY <1>t
<1>1. PICK a \in 1 .. Len(s) : Block(s, m, a)
  BY DEF Whole
<1>2. /\ a <= m /\ m < a + SIZE /\ a + SIZE - 1 <= Len(s)
      /\ \A j \in 1 .. Len(s) : (s[j] = s[m]) <=> (a <= j /\ j < a + SIZE)
  BY <1>1 DEF Block
<1>n. PICK n \in 1 .. Len(l) : n = a + SIZE - 1 - q
  BY <1>m, <1>2, <1>t
<1>3. {i \in 1 .. Len(l) : l[i] = l[1]} = 1 .. n
  <2>1. l[1] = s[m] /\ 1 \in 1 .. Len(l)
    BY <1>m, <1>t
  <2>2. ASSUME NEW i \in 1 .. Len(l) PROVE (l[i] = l[1]) <=> i <= n
    <3>1. PICK j \in 1 .. Len(s) : j = q + i /\ l[i] = s[j]
      BY <1>t
    <3>2. (s[j] = s[m]) <=> (a <= j /\ j < a + SIZE)
      BY <1>2
    <3> QED BY <3>1, <3>2, <2>1, <1>m, <1>n, <1>2, <1>t, SMTT(30)
  <2>3. 1 .. n \subseteq 1 .. Len(l) /\ \A i \in 1 .. Len(l) : (i <= n) <=> i \in 1 .. n
    BY <1>t
  <2> QED BY <2>2, <2>3
<1>4. First(l) = n
  <2>1. Cardinality(1 .. n) = n
    BY <1>n, FS_Interval
  <2> QED BY <2>1, <1>3 DEF First
<1>5. Cut(s, q + n)
  <2> SUFFICES ASSUME NEW i \in 1 .. Len(s), NEW j \in 1 .. Len(s), i <= q + n, q + n < j,
                      s[i] = s[j]
               PROVE  FALSE
    BY DEF Cut
  <2>0. i < a + SIZE /\ a + SIZE <= j
    BY <1>n, <1>t
  <2>1. PICK b \in 1 .. Len(s) : Block(s, i, b)
    BY DEF Whole
  <2>2. b <= i /\ j < b + SIZE /\ s[b] = s[i]
    BY <2>1, <1>t DEF Block
  <2>3. a <= b /\ b < a + SIZE
    BY <2>0, <2>2, <1>t
  <2>4. s[j] = s[m]
    BY <2>2, <2>3, <1>2
  <2>5. j < a + SIZE
    BY <2>4, <1>2
  <2> QED BY <2>0, <2>5, <1>t
<1>6. ASSUME n = SIZE PROVE Cut(s, q)
  <2> SUFFICES ASSUME NEW i \in 1 .. Len(s), NEW j \in 1 .. Len(s), i <= q, q < j, s[i] = s[j]
               PROVE  FALSE
    BY DEF Cut
  <2>0. a = m /\ i < m /\ m <= j
    BY <1>6, <1>n, <1>m, <1>t
  <2>n. i \in Int /\ j \in Int /\ m \in Int
    BY <1>t
  <2>1. PICK b \in 1 .. Len(s) : Block(s, i, b)
    BY DEF Whole
  <2>2. /\ b <= i /\ j < b + SIZE
        /\ \A x \in 1 .. Len(s) : (s[x] = s[i]) <=> (b <= x /\ x < b + SIZE)
    BY <2>1 DEF Block
  <2>b. b \in Int /\ b <= i /\ j < b + SIZE /\ SIZE \in Int
    BY <2>2, <1>t
  <2>x. b <= m /\ m < b + SIZE
    BY ONLY <2>0, <2>b, <2>n
  <2>3. s[m] = s[i]
    BY <2>2, <2>x
  <2>4. a <= i
    BY <2>3, <1>2
  <2> QED BY <2>0, <2>4, <1>t
<1> QED BY <1>4, <1>5, <1>6

\* The units of one message.
LEMMA FirstSame ==
    ASSUME NEW l \in Seq(Nat), NEW v, l # <<>>, \A i \in 1 .. Len(l) : l[i] = v
    PROVE  First(l) = Len(l)
<1>1. Len(l) \in Nat /\ 1 \in 1 .. Len(l)
  BY LenProperties, EmptySeq
<1>2. {i \in 1 .. Len(l) : l[i] = l[1]} = 1 .. Len(l)
  BY <1>1
<1>3. Cardinality(1 .. Len(l)) = Len(l)
  BY <1>1, FS_Interval
<1> QED BY <1>2, <1>3 DEF First

\* The first buffer is the same after another one was added.
LEMMA FirstAppend ==
    ASSUME NEW l \in Seq(Nat), NEW m \in Seq(Nat), NEW v, l # <<>>, Len(l) <= Len(m),
           \A i \in 1 .. Len(l) : l[i] # v /\ m[i] = l[i],
           \A i \in 1 .. Len(m) : i > Len(l) => m[i] = v
    PROVE  First(m) = First(l) /\ m # <<>>
<1>1. Len(l) \in Nat /\ Len(m) \in Nat /\ 1 \in 1 .. Len(l)
  BY LenProperties, EmptySeq
<1>2. {i \in 1 .. Len(m) : m[i] = m[1]} = {i \in 1 .. Len(l) : l[i] = l[1]}
  BY <1>1
<1>3. m # <<>>
  BY <1>1, EmptySeq
<1> QED BY <1>2, <1>3 DEF First

-----------------------------------------------------------------------------
(* The stream and its three parts *)

Parts(w, h, l, t) ==
    /\ Len(w) + Len(h) + Len(l) = Len(t)
    /\ \A i \in 1 .. Len(w) : w[i] = t[i]
    /\ \A i \in 1 .. Len(h) : h[i] = t[Len(w) + i]
    /\ \A i \in 1 .. Len(l) : l[i] = t[Len(w) + Len(h) + i]

LEMMA Concat ==
    ASSUME NEW s \in Seq(Nat), NEW t \in Seq(Nat)
    PROVE  /\ s \o t \in Seq(Nat) /\ Len(s \o t) = Len(s) + Len(t)
           /\ \A i \in 1 .. Len(s) : (s \o t)[i] = s[i]
           /\ \A i \in 1 .. Len(t) : (s \o t)[Len(s) + i] = t[i]
<1>1. Len(s) \in Nat /\ Len(t) \in Nat
  BY LenProperties
<1>2. /\ s \o t \in Seq(Nat) /\ Len(s \o t) = Len(s) + Len(t)
      /\ \A i \in 1 .. Len(s) + Len(t) : (s \o t)[i] = IF i <= Len(s) THEN s[i] ELSE t[i - Len(s)]
  BY ConcatProperties
<1>3. \A i \in 1 .. Len(s) : i \in 1 .. Len(s) + Len(t) /\ i <= Len(s)
  BY <1>1
<1>4. ASSUME NEW i \in 1 .. Len(t) PROVE (s \o t)[Len(s) + i] = t[i]
  <2>1. /\ Len(s) + i \in 1 .. Len(s) + Len(t) /\ ~(Len(s) + i <= Len(s))
        /\ Len(s) + i - Len(s) = i
    BY <1>1
  <2> QED BY <2>1, <1>2
<1> QED BY <1>2, <1>3, <1>4

LEMMA Join ==
    ASSUME NEW w \in Seq(Nat), NEW h \in Seq(Nat), NEW l \in Seq(Nat)
    PROVE  /\ (w \o h) \o l \in Seq(Nat) /\ Parts(w, h, l, (w \o h) \o l)
           /\ Len(w) \in Nat /\ Len(h) \in Nat /\ Len(l) \in Nat
<1>1. Len(w) \in Nat /\ Len(h) \in Nat /\ Len(l) \in Nat
  BY LenProperties
<1>2. PICK x \in Seq(Nat) : x = w \o h
  BY Concat
<1>3. /\ Len(x) = Len(w) + Len(h)
      /\ \A i \in 1 .. Len(w) : x[i] = w[i]
      /\ \A i \in 1 .. Len(h) : x[Len(w) + i] = h[i]
  BY <1>2, Concat
<1>4. PICK t \in Seq(Nat) : t = x \o l
  BY Concat
<1>5. /\ Len(t) = Len(x) + Len(l)
      /\ \A i \in 1 .. Len(x) : t[i] = x[i]
      /\ \A i \in 1 .. Len(l) : t[Len(x) + i] = l[i]
  BY <1>4, Concat
<1>6. ASSUME NEW i \in 1 .. Len(w) PROVE w[i] = t[i]
  <2>1. i \in 1 .. Len(x)
    BY <1>1, <1>3
  <2> QED BY <2>1, <1>3, <1>5
<1>7. ASSUME NEW i \in 1 .. Len(h) PROVE h[i] = t[Len(w) + i]
  <2>1. Len(w) + i \in 1 .. Len(x)
    BY <1>1, <1>3, SMTT(30)
  <2> QED BY <2>1, <1>3, <1>5
<1>8. ASSUME NEW i \in 1 .. Len(l) PROVE l[i] = t[Len(w) + Len(h) + i]
  BY <1>3, <1>5
<1>9. Parts(w, h, l, t)
  BY <1>1, <1>3, <1>5, <1>6, <1>7, <1>8 DEF Parts
<1> QED BY <1>1, <1>2, <1>4, <1>9

LEMMA SameParts ==
    ASSUME NEW w \in Seq(Nat), NEW h \in Seq(Nat), NEW l \in Seq(Nat), NEW t \in Seq(Nat),
           Parts(w, h, l, t)
    PROVE  (w \o h) \o l = t
<1>1. PICK u \in Seq(Nat) : u = (w \o h) \o l /\ Parts(w, h, l, u)
  BY Join
<1>2. Len(w) \in Nat /\ Len(h) \in Nat /\ Len(l) \in Nat /\ Len(t) \in Nat
  BY LenProperties
<1>3. Len(u) = Len(t)
  BY <1>1 DEF Parts
<1>p. Len(w) + Len(h) + Len(l) = Len(t)
  BY DEF Parts
<1>4. ASSUME NEW i \in 1 .. Len(t) PROVE u[i] = t[i]
  <2>1. CASE i \in 1 .. Len(w)
    BY <2>1, <1>1 DEF Parts
  <2>2. CASE i - Len(w) \in 1 .. Len(h)
    <3>1. PICK j \in 1 .. Len(h) : j = i - Len(w)
      BY <2>2
    <3>2. i = Len(w) + j
      BY <3>1, <1>2
    <3> QED BY <3>2, <1>1 DEF Parts
  <2>3. CASE i - (Len(w) + Len(h)) \in 1 .. Len(l)
    <3>1. PICK j \in 1 .. Len(l) : j = i - (Len(w) + Len(h))
      BY <2>3
    <3>2. i = Len(w) + Len(h) + j
      BY <3>1, <1>2
    <3> QED BY <3>2, <1>1 DEF Parts
  <2>4. \/ i \in 1 .. Len(w)
        \/ i - Len(w) \in 1 .. Len(h)
        \/ i - (Len(w) + Len(h)) \in 1 .. Len(l)
    <3>1. i \in Nat /\ i >= 1 /\ i <= Len(w) + Len(h) + Len(l)
      BY <1>p, <1>2
    <3> QED BY <3>1, <1>2
  <2> QED BY <2>1, <2>2, <2>3, <2>4
<1>5. u = t
  BY <1>3, <1>4, SeqEqual
<1> QED BY <1>1, <1>5

LEMMA DropTake ==
    ASSUME NEW s \in Seq(Nat), NEW n \in 0 .. Len(s)
    PROVE  /\ Drop(s, n) \in Seq(Nat) /\ Len(Drop(s, n)) = Len(s) - n
           /\ \A i \in 1 .. Len(s) - n : Drop(s, n)[i] = s[n + i]
           /\ SubSeq(s, 1, n) \in Seq(Nat) /\ Len(SubSeq(s, 1, n)) = n
           /\ \A i \in 1 .. n : SubSeq(s, 1, n)[i] = s[i]
<1>1. Len(s) \in Nat /\ \A i \in 1 .. Len(s) : s[i] \in Nat
  BY LenProperties, ElementOfSeq
<1>2. \A i \in n + 1 .. Len(s) : s[i] \in Nat
  BY <1>1
<1>3. \A i \in 1 .. n : s[i] \in Nat
  BY <1>1
<1>4. /\ SubSeq(s, n + 1, Len(s)) \in Seq(Nat)
      /\ Len(SubSeq(s, n + 1, Len(s))) = IF n + 1 <= Len(s) THEN Len(s) - (n + 1) + 1 ELSE 0
      /\ \A i \in 1 .. Len(s) - (n + 1) + 1 : SubSeq(s, n + 1, Len(s))[i] = s[n + 1 + i - 1]
  <2>1. n + 1 \in Int /\ Len(s) \in Int
    BY <1>1
  <2> QED BY <2>1, <1>2, SubSeqProperties
<1>5. /\ SubSeq(s, 1, n) \in Seq(Nat) /\ Len(SubSeq(s, 1, n)) = IF 1 <= n THEN n - 1 + 1 ELSE 0
      /\ \A i \in 1 .. n - 1 + 1 : SubSeq(s, 1, n)[i] = s[1 + i - 1]
  BY <1>3, SubSeqProperties
<1>6. /\ Len(SubSeq(s, n + 1, Len(s))) = Len(s) - n
      /\ \A i \in 1 .. Len(s) - n : SubSeq(s, n + 1, Len(s))[i] = s[n + i]
  <2>1. \A i \in 1 .. Len(s) - n : i \in 1 .. Len(s) - (n + 1) + 1 /\ n + 1 + i - 1 = n + i
    BY <1>1
  <2> QED BY <2>1, <1>4, <1>1
<1>7. /\ Len(SubSeq(s, 1, n)) = n
      /\ \A i \in 1 .. n : SubSeq(s, 1, n)[i] = s[i]
  <2>1. \A i \in 1 .. n : i \in 1 .. n - 1 + 1 /\ 1 + i - 1 = i
    OBVIOUS
  <2> QED BY <2>1, <1>5, <1>1
<1> QED BY <1>4, <1>5, <1>6, <1>7 DEF Drop

\* Nothing is waiting.
LEMMA NoList ==
    ASSUME NEW s \in Seq(Nat)
    PROVE  s = <<>> <=> Len(s) = 0
  BY EmptySeq

\* The first n units of the low list move to the end of the high list.
LEMMA Shift ==
    ASSUME NEW w \in Seq(Nat), NEW h \in Seq(Nat), NEW l \in Seq(Nat), NEW t \in Seq(Nat),
           Parts(w, h, l, t), NEW n \in 0 .. Len(l)
    PROVE  /\ h \o SubSeq(l, 1, n) \in Seq(Nat) /\ Drop(l, n) \in Seq(Nat)
           /\ Len(h \o SubSeq(l, 1, n)) = Len(h) + n
           /\ Parts(w, h \o SubSeq(l, 1, n), Drop(l, n), t)
<1>1. Len(w) \in Nat /\ Len(h) \in Nat /\ Len(l) \in Nat /\ n \in Nat /\ n <= Len(l)
  BY LenProperties
<1>0. PICK a \in Nat, b \in Nat, c \in Nat : a = Len(w) /\ b = Len(h) /\ c = Len(l)
  BY <1>1
<1>c. n \in Nat /\ n <= c
  BY <1>0, <1>1
<1>2. PICK f \in Seq(Nat), r \in Seq(Nat) : f = SubSeq(l, 1, n) /\ r = Drop(l, n)
  BY DropTake
<1>n. Len(f) = n /\ Len(r) = c - n
  BY <1>0, <1>2, DropTake
<1>3. /\ \A i \in 1 .. n : f[i] = l[i]
      /\ \A i \in 1 .. c - n : r[i] = l[n + i]
  BY <1>0, <1>2, DropTake
<1>4. PICK g \in Seq(Nat) : g = h \o f
  BY Concat
<1>g. Len(g) = b + n
  <2>1. Len(g) = Len(h) + Len(f)
    BY <1>4, Concat
  <2> QED BY <2>1, <1>n, <1>0
<1>5. /\ \A i \in 1 .. b : g[i] = h[i]
      /\ \A i \in 1 .. n : g[b + i] = f[i]
  <2>1. \A i \in 1 .. Len(f) : g[Len(h) + i] = f[i]
    BY <1>4, Concat
  <2>2. \A i \in 1 .. Len(h) : g[i] = h[i]
    BY <1>4, Concat
  <2> QED BY <2>1, <2>2, <1>n, <1>0
<1>6. /\ a + b + c = Len(t)
      /\ \A i \in 1 .. a : w[i] = t[i]
      /\ \A i \in 1 .. b : h[i] = t[a + i]
      /\ \A i \in 1 .. c : l[i] = t[a + b + i]
  BY <1>0 DEF Parts
<1>7. ASSUME NEW i \in 1 .. b + n PROVE g[i] = t[a + i]
  <2>1. CASE i \in 1 .. b
    BY <2>1, <1>5, <1>6
  <2>2. CASE i - b \in 1 .. n
    <3>1. PICK j \in 1 .. n : j = i - b
      BY <2>2
    <3>2. j \in 1 .. c /\ i = b + j /\ a + i = a + b + j
      BY <3>1, <1>c
    <3>3. g[i] = l[j]
      BY <3>2, <1>5, <1>3
    <3> QED BY <3>3, <3>2, <1>6
  <2>3. i \in 1 .. b \/ i - b \in 1 .. n
    BY <1>c
  <2> QED BY <2>1, <2>2, <2>3
<1>8. ASSUME NEW i \in 1 .. c - n PROVE r[i] = t[a + (b + n) + i]
  <2>1. n + i \in 1 .. c /\ a + b + (n + i) = a + (b + n) + i
    BY <1>c
  <2>2. r[i] = l[n + i]
    BY <1>3
  <2>3. l[n + i] = t[a + b + (n + i)]
    BY <2>1, <1>6
  <2> QED BY <2>1, <2>2, <2>3
<1>9. a + (b + n) + (c - n) = a + b + c
  BY <1>c
<1>10. Parts(w, g, r, t)
  BY <1>0, <1>n, <1>g, <1>6, <1>7, <1>8, <1>9 DEF Parts
<1> QED BY <1>0, <1>2, <1>4, <1>g, <1>10

\* x is the first n units of t.
Prefix(x, t, n) == Len(x) = n /\ \A i \in 1 .. n : x[i] = t[i]

\* m is what follows the first n units of t.
Rest(m, t, n) == n + Len(m) = Len(t) /\ \A i \in 1 .. Len(m) : m[i] = t[n + i]

\* The kernel takes the first k units that wait.
LEMMA TakeWire ==
    ASSUME NEW w \in Seq(Nat), NEW h \in Seq(Nat), NEW l \in Seq(Nat), NEW t \in Seq(Nat),
           Parts(w, h, l, t), NEW k \in 0 .. Len(h) + Len(l)
    PROVE  /\ w \o SubSeq(h \o l, 1, k) \in Seq(Nat)
           /\ Prefix(w \o SubSeq(h \o l, 1, k), t, Len(w) + k)
<1>1. Len(w) \in Nat /\ Len(h) \in Nat /\ Len(l) \in Nat
  BY LenProperties
<1>0. PICK a \in Nat, b \in Nat, c \in Nat : a = Len(w) /\ b = Len(h) /\ c = Len(l)
  BY <1>1
<1>k. k \in 0 .. b + c
  BY <1>0
<1>2. /\ \A i \in 1 .. a : w[i] = t[i]
      /\ \A i \in 1 .. b : h[i] = t[a + i]
      /\ \A i \in 1 .. c : l[i] = t[a + b + i]
  BY <1>0 DEF Parts
<1>3. PICK q \in Seq(Nat) : q = h \o l
  BY Concat
<1>q. Len(q) = b + c
  BY <1>0, <1>3, Concat
<1>4. /\ \A i \in 1 .. b : q[i] = h[i]
      /\ \A i \in 1 .. c : q[b + i] = l[i]
  BY <1>0, <1>3, Concat
<1>5. ASSUME NEW i \in 1 .. b + c PROVE q[i] = t[a + i]
  <2>1. CASE i \in 1 .. b
    BY <2>1, <1>4, <1>2
  <2>2. CASE i - b \in 1 .. c
    <3>1. PICK j \in 1 .. c : j = i - b
      BY <2>2
    <3>2. i = b + j /\ a + i = a + b + j
      BY <3>1
    <3>3. q[i] = l[j]
      BY <3>2, <1>4
    <3> QED BY <3>3, <3>2, <1>2
  <2>3. i \in 1 .. b \/ i - b \in 1 .. c
    OBVIOUS
  <2> QED BY <2>1, <2>2, <2>3
<1>6. k \in 0 .. Len(q)
  BY <1>k, <1>q
<1>7. PICK f \in Seq(Nat) : f = SubSeq(q, 1, k)
  BY <1>6, DropTake
<1>f. Len(f) = k
  BY <1>6, <1>7, DropTake
<1>8. \A i \in 1 .. k : f[i] = q[i]
  BY <1>6, <1>7, DropTake
<1>9. PICK x \in Seq(Nat) : x = w \o f
  BY Concat
<1>x. Len(x) = a + k
  <2>1. Len(x) = Len(w) + Len(f)
    BY <1>9, Concat
  <2> QED BY <2>1, <1>f, <1>0
<1>10. /\ \A i \in 1 .. a : x[i] = w[i]
       /\ \A i \in 1 .. k : x[a + i] = f[i]
  <2>1. \A i \in 1 .. Len(f) : x[Len(w) + i] = f[i]
    BY <1>9, Concat, SMTT(30)
  <2>2. \A i \in 1 .. Len(w) : x[i] = w[i]
    BY <1>9, Concat
  <2> QED BY <2>1, <2>2, <1>f, <1>0
<1>11. ASSUME NEW i \in 1 .. a + k PROVE x[i] = t[i]
  <2>1. CASE i \in 1 .. a
    BY <2>1, <1>10, <1>2
  <2>2. CASE i - a \in 1 .. k
    <3>1. PICK j \in 1 .. k : j = i - a
      BY <2>2
    <3>2. i = a + j /\ j \in 1 .. b + c
      BY <3>1, <1>k
    <3>3. x[i] = q[j]
      BY <3>2, <1>10, <1>8
    <3> QED BY <3>3, <3>2, <1>5
  <2>3. i \in 1 .. a \/ i - a \in 1 .. k
    BY <1>k
  <2> QED BY <2>1, <2>2, <2>3
<1> QED BY <1>0, <1>3, <1>7, <1>9, <1>x, <1>11 DEF Prefix

\* Some of high is left, and all of low.
LEMMA TakeHigh ==
    ASSUME NEW w \in Seq(Nat), NEW h \in Seq(Nat), NEW l \in Seq(Nat), NEW t \in Seq(Nat),
           Parts(w, h, l, t), NEW k \in 0 .. Len(h), k # Len(h),
           NEW x \in Seq(Nat), Prefix(x, t, Len(w) + k)
    PROVE  /\ Drop(h, k) \in Seq(Nat) /\ Drop(h, k) # <<>> /\ Parts(x, Drop(h, k), l, t)
           /\ Len(x) + Len(Drop(h, k)) = Len(w) + Len(h)
<1>1. Len(w) \in Nat /\ Len(h) \in Nat /\ Len(l) \in Nat
  BY LenProperties
<1>0. PICK a \in Nat, b \in Nat, c \in Nat : a = Len(w) /\ b = Len(h) /\ c = Len(l)
  BY <1>1
<1>k. k \in 0 .. b /\ k # b /\ Len(x) = a + k
  BY <1>0 DEF Prefix
<1>2. /\ a + b + c = Len(t)
      /\ \A i \in 1 .. b : h[i] = t[a + i]
      /\ \A i \in 1 .. c : l[i] = t[a + b + i]
  BY <1>0 DEF Parts
<1>3. PICK g \in Seq(Nat) : g = Drop(h, k)
  BY DropTake
<1>g. Len(g) = b - k
  BY <1>0, <1>3, DropTake
<1>4. \A i \in 1 .. b - k : g[i] = h[k + i]
  BY <1>0, <1>3, DropTake
<1>5. b - k # 0 /\ a + k + (b - k) = a + b
  BY <1>k
<1>6. g # <<>>
  BY <1>g, <1>5, NoList
<1>7. ASSUME NEW i \in 1 .. b - k PROVE g[i] = t[a + k + i]
  <2>1. k + i \in 1 .. b /\ a + (k + i) = a + k + i
    BY <1>k
  <2>2. g[i] = h[k + i]
    BY <1>4
  <2>3. h[k + i] = t[a + (k + i)]
    BY <2>1, <1>2
  <2> QED BY <2>1, <2>2, <2>3
<1>8. \A i \in 1 .. a + k : x[i] = t[i]
  BY <1>0 DEF Prefix
<1>9. Parts(x, g, l, t)
  BY <1>0, <1>k, <1>2, <1>g, <1>5, <1>7, <1>8 DEF Parts
<1> QED BY <1>0, <1>3, <1>g, <1>k, <1>5, <1>6, <1>9

\* Nothing of high is left, and d units of low are gone.
LEMMA TakeLow ==
    ASSUME NEW w \in Seq(Nat), NEW h \in Seq(Nat), NEW l \in Seq(Nat), NEW t \in Seq(Nat),
           Parts(w, h, l, t), NEW d \in 0 .. Len(l),
           NEW x \in Seq(Nat), Prefix(x, t, Len(w) + Len(h) + d)
    PROVE  /\ Drop(l, d) \in Seq(Nat) /\ Parts(x, <<>>, Drop(l, d), t)
           /\ Len(Drop(l, d)) = Len(l) - d /\ Rest(Drop(l, d), t, Len(x))
<1>1. Len(w) \in Nat /\ Len(h) \in Nat /\ Len(l) \in Nat
  BY LenProperties
<1>0. PICK a \in Nat, b \in Nat, c \in Nat : a = Len(w) /\ b = Len(h) /\ c = Len(l)
  BY <1>1
<1>k. d \in 0 .. c /\ Len(x) = a + b + d
  BY <1>0 DEF Prefix
<1>x. \A i \in 1 .. Len(x) : x[i] = t[i]
  BY DEF Prefix
<1>2. /\ a + b + c = Len(t)
      /\ \A i \in 1 .. c : l[i] = t[a + b + i]
  BY <1>0 DEF Parts
<1>3. PICK m \in Seq(Nat) : m = Drop(l, d)
  BY DropTake
<1>m. Len(m) = c - d
  BY <1>0, <1>3, DropTake
<1>4. \A i \in 1 .. c - d : m[i] = l[d + i]
  BY <1>0, <1>3, DropTake
<1>5. a + b + d + (c - d) = a + b + c /\ a + b + d + 0 = a + b + d
  BY <1>k
<1>7. ASSUME NEW i \in 1 .. c - d PROVE m[i] = t[a + b + d + i]
  <2>1. d + i \in 1 .. c /\ a + b + (d + i) = a + b + d + i
    BY <1>k
  <2>2. m[i] = l[d + i]
    BY <1>4
  <2>3. l[d + i] = t[a + b + (d + i)]
    BY <2>1, <1>2
  <2> QED BY <2>1, <2>2, <2>3
<1>8. PICK e \in Seq(Nat) : e = <<>>
  BY EmptySeq
<1>9. Len(e) = 0 /\ \A i \in 1 .. 0 : FALSE
  BY <1>8, NoList
<1>10. Parts(x, e, m, t)
  BY <1>k, <1>x, <1>2, <1>m, <1>5, <1>7, <1>9 DEF Parts
<1>11. Len(x) + Len(m) = Len(t)
  BY <1>k, <1>2, <1>m, <1>5
<1>12. \A i \in 1 .. Len(m) : m[i] = t[Len(x) + i]
  BY <1>k, <1>m, <1>7
<1>13. Rest(m, t, Len(x))
  BY <1>11, <1>12 DEF Rest
<1> QED BY <1>0, <1>3, <1>8, <1>10, <1>13, <1>m

\* k units were sent: x is on the wire, g is left of high and m of low.
Sent(w, h, l, k, x, g, m) ==
    /\ x = w \o SubSeq(h \o l, 1, k)
    /\ g = IF k < Len(h) THEN Drop(h, k) ELSE <<>>
    /\ m = IF k < Len(h) THEN l ELSE Drop(l, k - Len(h))

LEMMA Take ==
    ASSUME NEW w \in Seq(Nat), NEW h \in Seq(Nat), NEW l \in Seq(Nat), NEW t \in Seq(Nat),
           Parts(w, h, l, t), NEW k \in 0 .. Len(h) + Len(l),
           NEW x, NEW g, NEW m, Sent(w, h, l, k, x, g, m)
    PROVE  /\ x \in Seq(Nat) /\ g \in Seq(Nat) /\ m \in Seq(Nat)
           /\ Len(x) = Len(w) + k /\ Parts(x, g, m, t)
           /\ \A i \in 1 .. Len(x) : x[i] = t[i]
           /\ g # <<>> => Len(x) + Len(g) = Len(w) + Len(h)
           /\ g = <<>> => Rest(m, t, Len(x)) /\ (l = <<>> => m = <<>>)
<1>1. Len(w) \in Nat /\ Len(h) \in Nat /\ Len(l) \in Nat
  BY LenProperties
<1>0. PICK a \in Nat, b \in Nat, c \in Nat : a = Len(w) /\ b = Len(h) /\ c = Len(l)
  BY <1>1
<1>k. k \in 0 .. b + c
  BY <1>0
<1>2. x \in Seq(Nat) /\ Prefix(x, t, Len(w) + k)
  <2>1. x = w \o SubSeq(h \o l, 1, k)
    BY DEF Sent
  <2> QED BY <2>1, TakeWire
<1>x. Len(x) = Len(w) + k /\ \A i \in 1 .. Len(x) : x[i] = t[i]
  BY <1>2 DEF Prefix
<1>3. CASE k < b
  <2>1. k \in 0 .. b /\ k # b
    BY <1>3, <1>k
  <2>2. k \in 0 .. Len(h) /\ k # Len(h) /\ k < Len(h)
    BY <2>1, <1>3, <1>0
  <2>3. g = Drop(h, k) /\ m = l
    BY <2>2 DEF Sent
  <2>4. /\ Drop(h, k) \in Seq(Nat) /\ Drop(h, k) # <<>> /\ Parts(x, Drop(h, k), l, t)
        /\ Len(x) + Len(Drop(h, k)) = Len(w) + Len(h)
    BY <2>2, <1>2, TakeHigh
  <2> QED BY <2>3, <2>4, <1>2, <1>x
<1>4. CASE ~(k < b)
  <2>0. k - b \in 0 .. c
    BY <1>4, <1>k
  <2>1. PICK d \in 0 .. c : d = k - b
    BY <2>0
  <2>2. a + k = a + b + d
    BY <2>1, <1>k
  <2>3. g = <<>> /\ m = Drop(l, d)
    BY <2>1, <1>0, <1>4 DEF Sent
  <2>4. d \in 0 .. Len(l) /\ Prefix(x, t, Len(w) + Len(h) + d)
    BY <2>2, <1>0, <1>2
  <2>5. /\ Drop(l, d) \in Seq(Nat) /\ Parts(x, <<>>, Drop(l, d), t)
        /\ Len(Drop(l, d)) = Len(l) - d /\ Rest(Drop(l, d), t, Len(x))
    BY <2>4, <1>2, TakeLow
  <2>6. ASSUME l = <<>> PROVE m = <<>>
    <3>1. c = 0
      BY <2>6, <1>0, NoList
    <3>2. d \in 0 .. 0
      BY <3>1
    <3>4. d = 0
      BY <3>2
    <3>3. m \in Seq(Nat) /\ Len(m) = c - d
      BY <2>3, <2>5, <1>0
    <3>5. Len(m) = 0
      BY <3>1, <3>3, <3>4
    <3> QED BY <3>3, <3>5, NoList
  <2>7. <<>> \in Seq(Nat)
    BY EmptySeq
  <2> QED BY <2>3, <2>5, <2>6, <2>7, <1>2, <1>x
<1> QED BY <1>3, <1>4

\* A buffer of low that was begun goes to high.
Moved(g, m, n, y, z) ==
    /\ n = IF g = <<>> /\ ~Complete(m) THEN First(m) ELSE 0
    /\ y = g \o SubSeq(m, 1, n) /\ z = Drop(m, n)

\* socket_send_buffer keeps the stream, and leaves low where no message is
\* split.
LEMMA SendParts ==
    ASSUME NEW w \in Seq(Nat), NEW h \in Seq(Nat), NEW l \in Seq(Nat), NEW t \in Seq(Nat),
           Parts(w, h, l, t), Whole(t), Cut(t, Len(w) + Len(h)),
           NEW k \in 0 .. Len(h) + Len(l),
           NEW x, NEW g, NEW m, Sent(w, h, l, k, x, g, m),
           NEW n, NEW y, NEW z, Moved(g, m, n, y, z)
    PROVE  /\ x \in Seq(Nat) /\ y \in Seq(Nat) /\ z \in Seq(Nat)
           /\ Parts(x, y, z, t) /\ Cut(t, Len(x) + Len(y))
           /\ Len(x) = Len(w) + k
           /\ g = <<>> /\ l = <<>> => y = <<>> /\ z = <<>>
<1>1. /\ x \in Seq(Nat) /\ g \in Seq(Nat) /\ m \in Seq(Nat)
      /\ Len(x) = Len(w) + k /\ Parts(x, g, m, t)
      /\ g # <<>> => Len(x) + Len(g) = Len(w) + Len(h)
      /\ g = <<>> => Rest(m, t, Len(x)) /\ (l = <<>> => m = <<>>)
  BY Take
<1>t. Len(x) \in Nat /\ Len(g) \in Nat /\ Len(m) \in Nat /\ Len(t) \in Nat
  BY <1>1, LenProperties
<1>n. n = IF g = <<>> /\ ~Complete(m) THEN First(m) ELSE 0
  BY DEF Moved
<1>2. n \in 0 .. Len(m) /\ Cut(t, Len(x) + (Len(g) + n))
  <2>0. PICK u \in Nat, v \in Nat, o \in Nat : u = Len(x) /\ v = Len(g) /\ o = Len(m)
    BY <1>t
  <2>1. CASE g # <<>>
    <3>1. n = 0 /\ u + (v + n) = u + v /\ 0 \in 0 .. o
      BY <2>1, <1>n
    <3> QED BY <3>1, <2>0, <2>1, <1>1
  <2>2. CASE g = <<>> /\ m = <<>>
    <3>1. n = 0 /\ o = 0 /\ v = 0
      BY <2>0, <2>2, <1>1, <1>n, NoList DEF Complete
    <3>2. u + o = Len(t) /\ 0 \in 0 .. o
      BY <2>0, <2>2, <1>1 DEF Rest
    <3>3. u + (v + n) = u + o
      BY <3>1
    <3>4. Cut(t, Len(t))
      BY <1>t DEF Cut
    <3> QED BY <3>1, <3>2, <3>3, <3>4, <2>0
  <2>3. CASE g = <<>> /\ m # <<>>
    <3>1. v = 0
      BY <2>0, <2>3, <1>1, NoList
    <3>2. o # 0
      BY <2>0, <2>3, <1>1, NoList
    <3>3. u + o = Len(t) /\ \A i \in 1 .. o : m[i] = t[u + i]
      BY <2>0, <2>3, <1>1 DEF Rest
    <3>4. u \in 0 .. u + o /\ u < u + o /\ o = u + o - u
      BY <3>2
    <3>5. u \in 0 .. Len(t) /\ u < Len(t) /\ Len(m) = Len(t) - u
      BY <3>3, <3>4, <2>0
    <3>6. \A i \in 1 .. Len(m) : m[i] = t[u + i]
      BY <3>3, <2>0
    <3>7. /\ First(m) \in 1 .. Len(m) /\ Cut(t, u + First(m))
          /\ First(m) = SIZE => Cut(t, u)
      BY <3>5, <3>6, <1>1, FirstOfRest
    <3>8. CASE First(m) = SIZE
      <4>1. n = 0
        BY <3>8, <1>n DEF Complete
      <4>2. u + (v + n) = u /\ 0 \in 0 .. o
        BY <4>1, <3>1
      <4> QED BY <4>1, <4>2, <3>7, <3>8, <2>0
    <3>9. CASE First(m) # SIZE
      <4>1. n = First(m) /\ n \in 1 .. o
        BY <3>9, <3>7, <2>3, <2>0, <1>n DEF Complete
      <4>2. u + (v + n) = u + n /\ n \in 0 .. o
        BY <4>1, <3>1
      <4> QED BY <4>1, <4>2, <3>7, <2>0
    <3> QED BY <3>8, <3>9
  <2> QED BY <2>1, <2>2, <2>3
<1>3. y \in Seq(Nat) /\ z \in Seq(Nat) /\ Len(y) = Len(g) + n /\ Parts(x, y, z, t)
  <2>1. /\ g \o SubSeq(m, 1, n) \in Seq(Nat) /\ Drop(m, n) \in Seq(Nat)
        /\ Len(g \o SubSeq(m, 1, n)) = Len(g) + n
        /\ Parts(x, g \o SubSeq(m, 1, n), Drop(m, n), t)
    BY <1>1, <1>2, Shift
  <2> QED BY <2>1 DEF Moved
<1>5. ASSUME g = <<>>, l = <<>> PROVE y = <<>> /\ z = <<>>
  <2>1. Len(g) = 0 /\ Len(m) = 0
    BY <1>5, <1>1, NoList
  <2>2. n = 0
    BY <2>1, <1>2
  <2>3. Len(y) = 0
    BY <2>1, <2>2, <1>3
  <2>4. z \in Seq(Nat) /\ Len(z) = Len(m) - n
    BY <1>1, <1>2, DropTake DEF Moved
  <2>5. Len(z) = 0
    BY <2>1, <2>2, <2>4
  <2> QED BY <2>3, <2>5, <1>3, NoList
<1> QED BY <1>1, <1>2, <1>3, <1>5

\* g is the list h with message v at its end.
Added(h, g, v) ==
    /\ Len(g) = Len(h) + SIZE
    /\ \A i \in 1 .. Len(h) : g[i] = h[i]
    /\ \A i \in 1 .. SIZE : g[Len(h) + i] = v

\* A message at the end of high, and one at the end of low.
LEMMA AddHigh ==
    ASSUME NEW w \in Seq(Nat), NEW h \in Seq(Nat), NEW l \in Seq(Nat), NEW s \in Seq(Nat),
           NEW g \in Seq(Nat), NEW t \in Seq(Nat), NEW v \in Nat, NEW p \in Nat,
           p = Len(w) + Len(h), Parts(w, h, l, s), Parts(w, g, l, t), Added(h, g, v)
    PROVE  p \in 0 .. Len(s) /\ Insert(s, t, p, v)
<1>1. Len(w) \in Nat /\ Len(h) \in Nat /\ Len(l) \in Nat /\ SIZE \in Nat
  BY LenProperties, SendAssumption
<1>0. PICK a \in Nat, b \in Nat, c \in Nat : a = Len(w) /\ b = Len(h) /\ c = Len(l)
  BY <1>1
<1>p. p = a + b
  BY <1>0
<1>2. /\ a + b + c = Len(s)
      /\ \A i \in 1 .. a : w[i] = s[i]
      /\ \A i \in 1 .. b : h[i] = s[a + i]
      /\ \A i \in 1 .. c : l[i] = s[a + b + i]
  BY <1>0 DEF Parts
<1>3. /\ a + (b + SIZE) + c = Len(t)
      /\ \A i \in 1 .. a : w[i] = t[i]
      /\ \A i \in 1 .. b + SIZE : g[i] = t[a + i]
      /\ \A i \in 1 .. c : l[i] = t[a + (b + SIZE) + i]
  BY <1>0 DEF Parts, Added
<1>4. /\ \A i \in 1 .. b : g[i] = h[i]
      /\ \A i \in 1 .. SIZE : g[b + i] = v
  BY <1>0 DEF Added
<1>5. a + (b + SIZE) + c = a + b + c + SIZE /\ a + b \in 0 .. a + b + c
  BY <1>1
<1>6. ASSUME NEW i \in 1 .. a + b + c + SIZE
      PROVE  t[i] = IF i <= a + b THEN s[i]
                    ELSE IF i <= a + b + SIZE THEN v ELSE s[i - SIZE]
  <2>1. CASE i \in 1 .. a
    <3>1. i <= a + b
      BY <2>1
    <3>2. t[i] = s[i]
      BY <2>1, <1>2, <1>3
    <3> QED BY <3>1, <3>2
  <2>2. CASE i - a \in 1 .. b
    <3>1. PICK j \in 1 .. b : j = i - a
      BY <2>2
    <3>2. i = a + j /\ i <= a + b /\ j \in 1 .. b + SIZE
      BY <3>1, <1>1
    <3>3. t[i] = g[j] /\ s[i] = h[j] /\ g[j] = h[j]
      BY <3>2, <1>2, <1>3, <1>4
    <3> QED BY <3>2, <3>3
  <2>3. CASE i - (a + b) \in 1 .. SIZE
    <3>1. PICK j \in 1 .. SIZE : j = i - (a + b)
      BY <2>3
    <3>2. /\ i = a + (b + j) /\ ~(i <= a + b) /\ i <= a + b + SIZE
          /\ b + j \in 1 .. b + SIZE
      BY <3>1, <1>1
    <3>3. t[i] = g[b + j] /\ g[b + j] = v
      BY <3>2, <1>3, <1>4
    <3> QED BY <3>2, <3>3
  <2>4. CASE i - (a + b + SIZE) \in 1 .. c
    <3>1. PICK j \in 1 .. c : j = i - (a + b + SIZE)
      BY <2>4
    <3>2. /\ i = a + (b + SIZE) + j /\ ~(i <= a + b) /\ ~(i <= a + b + SIZE)
          /\ i - SIZE = a + b + j
      BY <3>1, <1>1
    <3>3. t[i] = l[j] /\ l[j] = s[i - SIZE]
      BY <3>2, <1>2, <1>3
    <3> QED BY <3>2, <3>3
  <2>5. \/ i \in 1 .. a \/ i - a \in 1 .. b
        \/ i - (a + b) \in 1 .. SIZE \/ i - (a + b + SIZE) \in 1 .. c
    BY <1>1
  <2> QED BY <2>1, <2>2, <2>3, <2>4, <2>5
<1>7. Len(s) = a + b + c /\ Len(t) = a + b + c + SIZE
  BY <1>2, <1>3, <1>5
<1> QED BY <1>p, <1>5, <1>6, <1>7 DEF Insert

LEMMA AddLow ==
    ASSUME NEW w \in Seq(Nat), NEW h \in Seq(Nat), NEW l \in Seq(Nat), NEW s \in Seq(Nat),
           NEW m \in Seq(Nat), NEW t \in Seq(Nat), NEW v \in Nat,
           Parts(w, h, l, s), Parts(w, h, m, t), Added(l, m, v)
    PROVE  Insert(s, t, Len(s), v)
<1>1. Len(w) \in Nat /\ Len(h) \in Nat /\ Len(l) \in Nat /\ SIZE \in Nat
  BY LenProperties, SendAssumption
<1>0. PICK a \in Nat, b \in Nat, c \in Nat : a = Len(w) /\ b = Len(h) /\ c = Len(l)
  BY <1>1
<1>2. /\ a + b + c = Len(s)
      /\ \A i \in 1 .. a : w[i] = s[i]
      /\ \A i \in 1 .. b : h[i] = s[a + i]
      /\ \A i \in 1 .. c : l[i] = s[a + b + i]
  BY <1>0 DEF Parts
<1>3. /\ a + b + (c + SIZE) = Len(t)
      /\ \A i \in 1 .. a : w[i] = t[i]
      /\ \A i \in 1 .. b : h[i] = t[a + i]
      /\ \A i \in 1 .. c + SIZE : m[i] = t[a + b + i]
  BY <1>0 DEF Parts, Added
<1>4. /\ \A i \in 1 .. c : m[i] = l[i]
      /\ \A i \in 1 .. SIZE : m[c + i] = v
  BY <1>0 DEF Added
<1>5. a + b + (c + SIZE) = a + b + c + SIZE
  BY <1>1
<1>6. ASSUME NEW i \in 1 .. a + b + c + SIZE
      PROVE  t[i] = IF i <= a + b + c THEN s[i]
                    ELSE IF i <= a + b + c + SIZE THEN v ELSE s[i - SIZE]
  <2>1. CASE i \in 1 .. a
    <3>1. i <= a + b + c
      BY <2>1
    <3>2. t[i] = s[i]
      BY <2>1, <1>2, <1>3
    <3> QED BY <3>1, <3>2
  <2>2. CASE i - a \in 1 .. b
    <3>1. PICK j \in 1 .. b : j = i - a
      BY <2>2
    <3>2. i = a + j /\ i <= a + b + c
      BY <3>1, <1>1
    <3>3. t[i] = h[j] /\ s[i] = h[j]
      BY <3>2, <1>2, <1>3
    <3> QED BY <3>2, <3>3
  <2>3. CASE i - (a + b) \in 1 .. c
    <3>1. PICK j \in 1 .. c : j = i - (a + b)
      BY <2>3
    <3>2. i = a + b + j /\ i <= a + b + c /\ j \in 1 .. c + SIZE
      BY <3>1, <1>1
    <3>3. t[i] = m[j] /\ s[i] = l[j] /\ m[j] = l[j]
      BY <3>2, <1>2, <1>3, <1>4
    <3> QED BY <3>2, <3>3
  <2>4. CASE i - (a + b + c) \in 1 .. SIZE
    <3>1. PICK j \in 1 .. SIZE : j = i - (a + b + c)
      BY <2>4
    <3>2. /\ i = a + b + (c + j) /\ ~(i <= a + b + c) /\ i <= a + b + c + SIZE
          /\ c + j \in 1 .. c + SIZE
      BY <3>1, <1>1
    <3>3. t[i] = m[c + j] /\ m[c + j] = v
      BY <3>2, <1>3, <1>4
    <3> QED BY <3>2, <3>3
  <2>5. \/ i \in 1 .. a \/ i - a \in 1 .. b
        \/ i - (a + b) \in 1 .. c \/ i - (a + b + c) \in 1 .. SIZE
    BY <1>1
  <2> QED BY <2>1, <2>2, <2>3, <2>4, <2>5
<1>7. Len(s) = a + b + c /\ Len(t) = a + b + c + SIZE
  BY <1>2, <1>3, <1>5
<1> QED BY <1>6, <1>7 DEF Insert

\* A list that is empty may be taken for the other one.
LEMMA Swap ==
    ASSUME NEW x \in Seq(Nat), NEW g \in Seq(Nat), NEW t \in Seq(Nat), Parts(x, g, <<>>, t)
    PROVE  Parts(x, <<>>, g, t)
<1>1. Len(x) \in Nat /\ Len(g) \in Nat
  BY LenProperties
<1>0. PICK a \in Nat, b \in Nat : a = Len(x) /\ b = Len(g)
  BY <1>1
<1>2. PICK e \in Seq(Nat) : e = <<>> /\ Len(e) = 0
  BY EmptySeq
<1>3. /\ a + b + 0 = Len(t)
      /\ \A i \in 1 .. a : x[i] = t[i]
      /\ \A i \in 1 .. b : g[i] = t[a + i]
  <2>1. Parts(x, g, e, t)
    BY <1>2
  <2> QED BY <2>1, <1>0, <1>2 DEF Parts
<1>4. a + b + 0 = a + 0 + b /\ a + 0 = a /\ \A i \in 1 .. 0 : FALSE
  OBVIOUS
<1>5. Parts(x, e, g, t)
  BY <1>0, <1>2, <1>3, <1>4 DEF Parts
<1> QED BY <1>2, <1>5

-----------------------------------------------------------------------------
(* What the actions have in common *)

LEMMA StreamParts ==
    ASSUME Types
    PROVE  /\ wire \in Seq(Nat) /\ high \in Seq(Nat) /\ low \in Seq(Nat)
           /\ Stream \in Seq(Nat) /\ Parts(wire, high, low, Stream)
  BY Join DEF Types, Stream

\* The stream t after a step, of whole messages of which wire is the
\* beginning, and low the rest or begun.
LEMMA Rebuild ==
    ASSUME wire' \in Seq(Nat), high' \in Seq(Nat), low' \in Seq(Nat), NEW t \in Seq(Nat),
           Parts(wire', high', low', t), Whole(t),
           \/ Cut(t, Len(wire') + Len(high'))
           \/ low' # <<>> /\ First(low') # SIZE,
           \A i \in 1 .. Len(t) : t[i] <= Len(prio')
    PROVE  Numbered' /\ Order' /\ WholeMessages'
<1>1. Stream' = t
  BY SameParts DEF Stream
<1>2. Numbered'
  BY <1>1 DEF Numbered
<1>3. Order'
  BY <1>1 DEF Order
<1>4. PICK w \in Seq(Nat), h \in Seq(Nat), l \in Seq(Nat) :
         w = wire' /\ h = high' /\ l = low' /\ Parts(w, h, l, t)
  OBVIOUS
<1>5. Len(w) <= Len(t) /\ \A i \in 1 .. Len(w) : w[i] = t[i]
  <2>1. Len(w) \in Nat /\ Len(h) \in Nat /\ Len(l) \in Nat
    BY LenProperties
  <2>2. Len(w) + Len(h) + Len(l) = Len(t) /\ \A i \in 1 .. Len(w) : w[i] = t[i]
    BY <1>4 DEF Parts
  <2>3. PICK a \in Nat, b \in Nat, c \in Nat : a = Len(w) /\ b = Len(h) /\ c = Len(l)
    BY <2>1
  <2>4. a <= a + b + c
    OBVIOUS
  <2> QED BY <2>2, <2>3, <2>4
<1>6. \A i \in 1 .. Len(w) - 1 : w[i] # w[i + 1] =>
          /\ Cardinality({j \in 1 .. i : w[j] = w[i]}) = SIZE
          /\ \A j \in i + 1 .. Len(w) : w[j] # w[i]
  BY <1>5, WholePrefix
<1>7. WholeMessages'
  BY <1>4, <1>6 DEF WholeMessages
<1> QED BY <1>2, <1>3, <1>7

\* The socket is closed: only what is on the wire matters.
LEMMA Closes ==
    ASSUME type' = "invalid", high' = <<>>, low' = <<>>, wb_size' \in Int,
           prio' \in Seq({"high", "low"}), wire' \in Seq(Nat), WholeMessages',
           \A i \in 1 .. Len(wire') : wire'[i] <= Len(prio')
    PROVE  IInv'
<1>0. PICK w \in Seq(Nat), e \in Seq(Nat) : w = wire' /\ e = <<>> /\ Len(e) = 0
  BY EmptySeq
<1>1. PICK t \in Seq(Nat) : t = (w \o e) \o e /\ Parts(w, e, e, t)
  BY Join
<1>2. Stream' = t
  BY <1>0, <1>1 DEF Stream
<1>3. Len(t) = Len(w) /\ \A i \in 1 .. Len(w) : w[i] = t[i]
  <2>1. Len(w) \in Nat
    BY LenProperties
  <2>2. Len(w) + 0 + 0 = Len(t) /\ \A i \in 1 .. Len(w) : w[i] = t[i]
    BY <1>0, <1>1 DEF Parts
  <2> QED BY <2>1, <2>2
<1>4. \A i \in 1 .. Len(w) : w[i] <= Len(prio')
  BY <1>0
<1>5. \A i \in 1 .. Len(t) : t[i] <= Len(prio')
  BY <1>3, <1>4
<1>6. Numbered'
  BY <1>2, <1>5 DEF Numbered
<1>7. Types'
  BY <1>0 DEF Types
<1> QED BY <1>6, <1>7 DEF IInv, Order, Armed, WriteArmed, Gone, WbExact

\* What is on the wire is part of the stream.
LEMMA WireNumbered ==
    ASSUME Types, Numbered
    PROVE  \A i \in 1 .. Len(wire) : wire[i] <= Len(prio)
<1>1. PICK w \in Seq(Nat), h \in Seq(Nat), l \in Seq(Nat), t \in Seq(Nat) :
         w = wire /\ h = high /\ l = low /\ t = Stream /\ Parts(w, h, l, t)
  BY StreamParts
<1>2. PICK a \in Nat, b \in Nat, c \in Nat : a = Len(w) /\ b = Len(h) /\ c = Len(l)
  BY LenProperties
<1>3. a + b + c = Len(t) /\ \A i \in 1 .. a : w[i] = t[i]
  BY <1>1, <1>2 DEF Parts
<1>4. \A i \in 1 .. a + b + c : t[i] <= Len(prio)
  BY <1>1, <1>3 DEF Numbered
<1>5. \A i \in 1 .. a : i \in 1 .. a + b + c
  OBVIOUS
<1> QED BY <1>1, <1>2, <1>3, <1>4, <1>5

\* socket_force_close with nothing sent.
LEMMA ForceClose ==
    ASSUME IInv, socket_force_close, wire' = wire, wb_size' = wb_size,
           prio' \in Seq({"high", "low"}), Len(prio) <= Len(prio')
    PROVE  IInv'
<1>1. type' = "invalid" /\ high' = <<>> /\ low' = <<>>
  BY DEF socket_force_close
<1>2. wire \in Seq(Nat) /\ wb_size \in Int /\ prio \in Seq({"high", "low"}) /\ WholeMessages
  BY DEF IInv, Types
<1>3. WholeMessages'
  BY <1>2 DEF WholeMessages
<1>4. \A i \in 1 .. Len(wire) : wire[i] <= Len(prio)
  BY WireNumbered DEF IInv
<1>5. ASSUME NEW i \in 1 .. Len(wire') PROVE wire'[i] <= Len(prio')
  <2>1. wire[i] \in Nat /\ wire[i] <= Len(prio)
    BY <1>2, <1>4, ElementOfSeq
  <2>2. PICK u \in Nat, v \in Nat, n \in Nat : u = wire[i] /\ v = Len(prio) /\ n = Len(prio')
    BY <2>1, <1>2, LenProperties
  <2>3. u <= v /\ v <= n
    BY <2>1, <2>2
  <2>4. u <= n
    BY <2>3
  <2> QED BY <2>2, <2>4
<1> QED BY <1>1, <1>2, <1>3, <1>5, Closes

\* The lists and the wire stay, only the socket's state changes.
LEMMA Stays ==
    ASSUME IInv, wire' = wire, high' = high, low' = low, wb_size' = wb_size,
           prio' \in Seq({"high", "low"}), Len(prio) <= Len(prio'),
           type' \in {"opening", "opened", "bind", "halfclose", "invalid"},
           (type' = "invalid") <=> (type = "invalid"), Armed'
    PROVE  IInv'
<1>1. Stream' = Stream
  BY DEF Stream
<1>2. Types'
  BY DEF IInv, Types
<1>3. Numbered'
  <2>1. Stream \in Seq(Nat) /\ prio \in Seq({"high", "low"}) /\ Numbered
    BY StreamParts DEF IInv, Types
  <2>2. ASSUME NEW i \in 1 .. Len(Stream) PROVE Stream[i] <= Len(prio')
    <3>1. Stream[i] \in Nat /\ Stream[i] <= Len(prio)
      BY <2>1, ElementOfSeq DEF Numbered
    <3>2. PICK u \in Nat, v \in Nat, n \in Nat : u = Stream[i] /\ v = Len(prio) /\ n = Len(prio')
      BY <3>1, <2>1, LenProperties
    <3>3. u <= v /\ v <= n
      BY <3>1, <3>2
    <3>4. u <= n
      BY <3>3
    <3> QED BY <3>2, <3>4
  <2> QED BY <2>2, <1>1 DEF Numbered
<1>4. Order'
  BY <1>1 DEF IInv, Order
<1>5. Gone' /\ WbExact'
  BY DEF IInv, Gone, WbExact
<1>6. WholeMessages'
  BY DEF IInv, WholeMessages
<1> QED BY <1>2, <1>3, <1>4, <1>5, <1>6 DEF IInv

\* socket_send_buffer sent k units: the lists, or nothing after the socket
\* was closed.
LEMMA StoreKeeps ==
    ASSUME IInv, type # "invalid", Complete(low), NEW k \in 0 .. Len(high) + Len(low),
           wire' = wire \o SubSeq(high \o low, 1, k), wb_size' = wb_size - k,
           prio' = prio, bound' = bound, NEW ty \in {"opened", "halfclose"},
           \/ socket_force_close
           \/ /\ type' = ty /\ high' = SendBuffer(k).high
              /\ low' = SendBuffer(k).low /\ out' = SendBuffer(k).out
    PROVE  IInv'
<1>1. PICK w \in Seq(Nat), h \in Seq(Nat), l \in Seq(Nat), t \in Seq(Nat) :
         w = wire /\ h = high /\ l = low /\ t = Stream /\ Parts(w, h, l, t)
  BY StreamParts DEF IInv
<1>2. Whole(t) /\ Cut(t, Len(w) + Len(h))
  BY <1>1 DEF IInv, Order, Complete
<1>3. k \in 0 .. Len(h) + Len(l)
  BY <1>1
<1>4. PICK x, g, m : Sent(w, h, l, k, x, g, m)
  BY DEF Sent
<1>5. PICK n, y, z : Moved(g, m, n, y, z)
  BY DEF Moved
<1>6. /\ x \in Seq(Nat) /\ y \in Seq(Nat) /\ z \in Seq(Nat)
      /\ Parts(x, y, z, t) /\ Cut(t, Len(x) + Len(y))
      /\ Len(x) = Len(w) + k
      /\ g = <<>> /\ l = <<>> => y = <<>> /\ z = <<>>
  BY ONLY w \in Seq(Nat), h \in Seq(Nat), l \in Seq(Nat), t \in Seq(Nat),
          <1>1, <1>2, <1>3, <1>4, <1>5, SendParts
<1>7. wire' = x
  BY <1>1, <1>4 DEF Sent
<1>8. /\ SendBuffer(k).high = y /\ SendBuffer(k).low = z
      /\ SendBuffer(k).out = (out /\ ~(g = <<>> /\ l = <<>>))
  BY <1>1, <1>4, <1>5 DEF SendBuffer, Sent, Moved
<1>9. \A i \in 1 .. Len(t) : t[i] <= Len(prio')
  BY <1>1 DEF IInv, Numbered
<1>10. wb_size' \in Int /\ prio' \in Seq({"high", "low"})
  BY DEF IInv, Types
<1>11. CASE socket_force_close
  <2>1. type' = "invalid" /\ high' = <<>> /\ low' = <<>>
    BY <1>11 DEF socket_force_close
  <2>2. PICK a \in Nat, b \in Nat, c \in Nat : a = Len(x) /\ b = Len(y) /\ c = Len(z)
    BY <1>6, LenProperties
  <2>3. a + b + c = Len(t) /\ \A i \in 1 .. a : x[i] = t[i]
    BY <2>2, <1>6 DEF Parts
  <2>4. a <= a + b + c /\ \A i \in 1 .. a : i \in 1 .. a + b + c
    OBVIOUS
  <2>5. Len(x) <= Len(t) /\ \A i \in 1 .. Len(x) : x[i] = t[i]
    BY <2>2, <2>3, <2>4
  <2>6. \A i \in 1 .. Len(x) - 1 : x[i] # x[i + 1] =>
          /\ Cardinality({j \in 1 .. i : x[j] = x[i]}) = SIZE
          /\ \A j \in i + 1 .. Len(x) : x[j] # x[i]
    BY <2>5, <1>2, <1>6, WholePrefix
  <2>7. WholeMessages'
    BY <2>6, <1>7 DEF WholeMessages
  <2>8. \A i \in 1 .. Len(x) : x[i] <= Len(prio')
    BY <2>2, <2>3, <2>4, <1>9
  <2> QED BY <2>1, <2>7, <2>8, <1>6, <1>7, <1>10, Closes
<1>12. CASE /\ type' = ty /\ high' = SendBuffer(k).high
            /\ low' = SendBuffer(k).low /\ out' = SendBuffer(k).out
  <2>1. type' = ty /\ high' = y /\ low' = z /\ out' = (out /\ ~(g = <<>> /\ l = <<>>))
    BY <1>8, <1>12
  <2>2. wire' \in Seq(Nat) /\ high' \in Seq(Nat) /\ low' \in Seq(Nat)
    BY <2>1, <1>6, <1>7
  <2>3. Numbered' /\ Order' /\ WholeMessages'
    BY <2>1, <2>2, <1>2, <1>6, <1>7, <1>9, Rebuild
  <2>4. Types'
    BY <2>1, <2>2, <1>10 DEF Types
  <2>5. Armed' /\ Gone'
    <3>1. ASSUME ~bound, y # <<>> \/ z # <<>>
          PROVE  out /\ ~(g = <<>> /\ l = <<>>)
      <4>1. ~(g = <<>> /\ l = <<>>)
        BY <3>1, <1>6
      <4>2. h # <<>> \/ l # <<>>
        <5> SUFFICES ASSUME h = <<>>, l = <<>> PROVE FALSE
          OBVIOUS
        <5>1. Len(h) = 0
          BY NoList
        <5>2. ~(k < Len(h))
          BY <5>1, <1>3
        <5>3. g = <<>>
          BY <5>2, <1>4 DEF Sent
        <5> QED BY <5>3, <4>1
      <4>3. out
        BY <4>2, <3>1, <1>1 DEF IInv, Armed, WriteArmed
      <4> QED BY <4>1, <4>3
    <3>2. type' # "opening" /\ type' # "bind" /\ type' # "invalid"
      BY <2>1
    <3> QED BY <3>1, <3>2, <2>1 DEF Armed, WriteArmed, Gone
  <2>6. WbExact'
    <3>1. PICK a \in Nat, b \in Nat, c \in Nat : a = Len(w) /\ b = Len(h) /\ c = Len(l)
      BY LenProperties
    <3>2. PICK d \in Nat, e \in Nat, f \in Nat : d = Len(x) /\ e = Len(y) /\ f = Len(z)
      BY <1>6, LenProperties
    <3>3. a + b + c = Len(t) /\ d + e + f = Len(t) /\ d = a + k
      BY <3>1, <3>2, <1>1, <1>6 DEF Parts
    <3>4. wb_size = b + c
      BY <3>1, <1>1 DEF IInv, WbExact
    <3>5. b + c - k = e + f
      BY <3>3
    <3> QED BY <3>2, <3>4, <3>5, <2>1 DEF WbExact
  <2> QED BY <2>3, <2>4, <2>5, <2>6 DEF IInv
<1> QED BY <1>11, <1>12

-----------------------------------------------------------------------------
(* A new message *)

LEMMA UnitsFacts ==
    ASSUME NEW v \in Nat
    PROVE  Units(v) \in Seq(Nat) /\ Len(Units(v)) = SIZE /\ \A i \in 1 .. SIZE : Units(v)[i] = v
  BY SendAssumption DEF Units

\* The number of the next message is larger than all before.
LEMMA NextNumber ==
    ASSUME Types, Numbered, NEW p \in {"high", "low"}, prio' = Append(prio, p)
    PROVE  /\ prio' \in Seq({"high", "low"}) /\ Len(prio') = Len(prio) + 1
           /\ Len(prio) \in Nat /\ Len(prio) <= Len(prio')
           /\ \A i \in 1 .. Len(Stream) :
                 /\ Stream[i] # Len(prio) + 1
                 /\ Stream[i] \in Nat /\ Stream[i] <= Len(prio) + 1
<1>1. prio \in Seq({"high", "low"}) /\ Len(prio) \in Nat
  BY LenProperties DEF Types
<1>2. prio' \in Seq({"high", "low"}) /\ Len(prio') = Len(prio) + 1
  BY <1>1, AppendProperties
<1>3. Stream \in Seq(Nat)
  BY StreamParts
<1>4. ASSUME NEW i \in 1 .. Len(Stream)
      PROVE  Stream[i] # Len(prio) + 1 /\ Stream[i] \in Nat /\ Stream[i] <= Len(prio) + 1
  <2>1. Stream[i] \in Nat /\ Stream[i] <= Len(prio)
    BY <1>3, ElementOfSeq DEF Numbered
  <2>2. PICK u \in Nat, n \in Nat : u = Stream[i] /\ n = Len(prio)
    BY <2>1, <1>1
  <2>3. u # n + 1 /\ u <= n + 1
    BY <2>1, <2>2
  <2> QED BY <2>2, <2>3
<1>5. Len(prio) <= Len(prio) + 1
  BY <1>1
<1> QED BY <1>1, <1>2, <1>4, <1>5

\* The stream with the message put in has only numbers up to v.
LEMMA InsertNumbered ==
    ASSUME NEW s \in Seq(Nat), NEW t \in Seq(Nat), NEW p \in 0 .. Len(s), NEW v \in Nat,
           Insert(s, t, p, v), \A i \in 1 .. Len(s) : s[i] <= v
    PROVE  \A i \in 1 .. Len(t) : t[i] <= v
<1>t. Len(s) \in Nat /\ SIZE \in Nat
  BY LenProperties, SendAssumption
<1>0. PICK a \in Nat : a = Len(s)
  BY <1>t
<1>1. /\ Len(t) = a + SIZE /\ p \in 0 .. a
      /\ \A i \in 1 .. a + SIZE :
            t[i] = IF i <= p THEN s[i] ELSE IF i <= p + SIZE THEN v ELSE s[i - SIZE]
  BY <1>0 DEF Insert
<1>2. ASSUME NEW i \in 1 .. a + SIZE PROVE t[i] <= v
  <2>1. CASE i <= p
    <3>1. i \in 1 .. a
      BY <2>1, <1>1, <1>t
    <3> QED BY <2>1, <3>1, <1>0, <1>1
  <2>2. CASE ~(i <= p) /\ i <= p + SIZE
    BY <2>2, <1>1
  <2>3. CASE ~(i <= p) /\ ~(i <= p + SIZE)
    <3>1. i - SIZE \in 1 .. a
      BY <2>3, <1>1, <1>t
    <3> QED BY <2>3, <3>1, <1>0, <1>1
  <2> QED BY <2>1, <2>2, <2>3
<1> QED BY <1>1, <1>2

\* socket_append_sendbuffer of a whole message.
LEMMA BufferedKeeps ==
    ASSUME IInv, NEW p \in {"high", "low"}, send_buffered(p)
    PROVE  IInv'
<1>1. /\ type # "invalid" /\ prio' = Append(prio, p)
      /\ Append_sendbuffer(p, Units(Len(prio) + 1))
      /\ type' = type /\ out' = out /\ wire' = wire /\ bound' = bound
  BY DEF send_buffered, NewMessage
<1>2. Types /\ Numbered
  BY DEF IInv
<1>3. /\ prio' \in Seq({"high", "low"}) /\ Len(prio') = Len(prio) + 1 /\ Len(prio) \in Nat
      /\ \A i \in 1 .. Len(Stream) :
            /\ Stream[i] # Len(prio) + 1
            /\ Stream[i] \in Nat /\ Stream[i] <= Len(prio) + 1
  BY <1>1, <1>2, NextNumber
<1>4. PICK v \in Nat : v = Len(prio) + 1
  BY <1>3
<1>5. PICK us \in Seq(Nat) : us = Units(v)
  BY UnitsFacts
<1>6. Len(us) = SIZE /\ \A i \in 1 .. SIZE : us[i] = v
  BY <1>5, UnitsFacts
<1>7. PICK w \in Seq(Nat), h \in Seq(Nat), l \in Seq(Nat), s \in Seq(Nat) :
         w = wire /\ h = high /\ l = low /\ s = Stream /\ Parts(w, h, l, s)
  BY <1>2, StreamParts
<1>8. \A i \in 1 .. Len(s) : s[i] # v /\ s[i] <= v
  BY <1>3, <1>4, <1>7
<1>9. \/ Whole(s) /\ Cut(s, Len(w) + Len(h))
      \/ l # <<>> /\ First(l) # SIZE
  BY <1>1, <1>7 DEF IInv, Order
<1>a. SIZE \in Nat /\ SIZE > 1
  BY SendAssumption
<1>10. Armed'
  <2>1. CASE type = "opened"
    <3>1. high # <<>> \/ low # <<>>
      BY <2>1 DEF send_buffered
    <3> QED BY <2>1, <3>1, <1>1 DEF IInv, Armed, WriteArmed
  <2>2. CASE type # "opened"
    BY <2>2, <1>1 DEF send_buffered, IInv, Armed, WriteArmed
  <2> QED BY <2>1, <2>2
<1>11. CASE p = "high"
  <2>1. high' = h \o us /\ low' = l /\ wb_size' = wb_size + SIZE
    BY <1>1, <1>4, <1>5, <1>6, <1>7, <1>11 DEF Append_sendbuffer
  <2>2. PICK g \in Seq(Nat) : g = h \o us
    BY Concat
  <2>3. /\ Len(g) = Len(h) + SIZE
        /\ \A i \in 1 .. Len(h) : g[i] = h[i]
        /\ \A i \in 1 .. SIZE : g[Len(h) + i] = v
    <3>1. /\ Len(g) = Len(h) + Len(us)
          /\ \A i \in 1 .. Len(h) : g[i] = h[i]
          /\ \A i \in 1 .. Len(us) : g[Len(h) + i] = us[i]
      BY <2>2, Concat
    <3> QED BY <3>1, <1>6
  <2>4. PICK t \in Seq(Nat) : t = (w \o g) \o l /\ Parts(w, g, l, t)
    BY Join
  <2>5. PICK q \in Nat : q = Len(w) + Len(h)
    BY LenProperties
  <2>6. q \in 0 .. Len(s) /\ Insert(s, t, q, v)
    <3>1. Added(h, g, v)
      BY <2>3 DEF Added
    <3> QED BY <3>1, <2>4, <2>5, <1>7, AddHigh
  <2>7. \A i \in 1 .. Len(t) : t[i] <= v
    BY <2>6, <1>8, InsertNumbered
  <2>8. Numbered'
    <3>1. Stream' = t
      BY <2>1, <2>2, <2>4, <1>1, <1>7 DEF Stream
    <3> QED BY <3>1, <2>7, <1>3, <1>4 DEF Numbered
  <2>9. Order'
    <3>1. CASE Whole(s) /\ Cut(s, Len(w) + Len(h))
      <4>1. Whole(t) /\ Cut(t, q + SIZE)
        BY <3>1, <2>5, <2>6, <1>8, InsertWhole
      <4>2. q + SIZE = Len(w) + Len(g)
        <5>1. PICK a \in Nat, b \in Nat : a = Len(w) /\ b = Len(h)
          BY LenProperties
        <5>2. a + b + SIZE = a + (b + SIZE)
          BY <1>a
        <5> QED BY <5>1, <5>2, <2>3, <2>5
      <4>3. Stream' = t
        BY <2>1, <2>2, <2>4, <1>1, <1>7 DEF Stream
      <4> QED BY <4>1, <4>2, <4>3, <2>1, <2>2, <1>1, <1>7 DEF Order
    <3>2. CASE l # <<>> /\ First(l) # SIZE
      BY <3>2, <2>1 DEF Order
    <3> QED BY <3>1, <3>2, <1>9
  <2>10. WbExact'
    <3>1. PICK b \in Nat, c \in Nat : b = Len(h) /\ c = Len(l)
      BY LenProperties
    <3>2. wb_size = b + c
      BY <3>1, <1>1, <1>7 DEF IInv, WbExact
    <3>3. b + c + SIZE = b + SIZE + c
      BY <1>a
    <3> QED BY <3>1, <3>2, <3>3, <2>1, <2>2, <2>3 DEF WbExact
  <2>11. Types'
    BY <2>1, <2>2, <1>1, <1>2, <1>3, <1>a DEF Types
  <2>12. WholeMessages' /\ Gone'
    BY <1>1 DEF IInv, WholeMessages, Gone
  <2> QED BY <2>8, <2>9, <2>10, <2>11, <2>12, <1>10 DEF IInv
<1>12. CASE p = "low"
  <2>1. high' = h /\ low' = l \o us /\ wb_size' = wb_size + SIZE
    BY <1>1, <1>4, <1>5, <1>6, <1>7, <1>12 DEF Append_sendbuffer
  <2>2. PICK m \in Seq(Nat) : m = l \o us
    BY Concat
  <2>3. /\ Len(m) = Len(l) + SIZE
        /\ \A i \in 1 .. Len(l) : m[i] = l[i]
        /\ \A i \in 1 .. SIZE : m[Len(l) + i] = v
    <3>1. /\ Len(m) = Len(l) + Len(us)
          /\ \A i \in 1 .. Len(l) : m[i] = l[i]
          /\ \A i \in 1 .. Len(us) : m[Len(l) + i] = us[i]
      BY <2>2, Concat
    <3> QED BY <3>1, <1>6
  <2>4. PICK t \in Seq(Nat) : t = (w \o h) \o m /\ Parts(w, h, m, t)
    BY Join
  <2>5. PICK q \in 0 .. Len(s) : q = Len(s)
    BY LenProperties
  <2>6. Insert(s, t, q, v)
    <3>1. Insert(s, t, Len(s), v)
      <4>1. Added(l, m, v)
        BY <2>3 DEF Added
      <4> QED BY <4>1, <2>4, <1>7, AddLow
    <3> QED BY <3>1, <2>5
  <2>7. \A i \in 1 .. Len(t) : t[i] <= v
    BY <2>6, <1>8, InsertNumbered
  <2>s. Stream' = t
    BY <2>1, <2>2, <2>4, <1>1, <1>7 DEF Stream
  <2>8. Numbered'
    BY <2>s, <2>7, <1>3, <1>4 DEF Numbered
  <2>9. Order'
    <3>1. CASE Whole(s) /\ Cut(s, Len(w) + Len(h))
      <4>1. Cut(s, q)
        BY <2>5, LenProperties DEF Cut
      <4>2. PICK d \in 0 .. q : d = Len(w) + Len(h)
        <5>1. PICK a \in Nat, b \in Nat, c \in Nat : a = Len(w) /\ b = Len(h) /\ c = Len(l)
          BY LenProperties
        <5>2. a + b + c = q
          BY <5>1, <2>5, <1>7 DEF Parts
        <5>3. a + b \in 0 .. q
          BY <5>2
        <5> QED BY <5>1, <5>3
      <4>3. Whole(t) /\ \A r \in 0 .. q : Cut(s, r) => Cut(t, r)
        BY <3>1, <4>1, <2>6, <1>8, InsertWhole
      <4>4. Cut(t, Len(w) + Len(h))
        BY <4>2, <4>3, <3>1
      <4> QED BY <4>3, <4>4, <2>s, <2>1, <1>1, <1>7 DEF Order
    <3>2. CASE l # <<>> /\ First(l) # SIZE
      <4>1. ASSUME NEW i \in 1 .. Len(l) PROVE l[i] # v
        <5>1. PICK a \in Nat, b \in Nat, c \in Nat : a = Len(w) /\ b = Len(h) /\ c = Len(l)
          BY LenProperties
        <5>2. a + b + c = Len(s) /\ l[i] = s[a + b + i]
          BY <5>1, <1>7 DEF Parts
        <5>3. a + b + i \in 1 .. a + b + c
          BY <5>1
        <5> QED BY <5>2, <5>3, <1>8
      <4>2. ASSUME NEW i \in 1 .. Len(m), i > Len(l) PROVE m[i] = v
        <5>1. PICK c \in Nat : c = Len(l)
          BY LenProperties
        <5>2. i - c \in 1 .. SIZE
          BY <4>2, <5>1, <2>3, <1>a
        <5>3. PICK j \in 1 .. SIZE : j = i - c
          BY <5>2
        <5>4. i = c + j
          BY <5>3, <1>a
        <5> QED BY <5>1, <5>4, <2>3
      <4>3. Len(l) <= Len(m)
        <5>1. PICK c \in Nat : c = Len(l)
          BY LenProperties
        <5>2. c <= c + SIZE
          BY <1>a
        <5> QED BY <5>1, <5>2, <2>3
      <4>4. First(m) = First(l) /\ m # <<>>
        BY <3>2, <4>1, <4>2, <4>3, <2>3, FirstAppend
      <4> QED BY <4>4, <3>2, <2>1, <2>2 DEF Order
    <3> QED BY <3>1, <3>2, <1>9
  <2>10. WbExact'
    <3>1. PICK b \in Nat, c \in Nat : b = Len(h) /\ c = Len(l)
      BY LenProperties
    <3>2. wb_size = b + c
      BY <3>1, <1>1, <1>7 DEF IInv, WbExact
    <3>3. b + c + SIZE = b + (c + SIZE)
      BY <1>a
    <3> QED BY <3>1, <3>2, <3>3, <2>1, <2>2, <2>3 DEF WbExact
  <2>11. Types'
    BY <2>1, <2>2, <1>1, <1>2, <1>3, <1>a DEF Types
  <2>12. WholeMessages' /\ Gone'
    BY <1>1 DEF IInv, WholeMessages, Gone
  <2> QED BY <2>8, <2>9, <2>10, <2>11, <2>12, <1>10 DEF IInv
<1> QED BY <1>11, <1>12

\* socket_req_send with nothing waiting: the kernel took k units of the
\* message, and the rest is in the list of its priority.
LEMMA DirectKeeps ==
    ASSUME IInv, NEW p \in {"high", "low"}, send_direct(p)
    PROVE  IInv'
<1>1. /\ type = "opened" /\ high = <<>> /\ low = <<>> /\ prio' = Append(prio, p)
      /\ type' = type /\ bound' = bound
  BY DEF send_direct, NewMessage
<1>2. Types /\ Numbered
  BY DEF IInv
<1>3. /\ prio' \in Seq({"high", "low"}) /\ Len(prio') = Len(prio) + 1 /\ Len(prio) \in Nat
      /\ \A i \in 1 .. Len(Stream) :
            /\ Stream[i] # Len(prio) + 1
            /\ Stream[i] \in Nat /\ Stream[i] <= Len(prio) + 1
  BY <1>1, <1>2, NextNumber
<1>4. PICK v \in Nat : v = Len(prio) + 1
  BY <1>3
<1>5. PICK us \in Seq(Nat) : us = Units(v)
  BY UnitsFacts
<1>6. Len(us) = SIZE /\ \A i \in 1 .. SIZE : us[i] = v
  BY <1>5, UnitsFacts
<1>a. SIZE \in Nat /\ SIZE > 1
  BY SendAssumption
<1>e. PICK e \in Seq(Nat) : e = <<>> /\ Len(e) = 0
  BY EmptySeq
<1>7. PICK w \in Seq(Nat), s \in Seq(Nat) : w = wire /\ s = Stream /\ Parts(w, e, e, s)
  BY <1>1, <1>2, <1>e, StreamParts
<1>8. \A i \in 1 .. Len(s) : s[i] # v /\ s[i] <= v
  BY <1>3, <1>4, <1>7
<1>9. PICK q \in Nat : q = Len(w) /\ q = Len(w) + Len(e)
  BY <1>e, LenProperties
<1>10. Whole(s) /\ Cut(s, q)
  BY <1>1, <1>7, <1>9, <1>e DEF IInv, Order
<1>11. PICK t \in Seq(Nat) : Parts(w, us, e, t)
  BY Join
<1>12. Added(e, us, v)
  <2>1. 0 + SIZE = SIZE /\ \A i \in 1 .. SIZE : 0 + i = i
    BY <1>a
  <2>2. \A i \in 1 .. 0 : FALSE
    OBVIOUS
  <2> QED BY <2>1, <2>2, <1>6, <1>e DEF Added
<1>13. q \in 0 .. Len(s) /\ Insert(s, t, q, v)
  BY <1>7, <1>9, <1>11, <1>12, AddHigh
<1>14. Whole(t) /\ Cut(t, q + SIZE) /\ Cut(t, q)
  <2>1. /\ Whole(t) /\ Cut(t, q + SIZE)
        /\ \A r \in 0 .. q : Cut(s, r) => Cut(t, r)
    BY <1>8, <1>10, <1>13, InsertWhole
  <2>2. q \in 0 .. q
    OBVIOUS
  <2> QED BY <2>1, <2>2, <1>10
<1>15. \A i \in 1 .. Len(t) : t[i] <= Len(prio')
  <2>1. \A i \in 1 .. Len(t) : t[i] <= v
    BY <1>8, <1>13, InsertNumbered
  <2> QED BY <2>1, <1>3, <1>4
<1>16. PICK k \in Room(SIZE) :
          /\ wire' = wire \o SubSeq(us, 1, k)
          /\ IF k = SIZE THEN UNCHANGED <<lists, wb_size, out>>
             ELSE Append_sendbuffer(p, Drop(us, k)) /\ out' = TRUE
  BY <1>4, <1>5 DEF send_direct
<1>17. k \in 0 .. SIZE
  BY <1>a DEF Room
<1>18. k \in 0 .. Len(us) + Len(e)
  BY <1>17, <1>6, <1>e, <1>a
<1>19. PICK x, g, m : Sent(w, us, e, k, x, g, m)
  BY DEF Sent
<1>20. /\ x \in Seq(Nat) /\ g \in Seq(Nat) /\ m \in Seq(Nat)
       /\ Len(x) = Len(w) + k /\ Parts(x, g, m, t)
       /\ g # <<>> => Len(x) + Len(g) = Len(w) + Len(us)
       /\ g = <<>> => Rest(m, t, Len(x)) /\ (e = <<>> => m = <<>>)
  BY ONLY w \in Seq(Nat), us \in Seq(Nat), e \in Seq(Nat), t \in Seq(Nat),
          <1>11, <1>18, <1>19, Take
<1>21. wire' = x
  <2>1. us \o e = us
    BY <1>e, ConcatEmptySeq
  <2> QED BY <2>1, <1>7, <1>16, <1>19 DEF Sent
<1>22. wb_size = 0
  <2>1. wb_size = Len(high) + Len(low)
    BY <1>1 DEF IInv, WbExact
  <2> QED BY <2>1, <1>1, <1>e
<1>23. CASE k = SIZE
  <2>1. g = <<>> /\ m = <<>>
    BY <1>23, <1>6, <1>a, <1>e, <1>19, <1>20 DEF Sent
  <2>2. high' = e /\ low' = e /\ wb_size' = 0 /\ out' = out
    BY <1>1, <1>16, <1>22, <1>23, <1>e DEF lists
  <2>3. Parts(x, e, e, t)
    BY <2>1, <1>20, <1>e
  <2>4. Cut(t, Len(x) + Len(e))
    <3>1. Len(x) + Len(e) = q + SIZE + 0
      BY <1>9, <1>20, <1>23, <1>e
    <3>2. q + SIZE + 0 = q + SIZE
      BY <1>a
    <3> QED BY <3>1, <3>2, <1>14
  <2>5. Numbered' /\ Order' /\ WholeMessages'
    BY <2>2, <2>3, <2>4, <1>14, <1>15, <1>20, <1>21, Rebuild
  <2>6. Types'
    BY <2>2, <1>1, <1>3, <1>20, <1>21 DEF Types
  <2>7. Armed' /\ Gone' /\ WbExact'
    BY <2>2, <1>1, <1>e DEF Armed, WriteArmed, Gone, WbExact
  <2> QED BY <2>5, <2>6, <2>7 DEF IInv
<1>24. CASE k # SIZE
  <2>1. k < SIZE /\ k < Len(us) /\ 0 < SIZE - k
    BY <1>24, <1>17, <1>6, <1>a
  <2>2. g = Drop(us, k) /\ m = e
    BY <2>1, <1>19 DEF Sent
  <2>3. Len(g) = SIZE - k /\ \A i \in 1 .. SIZE - k : g[i] = v
    <3>1. k \in 0 .. Len(us)
      BY <1>17, <1>6
    <3>2. Len(g) = SIZE - k /\ \A i \in 1 .. SIZE - k : g[i] = us[k + i]
      BY <3>1, <2>2, <1>6, DropTake
    <3>3. \A i \in 1 .. SIZE - k : k + i \in 1 .. SIZE
      BY <1>17, <1>a
    <3> QED BY <3>2, <3>3, <1>6
  <2>4. g # <<>>
    BY <2>1, <2>3, <1>20, NoList
  <2>5. /\ high' = IF p = "high" THEN e \o g ELSE e
        /\ low' = IF p = "low" THEN e \o g ELSE e
        /\ wb_size' = 0 + Len(g) /\ out' = TRUE
    BY <2>2, <1>1, <1>16, <1>22, <1>24, <1>e DEF Append_sendbuffer
  <2>6. e \o g = g
    BY <1>20, <1>e, ConcatEmptySeq
  <2>7. Len(g) \in Nat /\ 0 + Len(g) = Len(g) /\ Len(g) + 0 = Len(g)
    BY <1>20, LenProperties
  <2>8. Numbered' /\ Order' /\ WholeMessages' /\ Types' /\ WbExact'
    <3>1. CASE p = "high"
      <4>1. high' = g /\ low' = e /\ wb_size' = Len(g)
        BY <3>1, <2>5, <2>6, <2>7
      <4>2. Parts(x, g, e, t)
        BY <2>2, <1>20
      <4>3. Cut(t, Len(x) + Len(g))
        BY <2>4, <1>6, <1>9, <1>14, <1>20
      <4>4. Numbered' /\ Order' /\ WholeMessages'
        BY <4>1, <4>2, <4>3, <1>14, <1>15, <1>20, <1>21, Rebuild
      <4>5. Types'
        BY <4>1, <2>7, <1>1, <1>3, <1>20, <1>21 DEF Types
      <4>6. WbExact'
        BY <4>1, <2>7, <1>e DEF WbExact
      <4> QED BY <4>4, <4>5, <4>6
    <3>2. CASE p = "low"
      <4>1. high' = e /\ low' = g /\ wb_size' = Len(g)
        BY <3>2, <2>5, <2>6, <2>7
      <4>2. Parts(x, e, g, t)
        BY <2>2, <1>20, <1>e, Swap
      <4>3. \/ Cut(t, Len(x) + Len(e))
            \/ g # <<>> /\ First(g) # SIZE
        <5>1. CASE k = 0
          <6>1. Len(x) + Len(e) = q + 0 + 0
            BY <5>1, <1>9, <1>20, <1>e
          <6>2. q + 0 + 0 = q
            OBVIOUS
          <6> QED BY <6>1, <6>2, <1>14
        <5>2. CASE k # 0
          <6>1. First(g) = Len(g)
            BY <2>3, <2>4, <1>20, FirstSame
          <6>2. SIZE - k # SIZE
            BY <5>2, <1>17, <1>a
          <6> QED BY <6>1, <6>2, <2>3, <2>4
        <5> QED BY <5>1, <5>2
      <4>4. Numbered' /\ Order' /\ WholeMessages'
        BY <4>1, <4>2, <4>3, <1>14, <1>15, <1>20, <1>21, Rebuild
      <4>5. Types'
        BY <4>1, <2>7, <1>1, <1>3, <1>20, <1>21 DEF Types
      <4>6. WbExact'
        BY <4>1, <2>7, <1>e DEF WbExact
      <4> QED BY <4>4, <4>5, <4>6
    <3> QED BY <3>1, <3>2
  <2>9. Armed' /\ Gone'
    BY <2>5, <1>1 DEF Armed, WriteArmed, Gone
  <2> QED BY <2>8, <2>9 DEF IInv
<1> QED BY <1>23, <1>24

-----------------------------------------------------------------------------
(* The invariant *)

LEMMA InitIInv == Init => IInv
<1> SUFFICES ASSUME Init PROVE IInv
  OBVIOUS
<1>1. /\ type \in {"opening", "opened", "bind"} /\ high = <<>> /\ low = <<>> /\ wire = <<>>
      /\ wb_size = 0 /\ prio = <<>>
      /\ (type = "opening" => out) /\ (type = "bind" => bound)
  BY DEF Init
<1>2. <<>> \in Seq(Nat) /\ Len(<<>>) = 0 /\ <<>> \in Seq({"high", "low"})
  BY EmptySeq
<1>3. Types
  BY <1>1, <1>2 DEF Types
<1>4. Stream = <<>>
  BY <1>1, <1>2, ConcatEmptySeq DEF Stream
<1>5. \A i \in 1 .. 0 : FALSE
  OBVIOUS
<1>6. Numbered
  BY <1>2, <1>4, <1>5 DEF Numbered
<1>7. Order
  BY <1>2, <1>4, <1>5 DEF Order, Whole, Cut
<1>8. Armed /\ Gone /\ WbExact
  BY <1>1, <1>2 DEF Armed, WriteArmed, Gone, WbExact
<1>9. WholeMessages
  <2>1. Len(wire) = 0 /\ \A i \in 1 .. 0 - 1 : FALSE
    BY <1>1, <1>2
  <2> QED BY <2>1 DEF WholeMessages
<1> QED BY <1>3, <1>6, <1>7, <1>8, <1>9 DEF IInv

\* How much a write takes is within what waits.
LEMMA RoomFacts ==
    ASSUME Types, NEW k \in Room(Len(high \o low))
    PROVE  k \in 0 .. Len(high) + Len(low)
<1>1. Len(high \o low) = Len(high) + Len(low) /\ Len(high) \in Nat /\ Len(low) \in Nat
  BY Concat, LenProperties DEF Types
<1>2. Len(high) + Len(low) \in Nat
  BY <1>1
<1> QED BY <1>1, <1>2 DEF Room

LEMMA AbortKeeps ==
    ASSUME IInv, Abort, prio' = prio, bound' = bound
    PROVE  IInv'
<1>1. /\ type' = type /\ high' = high /\ low' = low /\ wb_size' = wb_size
      /\ out' = out /\ wire' = wire
  BY DEF Abort, lists
<1>2. prio \in Seq({"high", "low"}) /\ Len(prio) <= Len(prio')
      /\ type \in {"opening", "opened", "bind", "halfclose", "invalid"}
  BY LenProperties DEF IInv, Types
<1>3. Armed'
  BY <1>1 DEF IInv, Armed, WriteArmed
<1> QED BY <1>1, <1>2, <1>3, Stays

LEMMA SendKeeps ==
    ASSUME IInv, NEW p \in {"high", "low"}, send_refused(p) \/ send_error(p)
    PROVE  IInv'
<1>1. prio' = Append(prio, p) /\ bound' = bound
  BY DEF send_refused, send_error, NewMessage
<1>2. prio' \in Seq({"high", "low"}) /\ Len(prio) <= Len(prio')
  BY <1>1, NextNumber DEF IInv
<1>3. CASE send_refused(p)
  <2>1. /\ type' = type /\ high' = high /\ low' = low /\ wb_size' = wb_size
        /\ out' = out /\ wire' = wire
    BY <1>3 DEF send_refused, lists
  <2>2. Armed'
    BY <2>1, <1>1 DEF IInv, Armed, WriteArmed
  <2>3. type \in {"opening", "opened", "bind", "halfclose", "invalid"}
    BY DEF IInv, Types
  <2> QED BY <2>1, <2>2, <2>3, <1>2, Stays
<1>4. CASE send_error(p)
  <2>1. socket_force_close /\ wb_size' = wb_size /\ wire' = wire
    BY <1>4 DEF send_error
  <2> QED BY <2>1, <1>2, ForceClose
<1> QED BY <1>3, <1>4

LEMMA CloseKeeps ==
    ASSUME IInv, socket_req_close
    PROVE  IInv'
<1>1. prio' = prio /\ bound' = bound
  BY DEF socket_req_close
<1>2. /\ Types /\ prio \in Seq({"high", "low"}) /\ Len(prio) <= Len(prio')
      /\ type \in {"opening", "opened", "bind", "halfclose", "invalid"}
  BY <1>1, LenProperties DEF IInv, Types
<1>3. CASE type = "invalid" /\ UNCHANGED <<type, lists, wb_size, out, wire, aborted>>
  <2>1. /\ type' = type /\ high' = high /\ low' = low /\ wb_size' = wb_size
        /\ out' = out /\ wire' = wire
    BY <1>3 DEF lists
  <2>2. Armed'
    BY <2>1, <1>1 DEF IInv, Armed, WriteArmed
  <2> QED BY <2>1, <2>2, <1>1, <1>2, Stays
<1>4. CASE socket_force_close /\ UNCHANGED <<wb_size, wire>>
  BY <1>1, <1>2, <1>4, ForceClose
<1>5. CASE Abort
  BY <1>1, <1>5, AbortKeeps
<1>6. ASSUME high # <<>> \/ low # <<>>, Complete(low), NEW k \in Room(Len(high \o low)),
             NEW o, o = [SendBuffer(k) EXCEPT !.shut = @ \/ (/\ SendBuffer(k).high = <<>>
                                                             /\ SendBuffer(k).low = <<>>)],
             Store(k, o, "halfclose")
      PROVE  IInv'
  <2>1. type # "invalid"
    BY <1>6 DEF IInv, Gone
  <2>2. k \in 0 .. Len(high) + Len(low)
    BY <1>2, RoomFacts
  <2>3. o.high = SendBuffer(k).high /\ o.low = SendBuffer(k).low /\ o.out = SendBuffer(k).out
    BY <1>6 DEF SendBuffer
  <2>4. /\ wire' = wire \o SubSeq(high \o low, 1, k) /\ wb_size' = wb_size - k
        /\ \/ socket_force_close
           \/ /\ type' = "halfclose" /\ high' = SendBuffer(k).high
              /\ low' = SendBuffer(k).low /\ out' = SendBuffer(k).out
    BY <2>3, <1>6 DEF Store
  <2> QED BY <2>1, <2>2, <2>4, <1>1, <1>6, StoreKeeps
<1>7. \/ type = "invalid" /\ UNCHANGED <<type, lists, wb_size, out, wire, aborted>>
      \/ socket_force_close /\ UNCHANGED <<wb_size, wire>>
      \/ Abort
      \/ /\ high # <<>> \/ low # <<>>
         /\ Complete(low)
         /\ \E k \in Room(Len(high \o low)) :
               Store(k, [SendBuffer(k) EXCEPT !.shut = @ \/ (/\ SendBuffer(k).high = <<>>
                                                             /\ SendBuffer(k).low = <<>>)],
                     "halfclose")
  BY DEF socket_req_close
<1> QED BY <1>3, <1>4, <1>5, <1>6, <1>7

LEMMA WriteKeeps ==
    ASSUME IInv, write_event
    PROVE  IInv'
<1>1. prio' = prio /\ bound' = bound /\ type \in {"opened", "halfclose"}
  BY DEF write_event, history
<1>2. Types /\ prio \in Seq({"high", "low"}) /\ Len(prio) <= Len(prio')
  BY <1>1, LenProperties DEF IInv, Types
<1>3. CASE socket_force_close /\ UNCHANGED <<wb_size, wire>>
  BY <1>1, <1>2, <1>3, ForceClose
<1>4. CASE Abort
  BY <1>1, <1>4, AbortKeeps
<1>5. ASSUME Complete(low), NEW k \in 0 .. Len(high) + Len(low), Store(k, SendBuffer(k), type)
      PROVE  IInv'
  <2>1. PICK ty \in {"opened", "halfclose"} : ty = type
    BY <1>1
  <2>2. /\ wire' = wire \o SubSeq(high \o low, 1, k) /\ wb_size' = wb_size - k
        /\ \/ socket_force_close
           \/ /\ type' = ty /\ high' = SendBuffer(k).high
              /\ low' = SendBuffer(k).low /\ out' = SendBuffer(k).out
    BY <2>1, <1>5 DEF Store
  <2> QED BY <2>1, <2>2, <1>1, <1>5, StoreKeeps
<1>6. \/ socket_force_close /\ UNCHANGED <<wb_size, wire>>
      \/ Abort
      \/ /\ Complete(low)
         /\ \/ \E k \in Room(Len(high \o low)) : Store(k, SendBuffer(k), type)
            \/ Store(0, SendBuffer(0), type)
  BY DEF write_event
<1>7. 0 \in 0 .. Len(high) + Len(low)
  <2>1. Len(high) \in Nat /\ Len(low) \in Nat
    BY <1>2, LenProperties DEF Types
  <2> QED BY <2>1
<1>8. \A k \in Room(Len(high \o low)) : k \in 0 .. Len(high) + Len(low)
  BY <1>2, RoomFacts
<1> QED BY <1>3, <1>4, <1>5, <1>6, <1>7, <1>8

LEMMA OtherKeeps ==
    ASSUME IInv, socket_try_open \/ read_close \/ kernel \/ UNCHANGED vars
    PROVE  IInv'
<1>1. prio' = prio /\ bound' = bound /\ wb_size' = wb_size /\ wire' = wire
  BY DEF socket_try_open, read_close, kernel, vars, history
<1>2. /\ prio \in Seq({"high", "low"}) /\ Len(prio) <= Len(prio')
      /\ type \in {"opening", "opened", "bind", "halfclose", "invalid"}
  BY <1>1, LenProperties DEF IInv, Types
<1>3. CASE socket_force_close
  BY <1>1, <1>2, <1>3, ForceClose
<1>4. CASE socket_try_open /\ ~socket_force_close
  <2>1. /\ type = "opening" /\ type' = "opened" /\ high' = high /\ low' = low
        /\ out' = (out /\ ~(high = <<>> /\ low = <<>>))
    BY <1>4 DEF socket_try_open, lists
  <2>2. Armed'
    BY <2>1, <1>1 DEF IInv, Armed, WriteArmed
  <2> QED BY <2>1, <2>2, <1>1, <1>2, Stays
<1>5. CASE kernel \/ UNCHANGED vars
  <2>1. type' = type /\ high' = high /\ low' = low /\ out' = out
    BY <1>5 DEF kernel, vars, lists
  <2>2. Armed'
    BY <2>1, <1>1 DEF IInv, Armed, WriteArmed
  <2> QED BY <2>1, <2>2, <1>1, <1>2, Stays
<1>6. read_close => socket_force_close
  BY DEF read_close
<1> QED BY <1>3, <1>4, <1>5, <1>6

LEMMA NextIInv == IInv /\ [Next]_vars => IInv'
<1> SUFFICES ASSUME IInv, [Next]_vars PROVE IInv'
  OBVIOUS
<1>1. ASSUME NEW p \in {"high", "low"}, send_refused(p) \/ send_error(p) PROVE IInv'
  BY <1>1, SendKeeps
<1>2. ASSUME NEW p \in {"high", "low"}, send_direct(p) PROVE IInv'
  BY <1>2, DirectKeeps
<1>3. ASSUME NEW p \in {"high", "low"}, send_buffered(p) PROVE IInv'
  BY <1>3, BufferedKeeps
<1>4. CASE socket_req_close
  BY <1>4, CloseKeeps
<1>5. CASE write_event
  BY <1>5, WriteKeeps
<1>6. CASE socket_try_open \/ read_close \/ kernel \/ UNCHANGED vars
  BY <1>6, OtherKeeps
<1> QED BY <1>1, <1>2, <1>3, <1>4, <1>5, <1>6 DEF Next, Events

LEMMA Invariance == Spec => []IInv
<1> QED BY InitIInv, NextIInv, PTL DEF Spec

-----------------------------------------------------------------------------
(* Theorems *)

\* However the kernel divides what it takes, and whatever priorities the
\* messages have, socket_send_buffer and the move of a begun buffer from low
\* to high put whole messages on the wire and never mix two.
THEOREM MessagesWhole == Spec => [](WholeMessages)
<1>1. IInv => WholeMessages
  BY DEF IInv
<1> QED BY <1>1, Invariance, PTL

\* The wb_size that socket_append_sendbuffer adds to and the two send
\* functions subtract from is what the two lists of a live socket hold.
THEOREM BufferCounted == Spec => [](WbExact)
<1>1. IInv => WbExact
  BY DEF IInv
<1> QED BY <1>1, Invariance, PTL

\* A socket with data waiting has event_write on, unless its descriptor came
\* from socket_bind: a partial write, a connection that is still being made
\* and a half-closed socket leave nothing behind that no event would send.
THEOREM WriteInterest == Spec => [](WriteArmed)
<1>1. IInv => WriteArmed
  BY DEF IInv, Armed
<1> QED BY <1>1, Invariance, PTL

-----------------------------------------------------------------------------
(* Nothing is lost, repeated or reordered *)

\* The places of message k in a sequence of units.
Places(s, k) == {i \in 1 .. Len(s) : s[i] = k}

\* s holds all units of the messages tk and no other, those of one priority
\* in the order of the messages; pr are the priorities.
Carries(s, tk, pr) ==
    /\ \A i \in 1 .. Len(s) : s[i] \in tk
    /\ \A k \in tk : Cardinality(Places(s, k)) = SIZE
    /\ \A i, j \in 1 .. Len(s) : i < j /\ pr[s[i]] = pr[s[j]] => s[i] <= s[j]

\* Behind the first n units there are only low-priority messages.
LowFrom(s, n, pr) == \A i \in 1 .. Len(s) : i > n => pr[s[i]] = "low"

\* None of them has the priority q.
NoneFrom(s, n, pr, q) == \A i \in 1 .. Len(s) : i > n => pr[s[i]] # q

\* Message n + 1 gets a priority, the others keep theirs.
Extends(pr, new, n) == \A k \in 1 .. n : new[k] = pr[k]

\* Where the units of s are after the message was put in, and where those of t
\* come from.
LEMMA InsertPlaces ==
    ASSUME NEW s \in Seq(Nat), NEW t \in Seq(Nat), NEW p \in 0 .. Len(s), NEW v \in Nat,
           Insert(s, t, p, v)
    PROVE  /\ Len(s) \in Nat /\ Len(t) = Len(s) + SIZE /\ SIZE \in Nat /\ SIZE > 1
           /\ \A i \in 1 .. Len(s) : i <= p => i \in 1 .. Len(t) /\ t[i] = s[i]
           /\ \A i \in 1 .. Len(s) : p < i => i + SIZE \in 1 .. Len(t) /\ t[i + SIZE] = s[i]
           /\ \A i \in 1 .. Len(t) :
                 \/ i <= p /\ i \in 1 .. Len(s) /\ t[i] = s[i]
                 \/ p < i /\ i <= p + SIZE /\ t[i] = v
                 \/ p + SIZE < i /\ i - SIZE \in 1 .. Len(s) /\ t[i] = s[i - SIZE] /\ p < i - SIZE
<1>1. Len(s) \in Nat /\ SIZE \in Nat /\ SIZE > 1
  BY LenProperties, SendAssumption
<1>0. PICK a \in Nat : a = Len(s)
  BY <1>1
<1>2. /\ Len(t) = a + SIZE /\ p \in 0 .. a
      /\ \A i \in 1 .. a + SIZE :
            t[i] = IF i <= p THEN s[i] ELSE IF i <= p + SIZE THEN v ELSE s[i - SIZE]
  BY <1>0 DEF Insert
<1>3. ASSUME NEW i \in 1 .. a, i <= p PROVE i \in 1 .. a + SIZE /\ t[i] = s[i]
  <2>1. i \in 1 .. a + SIZE
    BY <1>1
  <2> QED BY <2>1, <1>2, <1>3
<1>4. ASSUME NEW i \in 1 .. a, p < i PROVE i + SIZE \in 1 .. a + SIZE /\ t[i + SIZE] = s[i]
  <2>1. PICK j \in Int : j = i + SIZE
    BY <1>1
  <2>2. i \in Int /\ 1 <= i /\ i <= a /\ p \in Int /\ p < i /\ SIZE \in Nat
    BY <1>1, <1>2, <1>4
  <2>3. 1 <= j /\ j <= a + SIZE /\ ~(j <= p) /\ ~(j <= p + SIZE) /\ j - SIZE = i
    BY ONLY <2>1, <2>2, a \in Nat
  <2>4. j \in 1 .. a + SIZE
    BY ONLY <2>3, <2>2, j \in Int, a \in Nat
  <2>5. t[j] = s[i]
    BY <2>3, <2>4, <1>2
  <2> QED BY <2>1, <2>4, <2>5
<1>5. ASSUME NEW i \in 1 .. a + SIZE
      PROVE  \/ i <= p /\ i \in 1 .. a /\ t[i] = s[i]
             \/ p < i /\ i <= p + SIZE /\ t[i] = v
             \/ p + SIZE < i /\ i - SIZE \in 1 .. a /\ t[i] = s[i - SIZE] /\ p < i - SIZE
  <2>1. CASE i <= p
    <3>1. i \in 1 .. a
      BY <2>1, <1>2
    <3> QED BY <2>1, <3>1, <1>2
  <2>2. CASE ~(i <= p) /\ i <= p + SIZE
    <3>1. p < i
      BY <2>2, <1>2
    <3> QED BY <2>2, <3>1, <1>2
  <2>3. CASE ~(i <= p) /\ ~(i <= p + SIZE)
    <3>1. p + SIZE < i /\ i - SIZE \in 1 .. a /\ p < i - SIZE
      BY <2>3, <1>1, <1>2
    <3> QED BY <2>3, <3>1, <1>2
  <2> QED BY <2>1, <2>2, <2>3
<1> QED BY <1>0, <1>1, <1>2, <1>3, <1>4, <1>5

\* The other messages have as many units as before.
LEMMA InsertOthers ==
    ASSUME NEW s \in Seq(Nat), NEW t \in Seq(Nat), NEW p \in 0 .. Len(s), NEW v \in Nat,
           Insert(s, t, p, v), NEW k \in Nat, k # v
    PROVE  Cardinality(Places(t, k)) = Cardinality(Places(s, k))
<1>1. /\ Len(s) \in Nat /\ Len(t) = Len(s) + SIZE /\ SIZE \in Nat /\ SIZE > 1
      /\ \A i \in 1 .. Len(s) : i <= p => i \in 1 .. Len(t) /\ t[i] = s[i]
      /\ \A i \in 1 .. Len(s) : p < i => i + SIZE \in 1 .. Len(t) /\ t[i + SIZE] = s[i]
      /\ \A i \in 1 .. Len(t) :
            \/ i <= p /\ i \in 1 .. Len(s) /\ t[i] = s[i]
            \/ p < i /\ i <= p + SIZE /\ t[i] = v
            \/ p + SIZE < i /\ i - SIZE \in 1 .. Len(s) /\ t[i] = s[i - SIZE] /\ p < i - SIZE
  BY InsertPlaces
<1> DEFINE S == Places(s, k)
           T == Places(t, k)
           f == [i \in S |-> IF i <= p THEN i ELSE i + SIZE]
<1>2. ASSUME NEW i \in S PROVE f[i] \in T
  <2>1. i \in 1 .. Len(s) /\ s[i] = k /\ i \in Int /\ p \in Int
    BY DEF Places
  <2>2. CASE i <= p
    BY <2>1, <2>2, <1>1 DEF Places
  <2>3. CASE p < i
    <3>1. f[i] = i + SIZE
      BY <2>1, <2>3
    <3>2. i + SIZE \in 1 .. Len(t) /\ t[i + SIZE] = k
      BY <2>1, <2>3, <1>1
    <3> QED BY <3>1, <3>2 DEF Places
  <2> QED BY <2>1, <2>2, <2>3
<1>3. ASSUME NEW i \in S, NEW j \in S, f[i] = f[j] PROVE i = j
  <2>1. i \in Int /\ j \in Int /\ p \in Int /\ SIZE \in Int /\ SIZE > 1
    BY <1>1 DEF Places
  <2>2. /\ f[i] = IF i <= p THEN i ELSE i + SIZE
        /\ f[j] = IF j <= p THEN j ELSE j + SIZE
    OBVIOUS
  <2> QED BY <2>1, <2>2, <1>3
<1>4. ASSUME NEW j \in T PROVE \E i \in S : f[i] = j
  <2>1. j \in 1 .. Len(t) /\ t[j] = k
    BY DEF Places
  <2>2. CASE j <= p /\ j \in 1 .. Len(s) /\ t[j] = s[j]
    <3>1. j \in S
      BY <2>1, <2>2 DEF Places
    <3> QED BY <3>1, <2>2
  <2>3. CASE p + SIZE < j /\ j - SIZE \in 1 .. Len(s) /\ t[j] = s[j - SIZE] /\ p < j - SIZE
    <3>1. PICK i \in 1 .. Len(s) : i = j - SIZE
      BY <2>3
    <3>2. i \in S /\ ~(i <= p) /\ i + SIZE = j
      BY <3>1, <2>1, <2>3, <1>1 DEF Places
    <3> QED BY <3>2
  <2> QED BY <2>1, <2>2, <2>3, <1>1
<1>5. f \in Bijection(S, T)
  <2>1. f \in [S -> T]
    BY <1>2
  <2> HIDE DEF f
  <2> QED BY <2>1, <1>3, <1>4 DEF Bijection, Injection, Surjection, IsInjective
<1>6. IsFiniteSet(S)
  <2>1. S \subseteq 1 .. Len(s) /\ IsFiniteSet(1 .. Len(s))
    BY <1>1, FS_Interval DEF Places
  <2> QED BY <2>1, FS_Subset
<1> HIDE DEF S, T, f
<1>7. ExistsBijection(S, T)
  BY <1>5 DEF ExistsBijection
<1>8. Cardinality(T) = Cardinality(S)
  BY <1>6, <1>7, FS_Bijection
<1> QED BY <1>8 DEF S, T

\* The new one has SIZE units.
LEMMA InsertNew ==
    ASSUME NEW s \in Seq(Nat), NEW t \in Seq(Nat), NEW p \in 0 .. Len(s), NEW v \in Nat,
           Insert(s, t, p, v), \A i \in 1 .. Len(s) : s[i] # v
    PROVE  Cardinality(Places(t, v)) = SIZE
<1>1. /\ Len(s) \in Nat /\ Len(t) = Len(s) + SIZE /\ SIZE \in Nat /\ SIZE > 1
      /\ \A i \in 1 .. Len(s) : i <= p => i \in 1 .. Len(t) /\ t[i] = s[i]
      /\ \A i \in 1 .. Len(s) : p < i => i + SIZE \in 1 .. Len(t) /\ t[i + SIZE] = s[i]
      /\ \A i \in 1 .. Len(t) :
            \/ i <= p /\ i \in 1 .. Len(s) /\ t[i] = s[i]
            \/ p < i /\ i <= p + SIZE /\ t[i] = v
            \/ p + SIZE < i /\ i - SIZE \in 1 .. Len(s) /\ t[i] = s[i - SIZE] /\ p < i - SIZE
  BY ONLY s \in Seq(Nat), t \in Seq(Nat), p \in 0 .. Len(s), v \in Nat, Insert(s, t, p, v),
          InsertPlaces
<1>2. ASSUME NEW i \in 1 .. Len(t) PROVE (t[i] = v) <=> i \in p + 1 .. p + SIZE
  <2>1. i \in Int /\ p \in Int
    OBVIOUS
  <2>2. CASE i <= p /\ i \in 1 .. Len(s) /\ t[i] = s[i]
    <3>1. t[i] # v
      BY <2>2
    <3> QED BY <3>1, <2>1, <2>2, <1>1
  <2>3. CASE p < i /\ i <= p + SIZE /\ t[i] = v
    BY <2>1, <2>3, <1>1
  <2>4. CASE p + SIZE < i /\ i - SIZE \in 1 .. Len(s) /\ t[i] = s[i - SIZE]
    <3>1. t[i] # v
      BY <2>4
    <3> QED BY <3>1, <2>1, <2>4, <1>1
  <2> QED BY <2>2, <2>3, <2>4, <1>1
<1>3. \A i \in p + 1 .. p + SIZE : i \in 1 .. Len(t)
  BY <1>1
<1>4. Places(t, v) = p + 1 .. p + SIZE
  BY <1>2, <1>3 DEF Places
<1>5. p + 1 \in Int /\ p + SIZE \in Int /\ ~(p + 1 > p + SIZE) /\ p + SIZE - (p + 1) + 1 = SIZE
  BY <1>1
<1>6. Cardinality(p + 1 .. p + SIZE) = SIZE
  <2>1. PICK a \in Int, b \in Int : a = p + 1 /\ b = p + SIZE
    BY <1>5
  <2>2. Cardinality(a .. b) = IF a > b THEN 0 ELSE b - a + 1
    BY FS_Interval
  <2>3. ~(a > b) /\ b - a + 1 = SIZE
    <3>1. p \in Int /\ SIZE \in Int /\ SIZE > 1
      BY <1>1
    <3> QED BY ONLY <2>1, <3>1, a \in Int, b \in Int
  <2>4. Cardinality(a .. b) = SIZE
    BY <2>2, <2>3
  <2> QED BY <2>1, <2>4
<1> QED BY <1>4, <1>6

\* The stream with a new message: in front of no message of its priority.
LEMMA InsertCarries ==
    ASSUME NEW s \in Seq(Nat), NEW t \in Seq(Nat), NEW p \in 0 .. Len(s), NEW v \in Nat,
           Insert(s, t, p, v), NEW pr, NEW n \in Nat, v = n + 1,
           NEW tk \in SUBSET (1 .. n), Carries(s, tk, pr), NEW new, Extends(pr, new, n),
           NoneFrom(s, p, pr, new[v])
    PROVE  Carries(t, tk \cup {v}, new)
<1>1. /\ Len(s) \in Nat /\ Len(t) = Len(s) + SIZE /\ SIZE \in Nat /\ SIZE > 1
      /\ \A i \in 1 .. Len(s) : i <= p => i \in 1 .. Len(t) /\ t[i] = s[i]
      /\ \A i \in 1 .. Len(s) : p < i => i + SIZE \in 1 .. Len(t) /\ t[i + SIZE] = s[i]
      /\ \A i \in 1 .. Len(t) :
            \/ i <= p /\ i \in 1 .. Len(s) /\ t[i] = s[i]
            \/ p < i /\ i <= p + SIZE /\ t[i] = v
            \/ p + SIZE < i /\ i - SIZE \in 1 .. Len(s) /\ t[i] = s[i - SIZE] /\ p < i - SIZE
  BY ONLY s \in Seq(Nat), t \in Seq(Nat), p \in 0 .. Len(s), v \in Nat, Insert(s, t, p, v),
          InsertPlaces
<1>2. /\ \A i \in 1 .. Len(s) : s[i] \in tk
      /\ \A k \in tk : Cardinality(Places(s, k)) = SIZE
      /\ \A i, j \in 1 .. Len(s) : i < j /\ pr[s[i]] = pr[s[j]] => s[i] <= s[j]
  BY DEF Carries
<1>3. \A k \in tk : k \in 1 .. n /\ k \in Nat /\ k # v /\ k <= v /\ new[k] = pr[k]
  <2>1. \A k \in 1 .. n : k \in Nat /\ k # v /\ k <= v
    BY ONLY n \in Nat, v = n + 1
  <2> QED BY <2>1 DEF Extends
<1>4. ASSUME NEW i \in 1 .. Len(t) PROVE t[i] \in tk \cup {v}
  <2>1. \/ i \in 1 .. Len(s) /\ t[i] = s[i]
        \/ t[i] = v
        \/ i - SIZE \in 1 .. Len(s) /\ t[i] = s[i - SIZE]
    BY <1>1
  <2> QED BY <2>1, <1>2
<1>5. ASSUME NEW k \in tk \cup {v} PROVE Cardinality(Places(t, k)) = SIZE
  <2>1. CASE k = v
    <3>1. \A i \in 1 .. Len(s) : s[i] # v
      BY <1>2, <1>3
    <3>2. Cardinality(Places(t, v)) = SIZE
      BY ONLY s \in Seq(Nat), t \in Seq(Nat), p \in 0 .. Len(s), v \in Nat, Insert(s, t, p, v),
              <3>1, InsertNew
    <3> QED BY <2>1, <3>2
  <2>2. CASE k \in tk
    <3>0. k \in Nat /\ k # v
      BY <2>2, <1>3
    <3>1. Cardinality(Places(t, k)) = Cardinality(Places(s, k))
      BY ONLY s \in Seq(Nat), t \in Seq(Nat), p \in 0 .. Len(s), v \in Nat, Insert(s, t, p, v),
              <3>0, InsertOthers
    <3> QED BY <2>2, <3>1, <1>2
  <2> QED BY <2>1, <2>2
<1>6. ASSUME NEW i \in 1 .. Len(t), NEW j \in 1 .. Len(t), i < j, new[t[i]] = new[t[j]]
      PROVE  t[i] <= t[j]
  <2>0. i \in Int /\ j \in Int /\ p \in Int
    OBVIOUS
  <2>1. CASE t[j] = v
    <3>1. t[i] \in tk \cup {v} /\ v <= v
      BY <1>4
    <3> QED BY <2>1, <3>1, <1>3
  <2>2. CASE t[i] = v /\ t[j] # v
    <3>1. p < i
      <4>1. ASSUME i <= p PROVE FALSE
        <5>1. ~(p < i) /\ ~(p + SIZE < i)
          BY <4>1, <2>0, <1>1
        <5>2. i \in 1 .. Len(s) /\ t[i] = s[i]
          BY <5>1, <1>1
        <5> QED BY <5>2, <2>2, <1>2, <1>3
      <4> QED BY <4>1, <2>0
    <3>2. ~(j <= p)
      BY <3>1, <2>0, <1>6
    <3>3. PICK y \in 1 .. Len(s) : t[j] = s[y] /\ p < y
      BY <3>2, <2>2, <1>1
    <3>4. y > p
      BY <3>3, <2>0
    <3>5. pr[s[y]] # new[v] /\ s[y] \in tk
      BY <3>4, <1>2 DEF NoneFrom
    <3> QED BY <3>3, <3>5, <2>2, <1>3, <1>6
  <2>3. CASE t[i] # v /\ t[j] # v
    <3>1. PICK x \in 1 .. Len(s) : t[i] = s[x] /\ ((i <= p /\ x = i) \/ (p + SIZE < i /\ x = i - SIZE /\ p < x))
      BY <2>3, <1>1
    <3>2. PICK y \in 1 .. Len(s) : t[j] = s[y] /\ ((j <= p /\ y = j) \/ (p + SIZE < j /\ y = j - SIZE /\ p < y))
      BY <2>3, <1>1
    <3>3. x < y
      <4>1. x \in Int /\ y \in Int /\ SIZE \in Int /\ SIZE > 1
        BY <1>1
      <4>2. /\ (i <= p /\ x = i) \/ (p + SIZE < i /\ x = i - SIZE /\ p < x)
            /\ (j <= p /\ y = j) \/ (p + SIZE < j /\ y = j - SIZE /\ p < y)
            /\ i < j
        BY <3>1, <3>2, <1>6
      <4> QED BY ONLY <4>1, <4>2, <2>0
    <3>4. s[x] \in tk /\ s[y] \in tk
      BY <1>2
    <3>5. pr[s[x]] = pr[s[y]]
      BY <3>1, <3>2, <3>4, <1>3, <1>6
    <3> QED BY <3>1, <3>2, <3>3, <3>5, <1>2
  <2> QED BY <2>1, <2>2, <2>3
<1> QED BY <1>4, <1>5, <1>6 DEF Carries

\* Nothing but low priority behind b units, after a message was put in where
\* there was nothing else behind a.
LEMMA InsertLow ==
    ASSUME NEW s \in Seq(Nat), NEW t \in Seq(Nat), NEW p \in 0 .. Len(s), NEW v \in Nat,
           Insert(s, t, p, v), NEW pr, NEW n \in Nat, NEW tk \in SUBSET (1 .. n),
           Carries(s, tk, pr), NEW new, Extends(pr, new, n),
           NEW a \in Nat, NEW b \in Nat, LowFrom(s, a, pr),
           \/ b >= p + SIZE /\ b >= a + SIZE
           \/ new[v] = "low" /\ p = Len(s) /\ b >= a
    PROVE  LowFrom(t, b, new)
<1>1. /\ Len(s) \in Nat /\ Len(t) = Len(s) + SIZE /\ SIZE \in Nat /\ SIZE > 1
      /\ \A i \in 1 .. Len(s) : i <= p => i \in 1 .. Len(t) /\ t[i] = s[i]
      /\ \A i \in 1 .. Len(s) : p < i => i + SIZE \in 1 .. Len(t) /\ t[i + SIZE] = s[i]
      /\ \A i \in 1 .. Len(t) :
            \/ i <= p /\ i \in 1 .. Len(s) /\ t[i] = s[i]
            \/ p < i /\ i <= p + SIZE /\ t[i] = v
            \/ p + SIZE < i /\ i - SIZE \in 1 .. Len(s) /\ t[i] = s[i - SIZE] /\ p < i - SIZE
  BY ONLY s \in Seq(Nat), t \in Seq(Nat), p \in 0 .. Len(s), v \in Nat, Insert(s, t, p, v),
          InsertPlaces
<1>2. \A i \in 1 .. Len(s) : i > a => new[s[i]] = "low"
  BY DEF LowFrom, Carries, Extends
<1>3. ASSUME NEW i \in 1 .. Len(t), i > b PROVE new[t[i]] = "low"
  <2>0. i \in Int /\ p \in Int /\ SIZE \in Int /\ SIZE > 1 /\ i > b /\ Len(s) \in Int
    BY <1>1, <1>3
  <2>1. CASE b >= p + SIZE /\ b >= a + SIZE
    <3>1. ~(i <= p) /\ ~(i <= p + SIZE)
      BY ONLY <2>0, <2>1, a \in Nat, b \in Nat
    <3>2. PICK y \in 1 .. Len(s) : y = i - SIZE /\ t[i] = s[y]
      BY <3>1, <1>1
    <3>3. y > a
      BY ONLY <3>2, <2>0, <2>1, a \in Nat, b \in Nat
    <3> QED BY <3>2, <3>3, <1>2
  <2>2. CASE new[v] = "low" /\ p = Len(s) /\ b >= a
    <3>1. i > a
      BY ONLY <2>0, <2>2, a \in Nat, b \in Nat
    <3>2. CASE i \in 1 .. Len(s) /\ t[i] = s[i]
      BY <3>1, <3>2, <1>2
    <3>3. CASE t[i] = v
      BY <3>3, <2>2
    <3>4. ASSUME i - SIZE \in 1 .. Len(s), p < i - SIZE PROVE FALSE
      BY <3>4, <2>0, <2>2
    <3> QED BY <3>2, <3>3, <3>4, <1>1
  <2> QED BY <2>1, <2>2
<1> QED BY <1>3 DEF LowFrom

\* The invariant for the accepted messages: while the socket lives, the stream
\* carries them, and the low list holds nothing of high priority.
StreamInv ==
    /\ taken \in SUBSET (1 .. Len(prio))
    /\ type # "invalid" =>
          Carries(Stream, taken, prio) /\ LowFrom(Stream, Len(wire) + Len(high), prio)

LEMMA StreamIs == StreamInv => StreamExact
  BY DEF StreamInv, StreamExact, Carries, Places, Stream

\* The priorities after another message.
LEMMA NextPriority ==
    ASSUME Types, NEW p \in {"high", "low"}, prio' = Append(prio, p)
    PROVE  /\ Len(prio) \in Nat /\ Len(prio') = Len(prio) + 1
           /\ prio'[Len(prio) + 1] = p /\ \A k \in 1 .. Len(prio) : prio'[k] = prio[k]
           /\ 1 .. Len(prio) \subseteq 1 .. Len(prio') /\ Len(prio) + 1 \in 1 .. Len(prio')
<1>1. PICK r \in Seq({"high", "low"}) : r = prio
  BY DEF Types
<1>2. /\ Len(Append(r, p)) = Len(r) + 1 /\ Len(r) \in Nat
      /\ Append(r, p)[Len(r) + 1] = p /\ \A k \in 1 .. Len(r) : Append(r, p)[k] = r[k]
  BY AppendProperties, LenProperties
<1>3. 1 .. Len(r) \subseteq 1 .. Len(r) + 1 /\ Len(r) + 1 \in 1 .. Len(r) + 1
  BY <1>2
<1> QED BY <1>1, <1>2, <1>3

\* The same stream, of which as much as before or more is ahead of low.
LEMMA SameStream ==
    ASSUME Types, StreamInv, type # "invalid", Stream' = Stream, taken' = taken,
           Len(wire) + Len(high) \in Nat, Len(wire') + Len(high') \in Nat,
           Len(wire') + Len(high') >= Len(wire) + Len(high),
           prio' = prio \/ \E p \in {"high", "low"} : prio' = Append(prio, p)
    PROVE  StreamInv'
<1>1. /\ taken \in SUBSET (1 .. Len(prio))
      /\ Carries(Stream, taken, prio) /\ LowFrom(Stream, Len(wire) + Len(high), prio)
  BY DEF StreamInv
<1>2. 1 .. Len(prio) \subseteq 1 .. Len(prio') /\ \A k \in 1 .. Len(prio) : prio'[k] = prio[k]
  BY NextPriority
<1>3. PICK s \in Seq(Nat) : s = Stream
  BY StreamParts
<1>4. Len(s) \in Nat /\ \A i \in 1 .. Len(s) : s[i] \in taken /\ prio'[s[i]] = prio[s[i]]
  BY <1>1, <1>2, <1>3, LenProperties DEF Carries
<1>5. Carries(s, taken, prio')
  BY <1>1, <1>3, <1>4 DEF Carries
<1>6. LowFrom(s, Len(wire') + Len(high'), prio')
  <2>1. PICK a \in Nat, b \in Nat : a = Len(wire) + Len(high) /\ b = Len(wire') + Len(high') /\ b >= a
    OBVIOUS
  <2>2. \A i \in 1 .. Len(s) : i > a => prio[s[i]] = "low"
    BY <2>1, <1>1, <1>3 DEF LowFrom
  <2>3. \A i \in 1 .. Len(s) : i > b => i > a
    BY <2>1, <1>4
  <2>4. \A i \in 1 .. Len(s) : i > b => prio'[s[i]] = "low"
    BY <2>2, <2>3, <1>4
  <2> QED BY <2>1, <2>4 DEF LowFrom
<1>7. taken' \in SUBSET (1 .. Len(prio'))
  BY <1>1, <1>2
<1> QED BY <1>3, <1>5, <1>6, <1>7 DEF StreamInv

\* A socket that was closed is promised nothing.
LEMMA ClosedStream ==
    ASSUME Types, StreamInv, type' = "invalid", taken' = taken,
           prio' = prio \/ \E p \in {"high", "low"} : prio' = Append(prio, p)
    PROVE  StreamInv'
<1>1. 1 .. Len(prio) \subseteq 1 .. Len(prio')
  BY NextPriority
<1> QED BY <1>1 DEF StreamInv

\* A new message at place q of the stream.
LEMMA NewInStream ==
    ASSUME IInv, StreamInv, type # "invalid", NEW p \in {"high", "low"}, prio' = Append(prio, p),
           taken' = taken \cup {Len(prio) + 1}, Stream' \in Seq(Nat),
           NEW q \in 0 .. Len(Stream), Insert(Stream, Stream', q, Len(prio) + 1),
           Len(wire) + Len(high) \in Nat, Len(wire') + Len(high') \in Nat,
           Len(wire) + Len(high) <= q \/ p = "low",
           \/ /\ Len(wire') + Len(high') >= q + SIZE
              /\ Len(wire') + Len(high') >= Len(wire) + Len(high) + SIZE
           \/ p = "low" /\ q = Len(Stream) /\ Len(wire') + Len(high') >= Len(wire) + Len(high),
           p = "low" => q = Len(Stream)
    PROVE  StreamInv'
<1>1. /\ taken \in SUBSET (1 .. Len(prio))
      /\ Carries(Stream, taken, prio) /\ LowFrom(Stream, Len(wire) + Len(high), prio)
  BY DEF StreamInv
<1>2. /\ Len(prio) \in Nat /\ Len(prio') = Len(prio) + 1
      /\ prio'[Len(prio) + 1] = p /\ \A k \in 1 .. Len(prio) : prio'[k] = prio[k]
      /\ 1 .. Len(prio) \subseteq 1 .. Len(prio') /\ Len(prio) + 1 \in 1 .. Len(prio')
  BY NextPriority DEF IInv
<1>3. PICK s \in Seq(Nat), t \in Seq(Nat) : s = Stream /\ t = Stream'
  BY StreamParts DEF IInv
<1>4. PICK n \in Nat, v \in Nat : n = Len(prio) /\ v = n + 1
  BY <1>2
<1>5. PICK a \in Nat, b \in Nat : a = Len(wire) + Len(high) /\ b = Len(wire') + Len(high')
  OBVIOUS
<1>o. PICK old, new, tk : old = prio /\ new = prio' /\ tk = taken
  OBVIOUS
<1>6. /\ Insert(s, t, q, v) /\ q \in 0 .. Len(s) /\ tk \in SUBSET (1 .. n)
      /\ Carries(s, tk, old) /\ LowFrom(s, a, old)
      /\ new[v] = p /\ Extends(old, new, n)
  BY <1>1, <1>2, <1>3, <1>4, <1>5, <1>o DEF Extends
<1>7. NoneFrom(s, q, old, new[v])
  <2>1. CASE p = "low"
    <3>1. Len(s) \in Nat /\ q = Len(s)
      BY <2>1, <1>3, LenProperties
    <3> QED BY <3>1 DEF NoneFrom
  <2>2. CASE p = "high"
    <3>1. a <= q /\ Len(s) \in Nat
      BY <2>2, <1>3, <1>5, LenProperties
    <3>2. \A i \in 1 .. Len(s) : i > q => i > a
      BY <3>1
    <3> QED BY <3>2, <2>2, <1>6 DEF LowFrom, NoneFrom
  <2> QED BY <2>1, <2>2
<1>8. Carries(t, tk \cup {v}, new)
  BY ONLY s \in Seq(Nat), t \in Seq(Nat), n \in Nat, v \in Nat, <1>4, <1>6, <1>7, InsertCarries
<1>9. LowFrom(t, b, new)
  <2>1. \/ b >= q + SIZE /\ b >= a + SIZE
        \/ new[v] = "low" /\ q = Len(s) /\ b >= a
    BY <1>3, <1>5, <1>6
  <2> QED BY ONLY s \in Seq(Nat), t \in Seq(Nat), a \in Nat, b \in Nat, n \in Nat, v \in Nat,
                  <2>1, <1>6, InsertLow
<1>10. taken' \in SUBSET (1 .. Len(prio'))
  BY <1>1, <1>2
<1> QED BY <1>3, <1>4, <1>5, <1>8, <1>9, <1>10, <1>o DEF StreamInv

\* socket_append_sendbuffer puts the message behind those of its priority.
LEMMA BufferedStream ==
    ASSUME IInv, StreamInv, NEW p \in {"high", "low"}, send_buffered(p)
    PROVE  StreamInv'
<1>1. /\ type # "invalid" /\ prio' = Append(prio, p) /\ taken' = taken \cup {Len(prio) + 1}
      /\ Append_sendbuffer(p, Units(Len(prio) + 1)) /\ wire' = wire
  BY DEF send_buffered, NewMessage
<1>2. Types /\ Len(prio) \in Nat
  BY <1>1, NextPriority DEF IInv
<1>3. PICK v \in Nat : v = Len(prio) + 1
  BY <1>2
<1>4. PICK us \in Seq(Nat) : us = Units(v) /\ Len(us) = SIZE /\ \A i \in 1 .. SIZE : us[i] = v
  BY UnitsFacts
<1>5. PICK w \in Seq(Nat), h \in Seq(Nat), l \in Seq(Nat), s \in Seq(Nat) :
         w = wire /\ h = high /\ l = low /\ s = Stream /\ Parts(w, h, l, s)
  BY <1>2, StreamParts
<1>6. PICK a \in Nat, b \in Nat, c \in Nat : a = Len(w) /\ b = Len(h) /\ c = Len(l)
  BY LenProperties
<1>7. a + b + c = Len(s) /\ SIZE \in Nat
  BY <1>5, <1>6, SendAssumption DEF Parts
<1>8. ASSUME NEW f \in Seq(Nat) PROVE f \o us \in Seq(Nat) /\ Added(f, f \o us, v)
  <2>1. /\ f \o us \in Seq(Nat) /\ Len(f \o us) = Len(f) + Len(us)
        /\ \A i \in 1 .. Len(f) : (f \o us)[i] = f[i]
        /\ \A i \in 1 .. Len(us) : (f \o us)[Len(f) + i] = us[i]
    BY Concat
  <2> QED BY <2>1, <1>4 DEF Added
<1>9. CASE p = "high"
  <2>1. PICK g \in Seq(Nat) : g = h \o us /\ Added(h, g, v)
    BY <1>8
  <2>2. high' = g /\ low' = l
    BY <2>1, <1>1, <1>3, <1>4, <1>5, <1>9 DEF Append_sendbuffer
  <2>3. PICK t \in Seq(Nat) : t = (w \o g) \o l /\ Parts(w, g, l, t)
    BY Join
  <2>4. Stream' = t
    BY <2>2, <2>3, <1>1, <1>5 DEF Stream
  <2>5. PICK q \in Nat : q = a + b /\ q = Len(w) + Len(h)
    BY <1>6
  <2>6. q \in 0 .. Len(s) /\ Insert(s, t, q, v)
    BY <2>1, <2>3, <2>5, <1>5, AddHigh
  <2>7. Len(g) = b + SIZE
    BY <2>1, <1>6 DEF Added
  <2>8. /\ a + b \in Nat /\ a + (b + SIZE) \in Nat /\ a + b <= q
        /\ a + (b + SIZE) >= q + SIZE /\ a + (b + SIZE) >= a + b + SIZE
    BY ONLY a \in Nat, b \in Nat, <1>7, <2>5
  <2>9. Len(wire) + Len(high) = a + b /\ Len(wire') + Len(high') = a + (b + SIZE)
    BY <2>2, <2>7, <1>1, <1>5, <1>6
  <2> QED BY <2>4, <2>6, <2>8, <2>9, <1>1, <1>3, <1>5, <1>9, NewInStream
<1>10. CASE p = "low"
  <2>1. PICK m \in Seq(Nat) : m = l \o us /\ Added(l, m, v)
    BY <1>8
  <2>2. high' = h /\ low' = m
    BY <2>1, <1>1, <1>3, <1>4, <1>5, <1>10 DEF Append_sendbuffer
  <2>3. PICK t \in Seq(Nat) : t = (w \o h) \o m /\ Parts(w, h, m, t)
    BY Join
  <2>4. Stream' = t
    BY <2>2, <2>3, <1>1, <1>5 DEF Stream
  <2>5. PICK q \in 0 .. Len(s) : q = Len(s)
    BY LenProperties
  <2>6. Insert(s, t, q, v)
    <3>1. Insert(s, t, Len(s), v)
      BY <2>1, <2>3, <1>5, AddLow
    <3> QED BY <3>1, <2>5
  <2>7. a + b \in Nat /\ a + b >= a + b
    OBVIOUS
  <2>8. Len(wire) + Len(high) = a + b /\ Len(wire') + Len(high') = a + b
    BY <2>2, <1>1, <1>5, <1>6
  <2> QED BY <2>4, <2>5, <2>6, <2>7, <2>8, <1>1, <1>3, <1>5, <1>10, NewInStream
<1> QED BY <1>9, <1>10

\* socket_send_buffer changes what of the stream is on the wire, not the stream.
LEMMA StoredStream ==
    ASSUME IInv, StreamInv, type # "invalid", Complete(low), NEW k \in 0 .. Len(high) + Len(low),
           wire' = wire \o SubSeq(high \o low, 1, k), prio' = prio, taken' = taken,
           \/ socket_force_close
           \/ high' = SendBuffer(k).high /\ low' = SendBuffer(k).low
    PROVE  StreamInv'
<1>1. CASE socket_force_close
  BY <1>1, ClosedStream DEF socket_force_close, IInv
<1>2. CASE high' = SendBuffer(k).high /\ low' = SendBuffer(k).low
  <2>1. PICK w \in Seq(Nat), h \in Seq(Nat), l \in Seq(Nat), t \in Seq(Nat) :
           w = wire /\ h = high /\ l = low /\ t = Stream /\ Parts(w, h, l, t)
    BY StreamParts DEF IInv
  <2>2. Whole(t) /\ Cut(t, Len(w) + Len(h))
    BY <2>1 DEF IInv, Order, Complete
  <2>3. k \in 0 .. Len(h) + Len(l)
    BY <2>1
  <2>4. PICK x, g, m : Sent(w, h, l, k, x, g, m)
    BY DEF Sent
  <2>5. PICK n, y, z : Moved(g, m, n, y, z)
    BY DEF Moved
  <2>6. /\ x \in Seq(Nat) /\ y \in Seq(Nat) /\ z \in Seq(Nat)
        /\ Parts(x, y, z, t) /\ Cut(t, Len(x) + Len(y))
        /\ Len(x) = Len(w) + k
        /\ g = <<>> /\ l = <<>> => y = <<>> /\ z = <<>>
    BY ONLY w \in Seq(Nat), h \in Seq(Nat), l \in Seq(Nat), t \in Seq(Nat),
            <2>1, <2>2, <2>3, <2>4, <2>5, SendParts
  <2>7. wire' = x /\ high' = y /\ low' = z
    BY <2>1, <2>4, <2>5, <1>2 DEF SendBuffer, Sent, Moved
  <2>8. Stream' = Stream
    <3>1. (x \o y) \o z = t
      BY ONLY t \in Seq(Nat), <2>6, SameParts
    <3> QED BY <3>1, <2>1, <2>7 DEF Stream
  <2>9. PICK a \in Nat, b \in Nat, d \in Nat, e \in Nat :
           a = Len(w) /\ b = Len(h) /\ d = Len(x) /\ e = Len(y)
    BY <2>6, LenProperties
  <2>10. d = a + k /\ k \in Nat
    BY <2>3, <2>6, <2>9
  <2>11. d + e >= a + b
    <3>1. CASE k < b
      <4>0. Parts(w, h, l, t)
        BY <2>1
      <4>1. /\ x \in Seq(Nat) /\ g \in Seq(Nat) /\ m \in Seq(Nat)
            /\ Len(x) = Len(w) + k /\ Parts(x, g, m, t)
            /\ g # <<>> => Len(x) + Len(g) = Len(w) + Len(h)
            /\ g = <<>> => Rest(m, t, Len(x)) /\ (l = <<>> => m = <<>>)
        BY ONLY w \in Seq(Nat), h \in Seq(Nat), l \in Seq(Nat), t \in Seq(Nat),
                <4>0, <2>3, <2>4, Take
      <4>2. g = Drop(h, k) /\ k \in 0 .. Len(h)
        BY <3>1, <2>4, <2>9, <2>10 DEF Sent
      <4>3. Len(g) = b - k
        BY <4>2, <2>9, DropTake
      <4>4. g # <<>>
        BY <4>1, <4>3, <3>1, <2>10, NoList
      <4>5. n = 0 /\ y = g \o SubSeq(m, 1, n)
        BY <4>4, <2>5 DEF Moved
      <4>6. 0 \in 0 .. Len(m)
        BY <4>1, LenProperties
      <4>7. SubSeq(m, 1, 0) \in Seq(Nat) /\ Len(SubSeq(m, 1, 0)) = 0
        BY <4>1, <4>6, DropTake
      <4>8. Len(y) = Len(g) + 0
        BY <4>1, <4>5, <4>7, Concat
      <4>9. e = b - k + 0
        BY <4>3, <4>8, <2>9
      <4> QED BY ONLY <4>9, <2>10, a \in Nat, b \in Nat, d \in Nat, e \in Nat
    <3>2. CASE ~(k < b)
      BY ONLY <3>2, <2>10, a \in Nat, b \in Nat, d \in Nat, e \in Nat
    <3> QED BY <3>1, <3>2
  <2>12. Len(wire) + Len(high) = a + b /\ Len(wire') + Len(high') = d + e
    BY <2>1, <2>7, <2>9
  <2>13. a + b \in Nat /\ d + e \in Nat
    OBVIOUS
  <2> QED BY <2>8, <2>11, <2>12, <2>13, SameStream DEF IInv
<1> QED BY <1>1, <1>2

\* socket_req_send with nothing waiting puts the message at the end, whatever
\* the kernel took of it.
LEMMA DirectStream ==
    ASSUME IInv, StreamInv, NEW p \in {"high", "low"}, send_direct(p)
    PROVE  StreamInv'
<1>1. /\ type = "opened" /\ high = <<>> /\ low = <<>> /\ prio' = Append(prio, p)
      /\ taken' = taken \cup {Len(prio) + 1}
  BY DEF send_direct, NewMessage
<1>2. Types /\ Len(prio) \in Nat
  BY <1>1, NextPriority DEF IInv
<1>3. PICK v \in Nat : v = Len(prio) + 1
  BY <1>2
<1>4. PICK us \in Seq(Nat) : us = Units(v) /\ Len(us) = SIZE /\ \A i \in 1 .. SIZE : us[i] = v
  BY UnitsFacts
<1>a. SIZE \in Nat /\ SIZE > 1
  BY SendAssumption
<1>e. PICK e \in Seq(Nat) : e = <<>> /\ Len(e) = 0
  BY EmptySeq
<1>5. PICK w \in Seq(Nat), s \in Seq(Nat) : w = wire /\ s = Stream /\ Parts(w, e, e, s)
  BY <1>1, <1>2, <1>e, StreamParts
<1>6. PICK q \in Nat : q = Len(w) /\ q = Len(w) + Len(e)
  BY <1>e, LenProperties
<1>7. q = Len(s)
  <2>1. Len(s) = q + 0
    BY <1>5, <1>6, <1>e DEF Parts
  <2> QED BY <2>1
<1>8. PICK t \in Seq(Nat) : Parts(w, us, e, t)
  BY Join
<1>9. Added(e, us, v)
  <2>1. 0 + SIZE = SIZE /\ \A i \in 1 .. SIZE : 0 + i = i
    BY <1>a
  <2>2. \A i \in 1 .. 0 : FALSE
    OBVIOUS
  <2> QED BY <2>1, <2>2, <1>4, <1>e DEF Added
<1>10. q \in 0 .. Len(s) /\ Insert(s, t, q, v)
  BY <1>5, <1>6, <1>8, <1>9, AddHigh
<1>11. PICK k \in Room(SIZE) :
          /\ wire' = wire \o SubSeq(us, 1, k)
          /\ IF k = SIZE THEN UNCHANGED <<lists, wb_size, out>>
             ELSE Append_sendbuffer(p, Drop(us, k)) /\ out' = TRUE
  BY <1>3, <1>4 DEF send_direct
<1>12. k \in 0 .. SIZE
  BY <1>a DEF Room
<1>13. k \in 0 .. Len(us) + Len(e)
  BY <1>12, <1>4, <1>e, <1>a
<1>14. PICK x, g, m : Sent(w, us, e, k, x, g, m)
  BY DEF Sent
<1>15. /\ x \in Seq(Nat) /\ g \in Seq(Nat) /\ m \in Seq(Nat)
       /\ Len(x) = Len(w) + k /\ Parts(x, g, m, t)
       /\ g # <<>> => Len(x) + Len(g) = Len(w) + Len(us)
       /\ g = <<>> => Rest(m, t, Len(x)) /\ (e = <<>> => m = <<>>)
  BY ONLY w \in Seq(Nat), us \in Seq(Nat), e \in Seq(Nat), t \in Seq(Nat),
          <1>8, <1>13, <1>14, Take
<1>16. wire' = x
  <2>1. us \o e = us
    BY <1>e, ConcatEmptySeq
  <2> QED BY <2>1, <1>5, <1>11, <1>14 DEF Sent
<1>17. Len(wire) + Len(high) = q
  BY <1>1, <1>5, <1>6, <1>e
<1>18. CASE k = SIZE
  <2>1. g = <<>> /\ m = <<>>
    BY <1>18, <1>4, <1>a, <1>e, <1>14, <1>15 DEF Sent
  <2>2. high' = e /\ low' = e /\ Parts(x, e, e, t)
    BY <2>1, <1>1, <1>11, <1>15, <1>18, <1>e DEF lists
  <2>3. Stream' = t
    <3>0. x \in Seq(Nat) /\ Parts(x, e, e, t)
      BY <2>2, <1>15
    <3>1. (x \o e) \o e = t
      BY ONLY e \in Seq(Nat), t \in Seq(Nat), <3>0, SameParts
    <3> QED BY <3>1, <2>2, <1>16 DEF Stream
  <2>4. Len(wire') + Len(high') = q + SIZE + 0
    BY <2>2, <1>6, <1>15, <1>16, <1>18, <1>e
  <2>5. /\ q + SIZE + 0 \in Nat /\ q <= q
        /\ q + SIZE + 0 >= q + SIZE
    BY ONLY <1>a, q \in Nat
  <2> QED BY <2>3, <2>4, <2>5, <1>1, <1>3, <1>5, <1>7, <1>10, <1>17, NewInStream
<1>19. CASE k # SIZE
  <2>1. k < SIZE /\ k < Len(us) /\ 0 < SIZE - k
    BY <1>19, <1>12, <1>4, <1>a
  <2>2. g = Drop(us, k) /\ m = e
    BY <2>1, <1>14 DEF Sent
  <2>3. /\ high' = IF p = "high" THEN e \o g ELSE e
        /\ low' = IF p = "low" THEN e \o g ELSE e
    BY <2>2, <1>1, <1>11, <1>19, <1>e DEF Append_sendbuffer
  <2>4. e \o g = g
    BY <1>15, <1>e, ConcatEmptySeq
  <2>5. Len(g) = SIZE - k
    <3>1. k \in 0 .. Len(us)
      BY <1>12, <1>4
    <3> QED BY <3>1, <2>2, <1>4, DropTake
  <2>6. CASE p = "high"
    <3>1. high' = g /\ low' = e /\ Parts(x, g, e, t)
      BY <2>2, <2>3, <2>4, <2>6, <1>15
    <3>2. Stream' = t
      <4>0. x \in Seq(Nat) /\ g \in Seq(Nat) /\ Parts(x, g, e, t)
        BY <3>1, <1>15
      <4>1. (x \o g) \o e = t
        BY ONLY e \in Seq(Nat), t \in Seq(Nat), <4>0, SameParts
      <4> QED BY <4>1, <3>1, <1>16 DEF Stream
    <3>3. Len(wire') + Len(high') = q + k + (SIZE - k)
      BY <3>1, <2>5, <1>6, <1>15, <1>16
    <3>4. q + k + (SIZE - k) \in Nat /\ q <= q /\ q + k + (SIZE - k) >= q + SIZE
      BY ONLY <1>a, <1>12, q \in Nat
    <3> QED BY <3>2, <3>3, <3>4, <2>6, <1>1, <1>3, <1>5, <1>10, <1>17, NewInStream
  <2>7. CASE p = "low"
    <3>1. high' = e /\ low' = g
      BY <2>3, <2>4, <2>7
    <3>p. Parts(x, e, g, t)
      BY <2>2, <1>15, <1>e, Swap
    <3>2. Stream' = t
      <4>0. x \in Seq(Nat) /\ g \in Seq(Nat)
        BY <1>15
      <4>1. (x \o e) \o g = t
        BY ONLY e \in Seq(Nat), t \in Seq(Nat), <4>0, <3>p, SameParts
      <4> QED BY <4>1, <3>1, <1>16 DEF Stream
    <3>3. Len(wire') + Len(high') = q + k + 0
      BY <3>1, <1>6, <1>15, <1>16, <1>e
    <3>4. q + k + 0 \in Nat /\ q + k + 0 >= q
      BY ONLY <1>12, <1>a, q \in Nat
    <3> QED BY <3>2, <3>3, <3>4, <2>7, <1>1, <1>3, <1>5, <1>7, <1>10, <1>17, NewInStream
  <2> QED BY <2>6, <2>7
<1> QED BY <1>18, <1>19

\* Nothing moves, or the socket closes.
LEMMA QuietStream ==
    ASSUME IInv, StreamInv, taken' = taken,
           prio' = prio \/ \E p \in {"high", "low"} : prio' = Append(prio, p),
           \/ type' = "invalid"
           \/ type # "invalid" /\ wire' = wire /\ high' = high /\ low' = low
    PROVE  StreamInv'
<1>1. CASE type' = "invalid"
  BY <1>1, ClosedStream DEF IInv
<1>2. CASE type # "invalid" /\ wire' = wire /\ high' = high /\ low' = low
  <2>1. Stream' = Stream
    BY <1>2 DEF Stream
  <2>2. PICK a \in Nat, b \in Nat : a = Len(wire) /\ b = Len(high)
    BY LenProperties DEF IInv, Types
  <2>3. a + b \in Nat /\ a + b >= a + b
    OBVIOUS
  <2> QED BY <1>2, <2>1, <2>2, <2>3, SameStream DEF IInv
<1> QED BY <1>1, <1>2

LEMMA InitStream == Init => StreamInv
<1> SUFFICES ASSUME Init PROVE StreamInv
  OBVIOUS
<1>1. wire = <<>> /\ high = <<>> /\ low = <<>> /\ prio = <<>> /\ taken = {}
  BY DEF Init
<1>2. PICK e \in Seq(Nat) : e = <<>> /\ Len(e) = 0
  BY EmptySeq
<1>3. e \o e = e
  BY <1>2, ConcatEmptySeq
<1>4. Stream = e
  BY <1>1, <1>2, <1>3 DEF Stream
<1>5. \A i \in 1 .. Len(Stream) : FALSE
  BY <1>2, <1>4
<1> QED BY <1>1, <1>5 DEF StreamInv, Carries, LowFrom

LEMMA CloseStream ==
    ASSUME IInv, StreamInv, socket_req_close
    PROVE  StreamInv'
<1>1. prio' = prio /\ taken' = taken
  BY DEF socket_req_close
<1>2. CASE type = "invalid" /\ type' = type
  BY <1>1, <1>2, QuietStream
<1>3. CASE socket_force_close
  BY <1>1, <1>3, QuietStream DEF socket_force_close
<1>4. CASE Abort /\ (high # <<>> \/ low # <<>>)
  BY <1>1, <1>4, QuietStream DEF Abort, lists, IInv, Gone
<1>5. ASSUME high # <<>> \/ low # <<>>, Complete(low), NEW k \in Room(Len(high \o low)),
             NEW o, o = [SendBuffer(k) EXCEPT !.shut = @ \/ (/\ SendBuffer(k).high = <<>>
                                                             /\ SendBuffer(k).low = <<>>)],
             Store(k, o, "halfclose")
      PROVE  StreamInv'
  <2>1. type # "invalid"
    BY <1>5 DEF IInv, Gone
  <2>2. k \in 0 .. Len(high) + Len(low)
    BY RoomFacts DEF IInv
  <2>3. o.high = SendBuffer(k).high /\ o.low = SendBuffer(k).low
    BY <1>5 DEF SendBuffer
  <2>4. /\ wire' = wire \o SubSeq(high \o low, 1, k)
        /\ \/ socket_force_close
           \/ high' = SendBuffer(k).high /\ low' = SendBuffer(k).low
    BY <2>3, <1>5 DEF Store
  <2> QED BY <2>1, <2>2, <2>4, <1>1, <1>5, StoredStream
<1>6. \/ type = "invalid" /\ type' = type
      \/ socket_force_close
      \/ Abort /\ (high # <<>> \/ low # <<>>)
      \/ /\ high # <<>> \/ low # <<>>
         /\ Complete(low)
         /\ \E k \in Room(Len(high \o low)) :
               Store(k, [SendBuffer(k) EXCEPT !.shut = @ \/ (/\ SendBuffer(k).high = <<>>
                                                             /\ SendBuffer(k).low = <<>>)],
                     "halfclose")
  BY DEF socket_req_close
<1> QED BY <1>2, <1>3, <1>4, <1>5, <1>6

LEMMA WriteStream ==
    ASSUME IInv, StreamInv, write_event
    PROVE  StreamInv'
<1>1. prio' = prio /\ taken' = taken /\ type # "invalid"
  BY DEF write_event, history
<1>2. CASE socket_force_close
  BY <1>1, <1>2, QuietStream DEF socket_force_close
<1>3. CASE Abort
  BY <1>1, <1>3, QuietStream DEF Abort, lists
<1>4. ASSUME Complete(low), NEW k \in 0 .. Len(high) + Len(low), Store(k, SendBuffer(k), type)
      PROVE  StreamInv'
  <2>1. /\ wire' = wire \o SubSeq(high \o low, 1, k)
        /\ \/ socket_force_close
           \/ high' = SendBuffer(k).high /\ low' = SendBuffer(k).low
    BY <1>4 DEF Store
  <2> QED BY <2>1, <1>1, <1>4, StoredStream
<1>5. \/ socket_force_close
      \/ Abort
      \/ /\ Complete(low)
         /\ \/ \E k \in Room(Len(high \o low)) : Store(k, SendBuffer(k), type)
            \/ Store(0, SendBuffer(0), type)
  BY DEF write_event
<1>6. 0 \in 0 .. Len(high) + Len(low)
  <2>1. Len(high) \in Nat /\ Len(low) \in Nat
    BY LenProperties DEF IInv, Types
  <2> QED BY <2>1
<1>7. \A k \in Room(Len(high \o low)) : k \in 0 .. Len(high) + Len(low)
  BY RoomFacts DEF IInv
<1> QED BY <1>2, <1>3, <1>4, <1>5, <1>6, <1>7

LEMMA OtherStream ==
    ASSUME IInv, StreamInv, socket_try_open \/ read_close \/ kernel \/ UNCHANGED vars
    PROVE  StreamInv'
<1>1. prio' = prio /\ taken' = taken
  BY DEF socket_try_open, read_close, kernel, vars, history
<1>2. CASE socket_force_close
  BY <1>1, <1>2, QuietStream DEF socket_force_close
<1>3. CASE wire' = wire /\ high' = high /\ low' = low /\ (type = "invalid" => type' = type)
  BY <1>1, <1>3, QuietStream
<1>4. socket_try_open =>
         \/ socket_force_close
         \/ wire' = wire /\ high' = high /\ low' = low /\ type = "opening"
  BY DEF socket_try_open, lists
<1>5. read_close => socket_force_close
  BY DEF read_close
<1>6. kernel \/ UNCHANGED vars => wire' = wire /\ high' = high /\ low' = low /\ type' = type
  BY DEF kernel, vars, lists
<1> QED BY <1>2, <1>3, <1>4, <1>5, <1>6

LEMMA NextStream == IInv /\ StreamInv /\ [Next]_vars => StreamInv'
<1> SUFFICES ASSUME IInv, StreamInv, [Next]_vars PROVE StreamInv'
  OBVIOUS
<1>1. ASSUME NEW p \in {"high", "low"}, send_refused(p) PROVE StreamInv'
  <2>1. /\ prio' = Append(prio, p) /\ taken' = taken /\ type' = type
        /\ wire' = wire /\ high' = high /\ low' = low
    BY <1>1 DEF send_refused, NewMessage, lists
  <2> QED BY <2>1, QuietStream
<1>2. ASSUME NEW p \in {"high", "low"}, send_error(p) PROVE StreamInv'
  <2>1. prio' = Append(prio, p) /\ taken' = taken /\ type' = "invalid"
    BY <1>2 DEF send_error, NewMessage, socket_force_close
  <2> QED BY <2>1, QuietStream
<1>3. ASSUME NEW p \in {"high", "low"}, send_direct(p) PROVE StreamInv'
  BY <1>3, DirectStream
<1>4. ASSUME NEW p \in {"high", "low"}, send_buffered(p) PROVE StreamInv'
  BY <1>4, BufferedStream
<1>5. CASE socket_req_close
  BY <1>5, CloseStream
<1>6. CASE write_event
  BY <1>6, WriteStream
<1>7. CASE socket_try_open \/ read_close \/ kernel \/ UNCHANGED vars
  BY <1>7, OtherStream
<1> QED BY <1>1, <1>2, <1>3, <1>4, <1>5, <1>6, <1>7 DEF Next, Events

\* As long as the socket lives, what the kernel took, then high, then low are
\* exactly the messages socket_req_send took: none is lost or sent twice by a
\* partial write or by the move from low to high, and two messages of one
\* priority leave in the order in which they came.
THEOREM StreamKept == Spec => [](StreamExact)
<1>1. Init => IInv /\ StreamInv
  BY InitIInv, InitStream
<1>2. IInv /\ StreamInv /\ [Next]_vars => IInv' /\ StreamInv'
  BY NextIInv, NextStream
<1>3. StreamInv => StreamExact
  BY StreamIs
<1> QED BY <1>1, <1>2, <1>3, PTL DEF Spec

=============================================================================
