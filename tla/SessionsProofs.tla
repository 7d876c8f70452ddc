--------------------------- MODULE SessionsProofs ---------------------------
(***************************************************************************)
(* Proofs about the session runtime of pixel.lua: a coroutine is resumed   *)
(* only by what it waits for, and one that calls or sleeps is not          *)
(* forgotten; for any number of coroutines and sessions.                   *)
(***************************************************************************)
EXTENDS Sessions, Lemmas

-----------------------------------------------------------------------------
(* Helpers of the model *)

LEMMA MinIs ==
    ASSUME NEW S \in SUBSET Nat, S # {}
    PROVE  Min(S) \in S /\ \A k \in S : Min(S) <= k
  BY Least DEF Min

\* What SetToSeq returns.
LEMMA SetAsSeq ==
    ASSUME NEW T, NEW S \in SUBSET T, IsFiniteSet(S)
    PROVE  SetToSeq(S) \in Seq(T) /\ Range(SetToSeq(S)) = S
<1>1. PICK n \in Nat : n = Cardinality(S)
  BY FS_CardinalityType
<1>2. IsFiniteSet(1 .. n) /\ Cardinality(1 .. n) = n
  <2>1. 1 \in Int /\ n \in Int /\ n - 1 + 1 = n
    OBVIOUS
  <2>2. Cardinality(1 .. n) = IF 1 > n THEN 0 ELSE n - 1 + 1
    BY <2>1, FS_Interval
  <2>3. IsFiniteSet(1 .. n)
    BY <2>1, FS_Interval
  <2> QED BY <2>1, <2>2, <2>3
<1>3. ExistsBijection(1 .. n, S)
  BY <1>1, <1>2, FS_SameCardinalityBij
<1>4. PICK g \in Bijection(1 .. n, S) : TRUE
  BY <1>3 DEF ExistsBijection
<1>5. g \in [1 .. n -> S] /\ IsInjective(g)
  BY <1>4 DEF Bijection, Injection, Surjection, IsInjective
<1>6. PICK f : f = SetToSeq(S)
  OBVIOUS
<1>7. f \in [1 .. n -> S] /\ IsInjective(f)
  BY <1>1, <1>5, <1>6 DEF SetToSeq
<1>8. f \in Injection(1 .. n, S)
  BY <1>7 DEF Injection, IsInjective
<1>9. f \in Surjection(1 .. n, S)
  BY <1>1, <1>2, <1>8, FS_Injection
<1>10. Range(f) = S
  BY <1>9 DEF Surjection, Range
<1>11. f \in Seq(T)
  BY <1>7
<1> QED BY <1>6, <1>10, <1>11

-----------------------------------------------------------------------------
(* The inductive invariant *)

Item == [f : {"resume", "wakeup", "error"}, c : Co \cup {""},
         how : {"", "start", "answer", "break", "error"}, s : Nat]
Message == [t : {"response", "error"}, s : Session]
Waits == {"call", "sleep", "wait"}

TypeOK ==
    /\ aq \in Seq(Message)
    /\ place \in [Co -> [at : Waits \cup {"pool", "dead"}, s : Nat]]
    /\ idco \in [Session -> Co \cup {"nil", "BREAK"}]
    /\ slp \in [Co -> Nat] /\ wak \in SUBSET Co /\ wat \in SUBSET Session
    /\ errq \in Seq(Session) /\ ctl \in Seq(Item) /\ timers \in SUBSET Session
    /\ lastS \in 0 .. MAX_SESSION
    /\ bq \in Seq(Session) /\ bState \in {"up", "killed", "gone"}
    /\ running \in SUBSET Session /\ responded \in SUBSET Session
    /\ unresp \in SUBSET Session /\ told \in SUBSET Session /\ lost \in SUBSET Session
    /\ slept \in SUBSET Co /\ broken \in SUBSET Co

\* The handler resumes c now.
Resumed(c) == ctl # <<>> /\ Head(ctl).f = "resume" /\ Head(ctl).c = c

\* What may still send the caller something about a session.
Traffic == timers \cup {m.s : m \in Range(aq)} \cup Range(bq) \cup running \cup unresp

NoResume(items) == \A t \in Range(items) : t.f \in {"wakeup", "error"}

\* Only the head of the stack is a resume.
Stacked == ctl # <<>> => NoResume(Tail(ctl))

\* It is of a coroutine that waits for it, and dispatch_error_queue has an
\* error to take.
Stack ==
    ctl # <<>> =>
        /\ Head(ctl).f = "error" => errq # <<>>
        /\ Head(ctl).f = "resume" =>
            /\ Head(ctl).c \in Co
            /\ Head(ctl).how \in {"start", "answer", "break", "error"}
            /\ Fits(place[Head(ctl).c], Head(ctl))

\* session_id_coroutine holds exactly the coroutines that wait and are not
\* resumed yet, each under its session.
Ids ==
    \A s \in Session, c \in Co :
        idco[s] = c <=> place[c].at \in Waits /\ place[c].s = s /\ ~Resumed(c)

\* No session is used before it is allocated.
Old ==
    /\ \A s \in Session : s > lastS => idco[s] = "nil"
    /\ Traffic \cup wat \cup Range(errq) \cup told \cup responded \subseteq 1 .. lastS
    /\ \A c \in Co : place[c].s \in 0 .. lastS /\ slp[c] \in 0 .. lastS
    /\ \A c \in Co : place[c].at \in Waits => place[c].s \in 1 .. lastS

\* Who waits for what: nothing is on the way to a waiter, no error reaches a
\* sleeper or waiter, and a caller watches its session.
Kinds ==
    \A c \in Co :
        /\ place[c].at = "wait" => place[c].s \notin Traffic
        /\ place[c].at \in {"sleep", "wait"} => place[c].s \notin wat \cup Range(errq)
        /\ place[c].at = "call" => place[c].s \in wat

Distinct ==
    \A c, d \in Co :
        place[c].at \in Waits /\ place[d].at \in Waits /\ place[c].s = place[d].s => c = d

Sleeping ==
    \A c \in Co :
        /\ place[c].at \in {"sleep", "wait"} => slp[c] = place[c].s /\ c \notin slept
        /\ place[c].at \notin {"sleep", "wait"} /\ slp[c] # 0 => c \in slept

\* The called service takes each request once.
Served == IsInjective(bq) /\ Range(bq) \cap (running \cup responded) = {}

Coming(c) ==
    \/ Msg("response", place[c].s) \in Range(aq)
    \/ Msg("error", place[c].s) \in Range(aq)
    \/ place[c].s \in Range(errq)
    \/ Resumed(c)

\* What pixel.exit has told a caller has not been lost.
Told == \A c \in Co : place[c].at = "call" /\ place[c].s \in told => Coming(c)

\* CallKept, with the head of the stack for the stack.
Kept ==
    \A c \in Co \ broken :
        /\ place[c].at = "call" =>
            \/ place[c].s \in Range(bq) \cup (running \ responded) \cup unresp \cup lost
            \/ Coming(c)
        /\ place[c].at = "sleep" =>
            \/ place[c].s \in timers \/ Msg("response", place[c].s) \in Range(aq)
            \/ Resumed(c)

Whole == Stack /\ Ids /\ Old /\ Kinds /\ Distinct /\ Sleeping /\ Served /\ Told

\* The one exception, a coroutine woken through what pixel.sleep left behind,
\* ends the behaviour: then only the two properties are left.
IInv == TypeOK /\ ResumeExact /\ Stacked /\ Kept /\ (broken = {} => Whole)

-----------------------------------------------------------------------------
(* The stack *)

LEMMA SuspendedType == Suspended \in Seq(Item) /\ NoResume(Suspended)
<1>1. Suspended \in Seq(Item)
  BY DEF Suspended, Todo, Item
<1>2. PICK x, y : x = Todo("wakeup", "", "", 0) /\ y = Todo("error", "", "", 0)
  OBVIOUS
<1>a. Suspended = <<x, y>>
  BY <1>2 DEF Suspended
<1>b. x.f = "wakeup" /\ y.f = "error"
  BY <1>2 DEF Todo
<1>3. \A i \in DOMAIN Suspended : Suspended[i] = x \/ Suspended[i] = y
  BY <1>a
<1> QED BY <1>1, <1>b, <1>3 DEF NoResume, Range

\* What is left of a stack without resumes: no resume, and something to do.
LEMMA SettledIs ==
    ASSUME NEW stack \in Seq(Item), NoResume(stack), NEW woken, NEW errors
    PROVE  LET r == Settled(stack, woken, errors) IN
           /\ r \in Seq(Item) /\ NoResume(r)
           /\ r # <<>> => Head(r).f # "resume" /\ (Head(r).f = "error" => errors # <<>>)
<1> DEFINE busy == {i \in DOMAIN stack : ~Idle(stack[i], woken, errors)}
           r == Settled(stack, woken, errors)
<1>1. CASE busy = {}
  <2>1. r = <<>>
    BY <1>1 DEF Settled
  <2>2. NoResume(<<>>)
    BY RangeOfEmpty DEF NoResume
  <2> QED BY <2>1, <2>2
<1>2. CASE busy # {}
  <2> DEFINE m == Min(busy)
  <2>1. PICK n \in Nat : n = Len(stack) /\ DOMAIN stack = 1 .. n
    OBVIOUS
  <2>2. busy \in SUBSET Nat
    BY <2>1
  <2>3. m \in busy
    BY <1>2, <2>2, MinIs
  <2> HIDE DEF m
  <2>4. m \in 1 .. n /\ ~Idle(stack[m], woken, errors)
    BY <2>1, <2>3
  <2>5. r = SubSeq(stack, m, n)
    BY <1>2, <2>1 DEF Settled, m
  <2> HIDE DEF r, busy
  <2>6. PICK k \in Nat : k = n - m
    BY <2>4
  <2>7. /\ r \in Seq(Item) /\ Len(r) = k + 1 /\ DOMAIN r = 1 .. k + 1
        /\ \A i \in 1 .. k + 1 : r[i] = stack[m + i - 1]
    <3>1. \A i \in m .. n : stack[i] \in Item
      BY <2>1, <2>4
    <3> QED BY <2>1, <2>4, <2>5, <2>6, <3>1
  <2>8. \A i \in 1 .. k + 1 : m + i - 1 \in 1 .. n
    BY <2>4, <2>6
  <2>9. \A i \in 1 .. n : stack[i].f \in {"wakeup", "error"}
    BY <2>1 DEF NoResume, Range
  <2>10. NoResume(r)
    BY <2>7, <2>8, <2>9 DEF NoResume, Range
  <2>11. r # <<>> /\ Head(r) = stack[m]
    <3>1. r # <<>> /\ Head(r) = r[1]
      BY <2>7
    <3>2. r[1] = stack[m + 1 - 1] /\ m + 1 - 1 = m
      BY <2>4, <2>7
    <3> QED BY <3>1, <3>2
  <2>12. Head(r).f # "resume" /\ (Head(r).f = "error" => errors # <<>>)
    BY <2>4, <2>9, <2>11 DEF Idle
  <2> QED BY <2>7, <2>10, <2>11, <2>12 DEF r
<1> QED BY <1>1, <1>2

\* A resume pushed on a stack without resumes.
LEMMA PushIs ==
    ASSUME NEW stack \in Seq(Item), NoResume(stack), NEW t \in Item
    PROVE  LET r == <<t>> \o stack IN
           r \in Seq(Item) /\ r # <<>> /\ Head(r) = t /\ NoResume(Tail(r))
<1>1. PICK n \in Nat : n = Len(stack) /\ DOMAIN stack = 1 .. n
  OBVIOUS
<1>2. PICK r : r = <<t>> \o stack
  OBVIOUS
<1>3. r \in Seq(Item) /\ Len(r) = n + 1 /\ r[1] = t /\ \A i \in 1 .. n : r[i + 1] = stack[i]
  BY <1>1, <1>2
<1>4. r # <<>> /\ Head(r) = t /\ DOMAIN Tail(r) = 1 .. n /\ \A i \in 1 .. n : Tail(r)[i] = r[i + 1]
  BY <1>1, <1>3
<1>5. NoResume(Tail(r))
  BY <1>1, <1>3, <1>4 DEF NoResume, Range
<1> QED BY <1>2, <1>3, <1>4, <1>5

LEMMA PushAlone ==
    ASSUME NEW t \in Item
    PROVE  LET r == <<t>> IN
           r \in Seq(Item) /\ r # <<>> /\ Head(r) = t /\ NoResume(Tail(r))
<1>1. <<t>> \in Seq(Item) /\ <<t>> # <<>> /\ Head(<<t>>) = t /\ Tail(<<t>>) = <<>>
  OBVIOUS
<1> QED BY <1>1, RangeOfEmpty DEF NoResume

\* The end of suspend, before what was left.
LEMMA SuspendOn ==
    ASSUME NEW stack \in Seq(Item), NoResume(stack)
    PROVE  Suspended \o stack \in Seq(Item) /\ NoResume(Suspended \o stack)
  BY SuspendedType, RangeOfConcat DEF NoResume

\* CallKept is Kept: a resume is the head of the stack.
LEMMA HeadOnly ==
    ASSUME ctl \in Seq(Item), Stacked, NEW c
    PROVE  (\E i \in DOMAIN ctl : ctl[i].f = "resume" /\ ctl[i].c = c) <=> Resumed(c)
<1>1. CASE ctl = <<>>
  BY <1>1 DEF Resumed
<1>2. CASE ctl # <<>>
  <2>1. /\ Head(ctl) = ctl[1] /\ Len(ctl) # 0
        /\ Range(ctl) = {Head(ctl)} \cup Range(Tail(ctl))
    BY <1>2, RangeOfTail
  <2>2. 1 \in DOMAIN ctl
    BY <2>1
  <2>3. \A t \in Range(Tail(ctl)) : t.f # "resume"
    BY <1>2 DEF Stacked, NoResume
  <2>4. ASSUME NEW i \in DOMAIN ctl, ctl[i].f = "resume", ctl[i].c = c PROVE Resumed(c)
    <3>1. ctl[i] \in Range(ctl)
      BY DEF Range
    <3>2. ctl[i] = Head(ctl)
      BY <2>1, <2>3, <2>4, <3>1
    <3> QED BY <1>2, <2>4, <3>2 DEF Resumed
  <2>5. Resumed(c) => ctl[1].f = "resume" /\ ctl[1].c = c
    BY <2>1 DEF Resumed
  <2> QED BY <2>2, <2>4, <2>5
<1> QED BY <1>1, <1>2

LEMMA KeptIs ==
    ASSUME ctl \in Seq(Item), Stacked, Kept
    PROVE  CallKept
<1> SUFFICES ASSUME NEW c \in Co \ broken
             PROVE  /\ place[c].at = "call" =>
                        \/ place[c].s \in Range(bq) \cup (running \ responded) \cup unresp \cup lost
                        \/ Coming(c)
                    /\ place[c].at = "sleep" =>
                        \/ place[c].s \in timers \/ Msg("response", place[c].s) \in Range(aq)
                        \/ Resumed(c)
  BY HeadOnly DEF CallKept, Coming
<1> QED BY DEF Kept

-----------------------------------------------------------------------------
(* The called service and the timer *)

CallerRests ==
    UNCHANGED <<place, idco, slp, wak, wat, errq, ctl, lastS, slept, broken, misfit>>

\* Steps that only move sessions along leave the caller as it is.
LEMMA RestsKeeps ==
    ASSUME TypeOK, Whole, CallerRests,
           Traffic' \subseteq Traffic, told' \subseteq told \cup Traffic,
           responded' \subseteq responded \cup Traffic
    PROVE  Stack' /\ Ids' /\ Old' /\ Kinds' /\ Distinct' /\ Sleeping'
<1> USE DEF Whole, CallerRests
<1>1. Stack'
  BY DEF Stack
<1>2. Ids'
  BY DEF Ids, Resumed
<1>3. Old'
  <2>1. Range(errq)' = Range(errq)
    OBVIOUS
  <2> HIDE DEF Whole
  <2>2. Old
    BY DEF Whole
  <2>3. (Traffic \cup wat \cup Range(errq) \cup told \cup responded \subseteq 1 .. lastS)'
    BY <2>1, <2>2 DEF Old
  <2> QED BY <2>2, <2>3 DEF Old
<1>4. Kinds'
  <2>1. Range(errq)' = Range(errq)
    OBVIOUS
  <2> HIDE DEF Whole
  <2>2. Kinds
    BY DEF Whole
  <2> QED BY <2>1, <2>2 DEF Kinds
<1>5. Distinct'
  BY DEF Distinct
<1>6. Sleeping'
  BY DEF Sleeping
<1> QED BY <1>1, <1>2, <1>3, <1>4, <1>5, <1>6

LEMMA RestsIInv ==
    ASSUME IInv, broken = {}, CallerRests, TypeOK',
           Traffic' \subseteq Traffic, told' \subseteq told \cup Traffic,
           responded' \subseteq responded \cup Traffic,
           Served', Told', Kept'
    PROVE  IInv'
<1>1. TypeOK /\ Whole
  BY DEF IInv
<1>2. Stack' /\ Ids' /\ Old' /\ Kinds' /\ Distinct' /\ Sleeping'
  BY <1>1, RestsKeeps
<1>3. ResumeExact'
  BY DEF IInv, ResumeExact, CallerRests
<1>4. Stacked'
  BY DEF IInv, Stacked, CallerRests
<1> QED BY <1>2, <1>3, <1>4 DEF IInv, Whole

\* While the queue only grows, what is on its way stays on its way.
LEMMA StillComing ==
    ASSUME CallerRests, Range(aq) \subseteq Range(aq'), NEW c \in Co, Coming(c)
    PROVE  Coming(c)'
  BY DEF Coming, CallerRests, Resumed

LEMMA StillTold ==
    ASSUME Whole, CallerRests, Range(aq) \subseteq Range(aq'), told' = told
    PROVE  Told'
<1> SUFFICES ASSUME NEW c \in Co, place[c].at = "call", place[c].s \in told
             PROVE  Coming(c)'
  BY DEF Told, CallerRests
<1>1. Coming(c)
  BY DEF Whole, Told
<1> QED BY <1>1, StillComing

\* Kept needs an account only of what leaves a place.
LEMMA StillKept ==
    ASSUME IInv, broken = {}, CallerRests, Range(aq) \subseteq Range(aq'),
           \A s \in timers : s \in timers' \/ Msg("response", s) \in Range(aq'),
           \A s \in Range(bq) \cup (running \ responded) \cup unresp \cup lost :
              \/ s \in Range(bq') \cup (running' \ responded') \cup unresp' \cup lost'
              \/ Msg("response", s) \in Range(aq') \/ Msg("error", s) \in Range(aq')
              \/ s \in told
    PROVE  Kept'
<1> SUFFICES ASSUME NEW c \in Co
             PROVE  /\ place[c].at = "call" =>
                        \/ place[c].s \in Range(bq') \cup (running' \ responded') \cup unresp' \cup lost'
                        \/ Coming(c)'
                    /\ place[c].at = "sleep" =>
                        \/ place[c].s \in timers' \/ Msg("response", place[c].s) \in Range(aq')
                        \/ Resumed(c)'
  BY DEF Kept, CallerRests
<1>1. Coming(c) => Coming(c)'
  BY StillComing
<1>2. Resumed(c)' <=> Resumed(c)
  BY DEF CallerRests, Resumed
<1>3. ASSUME place[c].at = "call"
      PROVE  \/ place[c].s \in Range(bq') \cup (running' \ responded') \cup unresp' \cup lost'
             \/ Coming(c)'
  <2>1. \/ place[c].s \in Range(bq) \cup (running \ responded) \cup unresp \cup lost
        \/ Coming(c)
    BY <1>3 DEF IInv, Kept
  <2>2. CASE Coming(c)
    BY <1>1, <2>2
  <2>3. CASE place[c].s \in Range(bq) \cup (running \ responded) \cup unresp \cup lost
    <3>1. place[c].s \in told => Coming(c)
      BY <1>3 DEF IInv, Whole, Told
    <3>2. Msg("response", place[c].s) \in Range(aq') => Coming(c)'
      BY DEF Coming, CallerRests
    <3>3. Msg("error", place[c].s) \in Range(aq') => Coming(c)'
      BY DEF Coming, CallerRests
    <3> QED BY <1>1, <2>3, <3>1, <3>2, <3>3
  <2> QED BY <2>1, <2>2, <2>3
<1>4. ASSUME place[c].at = "sleep"
      PROVE  \/ place[c].s \in timers' \/ Msg("response", place[c].s) \in Range(aq')
             \/ Resumed(c)'
  <2>1. place[c].s \in timers \/ Msg("response", place[c].s) \in Range(aq) \/ Resumed(c)
    BY <1>4 DEF IInv, Kept
  <2> QED BY <1>2, <2>1
<1> QED BY <1>3, <1>4

\* One message more.
LEMMA OneMessage ==
    ASSUME TypeOK, NEW s \in Session, NEW t \in {"response", "error"}
    PROVE  LET q == aq \o <<Msg(t, s)>> IN
           q \in Seq(Message) /\ Range(q) = Range(aq) \cup {Msg(t, s)}
<1>1. Msg(t, s) \in Message
  BY DEF Msg, Message
<1>2. PICK m \in Message : m = Msg(t, s)
  BY <1>1
<1>3. <<m>> \in Seq(Message) /\ Range(<<m>>) = {m}
  BY DEF Range
<1>4. aq \in Seq(Message)
  BY DEF TypeOK
<1>5. aq \o <<m>> \in Seq(Message) /\ Range(aq \o <<m>>) = Range(aq) \cup Range(<<m>>)
  BY <1>3, <1>4, RangeOfConcat
<1> QED BY <1>2, <1>3, <1>5

LEMMA timer_fireKeeps == ASSUME IInv, broken = {}, timer_fire PROVE IInv'
<1>1. PICK s \in timers : /\ timers' = timers \ {s} /\ aq' = Append(aq, Msg("response", s))
                          /\ CallerRests /\ UNCHANGED calleeVars
  BY DEF timer_fire, CallerRests
<1>2. TypeOK /\ Whole
  BY DEF IInv
<1>3. s \in Session
  BY <1>2 DEF TypeOK
<1>4. /\ aq' \in Seq(Message)
      /\ Range(aq') = Range(aq) \cup {Msg("response", s)}
  <2>1. Msg("response", s) \in Message
    BY <1>3 DEF Msg, Message
  <2>2. aq \in Seq(Message)
    BY <1>2 DEF TypeOK
  <2> QED BY <1>1, <2>1, <2>2, RangeOfAppend
<1>5. TypeOK'
  BY <1>1, <1>2, <1>4 DEF TypeOK, CallerRests, calleeVars
<1>6. Traffic' \subseteq Traffic
  BY <1>1, <1>4 DEF Traffic, Msg, calleeVars
<1>7. Served'
  BY <1>1, <1>2 DEF Whole, Served, calleeVars
<1>8. Told'
  BY <1>1, <1>2, <1>4, StillTold DEF calleeVars
<1>9. Kept'
  BY <1>1, <1>4, StillKept DEF calleeVars
<1> QED BY <1>1, <1>5, <1>6, <1>7, <1>8, <1>9, RestsIInv DEF calleeVars

LEMMA serveKeeps == ASSUME IInv, broken = {}, serve PROVE IInv'
<1> DEFINE s == Head(bq)
<1>1. /\ bq # <<>> /\ bq' = Tail(bq) /\ running' = running \cup {s}
      /\ CallerRests /\ UNCHANGED <<aq, timers, bState, responded, unresp, told, lost>>
  BY DEF serve, CallerRests, callerVars
<1>2. TypeOK /\ Whole /\ bq \in Seq(Session)
  BY DEF IInv, TypeOK
<1>3. s \in Session /\ bq' \in Seq(Session) /\ Range(bq) = {s} \cup Range(bq')
  BY <1>1, <1>2, RangeOfTail
<1>4. IsInjective(bq') /\ s \notin Range(bq')
  BY <1>1, <1>2, InjectiveTail DEF Whole, Served
<1> HIDE DEF s
<1>5. TypeOK'
  BY <1>1, <1>2, <1>3 DEF TypeOK, CallerRests
<1>6. Traffic' \subseteq Traffic
  BY <1>1, <1>3 DEF Traffic
<1>7. Served'
  BY <1>1, <1>2, <1>3, <1>4 DEF Whole, Served
<1>8. Told'
  BY <1>1, <1>2, StillTold
<1>9. s \notin responded
  BY <1>2, <1>3 DEF Whole, Served
<1>10. Kept'
  BY <1>1, <1>3, <1>9, StillKept
<1> QED BY <1>1, <1>5, <1>6, <1>7, <1>8, <1>10, RestsIInv

LEMMA retKeeps == ASSUME IInv, broken = {}, ret PROVE IInv'
<1>1. PICK s \in running \ responded :
        /\ responded' = responded \cup {s} /\ aq' = aq \o <<Msg("response", s)>>
        /\ CallerRests /\ UNCHANGED <<timers, bq, bState, running, unresp, told, lost>>
  BY DEF ret, Reply, KeepsState, CallerRests, callerVars
<1>2. TypeOK /\ Whole
  BY DEF IInv
<1>3. s \in Session
  BY <1>2 DEF TypeOK
<1>4. aq' \in Seq(Message) /\ Range(aq') = Range(aq) \cup {Msg("response", s)}
  BY <1>1, <1>2, <1>3, OneMessage
<1>5. TypeOK'
  BY <1>1, <1>2, <1>3, <1>4 DEF TypeOK, CallerRests
<1>6. Traffic' \subseteq Traffic /\ s \in Traffic
  BY <1>1, <1>4 DEF Traffic, Msg
<1>7. Served'
  BY <1>1, <1>2 DEF Whole, Served
<1>8. Told'
  BY <1>1, <1>2, <1>4, StillTold
<1>9. Kept'
  BY <1>1, <1>4, StillKept
<1> QED BY <1>1, <1>5, <1>6, <1>7, <1>8, <1>9, RestsIInv

LEMMA deferKeeps == ASSUME IInv, broken = {}, defer PROVE IInv'
<1>1. PICK s \in running \ responded :
        /\ responded' = responded \cup {s} /\ unresp' = unresp \cup {s}
        /\ CallerRests /\ UNCHANGED <<aq, timers, bq, bState, running, told, lost>>
  BY DEF defer, KeepsState, CallerRests, callerVars
<1>2. TypeOK /\ Whole
  BY DEF IInv
<1>3. s \in Session
  BY <1>2 DEF TypeOK
<1>5. TypeOK'
  BY <1>1, <1>2, <1>3 DEF TypeOK, CallerRests
<1>6. Traffic' \subseteq Traffic /\ s \in Traffic
  BY <1>1 DEF Traffic
<1>7. Served'
  BY <1>1, <1>2 DEF Whole, Served
<1>8. Told'
  BY <1>1, <1>2, StillTold
<1>9. Kept'
  BY <1>1, StillKept
<1> QED BY <1>1, <1>5, <1>6, <1>7, <1>8, <1>9, RestsIInv

LEMMA respondKeeps == ASSUME IInv, broken = {}, respond PROVE IInv'
<1>1. PICK s \in unresp, t \in {"response", "error"} :
        /\ unresp' = unresp \ {s} /\ aq' = aq \o <<Msg(t, s)>>
        /\ CallerRests /\ UNCHANGED <<timers, bq, bState, running, responded, told, lost>>
  BY DEF respond, Reply, KeepsState, CallerRests, callerVars
<1>2. TypeOK /\ Whole
  BY DEF IInv
<1>3. s \in Session
  BY <1>2 DEF TypeOK
<1>4. aq' \in Seq(Message) /\ Range(aq') = Range(aq) \cup {Msg(t, s)}
  BY <1>1, <1>2, <1>3, OneMessage
<1>5. TypeOK'
  BY <1>1, <1>2, <1>3, <1>4 DEF TypeOK, CallerRests
<1>6. Traffic' \subseteq Traffic
  BY <1>1, <1>4 DEF Traffic, Msg
<1>7. Served'
  BY <1>1, <1>2 DEF Whole, Served
<1>8. Told'
  BY <1>1, <1>2, <1>4, StillTold
<1>9. Kept'
  BY <1>1, <1>4, StillKept
<1> QED BY <1>1, <1>5, <1>6, <1>7, <1>8, <1>9, RestsIInv

LEMMA finishKeeps == ASSUME IInv, broken = {}, finish PROVE IInv'
<1>1. PICK s \in running :
        /\ running' = running \ {s} /\ responded' = responded \ {s}
        /\ lost' = IF s \in responded \cup told THEN lost ELSE lost \cup {s}
        /\ CallerRests /\ UNCHANGED <<aq, timers, bq, bState, unresp, told>>
  BY DEF finish, KeepsState, CallerRests, callerVars
<1>2. TypeOK /\ Whole
  BY DEF IInv
<1>3. s \in Session
  BY <1>2 DEF TypeOK
<1>5. TypeOK'
  BY <1>1, <1>2, <1>3 DEF TypeOK, CallerRests
<1>6. Traffic' \subseteq Traffic
  BY <1>1 DEF Traffic
<1>7. Served'
  BY <1>1, <1>2 DEF Whole, Served
<1>8. Told'
  BY <1>1, <1>2, StillTold
<1>9. Kept'
  BY <1>1, StillKept
<1> QED BY <1>1, <1>5, <1>6, <1>7, <1>8, <1>9, RestsIInv

LEMMA failKeeps == ASSUME IInv, broken = {}, fail PROVE IInv'
<1>1. PICK s \in running :
        /\ running' = running \ {s} /\ responded' = responded
        /\ aq' = aq \o <<Msg("error", s)>>
        /\ CallerRests /\ UNCHANGED <<timers, bq, bState, unresp, told, lost>>
  BY DEF fail, Reply, KeepsState, CallerRests, callerVars
<1>2. TypeOK /\ Whole
  BY DEF IInv
<1>3. s \in Session
  BY <1>2 DEF TypeOK
<1>4. aq' \in Seq(Message) /\ Range(aq') = Range(aq) \cup {Msg("error", s)}
  BY <1>1, <1>2, <1>3, OneMessage
<1>5. TypeOK'
  BY <1>1, <1>2, <1>3, <1>4 DEF TypeOK, CallerRests
<1>6. Traffic' \subseteq Traffic
  BY <1>1, <1>4 DEF Traffic, Msg
<1>7. Served'
  BY <1>1, <1>2 DEF Whole, Served
<1>8. Told'
  BY <1>1, <1>2, <1>4, StillTold
<1>9. Kept'
  BY <1>1, <1>4, StillKept
<1> QED BY <1>1, <1>5, <1>6, <1>7, <1>8, <1>9, RestsIInv

LEMMA ErrorsAre ==
    ASSUME NEW S \in SUBSET Session
    PROVE  Errors(S) \in Seq(Message) /\ Range(Errors(S)) = {Msg("error", s) : s \in S}
<1> DEFINE E == {Msg("error", s) : s \in S}
<1>1. IsFiniteSet(S)
  <2>1. 1 \in Int /\ MAX_SESSION \in Int
    BY SessionsAssumption
  <2>2. IsFiniteSet(Session)
    BY <2>1, FS_Interval DEF Session
  <2> QED BY <2>2, FS_Subset
<1>2. IsFiniteSet(E)
  <2> DEFINE f == [s \in S |-> Msg("error", s)]
  <2>1. f \in Surjection(S, E)
    BY DEF Surjection
  <2> HIDE DEF f, E
  <2> QED BY <1>1, <2>1, FS_Surjection
<1>3. E \in SUBSET Message
  BY DEF Msg, Message
<1> HIDE DEF E
<1>4. SetToSeq(E) \in Seq(Message) /\ Range(SetToSeq(E)) = E
  BY <1>2, <1>3, SetAsSeq
<1> QED BY <1>4 DEF Errors, E

LEMMA exitKeeps == ASSUME IInv, broken = {}, exit PROVE IInv'
<1>1. /\ aq' = aq \o (Errors(running) \o Errors(unresp)) /\ told' = told \cup running
      /\ unresp' = {} /\ bState' = "killed"
      /\ CallerRests /\ UNCHANGED <<timers, bq, running, responded, lost>>
  BY DEF exit, Reply, Deferred, CallerRests, callerVars
<1>2. TypeOK /\ Whole
  BY DEF IInv
<1>3. running \in SUBSET Session /\ unresp \in SUBSET Session /\ aq \in Seq(Message)
  BY <1>2 DEF TypeOK
<1>4. /\ aq' \in Seq(Message)
      /\ Range(aq') = Range(aq) \cup {Msg("error", s) : s \in running}
                                \cup {Msg("error", s) : s \in unresp}
  <2>1. Errors(running) \in Seq(Message) /\ Errors(unresp) \in Seq(Message)
    BY <1>3, ErrorsAre
  <2>2. PICK e, f \in Seq(Message) : e = Errors(running) /\ f = Errors(unresp)
    BY <2>1
  <2>3. e \o f \in Seq(Message) /\ Range(e \o f) = Range(e) \cup Range(f)
    BY RangeOfConcat
  <2>4. /\ aq \o (e \o f) \in Seq(Message)
        /\ Range(aq \o (e \o f)) = Range(aq) \cup Range(e \o f)
    <3>1. PICK g \in Seq(Message) : g = e \o f
      BY <2>3
    <3>2. aq \o g \in Seq(Message) /\ Range(aq \o g) = Range(aq) \cup Range(g)
      BY ONLY <1>3, g \in Seq(Message), RangeOfConcat
    <3> QED BY <3>1, <3>2
  <2> QED BY <1>1, <1>3, <2>2, <2>3, <2>4, ErrorsAre
<1>5. TypeOK'
  BY <1>1, <1>2, <1>3, <1>4 DEF TypeOK, CallerRests
<1>6. Traffic' \subseteq Traffic /\ told' \subseteq told \cup Traffic
  BY <1>1, <1>4 DEF Traffic, Msg
<1>7. Served'
  BY <1>1, <1>2 DEF Whole, Served
<1>8. Told'
  <2> SUFFICES ASSUME NEW c \in Co, place[c].at = "call", place[c].s \in told \cup running
               PROVE  Coming(c)'
    BY <1>1 DEF Told, CallerRests
  <2>1. CASE place[c].s \in told
    <3>1. Coming(c)
      BY <1>2, <2>1 DEF Whole, Told
    <3> QED BY <1>1, <1>4, <3>1, StillComing
  <2>2. CASE place[c].s \in running
    BY <1>1, <1>4, <2>2 DEF Coming, CallerRests
  <2> QED BY <2>1, <2>2
<1>9. Kept'
  BY <1>1, <1>4, StillKept
<1> QED BY <1>1, <1>5, <1>6, <1>7, <1>8, <1>9, RestsIInv

LEMMA killKeeps == ASSUME IInv, broken = {}, kill PROVE IInv'
<1>1. /\ bState' = "killed"
      /\ CallerRests /\ UNCHANGED <<aq, timers, bq, running, responded, unresp, told, lost>>
  BY DEF kill, CallerRests, callerVars
<1>2. TypeOK /\ Whole
  BY DEF IInv
<1>5. TypeOK'
  BY <1>1, <1>2 DEF TypeOK, CallerRests
<1>6. Traffic' \subseteq Traffic
  BY <1>1 DEF Traffic
<1>7. Served'
  BY <1>1, <1>2 DEF Whole, Served
<1>8. Told'
  BY <1>1, <1>2, StillTold
<1>9. Kept'
  BY <1>1, StillKept
<1> QED BY <1>1, <1>5, <1>6, <1>7, <1>8, <1>9, RestsIInv

LEMMA goneKeeps == ASSUME IInv, broken = {}, gone PROVE IInv'
<1>1. /\ bState' = "gone" /\ bq' = <<>> /\ running' = {} /\ unresp' = {}
      /\ lost' = lost \cup Range(bq) \cup (running \ (responded \cup told)) \cup unresp
      /\ CallerRests /\ UNCHANGED <<aq, timers, responded, told>>
  BY DEF gone, CallerRests, callerVars
<1>2. TypeOK /\ Whole
  BY DEF IInv
<1>3. Range(bq) \subseteq Session /\ Range(bq') = {} /\ bq' \in Seq(Session)
  BY <1>1, <1>2, RangeType, RangeOfEmpty DEF TypeOK
<1>5. TypeOK'
  BY <1>1, <1>2, <1>3 DEF TypeOK, CallerRests
<1>6. Traffic' \subseteq Traffic
  BY <1>1, <1>3 DEF Traffic
<1>7. Served'
  <2>1. IsInjective(bq')
    BY <1>1 DEF IsInjective
  <2> QED BY <1>3, <2>1 DEF Served
<1>8. Told'
  BY <1>1, <1>2, StillTold
<1>9. Kept'
  BY <1>1, StillKept
<1> QED BY <1>1, <1>5, <1>6, <1>7, <1>8, <1>9, RestsIInv

-----------------------------------------------------------------------------
(* The caller's dispatch *)

PlacesRest ==
    UNCHANGED <<place, slp, wat, lastS, slept, timers, misfit,
                bq, bState, running, responded, unresp, told, lost>>

\* Dispatching leaves the coroutines where they are.
LEMMA PlacesKeep ==
    ASSUME TypeOK, Whole, PlacesRest,
           Range(aq') \subseteq Range(aq), Range(errq') \subseteq Range(errq) \cup wat,
           \A s \in Session : s > lastS => idco'[s] = idco[s]
    PROVE  Old' /\ Kinds' /\ Distinct' /\ Sleeping' /\ Served'
<1>1. Traffic' \subseteq Traffic
  BY DEF Traffic, PlacesRest
<1>2. Old'
  <2>1. Old
    BY DEF Whole
  <2>2. (Traffic \cup wat \cup Range(errq) \cup told \cup responded \subseteq 1 .. lastS)'
    BY <1>1, <2>1 DEF Old, PlacesRest
  <2> QED BY <2>1, <2>2 DEF Old, PlacesRest
<1>3. Kinds'
  <2>1. Kinds
    BY DEF Whole
  <2> QED BY <1>1, <2>1 DEF Kinds, PlacesRest
<1>4. Distinct'
  BY DEF Distinct, Whole, PlacesRest
<1>5. Sleeping'
  BY DEF Sleeping, Whole, PlacesRest
<1>6. Served'
  BY DEF Served, Whole, PlacesRest
<1> QED BY <1>2, <1>3, <1>4, <1>5, <1>6

Landed(c) == Msg("response", place[c].s) \in Range(aq) \/ Resumed(c)

LEMMA DispatchKept ==
    ASSUME IInv, broken = {}, PlacesRest,
           \A c \in Co : place[c].at = "call" /\ Coming(c) => Coming(c)',
           \A c \in Co : place[c].at = "sleep" /\ Landed(c) => Landed(c)'
    PROVE  Kept' /\ Told'
<1>1. Told'
  <2> SUFFICES ASSUME NEW c \in Co, place[c].at = "call", place[c].s \in told
               PROVE  Coming(c)'
    BY DEF Told, PlacesRest
  <2> QED BY DEF IInv, Whole, Told
<1>2. Kept'
  <2> SUFFICES ASSUME NEW c \in Co
               PROVE  /\ place[c].at = "call" =>
                          \/ place[c].s \in Range(bq) \cup (running \ responded) \cup unresp \cup lost
                          \/ Coming(c)'
                      /\ place[c].at = "sleep" => place[c].s \in timers \/ Landed(c)'
    BY DEF Kept, Landed, PlacesRest
  <2>1. /\ place[c].at = "call" =>
            \/ place[c].s \in Range(bq) \cup (running \ responded) \cup unresp \cup lost
            \/ Coming(c)
        /\ place[c].at = "sleep" => place[c].s \in timers \/ Landed(c)
    BY DEF IInv, Kept, Landed
  <2> QED BY <2>1
<1> QED BY <1>1, <1>2

\* The entry of one session is taken, by the coroutine that waits for it.
LEMMA IdsTake ==
    ASSUME TypeOK, Ids, place' = place, NEW s0 \in Session, NEW x, x \notin Co,
           idco' = [idco EXCEPT ![s0] = x],
           \A c \in Co : ~Resumed(c),
           \A c \in Co : Resumed(c)' <=> place[c].at \in Waits /\ place[c].s = s0
    PROVE  Ids'
<1> SUFFICES ASSUME NEW s \in Session, NEW c \in Co
             PROVE  idco'[s] = c <=> place[c].at \in Waits /\ place[c].s = s /\ ~Resumed(c)'
  BY DEF Ids
<1>1. idco[s] = c <=> place[c].at \in Waits /\ place[c].s = s
  BY DEF Ids
<1>2. idco'[s] = IF s = s0 THEN x ELSE idco[s]
  BY DEF TypeOK
<1> QED BY <1>1, <1>2

LEMMA IdsSame ==
    ASSUME Ids, place' = place, idco' = idco,
           \A c \in Co : place[c].at \in Waits => ~Resumed(c) /\ ~Resumed(c)'
    PROVE  Ids'
  BY DEF Ids

LEMMA startKeeps == ASSUME IInv, broken = {}, start PROVE IInv'
<1>1. PICK c \in Co :
        /\ place[c].at = "pool" /\ ctl = <<>> /\ ctl' = <<Todo("resume", c, "start", 0)>>
        /\ UNCHANGED <<aq, place, idco, slp, wak, wat, errq, timers, lastS, slept, broken,
                       misfit, calleeVars>>
  BY DEF start
<1>2. TypeOK /\ Whole
  BY DEF IInv
<1>3. PICK t \in Item : t = Todo("resume", c, "start", 0)
  BY DEF Todo, Item
<1>4. ctl' \in Seq(Item) /\ ctl' # <<>> /\ Head(ctl') = t /\ NoResume(Tail(ctl'))
  BY <1>1, <1>3, PushAlone
<1>5. t.f = "resume" /\ t.c = c /\ t.how = "start"
  BY <1>3 DEF Todo
<1>6. PlacesRest
  BY <1>1 DEF PlacesRest, calleeVars
<1>7. TypeOK'
  BY <1>1, <1>2, <1>4 DEF TypeOK, calleeVars
<1>8. Old' /\ Kinds' /\ Distinct' /\ Sleeping' /\ Served'
  BY <1>1, <1>2, <1>6, PlacesKeep
<1>9. Stacked' /\ Stack'
  BY <1>1, <1>4, <1>5 DEF Stacked, Stack, Fits
<1>10. \A d \in Co : ~Resumed(d) /\ (Resumed(d)' => d = c)
  BY <1>1, <1>4, <1>5 DEF Resumed
<1>11. Ids'
  <2>1. \A d \in Co : place[d].at \in Waits => ~Resumed(d) /\ ~Resumed(d)'
    BY <1>1, <1>10 DEF Waits
  <2> QED BY <1>1, <1>2, <2>1, IdsSame DEF Whole
<1>12. Kept' /\ Told'
  <2>1. \A d \in Co : (Coming(d) => Coming(d)') /\ (Landed(d) => Landed(d)')
    BY <1>1, <1>10 DEF Coming, Landed
  <2> QED BY <1>6, <2>1, DispatchKept
<1>13. ResumeExact'
  BY <1>1 DEF IInv, ResumeExact
<1> QED BY <1>7, <1>8, <1>9, <1>11, <1>12, <1>13 DEF IInv, Whole

\* Steps that leave the stack without a resume.
LEMMA QuietKeeps ==
    ASSUME IInv, broken = {}, PlacesRest, UNCHANGED <<idco, broken>>,
           wak' \in SUBSET Co, aq' \in Seq(Message), errq' \in Seq(Session),
           Range(aq') \subseteq Range(aq),
           Range(errq) \subseteq Range(errq'), Range(errq') \subseteq Range(errq) \cup wat,
           \A s \in wat : Msg("error", s) \in Range(aq) =>
                Msg("error", s) \in Range(aq') \/ s \in Range(errq'),
           \A s \in Session : Msg("response", s) \in Range(aq) => Msg("response", s) \in Range(aq'),
           \A c \in Co : ~Resumed(c),
           NEW stack \in Seq(Item), NoResume(stack), ctl' = Settled(stack, wak', errq')
    PROVE  IInv'
<1>1. TypeOK /\ Whole
  BY DEF IInv
<1>2. /\ ctl' \in Seq(Item) /\ NoResume(ctl')
      /\ ctl' # <<>> => Head(ctl').f # "resume" /\ (Head(ctl').f = "error" => errq' # <<>>)
  BY SettledIs
<1>3. TypeOK'
  BY <1>1, <1>2 DEF TypeOK, PlacesRest
<1>4. Old' /\ Kinds' /\ Distinct' /\ Sleeping' /\ Served'
  BY <1>1, PlacesKeep
<1>5. Stacked'
  BY <1>2, RangeOfTail DEF Stacked, NoResume
<1>6. Stack'
  BY <1>2 DEF Stack
<1>7. \A c : ~Resumed(c)'
  BY <1>2 DEF Resumed
<1>8. Ids'
  BY <1>1, <1>7, IdsSame DEF Whole, PlacesRest
<1>9. ASSUME NEW c \in Co, place[c].at = "call", Coming(c) PROVE Coming(c)'
  <2>1. place[c].s \in wat
    BY <1>1, <1>9 DEF Whole, Kinds
  <2>2. place[c].s \in Session
    BY <1>1, <2>1 DEF TypeOK
  <2> QED BY <1>9, <2>1, <2>2 DEF Coming, PlacesRest
<1>10. ASSUME NEW c \in Co, place[c].at = "sleep", Landed(c) PROVE Landed(c)'
  <2>1. place[c].s \in 1 .. lastS
    BY <1>1, <1>10 DEF Whole, Old, Waits
  <2>2. place[c].s \in Session
    BY <1>1, <2>1, SessionsAssumption DEF TypeOK, Session
  <2> QED BY <1>10, <2>2 DEF Landed, PlacesRest
<1>11. Kept' /\ Told'
  BY <1>9, <1>10, DispatchKept
<1>12. ResumeExact'
  BY DEF IInv, ResumeExact, PlacesRest
<1> QED BY <1>3, <1>4, <1>5, <1>6, <1>8, <1>11, <1>12 DEF IInv, Whole

\* Steps that take the entry of a session and resume who waits for it.
LEMMA TakeKeeps ==
    ASSUME IInv, broken = {}, broken' = {}, PlacesRest,
           NEW s0 \in Session, s0 <= lastS, NEW x \in {"nil", "BREAK"},
           idco' = [idco EXCEPT ![s0] = x],
           wak' \in SUBSET Co, aq' \in Seq(Message), errq' \in Seq(Session),
           Range(aq') \subseteq Range(aq), Range(errq') \subseteq Range(errq),
           \A m \in Range(aq) : m \in Range(aq') \/ m.s = s0,
           \A s \in Range(errq) : s \in Range(errq') \/ s = s0,
           \A c \in Co : ~Resumed(c),
           ctl' \in Seq(Item), Stacked', Stack',
           \A c \in Co : Resumed(c)' <=> place[c].at \in Waits /\ place[c].s = s0
    PROVE  IInv'
<1>1. TypeOK /\ Whole
  BY DEF IInv
<1>2. TypeOK'
  BY <1>1 DEF TypeOK, PlacesRest
<1>3. Old' /\ Kinds' /\ Distinct' /\ Sleeping' /\ Served'
  <2>1. \A s \in Session : s > lastS => idco'[s] = idco[s]
    BY <1>1 DEF TypeOK, Session
  <2> QED BY <1>1, <2>1, PlacesKeep
<1>4. Ids'
  <2>1. x \notin Co
    BY SessionsAssumption
  <2> QED BY <1>1, <2>1, IdsTake DEF Whole, PlacesRest
<1>5. ASSUME NEW c \in Co, place[c].at = "call", Coming(c) PROVE Coming(c)'
  <2>1. CASE place[c].s = s0
    BY <1>5, <2>1 DEF Coming, Waits
  <2>2. CASE place[c].s # s0
    BY <1>5, <2>2 DEF Coming, PlacesRest, Msg
  <2> QED BY <2>1, <2>2
<1>6. ASSUME NEW c \in Co, place[c].at = "sleep", Landed(c) PROVE Landed(c)'
  <2>1. CASE place[c].s = s0
    BY <1>6, <2>1 DEF Landed, Waits
  <2>2. CASE place[c].s # s0
    BY <1>6, <2>2 DEF Landed, PlacesRest, Msg
  <2> QED BY <2>1, <2>2
<1>7. Kept' /\ Told'
  BY <1>5, <1>6, DispatchKept
<1>8. ResumeExact'
  BY DEF IInv, ResumeExact, PlacesRest
<1> QED BY <1>2, <1>3, <1>4, <1>7, <1>8 DEF IInv, Whole

LEMMA termKeeps == ASSUME IInv, broken = {}, term PROVE IInv'
<1>1. /\ ctl = <<>> /\ errq' = errq \o SetToSeq({})
      /\ ctl' = Settled(Suspended, wak, errq')
      /\ UNCHANGED <<aq, idco, wak, broken>> /\ PlacesRest
  BY DEF term, Terminated, PlacesRest, calleeVars
<1>2. TypeOK /\ errq \in Seq(Session) /\ aq \in Seq(Message) /\ wak \in SUBSET Co
  BY DEF IInv, TypeOK
<1>3. errq' \in Seq(Session) /\ Range(errq') = Range(errq)
  <2>1. {} \in SUBSET Session /\ IsFiniteSet({})
    BY FS_EmptySet
  <2>2. SetToSeq({}) \in Seq(Session) /\ Range(SetToSeq({})) = {}
    BY <2>1, SetAsSeq
  <2>3. PICK e \in Seq(Session) : e = SetToSeq({})
    BY <2>2
  <2>4. errq \o e \in Seq(Session) /\ Range(errq \o e) = Range(errq) \cup Range(e)
    BY <1>2, RangeOfConcat
  <2> QED BY <1>1, <2>2, <2>3, <2>4
<1>4. \A c \in Co : ~Resumed(c)
  BY <1>1 DEF Resumed
<1> QED BY <1>1, <1>2, <1>3, <1>4, SuspendedType, QuietKeeps

LEMMA dispatch_messageKeeps == ASSUME IInv, broken = {}, dispatch_message PROVE IInv'
<1> DEFINE m == Head(aq)
<1>1. /\ ctl = <<>> /\ aq # <<>> /\ aq' = Tail(aq)
      /\ UNCHANGED <<wak, broken>> /\ PlacesRest
  BY DEF dispatch_message, PlacesRest, calleeVars
<1>2. TypeOK /\ Whole /\ errq \in Seq(Session) /\ aq \in Seq(Message) /\ wak \in SUBSET Co
  BY DEF IInv, TypeOK
<1>3. m \in Message /\ aq' \in Seq(Message) /\ Range(aq) = {m} \cup Range(aq')
  BY <1>1, <1>2, RangeOfTail
<1>4. \A c \in Co : ~Resumed(c)
  BY <1>1 DEF Resumed
<1>5. m.s \in Session /\ m.s \in Traffic /\ m.s <= lastS
  <2>1. m.s \in Session /\ m.s \in Traffic
    BY <1>3 DEF Message, Traffic
  <2>2. m.s \in 1 .. lastS
    BY <1>2, <2>1 DEF Whole, Old
  <2> QED BY <2>1, <2>2
<1>6. CASE /\ m.t = "response" /\ idco' = [idco EXCEPT ![m.s] = "nil"]
           /\ ctl' = IF idco[m.s] \in Co
                     THEN <<Todo("resume", idco[m.s], "answer", m.s)>> ELSE <<>>
           /\ UNCHANGED errq
  <2> HIDE DEF m
  <2>1. \A c \in Co : idco[m.s] = c <=> place[c].at \in Waits /\ place[c].s = m.s
    BY <1>2, <1>4, <1>5 DEF Whole, Ids
  <2>2. CASE idco[m.s] \in Co
    <3>1. PICK c \in Co : c = idco[m.s]
      BY <2>2
    <3>2. PICK t \in Item : t = Todo("resume", c, "answer", m.s)
      <4>1. m.s \in Nat
        BY <1>5, SessionsAssumption DEF Session
      <4>2. Todo("resume", c, "answer", m.s) \in Item
        BY <4>1 DEF Todo, Item
      <4> QED BY <4>2
    <3>3. t.f = "resume" /\ t.c = c /\ t.how = "answer" /\ t.s = m.s
      BY <3>2 DEF Todo
    <3>4. ctl' \in Seq(Item) /\ ctl' # <<>> /\ Head(ctl') = t /\ NoResume(Tail(ctl'))
      BY <1>6, <2>2, <3>1, <3>2, PushAlone
    <3>5. \A d \in Co : Resumed(d)' <=> d = c
      BY <3>3, <3>4 DEF Resumed
    <3>6. \A d \in Co : Resumed(d)' <=> place[d].at \in Waits /\ place[d].s = m.s
      BY <2>1, <3>1, <3>5
    <3>7. place[c].at \in {"call", "sleep"} /\ place[c].s = m.s
      BY <1>2, <1>5, <2>1, <3>1 DEF Whole, Kinds, Waits
    <3>8. Stacked' /\ Stack'
      BY <1>1, <3>3, <3>4, <3>7 DEF Stacked, Stack, Fits, PlacesRest
    <3> QED BY <1>1, <1>2, <1>3, <1>4, <1>5, <1>6, <3>4, <3>6, <3>8, TakeKeeps
  <2>3. CASE idco[m.s] \notin Co
    <3>1. ctl' = <<>>
      BY <1>6, <2>3
    <3>2. ctl' \in Seq(Item) /\ Stacked' /\ Stack'
      BY <3>1 DEF Stacked, Stack
    <3>3. \A d \in Co : Resumed(d)' <=> place[d].at \in Waits /\ place[d].s = m.s
      BY <2>1, <2>3, <3>1 DEF Resumed
    <3> QED BY <1>1, <1>2, <1>3, <1>4, <1>5, <1>6, <3>2, <3>3, TakeKeeps
  <2> QED BY <2>2, <2>3
<1>7. CASE /\ m.t = "error" /\ errq' = IF m.s \in wat THEN Append(errq, m.s) ELSE errq
           /\ ctl' = Settled(Suspended, wak, errq') /\ UNCHANGED idco
  <2> HIDE DEF m
  <2>1. /\ errq' \in Seq(Session)
        /\ Range(errq') = IF m.s \in wat THEN Range(errq) \cup {m.s} ELSE Range(errq)
    <3>1. Append(errq, m.s) \in Seq(Session) /\ Range(Append(errq, m.s)) = Range(errq) \cup {m.s}
      BY <1>2, <1>5, RangeOfAppend
    <3> QED BY <1>2, <1>7, <3>1
  <2>2. \A s \in wat : Msg("error", s) \in Range(aq) =>
            Msg("error", s) \in Range(aq') \/ s \in Range(errq')
    BY <1>3, <2>1 DEF Msg
  <2>3. \A s \in Session : Msg("response", s) \in Range(aq) => Msg("response", s) \in Range(aq')
    BY <1>3, <1>7 DEF Msg
  <2>4. Range(errq) \subseteq Range(errq') /\ Range(errq') \subseteq Range(errq) \cup wat
    BY <2>1
  <2> QED BY <1>1, <1>2, <1>3, <1>4, <1>7, <2>1, <2>2, <2>3, <2>4, SuspendedType, QuietKeeps
<1> QED BY <1>6, <1>7 DEF dispatch_message

LEMMA dispatch_error_queueKeeps == ASSUME IInv, broken = {}, dispatch_error_queue PROVE IInv'
<1> DEFINE s0 == Head(errq)
<1>1. /\ ctl # <<>> /\ Head(ctl).f = "error" /\ errq' = Tail(errq)
      /\ idco' = [idco EXCEPT ![s0] = "nil"]
      /\ ctl' = IF idco[s0] \in Co
                THEN <<Todo("resume", idco[s0], "error", s0)>> \o Tail(ctl) ELSE <<>>
      /\ UNCHANGED <<aq, wak, broken>> /\ PlacesRest
  BY DEF dispatch_error_queue, PlacesRest, calleeVars
<1>2. /\ TypeOK /\ Whole /\ Stacked /\ errq \in Seq(Session) /\ aq \in Seq(Message)
      /\ wak \in SUBSET Co /\ ctl \in Seq(Item)
  BY DEF IInv, TypeOK
<1>3. errq # <<>>
  BY <1>1, <1>2 DEF Whole, Stack
<1>4. s0 \in Session /\ errq' \in Seq(Session) /\ Range(errq) = {s0} \cup Range(errq')
  BY <1>1, <1>2, <1>3, RangeOfTail
<1> HIDE DEF s0
<1>5. s0 <= lastS /\ s0 \in Nat
  BY <1>2, <1>4, SessionsAssumption DEF Whole, Old, Session
<1>6. \A c \in Co : ~Resumed(c)
  BY <1>1 DEF Resumed
<1>7. \A c \in Co : idco[s0] = c <=> place[c].at \in Waits /\ place[c].s = s0
  BY <1>2, <1>4, <1>6 DEF Whole, Ids
<1>8. /\ Range(aq') \subseteq Range(aq) /\ Range(errq') \subseteq Range(errq)
      /\ \A m \in Range(aq) : m \in Range(aq') \/ m.s = s0
      /\ \A s \in Range(errq) : s \in Range(errq') \/ s = s0
      /\ wak' \in SUBSET Co /\ aq' \in Seq(Message)
  BY <1>1, <1>2, <1>4
<1>9. CASE idco[s0] \in Co
  <2>1. PICK c \in Co : c = idco[s0]
    BY <1>9
  <2>2. PICK t \in Item : t = Todo("resume", c, "error", s0)
    BY <1>5 DEF Todo, Item
  <2>3. t.f = "resume" /\ t.c = c /\ t.how = "error" /\ t.s = s0
    BY <2>2 DEF Todo
  <2>4. Tail(ctl) \in Seq(Item) /\ NoResume(Tail(ctl))
    BY <1>1, <1>2 DEF Stacked
  <2>5. ctl' \in Seq(Item) /\ ctl' # <<>> /\ Head(ctl') = t /\ NoResume(Tail(ctl'))
    BY <1>1, <1>9, <2>1, <2>2, <2>4, PushIs
  <2>6. \A d \in Co : Resumed(d)' <=> d = c
    BY <2>3, <2>5 DEF Resumed
  <2>7. \A d \in Co : Resumed(d)' <=> place[d].at \in Waits /\ place[d].s = s0
    BY <1>7, <2>1, <2>6
  <2>8. place[c].at = "call" /\ place[c].s = s0
    BY <1>2, <1>4, <1>7, <2>1 DEF Whole, Kinds, Waits
  <2>9. Stacked' /\ Stack'
    BY <1>1, <2>3, <2>5, <2>8 DEF Stacked, Stack, Fits, PlacesRest
  <2> QED BY <1>1, <1>4, <1>5, <1>6, <1>8, <2>5, <2>7, <2>9, TakeKeeps
<1>10. CASE idco[s0] \notin Co
  <2>1. ctl' = <<>>
    BY <1>1, <1>10
  <2>2. ctl' \in Seq(Item) /\ Stacked' /\ Stack'
    BY <2>1 DEF Stacked, Stack
  <2>3. \A d \in Co : Resumed(d)' <=> place[d].at \in Waits /\ place[d].s = s0
    BY <1>7, <1>10, <2>1 DEF Resumed
  <2> QED BY <1>1, <1>4, <1>5, <1>6, <1>8, <2>2, <2>3, TakeKeeps
<1> QED BY <1>9, <1>10

LEMMA dispatch_wakeupKeeps == ASSUME IInv, broken = {}, dispatch_wakeup PROVE IInv'
<1>1. PICK c \in wak :
        /\ ctl # <<>> /\ Head(ctl).f = "wakeup" /\ wak' = wak \ {c}
        /\ IF slp[c] = 0
           THEN ctl' = Settled(Tail(ctl), wak', errq) /\ UNCHANGED <<idco, broken>>
           ELSE /\ idco' = [idco EXCEPT ![slp[c]] = "BREAK"]
                /\ ctl' = <<Todo("resume", c, "break", slp[c])>> \o Tail(ctl)
                /\ broken' = IF c \in slept /\ place[c].at \notin {"sleep", "wait"}
                             THEN broken \cup {c} ELSE broken
        /\ UNCHANGED <<aq, errq>> /\ PlacesRest
  BY DEF dispatch_wakeup, PlacesRest, calleeVars
<1>2. /\ TypeOK /\ Whole /\ Stacked /\ errq \in Seq(Session) /\ aq \in Seq(Message)
      /\ wak \in SUBSET Co /\ ctl \in Seq(Item)
  BY DEF IInv, TypeOK
<1>3. Tail(ctl) \in Seq(Item) /\ NoResume(Tail(ctl))
  BY <1>1, <1>2 DEF Stacked
<1>4. \A d \in Co : ~Resumed(d)
  BY <1>1 DEF Resumed
<1>5. CASE slp[c] = 0
  <2>1. ctl' = Settled(Tail(ctl), wak', errq') /\ UNCHANGED <<idco, broken>>
    BY <1>1, <1>5
  <2>2. wak' \in SUBSET Co /\ aq' \in Seq(Message) /\ errq' \in Seq(Session)
    BY <1>1, <1>2
  <2> QED BY <1>1, <1>3, <1>4, <2>1, <2>2, QuietKeeps
<1>6. CASE slp[c] # 0
  <2>1. PICK s0 \in Nat : s0 = slp[c]
    BY <1>1, <1>2 DEF TypeOK
  <2>2. s0 \in Session /\ s0 <= lastS
    BY <1>1, <1>2, <1>6, <2>1, SessionsAssumption DEF TypeOK, Session, Whole, Old
  <2>3. /\ idco' = [idco EXCEPT ![s0] = "BREAK"]
        /\ ctl' = <<Todo("resume", c, "break", s0)>> \o Tail(ctl)
        /\ broken' = IF c \in slept /\ place[c].at \notin {"sleep", "wait"}
                     THEN broken \cup {c} ELSE broken
    BY <1>1, <1>6, <2>1
  <2>4. PICK t \in Item : t = Todo("resume", c, "break", s0)
    BY <1>2 DEF Todo, Item
  <2>5. t.f = "resume" /\ t.c = c /\ t.how = "break" /\ t.s = s0
    BY <2>4 DEF Todo
  <2>6. ctl' \in Seq(Item) /\ ctl' # <<>> /\ Head(ctl') = t /\ NoResume(Tail(ctl'))
    BY <1>3, <2>3, <2>4, PushIs
  <2>7. Stacked'
    BY <2>6 DEF Stacked
  <2>8. CASE c \in slept /\ place[c].at \notin {"sleep", "wait"}
    <3>1. broken' = {c}
      BY <2>3, <2>8
    <3>2. TypeOK'
      <4>1. idco' \in [Session -> Co \cup {"nil", "BREAK"}]
        BY <1>2, <2>3 DEF TypeOK
      <4> QED BY <1>1, <1>2, <2>6, <3>1, <4>1 DEF TypeOK, PlacesRest
    <3>3. \A d \in Co : (Coming(d) => Coming(d)') /\ (Landed(d) => Landed(d)')
      BY <1>1, <1>4 DEF Coming, Landed, PlacesRest
    <3>4. Kept'
      BY <1>1, <3>3, DispatchKept
    <3>5. ResumeExact'
      BY <1>1 DEF IInv, ResumeExact, PlacesRest
    <3> QED BY <2>7, <3>1, <3>2, <3>4, <3>5 DEF IInv
  <2>9. CASE ~(c \in slept /\ place[c].at \notin {"sleep", "wait"})
    <3>1. broken' = {}
      BY <2>3, <2>9
    <3>2. c \in Co /\ place[c].at \in {"sleep", "wait"} /\ place[c].s = s0
      BY <1>1, <1>2, <1>6, <2>1, <2>9 DEF Whole, Sleeping
    <3>3. Stack'
      BY <1>1, <2>5, <2>6, <3>2 DEF Stack, Fits, PlacesRest
    <3>4. \A d \in Co : Resumed(d)' <=> d = c
      BY <2>5, <2>6 DEF Resumed
    <3>5. \A d \in Co : Resumed(d)' <=> place[d].at \in Waits /\ place[d].s = s0
      BY <1>2, <3>2, <3>4 DEF Whole, Distinct, Waits
    <3>6. /\ Range(aq') \subseteq Range(aq) /\ Range(errq') \subseteq Range(errq)
          /\ \A m \in Range(aq) : m \in Range(aq') \/ m.s = s0
          /\ \A s \in Range(errq) : s \in Range(errq') \/ s = s0
          /\ wak' \in SUBSET Co /\ aq' \in Seq(Message) /\ errq' \in Seq(Session)
      BY <1>1, <1>2
    <3> QED BY <1>1, <1>4, <2>2, <2>3, <2>6, <2>7, <3>1, <3>3, <3>5, <3>6, TakeKeeps
  <2> QED BY <2>8, <2>9
<1> QED BY <1>5, <1>6

-----------------------------------------------------------------------------
(* A coroutine runs *)

\* What a resumed coroutine c changes on its way to its next place q.
MovedPlace(c, q) ==
    /\ place' = [place EXCEPT ![c] = q]
    /\ q \in [at : Waits \cup {"pool", "dead"}, s : Nat]
    /\ lastS' \in 0 .. MAX_SESSION /\ lastS <= lastS'
    /\ q.at \in Waits => q.s = lastS + 1 /\ lastS' = lastS + 1
    /\ q.at \notin Waits => q.s = 0
MovedIds(c, q) ==
    /\ idco' \in [Session -> Co \cup {"nil", "BREAK"}]
    /\ \A x \in Session : x > lastS' => idco'[x] = "nil"
    /\ \A x \in Session : idco'[x] = c <=> q.at \in Waits /\ x = q.s
    /\ \A x \in Session, d \in Co \ {c} : idco'[x] = d <=> idco[x] = d
MovedWat(c, q) ==
    /\ wat' \in SUBSET Session
    /\ \A x \in wat' : x \in wat \/ (q.at = "call" /\ x = q.s)
    /\ q.at = "call" => q.s \in wat'
    /\ \A d \in Co \ {c} : place[d].at = "call" => place[d].s \in wat'
MovedOut(q) ==
    /\ timers' = IF q.at = "sleep" THEN timers \cup {q.s} ELSE timers
    /\ bq' = IF q.at = "call" THEN Append(bq, q.s) ELSE bq
    /\ UNCHANGED <<aq, errq, broken, bState, running, responded, unresp, told, lost>>
    /\ ~misfit'
MovedSleep(c, q) ==
    /\ slp' \in [Co -> Nat] /\ slept' \in SUBSET Co
    /\ \A d \in Co \ {c} : slp'[d] = slp[d] /\ (d \in slept' <=> d \in slept)
    /\ q.at \in {"sleep", "wait"} => slp'[c] = q.s /\ c \notin slept'
    /\ q.at \notin {"sleep", "wait"} => slp'[c] \in 0 .. lastS /\ (slp'[c] # 0 => c \in slept')

LEMMA MovedKeeps ==
    ASSUME IInv, broken = {}, NEW c \in Co, Resumed(c), NEW q,
           MovedPlace(c, q), MovedIds(c, q), MovedWat(c, q), MovedOut(q), MovedSleep(c, q),
           wak' \in SUBSET Co, ctl' \in Seq(Item), Stacked', Stack', \A d : ~Resumed(d)'
    PROVE  IInv'
<1>1. TypeOK /\ Whole /\ Kept
  BY DEF IInv
<1>2. /\ lastS \in Nat /\ lastS' \in Nat /\ lastS <= lastS' /\ q.s \in Nat
      /\ q.at \in Waits => q.s \in 1 .. lastS' /\ q.s = lastS + 1 /\ lastS' = lastS + 1
      /\ q.at \notin Waits => q.s = 0
  BY <1>1, SessionsAssumption DEF TypeOK, MovedPlace
<1>3. q.at \in Waits => q.s \in Session
  BY <1>1, <1>2, SessionsAssumption DEF MovedPlace, Session
<1>4. place'[c] = q /\ \A d \in Co \ {c} : place'[d] = place[d]
  BY <1>1 DEF MovedPlace, TypeOK
<1>5. \A d \in Co \ {c} : ~Resumed(d)
  BY DEF Resumed
<1>6. /\ bq' \in Seq(Session)
      /\ Range(bq') = IF q.at = "call" THEN Range(bq) \cup {q.s} ELSE Range(bq)
  <2>1. bq \in Seq(Session)
    BY <1>1 DEF TypeOK
  <2>2. CASE q.at = "call"
    <3>1. q.s \in Session /\ bq' = Append(bq, q.s)
      BY <1>3, <2>2 DEF MovedOut, Waits
    <3> QED BY <2>1, <2>2, <3>1, RangeOfAppend
  <2>3. CASE q.at # "call"
    BY <2>1, <2>3 DEF MovedOut
  <2> QED BY <2>2, <2>3
<1>7. TypeOK'
  <2>1. place' \in [Co -> [at : Waits \cup {"pool", "dead"}, s : Nat]]
    BY <1>1 DEF MovedPlace, TypeOK
  <2>2. timers' \in SUBSET Session
    BY <1>1, <1>3 DEF MovedOut, TypeOK, Waits
  <2> QED BY <1>1, <1>6, <2>1, <2>2 DEF TypeOK, MovedPlace, MovedIds, MovedWat, MovedOut, MovedSleep
<1>8. Ids'
  <2> SUFFICES ASSUME NEW x \in Session, NEW d \in Co
               PROVE  idco'[x] = d <=> place'[d].at \in Waits /\ place'[d].s = x
    BY DEF Ids
  <2>1. CASE d = c
    BY <1>4, <2>1 DEF MovedIds
  <2>2. CASE d # c
    <3>1. idco[x] = d <=> place[d].at \in Waits /\ place[d].s = x
      BY <1>1, <1>5, <2>2 DEF Whole, Ids
    <3> QED BY <1>4, <2>2, <3>1 DEF MovedIds
  <2> QED BY <2>1, <2>2
<1>9. \A x \in Traffic' : x \in Traffic \/ (q.at \in {"call", "sleep"} /\ x = q.s)
  BY <1>6 DEF Traffic, MovedOut
<1>10. /\ Traffic \cup wat \cup Range(errq) \cup told \cup responded \subseteq 1 .. lastS
       /\ \A d \in Co : place[d].s \in 0 .. lastS /\ slp[d] \in 0 .. lastS
       /\ \A d \in Co : place[d].at \in Waits => place[d].s \in 1 .. lastS
  BY <1>1 DEF Whole, Old
<1>11. 1 .. lastS \subseteq 1 .. lastS' /\ 0 .. lastS \subseteq 0 .. lastS'
  BY <1>2
<1>12. Old'
  <2>1. Traffic' \subseteq 1 .. lastS'
    BY <1>2, <1>9, <1>10, <1>11 DEF Waits
  <2>2. wat' \subseteq 1 .. lastS'
    BY <1>2, <1>10, <1>11 DEF Waits, MovedWat
  <2>3. Range(errq') \cup told' \cup responded' \subseteq 1 .. lastS'
    BY <1>10, <1>11 DEF MovedOut
  <2>4. ASSUME NEW d \in Co
        PROVE  /\ place'[d].s \in 0 .. lastS' /\ slp'[d] \in 0 .. lastS'
               /\ place'[d].at \in Waits => place'[d].s \in 1 .. lastS'
    <3>1. CASE d # c
      BY <1>4, <1>10, <1>11, <3>1 DEF MovedSleep
    <3>2. CASE d = c
      <4>1. q.s \in 0 .. lastS' /\ (q.at \in Waits => q.s \in 1 .. lastS')
        BY <1>2
      <4>2. slp'[c] \in 0 .. lastS'
        BY <1>11, <4>1 DEF MovedSleep
      <4> QED BY <1>4, <3>2, <4>1, <4>2
    <3> QED BY <3>1, <3>2
  <2> QED BY <2>1, <2>2, <2>3, <2>4 DEF Old, MovedIds
<1>13. q.at \in Waits => q.s \notin 1 .. lastS
  BY <1>2
<1>14. Kinds'
  <2> SUFFICES ASSUME NEW d \in Co
               PROVE  /\ place'[d].at = "wait" => place'[d].s \notin Traffic'
                      /\ place'[d].at \in {"sleep", "wait"} => place'[d].s \notin wat' \cup Range(errq)
                      /\ place'[d].at = "call" => place'[d].s \in wat'
    BY DEF Kinds, MovedOut
  <2>1. CASE d # c
    <3>1. /\ place[d].at = "wait" => place[d].s \notin Traffic
          /\ place[d].at \in {"sleep", "wait"} => place[d].s \notin wat \cup Range(errq)
      BY <1>1 DEF Whole, Kinds
    <3>2. place[d].at \in Waits => place[d].s # q.s \/ q.at \notin Waits
      BY <1>10, <1>13
    <3> QED BY <1>4, <1>9, <2>1, <3>1, <3>2 DEF MovedWat, Waits
  <2>2. CASE d = c
    <3>1. q.at \in Waits => q.s \notin Traffic \cup wat \cup Range(errq)
      BY <1>10, <1>13
    <3> QED BY <1>4, <1>9, <2>2, <3>1 DEF MovedWat, Waits
  <2> QED BY <2>1, <2>2
<1>15. Distinct'
  <2> SUFFICES ASSUME NEW d \in Co, NEW e \in Co, place'[d].at \in Waits,
                      place'[e].at \in Waits, place'[d].s = place'[e].s
               PROVE  d = e
    BY DEF Distinct
  <2>1. CASE d # c /\ e # c
    BY <1>1, <1>4, <2>1 DEF Whole, Distinct
  <2>2. CASE d = c /\ e # c
    BY <1>4, <1>10, <1>13, <2>2
  <2>3. CASE d # c /\ e = c
    BY <1>4, <1>10, <1>13, <2>3
  <2> QED BY <2>1, <2>2, <2>3
<1>16. Sleeping'
  <2> SUFFICES ASSUME NEW d \in Co
               PROVE  /\ place'[d].at \in {"sleep", "wait"} => slp'[d] = place'[d].s /\ d \notin slept'
                      /\ place'[d].at \notin {"sleep", "wait"} /\ slp'[d] # 0 => d \in slept'
    BY DEF Sleeping
  <2>1. CASE d # c
    BY <1>1, <1>4, <2>1 DEF Whole, Sleeping, MovedSleep
  <2>2. CASE d = c
    BY <1>4, <2>2 DEF MovedSleep
  <2> QED BY <2>1, <2>2
<1>17. Served'
  <2>1. running \cup responded \subseteq 1 .. lastS /\ Range(bq) \subseteq 1 .. lastS
    BY <1>10 DEF Traffic
  <2>2. IsInjective(bq')
    <3>1. bq \in Seq(Session) /\ IsInjective(bq)
      BY <1>1 DEF TypeOK, Whole, Served
    <3>2. CASE q.at = "call"
      <4>1. q.s \in Session /\ bq' = Append(bq, q.s) /\ q.s \notin Range(bq)
        BY <1>3, <1>13, <2>1, <3>2 DEF MovedOut, Waits
      <4> QED BY <3>1, <4>1, InjectiveAppend
    <3>3. CASE q.at # "call"
      BY <3>1, <3>3 DEF MovedOut
    <3> QED BY <3>2, <3>3
  <2>3. Range(bq) \cap (running \cup responded) = {}
    BY <1>1 DEF Whole, Served
  <2>4. q.at = "call" => q.s \notin running \cup responded
    BY <1>13, <2>1 DEF Waits
  <2> QED BY <1>6, <2>2, <2>3, <2>4 DEF Served, MovedOut
<1>18. ASSUME NEW d \in Co \ {c}, Coming(d) PROVE Coming(d)'
  BY <1>4, <1>5, <1>18 DEF Coming, MovedOut
<1>19. Told'
  <2> SUFFICES ASSUME NEW d \in Co, place'[d].at = "call", place'[d].s \in told
               PROVE  Coming(d)'
    BY DEF Told, MovedOut
  <2>1. CASE d = c
    <3>1. q.s \in 1 .. lastS /\ q.at \in Waits
      BY <1>4, <1>10, <2>1 DEF Waits
    <3> QED BY <1>13, <3>1
  <2>2. CASE d # c
    <3>1. Coming(d)
      BY <1>1, <1>4, <2>2 DEF Whole, Told
    <3> QED BY <1>18, <2>2, <3>1
  <2> QED BY <2>1, <2>2
<1>20. Kept'
  <2> SUFFICES ASSUME NEW d \in Co
               PROVE  /\ place'[d].at = "call" =>
                          \/ place'[d].s \in Range(bq') \cup (running \ responded) \cup unresp \cup lost
                          \/ Coming(d)'
                      /\ place'[d].at = "sleep" =>
                          place'[d].s \in timers' \/ Msg("response", place'[d].s) \in Range(aq)
    BY DEF Kept, MovedOut
  <2>1. CASE d = c
    BY <1>4, <1>6, <2>1 DEF MovedOut
  <2>2. CASE d # c
    <3>1. /\ place[d].at = "call" =>
              \/ place[d].s \in Range(bq) \cup (running \ responded) \cup unresp \cup lost
              \/ Coming(d)
          /\ place[d].at = "sleep" =>
              place[d].s \in timers \/ Msg("response", place[d].s) \in Range(aq)
      BY <1>1, <1>5, <2>2 DEF Kept
    <3>2. Range(bq) \subseteq Range(bq') /\ timers \subseteq timers'
      BY <1>6 DEF MovedOut
    <3> QED BY <1>4, <1>18, <2>2, <3>1, <3>2
  <2> QED BY <2>1, <2>2
<1>21. ResumeExact'
  BY DEF IInv, ResumeExact, MovedOut
<1> QED BY <1>7, <1>8, <1>12, <1>14, <1>15, <1>16, <1>17, <1>19, <1>20, <1>21 DEF IInv, Whole

\* What the wait a coroutine comes out of leaves of the tables.
WatAfter(p) == IF p.at = "call" THEN wat \ {p.s} ELSE wat
LeftAfter(c, p) ==
    IF p.at = "sleep" THEN slept \cup {c} ELSE IF p.at = "wait" THEN slept \ {c} ELSE slept

LEMMA IdAfterIs ==
    ASSUME TypeOK, Whole, NEW c \in Co, Resumed(c)
    PROVE  LET ids == IdAfter(place[c], idco) IN
           /\ ids \in [Session -> Co \cup {"nil", "BREAK"}]
           /\ \A x \in Session : ids[x] # c /\ (x > lastS => ids[x] = "nil")
           /\ \A x \in Session, d \in Co : ids[x] = d <=> idco[x] = d
<1> DEFINE ids == IdAfter(place[c], idco)
<1>1. \A x \in Session : idco[x] # c /\ (x > lastS => idco[x] = "nil")
  BY DEF Whole, Ids, Old
<1>2. CASE place[c].at = "wait"
  <2>1. PICK s0 \in Session : s0 = place[c].s
    BY <1>2, SessionsAssumption DEF TypeOK, Whole, Old, Waits, Session
  <2>2. idco[s0] \notin Co
    <3> SUFFICES ASSUME NEW d \in Co, idco[s0] = d PROVE FALSE
      OBVIOUS
    <3>1. place[d].at \in Waits /\ place[d].s = s0 /\ ~Resumed(d)
      BY DEF Whole, Ids
    <3>2. d = c
      BY <1>2, <2>1, <3>1 DEF Whole, Distinct, Waits
    <3> QED BY <3>1, <3>2
  <2>3. ids = [idco EXCEPT ![s0] = "nil"]
    BY <1>2, <2>1 DEF IdAfter
  <2>4. idco \in [Session -> Co \cup {"nil", "BREAK"}]
    BY DEF TypeOK
  <2> HIDE DEF ids
  <2>5. /\ ids \in [Session -> Co \cup {"nil", "BREAK"}]
        /\ \A x \in Session : ids[x] = IF x = s0 THEN "nil" ELSE idco[x]
    BY <2>3, <2>4
  <2> QED BY <1>1, <2>2, <2>5, SessionsAssumption DEF ids
<1>3. CASE place[c].at # "wait"
  <2>1. ids = idco
    BY <1>3 DEF IdAfter
  <2> QED BY <1>1, <2>1 DEF TypeOK
<1> QED BY <1>2, <1>3

LEMMA SleepAfterIs ==
    ASSUME TypeOK, Whole, NEW c \in Co
    PROVE  LET sl == [slp EXCEPT ![c] = SleepAfter(place[c], @)]
               left == LeftAfter(c, place[c]) IN
           /\ sl \in [Co -> Nat] /\ left \in SUBSET Co
           /\ \A d \in Co \ {c} : sl[d] = slp[d] /\ (d \in left <=> d \in slept)
           /\ sl[c] \in 0 .. lastS /\ (sl[c] # 0 => c \in left)
<1> DEFINE a == SleepAfter(place[c], slp[c])
<1>1. /\ place[c].s \in 0 .. lastS /\ slp[c] \in 0 .. lastS /\ lastS \in Nat
      /\ slp \in [Co -> Nat] /\ slept \in SUBSET Co
  BY SessionsAssumption DEF TypeOK, Whole, Old
<1>2. a \in 0 .. lastS
  BY <1>1 DEF SleepAfter
<1>3. a # 0 => c \in LeftAfter(c, place[c])
  BY DEF SleepAfter, LeftAfter, Whole, Sleeping
<1>4. LeftAfter(c, place[c]) \in SUBSET Co
  BY <1>1 DEF LeftAfter
<1>5. \A d \in Co \ {c} : d \in LeftAfter(c, place[c]) <=> d \in slept
  BY DEF LeftAfter
<1> HIDE DEF a
<1>6. PICK sl : sl = [slp EXCEPT ![c] = a]
  OBVIOUS
<1>7. sl \in [Co -> Nat] /\ sl[c] = a /\ \A d \in Co \ {c} : sl[d] = slp[d]
  BY <1>1, <1>2, <1>6
<1>8. sl = [slp EXCEPT ![c] = SleepAfter(place[c], @)]
  BY <1>1, <1>6 DEF a
<1> QED BY <1>2, <1>3, <1>4, <1>5, <1>7, <1>8

LEMMA WatAfterIs ==
    ASSUME TypeOK, Whole, NEW c \in Co
    PROVE  /\ WatAfter(place[c]) \subseteq wat
           /\ \A d \in Co \ {c} : place[d].at = "call" => place[d].s \in WatAfter(place[c])
  BY DEF WatAfter, Whole, Kinds, Distinct, Waits

LEMMA resumeKeeps == ASSUME IInv, broken = {}, resume PROVE IInv'
<1> DEFINE t    == Head(ctl)
           c    == t.c
           p    == place[c]
           s    == lastS + 1
           sl   == [slp EXCEPT ![c] = SleepAfter(p, @)]
           ids  == IdAfter(p, idco)
           w    == WatAfter(p)
           left == LeftAfter(c, p)
           stack == Settled(Suspended \o Tail(ctl), wak', errq)
           Yields(at) == /\ s \in Session /\ lastS' = s
                         /\ place' = [place EXCEPT ![c] = At(at, s)]
                         /\ idco' = [ids EXCEPT ![s] = c] /\ ctl' = stack
           Sleeps(at) == /\ Yields(at) /\ wat' = w
                         /\ slp' = [sl EXCEPT ![c] = s] /\ slept' = left \ {c}
                         /\ UNCHANGED bq
           Ends(at)   == /\ place' = [place EXCEPT ![c] = At(at, 0)]
                         /\ idco' = ids /\ wat' = w /\ slp' = sl /\ slept' = left
                         /\ UNCHANGED <<lastS, timers, bq>>
           Rest == UNCHANGED <<aq, errq, broken, bState, running, responded, unresp, told, lost>>
<1>1. ctl # <<>> /\ t.f = "resume" /\ misfit' = (misfit \/ ~Fits(p, t)) /\ Rest
  BY DEF resume
<1>2. wak' = wak \/ \E d \in Co : wak' = Woken(d, sl)
  BY DEF resume
<1>3. \/ /\ Yields("call") /\ bq' = Append(bq, s) /\ wat' = w \cup {s}
         /\ slp' = sl /\ slept' = left /\ UNCHANGED timers
      \/ Sleeps("sleep") /\ timers' = timers \cup {s}
      \/ Sleeps("wait") /\ UNCHANGED timers
      \/ Ends("pool") /\ ctl' = stack
      \/ Ends("dead") /\ ctl' = <<>>
  BY DEF resume, WatAfter, LeftAfter
<1>4. TypeOK /\ Whole /\ Stacked /\ ctl \in Seq(Item) /\ lastS \in Nat /\ wak \in SUBSET Co /\ ~misfit
  BY SessionsAssumption DEF IInv, TypeOK, ResumeExact
<1>5. c \in Co /\ Fits(p, t)
  BY <1>1, <1>4 DEF Whole, Stack
<1>6. ~misfit' /\ Resumed(c)
  BY <1>1, <1>4, <1>5 DEF Resumed
<1>7. wak' \in SUBSET Co
  BY <1>2, <1>4 DEF Woken
<1>8. /\ stack \in Seq(Item) /\ NoResume(stack)
      /\ stack # <<>> => Head(stack).f # "resume" /\ (Head(stack).f = "error" => errq # <<>>)
  <2>1. Tail(ctl) \in Seq(Item) /\ NoResume(Tail(ctl))
    BY <1>1, <1>4 DEF Stacked
  <2>2. Suspended \o Tail(ctl) \in Seq(Item) /\ NoResume(Suspended \o Tail(ctl))
    BY <2>1, SuspendOn
  <2> QED BY <2>2, SettledIs
<1>9. /\ ids \in [Session -> Co \cup {"nil", "BREAK"}]
      /\ \A x \in Session : ids[x] # c /\ (x > lastS => ids[x] = "nil")
      /\ \A x \in Session, d \in Co : ids[x] = d <=> idco[x] = d
  BY <1>4, <1>5, <1>6, IdAfterIs
<1>10. /\ sl \in [Co -> Nat] /\ left \in SUBSET Co
       /\ \A d \in Co \ {c} : sl[d] = slp[d] /\ (d \in left <=> d \in slept)
       /\ sl[c] \in 0 .. lastS /\ (sl[c] # 0 => c \in left)
  BY <1>4, <1>5, SleepAfterIs
<1>11. w \subseteq wat /\ wat \in SUBSET Session
       /\ \A d \in Co \ {c} : place[d].at = "call" => place[d].s \in w
  BY <1>4, <1>5, WatAfterIs DEF TypeOK
<1> HIDE DEF sl, ids, w, left, stack, p, c, t
<1>12. ASSUME ctl' = stack \/ ctl' = <<>>
       PROVE  ctl' \in Seq(Item) /\ Stacked' /\ Stack' /\ \A d : ~Resumed(d)'
  <2>1. CASE ctl' = <<>>
    BY <2>1 DEF Stacked, Stack, Resumed
  <2>2. CASE ctl' = stack /\ ctl' # <<>>
    <3>1. ctl' \in Seq(Item) /\ NoResume(ctl') /\ Head(ctl').f # "resume"
      BY <1>8, <2>2
    <3>2. Stacked'
      BY <2>2, <3>1, RangeOfTail DEF Stacked, NoResume
    <3>3. Stack'
      BY <1>1, <1>8, <2>2 DEF Stack
    <3>4. \A d : ~Resumed(d)'
      BY <3>1 DEF Resumed
    <3> QED BY <3>1, <3>2, <3>3, <3>4
  <2> QED BY <1>12, <2>1, <2>2
<1>13. ASSUME NEW at \in Waits, Yields(at)
       PROVE  LET q == At(at, s) IN MovedPlace(c, q) /\ MovedIds(c, q)
  <2>1. PICK q : q = At(at, s)
    OBVIOUS
  <2>2. q.at = at /\ q.s = s /\ q \in [at : Waits \cup {"pool", "dead"}, s : Nat]
    BY <1>4, <2>1 DEF At
  <2>3. MovedPlace(c, q)
    BY <1>4, <1>13, <2>1, <2>2, SessionsAssumption DEF MovedPlace, Session
  <2>4. idco' = [ids EXCEPT ![s] = c] /\ s \in Session /\ lastS' = s
    BY <1>13
  <2>5. /\ idco' \in [Session -> Co \cup {"nil", "BREAK"}]
        /\ \A x \in Session : idco'[x] = IF x = s THEN c ELSE ids[x]
    BY <1>5, <1>9, <2>4
  <2>6. \A x \in Session : x > lastS' => x # s /\ x > lastS
    BY <1>4, <2>4 DEF Session
  <2>7. ids[s] = "nil"
    BY <1>4, <1>9, <2>4
  <2>8. MovedIds(c, q)
    BY <1>5, <1>9, <2>2, <2>5, <2>6, <2>7, SessionsAssumption DEF MovedIds
  <2> QED BY <2>1, <2>3, <2>8
<1>14. CASE /\ Yields("call") /\ bq' = Append(bq, s) /\ wat' = w \cup {s}
            /\ slp' = sl /\ slept' = left /\ UNCHANGED timers
  <2>1. PICK q : q = At("call", s)
    OBVIOUS
  <2>2. q.at = "call" /\ q.s = s
    BY <2>1 DEF At
  <2>3. MovedPlace(c, q) /\ MovedIds(c, q)
    BY <1>13, <1>14, <2>1 DEF Waits
  <2>4. MovedWat(c, q)
    BY <1>11, <1>14, <2>2 DEF MovedWat
  <2>5. MovedOut(q)
    BY <1>1, <1>6, <1>14, <2>2 DEF MovedOut
  <2>6. MovedSleep(c, q)
    BY <1>10, <1>14, <2>2 DEF MovedSleep
  <2> QED BY <1>5, <1>6, <1>7, <1>12, <1>14, <2>3, <2>4, <2>5, <2>6, MovedKeeps
<1>15. ASSUME NEW at \in {"sleep", "wait"}, Sleeps(at),
              timers' = IF at = "sleep" THEN timers \cup {s} ELSE timers
       PROVE  IInv'
  <2>1. PICK q : q = At(at, s)
    OBVIOUS
  <2>2. q.at = at /\ q.s = s
    BY <2>1 DEF At
  <2>3. MovedPlace(c, q) /\ MovedIds(c, q)
    BY <1>13, <1>15, <2>1 DEF Waits
  <2>4. MovedWat(c, q)
    BY <1>11, <1>15, <2>2 DEF MovedWat
  <2>5. MovedOut(q)
    BY <1>1, <1>6, <1>15, <2>2 DEF MovedOut
  <2>6. MovedSleep(c, q)
    BY <1>4, <1>5, <1>10, <1>15, <2>2 DEF MovedSleep
  <2> QED BY <1>5, <1>6, <1>7, <1>12, <1>15, <2>3, <2>4, <2>5, <2>6, MovedKeeps
<1>16. ASSUME NEW at \in {"pool", "dead"}, Ends(at), ctl' = stack \/ ctl' = <<>>
       PROVE  IInv'
  <2>1. PICK q : q = At(at, 0)
    OBVIOUS
  <2>2. q.at = at /\ q.s = 0 /\ q.at \notin Waits
    BY <2>1 DEF At, Waits
  <2>3. MovedPlace(c, q)
    BY <1>4, <1>16, <2>1, <2>2 DEF MovedPlace, At, TypeOK
  <2>4. MovedIds(c, q)
    BY <1>9, <1>16, <2>2 DEF MovedIds
  <2>5. MovedWat(c, q)
    BY <1>11, <1>16, <2>2 DEF MovedWat, Waits
  <2>6. MovedOut(q)
    BY <1>1, <1>6, <1>16, <2>2 DEF MovedOut
  <2>7. MovedSleep(c, q)
    BY <1>10, <1>16, <2>2 DEF MovedSleep
  <2> QED BY <1>5, <1>6, <1>7, <1>12, <1>16, <2>3, <2>4, <2>5, <2>6, <2>7, MovedKeeps
<1> QED BY <1>3, <1>14, <1>15, <1>16

-----------------------------------------------------------------------------
(* The theorems *)

LEMMA SessionsInitial == SessionsInit => IInv
<1> SUFFICES ASSUME SessionsInit PROVE IInv
  OBVIOUS
<1>1. TypeOK
  BY SessionsAssumption DEF SessionsInit, TypeOK, At, Waits
<1>2. /\ Range(aq) = {} /\ Range(bq) = {} /\ Range(errq) = {} /\ Traffic = {}
  BY RangeOfEmpty DEF SessionsInit, Traffic
<1>3. \A c \in Co : place[c].at = "pool" /\ place[c].s = 0 /\ slp[c] = 0 /\ ~Resumed(c)
  BY DEF SessionsInit, At, Resumed
<1>4. Stack /\ Stacked
  BY DEF SessionsInit, Stack, Stacked
<1>5. Ids
  BY <1>3, SessionsAssumption DEF SessionsInit, Ids, Waits
<1>6. Old
  BY <1>2, <1>3 DEF SessionsInit, Old, Waits
<1>7. Kinds /\ Distinct /\ Sleeping /\ Told /\ Kept
  BY <1>3 DEF Kinds, Distinct, Sleeping, Told, Kept, Waits
<1>8. Served
  BY <1>2 DEF SessionsInit, Served, IsInjective
<1> QED BY <1>1, <1>4, <1>5, <1>6, <1>7, <1>8 DEF IInv, Whole, ResumeExact, SessionsInit

LEMMA SessionsStep == IInv /\ [SessionsNext]_ssVars => IInv'
<1> SUFFICES ASSUME IInv, [SessionsNext]_ssVars PROVE IInv'
  OBVIOUS
<1>1. CASE SessionsNext
  <2>1. broken = {}
    BY <1>1 DEF SessionsNext
  <2>2. CASE timer_fire BY <2>1, <2>2, timer_fireKeeps
  <2>3. CASE start BY <2>1, <2>3, startKeeps
  <2>4. CASE term BY <2>1, <2>4, termKeeps
  <2>5. CASE dispatch_message BY <2>1, <2>5, dispatch_messageKeeps
  <2>6. CASE dispatch_wakeup BY <2>1, <2>6, dispatch_wakeupKeeps
  <2>7. CASE dispatch_error_queue BY <2>1, <2>7, dispatch_error_queueKeeps
  <2>8. CASE resume BY <2>1, <2>8, resumeKeeps
  <2>9. CASE serve BY <2>1, <2>9, serveKeeps
  <2>10. CASE ret BY <2>1, <2>10, retKeeps
  <2>11. CASE defer BY <2>1, <2>11, deferKeeps
  <2>12. CASE respond BY <2>1, <2>12, respondKeeps
  <2>13. CASE finish BY <2>1, <2>13, finishKeeps
  <2>14. CASE fail BY <2>1, <2>14, failKeeps
  <2>15. CASE exit BY <2>1, <2>15, exitKeeps
  <2>16. CASE kill BY <2>1, <2>16, killKeeps
  <2>17. CASE gone BY <2>1, <2>17, goneKeeps
  <2> QED BY <1>1, <2>2, <2>3, <2>4, <2>5, <2>6, <2>7, <2>8, <2>9, <2>10, <2>11, <2>12,
             <2>13, <2>14, <2>15, <2>16, <2>17 DEF SessionsNext
<1>2. CASE UNCHANGED ssVars
  <2>1. UNCHANGED <<aq, place, idco, slp, wak, wat, errq, ctl, timers, lastS, slept, broken, misfit,
                    bq, bState, running, responded, unresp, told, lost>>
    BY <1>2 DEF ssVars, callerVars, calleeVars
  <2>2. TypeOK' <=> TypeOK
    BY <2>1 DEF TypeOK
  <2>3. Kept' <=> Kept
    BY <2>1 DEF Kept, Coming, Resumed
  <2>4. Whole' <=> Whole
    BY <2>1 DEF Whole, Stack, Ids, Old, Kinds, Distinct, Sleeping, Served, Told, Coming, Resumed, Traffic
  <2> QED BY <2>1, <2>2, <2>3, <2>4 DEF IInv, ResumeExact, Stacked
<1> QED BY <1>1, <1>2

LEMMA SessionsInvariant == SessionsSpec => []IInv
  BY SessionsInitial, SessionsStep, PTL DEF SessionsSpec

\* For any number of coroutines and sessions, _dispatch_message, suspend,
\* dispatch_wakeup and dispatch_error_queue resume a coroutine only with what
\* it waits for.
THEOREM ResumesExact == SessionsSpec => []ResumeExact
<1>1. IInv => ResumeExact
  BY DEF IInv
<1> QED BY <1>1, SessionsInvariant, PTL

\* For any number of coroutines and sessions, a coroutine in pixel.call keeps
\* its request, its answer or an error for it, unless the called service
\* dropped it, and a sleeper keeps its timeout.
THEOREM CallsKept == SessionsSpec => []CallKept
<1>1. IInv => CallKept
  BY KeptIs DEF IInv, TypeOK
<1> QED BY <1>1, SessionsInvariant, PTL

=============================================================================
