------------------------------ MODULE Sessions ------------------------------
(***************************************************************************)
(* The session runtime of src/lualib/pixel.lua: the coroutines of a        *)
(* service that call another one, sleep, wait and wake each other up, and  *)
(* the half of the called service that answers, now or later, fails,       *)
(* exits or is killed.  A handler of the caller is a stack of what is      *)
(* still to be done in it, because suspend, dispatch_wakeup and            *)
(* dispatch_error_queue call each other.                                   *)
(***************************************************************************)
EXTENDS Integers, Sequences, SequencesExt, FiniteSets, FiniteSetsExt

CONSTANTS
    Co,                 \* the coroutines of the caller
    MAX_SESSION         \* bound: sessions

ASSUME SessionsAssumption ==
    MAX_SESSION \in Nat /\ "nil" \notin Co /\ "BREAK" \notin Co

VARIABLES
    aq,         \* the caller's queue of [t, s]
    place,      \* where a coroutine stands: [at, s]
    idco,       \* session_id_coroutine
    slp,        \* sleep_session, 0 for nil
    wak,        \* wakeup_session
    wat,        \* the sessions of watching_session
    errq,       \* error_queue
    ctl,        \* what is left to do in the handler that runs
    timers,     \* sessions of timeouts that are not due yet
    lastS,      \* the last session
    bq,         \* requests in the queue of the called service
    bState,     \* "up", "killed" or "gone"
    running,    \* sessions of its coroutines, session_coroutine_id
    responded,  \* session_response
    unresp,     \* unresponse
    told,       \* ghost: sessions that pixel.exit sent an error to
    lost,       \* ghost: requests nobody will answer
    slept,      \* ghost: coroutines whose sleep_session a sleep left behind
    broken,     \* ghost: coroutines woken through such an entry
    misfit      \* ghost: a coroutine was given what it does not wait for

callerVars == <<place, idco, slp, wak, wat, errq, ctl, timers, lastS, slept, broken, misfit>>
calleeVars == <<bq, bState, running, responded, unresp, told, lost>>
ssVars == <<aq, callerVars, calleeVars>>

Session == 1 .. MAX_SESSION
At(at, s)  == [at |-> at, s |-> s]
Msg(t, s)  == [t |-> t, s |-> s]
Todo(f, c, how, s) == [f |-> f, c |-> c, how |-> how, s |-> s]
\* The end of suspend: dispatch_wakeup, then dispatch_error_queue.
Suspended == <<Todo("wakeup", "", "", 0), Todo("error", "", "", 0)>>

\* Both return at once when they find nothing: what is left of the stack
\* begins with the first call that has something to do.
Idle(todo, woken, errors) ==
    \/ todo.f = "wakeup" /\ woken = {}
    \/ todo.f = "error" /\ errors = <<>>

Settled(stack, woken, errors) ==
    LET busy == {i \in DOMAIN stack : ~Idle(stack[i], woken, errors)}
    IN  IF busy = {} THEN <<>> ELSE SubSeq(stack, Min(busy), Len(stack))

-----------------------------------------------------------------------------
\* pixel_timer_dispatch.
timer_fire ==
    \E s \in timers :
        /\ timers' = timers \ {s}
        /\ aq' = Append(aq, Msg("response", s))
        /\ UNCHANGED <<place, idco, slp, wak, wat, errq, ctl, lastS, slept, broken,
                       misfit, calleeVars>>

\* _dispatch_message for one message.
dispatch_message ==
    /\ ctl = <<>> /\ aq # <<>>
    /\ aq' = Tail(aq)
    /\ LET m == Head(aq) IN
       \/ /\ m.t = "response"
          /\ idco' = [idco EXCEPT ![m.s] = "nil"]
          /\ ctl' = IF idco[m.s] \in Co
                    THEN <<Todo("resume", idco[m.s], "answer", m.s)>> ELSE <<>>
          /\ UNCHANGED errq              \* nil: unknown_response only complains
       \/ /\ m.t = "error"
          /\ errq' = IF m.s \in wat THEN Append(errq, m.s) ELSE errq
          /\ ctl' = Settled(Suspended, wak, errq')
          /\ UNCHANGED idco
    /\ UNCHANGED <<place, slp, wak, wat, timers, lastS, slept, broken, misfit, calleeVars>>

\* A request of a third service starts a coroutine of the pool.  (Its place
\* in the queue does not matter: it may come between any two messages.)
start ==
    /\ ctl = <<>>
    /\ \E c \in Co :
        /\ place[c].at = "pool"
        /\ ctl' = <<Todo("resume", c, "start", 0)>>
    /\ UNCHANGED <<aq, place, idco, slp, wak, wat, errq, timers, lastS, slept, broken,
                   misfit, calleeVars>>

\* pixel.term, from the debug protocol: line 230 compares an undefined name,
\* so no session is ever selected.
Terminated(sessions) == {}

term ==
    /\ ctl = <<>> /\ bState = "gone"
    /\ errq' = errq \o SetToSeq(Terminated(wat))
    /\ ctl' = Settled(Suspended, wak, errq')
    /\ UNCHANGED <<aq, place, idco, slp, wak, wat, timers, lastS, slept, broken,
                   misfit, calleeVars>>

\* dispatch_wakeup.
dispatch_wakeup ==
    /\ ctl # <<>> /\ Head(ctl).f = "wakeup"
    /\ \E c \in wak :
        /\ wak' = wak \ {c}
        /\ IF slp[c] = 0
           THEN ctl' = Settled(Tail(ctl), wak', errq) /\ UNCHANGED <<idco, broken>>
           ELSE /\ idco' = [idco EXCEPT ![slp[c]] = "BREAK"]
                /\ ctl' = <<Todo("resume", c, "break", slp[c])>> \o Tail(ctl)
                /\ broken' = IF c \in slept /\ place[c].at \notin {"sleep", "wait"}
                             THEN broken \cup {c} ELSE broken
    /\ UNCHANGED <<aq, place, slp, wat, errq, timers, lastS, slept, misfit, calleeVars>>

\* dispatch_error_queue.
dispatch_error_queue ==
    /\ ctl # <<>> /\ Head(ctl).f = "error"
    /\ LET s == Head(errq) IN
        /\ errq' = Tail(errq)
        /\ idco' = [idco EXCEPT ![s] = "nil"]
        /\ ctl' = IF idco[s] \in Co
                  THEN <<Todo("resume", idco[s], "error", s)>> \o Tail(ctl)
                  ELSE <<>>             \* an error in coroutine_resume
    /\ UNCHANGED <<aq, place, slp, wak, wat, timers, lastS, slept, broken, misfit, calleeVars>>

\* What a resumed coroutine was waiting for.
Fits(p, t) ==
    CASE t.how = "start"  -> p.at = "pool"
      [] t.how = "answer" -> p.at \in {"call", "sleep"} /\ p.s = t.s
      [] t.how = "break"  -> p.at \in {"sleep", "wait"} /\ p.s = t.s
      [] t.how = "error"  -> p.at = "call" /\ p.s = t.s

\* The wait the coroutine comes out of tidies up: yield_call forgets the
\* session, sleep puts its own session back into sleep_session, wait clears
\* both tables.
SleepAfter_forgets(p, old) == IF p.at = "sleep" THEN p.s ELSE old   \* mutant

SleepAfter(p, old) == CASE p.at = "sleep" -> p.s [] p.at = "wait" -> 0 [] OTHER -> old

IdAfter(p, ids) == IF p.at = "wait" THEN [ids EXCEPT ![p.s] = "nil"] ELSE ids

\* pixel.wakeup.
Woken(d, sleeping) == IF sleeping[d] # 0 THEN wak \cup {d} ELSE wak

\* A coroutine is resumed, may wake another one up, and runs on to its next
\* call, sleep or wait, to its end, or into an error, which unwinds the handler.
resume ==
    /\ ctl # <<>> /\ Head(ctl).f = "resume"
    /\ LET t   == Head(ctl)
           c   == t.c
           p   == place[c]
           s   == lastS + 1
           sl  == [slp EXCEPT ![c] = SleepAfter(p, @)]
           ids == IdAfter(p, idco)
           w   == IF p.at = "call" THEN wat \ {p.s} ELSE wat
           left == IF p.at = "sleep" THEN slept \cup {c}
                   ELSE IF p.at = "wait" THEN slept \ {c} ELSE slept
           Yields(at) == /\ s \in Session /\ lastS' = s
                         /\ place' = [place EXCEPT ![c] = At(at, s)]
                         /\ idco' = [ids EXCEPT ![s] = c]
                         /\ ctl' = Settled(Suspended \o Tail(ctl), wak', errq)
           Sleeps(at) == /\ Yields(at) /\ wat' = w
                         /\ slp' = [sl EXCEPT ![c] = s] /\ slept' = left \ {c}
                         /\ UNCHANGED bq
           Ends(at, stack) == /\ place' = [place EXCEPT ![c] = At(at, 0)]
                              /\ ctl' = stack /\ idco' = ids /\ wat' = w
                              /\ slp' = sl /\ slept' = left
                              /\ UNCHANGED <<lastS, timers, bq>>
       IN  /\ misfit' = (misfit \/ ~Fits(p, t))
           /\ \/ wak' = wak
              \/ \E d \in Co : wak' = Woken(d, sl)
           /\ \/ /\ bState # "gone" /\ Yields("call")               \* pixel.call
                 /\ bq' = Append(bq, s) /\ wat' = w \cup {s}
                 /\ slp' = sl /\ slept' = left /\ UNCHANGED timers
              \/ Sleeps("sleep") /\ timers' = timers \cup {s}       \* pixel.sleep
              \/ Sleeps("wait") /\ UNCHANGED timers                 \* pixel.wait
              \/ Ends("pool", Settled(Suspended \o Tail(ctl), wak', errq))             \* EXIT
              \/ Ends("dead", <<>>)                                 \* an error
    /\ UNCHANGED <<aq, errq, broken, bState, running, responded, unresp, told, lost>>

-----------------------------------------------------------------------------
\* The called service.
Reply(msgs) == aq' = aq \o msgs
KeepsState == UNCHANGED <<callerVars, bq, bState>>

serve ==        \* also in what is left of the batch after KILL
    /\ bState # "gone" /\ bq # <<>>
    /\ bq' = Tail(bq)
    /\ running' = running \cup {Head(bq)}
    /\ UNCHANGED <<aq, callerVars, bState, responded, unresp, told, lost>>

ret ==          \* pixel.ret: RETURN
    /\ bState # "gone"
    /\ \E s \in running \ responded :
        /\ responded' = responded \cup {s}
        /\ Reply(<<Msg("response", s)>>)
    /\ KeepsState /\ UNCHANGED <<running, unresp, told, lost>>

defer ==        \* pixel.response: RESPONSE
    /\ bState # "gone"
    /\ \E s \in running \ responded :
        /\ responded' = responded \cup {s}
        /\ unresp' = unresp \cup {s}
    /\ KeepsState /\ UNCHANGED <<aq, running, told, lost>>

respond ==      \* the closure of pixel.response
    /\ bState # "gone"
    /\ \E s \in unresp, t \in {"response", "error"} :
        /\ unresp' = unresp \ {s}
        /\ Reply(<<Msg(t, s)>>)
    /\ KeepsState /\ UNCHANGED <<running, responded, told, lost>>

finish ==       \* EXIT of a request's coroutine, which may never have answered
    /\ bState # "gone"
    /\ \E s \in running :
        /\ running' = running \ {s}
        /\ responded' = responded \ {s}
        /\ lost' = IF s \in responded \cup told THEN lost ELSE lost \cup {s}
    /\ KeepsState /\ UNCHANGED <<aq, unresp, told>>

fail ==         \* suspend after an error: the session gets PIXEL_ERROR, again
    /\ bState # "gone"      \* if it was answered already
    /\ \E s \in running :
        /\ running' = running \ {s}
        /\ responded' = responded
        /\ Reply(<<Msg("error", s)>>)
    /\ KeepsState /\ UNCHANGED <<unresp, told, lost>>

Errors(sessions) == SetToSeq({Msg("error", s) : s \in sessions})

Deferred_none == {}

Deferred == unresp

\* pixel.exit, in a request's coroutine or in one of a timeout or a fork: an
\* error for each session of a coroutine and for each deferred response, then
\* KILL.
exit ==
    /\ bState = "up"
    /\ Reply(Errors(running) \o Errors(Deferred))
    /\ told' = told \cup running
    /\ unresp' = {}
    /\ bState' = "killed"
    /\ UNCHANGED <<callerVars, bq, running, responded, lost>>

kill ==
    /\ bState = "up"
    /\ bState' = "killed"
    /\ UNCHANGED <<aq, callerVars, bq, running, responded, unresp, told, lost>>

\* The last reference is gone: the queue is dropped and nobody is told.
gone ==
    /\ bState = "killed"
    /\ bState' = "gone"
    /\ lost' = lost \cup Range(bq) \cup (running \ (responded \cup told)) \cup unresp
    /\ bq' = <<>> /\ running' = {} /\ unresp' = {}
    /\ UNCHANGED <<aq, callerVars, responded, told>>

SessionsInit ==
    /\ aq = <<>> /\ errq = <<>> /\ ctl = <<>> /\ bq = <<>>
    /\ place = [c \in Co |-> At("pool", 0)]
    /\ idco = [s \in Session |-> "nil"]
    /\ slp = [c \in Co |-> 0]
    /\ wak = {} /\ wat = {} /\ timers = {} /\ lastS = 0
    /\ bState = "up" /\ running = {} /\ responded = {} /\ unresp = {}
    /\ told = {} /\ lost = {} /\ slept = {} /\ broken = {} /\ misfit = FALSE

SessionsNext ==
    /\ broken = {}
    /\ \/ timer_fire \/ start \/ term \/ dispatch_message
       \/ dispatch_wakeup \/ dispatch_error_queue \/ resume
       \/ serve \/ ret \/ defer \/ respond \/ finish \/ fail \/ exit \/ kill \/ gone

SessionsSpec == SessionsInit /\ [][SessionsNext]_ssVars

-----------------------------------------------------------------------------
\* A coroutine is resumed only by the event it waits for: its own answer or
\* error in a call, its own timeout or a wakeup in a sleep or wait, and a new
\* request only in the pool, whatever answers twice, late or after an error.
\* The one exception stops the model: a wakeup through the sleep_session that
\* pixel.sleep leaves behind.
ResumeExact == ~misfit

\* A coroutine that waits in pixel.call is never forgotten: its request is
\* queued or being served, its answer or an error is on the way, or it is one
\* of those nobody will tell: dropped with the queue or the coroutine of a
\* service that was killed, or finished without an answer.  pixel.term does
\* not help those (line 230).  A sleeper always has its timeout.
CallKept ==
    \A c \in Co \ broken :
        LET s == place[c].s IN
        /\ place[c].at = "call" =>
            \/ s \in Range(bq) \cup (running \ responded) \cup unresp \cup lost
            \/ {Msg("response", s), Msg("error", s)} \cap Range(aq) # {}
            \/ s \in Range(errq)
            \/ \E i \in DOMAIN ctl : ctl[i].f = "resume" /\ ctl[i].c = c
        /\ place[c].at = "sleep" =>
            \/ s \in timers \/ Msg("response", s) \in Range(aq)
            \/ \E i \in DOMAIN ctl : ctl[i].f = "resume" /\ ctl[i].c = c
=============================================================================
