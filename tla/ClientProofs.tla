----------------------------- MODULE ClientProofs -----------------------------
(***************************************************************************)
(* That a call of Pretix.request is processed at most once and answered    *)
(* truthfully, for any number of overlapping calls, attempts and waits,    *)
(* any rate limit and any Retry-After; and that its retries cover a burst. *)
(***************************************************************************)
EXTENDS PretixClient, FiniteSetTheorems, TLAPS

\* What pretix answered last, against what it did and what the client made of it.
Truthful(r) ==
  /\ processed[r] \in {0, 1}
  /\ wire[r] \in {"none", "travelling", "3xx", "4xx", "429"} => processed[r] = 0
  /\ wire[r] = "2xx" => processed[r] = 1
  /\ wire[r] \in {"travelling"} \cup (Answers \ {"429"}) => pc[r] \in {"await"} \cup Final
  /\ pc[r] \in {"start", "send", "sleep"} => wire[r] \in {"none", "429"}
  /\ pc[r] = "ok" => wire[r] \in {"2xx", "3xx"}
  /\ pc[r] = "refused" => wire[r] = "4xx"
  /\ pc[r] = "limited" => wire[r] = "429"

CInv == TypeOK /\ \A r \in Requests : Truthful(r)

\* The capped wait is a number of ticks up to the cap.
LEMMA WaitCapped == \A h \in Int \cup {NoNumber} : RetryAfter(h) \in 0..MAX_RETRY_WAIT
BY ClientAssumption DEF RetryAfter

\* Every step of the client and of pretix keeps the types.
LEMMA ClientTypes == TypeOK /\ [Next]_vars => TypeOK'
<1> SUFFICES ASSUME TypeOK, [Next]_vars PROVE TypeOK'
  OBVIOUS
<1> USE ClientAssumption DEF TypeOK, Final, Answers
<1>1. ASSUME NEW r \in Requests, Begin(r) \/ Wake(r) \/ TransportError(r) PROVE TypeOK'
  BY <1>1 DEF Begin, Wake, TransportError, Move, server, limit
<1>2. ASSUME NEW r \in Requests, Send(r) PROVE TypeOK'
  BY <1>2 DEF Send, Move, limit
<1>3. ASSUME NEW r \in Requests, Retry(r) PROVE TypeOK'
  <2>1. attempt[r] + 1 \in 0..MAX_ATTEMPTS - 1
    BY <1>3 DEF Retry, LastAttempt
  <2>2. RetryAfter(asked[r]) \in 0..MAX_RETRY_WAIT
    BY WaitCapped
  <2>3. QED
    BY <1>3, <2>1, <2>2 DEF Retry, Move, server, limit
<1>4. ASSUME NEW r \in Requests, Finish(r) PROVE TypeOK'
  BY <1>4 DEF Finish, Move, Outcome, server, limit
<1>5. ASSUME NEW r \in Requests, Cancel(r) PROVE TypeOK'
  BY <1>5 DEF Cancel, Move, server, limit
<1>6. ASSUME NEW r \in Requests, Limit(r) PROVE TypeOK'
  <2>1. PICK wait \in IF calm THEN {reset} ELSE Headers : asked' = [asked EXCEPT ![r] = wait]
    BY <1>6 DEF Limit
  <2>2. wait \in Int \cup {NoNumber}
    BY <2>1
  <2>3. asked' \in [Requests -> Int \cup {NoNumber}]
    BY <2>1, <2>2
  <2>4. QED
    BY <1>6, <2>3 DEF Limit, client, limit
<1>7. ASSUME NEW r \in Requests, Serve(r) PROVE TypeOK'
  BY <1>7 DEF Serve, client
<1>8. CASE OtherClient
  BY <1>8 DEF OtherClient, client, server
<1>9. CASE Tick
  <2>1. \A r \in Requests : (IF left[r] = 0 THEN 0 ELSE left[r] - 1) \in 0..MAX_RETRY_WAIT
    OBVIOUS
  <2>2. left' \in [Requests -> 0..MAX_RETRY_WAIT]
    BY <1>9, <2>1 DEF Tick
  <2>3. reset' \in 1..Window /\ used' \in 0..Budget
    BY <1>9 DEF Tick
  <2>4. QED
    BY <1>9, <2>2, <2>3 DEF Tick, server
<1>10. CASE UNCHANGED vars
  BY <1>10 DEF vars, client, server, limit
<1>11. QED
  BY <1>1, <1>2, <1>3, <1>4, <1>5, <1>6, <1>7, <1>8, <1>9, <1>10 DEF Next, Step

\* Every step keeps the account of what was processed true.
LEMMA ClientStep == CInv /\ [Next]_vars => CInv'
<1> SUFFICES ASSUME TypeOK, \A r \in Requests : Truthful(r), [Next]_vars,
                    NEW s \in Requests
             PROVE  Truthful(s)'
  BY ClientTypes DEF CInv
<1> USE DEF TypeOK, Truthful, Final, Answers
<1>1. ASSUME NEW r \in Requests, Begin(r) \/ Wake(r) PROVE Truthful(s)'
  BY <1>1 DEF Begin, Wake, Move, server
<1>2. ASSUME NEW r \in Requests, Send(r) PROVE Truthful(s)'
  BY <1>2 DEF Send, Move
<1>3. ASSUME NEW r \in Requests, Retry(r) PROVE Truthful(s)'
  BY <1>3 DEF Retry, Move, server
<1>4. ASSUME NEW r \in Requests, Finish(r) PROVE Truthful(s)'
  BY <1>4 DEF Finish, Move, Outcome, server
<1>5. ASSUME NEW r \in Requests, TransportError(r) \/ Cancel(r) PROVE Truthful(s)'
  BY <1>5 DEF TransportError, Cancel, Move, server
<1>6. ASSUME NEW r \in Requests, Limit(r) PROVE Truthful(s)'
  BY <1>6 DEF Limit, client
<1>7. ASSUME NEW r \in Requests, Serve(r) PROVE Truthful(s)'
  BY <1>7 DEF Serve, client
<1>8. CASE OtherClient \/ Tick \/ UNCHANGED vars
  BY <1>8 DEF OtherClient, Tick, vars, client, server
<1>9. QED
  BY <1>1, <1>2, <1>3, <1>4, <1>5, <1>6, <1>7, <1>8 DEF Next, Step

\* At first no call was made and nothing was processed.
LEMMA ClientInit == Init => CInv
BY ClientAssumption DEF Init, CInv, TypeOK, Truthful, Final, Answers

\* Types and account together are inductive.
LEMMA ClientInductive == Spec => []CInv
BY ClientInit, ClientStep, PTL DEF Spec

\* No counter of attempts, wait or budget leaves its bounds, for any limit and any header.
THEOREM ClientTypeCorrect == Spec => []TypeOK
<1>1. CInv => TypeOK
  BY DEF CInv
<1>2. QED
  BY <1>1, ClientInductive, PTL

\* A call moves for its caller as its pc does; the others stay.
LEMMA CallMoves ==
  ASSUME TypeOK, NEW r \in Requests, NEW from, NEW to, Move(r, from, to), UNCHANGED processed,
         \A q \in Requests : q # r => wire'[q] = wire[q]
  PROVE  LET now == [q \in Requests |-> Call(q)]
         IN  now' = [now EXCEPT ![r] = Call(r)']
BY DEF TypeOK, Move, Call

\* Every exchange, retry, loss and wait is a step of the abstract call, or none.
LEMMA ClientRefines == CInv /\ [Next]_vars => [Abstract!SpecNext]_(Abstract!specVars)
<1> SUFFICES ASSUME TypeOK, \A r \in Requests : Truthful(r), [Next]_vars
             PROVE  Abstract!SpecNext \/ UNCHANGED Abstract!specVars
  BY DEF CInv
<1> DEFINE now == [q \in Requests |-> Call(q)]
<1>a. \A r \in Requests : now[r] = Call(r)
  OBVIOUS
<1>1. ASSUME NEW r \in Requests, Begin(r) PROVE Abstract!Invoke(r)
  <2>1. Call(r) = "none" /\ Call(r)' = "open" /\ UNCHANGED processed
    BY <1>1 DEF Begin, Move, Call, server, TypeOK
  <2>2. now' = [now EXCEPT ![r] = Call(r)']
    BY <1>1, <2>1, CallMoves DEF Begin, server
  <2>3. QED
    BY <2>1, <2>2 DEF Abstract!Invoke, Abstract!Becomes
<1>2. ASSUME NEW r \in Requests, Send(r) \/ Retry(r) \/ Wake(r) PROVE UNCHANGED Abstract!specVars
  <2>1. Call(r)' = Call(r) /\ UNCHANGED processed
    BY <1>2 DEF Send, Retry, Wake, Move, Call, server, TypeOK
  <2>2. now' = [now EXCEPT ![r] = Call(r)']
    BY <1>2, <2>1, CallMoves DEF Send, Retry, Wake, server, TypeOK
  <2>3. QED
    BY <2>1, <2>2 DEF Abstract!specVars
<1>3. ASSUME NEW r \in Requests, Finish(r)
      PROVE  \/ Abstract!Return(r) \/ Abstract!Redirect(r)
             \/ Abstract!Refuse(r) \/ Abstract!GiveUp(r)
  <2>1. Call(r) = "open" /\ UNCHANGED processed
    BY <1>3 DEF Finish, Move, Call, server
  <2>2. now' = [now EXCEPT ![r] = Call(r)']
    BY <1>3, <2>1, CallMoves DEF Finish, server
  <2>3. \/ Call(r)' = "ok" /\ processed[r] = 1
        \/ Call(r)' \in {"redirected", "refused"} /\ processed[r] = 0
        \/ Call(r)' = "unknown"
    <3>1. /\ pc'[r] = Outcome(wire[r]) /\ wire' = wire /\ wire[r] \in Answers
          /\ Outcome(wire[r]) = "ok" => wire[r] \in {"2xx", "3xx"}
      BY <1>3 DEF Finish, Move, Outcome, Answers, server, TypeOK
    <3>2. Call(r)' = IF wire[r] = "2xx" THEN "ok"
                     ELSE IF wire[r] = "3xx" THEN "redirected"
                     ELSE IF wire[r] \in {"4xx", "429"} THEN "refused" ELSE "unknown"
      BY <3>1 DEF Outcome, Answers, Call
    <3>3. QED
      BY <3>1, <3>2 DEF Truthful, Answers
  <2>4. QED
    BY <2>1, <2>2, <2>3
    DEF Abstract!Return, Abstract!Redirect, Abstract!Refuse, Abstract!GiveUp,
        Abstract!Becomes
<1>4. ASSUME NEW r \in Requests, TransportError(r) \/ Cancel(r) PROVE Abstract!GiveUp(r)
  <2>1. Call(r) = "open" /\ Call(r)' = "unknown" /\ UNCHANGED processed
    BY <1>4 DEF TransportError, Cancel, Move, Call, server, TypeOK
  <2>2. now' = [now EXCEPT ![r] = Call(r)']
    BY <1>4, <2>1, CallMoves DEF TransportError, Cancel, server
  <2>3. QED
    BY <2>1, <2>2 DEF Abstract!GiveUp, Abstract!Becomes
<1>5. ASSUME NEW r \in Requests, Serve(r)
      PROVE  Abstract!Process(r) \/ UNCHANGED Abstract!specVars
  <2>1. now' = now
    BY <1>5 DEF Serve, client, Call, Truthful, TypeOK
  <2>2. Call(r) \in {"open", "unknown"} \/ pc[r] \in {"ok", "refused", "limited"}
    BY <1>5 DEF Serve, Truthful, Call, Final
  <2>3. Call(r) \in {"open", "unknown"} /\ processed[r] = 0
    BY <1>5, <2>2 DEF Serve, Truthful
  <2>4. PICK done \in 0..1 : processed' = [processed EXCEPT ![r] = @ + done]
    BY <1>5 DEF Serve
  <2>5. CASE done = 0
    BY <2>1, <2>3, <2>4, <2>5 DEF Abstract!specVars, TypeOK
  <2>6. CASE done = 1
    BY <2>1, <2>3, <2>4, <2>6 DEF Abstract!Process
  <2>7. QED
    BY <2>5, <2>6
<1>6. ASSUME NEW r \in Requests, Limit(r) PROVE UNCHANGED Abstract!specVars
  BY <1>6 DEF Limit, client, Call, Truthful, TypeOK, Abstract!specVars
<1>7. CASE OtherClient \/ Tick \/ UNCHANGED vars
  BY <1>7 DEF OtherClient, Tick, vars, client, server, Call, Abstract!specVars
<1>8. QED
  BY <1>1, <1>2, <1>3, <1>4, <1>5, <1>6, <1>7 DEF Next, Step, Abstract!SpecNext

\* However often request() retries and whatever answers are lost: pretix processes a call at
\* most once, one that was refused never, and one that returned was processed unless the
\* answer was a redirect.
THEOREM CallAtMostOnce == Spec => RefinesAtMostOnce
<1>1. Init => Abstract!SpecInit
  BY DEF Init, Abstract!SpecInit, Call
<1>2. QED
  BY <1>1, ClientRefines, ClientInductive, PTL DEF Spec, RefinesAtMostOnce, Abstract!AtMostOnceCall

-----------------------------------------------------------------------------
(* A burst on a calm day.                                                  *)

\* The calls fit into one window's budget, and the capped waits between a call's attempts are
\* together as long as the window: 2 * 30 s for pretix's minute.
BurstFits ==
  /\ IsFiniteSet(Requests) /\ Cardinality(Requests) <= Budget
  /\ (MAX_ATTEMPTS - 1) * MAX_RETRY_WAIT >= Window

\* What a call has waited at its least, when it has slept through every attempt's cap.
Waited(r) == attempt[r] * MAX_RETRY_WAIT

Served == {r \in Requests : wire[r] \in Answers \ {"429"}}

\* In the window the burst used up, a call is as far in the window as it has waited, or its
\* sleep outlasts the window.
InBurst(r) ==
  /\ pc[r] \in {"start", "send", "await"} => reset <= Window - Waited(r)
  /\ pc[r] = "sleep" => reset <= left[r] \/ reset <= Window - Waited(r) + left[r]
  /\ pc[r] = "await" /\ wire[r] = "429" => asked[r] \in Int /\ asked[r] >= reset

Burst == used = Budget /\ Served = {} /\ \A r \in Requests : InBurst(r)

\* After it, only the calls themselves use the budget, each once.
AfterBurst == used <= Cardinality(Served)

NoneLimited == \A r \in Requests : /\ pc[r] # "limited"
                                   /\ pc[r] = "await" /\ wire[r] = "429" => ~LastAttempt(r)

BInv == calm => NoneLimited /\ (Burst \/ AfterBurst)

\* The day begins in the window the burst used up, with no call under way.
LEMMA BurstInit == ASSUME BurstFits PROVE Init => BInv
<1> SUFFICES ASSUME Init, calm PROVE NoneLimited /\ Burst
  BY DEF BInv
<1> USE ClientAssumption DEF Init
<1>1. Served = {}
  BY DEF Served, Answers
<1>2. \A r \in Requests : Waited(r) = 0
  <2>1. 0 * MAX_RETRY_WAIT = 0
    OBVIOUS
  <2>2. QED
    BY <2>1 DEF Waited
<1>3. reset \in Nat /\ reset <= Window
  OBVIOUS
<1>4. \A r \in Requests : InBurst(r)
  BY <1>2, <1>3 DEF InBurst
<1>5. QED
  BY <1>1, <1>4 DEF NoneLimited, Burst

\* No step of the client is limited in the end, and none wakes before the window is over
\* without having waited a whole cap.
LEMMA BurstClientStep ==
  ASSUME BurstFits, CInv, BInv, calm, NEW r \in Requests, Step(r)
  PROVE  BInv'
<1>a. TypeOK /\ Truthful(r) /\ NoneLimited /\ (Burst \/ AfterBurst)
  BY DEF CInv, BInv
<1>b. used' = used /\ reset' = reset
  BY DEF Step, Begin, Send, Retry, Wake, Finish, server, limit
<1>c. /\ reset \in Nat /\ reset >= 1 /\ MAX_RETRY_WAIT \in Nat /\ Window \in Nat
      /\ \A q \in Requests : Waited(q) \in Int
  BY <1>a, ClientAssumption DEF Waited, TypeOK
<1>d. Served' = Served
  <2>1. CASE Send(r)
    <3>1. wire[r] \in {"none", "429"} /\ wire' = [wire EXCEPT ![r] = "travelling"]
      BY <1>a, <2>1 DEF Send, Move, Truthful
    <3>2. \A q \in Requests : q # r => wire'[q] = wire[q]
      BY <1>a, <3>1 DEF TypeOK
    <3>3. wire'[r] = "travelling"
      BY <1>a, <3>1 DEF TypeOK
    <3>4. QED
      BY <3>1, <3>2, <3>3 DEF Served, Answers
  <2>2. CASE ~Send(r)
    <3>1. wire' = wire
      BY <2>2 DEF Step, Begin, Retry, Wake, Finish, server
    <3>2. QED
      BY <3>1 DEF Served
  <2>3. QED
    BY <2>1, <2>2
<1>e. \A q \in Requests : q # r =>
        /\ pc'[q] = pc[q] /\ attempt'[q] = attempt[q] /\ left'[q] = left[q]
        /\ wire'[q] = wire[q] /\ asked'[q] = asked[q]
  BY <1>a DEF Step, Begin, Send, Retry, Wake, Finish, Move, server, TypeOK
<1>1. NoneLimited'
  <2> SUFFICES ASSUME NEW q \in Requests
               PROVE  /\ pc'[q] # "limited"
                      /\ pc'[q] = "await" /\ wire'[q] = "429" => ~LastAttempt(q)'
    BY DEF NoneLimited
  <2>1. CASE q # r
    BY <1>a, <1>e, <2>1 DEF NoneLimited, LastAttempt
  <2>2. CASE q = r /\ Finish(r)
    BY <1>a, <2>2 DEF NoneLimited, Finish, Move, Outcome, Answers, Final, TypeOK
  <2>3. CASE q = r /\ ~Finish(r)
    BY <1>a, <2>3 DEF Step, Begin, Send, Retry, Wake, Move, TypeOK
  <2>4. QED
    BY <2>1, <2>2, <2>3
<1>2. CASE Burst
  <2>1. ASSUME NEW q \in Requests, q # r PROVE InBurst(q)'
    BY <1>b, <1>e, <1>2, <2>1 DEF Burst, InBurst, Waited
  <2>2. InBurst(r)'
    <3>a. InBurst(r)
      BY <1>2 DEF Burst
    <3>1. CASE Begin(r) \/ Wake(r)
      <4>1. pc'[r] = "send" /\ attempt' = attempt
        BY <1>a, <3>1 DEF Begin, Wake, Move, TypeOK
      <4>2. pc[r] = "start" \/ (pc[r] = "sleep" /\ left[r] = 0)
        BY <3>1 DEF Begin, Wake, Move
      <4>3. reset <= Window - Waited(r)
        BY <1>c, <3>a, <4>2 DEF InBurst
      <4>4. QED
        BY <1>b, <4>1, <4>3 DEF InBurst, Waited
    <3>2. CASE Send(r)
      BY <1>a, <1>b, <3>a, <3>2 DEF InBurst, Waited, Send, Move, TypeOK
    <3>3. CASE Retry(r)
      <4>1. asked[r] \in Int /\ asked[r] >= reset /\ reset <= Window - Waited(r)
        BY <3>a, <3>3 DEF InBurst, Retry, Move
      <4>2. left'[r] = RetryAfter(asked[r]) /\ attempt'[r] = attempt[r] + 1 /\ pc'[r] = "sleep"
        BY <1>a, <3>3 DEF Retry, Move, TypeOK
      <4>3. RetryAfter(asked[r]) \in {asked[r], MAX_RETRY_WAIT}
        BY <1>c, <4>1, ClientAssumption DEF RetryAfter
      <4>4. Waited(r)' = Waited(r) + MAX_RETRY_WAIT
        BY <1>a, <1>c, <4>2 DEF Waited, TypeOK
      <4>5. reset <= left'[r] \/ reset <= Window - Waited(r)' + left'[r]
        BY <1>c, <4>1, <4>2, <4>3, <4>4
      <4>6. QED
        BY <1>b, <4>2, <4>5 DEF InBurst
    <3>4. CASE Finish(r)
      BY <1>a, <3>4 DEF InBurst, Finish, Move, Outcome, TypeOK
    <3>5. QED
      BY <3>1, <3>2, <3>3, <3>4 DEF Step
  <2>3. QED
    BY <1>b, <1>d, <1>1, <1>2, <2>1, <2>2 DEF BInv, Burst
<1>3. CASE AfterBurst
  BY <1>b, <1>d, <1>1, <1>3 DEF BInv, AfterBurst
<1>4. QED
  BY <1>a, <1>2, <1>3

\* On a calm day pretix limits a call in the window of the burst only, and never its last
\* attempt: by then the window would be over.
LEMMA BurstLimit ==
  ASSUME BurstFits, CInv, BInv, calm, NEW r \in Requests, Limit(r)
  PROVE  BInv'
<1>a. TypeOK /\ Truthful(r) /\ NoneLimited /\ (Burst \/ AfterBurst)
  BY DEF CInv, BInv
<1>b. /\ wire[r] = "travelling" /\ used = Budget /\ used' = used /\ reset' = reset
      /\ pc' = pc /\ attempt' = attempt /\ left' = left
      /\ wire' = [wire EXCEPT ![r] = "429"] /\ asked' = [asked EXCEPT ![r] = reset]
  BY DEF Limit, client, limit
<1>c. /\ reset \in Nat /\ reset >= 1 /\ Window \in Nat /\ Budget \in Nat
      /\ \A q \in Requests : Waited(q) \in Int
  BY <1>a, ClientAssumption DEF Waited, TypeOK
<1>1. Burst
  <2> SUFFICES ASSUME AfterBurst PROVE FALSE
    BY <1>a
  <2>1. Served \subseteq Requests \ {r}
    BY <1>b DEF Served, Answers
  <2>2. /\ IsFiniteSet(Requests \ {r}) /\ Cardinality(Requests \ {r}) = Cardinality(Requests) - 1
        /\ Cardinality(Requests) \in Nat
    BY FS_RemoveElement, FS_CardinalityType DEF BurstFits
  <2>3. Cardinality(Served) <= Cardinality(Requests \ {r}) /\ Cardinality(Served) \in Nat
    BY <2>1, <2>2, FS_Subset, FS_CardinalityType
  <2>4. QED
    BY <1>b, <1>c, <2>2, <2>3 DEF AfterBurst, BurstFits
<1>2. Served' = {}
  BY <1>a, <1>b, <1>1 DEF Burst, Served, TypeOK
<1>3. ASSUME NEW q \in Requests PROVE InBurst(q)'
  <2>1. InBurst(q)
    BY <1>1 DEF Burst
  <2>2. CASE q = r
    BY <1>a, <1>b, <1>c, <2>1, <2>2 DEF InBurst, Waited, TypeOK
  <2>3. CASE q # r
    BY <1>a, <1>b, <2>1, <2>3 DEF InBurst, Waited, TypeOK
  <2>4. QED
    BY <2>2, <2>3
<1>4. pc[r] = "await" => ~LastAttempt(r)
  <2> SUFFICES ASSUME pc[r] = "await", LastAttempt(r) PROVE FALSE
    OBVIOUS
  <2>1. reset <= Window - Waited(r)
    BY <1>1 DEF Burst, InBurst
  <2>2. Waited(r) >= Window
    BY DEF LastAttempt, Waited, BurstFits
  <2>3. QED
    BY <1>c, <2>1, <2>2
<1>5. NoneLimited'
  BY <1>a, <1>b, <1>4 DEF NoneLimited, LastAttempt, TypeOK
<1>6. QED
  BY <1>b, <1>1, <1>2, <1>3, <1>5 DEF BInv, Burst

\* pretix answers a call for good once, so the calls use no more than the budget.
LEMMA BurstServe ==
  ASSUME BurstFits, CInv, BInv, calm, NEW r \in Requests, Serve(r)
  PROVE  BInv'
<1>a. TypeOK /\ NoneLimited /\ (Burst \/ AfterBurst)
  BY DEF CInv, BInv
<1>b. PICK answer \in Answers \ {"429"} : wire' = [wire EXCEPT ![r] = answer]
  BY DEF Serve
<1>c. /\ wire[r] = "travelling" /\ used < Budget /\ used' = used + 1 /\ used \in Nat
      /\ pc' = pc /\ attempt' = attempt
  BY <1>a, ClientAssumption DEF Serve, client, TypeOK
<1>1. NoneLimited'
  BY <1>a, <1>b, <1>c DEF NoneLimited, LastAttempt, TypeOK
<1>2. AfterBurst
  BY <1>a, <1>c, ClientAssumption DEF Burst
<1>3. Served' = Served \cup {r} /\ r \notin Served
  BY <1>a, <1>b, <1>c DEF Served, Answers, TypeOK
<1>4. IsFiniteSet(Served) /\ Cardinality(Served) \in Nat
  BY FS_Subset, FS_CardinalityType DEF Served, BurstFits
<1>5. Cardinality(Served') = Cardinality(Served) + 1
  BY <1>3, <1>4, FS_AddElement
<1>6. AfterBurst'
  BY <1>c, <1>2, <1>4, <1>5 DEF AfterBurst
<1>7. QED
  BY <1>1, <1>6 DEF BInv

\* Time passes for the sleeping calls and for the window alike.
LEMMA BurstTick ==
  ASSUME BurstFits, CInv, BInv, calm, Tick
  PROVE  BInv'
<1>a. TypeOK /\ NoneLimited /\ (Burst \/ AfterBurst)
  BY DEF CInv, BInv
<1>b. pc' = pc /\ attempt' = attempt /\ wire' = wire /\ asked' = asked /\ Served' = Served
  BY DEF Tick, server, Served
<1>1. NoneLimited'
  BY <1>a, <1>b DEF NoneLimited, LastAttempt
<1>2. Cardinality(Served) \in Nat
  BY FS_Subset, FS_CardinalityType DEF Served, BurstFits
<1>3. CASE reset = 1
  BY <1>b, <1>1, <1>2, <1>3 DEF Tick, BInv, AfterBurst
<1>4. CASE reset # 1 /\ AfterBurst
  BY <1>b, <1>1, <1>4 DEF Tick, BInv, AfterBurst
<1>5. CASE reset # 1 /\ Burst
  <2>1. /\ reset \in Nat /\ reset' = reset - 1 /\ used' = used /\ Window \in Nat
    BY <1>a, <1>5, ClientAssumption DEF Tick, TypeOK
  <2>2. ASSUME NEW q \in Requests PROVE InBurst(q)'
    <3>1. /\ InBurst(q) /\ Waited(q) \in Int /\ Waited(q)' = Waited(q) /\ left[q] \in Nat
          /\ asked'[q] = asked[q] /\ pc'[q] = pc[q] /\ wire'[q] = wire[q]
      BY <1>a, <1>b, <1>5, ClientAssumption DEF Burst, Waited, TypeOK
    <3>2. left'[q] = IF left[q] = 0 THEN 0 ELSE left[q] - 1
      BY DEF Tick
    <3>3. pc'[q] \in {"start", "send", "await"} => reset' <= Window - Waited(q)'
      BY <2>1, <3>1 DEF InBurst
    <3>4. pc'[q] = "sleep" => reset' <= left'[q] \/ reset' <= Window - Waited(q)' + left'[q]
      BY <1>5, <2>1, <3>1, <3>2 DEF InBurst
    <3>5. pc'[q] = "await" /\ wire'[q] = "429" => asked'[q] \in Int /\ asked'[q] >= reset'
      BY <2>1, <3>1 DEF InBurst
    <3>6. QED
      BY <3>3, <3>4, <3>5 DEF InBurst
  <2>3. QED
    BY <1>b, <1>1, <1>5, <2>1, <2>2 DEF BInv, Burst
<1>6. QED
  BY <1>a, <1>3, <1>4, <1>5

\* On a calm day nothing else happens.
LEMMA BurstStep == ASSUME BurstFits PROVE CInv /\ BInv /\ [Next]_vars => BInv'
<1> SUFFICES ASSUME CInv, BInv, [Next]_vars PROVE BInv'
  OBVIOUS
<1>1. calm' = calm
  BY DEF Next, Step, Begin, Send, Retry, Wake, Finish, TransportError, Cancel, Limit, Serve,
         OtherClient, Tick, vars
<1>2. CASE ~calm
  BY <1>1, <1>2 DEF BInv
<1>3. CASE calm /\ UNCHANGED vars
  BY <1>3 DEF BInv, NoneLimited, LastAttempt, Burst, InBurst, Waited, AfterBurst, Served,
              vars, client, server, limit
<1>4. CASE calm /\ Next
  BY <1>4, BurstClientStep, BurstLimit, BurstServe, BurstTick
     DEF Next, TransportError, Cancel, OtherClient
<1>5. QED
  BY <1>2, <1>3, <1>4

\* On a day when nothing is lost and nobody else uses the budget, after a burst has used up a
\* window every call gets through, if the calls fit into one budget and the retries' capped
\* waits are together as long as the window (pretix.py:27-31).
THEOREM BurstCoveredHolds == ASSUME BurstFits PROVE Spec => []BurstCovered
<1>1. BInv => BurstCovered
  BY DEF BInv, NoneLimited, BurstCovered
<1>2. QED
  BY <1>1, BurstInit, BurstStep, ClientInductive, PTL DEF Spec
=============================================================================
