---------------------------- MODULE PretixClient ----------------------------
(***************************************************************************)
(* Pretix.request: one call is up to MAX_ATTEMPTS exchanges with pretix,   *)
(* repeated only after a 429.  pretix allows Budget requests per Window    *)
(* for the whole organizer, so concurrent calls, and other clients of the  *)
(* organizer, use up each other's budget.                                  *)
(*                                                                         *)
(* Time is a timer per sleeping call and one for the rate-limit window; a  *)
(* Tick may come at any moment, so every exchange may take arbitrarily     *)
(* long.                                                                   *)
(*                                                                         *)
(* An operator that stands just before a similar one, and that nothing     *)
(* uses, is a mutant: what the code would be with one mistake.             *)
(***************************************************************************)
EXTENDS Integers, FiniteSets

CONSTANTS
  Requests,        \* calls of request() that may overlap
  MAX_ATTEMPTS,    \* pretix.py:30
  MAX_RETRY_WAIT,  \* pretix.py:31, in ticks
  DEFAULT_WAIT,    \* what _retry_after answers when the header is no number
  Headers,         \* Retry-After of a 429 on a bad day: NoNumber, or that many ticks
  NoNumber,        \* no header, or one float() does not accept
  Window,          \* length of pretix's rate-limit window, in ticks
  Budget           \* requests pretix accepts per window

ASSUME ClientAssumption ==
  /\ MAX_ATTEMPTS \in Nat \ {0}
  /\ MAX_RETRY_WAIT \in Nat
  /\ DEFAULT_WAIT \in 0..MAX_RETRY_WAIT
  /\ Headers \subseteq Int \cup {NoNumber}
  /\ NoNumber \notin Int
  /\ Window \in Nat \ {0}
  /\ Budget \in Nat

VARIABLES
  calm,       \* the day: nothing is lost or cancelled, nobody else uses the budget, and
              \* pretix names the end of the window; or none of this can be relied upon
  pc,         \* where the call is, or how it ended
  attempt,    \* the loop variable of request()
  left,       \* how much longer asyncio.sleep lasts
  wire,       \* the exchange under way, and how pretix answered it
  asked,      \* Retry-After of a 429
  processed,  \* how often pretix processed the request
  used,       \* budget used in this window
  reset       \* ticks until the window ends

client == <<pc, attempt, left>>
server == <<wire, asked, processed>>
limit == <<used, reset>>
vars == <<calm, client, server, limit>>

\* The answers request() tells apart.  A redirect is not followed and, being below 400, comes
\* back as a success; "garbled" is a success or a redirect whose body is not JSON.
Answers == {"2xx", "3xx", "garbled", "4xx", "5xx", "429"}
Final == {"ok", "refused", "limited", "unknown"}

TypeOK ==
  /\ calm \in BOOLEAN
  /\ pc \in [Requests -> {"start", "send", "await", "sleep"} \cup Final]
  /\ attempt \in [Requests -> 0..MAX_ATTEMPTS - 1]
  /\ left \in [Requests -> 0..MAX_RETRY_WAIT]
  /\ wire \in [Requests -> {"none", "travelling"} \cup Answers]
  /\ asked \in [Requests -> Int \cup {NoNumber}]
  /\ processed \in [Requests -> Nat]
  /\ used \in 0..Budget
  /\ reset \in 1..Window

\* A burst has just used up the window.
Init ==
  /\ calm \in BOOLEAN
  /\ pc = [r \in Requests |-> "start"]
  /\ attempt = [r \in Requests |-> 0]
  /\ left = [r \in Requests |-> 0]
  /\ wire = [r \in Requests |-> "none"]
  /\ asked = [r \in Requests |-> 0]
  /\ processed = [r \in Requests |-> 0]
  /\ used = Budget
  /\ reset \in 1..Window

Move(r, from, to) == /\ pc[r] = from
                     /\ pc' = [pc EXCEPT ![r] = to]

-----------------------------------------------------------------------------
(* The client.                                                             *)

RetryAfterUncapped(h) == IF h = NoNumber THEN DEFAULT_WAIT
                         ELSE IF h < 0 THEN 0 ELSE h

\* _retry_after: min(max(wait, 0.0), MAX_RETRY_WAIT)
RetryAfter(h) == IF h = NoNumber THEN DEFAULT_WAIT
                 ELSE IF h < 0 THEN 0
                 ELSE IF h > MAX_RETRY_WAIT THEN MAX_RETRY_WAIT ELSE h

Begin(r) == /\ Move(r, "start", "send")
            /\ UNCHANGED <<calm, attempt, left, server, limit>>

Send(r) == /\ Move(r, "send", "await")
           /\ wire' = [wire EXCEPT ![r] = "travelling"]
           /\ asked' = [asked EXCEPT ![r] = 0]
           /\ UNCHANGED <<calm, attempt, left, processed, limit>>

LastAttemptOffByOne(r) == attempt[r] = MAX_ATTEMPTS - 2

LastAttempt(r) == attempt[r] = MAX_ATTEMPTS - 1

\* 429, and attempts are left: sleep, then try again.
RetryForever(r) == /\ wire[r] = "429"
                   /\ Move(r, "await", "sleep")
                   /\ left' = [left EXCEPT ![r] = RetryAfter(asked[r])]
                   /\ UNCHANGED <<calm, attempt, server, limit>>

Retry(r) == /\ wire[r] = "429" /\ ~LastAttempt(r)
            /\ Move(r, "await", "sleep")
            /\ left' = [left EXCEPT ![r] = RetryAfter(asked[r])]
            /\ attempt' = [attempt EXCEPT ![r] = @ + 1]
            /\ UNCHANGED <<calm, server, limit>>

Wake(r) == /\ left[r] = 0
           /\ Move(r, "sleep", "send")
           /\ UNCHANGED <<calm, attempt, left, server, limit>>

Outcome(answer) == IF answer \in {"2xx", "3xx"} THEN "ok"
                   ELSE IF answer = "4xx" THEN "refused"
                   ELSE IF answer = "429" THEN "limited" ELSE "unknown"

\* Everything but a 429 with attempts left ends the call: with the body, or a PretixError.
Finish(r) == /\ wire[r] \in Answers
             /\ wire[r] = "429" => LastAttempt(r)
             /\ Move(r, "await", Outcome(wire[r]))
             /\ UNCHANGED <<calm, attempt, left, server, limit>>

\* What a client that repeats a request whose answer it missed would do.
TransportErrorRetried(r) == /\ ~calm
                            /\ ~LastAttempt(r)
                            /\ Move(r, "await", "send")
                            /\ attempt' = [attempt EXCEPT ![r] = @ + 1]
                            /\ UNCHANGED <<calm, left, server, limit>>

\* httpx.HTTPError: refused, reset, or timed out, whether or not pretix has the request.
TransportError(r) == /\ ~calm
                     /\ Move(r, "await", "unknown")
                     /\ UNCHANGED <<calm, attempt, left, server, limit>>

\* CancelledError, at either await.
Cancel(r) == /\ ~calm
             /\ pc[r] \in {"await", "sleep"}
             /\ Move(r, pc[r], "unknown")
             /\ UNCHANGED <<calm, attempt, left, server, limit>>

-----------------------------------------------------------------------------
(* pretix and the rest of the world.                                       *)

\* Over budget: refused, not processed.  On a calm day the header names the end of the window.
Limit(r) == /\ wire[r] = "travelling" /\ used = Budget
            /\ wire' = [wire EXCEPT ![r] = "429"]
            /\ \E wait \in IF calm THEN {reset} ELSE Headers :
                 asked' = [asked EXCEPT ![r] = wait]
            /\ UNCHANGED <<calm, client, processed, limit>>

\* A redirect, by pretix or a proxy before it, names another place and does nothing.  A 5xx
\* may hide a request that was processed.
Serve(r) == /\ wire[r] = "travelling" /\ used < Budget
            /\ used' = used + 1
            /\ \E answer \in Answers \ {"429"}, done \in 0..1 :
                 /\ answer = "2xx" => done = 1
                 /\ answer \in {"3xx", "4xx"} => done = 0
                 /\ wire' = [wire EXCEPT ![r] = answer]
                 /\ processed' = [processed EXCEPT ![r] = @ + done]
            /\ UNCHANGED <<calm, client, asked, reset>>

OtherClient == /\ ~calm /\ used < Budget
               /\ used' = used + 1
               /\ UNCHANGED <<calm, client, server, reset>>

Tick == /\ left' = [r \in Requests |-> IF left[r] = 0 THEN 0 ELSE left[r] - 1]
        /\ IF reset = 1 THEN reset' = Window /\ used' = 0
                        ELSE reset' = reset - 1 /\ UNCHANGED used
        /\ UNCHANGED <<calm, pc, attempt, server>>

-----------------------------------------------------------------------------

\* What request() does of its own accord.
Step(r) == Begin(r) \/ Send(r) \/ Retry(r) \/ Wake(r) \/ Finish(r)

Next == \/ \E r \in Requests : \/ Step(r) \/ TransportError(r) \/ Cancel(r)
                               \/ Limit(r) \/ Serve(r)
        \/ OtherClient \/ Tick

Spec == Init /\ [][Next]_vars

\* The event loop runs the call, time passes, and pretix answers or httpx's timeout of
\* 30 s ends the exchange.
FairSpec == /\ Spec
            /\ \A r \in Requests : /\ WF_vars(Step(r))
                                   /\ WF_vars(Limit(r) \/ Serve(r) \/ TransportError(r))
            /\ WF_vars(Tick)

-----------------------------------------------------------------------------

\* The call as its caller sees it, but for a redirect, which the caller takes for "ok".  A
\* call refused for the rate limit is a refused one.
Call(r) == IF pc[r] \in {"send", "await", "sleep"} THEN "open"
           ELSE IF pc[r] = "start" THEN "none"
           ELSE IF pc[r] = "limited" THEN "refused"
           ELSE IF pc[r] = "ok" /\ wire[r] = "3xx" THEN "redirected"
           ELSE pc[r]

Abstract == INSTANCE RequestSpec WITH call <- [r \in Requests |-> Call(r)],
                                      processed <- processed

\* However often request() retries, whatever answers are lost or late: pretix processes the
\* call at most once, a refused call never, and a call that returned was processed unless
\* the answer was a redirect, which request() passes off as success (pretix.py:86-105).
RefinesAtMostOnce == Abstract!AtMostOnceCall

\* pretix.py:27, "Three attempts covers a burst against pretix Hosted's per-minute window":
\* on a calm day, after a burst used up the window, calls that fit into one budget all get
\* through, since the two capped waits together are as long as the window.
BurstCovered == calm => \A r \in Requests : pc[r] # "limited"

\* pretix.py:28, "without turning a sustained 429 into a hung tool call": a call ends, however
\* often pretix says 429 and whatever it asks the client to wait.
EveryCallEnds == \A r \in Requests : (pc[r] = "send") ~> (pc[r] \in Final)
=============================================================================
