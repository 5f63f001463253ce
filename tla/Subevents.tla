----------------------------- MODULE Subevents -----------------------------
(***************************************************************************)
(* create_subevents: one request per date, and one more for its quota, in  *)
(* order, until the first PretixError, which ends the call with a report   *)
(* of what was created and what was not tried.  An agent then calls again  *)
(* for the rest.                                                           *)
(*                                                                         *)
(* One step is one request, with the outcomes RequestSpec leaves open: a   *)
(* request nothing is known of may be processed at any later time, and a   *)
(* redirect is taken for success, with None for what was created.          *)
(*                                                                         *)
(* An operator that stands just before a similar one, and that nothing     *)
(* uses, is a mutant: what the code would be with one mistake.             *)
(***************************************************************************)
EXTENDS Naturals, Sequences, SequencesExt

CONSTANTS
  Dates,      \* the series the agent wants, in order
  Policies,   \* what an agent may call again with: "remaining", or "missing"
  MaxCalls    \* bound: calls of the tool

\* A series has each date once.  The tool does not look: it would create a start that the
\* agent lists twice a second time, as asked.
ASSUME SubeventsAssumption ==
  /\ Dates \in Seq(STRING) /\ Dates # <<>>
  /\ \A i, j \in 1..Len(Dates) : Dates[i] = Dates[j] => i = j
  /\ Policies \subseteq {"remaining", "missing"}
  /\ MaxCalls \in Nat \ {0}

VARIABLES
  withQuota,   \* quota_size was given
  policy,      \* what this agent calls again with
  phase,       \* the request awaited, or how the call ended: "raised" returns no report
  todo, at,    \* `starts` of the call, and the index of its loop
  created,     \* `created`: for each date whether its entry names it, and has a quota_id
  lost,        \* history: pretix did not answer a request: lost, or redirected
  dates,       \* how many subevents pretix has for each date
  quotas,      \* how many quotas
  stray,       \* requests that gave up waiting for pretix
  known,       \* dates of the entries returned by the calls before this one
  calls        \* calls made

call == <<phase, todo, at, created>>
pretix == <<dates, quotas, stray>>
agent == <<withQuota, policy, known, calls>>
vars == <<agent, call, pretix, lost>>

DateSet == ToSet(Dates)
Entries == [date : DateSet, named : BOOLEAN, quota : BOOLEAN]
Waiting == {"date", "quota"}

TypeOK ==
  /\ withQuota \in BOOLEAN
  /\ policy \in Policies
  /\ phase \in Waiting \cup {"ok", "partial_failure", "raised"}
  /\ todo \in Seq(DateSet) /\ at \in 1..Len(todo)
  /\ created \in Seq(Entries)
  /\ lost \in BOOLEAN
  /\ dates \in [DateSet -> Nat]
  /\ quotas \in [DateSet -> Nat]
  /\ stray \subseteq Waiting \X DateSet
  /\ known \subseteq DateSet
  /\ calls \in 1..MaxCalls

Init ==
  /\ withQuota \in BOOLEAN
  /\ policy \in Policies
  /\ phase = "date"
  /\ todo = Dates /\ at = 1
  /\ created = <<>>
  /\ lost = FALSE
  /\ dates = [d \in DateSet |-> 0]
  /\ quotas = [d \in DateSet |-> 0]
  /\ stray = {}
  /\ known = {}
  /\ calls = 1

-----------------------------------------------------------------------------

Start == todo[at]
Entry(quota) == [date |-> Start, named |-> TRUE, quota |-> quota]
\* What pick makes of None, in the place of an entry for Start.
EmptyEntry == [date |-> Start, named |-> FALSE, quota |-> FALSE]

AdvancePastEnd == phase' = "date" /\ at' = at + 1

\* The next date, or the end of the loop.
Advance == IF at = Len(todo) THEN phase' = "ok" /\ UNCHANGED at
                             ELSE phase' = "date" /\ at' = at + 1

Added(count) == [count EXCEPT ![Start] = @ + 1]

\* The entry appended only when its quota is there too.
DateCreatedLate ==
  /\ phase = "date"
  /\ dates' = Added(dates)
  /\ IF withQuota THEN phase' = "quota" /\ UNCHANGED <<at, created>>
                  ELSE Advance /\ created' = Append(created, Entry(FALSE))
  /\ UNCHANGED <<agent, todo, quotas, stray, lost>>

DateCreated ==
  /\ phase = "date"
  /\ dates' = Added(dates)
  /\ created' = Append(created, Entry(FALSE))
  /\ IF withQuota THEN phase' = "quota" /\ UNCHANGED at ELSE Advance
  /\ UNCHANGED <<agent, todo, quotas, stray, lost>>

QuotaCreated ==
  /\ phase = "quota"
  /\ quotas' = Added(quotas)
  /\ created' = [created EXCEPT ![Len(created)] = Entry(TRUE)]
  /\ Advance
  /\ UNCHANGED <<agent, todo, dates, stray, lost>>

RefusedButGoesOn ==
  /\ phase \in Waiting
  /\ IF at = Len(todo) THEN phase' = "partial_failure" /\ UNCHANGED at
                       ELSE phase' = "date" /\ at' = at + 1
  /\ UNCHANGED <<agent, todo, created, pretix, lost>>

\* except PretixError: the report, and no further request.
Fails == /\ phase \in Waiting
         /\ phase' = "partial_failure"
         /\ UNCHANGED <<agent, todo, at, created, dates, quotas>>

Refused == Fails /\ UNCHANGED <<stray, lost>>

\* A timeout, a 5xx: pretix may have the request, and may still process it.
Unanswered == /\ Fails
              /\ stray' = stray \cup {<<phase, Start>>}
              /\ lost' = TRUE

\* request() returns None.  The date gets an empty entry and the loop goes on; but where an id
\* is asked of it, the date's for the quota or the quota's own, an AttributeError ends the call.
Redirected ==
  /\ phase \in Waiting
  /\ lost' = TRUE
  /\ IF withQuota THEN phase' = "raised" /\ UNCHANGED <<at, created>>
                  ELSE Advance /\ created' = Append(created, EmptyEntry)
  /\ UNCHANGED <<agent, todo, pretix>>

ProcessedAfterAll ==
  \E r \in stray :
    /\ stray' = stray \ {r}
    /\ IF r[1] = "date" THEN dates' = [dates EXCEPT ![r[2]] = @ + 1] /\ UNCHANGED quotas
                        ELSE quotas' = [quotas EXCEPT ![r[2]] = @ + 1] /\ UNCHANGED dates
    /\ UNCHANGED <<agent, call, lost>>

-----------------------------------------------------------------------------
(* The report, and the agent that acts on it.                              *)

CreatedDates == {created[i].date : i \in {i \in 1..Len(created) : created[i].named}}
RemainingWithFailed == SubSeq(todo, at, Len(todo))
Remaining == SubSeq(todo, at + 1, Len(todo))

\* What is still missing, as far as the report says.
Missing == SubSeq(todo, IF Start \in CreatedDates THEN at + 1 ELSE at, Len(todo))

CallAgain ==
  /\ phase = "partial_failure"
  /\ calls < MaxCalls
  /\ LET next == IF policy = "remaining" THEN Remaining ELSE Missing IN
     /\ next # <<>>
     /\ todo' = next
  /\ at' = 1
  /\ phase' = "date"
  /\ created' = <<>>
  /\ known' = known \cup CreatedDates
  /\ calls' = calls + 1
  /\ UNCHANGED <<withQuota, policy, pretix, lost>>

Next == \/ DateCreated \/ QuotaCreated
        \/ Refused \/ Unanswered \/ Redirected
        \/ ProcessedAfterAll
        \/ CallAgain

Spec == Init /\ [][Next]_vars

-----------------------------------------------------------------------------

Returned == phase \in {"ok", "partial_failure"}
Reported == known \cup CreatedDates

\* Whatever answers are lost or redirected: an entry that names its date is a date pretix has,
\* and a quota_id a quota it has; and what the report calls remaining was not tried in this call.
ReportIsTrue ==
  /\ \A i \in 1..Len(created) : /\ created[i].named => dates[created[i].date] > 0
                                /\ created[i].quota => quotas[created[i].date] > 0
  /\ \A d \in ToSet(Remaining) : dates[d] = 0 /\ quotas[d] = 0

\* When pretix answered every request, the reports leave nothing out: the dates pretix has
\* are the ones reported, and in this report the entries without a quota_id are the dates
\* without a quota (the entry is appended before the quota's request, 149).
ReportIsComplete ==
  Returned /\ ~lost =>
    /\ {d \in DateSet : dates[d] > 0} = Reported
    /\ withQuota => \A i \in 1..Len(created) :
                      created[i].quota <=> quotas[created[i].date] > 0

\* An agent that calls again for what the report does not show as created gets, when a call
\* ends with "ok" and pretix answered every request, every date exactly once.
EveryDateOnce ==
  phase = "ok" /\ ~lost /\ policy = "missing" =>
    \A d \in DateSet : dates[d] = 1

\* subevents.py:175, "Fix the error, then re-run for the remaining dates only": who does so
\* until a call ends with "ok" has every date, if pretix answered every request.
NoteLeadsToAllDates ==
  phase = "ok" /\ ~lost /\ policy = "remaining" => \A d \in DateSet : dates[d] > 0
=============================================================================
