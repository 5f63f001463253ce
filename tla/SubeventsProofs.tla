--------------------------- MODULE SubeventsProofs ---------------------------
(***************************************************************************)
(* That the reports of create_subevents are true, and while no answer is   *)
(* lost complete, for any series, any number of calls and any failures.    *)
(***************************************************************************)
EXTENDS Subevents, SequenceTheorems, TLAPS

N == Len(Dates)

\* Where in the series a call begins, and where it stands.
Skipped == N - Len(todo)
Place == Skipped + at

\* A call works on an end of the series, and appends one entry per date it gets through.
InStep ==
  /\ Len(todo) <= N
  /\ \A i \in 1..Len(todo) : todo[i] = Dates[Skipped + i]
  /\ Len(created) \in {at - 1, at}
  /\ phase = "date" => Len(created) = at - 1
  /\ phase \in {"quota", "ok"} => Len(created) = at
  /\ phase = "ok" => at = Len(todo)
  /\ \A i \in 1..Len(created) : created[i].date = todo[i]
  /\ phase = "quota" => withQuota
  /\ ~lost \/ withQuota => \A i \in 1..Len(created) : created[i].named

\* No call so far has got to the dates after this place.
Untried ==
  \A j \in 1..N : j > Place =>
    /\ dates[Dates[j]] = 0 /\ quotas[Dates[j]] = 0
    /\ \A r \in stray : r[2] # Dates[j]

\* No call is made for a date that a report has shown as created.
Fresh == \A i \in 1..Len(todo) : todo[i] \notin known

\* What an entry says was processed.
Honest == /\ \A i \in 1..Len(created) : /\ created[i].named => dates[created[i].date] > 0
                                        /\ created[i].quota => quotas[created[i].date] > 0
          /\ \A d \in known : dates[d] > 0

\* While every answer arrives, pretix has what the reports say, and each date once.
Complete ==
  ~lost =>
    /\ stray = {}
    /\ \A d \in DateSet : dates[d] <= 1
    /\ \A d \in DateSet : dates[d] > 0 => d \in Reported
    /\ \A d \in DateSet : quotas[d] > 0 =>
         d \in known \/ \E i \in 1..Len(created) : created[i].date = d /\ created[i].quota

\* An agent that asks for what is missing leaves no date behind.
NoneLeftBehind ==
  ~lost /\ policy = "missing" => \A j \in 1..N : j < Place => Dates[j] \in Reported

SInv == TypeOK /\ InStep /\ Untried /\ Fresh /\ Honest /\ Complete /\ NoneLeftBehind

-----------------------------------------------------------------------------

\* The dates of the series, by their places.
LEMMA Series ==
  /\ N \in Nat \ {0}
  /\ \A j \in 1..N : Dates[j] \in DateSet
  /\ \A d \in DateSet : \E j \in 1..N : Dates[j] = d
  /\ \A i, j \in 1..N : Dates[i] = Dates[j] => i = j
  /\ Dates \in Seq(DateSet)
<1>1. Len(Dates) \in Nat /\ DOMAIN Dates = 1..Len(Dates) /\ Dates \in [1..Len(Dates) -> STRING]
  BY SubeventsAssumption
<1>2. N \in Nat \ {0}
  BY SubeventsAssumption, EmptySeq DEF N
<1>3. DateSet = {Dates[j] : j \in 1..N}
  BY <1>1 DEF DateSet, ToSet, N
<1>4. Dates \in Seq(DateSet)
  BY <1>1, <1>3 DEF N
<1>5. QED
  BY <1>2, <1>3, <1>4, SubeventsAssumption DEF N

\* Where a call stands, and the date it is at.
Stands ==
  /\ Len(todo) \in Nat /\ at \in 1..Len(todo) /\ Len(created) \in Nat /\ N \in Nat
  /\ Len(created) <= Len(todo)
  /\ Skipped = N - Len(todo) /\ Skipped \in Nat /\ Place = Skipped + at /\ Place \in 1..N
  /\ Start = todo[at] /\ Start = Dates[Place] /\ Start \in DateSet
  /\ \A i \in 1..Len(todo) : todo[i] \in DateSet
  /\ \A i, k \in 1..Len(todo) : todo[i] = todo[k] => i = k
  /\ \A i \in 1..Len(created) : created[i] \in Entries /\ created[i].date \in DateSet

\* The numbers a call stands at are in bounds, and its dates are dates of the series.
LEMMA Standing ==
  ASSUME TypeOK, InStep
  PROVE  Stands
<1>1. /\ Len(todo) \in Nat /\ at \in 1..Len(todo) /\ Len(created) \in Nat
      /\ Len(created) <= Len(todo)
  BY LenProperties DEF TypeOK, InStep
<1>2. Skipped = N - Len(todo) /\ Skipped \in Nat /\ Place = Skipped + at /\ Place \in 1..N
  BY <1>1, Series DEF InStep, Skipped, Place
<1>3. Start = todo[at] /\ Start = Dates[Place]
  BY <1>1, <1>2 DEF InStep, Start
<1>4. \A i \in 1..Len(todo) : todo[i] \in DateSet
  BY ElementOfSeq DEF TypeOK
<1>5. \A i, k \in 1..Len(todo) : todo[i] = todo[k] => i = k
  <2> SUFFICES ASSUME NEW i \in 1..Len(todo), NEW k \in 1..Len(todo), todo[i] = todo[k]
               PROVE  i = k
    OBVIOUS
  <2>1. Skipped + i \in 1..N /\ Skipped + k \in 1..N
    BY <1>1, <1>2, Series
  <2>2. Dates[Skipped + i] = Dates[Skipped + k]
    BY DEF InStep
  <2>3. Skipped + i = Skipped + k
    BY <2>1, <2>2, Series
  <2>4. QED
    BY <1>1, <1>2, <2>3
<1>6. \A i \in 1..Len(created) : created[i] \in Entries /\ created[i].date \in DateSet
  <2>1. \A i \in 1..Len(created) : created[i] \in Entries
    BY ElementOfSeq DEF TypeOK
  <2>2. QED
    BY <2>1 DEF Entries
<1>7. QED
  BY <1>1, <1>2, <1>3, <1>4, <1>5, <1>6, Series DEF Stands

\* Nothing is created, and no call made.
LEMMA BatchInit == Init => SInv
<1> SUFFICES ASSUME Init PROVE SInv
  OBVIOUS
<1> USE DEF Init
<1>1. TypeOK
  <2>1. created \in Seq(Entries)
    BY EmptySeq
  <2>2. todo \in Seq(DateSet) /\ at \in 1..Len(todo)
    BY Series DEF N
  <2>3. dates \in [DateSet -> Nat] /\ quotas \in [DateSet -> Nat]
    OBVIOUS
  <2>4. calls \in 1..MaxCalls
    BY SubeventsAssumption
  <2>5. QED
    BY <2>1, <2>2, <2>3, <2>4 DEF TypeOK, Waiting
<1>2. Skipped = 0 /\ Place = 1
  BY Series DEF Skipped, Place, N
<1>3. InStep
  BY Series, <1>2 DEF InStep, N
<1>4. Untried /\ Fresh /\ Honest /\ Complete /\ NoneLeftBehind
  BY Series, <1>2 DEF Untried, Fresh, Honest, Complete, NoneLeftBehind
<1>5. QED
  BY <1>1, <1>3, <1>4 DEF SInv

\* The date is created: its entry, and then its quota's request or the next date.
LEMMA DateCreatedKeeps == SInv /\ DateCreated => SInv'
<1> SUFFICES ASSUME SInv, DateCreated PROVE SInv'
  OBVIOUS
<1>a. TypeOK /\ InStep /\ Untried /\ Fresh /\ Honest /\ Complete /\ NoneLeftBehind
  BY DEF SInv
<1>s. Stands
  BY <1>a, Standing
<1>b. /\ phase = "date" /\ Len(created) = at - 1
      /\ dates' = [dates EXCEPT ![Start] = @ + 1]
      /\ created' = Append(created, [date |-> Start, named |-> TRUE, quota |-> FALSE])
      /\ withQuota' = withQuota /\ policy' = policy /\ known' = known /\ calls' = calls
      /\ todo' = todo /\ quotas' = quotas /\ stray' = stray /\ lost' = lost
  BY <1>a DEF DateCreated, Added, Entry, InStep, agent
<1>m. \/ phase' = "quota" /\ at' = at /\ withQuota
      \/ phase' = "ok" /\ at' = at /\ at = Len(todo)
      \/ phase' = "date" /\ at' = at + 1 /\ at # Len(todo)
  BY DEF DateCreated, Advance
<1>n. Len(todo) \in Nat /\ at \in 1..Len(todo) /\ Start \in DateSet /\ Start = todo[at]
  BY <1>s DEF Stands
<1>c. /\ Len(created') = at
      /\ created'[at] = [date |-> Start, named |-> TRUE, quota |-> FALSE]
      /\ \A i \in 1..at - 1 : created'[i] = created[i]
      /\ created' \in Seq(Entries)
  <2>1. created \in Seq(Entries) /\ [date |-> Start, named |-> TRUE, quota |-> FALSE] \in Entries
    BY <1>a, <1>n DEF TypeOK, Entries
  <2>2. QED
    BY <1>b, <1>n, <2>1, AppendProperties
<1>d. at' \in {at, at + 1} /\ at' \in 1..Len(todo)
  BY <1>m, <1>n
<1>e. /\ dates' \in [DateSet -> Nat] /\ dates \in [DateSet -> Nat]
      /\ dates'[Start] = dates[Start] + 1
      /\ \A d \in DateSet : d # Start => dates'[d] = dates[d]
  <2>1. dates \in [DateSet -> Nat]
    BY <1>a DEF TypeOK
  <2>2. QED
    BY <1>b, <1>n, <2>1
<1>f. Skipped' = Skipped /\ Place' \in {Place, Place + 1}
  <2>1. Skipped' = Skipped /\ Place' = Skipped + at'
    BY <1>b DEF Skipped, Place
  <2>2. Place = Skipped + at /\ Skipped \in Nat
    BY <1>s DEF Stands
  <2>3. CASE at' = at
    BY <2>1, <2>2, <2>3
  <2>4. CASE at' = at + 1
    <3>1. at \in Nat
      BY <1>n
    <3>2. Place' = Place + 1
      BY <2>1, <2>2, <2>4, <3>1
    <3>3. QED
      BY <2>1, <3>2
  <2>5. QED
    BY <1>d, <2>3, <2>4
<1>1. TypeOK'
  BY <1>a, <1>b, <1>c, <1>d, <1>e, <1>m DEF TypeOK, Waiting
<1>2. InStep'
  <2>1. \A i \in 1..Len(created') : created'[i].date = todo[i]
    BY <1>a, <1>b, <1>c, <1>n DEF InStep
  <2>2. QED
    BY <1>a, <1>b, <1>c, <1>f, <1>m, <1>n, <2>1 DEF InStep
<1>4. Untried'
  <2> SUFFICES ASSUME NEW j \in 1..N, j > Place'
               PROVE  /\ dates'[Dates[j]] = 0 /\ quotas[Dates[j]] = 0
                      /\ \A r \in stray : r[2] # Dates[j]
    BY <1>b DEF Untried, N
  <2>1. j > Place /\ Place \in 1..N /\ N \in Nat
    BY <1>f, <1>s DEF Stands
  <2>2. Dates[j] \in DateSet /\ Dates[j] # Start
    BY <1>s, <2>1, Series DEF Stands
  <2>3. QED
    BY <1>a, <1>e, <2>1, <2>2 DEF Untried
<1>5. Fresh'
  BY <1>a, <1>b DEF Fresh
<1>6. Honest'
  <2>1. ASSUME NEW i \in 1..Len(created')
        PROVE  (created'[i].named => dates'[created'[i].date] > 0)
               /\ (created'[i].quota => quotas[created'[i].date] > 0)
    <3>1. CASE i = at
      BY <1>c, <1>e, <1>n, <3>1
    <3>2. CASE i # at
      <4>1. i \in 1..Len(created) /\ created'[i] = created[i]
        BY <1>b, <1>c, <1>n, <3>2
      <4>2. created[i].date \in DateSet
        BY <1>s, <4>1 DEF Stands
      <4>3. /\ created[i].named => dates[created[i].date] > 0
            /\ created[i].quota => quotas[created[i].date] > 0
        BY <1>a, <4>1 DEF Honest
      <4>4. QED
        BY <1>e, <4>1, <4>2, <4>3
    <3>3. QED
      BY <3>1, <3>2
  <2>2. \A d \in known : dates'[d] > 0
    <3>1. known \subseteq DateSet
      BY <1>a DEF TypeOK
    <3>2. QED
      BY <1>a, <1>e, <3>1 DEF Honest
  <2>3. QED
    BY <1>b, <2>1, <2>2 DEF Honest
<1>7. CreatedDates' = CreatedDates \cup {Start}
  BY <1>b, <1>c, <1>n DEF CreatedDates
<1>8. Complete'
  <2> SUFFICES ASSUME ~lost PROVE Complete'
    BY <1>b DEF Complete
  <2>1. Start \notin Reported
    <3>1. Start \notin known
      BY <1>a, <1>n DEF Fresh
    <3>2. ASSUME NEW i \in 1..Len(created), created[i].date = Start PROVE FALSE
      <4>1. todo[i] = todo[at] /\ i \in 1..Len(todo) /\ i # at
        BY <1>a, <1>b, <1>n, <3>2 DEF InStep
      <4>2. QED
        BY <1>s, <1>n, <4>1 DEF Stands
    <3>3. QED
      BY <3>1, <3>2 DEF Reported, CreatedDates
  <2>2. dates[Start] = 0
    BY <1>a, <1>e, <1>n, <2>1 DEF Complete
  <2>3. \A d \in DateSet : quotas[d] > 0 =>
          d \in known \/ \E i \in 1..Len(created') : created'[i].date = d /\ created'[i].quota
    BY <1>a, <1>b, <1>c, <1>n DEF Complete
  <2>4. \A d \in DateSet : dates'[d] <= 1 /\ (dates'[d] > 0 => d \in Reported \cup {Start})
    BY <1>a, <1>e, <2>2 DEF Complete
  <2>5. Reported' = Reported \cup {Start}
    BY <1>b, <1>7 DEF Reported
  <2>6. QED
    BY <1>a, <1>b, <2>3, <2>4, <2>5 DEF Complete
<1>9. NoneLeftBehind'
  <2> SUFFICES ASSUME ~lost, policy = "missing", NEW j \in 1..N, j < Place'
               PROVE  Dates[j] \in Reported \cup {Start}
    BY <1>b, <1>7 DEF NoneLeftBehind, Reported, N
  <2>1. N \in Nat /\ Place \in 1..N /\ Start = Dates[Place]
    BY <1>s DEF Stands
  <2>2. j < Place \/ j = Place
    BY <1>f, <2>1
  <2>3. QED
    BY <1>a, <2>1, <2>2 DEF NoneLeftBehind
<1>10. QED
  BY <1>1, <1>2, <1>4, <1>5, <1>6, <1>8, <1>9 DEF SInv

\* The quota is created: its date's entry says so.
LEMMA QuotaCreatedKeeps == SInv /\ QuotaCreated => SInv'
<1> SUFFICES ASSUME SInv, QuotaCreated PROVE SInv'
  OBVIOUS
<1>a. TypeOK /\ InStep /\ Untried /\ Fresh /\ Honest /\ Complete /\ NoneLeftBehind
  BY DEF SInv
<1>s. Stands
  BY <1>a, Standing
<1>b. /\ phase = "quota" /\ Len(created) = at
      /\ quotas' = [quotas EXCEPT ![Start] = @ + 1]
      /\ created' = [created EXCEPT ![at] = [date |-> Start, named |-> TRUE, quota |-> TRUE]]
      /\ withQuota' = withQuota /\ policy' = policy /\ known' = known /\ calls' = calls
      /\ todo' = todo /\ dates' = dates /\ stray' = stray /\ lost' = lost
  BY <1>a DEF QuotaCreated, Added, Entry, InStep, agent
<1>m. \/ phase' = "ok" /\ at' = at /\ at = Len(todo)
      \/ phase' = "date" /\ at' = at + 1 /\ at # Len(todo)
  BY DEF QuotaCreated, Advance
<1>n. Len(todo) \in Nat /\ at \in 1..Len(todo) /\ Start \in DateSet /\ Start = todo[at]
  BY <1>s DEF Stands
<1>k. created[at].date = Start /\ created[at].named
  BY <1>a, <1>b, <1>n DEF InStep
<1>c. /\ Len(created') = at
      /\ created'[at] = [date |-> Start, named |-> TRUE, quota |-> TRUE]
      /\ \A i \in 1..at : i # at => created'[i] = created[i]
      /\ created' \in Seq(Entries)
  <2>1. created \in Seq(Entries) /\ [date |-> Start, named |-> TRUE, quota |-> TRUE] \in Entries
    BY <1>a, <1>n DEF TypeOK, Entries
  <2>2. QED
    BY <1>b, <1>n, <2>1, ExceptSeq
<1>h. \A i \in 1..at : created'[i].date = created[i].date /\ created'[i].named = created[i].named
  <2>1. created'[at].date = Start /\ created'[at].named = TRUE
    BY <1>c
  <2>2. created[at].named = TRUE
    <3>1. created[at] \in Entries
      BY <1>b, <1>n, <1>s DEF Stands
    <3>2. created[at].named \in BOOLEAN
      BY <3>1 DEF Entries
    <3>3. QED
      BY <1>k, <3>2
  <2>3. QED
    BY <1>c, <1>k, <2>1, <2>2
<1>d. at' \in {at, at + 1} /\ at' \in 1..Len(todo)
  BY <1>m, <1>n
<1>e. /\ quotas' \in [DateSet -> Nat] /\ quotas \in [DateSet -> Nat]
      /\ quotas'[Start] = quotas[Start] + 1
      /\ \A d \in DateSet : d # Start => quotas'[d] = quotas[d]
  BY <1>a, <1>b, <1>n DEF TypeOK
<1>f. Skipped' = Skipped /\ Place' \in {Place, Place + 1}
  <2>1. Skipped' = Skipped /\ Place' = Skipped + at'
    BY <1>b DEF Skipped, Place
  <2>2. Place = Skipped + at /\ Skipped \in Nat
    BY <1>s DEF Stands
  <2>3. CASE at' = at
    BY <2>1, <2>2, <2>3
  <2>4. CASE at' = at + 1
    <3>1. at \in Nat
      BY <1>n
    <3>2. Place' = Place + 1
      BY <2>1, <2>2, <2>4, <3>1
    <3>3. QED
      BY <2>1, <3>2
  <2>5. QED
    BY <1>d, <2>3, <2>4
<1>1. TypeOK'
  BY <1>a, <1>b, <1>c, <1>d, <1>e, <1>m DEF TypeOK, Waiting
<1>2. InStep'
  <2>1. \A i \in 1..Len(created') : created'[i].date = todo[i]
    BY <1>a, <1>b, <1>c, <1>h DEF InStep
  <2>2. QED
    BY <1>a, <1>b, <1>c, <1>f, <1>m, <1>n, <2>1 DEF InStep
<1>4. Untried'
  <2> SUFFICES ASSUME NEW j \in 1..N, j > Place'
               PROVE  /\ dates[Dates[j]] = 0 /\ quotas'[Dates[j]] = 0
                      /\ \A r \in stray : r[2] # Dates[j]
    BY <1>b DEF Untried, N
  <2>1. j > Place /\ Place \in 1..N /\ N \in Nat
    BY <1>f, <1>s DEF Stands
  <2>2. Dates[j] \in DateSet /\ Dates[j] # Start
    BY <1>s, <2>1, Series DEF Stands
  <2>3. QED
    BY <1>a, <1>e, <2>1, <2>2 DEF Untried
<1>5. Fresh'
  BY <1>a, <1>b DEF Fresh
<1>6. Honest'
  <2>1. ASSUME NEW i \in 1..Len(created')
        PROVE  (created'[i].named => dates[created'[i].date] > 0)
               /\ (created'[i].quota => quotas'[created'[i].date] > 0)
    <3>1. created'[i].date = created[i].date /\ (created'[i].named => dates[created'[i].date] > 0)
      BY <1>a, <1>b, <1>c, <1>h DEF Honest
    <3>2. CASE i = at
      BY <1>c, <1>e, <1>n, <3>1, <3>2
    <3>3. CASE i # at
      <4>1. created'[i] = created[i] /\ created[i].date \in DateSet
        BY <1>b, <1>c, <1>s, <3>3 DEF Stands
      <4>2. created[i].quota => quotas[created[i].date] > 0
        BY <1>a, <1>b, <1>c DEF Honest
      <4>3. QED
        BY <1>e, <3>1, <4>1, <4>2
    <3>4. QED
      BY <3>2, <3>3
  <2>2. QED
    BY <1>a, <1>b, <2>1 DEF Honest
<1>7. CreatedDates' = CreatedDates /\ Start \in CreatedDates
  <2>1. at \in 1..Len(created)
    BY <1>b, <1>n
  <2>2. QED
    BY <1>b, <1>c, <1>h, <1>k, <2>1 DEF CreatedDates
<1>8. Complete'
  <2> SUFFICES ASSUME ~lost PROVE Complete'
    BY <1>b DEF Complete
  <2>1. ASSUME NEW d \in DateSet, quotas'[d] > 0
        PROVE  d \in known \/ \E i \in 1..Len(created') : created'[i].date = d /\ created'[i].quota
    <3>1. CASE d = Start
      BY <1>c, <1>n, <3>1
    <3>2. CASE d # Start
      <4>1. d \in known \/ \E i \in 1..Len(created) : created[i].date = d /\ created[i].quota
        BY <1>a, <1>e, <2>1, <3>2 DEF Complete
      <4>2. QED
        BY <1>b, <1>c, <1>k, <3>2, <4>1
    <3>3. QED
      BY <3>1, <3>2
  <2>2. QED
    BY <1>a, <1>b, <1>7, <2>1 DEF Complete, Reported
<1>9. NoneLeftBehind'
  <2> SUFFICES ASSUME ~lost, policy = "missing", NEW j \in 1..N, j < Place'
               PROVE  Dates[j] \in Reported
    BY <1>b, <1>7 DEF NoneLeftBehind, Reported, N
  <2>1. N \in Nat /\ Place \in 1..N /\ Start = Dates[Place]
    BY <1>s DEF Stands
  <2>2. j < Place \/ j = Place
    BY <1>f, <2>1
  <2>3. QED
    BY <1>a, <1>7, <2>1, <2>2 DEF NoneLeftBehind, Reported
<1>10. QED
  BY <1>1, <1>2, <1>4, <1>5, <1>6, <1>8, <1>9 DEF SInv

\* A request is refused, or never answered: the report.
LEMMA FailureKeeps == SInv /\ (Refused \/ Unanswered) => SInv'
<1> SUFFICES ASSUME SInv, Refused \/ Unanswered PROVE SInv'
  OBVIOUS
<1>a. TypeOK /\ InStep /\ Untried /\ Fresh /\ Honest /\ Complete /\ NoneLeftBehind
  BY DEF SInv
<1>s. Stands
  BY <1>a, Standing
<1>b. /\ phase \in Waiting /\ phase' = "partial_failure"
      /\ UNCHANGED <<withQuota, policy, known, calls, todo, at, created, dates, quotas>>
      /\ \/ UNCHANGED <<stray, lost>>
         \/ stray' = stray \cup {<<phase, Start>>} /\ lost' = TRUE
  BY DEF Refused, Unanswered, Fails, agent
<1>1. TypeOK'
  <2>1. stray' \subseteq Waiting \X DateSet /\ lost' \in BOOLEAN
    <3>1. <<phase, Start>> \in Waiting \X DateSet
      BY <1>b, <1>s DEF Stands
    <3>2. QED
      BY <1>a, <1>b, <3>1 DEF TypeOK
  <2>2. QED
    BY <1>a, <1>b, <2>1 DEF TypeOK
<1>2. InStep' /\ Place' = Place
  BY <1>a, <1>b DEF InStep, Skipped, Place
<1>3. Untried'
  <2>1. \A j \in 1..N : j > Place => Dates[j] # Start
    BY <1>a, Series, <1>s DEF Stands
  <2>2. \A r \in stray' : r \in stray \/ r[2] = Start
    BY <1>b
  <2>3. QED
    BY <1>a, <1>b, <1>2, <2>1, <2>2 DEF Untried
<1>4. Fresh' /\ Honest' /\ Complete' /\ NoneLeftBehind'
  BY <1>a, <1>b, <1>2
     DEF Fresh, Honest, Complete, NoneLeftBehind, Reported, CreatedDates
<1>5. QED
  BY <1>1, <1>2, <1>3, <1>4 DEF SInv

\* A redirect is taken for success: an entry that names nothing, or no report at all.
LEMMA RedirectKeeps == SInv /\ Redirected => SInv'
<1> SUFFICES ASSUME SInv, Redirected PROVE SInv'
  OBVIOUS
<1>a. TypeOK /\ InStep /\ Untried /\ Fresh /\ Honest
  BY DEF SInv
<1>s. Stands
  BY <1>a, Standing
<1>n. /\ Len(todo) \in Nat /\ at \in 1..Len(todo) /\ Start \in DateSet /\ Start = todo[at]
      /\ Len(created) \in Nat /\ Skipped \in Nat /\ Place = Skipped + at
  BY <1>s DEF Stands
<1>b. /\ phase \in Waiting /\ lost' = TRUE
      /\ UNCHANGED <<withQuota, policy, known, calls, todo, dates, quotas, stray>>
  BY DEF Redirected, agent, pretix
<1>l. Complete' /\ NoneLeftBehind'
  BY <1>b DEF Complete, NoneLeftBehind
<1>1. CASE withQuota
  <2>1. phase' = "raised" /\ at' = at /\ created' = created
    BY <1>1 DEF Redirected
  <2>2. TypeOK'
    BY <1>a, <1>b, <2>1 DEF TypeOK
  <2>3. InStep' /\ Place' = Place
    BY <1>a, <1>b, <2>1 DEF InStep, Skipped, Place
  <2>4. Untried' /\ Fresh' /\ Honest'
    BY <1>a, <1>b, <2>1, <2>3 DEF Untried, Fresh, Honest
  <2>5. QED
    BY <1>l, <2>2, <2>3, <2>4 DEF SInv
<1>2. CASE ~withQuota
  <2>1. created' = Append(created, [date |-> Start, named |-> FALSE, quota |-> FALSE])
    BY <1>2 DEF Redirected, EmptyEntry
  <2>2. \/ phase' = "ok" /\ at' = at /\ at = Len(todo)
        \/ phase' = "date" /\ at' = at + 1 /\ at # Len(todo)
    BY <1>2 DEF Redirected, Advance
  <2>3. phase = "date" /\ Len(created) = at - 1
    BY <1>a, <1>b, <1>2 DEF InStep, TypeOK, Waiting
  <2>4. /\ Len(created') = at
        /\ created'[at] = [date |-> Start, named |-> FALSE, quota |-> FALSE]
        /\ \A i \in 1..at - 1 : created'[i] = created[i]
        /\ created' \in Seq(Entries)
    <3>1. created \in Seq(Entries) /\ [date |-> Start, named |-> FALSE, quota |-> FALSE] \in Entries
      BY <1>a, <1>n DEF TypeOK, Entries
    <3>2. QED
      BY <1>n, <2>1, <2>3, <3>1, AppendProperties
  <2>5. Skipped' = Skipped /\ Place' \in {Place, Place + 1} /\ at' \in 1..Len(todo)
    <3>1. Skipped' = Skipped /\ Place' = Skipped + at'
      BY <1>b DEF Skipped, Place
    <3>2. QED
      BY <1>n, <2>2, <3>1
  <2>6. TypeOK'
    BY <1>a, <1>b, <2>2, <2>4, <2>5 DEF TypeOK, Waiting
  <2>7. InStep'
    <3>1. ASSUME NEW i \in 1..Len(created') PROVE created'[i].date = todo[i]
      <4>1. CASE i = at
        BY <1>n, <2>4, <4>1
      <4>2. CASE i # at
        <5>1. i \in 1..Len(created) /\ i \in 1..at - 1
          BY <1>n, <2>3, <2>4, <4>2
        <5>2. created'[i] = created[i] /\ created[i].date = todo[i]
          BY <1>a, <2>4, <5>1 DEF InStep
        <5>3. QED
          BY <5>2
      <4>3. QED
        BY <4>1, <4>2
    <3>2. Len(created') \in {at' - 1, at'}
      BY <1>n, <2>2, <2>4
    <3>3. phase' = "date" => Len(created') = at' - 1
      BY <1>n, <2>2, <2>4
    <3>4. phase' \in {"quota", "ok"} => Len(created') = at'
      BY <1>n, <2>2, <2>4
    <3>5. QED
      BY <1>a, <1>b, <1>2, <2>2, <2>5, <3>1, <3>2, <3>3, <3>4 DEF InStep
  <2>8. Untried' /\ Fresh'
    <3>1. Place \in Nat
      BY <1>n
    <3>2. QED
      BY <1>a, <1>b, <2>5, <3>1 DEF Untried, Fresh, N
  <2>9. Honest'
    <3>1. \A i \in 1..Len(created') : i = at \/ (i \in 1..Len(created) /\ i \in 1..at - 1)
      BY <1>n, <2>3, <2>4
    <3>2. QED
      BY <1>a, <1>b, <2>4, <3>1 DEF Honest
  <2>10. QED
    BY <1>l, <2>6, <2>7, <2>8, <2>9 DEF SInv
<1>3. QED
  BY <1>1, <1>2

\* A request that gave up waiting is processed: its date was tried, and an answer was lost.
LEMMA StrayKeeps == SInv /\ ProcessedAfterAll => SInv'
<1> SUFFICES ASSUME SInv, ProcessedAfterAll PROVE SInv'
  OBVIOUS
<1>a. TypeOK /\ InStep /\ Untried /\ Fresh /\ Honest /\ Complete /\ NoneLeftBehind
  BY DEF SInv
<1>s. Stands
  BY <1>a, Standing
<1>b. PICK r \in stray :
        /\ stray' = stray \ {r}
        /\ IF r[1] = "date" THEN dates' = [dates EXCEPT ![r[2]] = @ + 1] /\ UNCHANGED quotas
                            ELSE quotas' = [quotas EXCEPT ![r[2]] = @ + 1] /\ UNCHANGED dates
        /\ UNCHANGED <<agent, call, lost>>
  BY DEF ProcessedAfterAll
<1>c. UNCHANGED <<withQuota, policy, known, calls, phase, todo, at, created, lost>>
  BY <1>b DEF agent, call
<1>d. r[2] \in DateSet /\ lost
  BY <1>a, <1>b DEF TypeOK, Complete
<1>e. /\ dates' \in [DateSet -> Nat] /\ quotas' \in [DateSet -> Nat]
      /\ \A d \in DateSet : dates'[d] >= dates[d] /\ quotas'[d] >= quotas[d]
      /\ \A d \in DateSet : d # r[2] => dates'[d] = dates[d] /\ quotas'[d] = quotas[d]
  <2>1. dates \in [DateSet -> Nat] /\ quotas \in [DateSet -> Nat]
    BY <1>a DEF TypeOK
  <2>2. CASE r[1] = "date"
    <3>1. dates' = [dates EXCEPT ![r[2]] = @ + 1] /\ quotas' = quotas
      BY <1>b, <2>2
    <3>2. QED
      BY <1>d, <2>1, <3>1
  <2>3. CASE r[1] # "date"
    <3>1. quotas' = [quotas EXCEPT ![r[2]] = @ + 1] /\ dates' = dates
      BY <1>b, <2>3
    <3>2. QED
      BY <1>d, <2>1, <3>1
  <2>4. QED
    BY <2>2, <2>3
<1>1. TypeOK'
  BY <1>a, <1>b, <1>c, <1>e DEF TypeOK
<1>2. InStep' /\ Place' = Place
  BY <1>a, <1>c DEF InStep, Skipped, Place
<1>3. Untried'
  BY <1>a, <1>b, <1>d, <1>e, <1>2, Series DEF Untried
<1>4. Fresh' /\ NoneLeftBehind'
  BY <1>a, <1>c, <1>2 DEF Fresh, NoneLeftBehind, Reported, CreatedDates
<1>5. Honest'
  <2>1. \A d \in DateSet : dates[d] \in Nat /\ quotas[d] \in Nat /\ dates'[d] \in Nat
                           /\ quotas'[d] \in Nat
    BY <1>a, <1>e DEF TypeOK
  <2>2. \A d \in known : d \in DateSet
    BY <1>a DEF TypeOK
  <2>3. \A i \in 1..Len(created) : created[i].date \in DateSet
    BY <1>s DEF Stands
  <2>4. \A d \in DateSet : (dates[d] > 0 => dates'[d] > 0) /\ (quotas[d] > 0 => quotas'[d] > 0)
    BY <1>e, <2>1
  <2>5. QED
    BY <1>a, <1>c, <2>2, <2>3, <2>4 DEF Honest
<1>6. Complete'
  BY <1>c, <1>d DEF Complete
<1>7. QED
  BY <1>1, <1>2, <1>3, <1>4, <1>5, <1>6 DEF SInv

\* The agent calls again with an end of what it called with before.
LEMMA CallAgainKeeps == SInv /\ CallAgain => SInv'
<1> SUFFICES ASSUME SInv, CallAgain PROVE SInv'
  OBVIOUS
<1>a. TypeOK /\ InStep /\ Untried /\ Fresh /\ Honest /\ Complete /\ NoneLeftBehind
  BY DEF SInv
<1>s. Stands
  BY <1>a, Standing
<1>b. /\ phase' = "date" /\ at' = 1 /\ created' = <<>>
      /\ known' = known \cup CreatedDates
      /\ calls' = calls + 1 /\ calls < MaxCalls /\ todo' # <<>>
      /\ UNCHANGED <<withQuota, policy, dates, quotas, stray, lost>>
  BY DEF CallAgain, pretix
<1>n. /\ Len(todo) \in Nat /\ at \in 1..Len(todo) /\ Start = todo[at] /\ N \in Nat
      /\ Len(created) \in Nat /\ Len(created) \in {at - 1, at}
      /\ Skipped \in Nat /\ Skipped = N - Len(todo) /\ Place = Skipped + at
      /\ \A i \in 1..Len(todo) : todo[i] \in DateSet
  BY <1>a, <1>s DEF Stands, InStep
<1>c. PICK k \in {at, at + 1} :
        /\ todo' = SubSeq(todo, k, Len(todo))
        /\ k = at => Start \notin CreatedDates
        /\ k = at + 1 /\ policy = "missing" => Start \in CreatedDates
  <2>1. at # at + 1
    BY <1>n
  <2>2. CASE policy = "remaining"
    BY <2>1, <2>2 DEF CallAgain, Remaining
  <2>3. CASE policy # "remaining"
    BY <2>1, <2>3 DEF CallAgain, Missing
  <2>4. QED
    BY <2>2, <2>3
<1>d. /\ k \in 1..Len(todo) /\ Len(todo') = Len(todo) - k + 1
      /\ \A i \in 1..Len(todo') : todo'[i] = todo[k + i - 1]
      /\ todo' \in Seq(DateSet)
  <2>1. k \in Int /\ k >= 1 /\ k <= Len(todo) + 1
    BY <1>c, <1>n
  <2>2. k <= Len(todo)
    BY <1>b, <1>c, <1>n, <2>1, SubSeqEmpty
  <2>3. \A i \in k..Len(todo) : todo[i] \in DateSet
    BY <1>n, <2>1
  <2>4. /\ todo' \in Seq(DateSet)
        /\ Len(todo') = Len(todo) - k + 1
        /\ \A i \in 1..Len(todo) - k + 1 : todo'[i] = todo[k + i - 1]
    <3>1. /\ SubSeq(todo, k, Len(todo)) \in Seq(DateSet)
          /\ Len(SubSeq(todo, k, Len(todo))) = IF k <= Len(todo) THEN Len(todo) - k + 1 ELSE 0
          /\ \A i \in 1..Len(todo) - k + 1 : SubSeq(todo, k, Len(todo))[i] = todo[k + i - 1]
      <4>1. Len(todo) \in Int
        BY <1>n
      <4>2. QED
        BY <2>1, <2>3, <4>1, SubSeqProperties
    <3>2. QED
      BY <1>c, <2>2, <3>1
  <2>5. k \in 1..Len(todo)
    BY <1>n, <2>1, <2>2
  <2>6. QED
    BY <2>4, <2>5
<1>e. Place' = Skipped + k /\ Place' \in {Place, Place + 1} /\ Skipped' = Skipped + k - 1
  <2>1. Skipped' = N - Len(todo') /\ Place' = Skipped' + 1
    BY <1>b DEF Place, Skipped, N
  <2>2. Skipped' = Skipped + k - 1 /\ Place' = Skipped + k
    BY <1>d, <1>n, <2>1
  <2>3. Skipped + k \in {Skipped + at, Skipped + at + 1}
    BY <1>c, <1>n
  <2>4. QED
    BY <1>n, <2>2, <2>3
<1>1. TypeOK'
  <2>1. CreatedDates \subseteq DateSet
    BY <1>s DEF CreatedDates, Stands
  <2>2. Len(todo') \in Nat /\ 1 \in 1..Len(todo')
    BY <1>d, <1>n
  <2>3. calls' \in 1..MaxCalls
    BY <1>a, <1>b, SubeventsAssumption DEF TypeOK
  <2>4. created' \in Seq(Entries)
    BY <1>b
  <2>5. QED
    BY <1>a, <1>b, <1>d, <2>1, <2>2, <2>3, <2>4 DEF TypeOK, Waiting
<1>2. InStep'
  <2>1. ASSUME NEW i \in 1..Len(todo') PROVE todo'[i] = Dates[Skipped' + i]
    <3>1. k + i - 1 \in 1..Len(todo) /\ Skipped' + i = Skipped + (k + i - 1)
      BY <1>d, <1>e, <1>n
    <3>2. todo[k + i - 1] = Dates[Skipped + (k + i - 1)]
      BY <1>a, <3>1 DEF InStep
    <3>3. QED
      BY <1>d, <3>1, <3>2
  <2>2. Len(todo') <= N
    BY <1>d, <1>n
  <2>3. QED
    BY <1>b, <2>1, <2>2 DEF InStep, N
<1>3. Untried'
  <2> SUFFICES ASSUME NEW j \in 1..N, j > Place'
               PROVE  /\ dates[Dates[j]] = 0 /\ quotas[Dates[j]] = 0
                      /\ \A r \in stray : r[2] # Dates[j]
    BY <1>b DEF Untried, N
  <2>1. j > Place
    BY <1>e, <1>n
  <2>2. QED
    BY <1>a, <2>1 DEF Untried
<1>4. Fresh'
  <2> SUFFICES ASSUME NEW i \in 1..Len(todo') PROVE todo'[i] \notin known'
    BY DEF Fresh
  <2>1. todo'[i] = todo[k + i - 1] /\ k + i - 1 \in 1..Len(todo)
    BY <1>d, <1>n
  <2>2. todo'[i] \notin known
    BY <1>a, <2>1 DEF Fresh
  <2>3. ASSUME NEW m \in 1..Len(created), created[m].named, created[m].date = todo'[i]
        PROVE  FALSE
    <3>1. todo[m] = todo[k + i - 1] /\ m \in 1..Len(todo) /\ m \in 1..at
      BY <1>a, <1>n, <2>1, <2>3 DEF InStep
    <3>2. m = k + i - 1
      BY <1>s, <2>1, <3>1 DEF Stands
    <3>3. k = at /\ m = at
      BY <1>c, <1>n, <3>1, <3>2
    <3>4. QED
      BY <1>c, <1>n, <2>1, <2>3, <3>2, <3>3 DEF CreatedDates
  <2>4. QED
    BY <1>b, <2>2, <2>3 DEF CreatedDates
<1>5. Honest'
  BY <1>a, <1>b DEF Honest, CreatedDates
<1>6. Reported' = Reported
  <2>1. CreatedDates' = {}
    BY <1>b DEF CreatedDates
  <2>2. QED
    BY <1>b, <2>1 DEF Reported
<1>7. Complete'
  <2> SUFFICES ASSUME ~lost, NEW d \in DateSet, quotas[d] > 0 PROVE d \in known'
    BY <1>a, <1>b, <1>6 DEF Complete
  <2>1. d \in known \/ \E i \in 1..Len(created) : created[i].date = d /\ created[i].named
    BY <1>a DEF Complete, InStep
  <2>2. QED
    BY <1>b, <2>1 DEF CreatedDates
<1>8. NoneLeftBehind'
  <2> SUFFICES ASSUME ~lost, policy = "missing", NEW j \in 1..N, j < Place'
               PROVE  Dates[j] \in Reported
    BY <1>b, <1>6 DEF NoneLeftBehind, N
  <2>1. CASE j < Place
    BY <1>a, <2>1 DEF NoneLeftBehind
  <2>2. CASE j >= Place
    <3>1. Place \in Nat /\ Place' # Place /\ j = Place
      BY <1>e, <1>n, <2>2
    <3>2. k # at
      BY <1>e, <1>n, <3>1
    <3>3. QED
      BY <1>c, <1>s, <3>1, <3>2 DEF Reported, Stands
  <2>3. QED
    BY <1>n, <2>1, <2>2
<1>9. QED
  BY <1>1, <1>2, <1>3, <1>4, <1>5, <1>7, <1>8 DEF SInv

\* The series, the reports and pretix agree in every reachable state.
LEMMA BatchInvariant == Spec => []SInv
<1>1. SInv /\ UNCHANGED vars => SInv'
  <2> SUFFICES ASSUME SInv, UNCHANGED vars PROVE SInv'
    OBVIOUS
  <2>1. UNCHANGED <<withQuota, policy, known, calls, phase, todo, at, created, dates, quotas,
                    stray, lost>>
    BY DEF vars, agent, call, pretix
  <2>2. TypeOK' /\ InStep' /\ Place' = Place
    BY <2>1 DEF SInv, TypeOK, InStep, Skipped, Place
  <2>3. Untried' /\ Fresh' /\ Honest'
    BY <2>1, <2>2 DEF SInv, Untried, Fresh, Honest
  <2>4. Complete' /\ NoneLeftBehind'
    BY <2>1, <2>2 DEF SInv, Complete, NoneLeftBehind, Reported, CreatedDates
  <2>5. QED
    BY <2>2, <2>3, <2>4 DEF SInv
<1>2. SInv /\ [Next]_vars => SInv'
  BY <1>1, DateCreatedKeeps, QuotaCreatedKeeps, FailureKeeps, RedirectKeeps, StrayKeeps,
     CallAgainKeeps DEF Next
<1>3. QED
  BY BatchInit, <1>2, PTL DEF Spec

-----------------------------------------------------------------------------

\* Every variable keeps its type, and the loop its index.
THEOREM BatchTypeCorrect == Spec => []TypeOK
<1>1. SInv => TypeOK
  BY DEF SInv
<1>2. QED
  BY BatchInvariant, <1>1, PTL

\* create_subevents reports no date and no quota that pretix does not have, and calls nothing
\* remaining that it tried, whatever answers are lost and however often it is called.
THEOREM ReportIsTrueHolds == Spec => []ReportIsTrue
<1>1. SInv => ReportIsTrue
  <2> SUFFICES ASSUME SInv PROVE ReportIsTrue
    OBVIOUS
  <2>a. TypeOK /\ InStep /\ Untried /\ Honest
    BY DEF SInv
  <2>s. Stands
    BY <2>a, Standing
  <2>1. ASSUME NEW d \in ToSet(Remaining) PROVE dates[d] = 0 /\ quotas[d] = 0
    <3>1. /\ at \in 1..Len(todo) /\ Len(todo) \in Nat /\ Skipped \in Nat
          /\ Skipped = N - Len(todo) /\ Place = Skipped + at /\ N \in Nat
          /\ \A i \in at + 1..Len(todo) : todo[i] \in DateSet
      BY <2>s DEF Stands
    <3>2. /\ Remaining \in Seq(DateSet)
          /\ Len(Remaining) = IF at + 1 <= Len(todo) THEN Len(todo) - (at + 1) + 1 ELSE 0
          /\ \A i \in 1..Len(todo) - (at + 1) + 1 : Remaining[i] = todo[at + 1 + i - 1]
      BY <3>1, SubSeqProperties DEF Remaining
    <3>3. PICK i \in 1..Len(Remaining) : d = Remaining[i]
      BY <2>1, <3>2, LenProperties DEF ToSet
    <3>4. d = todo[at + i] /\ at + i \in 1..Len(todo) /\ i > 0 /\ i \in Nat
      <4>1. Len(Remaining) = Len(todo) - at
        BY <3>1, <3>2
      <4>2. i \in 1..Len(todo) - at /\ at + 1 + i - 1 = at + i
        BY <3>1, <3>3, <4>1
      <4>3. i \in 1..Len(todo) - (at + 1) + 1
        BY <3>1, <4>2
      <4>4. d = todo[at + i]
        BY <3>2, <3>3, <4>2, <4>3
      <4>5. QED
        BY <3>1, <4>2, <4>4
    <3>5. d = Dates[Skipped + (at + i)]
      BY <2>a, <3>4 DEF InStep
    <3>6. Skipped + (at + i) \in 1..N /\ Skipped + (at + i) > Place
      BY <3>1, <3>4
    <3>7. QED
      BY <2>a, <3>5, <3>6 DEF Untried
  <2>2. QED
    BY <2>a, <2>1 DEF Honest, ReportIsTrue
<1>2. QED
  BY BatchInvariant, <1>1, PTL

\* While pretix answers every request, the reports leave no date and no missing quota out.
THEOREM ReportIsCompleteHolds == Spec => []ReportIsComplete
<1>1. SInv => ReportIsComplete
  <2> SUFFICES ASSUME SInv, ~lost PROVE ReportIsComplete
    BY DEF ReportIsComplete
  <2>a. TypeOK /\ InStep /\ Fresh /\ Honest /\ Complete
    BY DEF SInv
  <2>s. Stands
    BY <2>a, Standing
  <2>1. \A d \in DateSet : dates[d] > 0 <=> d \in Reported
    BY <2>a, <2>s DEF Honest, Complete, Reported, CreatedDates, Stands
  <2>2. Reported \subseteq DateSet
    BY <2>a, <2>s DEF TypeOK, Reported, CreatedDates, Stands
  <2>3. ASSUME NEW i \in 1..Len(created), quotas[created[i].date] > 0 PROVE created[i].quota
    <3>1. created[i].date = todo[i] /\ i \in 1..Len(todo) /\ created[i].date \in DateSet
      BY <2>a, <2>s DEF InStep, Stands
    <3>2. created[i].date \notin known
      BY <2>a, <3>1 DEF Fresh
    <3>3. PICK m \in 1..Len(created) : created[m].date = created[i].date /\ created[m].quota
      BY <2>a, <2>3, <3>1, <3>2 DEF Complete
    <3>4. m = i
      BY <2>a, <3>1, <3>3, <2>s, Series DEF InStep, Stands
    <3>5. QED
      BY <3>3, <3>4
  <2>4. QED
    BY <2>a, <2>1, <2>2, <2>3 DEF ReportIsComplete, Honest
<1>2. QED
  BY BatchInvariant, <1>1, PTL

\* An agent that calls again for the dates it was not shown as created ends with every date of
\* the series, and with none of them twice.
THEOREM EveryDateOnceHolds == Spec => []EveryDateOnce
<1>1. SInv => EveryDateOnce
  <2> SUFFICES ASSUME SInv, phase = "ok", ~lost, policy = "missing", NEW d \in DateSet
               PROVE  dates[d] = 1
    BY DEF EveryDateOnce
  <2>a. TypeOK /\ InStep /\ Honest /\ Complete /\ NoneLeftBehind
    BY DEF SInv
  <2>s. Stands
    BY <2>a, Standing
  <2>1. PICK j \in 1..N : Dates[j] = d
    BY Series
  <2>2. Place = N /\ Len(created) = at
    <3>1. at = Len(todo) /\ Len(created) = at
      BY <2>a DEF InStep
    <3>2. QED
      BY <2>s, <3>1 DEF Stands
  <2>3. d \in Reported
    <3>1. CASE j < N
      BY <2>a, <2>1, <2>2, <3>1 DEF NoneLeftBehind
    <3>2. CASE j = N
      <4>1. d = Start /\ Start = todo[at] /\ at \in 1..Len(created)
        BY <2>s, <2>1, <2>2, <3>2 DEF Stands
      <4>2. created[at].date = d /\ created[at].named
        BY <2>a, <4>1 DEF InStep
      <4>3. QED
        BY <4>1, <4>2 DEF Reported, CreatedDates
    <3>3. QED
      BY <2>1, <3>1, <3>2, Series
  <2>4. dates[d] > 0
    BY <2>a, <2>3 DEF Honest, Reported, CreatedDates
  <2>5. QED
    BY <2>a, <2>4 DEF Complete, TypeOK
<1>2. QED
  BY BatchInvariant, <1>1, PTL
=============================================================================
