---------------------------- MODULE ReportsProofs ----------------------------
(***************************************************************************)
(* What the tools tell is what they read, and what they read is what the   *)
(* rows held: the listing as paginate read it, with each row as it was     *)
(* when its page was served, and the figures the tools make of that.       *)
(***************************************************************************)
EXTENDS Reports, PaginateProofs, FoldLemmas

\* What the rows of the listing may hold.
States == [1..MaxRows -> ObjectsOf(tool)]

\* The answer is what the tool makes of what it has read, and stays so.
AnswerMade == answer # None => answer = Made

\* Of each row collected the scan has what it held at one moment.
Faithful ==
  /\ past \in Seq(States) /\ Len(past) \in 1..MaxEdits + 1 /\ object = past[Len(past)]
  /\ copies \in Seq(ObjectsOf(tool)) /\ Len(copies) = Len(collected)
  /\ \A i \in 1..Len(copies) : \E m \in 1..Len(past) : copies[i] = past[m][collected[i]]

\* What every step of a tool keeps.
RInv == PInv /\ ReportsTypeOK /\ Faithful /\ AnswerMade

-----------------------------------------------------------------------------

\* What the rows hold at first, and what an edit leaves behind, are objects.
LEMMA Held ==
  \A t \in DOMAIN Populations :
    Populations[t] \subseteq [1..MaxRows -> ObjectsOf(t)] /\ Edited[t] \subseteq ObjectsOf(t)
<1> SUFFICES ASSUME NEW t \in DOMAIN Populations
             PROVE  /\ Populations[t] \subseteq [1..MaxRows -> ObjectsOf(t)]
                    /\ Edited[t] \subseteq ObjectsOf(t)
  OBVIOUS
<1>1. Edited[t] \subseteq ObjectsOf(t) /\ \A p \in Populations[t] : ToSet(p) \subseteq ObjectsOf(t)
  BY DEF ObjectsOf
<1>2. \A p \in Populations[t] : p \in [1..MaxRows -> ToSet(p)]
  BY ReportsAssumption
<1>3. QED
  BY <1>1, <1>2

\* Nothing is copied yet.
LEMMA ReportsBegin == ReportsInit => RInv
<1> SUFFICES ASSUME ReportsInit PROVE RInv
  OBVIOUS
<1>1. PInv /\ TypeOK /\ Len(collected) = 0
  BY ScanInit DEF ReportsInit, PInv, Init
<1>2. object \in States
  BY Held DEF ReportsInit, States
<1>3. past \in Seq(States) /\ Len(past) = 1 /\ past[1] = object
  BY <1>2 DEF ReportsInit
<1>4. MaxEdits \in Nat
  BY ReportsAssumption
<1>5. Faithful
  BY <1>1, <1>2, <1>3, <1>4, EmptySeq DEF ReportsInit, Faithful
<1>6. ReportsTypeOK
  BY <1>1, <1>2, <1>3, <1>4, <1>5 DEF ReportsInit, ReportsTypeOK, Faithful, States, Last
<1>7. QED
  BY <1>1, <1>5, <1>6 DEF RInv, AnswerMade, ReportsInit

\* The moments of the copies stay, whatever else the step does.
LEMMA TypesFollow ==
  ASSUME TypeOK', Faithful', tool' \in DOMAIN Populations, answer' # None => state' \in Ended
  PROVE  ReportsTypeOK'
<1>1. /\ DOMAIN past' = 1..Len(past') /\ DOMAIN copies' = 1..Len(copies')
      /\ \A m \in 1..Len(past') : past'[m] \in States'
  BY LenProperties, ElementOfSeq DEF Faithful
<1>2. object' \in States'
  BY <1>1, ReportsAssumption DEF Faithful
<1>3. QED
  BY <1>1, <1>2 DEF Faithful, ReportsTypeOK, States, Last

\* The answer stays what it should be while nothing it is made of changes.
LEMMA MadeStays ==
  ASSUME AnswerMade, answer' = answer,
         answer # None => tool' = tool /\ copies' = copies /\ total' = total /\ cap' = cap
                          /\ state' = state
  PROVE  AnswerMade'
<1>1. CASE answer = None
  BY <1>1 DEF AnswerMade
<1>2. CASE answer # None
  <2>1. Made' = Made
    BY <1>2 DEF Made, sales_summary, search_orders, list_checkins, list_events, get_availability,
                _go_live_readiness, listed
  <2>2. QED
    BY <1>2, <2>1 DEF AnswerMade
<1>3. QED
  BY <1>1, <1>2

\* A page is kept with what its rows hold now.
LEMMA ReadingKeeps == RInv /\ Reading => RInv'
<1> SUFFICES ASSUME RInv, Reading PROVE RInv'
  OBVIOUS
<1>a. PInv /\ TypeOK /\ Sized /\ Faithful /\ ReportsTypeOK
  BY Sizes DEF RInv, PInv
<1>b. /\ Exists /\ Collect /\ cap' = cap
      /\ copies' = FirstOf(copies \o [i \in 1..Len(Page) |-> object[Page[i]]], cap)
      /\ tool' = tool /\ object' = object /\ past' = past /\ answer' = answer
  BY DEF Reading, LastPage, StopsAtCap, NextPage, Collects
<1>1. PInv' /\ TypeOK'
  BY <1>a, LastPageKeeps, StopsAtCapKeeps, NextPageKeeps DEF Reading, PInv
<1>2. /\ Page \in Seq(1..MaxRows) /\ Len(Page) \in Nat
      /\ \A i \in 1..Len(Page) : Page[i] = rows[Base + i] /\ Page[i] \in 1..MaxRows
  BY <1>a, <1>b, PageHolds DEF Sized
<1> DEFINE seen == [i \in 1..Len(Page) |-> object[Page[i]]]
<1>3. object \in States
  BY <1>a DEF ReportsTypeOK, States
<1>4. /\ seen \in Seq(ObjectsOf(tool)) /\ Len(seen) = Len(Page)
      /\ \A i \in 1..Len(Page) : seen[i] = object[Page[i]]
  BY <1>2, <1>3 DEF States
<1> HIDE DEF seen
<1>5. /\ copies \o seen \in Seq(ObjectsOf(tool)) /\ Len(copies \o seen) = Len(collected) + Len(Page)
      /\ \A k \in 1..Len(collected) + Len(Page) :
           (copies \o seen)[k] = IF k <= Len(collected) THEN copies[k] ELSE seen[k - Len(collected)]
  <2>1. copies \in Seq(ObjectsOf(tool)) /\ seen \in Seq(ObjectsOf(tool))
    BY <1>a, <1>4 DEF Faithful
  <2>2. Len(copies) = Len(collected) /\ Len(seen) = Len(Page)
    BY <1>a, <1>4 DEF Faithful
  <2>3. /\ copies \o seen \in Seq(ObjectsOf(tool)) /\ Len(copies \o seen) = Len(copies) + Len(seen)
        /\ \A k \in 1..Len(copies) + Len(seen) :
             (copies \o seen)[k] = IF k <= Len(copies) THEN copies[k] ELSE seen[k - Len(copies)]
    BY <2>1, ConcatProperties
  <2>4. QED
    BY <2>2, <2>3
<1>6. /\ copies' \in Seq(ObjectsOf(tool)) /\ Len(copies') = MinOf(cap, Len(collected) + Len(Page))
      /\ \A k \in 1..MinOf(cap, Len(collected) + Len(Page)) : copies'[k] = (copies \o seen)[k]
  <2>1. copies' = FirstOf(copies \o seen, cap)
    BY <1>b DEF seen
  <2>2. cap \in Nat
    BY <1>a DEF Sized
  <2>3. QED
    BY <1>5, <2>1, <2>2, FirstPlaces
<1>7. /\ Len(collected') = MinOf(cap, Len(collected) + Len(Page))
      /\ \A k \in 1..Len(collected') :
           IF k <= Len(collected) THEN collected'[k] = collected[k]
           ELSE /\ k - Len(collected) \in 1..Len(Page)
                /\ collected'[k] = rows[Base + (k - Len(collected))]
  BY <1>a, <1>b, ReadsPage
<1>8. ASSUME NEW k \in 1..Len(copies')
      PROVE  \E m \in 1..Len(past) : copies'[k] = past[m][collected'[k]]
  <2>1. k \in 1..Len(collected') /\ k \in 1..Len(collected) + Len(Page)
    BY <1>a, <1>2, <1>6, <1>7 DEF MinOf, Sized
  <2>2. CASE k <= Len(collected)
    <3>1. copies'[k] = copies[k] /\ collected'[k] = collected[k] /\ k \in 1..Len(copies)
      BY <1>a, <1>5, <1>6, <1>7, <2>1, <2>2 DEF Faithful, Sized
    <3>2. QED
      BY <1>a, <3>1 DEF Faithful
  <2>3. CASE ~(k <= Len(collected))
    <3>1. /\ k - Len(collected) \in 1..Len(Page)
          /\ copies'[k] = seen[k - Len(collected)]
          /\ collected'[k] = rows[Base + (k - Len(collected))]
      BY <1>5, <1>6, <1>7, <2>1, <2>3
    <3>2. copies'[k] = object[collected'[k]]
      BY <1>2, <1>4, <3>1
    <3>3. QED
      BY <1>a, <3>2 DEF Faithful
  <2>4. QED
    BY <2>2, <2>3
<1>9. Faithful'
  BY <1>a, <1>b, <1>6, <1>7, <1>8 DEF Faithful, States
<1>10. ReportsTypeOK'
  <2>1. state # "scanning" => FALSE
    BY DEF Reading, LastPage, StopsAtCap, NextPage
  <2>2. answer = None
    BY <1>a, <2>1 DEF ReportsTypeOK, Ended
  <2>3. QED
    BY <1>a, <1>b, <1>1, <1>9, <2>2, TypesFollow DEF ReportsTypeOK
<1>11. AnswerMade'
  <2>1. answer' = None
    BY <1>a, <1>b DEF Reading, LastPage, StopsAtCap, NextPage, ReportsTypeOK, Ended
  <2>2. QED
    BY <2>1 DEF AnswerMade
<1>12. QED
  BY <1>1, <1>9, <1>10, <1>11 DEF RInv

\* What a row holds changes: a moment more.
LEMMA EditKeeps ==
  ASSUME RInv, NEW r \in ToSet(rows), NEW new \in Edited[tool], Edit(r, new) PROVE RInv'
<1>a. PInv /\ TypeOK /\ Sized /\ Faithful /\ ReportsTypeOK
  BY Sizes DEF RInv, PInv
<1>b. /\ object' = [object EXCEPT ![r] = new] /\ past' = Append(past, object')
      /\ Len(past) <= MaxEdits /\ UNCHANGED vars
      /\ tool' = tool /\ copies' = copies /\ answer' = answer
  BY DEF Edit
<1>1. PInv' /\ TypeOK'
  BY <1>a, <1>b, ScanStep DEF PInv
<1>2. r \in 1..MaxRows /\ new \in ObjectsOf(tool)
  <2>1. r \in 1..MaxRows
    BY <1>a, LenProperties DEF ToSet, Sized, TypeOK
  <2>2. QED
    BY <1>a, <2>1, Held DEF ReportsTypeOK
<1>3. object' \in States
  BY <1>a, <1>b, <1>2 DEF ReportsTypeOK, States
<1>4. /\ past' \in Seq(States) /\ Len(past') = Len(past) + 1 /\ Len(past) \in Nat
      /\ \A m \in 1..Len(past) : past'[m] = past[m]
      /\ past'[Len(past) + 1] = object'
  BY <1>a, <1>b, <1>3, AppendProperties, LenProperties DEF Faithful
<1>5. Faithful'
  <2>1. \A m \in 1..Len(past) : m \in 1..Len(past')
    BY <1>4
  <2>2. collected' = collected
    BY <1>b DEF vars, scan
  <2>3. Len(past') \in 1..MaxEdits + 1
    BY <1>b, <1>4, ReportsAssumption
  <2>4. object' = past'[Len(past')]
    BY <1>4
  <2>5. copies' \in Seq(ObjectsOf(tool)) /\ Len(copies') = Len(collected')
    BY <1>a, <1>b, <2>2 DEF Faithful
  <2>6. ASSUME NEW i \in 1..Len(copies')
        PROVE  \E m \in 1..Len(past') : copies'[i] = past'[m][collected'[i]]
    <3>1. PICK m \in 1..Len(past) : copies[i] = past[m][collected[i]]
      BY <1>a, <1>b DEF Faithful
    <3>2. QED
      BY <1>b, <1>4, <2>1, <2>2, <3>1
  <2>7. QED
    BY <1>b, <1>4, <2>3, <2>4, <2>5, <2>6 DEF Faithful, States
<1>6. state' \in Ended \/ answer' = None
  BY <1>a, <1>b DEF ReportsTypeOK, vars, scan
<1>7. AnswerMade'
  BY <1>b, MadeStays DEF RInv, vars, scan
<1>8. QED
  BY <1>a, <1>b, <1>1, <1>5, <1>6, <1>7, TypesFollow DEF RInv, ReportsTypeOK

\* What happens to the listing, a request that fails and the answer leave the copies alone.
LEMMA OtherKeeps ==
  RInv /\ (Elsewhere \/ LaterRequestFails \/ Answers \/ UNCHANGED reportsVars) => RInv'
<1> SUFFICES ASSUME RInv, Elsewhere \/ LaterRequestFails \/ Answers \/ UNCHANGED reportsVars
             PROVE  RInv'
  OBVIOUS
<1>a. PInv /\ TypeOK /\ Faithful /\ ReportsTypeOK
  BY DEF RInv, PInv
<1>b. /\ tool' = tool /\ object' = object /\ past' = past /\ copies' = copies
      /\ collected' = collected
  BY DEF Elsewhere, Create, Delete, PageGone, NoPage, LaterRequestFails, Answers, reportsVars, vars, scan
<1>1. PInv'
  <2>1. CASE Elsewhere \/ Answers \/ UNCHANGED reportsVars
    BY <1>a, <2>1, ScanStep DEF Elsewhere, Answers, reportsVars, Next, Scan
  <2>2. CASE LaterRequestFails
    BY <1>a, <2>2
       DEF LaterRequestFails, listing, PInv, TypeOK, Ended, RowsKnown, NoRepeat, NothingHidden,
           Quiet, GrowthHidesNothing, QuietIsExact, Returned, Distinct
  <2>3. QED
    BY <2>1, <2>2
<1>2. Faithful'
  BY <1>a, <1>b DEF Faithful, States
<1>3. answer' # None => state' \in Ended
  <2>1. CASE Elsewhere
    BY <1>a, <2>1 DEF Elsewhere, Create, Delete, PageGone, NoPage, scan, ReportsTypeOK, Ended
  <2>2. CASE LaterRequestFails
    BY <2>2 DEF LaterRequestFails, Ended
  <2>3. CASE Answers
    BY <2>3 DEF Answers, vars, scan, Returned, Ended
  <2>4. CASE UNCHANGED reportsVars
    BY <1>a, <2>4 DEF reportsVars, vars, scan, ReportsTypeOK
  <2>5. QED
    BY <2>1, <2>2, <2>3, <2>4
<1>4. AnswerMade'
  <2>1. CASE Elsewhere
    <3>1. state = "scanning"
      BY <2>1 DEF Elsewhere, Create, Delete, PageGone, NoPage
    <3>2. answer = None /\ answer' = answer
      BY <1>a, <2>1, <3>1 DEF Elsewhere, ReportsTypeOK, Ended
    <3>3. QED
      BY <3>2 DEF AnswerMade
  <2>2. CASE LaterRequestFails
    BY <2>2 DEF LaterRequestFails, AnswerMade
  <2>3. CASE Answers
    <3>1. Made' = Made
      BY <1>b, <2>3
         DEF Answers, vars, scan, Made, sales_summary, search_orders, list_checkins, list_events,
             get_availability, _go_live_readiness, listed
    <3>2. QED
      BY <2>3, <3>1 DEF Answers, AnswerMade
  <2>4. CASE UNCHANGED reportsVars
    BY <2>4, MadeStays DEF RInv, reportsVars, vars, scan
  <2>5. QED
    BY <2>1, <2>2, <2>3, <2>4
<1>5. QED
  BY <1>a, <1>b, <1>1, <1>2, <1>3, <1>4, TypesFollow DEF RInv, PInv, ReportsTypeOK

\* No step of a tool or of pretix breaks RInv.
LEMMA ReportsInvariant == ReportsSpec => []RInv
<1>1. RInv /\ [ReportsNext]_reportsVars => RInv'
  BY ReadingKeeps, EditKeeps, OtherKeeps DEF ReportsNext
<1>2. QED
  BY ReportsBegin, <1>1, PTL DEF ReportsSpec

-----------------------------------------------------------------------------

\* Each thing a tool reports of a row is what the row held at one moment of the scan, never a
\* mixture; and no tool answers before the scan has ended.
THEOREM ReportsTypeCorrect == ReportsSpec => []ReportsTypeOK
<1>1. RInv => ReportsTypeOK
  BY DEF RInv
<1>2. QED
  BY ReportsInvariant, <1>1, PTL

\* What is proved of paginate is true of it in every tool, whatever is edited meanwhile and
\* whatever request of the tool fails afterwards.
THEOREM ToolsReadExactly ==
  ReportsSpec => [](QuietIsExact /\ GrowthHidesNothing /\ RepeatsNeedInsertion)
<1>1. RInv => QuietIsExact /\ GrowthHidesNothing /\ RepeatsNeedInsertion
  BY NoneTwice DEF RInv, PInv
<1>2. QED
  BY ReportsInvariant, <1>1, PTL

\* Of a listing that stood still, and that the cap did not cut, a tool has every row once, in
\* order, as it is: what it makes its figures from is exact.
InputIsExact ==
  Returned /\ changes = {} /\ Len(past) = 1 /\ Len(rows) <= cap =>
    /\ Len(copies) = Len(rows)
    /\ \A i \in 1..Len(rows) : copies[i] = object[rows[i]]

\* sales_summary and the others make their answers from exactly what a quiet listing holds.
THEOREM InputIsExactHolds == ReportsSpec => []InputIsExact
<1>1. RInv => InputIsExact
  <2> SUFFICES ASSUME RInv, Returned, changes = {}, Len(past) = 1, Len(rows) <= cap
               PROVE  Len(copies) = Len(rows) /\ \A i \in 1..Len(rows) : copies[i] = object[rows[i]]
    BY DEF InputIsExact
  <2>a. TypeOK /\ Sized /\ Faithful /\ collected = FirstOf(rows, cap)
    BY Sizes DEF RInv, PInv, QuietIsExact
  <2>1. /\ Len(collected) = MinOf(cap, Len(rows))
        /\ \A i \in 1..MinOf(cap, Len(rows)) : collected[i] = rows[i]
    BY <2>a, FirstPlaces DEF TypeOK, Sized
  <2>2. MinOf(cap, Len(rows)) = Len(rows)
    BY <2>a DEF MinOf, Sized
  <2>3. QED
    BY <2>a, <2>1, <2>2 DEF Faithful
<1>2. QED
  BY ReportsInvariant, <1>1, PTL

\* Of a scan that repeats no row, a tool has each row as it was at one moment: there is one
\* listing, of rows that each held this at some time during the scan, that it was given.
InputInOneState ==
  Distinct(collected) =>
    \E moment \in [Read -> DOMAIN past] :
      \A i \in 1..Len(copies) : copies[i] = past[moment[collected[i]]][collected[i]]

\* Edits between the pages mix moments, never the parts of a row.
THEOREM InputInOneStateHolds == ReportsSpec => []InputInOneState
<1>1. RInv => InputInOneState
  <2> SUFFICES ASSUME RInv, Distinct(collected)
               PROVE  \E moment \in [Read -> DOMAIN past] :
                        \A i \in 1..Len(copies) :
                          copies[i] = past[moment[collected[i]]][collected[i]]
    BY DEF InputInOneState
  <2>1. Faithful /\ collected \in Seq(1..MaxRows)
    BY DEF RInv, PInv, TypeOK
  <2>2. /\ DOMAIN collected = 1..Len(copies) /\ Read = {collected[i] : i \in 1..Len(copies)}
        /\ DOMAIN past = 1..Len(past)
    BY <2>1, LenProperties DEF Faithful, Read, ToSet
  <2> DEFINE place(r) == CHOOSE i \in 1..Len(copies) : collected[i] = r
             moment == [r \in Read |->
                         CHOOSE m \in 1..Len(past) : copies[place(r)] = past[m][r]]
  <2>3. ASSUME NEW i \in 1..Len(copies) PROVE place(collected[i]) = i
    <3>1. place(collected[i]) \in 1..Len(copies) /\ collected[place(collected[i])] = collected[i]
      OBVIOUS
    <3>2. QED
      BY <2>2, <3>1 DEF Distinct
  <2>4. ASSUME NEW i \in 1..Len(copies)
        PROVE  /\ moment[collected[i]] \in 1..Len(past)
               /\ copies[i] = past[moment[collected[i]]][collected[i]]
    <3>1. collected[i] \in Read /\ place(collected[i]) = i
      BY <2>2, <2>3
    <3>2. \E m \in 1..Len(past) : copies[i] = past[m][collected[i]]
      BY <2>1 DEF Faithful
    <3> HIDE DEF place
    <3>3. moment[collected[i]] = CHOOSE m \in 1..Len(past) : copies[i] = past[m][collected[i]]
      BY <3>1
    <3>4. QED
      BY <3>2, <3>3
  <2> HIDE DEF place
  <2>5. moment \in [Read -> DOMAIN past]
    <3>1. \A r \in Read : moment[r] \in 1..Len(past)
      BY <2>2, <2>4
    <3>2. QED
      BY <2>2, <3>1
  <2>6. QED
    BY <2>4, <2>5
<1>2. QED
  BY ReportsInvariant, <1>1, PTL

-----------------------------------------------------------------------------
(* The loops of the tools                                                  *)

\* One element of a list that is filtered.
Keeps(T, X) == [p \in X \X Seq(X) |-> IF p[1] \in T THEN Append(p[2], p[1]) ELSE p[2]]

\* it is what Only has kept of each part of s.
Filters(it, s, T) ==
  /\ it[{}] = <<>>
  /\ \A D \in SUBSET DOMAIN s : D # {} =>
       it[D] = IF s[Max(D)] \in T THEN Append(it[D \ {Max(D)}], s[Max(D)]) ELSE it[D \ {Max(D)}]

\* Only takes the elements one by one.
LEMMA OnlyFilters ==
  ASSUME NEW X, NEW s \in Seq(X), NEW T
  PROVE  \E it : Filters(it, s, T) /\ Only(s, T) = it[DOMAIN s]
<1> DEFINE Fold(it) == it = [D \in SUBSET DOMAIN s |->
             IF D = {} THEN <<>> ELSE IF s[Max(D)] \in T THEN Append(it[D \ {Max(D)}], s[Max(D)])
                                      ELSE it[D \ {Max(D)}]]
           iter == CHOOSE it : Fold(it)
           h == Keeps(T, X)
<1>1. Only(s, T) = iter[DOMAIN s]
  BY DEF Only, FoldLeft, MapThenFoldSet
<1>2. \A x \in X, t \in Seq(X) : h[<<x, t>>] = IF x \in T THEN Append(t, x) ELSE t
  BY DEF Keeps
<1>3. <<>> \in Seq(X) /\ Steps(h, X, Seq(X))
  <2>1. ASSUME NEW x \in X, NEW t \in Seq(X) PROVE h[<<x, t>>] \in Seq(X)
    <3>1. Append(t, x) \in Seq(X)
      BY AppendProperties
    <3> HIDE DEF h
    <3>2. QED
      BY <1>2, <3>1
  <2>2. QED
    BY <2>1, EmptySeq DEF Steps
<1> HIDE DEF h
<1>4. PICK it \in [SUBSET DOMAIN s -> Seq(X)] : FoldsLeft(it, s, h, <<>>)
  BY <1>3, LeftIterates
<1>5. ASSUME NEW D \in SUBSET DOMAIN s
      PROVE  it[D] = IF D = {} THEN <<>> ELSE IF s[Max(D)] \in T
                     THEN Append(it[D \ {Max(D)}], s[Max(D)]) ELSE it[D \ {Max(D)}]
  <2>1. CASE D # {}
    <3>1. s[Max(D)] \in X /\ it[D \ {Max(D)}] \in Seq(X)
      BY <2>1, Rests
    <3>2. it[D] = h[<<s[Max(D)], it[D \ {Max(D)}]>>]
      BY <1>4, <2>1 DEF FoldsLeft
    <3>3. QED
      BY <1>2, <2>1, <3>1, <3>2
  <2>2. QED
    BY <1>4, <2>1 DEF FoldsLeft
<1>6. Fold(it)
  BY <1>5
<1>7. Fold(iter)
  BY <1>6
<1>8. Filters(iter, s, T)
  <2> HIDE DEF iter
  <2>1. QED
    BY <1>7 DEF Filters
<1>9. QED
  BY <1>1, <1>8

\* The sum of the refunds is any figure that starts and grows as it does.
LEMMA RefundsFold ==
  ASSUME NEW X, NEW s \in Seq(X), NEW g, NEW base, g[{}] = base,
         \A D \in SUBSET DOMAIN s : D # {} => g[D] = AddRefund(g[D \ {Max(D)}], s[Max(D)])
  PROVE  FoldLeft(AddRefund, base, s) = g[DOMAIN s]
<1> DEFINE Fold(it) == it = [D \in SUBSET DOMAIN s |->
             IF D = {} THEN base ELSE AddRefund(it[D \ {Max(D)}], s[Max(D)])]
           iter == CHOOSE it : Fold(it)
           G == {D \in SUBSET DOMAIN s : iter[D] = g[D]}
<1>1. FoldLeft(AddRefund, base, s) = iter[DOMAIN s]
  BY DEF FoldLeft, MapThenFoldSet
<1>2. \A D \in SUBSET DOMAIN s : D # {} => D \ {Max(D)} \in SUBSET DOMAIN s
  OBVIOUS
<1>3. Fold([D \in SUBSET DOMAIN s |-> g[D]])
  BY <1>2
<1>4. Fold(iter)
  BY <1>3
<1> HIDE DEF iter
<1>5. SUBSET DOMAIN s \subseteq G
  <2>1. {} \in G
    BY <1>4
  <2>2. ASSUME NEW D \in SUBSET DOMAIN s, D # {}, D \ {Max(D)} \in G PROVE D \in G
    BY <1>4, <2>2
  <2> HIDE DEF G
  <2>3. QED
    BY <2>1, <2>2, Parts
<1>6. QED
  BY <1>1, <1>5

\* So are the tickets of an order, added to what was counted before,
LEMMA PositionsFold ==
  ASSUME NEW X, NEW s \in Seq(X), NEW g, NEW base, g[{}] = base,
         \A D \in SUBSET DOMAIN s : D # {} => g[D] = AddPosition(g[D \ {Max(D)}], s[Max(D)])
  PROVE  FoldLeft(AddPosition, base, s) = g[DOMAIN s]
<1> DEFINE Fold(it) == it = [D \in SUBSET DOMAIN s |->
             IF D = {} THEN base ELSE AddPosition(it[D \ {Max(D)}], s[Max(D)])]
           iter == CHOOSE it : Fold(it)
           G == {D \in SUBSET DOMAIN s : iter[D] = g[D]}
<1>1. FoldLeft(AddPosition, base, s) = iter[DOMAIN s]
  BY DEF FoldLeft, MapThenFoldSet
<1>2. \A D \in SUBSET DOMAIN s : D # {} => D \ {Max(D)} \in SUBSET DOMAIN s
  OBVIOUS
<1>3. Fold([D \in SUBSET DOMAIN s |-> g[D]])
  BY <1>2
<1>4. Fold(iter)
  BY <1>3
<1> HIDE DEF iter
<1>5. SUBSET DOMAIN s \subseteq G
  <2>1. {} \in G
    BY <1>4
  <2>2. ASSUME NEW D \in SUBSET DOMAIN s, D # {}, D \ {Max(D)} \in G PROVE D \in G
    BY <1>4, <2>2
  <2> HIDE DEF G
  <2>3. QED
    BY <2>1, <2>2, Parts
<1>6. QED
  BY <1>1, <1>5

\* and the figures of all orders.
LEMMA OrdersFold ==
  ASSUME NEW X, NEW s \in Seq(X), NEW g, NEW base, g[{}] = base,
         \A D \in SUBSET DOMAIN s : D # {} => g[D] = AddOrder(g[D \ {Max(D)}], s[Max(D)])
  PROVE  FoldLeft(AddOrder, base, s) = g[DOMAIN s]
<1> DEFINE Fold(it) == it = [D \in SUBSET DOMAIN s |->
             IF D = {} THEN base ELSE AddOrder(it[D \ {Max(D)}], s[Max(D)])]
           iter == CHOOSE it : Fold(it)
           G == {D \in SUBSET DOMAIN s : iter[D] = g[D]}
<1>1. FoldLeft(AddOrder, base, s) = iter[DOMAIN s]
  BY DEF FoldLeft, MapThenFoldSet
<1>2. \A D \in SUBSET DOMAIN s : D # {} => D \ {Max(D)} \in SUBSET DOMAIN s
  OBVIOUS
<1>3. Fold([D \in SUBSET DOMAIN s |-> g[D]])
  BY <1>2
<1>4. Fold(iter)
  BY <1>3
<1> HIDE DEF iter
<1>5. SUBSET DOMAIN s \subseteq G
  <2>1. {} \in G
    BY <1>4
  <2>2. ASSUME NEW D \in SUBSET DOMAIN s, D # {}, D \ {Max(D)} \in G PROVE D \in G
    BY <1>4, <2>2
  <2> HIDE DEF G
  <2>3. QED
    BY <2>1, <2>2, Parts
<1>6. QED
  BY <1>1, <1>5

\* Every amount is worth a number.
LEMMA Worth == ASSUME NEW a, Amount(a) PROVE _money(a) \in Int
BY DEF Amount, _money

\* The places of q that are in D and whose refund is done.
DoneAt(q, D) == {i \in D : q[i].state = "done"}

\* A is F and the refunds q of the order r that are done, none of them in F; w is what each
\* is worth.
NewRefunds(F, r, q, A, w) ==
  /\ IsFiniteSet(F) /\ \A i : <<r, i>> \notin F
  /\ A = F \cup {r} \X DoneAt(q, DOMAIN q) /\ w \in [A -> Int]
  /\ \A i \in DoneAt(q, DOMAIN q) : w[<<r, i>>] = _money(q[i].amount)

\* The refunds of an order are added to the others: each that is done, once.
LEMMA RefundsAdd ==
  ASSUME NEW X, NEW q \in Seq(X), NEW F, NEW r, NEW A, NEW w, NewRefunds(F, r, q, A, w)
  PROVE  FoldLeft(AddRefund, SumFunction([t \in F |-> w[t]]), q) = SumFunction([t \in A |-> w[t]])
<1>a. /\ IsFiniteSet(F) /\ \A i : <<r, i>> \notin F
      /\ A = F \cup {r} \X DoneAt(q, DOMAIN q) /\ w \in [A -> Int]
      /\ \A i \in DoneAt(q, DOMAIN q) : w[<<r, i>>] = _money(q[i].amount)
  BY DEF NewRefunds
<1> DEFINE With(D) == F \cup {r} \X DoneAt(q, D)
           g == [D \in SUBSET DOMAIN q |-> SumFunction([t \in With(D) |-> w[t]])]
<1>1. g[{}] = SumFunction([t \in F |-> w[t]])
  <2>1. With({}) = F
    BY DEF DoneAt
  <2>2. QED
    BY <2>1
<1>2. ASSUME NEW D \in SUBSET DOMAIN q, D # {}
      PROVE  g[D] = AddRefund(g[D \ {Max(D)}], q[Max(D)])
  <2> DEFINE m == Max(D)
             Rest == D \ {m}
  <2>1. m \in D /\ Rest \in SUBSET DOMAIN q
    BY <1>2, Rests
  <2> HIDE DEF m
  <2>2. CASE q[m].state = "done"
    <3>1. With(D) = With(Rest) \cup {<<r, m>>} /\ <<r, m>> \notin With(Rest)
      BY <1>a, <2>1, <2>2 DEF DoneAt
    <3>2. With(Rest) \cup {<<r, m>>} \subseteq A /\ m \in DoneAt(q, DOMAIN q)
      BY <1>a, <2>1, <2>2 DEF DoneAt
    <3>3. IsFiniteSet(With(Rest))
      <4>1. Len(q) \in Nat /\ DOMAIN q = 1..Len(q)
        BY LenProperties
      <4>2. IsFiniteSet(DoneAt(q, Rest))
        <5>1. IsFiniteSet(1..Len(q))
          BY <4>1, FS_Interval
        <5>2. DoneAt(q, Rest) \in SUBSET (1..Len(q))
          BY <2>1, <4>1 DEF DoneAt
        <5>3. QED
          BY <5>1, <5>2, FS_Subset
      <4>3. IsFiniteSet({r} \X DoneAt(q, Rest))
        BY <4>2, FS_Singleton, FS_Product
      <4>4. QED
        BY <1>a, <4>3, FS_Union
    <3> HIDE DEF With
    <3>4. SumFunction([t \in With(Rest) \cup {<<r, m>>} |-> w[t]])
            = SumFunction([t \in With(Rest) |-> w[t]]) + w[<<r, m>>]
      BY <1>a, <3>1, <3>2, <3>3, SumGrows
    <3>5. QED
      BY <1>a, <2>1, <2>2, <3>1, <3>2, <3>4 DEF AddRefund, m
  <2>3. CASE q[m].state # "done"
    <3>1. With(D) = With(Rest)
      BY <2>1, <2>3 DEF DoneAt
    <3>2. QED
      BY <2>1, <2>3, <3>1 DEF AddRefund, m
  <2>4. QED
    BY <2>2, <2>3
<1> HIDE DEF g
<1>3. FoldLeft(AddRefund, SumFunction([t \in F |-> w[t]]), q) = g[DOMAIN q]
  BY <1>1, <1>2, RefundsFold
<1>4. QED
  BY <1>a, <1>3 DEF g

-----------------------------------------------------------------------------
(* sales_summary: the loop comes to what Sales says of the rows.             *)

\* The places of q that are in D and whose position is not canceled.
LiveAt(q, D) == {i \in D : ~q[i].canceled}

\* What is counted of the tickets in K that are for p.
BucketOf(price, key, K, p) ==
  [tickets |-> Cardinality({t \in K : key[t] = p}),
   revenue |-> SumFunction([t \in {t \in K : key[t] = p} |-> price[t]])]

\* The same for every product, or every date.
Buckets(price, key, K) == [p \in Products |-> BucketOf(price, key, K, p)]

\* The figures when the tickets in K are counted.
Figures(orders, revenue, refunded, price, item, sub, K) ==
  [orders |-> orders, revenue |-> revenue, refunded |-> refunded, tickets |-> Cardinality(K),
   by_item |-> Buckets(price, item, K), by_subevent |-> Buckets(price, sub, K)]

\* More is K and t, all of it in A.
OneMore(K, t, More, A) == IsFiniteSet(K) /\ t \notin K /\ More = K \cup {t} /\ More \subseteq A

\* One ticket more goes into its bucket, and into no other.
LEMMA BucketsGrow ==
  ASSUME NEW K, NEW t, NEW More, NEW A, OneMore(K, t, More, A),
         NEW price \in [A -> Int], NEW key \in [A -> Products]
  PROVE  Buckets(price, key, More) = InBucket(Buckets(price, key, K), key[t], price[t])
<1>a. IsFiniteSet(K) /\ t \notin K /\ More = K \cup {t} /\ More \subseteq A
  BY DEF OneMore
<1> DEFINE Old(p) == {u \in K : key[u] = p}
           New(p) == {u \in More : key[u] = p}
<1>1. key[t] \in Products /\ price[t] \in Int
  BY <1>a
<1>2. ASSUME NEW p \in Products, p # key[t]
      PROVE  BucketOf(price, key, More, p) = BucketOf(price, key, K, p)
  <2>1. New(p) = Old(p)
    BY <1>a, <1>2
  <2> HIDE DEF New, Old
  <2>2. QED
    BY <2>1 DEF BucketOf, New, Old
<1>3. LET p == key[t]
          B == BucketOf(price, key, K, p)
      IN  BucketOf(price, key, More, p)
            = [tickets |-> B.tickets + 1, revenue |-> B.revenue + price[t]]
  <2> DEFINE p == key[t]
  <2>1. New(p) = Old(p) \cup {t} /\ t \notin Old(p) /\ Old(p) \cup {t} \subseteq A
    BY <1>a
  <2>2. IsFiniteSet(Old(p))
    BY <1>a, FS_Subset
  <2> HIDE DEF New, Old
  <2>3. Cardinality(New(p)) = Cardinality(Old(p)) + 1
    BY <2>1, <2>2, FS_AddElement
  <2>4. SumFunction([u \in New(p) |-> price[u]])
          = SumFunction([u \in Old(p) |-> price[u]]) + price[t]
    BY <2>1, <2>2, SumGrows
  <2>5. QED
    BY <2>3, <2>4 DEF BucketOf, New, Old
<1> DEFINE b == Buckets(price, key, K)
           c == Buckets(price, key, More)
<1>4. /\ \A p \in Products : /\ b[p] = BucketOf(price, key, K, p)
                              /\ c[p] = BucketOf(price, key, More, p)
      /\ b = [p \in Products |-> b[p]] /\ c = [p \in Products |-> c[p]]
  BY DEF Buckets
<1> HIDE DEF b, c
<1>5. c[key[t]] = [tickets |-> b[key[t]].tickets + 1, revenue |-> b[key[t]].revenue + price[t]]
  BY <1>1, <1>3, <1>4
<1>6. \A p \in Products : p # key[t] => c[p] = b[p]
  BY <1>2, <1>4
<1>7. c = [b EXCEPT ![key[t]] = [tickets |-> b[key[t]].tickets + 1,
                                 revenue |-> b[key[t]].revenue + price[t]]]
  BY <1>1, <1>4, <1>5, <1>6
<1>8. QED
  BY <1>7 DEF InBucket, b, c

\* One ticket more in the figures.
LEMMA TicketGrows ==
  ASSUME NEW orders, NEW revenue, NEW refunded,
         NEW K, NEW t, NEW More, NEW A, OneMore(K, t, More, A),
         NEW price \in [A -> Int], NEW item \in [A -> Products], NEW sub \in [A -> Products],
         NEW position, ~position.canceled,
         _money(position.price) = price[t], position.item = item[t], position.subevent = sub[t]
  PROVE  Figures(orders, revenue, refunded, price, item, sub, More)
           = AddPosition(Figures(orders, revenue, refunded, price, item, sub, K), position)
<1> DEFINE fig == Figures(orders, revenue, refunded, price, item, sub, K)
<1>1. Cardinality(More) = Cardinality(K) + 1
  BY FS_AddElement DEF OneMore
<1>2. Buckets(price, item, More) = InBucket(Buckets(price, item, K), item[t], price[t])
  BY BucketsGrow
<1>3. Buckets(price, sub, More) = InBucket(Buckets(price, sub, K), sub[t], price[t])
  BY BucketsGrow
<1> DEFINE n == Cardinality(K)
           i == Buckets(price, item, K)
           s == Buckets(price, sub, K)
<1>4. fig = [orders |-> orders, revenue |-> revenue, refunded |-> refunded, tickets |-> n,
             by_item |-> i, by_subevent |-> s]
  BY DEF Figures
<1> HIDE DEF fig, n, i, s
<1>5. AddPosition(fig, position)
        = [fig EXCEPT !.tickets = fig.tickets + 1,
                      !.by_item = InBucket(fig.by_item, item[t], price[t]),
                      !.by_subevent = InBucket(fig.by_subevent, sub[t], price[t])]
  BY DEF AddPosition
<1>6. AddPosition(fig, position)
        = [orders |-> orders, revenue |-> revenue, refunded |-> refunded, tickets |-> n + 1,
           by_item |-> InBucket(i, item[t], price[t]),
           by_subevent |-> InBucket(s, sub[t], price[t])]
  BY <1>4, <1>5
<1>7. QED
  BY <1>1, <1>2, <1>3, <1>6 DEF Figures, fig, n, i, s

\* A is K and the tickets among the positions q of the order r, none of them in K; price, item
\* and sub are what all those in P cost, what they are for and when.
NewTickets(K, r, q, A, P, price, item, sub) ==
  /\ IsFiniteSet(K) /\ \A i : <<r, i>> \notin K
  /\ A = K \cup {r} \X LiveAt(q, DOMAIN q) /\ A \subseteq P
  /\ price \in [P -> Int] /\ item \in [P -> Products] /\ sub \in [P -> Products]
  /\ \A i \in LiveAt(q, DOMAIN q) : /\ price[<<r, i>>] = _money(q[i].price)
                                    /\ item[<<r, i>>] = q[i].item
                                    /\ sub[<<r, i>>] = q[i].subevent

\* The tickets of an order are added to the others: each that is not canceled, once.
LEMMA TicketsAdd ==
  ASSUME NEW orders, NEW revenue, NEW refunded, NEW X, NEW q \in Seq(X),
         NEW K, NEW r, NEW A, NEW P, NEW price, NEW item, NEW sub,
         NewTickets(K, r, q, A, P, price, item, sub)
  PROVE  FoldLeft(AddPosition, Figures(orders, revenue, refunded, price, item, sub, K), q)
           = Figures(orders, revenue, refunded, price, item, sub, A)
<1>a. /\ IsFiniteSet(K) /\ \A i : <<r, i>> \notin K
      /\ A = K \cup {r} \X LiveAt(q, DOMAIN q) /\ A \subseteq P
      /\ price \in [P -> Int] /\ item \in [P -> Products] /\ sub \in [P -> Products]
      /\ \A i \in LiveAt(q, DOMAIN q) : /\ price[<<r, i>>] = _money(q[i].price)
                                        /\ item[<<r, i>>] = q[i].item
                                        /\ sub[<<r, i>>] = q[i].subevent
  BY DEF NewTickets
<1> DEFINE With(D) == K \cup {r} \X LiveAt(q, D)
           g == [D \in SUBSET DOMAIN q |->
                  Figures(orders, revenue, refunded, price, item, sub, With(D))]
<1>1. g[{}] = Figures(orders, revenue, refunded, price, item, sub, K)
  <2>1. With({}) = K
    BY DEF LiveAt
  <2>2. QED
    BY <2>1
<1>2. ASSUME NEW D \in SUBSET DOMAIN q, D # {}
      PROVE  g[D] = AddPosition(g[D \ {Max(D)}], q[Max(D)])
  <2> DEFINE m == Max(D)
             Rest == D \ {m}
  <2>1. m \in D /\ Rest \in SUBSET DOMAIN q
    BY <1>2, Rests
  <2> HIDE DEF m
  <2>2. CASE ~q[m].canceled
    <3>1. With(D) = With(Rest) \cup {<<r, m>>} /\ <<r, m>> \notin With(Rest)
      BY <1>a, <2>1, <2>2 DEF LiveAt
    <3>2. With(Rest) \cup {<<r, m>>} \subseteq P /\ m \in LiveAt(q, DOMAIN q)
      BY <1>a, <2>1, <2>2 DEF LiveAt
    <3>3. IsFiniteSet(With(Rest))
      <4>1. Len(q) \in Nat /\ DOMAIN q = 1..Len(q)
        BY LenProperties
      <4>2. IsFiniteSet(LiveAt(q, Rest))
        <5>1. IsFiniteSet(1..Len(q))
          BY <4>1, FS_Interval
        <5>2. LiveAt(q, Rest) \in SUBSET (1..Len(q))
          BY <2>1, <4>1 DEF LiveAt
        <5>3. QED
          BY <5>1, <5>2, FS_Subset
      <4>3. IsFiniteSet({r} \X LiveAt(q, Rest))
        BY <4>2, FS_Singleton, FS_Product
      <4>4. QED
        BY <1>a, <4>3, FS_Union
    <3>4. OneMore(With(Rest), <<r, m>>, With(D), P)
      BY <3>1, <3>2, <3>3 DEF OneMore
    <3>5. /\ _money(q[m].price) = price[<<r, m>>] /\ q[m].item = item[<<r, m>>]
          /\ q[m].subevent = sub[<<r, m>>]
      BY <1>a, <3>2
    <3> HIDE DEF With
    <3>6. Figures(orders, revenue, refunded, price, item, sub, With(D))
            = AddPosition(Figures(orders, revenue, refunded, price, item, sub, With(Rest)), q[m])
      BY <1>a, <2>2, <3>4, <3>5, TicketGrows
    <3>7. QED
      BY <2>1, <3>6 DEF m
  <2>3. CASE q[m].canceled
    <3>1. With(D) = With(Rest)
      BY <2>1, <2>3 DEF LiveAt
    <3>2. QED
      BY <2>1, <2>3, <3>1 DEF AddPosition, m
  <2>4. QED
    BY <2>2, <2>3
<1> HIDE DEF g
<1>3. FoldLeft(AddPosition, Figures(orders, revenue, refunded, price, item, sub, K), q)
        = g[DOMAIN q]
  BY <1>1, <1>2, PositionsFold
<1>4. QED
  BY <1>a, <1>3 DEF g

\* The tickets of the row r count; these are its tickets, and its refunds.
Sells(v, r) ==
  /\ v[r].status \in DOMAIN STATUS_NAMES
  /\ STATUS_NAMES[v[r].status] \in {"paid", "pending"}
TicketsOf(v, r) == {r} \X LiveAt(v[r].positions, DOMAIN v[r].positions)
RefundsOf(v, r) == {r} \X DoneAt(v[r].refunds, DOMAIN v[r].refunds)

\* The sets of Reports, row by row.
LEMMA RowByRow ==
  ASSUME NEW v, NEW R
  PROVE  /\ Tickets(v, R) = UNION {TicketsOf(v, r) : r \in {r \in R : Sells(v, r)}}
         /\ Refunds(v, R) = UNION {RefundsOf(v, r) : r \in Known(v, R)}
<1>1. In(v, R, "paid") \cup In(v, R, "pending") = {r \in R : Sells(v, r)}
  BY DEF In, Known, Sells
<1>2. QED
  BY <1>1 DEF Tickets, Refunds, TicketsOf, RefundsOf, LiveAt, DoneAt

\* More has one row more than R, of a status that is known: it is among those of its status,
\* with its refunds, and if it sells with its tickets.
Includes(v, R, r, More) ==
  LET name == STATUS_NAMES[v[r].status]
  IN /\ name \in Names /\ In(v, More, name) = In(v, R, name) \cup {r}
     /\ \A n \in Names : n # name => In(v, More, n) = In(v, R, n)
     /\ Refunds(v, More) = Refunds(v, R) \cup RefundsOf(v, r)
     /\ Sells(v, r) => Tickets(v, More) = Tickets(v, R) \cup TicketsOf(v, r)
     /\ ~Sells(v, r) => Tickets(v, More) = Tickets(v, R)

\* More has a row more, of a status that is not: nothing is new.
Ignores(v, R, More) ==
  /\ \A n \in Names : In(v, More, n) = In(v, R, n)
  /\ Refunds(v, More) = Refunds(v, R) /\ Tickets(v, More) = Tickets(v, R)

\* An order has a share in the figures if its status is known,
LEMMA KnownRow ==
  ASSUME NEW v, NEW R, NEW r, v[r].status \in DOMAIN STATUS_NAMES
  PROVE  Includes(v, R, r, R \cup {r})
<1> DEFINE More == R \cup {r}
           name == STATUS_NAMES[v[r].status]
<1>1. Known(v, More) = Known(v, R) \cup {r}
  BY DEF Known
<1>2. name \in Names
  BY DEF Names
<1>3. In(v, More, name) = In(v, R, name) \cup {r}
  BY <1>1 DEF In
<1>4. \A n \in Names : n # name => In(v, More, n) = In(v, R, n)
  BY <1>1 DEF In
<1>5. /\ Sells(v, r) => {x \in More : Sells(v, x)} = {x \in R : Sells(v, x)} \cup {r}
      /\ ~Sells(v, r) => {x \in More : Sells(v, x)} = {x \in R : Sells(v, x)}
  OBVIOUS
<1>6. /\ Refunds(v, R) = UNION {RefundsOf(v, x) : x \in Known(v, R)}
      /\ Refunds(v, More) = UNION {RefundsOf(v, x) : x \in Known(v, More)}
      /\ Tickets(v, R) = UNION {TicketsOf(v, x) : x \in {x \in R : Sells(v, x)}}
      /\ Tickets(v, More) = UNION {TicketsOf(v, x) : x \in {x \in More : Sells(v, x)}}
  BY RowByRow
<1> HIDE DEF More
<1>7. Refunds(v, More) = Refunds(v, R) \cup RefundsOf(v, r)
  BY <1>1, <1>6
<1>8. /\ Sells(v, r) => Tickets(v, More) = Tickets(v, R) \cup TicketsOf(v, r)
      /\ ~Sells(v, r) => Tickets(v, More) = Tickets(v, R)
  BY <1>5, <1>6
<1>9. QED
  BY <1>2, <1>3, <1>4, <1>7, <1>8 DEF Includes, More

\* and none if it is not.
LEMMA OddRow ==
  ASSUME NEW v, NEW R, NEW r, v[r].status \notin DOMAIN STATUS_NAMES
  PROVE  Ignores(v, R, R \cup {r})
<1> DEFINE More == R \cup {r}
<1>1. Known(v, More) = Known(v, R)
  BY DEF Known
<1>2. {x \in More : Sells(v, x)} = {x \in R : Sells(v, x)}
  BY DEF Sells
<1>3. /\ Refunds(v, R) = UNION {RefundsOf(v, x) : x \in Known(v, R)}
      /\ Refunds(v, More) = UNION {RefundsOf(v, x) : x \in Known(v, More)}
      /\ Tickets(v, R) = UNION {TicketsOf(v, x) : x \in {x \in R : Sells(v, x)}}
      /\ Tickets(v, More) = UNION {TicketsOf(v, x) : x \in {x \in More : Sells(v, x)}}
  BY RowByRow
<1> HIDE DEF More
<1>4. \A n \in Names : In(v, More, n) = In(v, R, n)
  BY <1>1 DEF In
<1>5. QED
  BY <1>1, <1>2, <1>3, <1>4 DEF Ignores, More

\* A row that is not in R has no ticket and no refund there.
LEMMA NewRow ==
  ASSUME NEW v, NEW R, NEW r, r \notin R
  PROVE  \A i : <<r, i>> \notin Tickets(v, R) /\ <<r, i>> \notin Refunds(v, R)
BY RowByRow DEF TicketsOf, RefundsOf, Known

\* What a finite set is mapped to is finite.
LEMMA FiniteUnion ==
  ASSUME NEW S, IsFiniteSet(S), NEW f, \A x \in S : IsFiniteSet(f[x])
  PROVE  IsFiniteSet(UNION {f[x] : x \in S})
<1> DEFINE T == {f[x] : x \in S}
           g == [x \in S |-> f[x]]
<1>1. g \in Surjection(S, T)
  BY DEF Surjection
<1>2. IsFiniteSet(T)
  BY <1>1, FS_Surjection
<1>3. QED
  BY <1>2, FS_UNION

\* Of finitely many orders the tickets and refunds are finitely many.
LEMMA FiniteFigures ==
  ASSUME NEW v, NEW R, IsFiniteSet(R), \A r \in R : AnOrder(v[r])
  PROVE  /\ IsFiniteSet(Tickets(v, R)) /\ IsFiniteSet(Refunds(v, R))
         /\ \A n \in Names : IsFiniteSet(In(v, R, n))
<1>1. ASSUME NEW r \in R PROVE IsFiniteSet(TicketsOf(v, r)) /\ IsFiniteSet(RefundsOf(v, r))
  <2> DEFINE p == v[r].positions
             q == v[r].refunds
  <2>1. /\ Len(p) \in Nat /\ DOMAIN p = 1..Len(p) /\ Len(q) \in Nat /\ DOMAIN q = 1..Len(q)
    BY LenProperties DEF AnOrder
  <2>2. IsFiniteSet(DOMAIN p) /\ IsFiniteSet(DOMAIN q)
    <3> HIDE DEF p, q
    <3>1. IsFiniteSet(1..Len(p)) /\ IsFiniteSet(1..Len(q))
      <4>1. 1 \in Int /\ Len(p) \in Int /\ Len(q) \in Int
        BY <2>1
      <4>2. QED
        BY <4>1, FS_Interval
    <3>2. QED
      BY <2>1, <3>1
  <2> HIDE DEF p, q
  <2>3. IsFiniteSet(LiveAt(p, DOMAIN p)) /\ IsFiniteSet(DoneAt(q, DOMAIN q))
    BY <2>2, FS_Subset DEF LiveAt, DoneAt
  <2>4. QED
    BY <2>3, FS_Singleton, FS_Product DEF TicketsOf, RefundsOf, p, q
<1>2. /\ IsFiniteSet({r \in R : Sells(v, r)}) /\ IsFiniteSet(Known(v, R))
      /\ \A n \in Names : IsFiniteSet(In(v, R, n))
  BY FS_Subset DEF Known, In
<1>3. IsFiniteSet(Tickets(v, R))
  <2> DEFINE S == {r \in R : Sells(v, r)}
             f == [r \in S |-> TicketsOf(v, r)]
  <2>1. /\ \A x \in S : IsFiniteSet(f[x])
        /\ Tickets(v, R) = UNION {f[x] : x \in S} /\ IsFiniteSet(S)
    BY <1>1, <1>2, RowByRow
  <2> HIDE DEF S, f
  <2>2. QED
    BY <2>1, FiniteUnion
<1>4. IsFiniteSet(Refunds(v, R))
  <2> DEFINE S == Known(v, R)
             f == [r \in S |-> RefundsOf(v, r)]
  <2>1. /\ \A x \in S : IsFiniteSet(f[x])
        /\ Refunds(v, R) = UNION {f[x] : x \in S} /\ IsFiniteSet(S)
    BY <1>1, <1>2, RowByRow DEF Known
  <2> HIDE DEF S, f
  <2>2. QED
    BY <2>1, FiniteUnion
<1>5. QED
  BY <1>2, <1>3, <1>4

\* The orders in R by status, what they come to, and what was paid back.
OrdersOf(v, R) == [n \in Names |-> Cardinality(In(v, R, n))]
RevenueOf(v, R) == [n \in Names |-> SumFunction([r \in In(v, R, n) |-> _money(v[r].total)])]
RefundedOf(v, R) == SumFunction([t \in Refunds(v, R) |-> _money(v[t[1]].refunds[t[2]].amount)])

\* What the tickets of the rows in R are, and what they cost.
PriceOf(v, R) == [t \in Tickets(v, R) |-> _money(Ticket(v, t).price)]
ItemOf(v, R) == [t \in Tickets(v, R) |-> Ticket(v, t).item]
SubeventOf(v, R) == [t \in Tickets(v, R) |-> Ticket(v, t).subevent]

\* The figures of the rows in R, said with the tickets of those in All.
Tallied(v, R, All) ==
  Figures(OrdersOf(v, R), RevenueOf(v, R), RefundedOf(v, R),
          PriceOf(v, All), ItemOf(v, All), SubeventOf(v, All), Tickets(v, R))

\* Tickets have a price, a product and a date.
LEMMA TicketsTyped ==
  ASSUME NEW v, NEW R, \A r \in R : AnOrder(v[r])
  PROVE  /\ PriceOf(v, R) \in [Tickets(v, R) -> Int]
         /\ ItemOf(v, R) \in [Tickets(v, R) -> Products]
         /\ SubeventOf(v, R) \in [Tickets(v, R) -> Products]
<1>1. ASSUME NEW t \in Tickets(v, R)
      PROVE  /\ _money(Ticket(v, t).price) \in Int
             /\ Ticket(v, t).item \in Products /\ Ticket(v, t).subevent \in Products
  <2>1. PICK r \in R : t \in TicketsOf(v, r)
    BY RowByRow
  <2> DEFINE q == v[r].positions
  <2>2. PICK i \in DOMAIN q : t = <<r, i>>
    BY <2>1 DEF TicketsOf, LiveAt
  <2>3. q \in Seq({p \in ToSet(q) :
                    Amount(p.price) /\ p.item \in Products /\ p.subevent \in Products})
    BY DEF AnOrder
  <2>4. Amount(q[i].price) /\ q[i].item \in Products /\ q[i].subevent \in Products
    <3> HIDE DEF q
    <3>1. i \in 1..Len(q)
      BY <2>3, LenProperties
    <3>2. q[i] \in {p \in ToSet(q) :
                     Amount(p.price) /\ p.item \in Products /\ p.subevent \in Products}
      BY <2>3, <3>1, ElementOfSeq
    <3>3. QED
      BY <3>2
  <2>5. Ticket(v, t) = q[i]
    BY <2>2 DEF Ticket
  <2>6. QED
    BY <2>4, <2>5, Worth
<1>2. QED
  BY <1>1 DEF PriceOf, ItemOf, SubeventOf

\* Refunds have an amount.
LEMMA RefundsTyped ==
  ASSUME NEW v, NEW R, \A r \in R : AnOrder(v[r])
  PROVE  [t \in Refunds(v, R) |-> _money(v[t[1]].refunds[t[2]].amount)] \in [Refunds(v, R) -> Int]
<1>1. ASSUME NEW t \in Refunds(v, R) PROVE _money(v[t[1]].refunds[t[2]].amount) \in Int
  <2>1. PICK r \in R : t \in RefundsOf(v, r)
    BY RowByRow DEF Known
  <2> DEFINE q == v[r].refunds
  <2>2. PICK i \in DOMAIN q : t = <<r, i>>
    BY <2>1 DEF RefundsOf, DoneAt
  <2>3. q \in Seq({p \in ToSet(q) : Amount(p.amount)})
    BY DEF AnOrder
  <2>4. Amount(q[i].amount)
    <3> HIDE DEF q
    <3>1. i \in 1..Len(q)
      BY <2>3, LenProperties
    <3>2. q[i] \in {p \in ToSet(q) : Amount(p.amount)}
      BY <2>3, <3>1, ElementOfSeq
    <3>3. QED
      BY <3>2
  <2>5. v[t[1]].refunds[t[2]] = q[i]
    BY <2>2
  <2>6. QED
    BY <2>4, <2>5, Worth
<1>2. QED
  BY <1>1

\* A row with a status pretix does not document changes no figure.
LEMMA OddUncounted ==
  ASSUME NEW v, NEW R, NEW r, NEW More, More = R \cup {r}, NEW All,
         v[r].status \notin DOMAIN STATUS_NAMES
  PROVE  Tallied(v, More, All) = Tallied(v, R, All)
<1>1. Ignores(v, R, More)
  BY OddRow
<1>2. /\ OrdersOf(v, More) = OrdersOf(v, R) /\ RevenueOf(v, More) = RevenueOf(v, R)
      /\ RefundedOf(v, More) = RefundedOf(v, R) /\ Tickets(v, More) = Tickets(v, R)
  BY <1>1 DEF Ignores, OrdersOf, RevenueOf, RefundedOf
<1>3. QED
  BY <1>2 DEF Tallied

\* An order is counted under its status, with its total and its refunds.
LEMMA OrderCounted ==
  ASSUME NEW v, NEW R, IsFiniteSet(R), NEW r, r \notin R,
         NEW More, More = R \cup {r}, \A x \in More : AnOrder(v[x]),
         v[r].status \in DOMAIN STATUS_NAMES, NEW price, NEW item, NEW sub, NEW K
  PROVE  CountOrder(Figures(OrdersOf(v, R), RevenueOf(v, R), RefundedOf(v, R), price, item, sub, K),
                    v[r], STATUS_NAMES[v[r].status])
           = Figures(OrdersOf(v, More), RevenueOf(v, More), RefundedOf(v, More),
                     price, item, sub, K)
<1> DEFINE name == STATUS_NAMES[v[r].status]
           o == OrdersOf(v, R)
           e == RevenueOf(v, R)
<1>a. Includes(v, R, r, More)
  BY KnownRow
<1>1. /\ \A n \in Names : n # name => In(v, More, n) = In(v, R, n)
      /\ name \in Names /\ In(v, More, name) = In(v, R, name) \cup {r}
  BY <1>a DEF Includes
<1>2. /\ \A n \in Names : IsFiniteSet(In(v, R, n)) /\ r \notin In(v, R, n)
      /\ IsFiniteSet(Refunds(v, R))
  <2>1. \A x \in R : AnOrder(v[x])
    OBVIOUS
  <2>2. QED
    BY <2>1, FiniteFigures DEF In, Known
<1>3. OrdersOf(v, More) = [o EXCEPT ![name] = @ + 1]
  <2>1. \A n \in Names : n # name => OrdersOf(v, More)[n] = o[n]
    BY <1>1 DEF OrdersOf
  <2>2. OrdersOf(v, More)[name] = o[name] + 1
    BY <1>1, <1>2, FS_AddElement DEF OrdersOf
  <2>3. o = [n \in Names |-> o[n]] /\ OrdersOf(v, More) = [n \in Names |-> OrdersOf(v, More)[n]]
    BY DEF OrdersOf
  <2> HIDE DEF o, name
  <2>4. QED
    BY <1>1, <2>1, <2>2, <2>3
<1>4. RevenueOf(v, More) = [e EXCEPT ![name] = @ + _money(v[r].total)]
  <2> DEFINE w == [x \in More |-> _money(v[x].total)]
  <2>1. \A n \in Names : n # name => RevenueOf(v, More)[n] = e[n]
    BY <1>1 DEF RevenueOf
  <2>2. RevenueOf(v, More)[name] = e[name] + _money(v[r].total)
    <3>1. w \in [More -> Int] /\ In(v, R, name) \cup {r} \subseteq More
      BY Worth DEF AnOrder, In, Known
    <3>2. /\ [x \in In(v, R, name) |-> w[x]] = [x \in In(v, R, name) |-> _money(v[x].total)]
          /\ [x \in In(v, R, name) \cup {r} |-> w[x]]
               = [x \in In(v, R, name) \cup {r} |-> _money(v[x].total)]
          /\ w[r] = _money(v[r].total)
      BY <3>1
    <3> HIDE DEF w, name
    <3>3. SumFunction([x \in In(v, R, name) \cup {r} |-> w[x]])
            = SumFunction([x \in In(v, R, name) |-> w[x]]) + w[r]
      BY <1>1, <1>2, <3>1, SumGrows
    <3>4. QED
      BY <1>1, <3>2, <3>3 DEF RevenueOf
  <2>3. e = [n \in Names |-> e[n]] /\ RevenueOf(v, More) = [n \in Names |-> RevenueOf(v, More)[n]]
    BY DEF RevenueOf
  <2> HIDE DEF e, name
  <2>4. QED
    BY <1>1, <2>1, <2>2, <2>3
<1>5. RefundedOf(v, More) = FoldLeft(AddRefund, RefundedOf(v, R), v[r].refunds)
  <2> DEFINE F == Refunds(v, R)
             A == Refunds(v, More)
             q == v[r].refunds
             X == {p \in ToSet(q) : Amount(p.amount)}
             w == [t \in A |-> _money(v[t[1]].refunds[t[2]].amount)]
  <2>1. w \in [A -> Int]
    BY RefundsTyped
  <2>2. A = F \cup {r} \X DoneAt(q, DOMAIN q) /\ \A i : <<r, i>> \notin F
    <3>1. A = F \cup RefundsOf(v, r)
      BY <1>a DEF Includes
    <3>2. \A i : <<r, i>> \notin F
      BY NewRow
    <3>3. QED
      BY <3>1, <3>2 DEF RefundsOf
  <2>3. q \in Seq(X)
    BY DEF AnOrder
  <2>4. \A i \in DoneAt(q, DOMAIN q) : w[<<r, i>>] = _money(q[i].amount)
    BY <2>2
  <2>5. /\ RefundedOf(v, R) = SumFunction([t \in F |-> w[t]])
        /\ RefundedOf(v, More) = SumFunction([t \in A |-> w[t]])
    <3>1. /\ [t \in F |-> w[t]] = [t \in F |-> _money(v[t[1]].refunds[t[2]].amount)]
          /\ [t \in A |-> w[t]] = w
      BY <2>2
    <3>2. QED
      BY <3>1 DEF RefundedOf
  <2> HIDE DEF F, A, q, w, X
  <2>6. IsFiniteSet(F) /\ A \subseteq A
    BY <1>2 DEF F
  <2>a. NewRefunds(F, r, q, A, w)
    BY <2>1, <2>2, <2>4, <2>6 DEF NewRefunds
  <2>7. FoldLeft(AddRefund, SumFunction([t \in F |-> w[t]]), q) = SumFunction([t \in A |-> w[t]])
    BY <2>3, <2>a, RefundsAdd
  <2>8. QED
    BY <2>5, <2>7 DEF q
<1> DEFINE d == RefundedOf(v, R)
           n == Cardinality(K)
           i == Buckets(price, item, K)
           s == Buckets(price, sub, K)
           fig == Figures(o, e, d, price, item, sub, K)
<1>6. fig = [orders |-> o, revenue |-> e, refunded |-> d, tickets |-> n, by_item |-> i,
             by_subevent |-> s]
  BY DEF Figures
<1> HIDE DEF fig, o, e, d, n, i, s, name
<1>7. CountOrder(fig, v[r], name)
        = [fig EXCEPT !.orders = [fig.orders EXCEPT ![name] = @ + 1],
                      !.revenue = [fig.revenue EXCEPT ![name] = @ + _money(v[r].total)],
                      !.refunded = FoldLeft(AddRefund, fig.refunded, v[r].refunds)]
  BY DEF CountOrder
<1>8. CountOrder(fig, v[r], name)
        = [orders |-> OrdersOf(v, More), revenue |-> RevenueOf(v, More),
           refunded |-> RefundedOf(v, More), tickets |-> n, by_item |-> i, by_subevent |-> s]
  BY <1>3, <1>4, <1>5, <1>6, <1>7 DEF d
<1>9. QED
  BY <1>8 DEF Figures, fig, o, e, d, n, i, s, name

\* More has the row r more than R, and All has it too.
RowMore(R, r, More, All) ==
  IsFiniteSet(All) /\ More = R \cup {r} /\ r \notin R /\ More \subseteq All

\* One round of the loop of sales_summary: the order it comes to is in the figures.
LEMMA OrderAdded ==
  ASSUME NEW v, NEW R, NEW r, NEW More, NEW All, RowMore(R, r, More, All),
         \A x \in All : AnOrder(v[x])
  PROVE  Tallied(v, More, All) = AddOrder(Tallied(v, R, All), v[r])
<1>a. /\ More = R \cup {r} /\ r \notin R /\ More \subseteq All /\ R \subseteq All /\ r \in All
      /\ IsFiniteSet(R) /\ \A x \in More : AnOrder(v[x])
  BY FS_Subset DEF RowMore
<1>1. CASE v[r].status \notin DOMAIN STATUS_NAMES
  <2>1. Tallied(v, More, All) = Tallied(v, R, All)
    BY <1>1, <1>a, OddUncounted
  <2>2. QED
    BY <1>1, <2>1 DEF AddOrder
<1>2. CASE v[r].status \in DOMAIN STATUS_NAMES
  <2> DEFINE name == STATUS_NAMES[v[r].status]
             price == PriceOf(v, All)
             item == ItemOf(v, All)
             sub == SubeventOf(v, All)
             counted == Figures(OrdersOf(v, More), RevenueOf(v, More), RefundedOf(v, More),
                                price, item, sub, Tickets(v, R))
  <2>1. CountOrder(Tallied(v, R, All), v[r], name) = counted
    <3>1. Tallied(v, R, All) = Figures(OrdersOf(v, R), RevenueOf(v, R), RefundedOf(v, R),
                                       price, item, sub, Tickets(v, R))
      BY DEF Tallied
    <3> HIDE DEF price, item, sub
    <3>2. QED
      BY <1>2, <1>a, <3>1, OrderCounted
  <2>2. Includes(v, R, r, More)
    BY <1>2, <1>a, KnownRow
  <2>3. CASE ~Sells(v, r)
    <3>1. Tickets(v, More) = Tickets(v, R)
      BY <2>2, <2>3 DEF Includes
    <3>2. counted = Tallied(v, More, All)
      BY <3>1 DEF Tallied
    <3>3. name \notin {"paid", "pending"}
      BY <1>2, <2>3 DEF Sells
    <3> HIDE DEF counted
    <3>4. QED
      BY <1>2, <2>1, <3>2, <3>3 DEF AddOrder
  <2>4. CASE Sells(v, r)
    <3> DEFINE q == v[r].positions
    <3>1. NewTickets(Tickets(v, R), r, q, Tickets(v, More), Tickets(v, All), price, item, sub)
      <4>1. Tickets(v, More) = Tickets(v, R) \cup {r} \X LiveAt(q, DOMAIN q)
        BY <2>2, <2>4 DEF Includes, TicketsOf
      <4>2. IsFiniteSet(Tickets(v, R)) /\ \A i : <<r, i>> \notin Tickets(v, R)
        BY <1>a, FiniteFigures, NewRow
      <4>3. Tickets(v, More) \subseteq Tickets(v, All)
        <5>1. /\ Tickets(v, More) = UNION {TicketsOf(v, x) : x \in {x \in More : Sells(v, x)}}
              /\ Tickets(v, All) = UNION {TicketsOf(v, x) : x \in {x \in All : Sells(v, x)}}
          BY RowByRow
        <5>2. {x \in More : Sells(v, x)} \subseteq {x \in All : Sells(v, x)}
          BY <1>a
        <5>3. QED
          BY <5>1, <5>2
      <4>4. /\ price \in [Tickets(v, All) -> Int] /\ item \in [Tickets(v, All) -> Products]
            /\ sub \in [Tickets(v, All) -> Products]
        BY TicketsTyped
      <4>5. ASSUME NEW i \in LiveAt(q, DOMAIN q)
            PROVE  /\ price[<<r, i>>] = _money(q[i].price) /\ item[<<r, i>>] = q[i].item
                   /\ sub[<<r, i>>] = q[i].subevent
        <5>1. <<r, i>> \in Tickets(v, All) /\ Ticket(v, <<r, i>>) = q[i]
          BY <4>1, <4>3 DEF Ticket
        <5> HIDE DEF q
        <5>2. QED
          BY <5>1 DEF PriceOf, ItemOf, SubeventOf
      <4> HIDE DEF q, price, item, sub
      <4>6. QED
        BY <4>1, <4>2, <4>3, <4>4, <4>5 DEF NewTickets
    <3>2. q \in Seq({p \in ToSet(q) :
                      Amount(p.price) /\ p.item \in Products /\ p.subevent \in Products})
      BY <1>a DEF AnOrder
    <3>3. FoldLeft(AddPosition, counted, q) = Tallied(v, More, All)
      <4> HIDE DEF q, price, item, sub
      <4>1. FoldLeft(AddPosition, counted, q)
              = Figures(OrdersOf(v, More), RevenueOf(v, More), RefundedOf(v, More),
                        price, item, sub, Tickets(v, More))
        BY <3>1, <3>2, TicketsAdd
      <4>2. QED
        BY <4>1 DEF Tallied, price, item, sub
    <3>4. name \in {"paid", "pending"}
      BY <2>4 DEF Sells
    <3> HIDE DEF counted
    <3>5. QED
      BY <1>2, <2>1, <3>3, <3>4 DEF AddOrder
  <2>5. QED
    BY <2>3, <2>4
<1>3. QED
  BY <1>1, <1>2

\* A bucket is shown if a ticket is in it, with what the tickets for that product come to.
LEMMA BreakdownIsPer ==
  ASSUME NEW v, NEW K, IsFiniteSet(K), NEW price \in [K -> Int], NEW key \in [K -> Products],
         \A t \in K : price[t] = _money(Ticket(v, t).price)
  PROVE  _breakdown(Buckets(price, key, K)) = Per(v, K, key)
<1> DEFINE of(p) == {t \in K : key[t] = p}
           shown == {p \in Products : Buckets(price, key, K)[p].tickets > 0}
           keys == {key[t] : t \in K}
<1>1. ASSUME NEW p \in Products PROVE Buckets(price, key, K)[p] = Sold(v, of(p))
  <2>1. Buckets(price, key, K)[p] = BucketOf(price, key, K, p)
    BY DEF Buckets
  <2>2. [t \in of(p) |-> price[t]] = [t \in of(p) |-> _money(Ticket(v, t).price)]
    OBVIOUS
  <2>3. QED
    BY <2>1, <2>2 DEF BucketOf, Sold
<1>2. shown = keys
  <2>1. ASSUME NEW p \in Products PROVE p \in shown <=> of(p) # {}
    <3>1. Buckets(price, key, K)[p].tickets = Cardinality(of(p))
      <4>1. Sold(v, of(p)).tickets = Cardinality(of(p))
        BY DEF Sold
      <4> HIDE DEF of
      <4>2. QED
        BY <1>1, <4>1
    <3>2. IsFiniteSet(of(p))
      BY FS_Subset
    <3> HIDE DEF of
    <3>3. Cardinality(of(p)) \in Nat /\ (Cardinality(of(p)) = 0 <=> of(p) = {})
      BY <3>2, FS_CardinalityType, FS_EmptySet
    <3>4. QED
      BY <3>1, <3>3
  <2>2. shown \subseteq Products /\ keys \subseteq Products
    OBVIOUS
  <2>3. \A p \in Products : p \in keys <=> of(p) # {}
    OBVIOUS
  <2> HIDE DEF shown, keys, of
  <2>4. QED
    BY <2>1, <2>2, <2>3
<1>3. _breakdown(Buckets(price, key, K))
        = {[key |-> p, sold |-> Buckets(price, key, K)[p]] : p \in shown}
  BY DEF _breakdown
<1>4. Per(v, K, key) = {[key |-> p, sold |-> Sold(v, of(p))] : p \in keys}
  BY DEF Per
<1>5. \A p \in shown : Buckets(price, key, K)[p] = Sold(v, of(p))
  BY <1>1
<1> HIDE DEF of, shown, keys
<1>6. QED
  BY <1>2, <1>3, <1>4, <1>5

\* The figures of no row at all.
LEMMA NothingTallied == ASSUME NEW v, NEW All PROVE Tallied(v, {}, All) = NoSales
<1>1. /\ \A n : In(v, {}, n) = {}
      /\ Tickets(v, {}) = {} /\ Refunds(v, {}) = {} /\ Cardinality({}) = 0
  BY FS_EmptySet DEF Known, In, Tickets, Refunds
<1>2. OrdersOf(v, {}) = [n \in Names |-> 0]
  BY <1>1 DEF OrdersOf
<1>3. RevenueOf(v, {}) = [n \in Names |-> 0]
  <2>1. SumFunction([r \in {} |-> _money(v[r].total)]) = 0
    <3> DEFINE f == [r \in {} |-> _money(v[r].total)]
    <3>1. [r \in {} |-> f[r]] = f
      OBVIOUS
    <3> HIDE DEF f
    <3>2. SumFunction(f) = 0
      BY <3>1, SumNone
    <3>3. QED
      BY <3>2 DEF f
  <2>2. QED
    BY <1>1, <2>1 DEF RevenueOf
<1>4. RefundedOf(v, {}) = 0
  <2> DEFINE f == [t \in {} |-> _money(v[t[1]].refunds[t[2]].amount)]
  <2>1. [t \in {} |-> f[t]] = f
    OBVIOUS
  <2> HIDE DEF f
  <2>2. SumFunction(f) = 0
    BY <2>1, SumNone
  <2>3. QED
    BY <1>1, <2>2 DEF f, RefundedOf
<1>5. ASSUME NEW price, NEW key
      PROVE  Buckets(price, key, {}) = [p \in Products |-> NoTickets]
  <2>1. ASSUME NEW p PROVE BucketOf(price, key, {}, p) = NoTickets
    <3>1. {t \in {} : key[t] = p} = {}
      OBVIOUS
    <3>2. SumFunction([t \in {} |-> price[t]]) = 0
      BY SumNone
    <3>3. QED
      BY <1>1, <3>1, <3>2 DEF BucketOf, NoTickets
  <2>2. QED
    BY <2>1 DEF Buckets
<1>6. QED
  BY <1>1, <1>2, <1>3, <1>4, <1>5 DEF Tallied, Figures, NoSales

\* The loop of sales_summary comes to the figures of the rows, whatever their order.
LEMMA LoopTallies ==
  ASSUME NEW v, NEW s \in Seq(1..MaxRows), Distinct(s), NEW X, NEW c \in Seq(X), Len(c) = Len(s),
         \A i \in 1..Len(s) : c[i] = v[s[i]] /\ AnOrder(c[i])
  PROVE  FoldLeft(AddOrder, NoSales, c) = Tallied(v, ToSet(s), ToSet(s))
<1> DEFINE All == ToSet(s)
           At(D) == {s[i] : i \in D}
           g == [D \in SUBSET DOMAIN c |-> Tallied(v, At(D), All)]
<1>1. /\ DOMAIN s = 1..Len(s) /\ DOMAIN c = 1..Len(s) /\ Len(s) \in Nat
      /\ \A i \in 1..Len(s) : s[i] \in 1..MaxRows
      /\ MaxRows \in Nat
  BY LenProperties, ElementOfSeq, PaginateAssumption
<1>2. All = At(DOMAIN c) /\ All \subseteq 1..MaxRows /\ \A x \in All : AnOrder(v[x])
  BY <1>1 DEF ToSet
<1>3. IsFiniteSet(All)
  <2>1. IsFiniteSet(1..MaxRows)
    BY <1>1, FS_Interval
  <2> HIDE DEF All
  <2>2. QED
    BY <1>2, <2>1, FS_Subset
<1>4. g[{}] = NoSales
  <2>1. At({}) = {}
    OBVIOUS
  <2> HIDE DEF At
  <2>2. QED
    BY <2>1, NothingTallied
<1>5. ASSUME NEW D \in SUBSET DOMAIN c, D # {}
      PROVE  g[D] = AddOrder(g[D \ {Max(D)}], c[Max(D)])
  <2> DEFINE m == Max(D)
  <2>1. m \in D /\ D \ {m} \in SUBSET DOMAIN c
    BY <1>5, Rests
  <2> HIDE DEF m
  <2>2. At(D) = At(D \ {m}) \cup {s[m]} /\ s[m] \notin At(D \ {m}) /\ At(D) \subseteq All
    BY <1>1, <1>2, <2>1 DEF Distinct
  <2>3. RowMore(At(D \ {m}), s[m], At(D), All)
    BY <1>3, <2>2 DEF RowMore
  <2> HIDE DEF At, All
  <2>4. Tallied(v, At(D), All) = AddOrder(Tallied(v, At(D \ {m}), All), v[s[m]])
    BY <1>2, <2>3, OrderAdded
  <2>5. v[s[m]] = c[m]
    BY <1>1, <2>1
  <2>6. QED
    BY <2>1, <2>4, <2>5 DEF m
<1> HIDE DEF g
<1>6. FoldLeft(AddOrder, NoSales, c) = g[DOMAIN c]
  BY <1>4, <1>5, OrdersFold
<1>7. g[DOMAIN c] = Tallied(v, All, All)
  <2> HIDE DEF All, At
  <2>1. QED
    BY <1>2 DEF g
<1>8. QED
  BY <1>6, <1>7

\* sales_summary tells the sales of the rows it has.
LEMMA SalesAre ==
  ASSUME NEW v, NEW s \in Seq(1..MaxRows), Distinct(s), NEW X, copies \in Seq(X),
         Len(copies) = Len(s), \A i \in 1..Len(s) : copies[i] = v[s[i]] /\ AnOrder(copies[i])
  PROVE  sales_summary.sales = Sales(v, ToSet(s))
<1> DEFINE R == ToSet(s)
           sum == FoldLeft(AddOrder, NoSales, copies)
           K == Tickets(v, R)
           price == PriceOf(v, R)
           item == ItemOf(v, R)
           sub == SubeventOf(v, R)
<1>1. sum = Tallied(v, R, R)
  BY LoopTallies
<1>2. IsFiniteSet(R) /\ \A r \in R : AnOrder(v[r])
  <2>1. DOMAIN s = 1..Len(s) /\ Len(s) \in Nat
    BY LenProperties
  <2>2. R = {s[i] : i \in 1..Len(s)}
    BY <2>1 DEF ToSet
  <2>3. s \in Surjection(1..Len(s), R)
    <3>1. s \in [1..Len(s) -> R]
      BY <2>1, <2>2
    <3>2. QED
      BY <2>2, <3>1 DEF Surjection
  <2>4. IsFiniteSet(1..Len(s))
    BY <2>1, FS_Interval
  <2> HIDE DEF R
  <2>5. IsFiniteSet(R)
    BY <2>3, <2>4, FS_Surjection
  <2>6. QED
    BY <2>2, <2>5
<1> HIDE DEF R
<1>3. IsFiniteSet(K) /\ price \in [K -> Int] /\ item \in [K -> Products] /\ sub \in [K -> Products]
  BY <1>2, FiniteFigures, TicketsTyped
<1>4. \A t \in K : price[t] = _money(Ticket(v, t).price)
  BY DEF PriceOf
<1> DEFINE i == Buckets(price, item, K)
           b == Buckets(price, sub, K)
           o == OrdersOf(v, R)
           e == RevenueOf(v, R)
           d == RefundedOf(v, R)
           n == Cardinality(K)
<1>5. _breakdown(i) = Per(v, K, item) /\ _breakdown(b) = Per(v, K, sub)
  <2> HIDE DEF K, price, item, sub
  <2>1. QED
    BY <1>3, <1>4, BreakdownIsPer
<1>6. sum = [orders |-> o, revenue |-> e, refunded |-> d, tickets |-> n, by_item |-> i,
             by_subevent |-> b]
  BY <1>1 DEF Tallied, Figures
<1>7. sales_summary.sales = [sum EXCEPT !.by_item = _breakdown(@), !.by_subevent = _breakdown(@)]
  <2> HIDE DEF i, b, o, e, d, n
  <2>1. QED
    BY DEF sales_summary
<1>8. sales_summary.sales
        = [orders |-> o, revenue |-> e, refunded |-> d, tickets |-> n,
           by_item |-> _breakdown(i), by_subevent |-> _breakdown(b)]
  <2> HIDE DEF sum, i, b, o, e, d, n
  <2>1. QED
    BY <1>6, <1>7
<1>9. Sales(v, R) = [orders |-> o, revenue |-> e, refunded |-> d, tickets |-> n,
                     by_item |-> Per(v, K, item), by_subevent |-> Per(v, K, sub)]
  BY DEF Sales, OrdersOf, RevenueOf, RefundedOf, ItemOf, SubeventOf
<1>10. QED
  BY <1>5, <1>8, <1>9 DEF R

-----------------------------------------------------------------------------
(* The other tools, and all of them.                                         *)

\* The places of D at which s has an element of T.
Places(s, T, D) == {i \in D : s[i] \in T}

\* t is a list of the elements at the places in P, one for each.
Holds(t, s, P) == Len(t) = Cardinality(P) /\ ToSet(t) = {s[i] : i \in P}

\* One element more.
LEMMA HoldsMore ==
  ASSUME NEW X, NEW t \in Seq(X), NEW s, NEW P, IsFiniteSet(P), Holds(t, s, P),
         NEW k, k \notin P, s[k] \in X
  PROVE  Append(t, s[k]) \in Seq(X) /\ Holds(Append(t, s[k]), s, P \cup {k})
<1>1. /\ Len(t) \in Nat /\ DOMAIN t = 1..Len(t) /\ DOMAIN Append(t, s[k]) = 1..Len(t) + 1
      /\ Append(t, s[k]) \in Seq(X) /\ Len(Append(t, s[k])) = Len(t) + 1
      /\ \A i \in 1..Len(t) : Append(t, s[k])[i] = t[i]
      /\ Append(t, s[k])[Len(t) + 1] = s[k]
  BY AppendProperties, LenProperties
<1>2. ToSet(Append(t, s[k])) = ToSet(t) \cup {s[k]}
  BY <1>1 DEF ToSet
<1>3. Cardinality(P \cup {k}) = Cardinality(P) + 1
  BY FS_AddElement
<1>4. {s[i] : i \in P \cup {k}} = {s[i] : i \in P} \cup {s[k]}
  OBVIOUS
<1>5. QED
  BY <1>1, <1>2, <1>3, <1>4 DEF Holds

\* Only keeps what is in T, as often as it is there.
LEMMA OnlyKeeps ==
  ASSUME NEW X, NEW s \in Seq(X), NEW T PROVE Holds(Only(s, T), s, Places(s, T, DOMAIN s))
<1>1. PICK it : Filters(it, s, T) /\ Only(s, T) = it[DOMAIN s]
  BY OnlyFilters
<1> DEFINE G == {D \in SUBSET DOMAIN s : it[D] \in Seq(X) /\ Holds(it[D], s, Places(s, T, D))}
<1>2. {} \in G
  <2>1. Places(s, T, {}) = {} /\ ToSet(<<>>) = {} /\ Len(<<>>) = 0
    BY DEF Places, ToSet
  <2>2. Holds(<<>>, s, Places(s, T, {}))
    BY <2>1, FS_EmptySet DEF Holds
  <2>3. QED
    BY <1>1, <2>2, EmptySeq DEF Filters
<1>3. ASSUME NEW D \in SUBSET DOMAIN s, D # {}, D \ {Max(D)} \in G PROVE D \in G
  <2> DEFINE m == Max(D)
             Rest == D \ {m}
  <2>1. m \in D /\ s[m] \in X /\ Rest \in SUBSET DOMAIN s
    BY <1>3, Rests
  <2>2. it[Rest] \in Seq(X) /\ Holds(it[Rest], s, Places(s, T, Rest))
    BY <1>3
  <2>3. it[D] = IF s[m] \in T THEN Append(it[Rest], s[m]) ELSE it[Rest]
    BY <1>1, <1>3 DEF Filters
  <2> HIDE DEF m
  <2>4. CASE s[m] \in T
    <3>1. Places(s, T, D) = Places(s, T, Rest) \cup {m} /\ m \notin Places(s, T, Rest)
      BY <2>1, <2>4 DEF Places
    <3>2. IsFiniteSet(Places(s, T, Rest))
      <4>1. DOMAIN s = 1..Len(s) /\ Len(s) \in Nat
        BY LenProperties
      <4>2. IsFiniteSet(1..Len(s)) /\ Places(s, T, Rest) \in SUBSET (1..Len(s))
        BY <2>1, <4>1, FS_Interval DEF Places
      <4>3. QED
        BY <4>2, FS_Subset
    <3> HIDE DEF Rest
    <3>3. /\ Append(it[Rest], s[m]) \in Seq(X)
          /\ Holds(Append(it[Rest], s[m]), s, Places(s, T, Rest) \cup {m})
      BY <2>1, <2>2, <3>1, <3>2, HoldsMore
    <3>4. QED
      BY <2>3, <2>4, <3>1, <3>3
  <2>5. CASE s[m] \notin T
    <3>1. Places(s, T, D) = Places(s, T, Rest)
      BY <2>1, <2>5 DEF Places
    <3>2. QED
      BY <2>2, <2>3, <2>5, <3>1
  <2>6. QED
    BY <2>4, <2>5
<1> HIDE DEF G
<1>4. SUBSET DOMAIN s \subseteq G
  BY <1>2, <1>3, Parts
<1>5. DOMAIN s \in G
  BY <1>4
<1>6. QED
  BY <1>1, <1>5 DEF G

\* Of the check-ins of a position one is the first of the latest.
LEMMA LatestIsLast ==
  ASSUME NEW q, q \in Seq({c \in ToSet(q) : c.datetime \in Nat}), q # <<>>
  PROVE  \E i \in DOMAIN q : /\ Latest(q) = q[i]
                             /\ \A j \in DOMAIN q : q[j].datetime <= q[i].datetime
<1> DEFINE latest == {i \in DOMAIN q : \A j \in DOMAIN q : q[j].datetime <= q[i].datetime}
<1>1. Len(q) \in Nat /\ DOMAIN q = 1..Len(q) /\ Len(q) # 0
  BY LenProperties, EmptySeq
<1>2. \A i \in DOMAIN q : q[i].datetime \in Nat
  <2>1. \A i \in 1..Len(q) : q[i] \in {c \in ToSet(q) : c.datetime \in Nat}
    BY ElementOfSeq
  <2>2. QED
    BY <1>1, <2>1
<1>3. latest # {}
  <2>1. \E i \in DOMAIN q : \A j \in DOMAIN q : q[j].datetime <= q[i].datetime
    <3> DEFINE Ends(k) == \E i \in 1..k : \A j \in 1..k : q[j].datetime <= q[i].datetime
               Reach == {k \in 0..Len(q) : k = 0 \/ Ends(k)}
    <3>1. 0 \in Reach
      BY <1>1
    <3>2. ASSUME NEW k \in 1..Len(q), k - 1 \in Reach PROVE Ends(k)
      <4>1. CASE k = 1
        <5>1. 1 \in 1..k /\ \A j \in 1..k : q[j].datetime <= q[1].datetime
          <6>1. q[1].datetime \in Nat /\ \A j \in 1..k : j = 1
            BY <1>1, <1>2, <4>1
          <6>2. QED
            BY <4>1, <6>1
        <5>2. QED
          BY <1>1, <5>1
      <4>2. CASE k # 1
        <5>0. k - 1 # 0
          BY <1>1, <4>2
        <5>1. PICK i \in 1..k - 1 : \A j \in 1..k - 1 : q[j].datetime <= q[i].datetime
          BY <3>2, <5>0
        <5>2. /\ i \in 1..k /\ k \in 1..k /\ q[i].datetime \in Nat /\ q[k].datetime \in Nat
              /\ \A j \in 1..k : j = k \/ j \in 1..k - 1
              /\ \A j \in 1..k - 1 : q[j].datetime \in Nat
          BY <1>1, <1>2
        <5>3. CASE q[k].datetime <= q[i].datetime
          BY <5>1, <5>2, <5>3
        <5>4. CASE ~(q[k].datetime <= q[i].datetime)
          <6>1. ASSUME NEW j \in 1..k - 1 PROVE q[j].datetime <= q[k].datetime
            <7>1. q[j].datetime <= q[i].datetime /\ q[j].datetime \in Nat
              BY <5>1, <5>2
            <7>2. QED
              BY <5>2, <5>4, <7>1
          <6>2. q[k].datetime <= q[k].datetime
            BY <5>2
          <6>3. \A j \in 1..k : q[j].datetime <= q[k].datetime
            BY <5>2, <6>1, <6>2
          <6>4. QED
            BY <5>2, <6>3
        <5>5. QED
          BY <5>3, <5>4
      <4>3. QED
        BY <4>1, <4>2
    <3>a. \A k \in 1..Len(q) : k - 1 \in Reach => k \in Reach
      <4> HIDE DEF Ends
      <4>1. QED
        BY <1>1, <3>2
    <3> HIDE DEF Reach
    <3>3. 0..Len(q) \subseteq Reach
      BY <1>1, <3>1, <3>a, UpTo
    <3>4. Len(q) \in Reach
      BY <1>1, <3>3
    <3>5. QED
      BY <1>1, <3>4 DEF Reach
  <2>2. QED
    BY <2>1
<1>4. latest \subseteq Nat
  BY <1>1
<1>5. Min(latest) \in latest
  <2> HIDE DEF latest
  <2>1. \E i \in latest : \A j \in latest : i <= j
    BY <1>3, <1>4, Least
  <2>2. QED
    BY <2>1 DEF Min
<1>6. Latest(q) = q[Min(latest)]
  BY DEF Latest
<1>7. QED
  BY <1>5, <1>6

\* The tool has answered, from the rows of s, each once, when each held v.
Served(v, s) ==
  /\ tool \in DOMAIN Populations /\ Returned /\ answer = Made
  /\ s \in Seq(1..MaxRows) /\ Distinct(s)
  /\ copies \in Seq(ObjectsOf(tool)) /\ Len(copies) = Len(s)
  /\ \A i \in 1..Len(s) : copies[i] = v[s[i]]

\* The rows, and what they hold, by their places.
LEMMA ServedPlaces ==
  ASSUME NEW v, NEW s, Served(v, s)
  PROVE  /\ Len(s) \in Nat /\ DOMAIN s = 1..Len(s) /\ DOMAIN copies = 1..Len(s)
         /\ \A i \in 1..Len(s) : copies[i] \in ObjectsOf(tool) /\ copies[i] = v[s[i]]
         /\ ToSet(copies) = {v[s[i]] : i \in 1..Len(s)}
<1>1. /\ Len(s) \in Nat /\ DOMAIN s = 1..Len(s) /\ DOMAIN copies = 1..Len(s)
      /\ \A i \in 1..Len(s) : copies[i] \in ObjectsOf(tool) /\ copies[i] = v[s[i]]
  BY LenProperties, ElementOfSeq DEF Served
<1>2. QED
  BY <1>1 DEF ToSet

\* sales_summary.
LEMMA SalesDescribed ==
  ASSUME NEW v, NEW s, Served(v, s), tool = "sales_summary" PROVE Describes(v, s)
<1>1. answer = sales_summary
  BY DEF Served, Made
<1>2. \A i \in 1..Len(s) : copies[i] = v[s[i]] /\ AnOrder(copies[i])
  BY ServedPlaces, ReportsAssumption DEF Served
<1>3. sales_summary.sales = Sales(v, ToSet(s))
  BY <1>2, SalesAre DEF Served
<1>4. QED
  BY <1>1, <1>3 DEF Describes

\* An order has the items that are not canceled.
LEMMA ItemsCounted ==
  ASSUME NEW o, AnOrder(o)
  PROVE  Len(Only(o.positions, Live(o.positions)))
           = Cardinality({j \in DOMAIN o.positions : ~o.positions[j].canceled})
<1> DEFINE q == o.positions
<1>1. q \in Seq({p \in ToSet(q) :
                  Amount(p.price) /\ p.item \in Products /\ p.subevent \in Products})
  BY DEF AnOrder
<1> HIDE DEF q
<1>2. DOMAIN q = 1..Len(q) /\ \A i \in 1..Len(q) : q[i] \in ToSet(q)
  BY <1>1, LenProperties DEF ToSet
<1>3. Places(q, Live(q), DOMAIN q) = {j \in DOMAIN q : ~q[j].canceled}
  BY <1>2 DEF Places, Live
<1>4. Len(Only(q, Live(q))) = Cardinality(Places(q, Live(q), DOMAIN q))
  BY <1>1, OnlyKeeps DEF Holds
<1>5. QED
  BY <1>3, <1>4 DEF q

\* search_orders.
LEMMA OrdersDescribed ==
  ASSUME NEW v, NEW s, Served(v, s), tool = "search_orders" PROVE Describes(v, s)
<1> DEFINE items == [i \in 1..Len(s) |-> _order_summary(copies[i])]
<1>1. /\ Len(s) \in Nat /\ DOMAIN s = 1..Len(s) /\ DOMAIN copies = 1..Len(s)
      /\ \A i \in 1..Len(s) : copies[i] = v[s[i]] /\ AnOrder(copies[i])
  BY ServedPlaces, ReportsAssumption DEF Served
<1>2. answer = listed(items)
  BY <1>1 DEF Served, Made, search_orders
<1>3. Len(items) = Len(s)
  BY <1>1
<1>4. answer.count = Len(s) /\ answer.results = items
  <2> HIDE DEF items
  <2>1. QED
    BY <1>2, <1>3 DEF listed
<1>5. ASSUME NEW i \in 1..Len(s), NEW of, of = v[s[i]]
      PROVE  items[i] = [status |-> of.status, total |-> of.total,
                         item_count |-> Cardinality({j \in DOMAIN of.positions :
                                                       ~of.positions[j].canceled})]
  <2>1. items[i] = _order_summary(of) /\ AnOrder(of)
    BY <1>1, <1>5
  <2> HIDE DEF items
  <2>2. QED
    BY <2>1, ItemsCounted DEF _order_summary
<1> HIDE DEF items
<1>6. QED
  BY <1>1, <1>4, <1>5 DEF Describes

\* A check-in is told by the latest.
LEMMA AttendeeLatest ==
  ASSUME NEW o, AnAttendee(o) PROVE ReportsLatest(o.checkins, _attendee(o))
<1> DEFINE q == o.checkins
           last == Latest(q)
           row == _attendee(o)
<1>1. row = [checked_in |-> q # <<>>,
             checkin_time |-> IF q # <<>> THEN last.datetime ELSE None,
             checkin_type |-> IF q # <<>> THEN last.type ELSE None]
  BY DEF _attendee
<1>2. q \in Seq({c \in ToSet(q) : c.datetime \in Nat})
  BY DEF AnAttendee
<1> HIDE DEF row, q, last
<1>3. row.checked_in <=> q # <<>>
  BY <1>1
<1>4. ASSUME q # <<>>
      PROVE  \E i \in DOMAIN q : /\ q[i].datetime = row.checkin_time /\ q[i].type = row.checkin_type
                                 /\ \A j \in DOMAIN q : q[j].datetime <= row.checkin_time
  <2>1. PICK i \in DOMAIN q : Latest(q) = q[i] /\ \A j \in DOMAIN q : q[j].datetime <= q[i].datetime
    BY <1>2, <1>4, LatestIsLast
  <2>2. row.checkin_time = last.datetime /\ row.checkin_type = last.type
    BY <1>1, <1>4
  <2>3. QED
    BY <2>1, <2>2 DEF last
<1>5. QED
  BY <1>3, <1>4 DEF ReportsLatest, row, q

\* list_checkins.
LEMMA CheckinsDescribed ==
  ASSUME NEW v, NEW s, Served(v, s), tool = "list_checkins" PROVE Describes(v, s)
<1> DEFINE items == [i \in 1..Len(s) |-> _attendee(copies[i])]
<1>1. /\ Len(s) \in Nat /\ DOMAIN s = 1..Len(s) /\ DOMAIN copies = 1..Len(s)
      /\ \A i \in 1..Len(s) : copies[i] = v[s[i]] /\ AnAttendee(copies[i])
  BY ServedPlaces, ReportsAssumption DEF Served
<1>2. answer = listed(items)
  BY <1>1 DEF Served, Made, list_checkins
<1>3. Len(items) = Len(s)
  BY <1>1
<1>4. answer.count = Len(s) /\ answer.results = items
  <2> HIDE DEF items
  <2>1. QED
    BY <1>2, <1>3 DEF listed
<1>5. ASSUME NEW i \in 1..Len(s) PROVE ReportsLatest(v[s[i]].checkins, items[i])
  <2>1. items[i] = _attendee(v[s[i]]) /\ AnAttendee(v[s[i]])
    BY <1>1, <1>5
  <2> HIDE DEF items
  <2>2. QED
    BY <2>1, AttendeeLatest
<1> HIDE DEF items
<1>6. QED
  BY <1>1, <1>4, <1>5 DEF Describes

\* P are the places of the rows of s that hold something of T.
Chosen(P, v, s, T) == P = {i \in 1..Len(s) : v[s[i]] \in T}

\* What a tool keeps of the rows it has: those at the places in P.
LEMMA ServedOnly ==
  ASSUME NEW v, NEW s, Served(v, s), NEW T, NEW P, Chosen(P, v, s, T)
  PROVE  /\ Len(Only(copies, T)) = Cardinality(P)
         /\ ToSet(Only(copies, T)) = {v[s[i]] : i \in P}
<1>1. Holds(Only(copies, T), copies, Places(copies, T, DOMAIN copies))
  BY OnlyKeeps DEF Served
<1>2. Places(copies, T, DOMAIN copies) = P /\ Len(copies) = Len(s)
  BY ServedPlaces DEF Served, Places, Chosen
<1>3. {copies[i] : i \in P} = {v[s[i]] : i \in P}
  BY DEF Served, Chosen
<1>4. QED
  BY <1>1, <1>2, <1>3 DEF Holds

\* list_events.
LEMMA EventsDescribed ==
  ASSUME NEW v, NEW s, Served(v, s), tool = "list_events" PROVE Describes(v, s)
<1> DEFINE shown == {i \in DOMAIN s : Allowlist = {} \/ v[s[i]].slug \in Allowlist}
           kept == Only(copies, Allowed(copies))
<1>1. answer = listed(kept)
  BY DEF Served, Made, list_events
<1>2. Chosen(shown, v, s, Allowed(copies))
  <2>1. Allowed(copies) = {e \in ToSet(copies) : Allowlist = {} \/ e.slug \in Allowlist}
    BY DEF Allowed, event_allowed
  <2>2. DOMAIN s = 1..Len(s) /\ \A i \in 1..Len(s) : v[s[i]] \in ToSet(copies)
    BY ServedPlaces
  <2>3. QED
    BY <2>1, <2>2 DEF Chosen
<1> HIDE DEF shown
<1>3. Len(kept) = Cardinality(shown) /\ ToSet(kept) = {v[s[i]] : i \in shown}
  BY <1>2, ServedOnly
<1> HIDE DEF kept
<1>4. answer.count = Cardinality(shown) /\ ToSet(answer.results) = {v[s[i]] : i \in shown}
  BY <1>1, <1>3 DEF listed
<1>5. QED
  BY <1>4 DEF Describes, shown

\* get_availability.
LEMMA AvailabilityDescribed ==
  ASSUME NEW v, NEW s, Served(v, s), tool = "get_availability" PROVE Describes(v, s)
<1> DEFINE gone == {i \in DOMAIN s : v[s[i]].available = FALSE}
           kept == Only(copies, SoldOut(copies))
<1>1. answer.sold_out = kept
  BY DEF Served, Made, get_availability
<1>2. Chosen(gone, v, s, SoldOut(copies))
  <2>1. DOMAIN s = 1..Len(s) /\ \A i \in 1..Len(s) : v[s[i]] \in ToSet(copies)
    BY ServedPlaces
  <2>2. QED
    BY <2>1 DEF SoldOut, Chosen
<1> HIDE DEF gone
<1>3. Len(kept) = Cardinality(gone) /\ ToSet(kept) = {v[s[i]] : i \in gone}
  BY <1>2, ServedOnly
<1> HIDE DEF kept
<1>4. QED
  BY <1>1, <1>3 DEF Describes, gone

\* The preview of publish_event.
LEMMA PreviewDescribed ==
  ASSUME NEW v, NEW s, Served(v, s), tool = "publish_event" PROVE Describes(v, s)
<1> DEFINE paid == {i \in DOMAIN s : v[s[i]].default_price \notin {None, 0}}
           kept == Only(copies, Paid(copies))
<1>1. answer = _go_live_readiness
  BY DEF Served, Made
<1>2. answer = [number |-> Len(copies), paid |-> Len(kept), warning |-> copies = <<>>]
  BY <1>1 DEF _go_live_readiness, Served, Returned
<1>3. /\ DOMAIN s = 1..Len(s) /\ Len(copies) = Len(s)
      /\ \A i \in 1..Len(s) : v[s[i]] \in ToSet(copies) /\ AProduct(v[s[i]])
  BY ServedPlaces, ReportsAssumption DEF Served
<1>4. Chosen(paid, v, s, Paid(copies))
  <2>1. \A i \in 1..Len(s) : v[s[i]].default_price \notin {None, 0}
                              <=> _money(v[s[i]].default_price) > 0
    BY <1>3 DEF AProduct, _money
  <2>2. QED
    BY <1>3, <2>1 DEF Paid, Chosen
<1>5. (copies = <<>>) = (s = <<>>)
  BY EmptySeq, LenProperties DEF Served
<1> HIDE DEF paid
<1>6. Len(kept) = Cardinality(paid)
  BY <1>4, ServedOnly
<1> HIDE DEF kept
<1>7. answer = [number |-> Len(s), paid |-> Cardinality(paid), warning |-> s = <<>>]
  BY <1>2, <1>3, <1>5, <1>6
<1>8. QED
  BY <1>7 DEF Describes, paid

\* Whatever the tool, the answer is what there is to say of the rows.
LEMMA AnswersDescribe == ASSUME NEW v, NEW s, Served(v, s) PROVE Describes(v, s)
<1>1. tool \in {"sales_summary", "search_orders", "list_checkins", "list_events",
                "get_availability", "publish_event"}
  BY ReportsAssumption DEF Served
<1>2. QED
  BY <1>1, SalesDescribed, OrdersDescribed, CheckinsDescribed, EventsDescribed,
     AvailabilityDescribed, PreviewDescribed

-----------------------------------------------------------------------------

\* Of a listing that stood still and that the cap did not cut, every tool tells what is there:
\* sales_summary each order and each ticket once, under its status, product and date, the
\* others each row that they are to show, and none more.
THEOREM ReportIsExactHolds == ReportsSpec => []ReportIsExact
<1>1. RInv /\ InputIsExact => ReportIsExact
  <2> SUFFICES ASSUME RInv, InputIsExact, answer # None, Returned, changes = {}, Len(past) = 1,
                      Len(rows) <= cap
               PROVE  Describes(object, rows)
    BY DEF ReportIsExact, Told
  <2>1. /\ Len(copies) = Len(rows) /\ \A i \in 1..Len(rows) : copies[i] = object[rows[i]]
    BY DEF InputIsExact
  <2>2. rows \in Seq(1..MaxRows) /\ Distinct(rows)
    BY DEF RInv, PInv, TypeOK, RowsKnown
  <2>3. tool \in DOMAIN Populations /\ copies \in Seq(ObjectsOf(tool)) /\ answer = Made
    BY DEF RInv, ReportsTypeOK, Faithful, AnswerMade
  <2>4. Served(object, rows)
    BY <2>1, <2>2, <2>3 DEF Served
  <2>5. QED
    BY <2>4, AnswersDescribe
<1>2. QED
  BY ReportsInvariant, InputIsExactHolds, <1>1, PTL

\* A list with as many elements as places has each once.
LEMMA NoneTwiceInAll ==
  ASSUME NEW X, NEW s \in Seq(X), Len(s) = Cardinality(ToSet(s)) PROVE Distinct(s)
<1>1. DOMAIN s = 1..Len(s) /\ Len(s) \in Nat
  BY LenProperties
<1>2. IsFiniteSet(1..Len(s)) /\ Cardinality(1..Len(s)) = Len(s)
  BY <1>1, FS_Interval
<1>3. s \in Surjection(1..Len(s), ToSet(s))
  <2>1. \A i \in 1..Len(s) : s[i] \in ToSet(s)
    BY <1>1 DEF ToSet
  <2>2. s = [i \in 1..Len(s) |-> s[i]]
    BY <1>1
  <2>3. \A t \in ToSet(s) : \E i \in 1..Len(s) : s[i] = t
    BY <1>1 DEF ToSet
  <2>4. s \in [1..Len(s) -> ToSet(s)]
    BY <2>1, <2>2
  <2>5. QED
    BY <2>3, <2>4 DEF Surjection
<1>4. s \in Injection(1..Len(s), ToSet(s))
  BY <1>2, <1>3, FS_Surjection
<1>5. QED
  BY <1>4 DEF Injection, IsInjective, Distinct

\* Whatever is edited between the pages, a scan that repeats no row tells what a listing holds
\* in which each row is as it was at one moment: the loops of the tools never take a part of an
\* order from one state and another part from a later one.
THEOREM EachRowInOneStateHolds == ReportsSpec => []EachRowInOneState
<1>1. RInv /\ InputInOneState => EachRowInOneState
  <2> SUFFICES ASSUME RInv, InputInOneState, answer # None, Returned,
                      Len(collected) = Cardinality(Read)
               PROVE  \E moment \in [Read -> DOMAIN past] :
                        Describes([r \in Read |-> past[moment[r]][r]], collected)
    BY DEF EachRowInOneState, Told
  <2>1. collected \in Seq(1..MaxRows) /\ Len(copies) = Len(collected)
    BY DEF RInv, PInv, TypeOK, Faithful
  <2>2. Distinct(collected)
    BY <2>1, NoneTwiceInAll DEF Read
  <2>3. PICK moment \in [Read -> DOMAIN past] :
               \A i \in 1..Len(copies) : copies[i] = past[moment[collected[i]]][collected[i]]
    BY <2>2 DEF InputInOneState
  <2> DEFINE v == [r \in Read |-> past[moment[r]][r]]
  <2>4. tool \in DOMAIN Populations /\ copies \in Seq(ObjectsOf(tool)) /\ answer = Made
    BY DEF RInv, ReportsTypeOK, Faithful, AnswerMade
  <2>5. \A i \in 1..Len(collected) : copies[i] = v[collected[i]]
    <3>1. \A i \in 1..Len(collected) : collected[i] \in Read
      BY <2>1, LenProperties DEF Read, ToSet
    <3>2. QED
      BY <2>1, <2>3, <3>1
  <2> HIDE DEF v
  <2>6. Served(v, collected)
    BY <2>1, <2>2, <2>4, <2>5 DEF Served
  <2>7. Describes(v, collected)
    BY <2>6, AnswersDescribe
  <2>8. QED
    BY <2>7 DEF v
<1>2. QED
  BY ReportsInvariant, InputInOneStateHolds, <1>1, PTL
=============================================================================
