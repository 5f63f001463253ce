--------------------------- MODULE PaginateProofs ---------------------------
(***************************************************************************)
(* What paginate returns of a listing that changes under it, for any       *)
(* number of rows, any size of page and any cap.                           *)
(***************************************************************************)
EXTENDS Paginate, SequenceTheorems, FiniteSetTheorems, TLAPS

\* How many places of the listing lie before the page that is asked for.
Base == (page - 1) * Size

Distinct(s) == \A i, j \in 1..Len(s) : s[i] = s[j] => i = j

\* Every row was made, and is in the listing once.
RowsKnown ==
  /\ Len(rows) <= made /\ before <= made
  /\ Distinct(rows)
  /\ \A i \in 1..Len(rows) : rows[i] <= made
  /\ \A k \in 1..Len(collected) : collected[k] <= made

\* What the page to come, and those after it, hold.
Ahead(x) == \E i \in 1..Len(rows) : i > Base /\ rows[i] = x

\* As long as nothing is put in front, what is collected does not come again.
NoRepeat ==
  order = "oldest" \/ "create" \notin changes =>
    /\ Distinct(collected)
    /\ state = "scanning" => \A k \in 1..Len(collected) : ~Ahead(collected[k])

\* As long as nothing is deleted, a row is collected or still to come.
NothingHidden ==
  state = "scanning" /\ "delete" \notin changes =>
    \A x \in 1..before : x \in Read \/ Ahead(x)

\* As long as nothing happens, what is collected is the pages before this one, all of them full.
Quiet ==
  state = "scanning" /\ changes = {} =>
    /\ Base < cap /\ Base <= Len(rows) /\ (page > 1 => Base < Len(rows))
    /\ Len(collected) = Base /\ \A k \in 1..Base : collected[k] = rows[k]
    /\ IF page = 1 THEN total = None ELSE total = Len(rows)

PInv == /\ TypeOK /\ RowsKnown /\ NoRepeat
        /\ NothingHidden /\ GrowthHidesNothing
        /\ Quiet /\ QuietIsExact

-----------------------------------------------------------------------------
(* Pages.                                                                  *)

\* Pages of the same size follow each other without a gap.
LEMMA Pages ==
  \A p \in Nat \ {0}, s \in Nat : (p - 1) * s \in Nat /\ p * s = (p - 1) * s + s
OBVIOUS

\* A cap on the end of a page is reached by whole pages.
LEMMA WholePages ==
  ASSUME NEW c \in Nat, NEW s \in Nat \ {0}, c % s = 0,
         NEW p \in Nat \ {0}, (p - 1) * s < c
  PROVE  p * s <= c
<1> DEFINE m == c \div s
<1>1. m \in Nat /\ c = s * m
  OBVIOUS
<1>2. CASE p <= m
  <2>1. PICK k \in Nat : m = p + k
    BY <1>1, <1>2, m - p \in Nat
  <2>2. s * m = p * s + s * k /\ s * k \in Nat /\ p * s \in Nat
    BY <2>1
  <2>3. QED
    BY <1>1, <2>2
<1>3. CASE p > m
  <2>1. PICK k \in Nat : p - 1 = m + k
    BY <1>1, <1>3, p - 1 - m \in Nat
  <2>2. (p - 1) * s = s * m + s * k /\ s * k \in Nat
    BY <1>1, <2>1
  <2>3. QED
    BY <1>1, <2>2
<1>4. QED
  BY <1>1, <1>2, <1>3

\* The first places of a sequence.
LEMMA FirstPlaces ==
  ASSUME NEW T, NEW s \in Seq(T), NEW n \in Nat
  PROVE  /\ FirstOf(s, n) \in Seq(T)
         /\ Len(FirstOf(s, n)) = MinOf(n, Len(s))
         /\ \A i \in 1..MinOf(n, Len(s)) : FirstOf(s, n)[i] = s[i]
<1>1. Len(s) \in Nat /\ \A i \in 1..Len(s) : s[i] \in T
  BY LenProperties, ElementOfSeq
<1>2. MinOf(n, Len(s)) \in 0..Len(s)
  BY <1>1 DEF MinOf
<1>3. \A i \in 1..MinOf(n, Len(s)) : s[i] \in T
  BY <1>1, <1>2
<1> DEFINE k == MinOf(n, Len(s))
<1>4. /\ SubSeq(s, 1, k) \in Seq(T)
      /\ Len(SubSeq(s, 1, k)) = IF 1 <= k THEN k - 1 + 1 ELSE 0
      /\ \A i \in 1..k - 1 + 1 : SubSeq(s, 1, k)[i] = s[1 + i - 1]
  BY <1>2, <1>3, SubSeqProperties
<1>5. Len(SubSeq(s, 1, k)) = k /\ k - 1 + 1 = k
  BY <1>2, <1>4
<1>6. \A i \in 1..k : SubSeq(s, 1, k)[i] = s[i]
  BY <1>2, <1>4, <1>5
<1>7. QED
  BY <1>4, <1>5, <1>6 DEF FirstOf

\* Where the scan is.
Sized ==
  /\ Size \in Nat \ {0} /\ Size <= cap /\ cap \in Nat \ {0} /\ page \in Nat \ {0}
  /\ Base \in Nat /\ page * Size = Base + Size /\ (page = 1 => Base = 0)
  /\ Len(rows) \in Nat /\ Len(collected) \in Nat
  /\ \A i \in 1..Len(rows) : rows[i] \in 1..MaxRows
  /\ \A k \in 1..Len(collected) : collected[k] \in 1..MaxRows

\* The numbers a page is made of are in bounds.
LEMMA Sizes == ASSUME TypeOK PROVE Sized
<1>1. cap \in Nat \ {0} /\ page \in Nat \ {0}
  BY PaginateAssumption DEF TypeOK
<1>2. Size \in Nat \ {0} /\ Size <= cap
  BY <1>1, PaginateAssumption DEF Size, MinOf
<1>3. Base \in Nat /\ page * Size = Base + Size
  BY <1>1, <1>2, Pages DEF Base
<1>4. page = 1 => Base = 0
  BY <1>2 DEF Base
<1>5. Len(rows) \in Nat /\ Len(collected) \in Nat
  BY LenProperties DEF TypeOK
<1>6. \A i \in 1..Len(rows) : rows[i] \in 1..MaxRows
  BY ElementOfSeq DEF TypeOK
<1>7. \A k \in 1..Len(collected) : collected[k] \in 1..MaxRows
  BY ElementOfSeq DEF TypeOK
<1>8. QED
  BY <1>1, <1>2, <1>3, <1>4, <1>5, <1>6, <1>7 DEF Sized

\* The page is the next Size places of the listing, or what is left of it.
LEMMA PageHolds ==
  ASSUME TypeOK, Exists
  PROVE  /\ Page \in Seq(1..MaxRows)
         /\ Len(Page) = MinOf(Base + Size, Len(rows)) - Base /\ Len(Page) \in Nat
         /\ \A i \in 1..Len(Page) : Base + i \in 1..Len(rows) /\ Page[i] = rows[Base + i]
<1> DEFINE end == MinOf(page * Size, Len(rows))
<1>a. Sized
  BY Sizes
<1>1. end \in Base..Len(rows) /\ end = MinOf(Base + Size, Len(rows))
  BY <1>a DEF Sized, MinOf, Exists, Base
<1>2. \A i \in Base + 1..end : rows[i] \in 1..MaxRows
  BY <1>a, <1>1 DEF Sized
<1>3. /\ Page \in Seq(1..MaxRows)
      /\ Len(Page) = IF Base + 1 <= end THEN end - (Base + 1) + 1 ELSE 0
      /\ \A i \in 1..end - (Base + 1) + 1 : Page[i] = rows[Base + 1 + i - 1]
  <2>1. Base + 1 \in Int /\ end \in Int
    BY <1>a, <1>1 DEF Sized
  <2>2. Page = SubSeq(rows, Base + 1, end)
    BY DEF Page, Base
  <2> HIDE DEF end
  <2>3. QED
    BY <1>2, <2>1, <2>2, SubSeqProperties
<1> HIDE DEF end
<1>4. Len(Page) = end - Base /\ Len(Page) \in Nat
  BY <1>a, <1>1, <1>3 DEF Sized
<1>5. ASSUME NEW i \in 1..Len(Page) PROVE Base + i \in 1..Len(rows) /\ Page[i] = rows[Base + i]
  <2>1. i \in 1..end - (Base + 1) + 1 /\ Base + 1 + i - 1 = Base + i /\ Base + i \in 1..Len(rows)
    BY <1>a, <1>1, <1>4 DEF Sized
  <2>2. QED
    BY <1>3, <2>1
<1>6. QED
  BY <1>1, <1>3, <1>4, <1>5

\* What paginate has when it has read the page.
LEMMA ReadsPage ==
  ASSUME TypeOK, Exists, Collect
  PROVE  /\ collected' \in Seq(1..MaxRows)
         /\ Len(collected') = MinOf(cap, Len(collected) + Len(Page))
         /\ \A k \in 1..Len(collected') :
              IF k <= Len(collected) THEN collected'[k] = collected[k]
              ELSE /\ Base + (k - Len(collected)) \in 1..Len(rows)
                   /\ k - Len(collected) \in 1..Len(Page)
                   /\ collected'[k] = rows[Base + (k - Len(collected))]
<1> DEFINE all == collected \o Page
<1>a. Sized /\ collected \in Seq(1..MaxRows)
  BY Sizes DEF TypeOK
<1>1. /\ Page \in Seq(1..MaxRows) /\ Len(Page) \in Nat
      /\ \A i \in 1..Len(Page) : Base + i \in 1..Len(rows) /\ Page[i] = rows[Base + i]
  BY PageHolds
<1>2. /\ all \in Seq(1..MaxRows) /\ Len(all) = Len(collected) + Len(Page)
      /\ \A k \in 1..Len(collected) + Len(Page) :
           all[k] = IF k <= Len(collected) THEN collected[k] ELSE Page[k - Len(collected)]
  BY <1>a, <1>1, ConcatProperties
<1> HIDE DEF all
<1>3. collected' = FirstOf(all, cap)
  BY DEF Collect, all
<1>4. /\ collected' \in Seq(1..MaxRows) /\ Len(collected') = MinOf(cap, Len(all))
      /\ \A k \in 1..MinOf(cap, Len(all)) : collected'[k] = all[k]
  BY <1>a, <1>2, <1>3, FirstPlaces DEF Sized
<1>5. ASSUME NEW k \in 1..Len(collected')
      PROVE  IF k <= Len(collected) THEN collected'[k] = collected[k]
             ELSE /\ Base + (k - Len(collected)) \in 1..Len(rows)
                  /\ k - Len(collected) \in 1..Len(Page)
                  /\ collected'[k] = rows[Base + (k - Len(collected))]
  <2>1. k \in 1..Len(collected) + Len(Page) /\ collected'[k] = all[k]
    BY <1>a, <1>1, <1>2, <1>4 DEF MinOf, Sized
  <2>2. CASE k <= Len(collected)
    BY <1>2, <2>1, <2>2
  <2>3. CASE ~(k <= Len(collected))
    <3>1. k - Len(collected) \in 1..Len(Page)
      BY <1>a, <1>1, <2>1, <2>3 DEF Sized
    <3>2. collected'[k] = Page[k - Len(collected)]
      BY <1>2, <2>1, <2>3
    <3>3. QED
      BY <1>1, <2>3, <3>1, <3>2
  <2>4. QED
    BY <2>2, <2>3
<1>6. QED
  BY <1>2, <1>4, <1>5

-----------------------------------------------------------------------------
(* The steps.                                                              *)

\* Nothing is collected yet.
LEMMA ScanInit == Init => PInv
<1> SUFFICES ASSUME Init PROVE PInv
  OBVIOUS
<1> USE DEF Init
<1>1. Len(rows) = made /\ rows \in Seq(1..MaxRows) /\ made \in Nat
  <2>1. CASE order = "oldest"
    BY <2>1, PaginateAssumption
  <2>2. CASE order # "oldest"
    BY <2>2, PaginateAssumption
  <2>3. QED
    BY <2>1, <2>2
<1>2. TypeOK
  BY <1>1, EmptySeq, PaginateAssumption DEF TypeOK
<1>3. \A i \in 1..made : rows[i] = IF order = "oldest" THEN i ELSE made + 1 - i
  OBVIOUS
<1>4. RowsKnown
  BY <1>1, <1>3 DEF RowsKnown, Distinct
<1>5. Base = 0
  BY <1>2, Sizes DEF Sized
<1>6. NothingHidden
  <2> SUFFICES ASSUME NEW x \in 1..before PROVE Ahead(x)
    BY DEF NothingHidden
  <2>1. CASE order = "oldest"
    BY <1>1, <1>3, <1>5, <2>1 DEF Ahead
  <2>2. CASE order # "oldest"
    <3>1. made + 1 - x \in 1..made /\ rows[made + 1 - x] = x
      BY <1>1, <1>3, <2>2
    <3>2. QED
      BY <1>1, <1>5, <3>1 DEF Ahead
  <2>3. QED
    BY <2>1, <2>2
<1>7. NoRepeat /\ Quiet
  BY <1>1, <1>2, <1>5, Sizes DEF NoRepeat, Distinct, Quiet, Sized
<1>8. QED
  BY <1>2, <1>4, <1>6, <1>7 DEF PInv, GrowthHidesNothing, QuietIsExact, Returned

\* A page adds rows that were made, and none twice that the scan has not passed.
LEMMA ReadKeeps ==
  ASSUME PInv, state = "scanning", Exists, Collect, UNCHANGED <<listing, cap>>
  PROVE  /\ collected' \in Seq(1..MaxRows) /\ total' \in 0..MaxRows \cup {None}
         /\ RowsKnown'
         /\ order = "oldest" \/ "create" \notin changes => Distinct(collected)'
<1>a. TypeOK /\ RowsKnown /\ NoRepeat /\ Sized
  BY Sizes DEF PInv
<1>b. rows' = rows /\ made' = made /\ before' = before
  BY DEF listing
<1>1. /\ collected' \in Seq(1..MaxRows)
      /\ \A k \in 1..Len(collected') :
           IF k <= Len(collected) THEN collected'[k] = collected[k]
           ELSE /\ Base + (k - Len(collected)) \in 1..Len(rows)
                /\ k - Len(collected) \in 1..Len(Page)
                /\ collected'[k] = rows[Base + (k - Len(collected))]
  BY <1>a, ReadsPage
<1>2. total' \in 0..MaxRows \cup {None}
  BY <1>a, PaginateAssumption DEF Collect, TypeOK, RowsKnown, Sized
<1>3. RowsKnown'
  <2>1. ASSUME NEW k \in 1..Len(collected') PROVE collected'[k] <= made
    <3>1. CASE k <= Len(collected)
      <4>1. Len(collected') \in Nat
        BY <1>1, LenProperties
      <4>2. k \in 1..Len(collected) /\ collected'[k] = collected[k]
        BY <1>a, <1>1, <3>1, <4>1 DEF Sized
      <4>3. QED
        BY <1>a, <4>2 DEF RowsKnown
    <3>2. CASE ~(k <= Len(collected))
      BY <1>a, <1>1, <3>2 DEF RowsKnown
    <3>3. QED
      BY <3>1, <3>2
  <2>2. QED
    BY <1>a, <1>b, <2>1 DEF RowsKnown, Distinct
<1>4. ASSUME order = "oldest" \/ "create" \notin changes PROVE Distinct(collected)'
  <2> SUFFICES ASSUME NEW i \in 1..Len(collected'), NEW k \in 1..Len(collected'), i < k,
                      collected'[i] = collected'[k]
               PROVE  FALSE
    <3>1. \A i, k \in 1..Len(collected') : i < k => collected'[i] # collected'[k]
      OBVIOUS
    <3>2. Len(collected') \in Nat
      BY <1>1, LenProperties
    <3>3. QED
      BY <3>1, <3>2 DEF Distinct
  <2>a. i \in Nat /\ k \in Nat /\ Len(collected) \in Nat /\ Base \in Nat
    BY <1>a, <1>1, LenProperties DEF Sized
  <2>1. CASE k <= Len(collected)
    BY <1>a, <1>1, <1>4, <2>1, <2>a DEF NoRepeat, Distinct
  <2>2. CASE i <= Len(collected) /\ ~(k <= Len(collected))
    <3>1. collected[i] = rows[Base + (k - Len(collected))] /\ i \in 1..Len(collected)
      BY <1>1, <2>2, <2>a
    <3>2. Base + (k - Len(collected)) \in 1..Len(rows) /\ Base + (k - Len(collected)) > Base
      BY <1>1, <2>2, <2>a
    <3>3. QED
      BY <1>a, <1>4, <3>1, <3>2 DEF NoRepeat, Ahead
  <2>3. CASE ~(i <= Len(collected))
    <3>1. ~(k <= Len(collected))
      BY <2>3, <2>a
    <3>2. Base + (i - Len(collected)) = Base + (k - Len(collected))
      BY <1>a, <1>1, <2>3, <3>1 DEF RowsKnown, Distinct
    <3>3. QED
      BY <2>a, <3>2
  <2>4. QED
    BY <2>1, <2>2, <2>3
<1>5. QED
  BY <1>1, <1>2, <1>3, <1>4

\* With a next page, this one is full, and the cap has not cut it.
LEMMA NextPageKeeps == PInv /\ NextPage => PInv'
<1> SUFFICES ASSUME PInv, NextPage PROVE PInv'
  OBVIOUS
<1>a. /\ TypeOK /\ RowsKnown /\ NoRepeat /\ NothingHidden /\ Quiet
  BY DEF PInv
<1>s. Sized
  BY <1>a, Sizes
<1>b. /\ state = "scanning" /\ Exists /\ HasNext /\ ~Full /\ Collect /\ page' = page + 1
      /\ UNCHANGED <<listing, cap>>
      /\ order' = order /\ rows' = rows /\ made' = made /\ before' = before
      /\ changes' = changes /\ cap' = cap /\ state' = state
  BY DEF NextPage, listing
<1>c. Base' = Base + Size
  <2>1. page' - 1 = page /\ Size' = Size
    BY <1>b, <1>s DEF Sized, Size
  <2>2. QED
    BY <1>s, <2>1 DEF Base, Sized
<1>d. Len(Page) = Size /\ Len(rows) > Base + Size /\ Len(collected) + Size < cap
  <2>1. Len(rows) > Base + Size
    BY <1>b, <1>s DEF HasNext, Sized
  <2>2. Len(Page) = Size
    BY <1>a, <1>b, <1>s, <2>1, PageHolds DEF MinOf, Sized
  <2>3. ~(Len(collected) + Len(Page) >= cap)
    BY <1>b DEF Full
  <2>4. QED
    BY <1>s, <2>1, <2>2, <2>3 DEF Sized
<1>e. /\ Len(collected') = Len(collected) + Size
      /\ \A k \in 1..Len(collected) : collected'[k] = collected[k]
      /\ \A j \in 1..Size : collected'[Len(collected) + j] = rows[Base + j]
  <2>1. Len(collected') = Len(collected) + Size
    BY <1>a, <1>b, <1>d, <1>s, ReadsPage DEF MinOf, Sized
  <2>2. \A k \in 1..Len(collected') :
          IF k <= Len(collected) THEN collected'[k] = collected[k]
          ELSE collected'[k] = rows[Base + (k - Len(collected))]
    BY <1>a, <1>b, ReadsPage
  <2>3. \A k \in 1..Len(collected) : collected'[k] = collected[k]
    BY <1>s, <2>1, <2>2 DEF Sized
  <2>4. ASSUME NEW j \in 1..Size PROVE collected'[Len(collected) + j] = rows[Base + j]
    <3>1. /\ Len(collected) + j \in 1..Len(collected') /\ ~(Len(collected) + j <= Len(collected))
          /\ Len(collected) + j - Len(collected) = j
      BY <1>s, <2>1 DEF Sized
    <3>2. QED
      BY <2>2, <3>1
  <2>5. QED
    BY <2>1, <2>3, <2>4
<1>f. \A k \in 1..Len(collected') :
        k \in 1..Len(collected) \/ \E j \in 1..Size : k = Len(collected) + j
  <2> SUFFICES ASSUME NEW k \in 1..Len(collected'), k \notin 1..Len(collected)
               PROVE  \E j \in 1..Size : k = Len(collected) + j
    OBVIOUS
  <2>1. k - Len(collected) \in 1..Size /\ k = Len(collected) + (k - Len(collected))
    BY <1>e, <1>s DEF Sized
  <2>2. QED
    BY <2>1
<1>g. \A x : Ahead(x)' <=> \E i \in 1..Len(rows) : i > Base + Size /\ rows[i] = x
  BY <1>b, <1>c DEF Ahead
<1>k. /\ collected' \in Seq(1..MaxRows) /\ total' \in 0..MaxRows \cup {None}
      /\ RowsKnown'
      /\ order = "oldest" \/ "create" \notin changes => Distinct(collected)'
  BY <1>b, ReadKeeps
<1>1. TypeOK'
  BY <1>a, <1>b, <1>k DEF TypeOK
<1>2. NoRepeat'
  <2> SUFFICES ASSUME order = "oldest" \/ "create" \notin changes,
                      NEW k \in 1..Len(collected'), NEW i \in 1..Len(rows),
                      i > Base + Size, rows[i] = collected'[k]
               PROVE  FALSE
    BY <1>b, <1>g, <1>k DEF NoRepeat
  <2>1. CASE k \in 1..Len(collected)
    <3>1. rows[i] = collected[k] /\ i > Base
      BY <1>e, <1>s, <2>1 DEF Sized
    <3>2. QED
      BY <1>a, <1>b, <2>1, <3>1 DEF NoRepeat, Ahead
  <2>2. CASE \E j \in 1..Size : k = Len(collected) + j
    <3>1. PICK j \in 1..Size : k = Len(collected) + j
      BY <2>2
    <3>2. rows[i] = rows[Base + j] /\ Base + j \in 1..Len(rows) /\ Base + j # i
      BY <1>d, <1>e, <1>s, <3>1 DEF Sized
    <3>3. QED
      BY <1>a, <3>2 DEF RowsKnown, Distinct
  <2>3. QED
    BY <1>f, <2>1, <2>2
<1>3. NothingHidden'
  <2> SUFFICES ASSUME "delete" \notin changes, NEW x \in 1..before
               PROVE  x \in Read' \/ Ahead(x)'
    BY <1>b DEF NothingHidden
  <2>a. \A k \in 1..Len(collected') : collected'[k] \in Read'
    BY <1>k, LenProperties DEF Read, ToSet
  <2>1. CASE x \in Read
    <3>1. PICK k \in 1..Len(collected) : collected[k] = x
      BY <1>a, <2>1, LenProperties DEF Read, ToSet, TypeOK
    <3>2. k \in 1..Len(collected') /\ collected'[k] = x
      BY <1>e, <1>s, <3>1 DEF Sized
    <3>3. QED
      BY <2>a, <3>2
  <2>2. CASE Ahead(x)
    <3>1. PICK i \in 1..Len(rows) : i > Base /\ rows[i] = x
      BY <2>2 DEF Ahead
    <3>2. CASE i > Base + Size
      BY <1>g, <3>1, <3>2
    <3>3. CASE ~(i > Base + Size)
      <4>1. /\ i - Base \in 1..Size /\ Base + (i - Base) = i
            /\ Len(collected) + (i - Base) \in 1..Len(collected')
        BY <1>e, <1>s, <3>1, <3>3 DEF Sized
      <4>2. collected'[Len(collected) + (i - Base)] = x
        BY <1>e, <3>1, <4>1
      <4>3. QED
        BY <2>a, <4>1, <4>2
    <3>4. QED
      BY <3>2, <3>3
  <2>3. QED
    BY <1>a, <1>b, <2>1, <2>2 DEF NothingHidden
<1>4. Quiet'
  <2> SUFFICES ASSUME changes = {}
               PROVE  /\ Base' < cap /\ Base' < Len(rows) /\ Len(collected') = Base'
                      /\ \A k \in 1..Base' : collected'[k] = rows[k]
                      /\ page' # 1 /\ total' = Len(rows)
    BY <1>b, <1>c, <1>s DEF Quiet, Sized
  <2>1. /\ Len(collected) = Base /\ \A k \in 1..Base : collected[k] = rows[k]
        /\ IF page = 1 THEN total = None ELSE total = Len(rows)
    BY <1>a, <1>b DEF Quiet
  <2>2. ASSUME NEW k \in 1..Base' PROVE collected'[k] = rows[k]
    <3>1. k \in 1..Len(collected')
      BY <1>c, <1>e, <2>1
    <3>2. CASE k \in 1..Len(collected)
      BY <1>e, <2>1, <3>2
    <3>3. CASE \E j \in 1..Size : k = Len(collected) + j
      BY <1>e, <2>1, <3>3
    <3>4. QED
      BY <1>f, <3>1, <3>2, <3>3
  <2>3. total' = Len(rows)
    BY <1>b, <2>1 DEF Collect
  <2>4. QED
    BY <1>b, <1>c, <1>d, <1>e, <1>s, <2>1, <2>2, <2>3 DEF Sized
<1>5. QED
  BY <1>b, <1>k, <1>1, <1>2, <1>3, <1>4
     DEF PInv, GrowthHidesNothing, QuietIsExact, Returned

\* The last page ends with the listing.
LEMMA LastPageKeeps == PInv /\ LastPage => PInv'
<1> SUFFICES ASSUME PInv, LastPage PROVE PInv'
  OBVIOUS
<1>a. TypeOK /\ RowsKnown /\ NoRepeat /\ NothingHidden /\ Quiet
  BY DEF PInv
<1>s. Sized
  BY <1>a, Sizes
<1>b. /\ state = "scanning" /\ Exists /\ ~HasNext /\ Collect /\ page' = page
      /\ UNCHANGED <<listing, cap>> /\ state' = "complete"
      /\ order' = order /\ rows' = rows /\ made' = made /\ before' = before
      /\ changes' = changes /\ cap' = cap
  BY DEF LastPage, listing
<1>c. Len(Page) = Len(rows) - Base /\ Len(rows) <= Base + Size /\ Base <= Len(rows)
  <2>1. Len(rows) <= Base + Size
    BY <1>b, <1>s DEF HasNext, Sized
  <2>2. Len(Page) = MinOf(Base + Size, Len(rows)) - Base /\ Len(Page) \in Nat
    BY <1>a, <1>b, PageHolds
  <2>3. QED
    BY <1>s, <2>1, <2>2 DEF MinOf, Sized
<1>e. /\ Len(collected') = MinOf(cap, Len(collected) + (Len(rows) - Base))
      /\ \A k \in 1..Len(collected') :
           IF k <= Len(collected) THEN collected'[k] = collected[k]
           ELSE collected'[k] = rows[Base + (k - Len(collected))]
  BY <1>a, <1>b, <1>c, ReadsPage
<1>k. /\ collected' \in Seq(1..MaxRows) /\ total' \in 0..MaxRows \cup {None}
      /\ RowsKnown'
      /\ order = "oldest" \/ "create" \notin changes => Distinct(collected)'
  BY <1>b, ReadKeeps
<1>1. TypeOK'
  BY <1>a, <1>b, <1>k DEF TypeOK, Ended
<1>2. NoRepeat' /\ NothingHidden' /\ Quiet'
  BY <1>b, <1>k DEF NoRepeat, NothingHidden, Quiet
<1>3. GrowthHidesNothing'
  <2> SUFFICES ASSUME "delete" \notin changes, Len(collected') < cap, NEW x \in 1..before
               PROVE  x \in Read'
    BY <1>b DEF GrowthHidesNothing
  <2>a. \A k \in 1..Len(collected') : collected'[k] \in Read'
    BY <1>k, LenProperties DEF Read, ToSet
  <2>b. Len(collected') = Len(collected) + (Len(rows) - Base)
    BY <1>e, <1>c, <1>s DEF MinOf, Sized
  <2>1. CASE x \in Read
    <3>1. PICK k \in 1..Len(collected) : collected[k] = x
      BY <1>a, <2>1, LenProperties DEF Read, ToSet, TypeOK
    <3>2. k \in 1..Len(collected') /\ k <= Len(collected)
      BY <1>c, <1>s, <2>b, <3>1 DEF Sized
    <3>3. QED
      BY <1>e, <2>a, <3>1, <3>2
  <2>2. CASE Ahead(x)
    <3>1. PICK i \in 1..Len(rows) : i > Base /\ rows[i] = x
      BY <2>2 DEF Ahead
    <3> DEFINE k == Len(collected) + (i - Base)
    <3>2. k \in 1..Len(collected') /\ ~(k <= Len(collected)) /\ Base + (k - Len(collected)) = i
      BY <1>s, <2>b, <3>1 DEF Sized
    <3> HIDE DEF k
    <3>3. QED
      BY <1>e, <2>a, <3>1, <3>2
  <2>3. QED
    BY <1>a, <1>b, <2>1, <2>2 DEF NothingHidden
<1>4. QuietIsExact'
  <2> SUFFICES ASSUME changes = {}
               PROVE  /\ collected' = FirstOf(rows, cap) /\ total' = Len(rows)
                      /\ Aligned => ~(Len(rows) > cap)
    <3>1. Aligned' <=> Aligned
      BY <1>b DEF Aligned, Size
    <3>2. QED
      BY <1>b, <3>1 DEF QuietIsExact, Returned
  <2>1. /\ Len(collected) = Base /\ \A k \in 1..Base : collected[k] = rows[k] /\ Base < cap
        /\ IF page = 1 THEN total = None ELSE total = Len(rows)
    BY <1>a, <1>b DEF Quiet
  <2>2. Len(collected') = MinOf(cap, Len(rows)) /\ Len(collected') <= Len(rows)
    BY <1>c, <1>e, <1>s, <2>1 DEF MinOf, Sized
  <2>3. ASSUME NEW k \in 1..Len(collected') PROVE collected'[k] = rows[k]
    <3>1. CASE k <= Len(collected)
      BY <1>e, <1>s, <2>1, <3>1 DEF Sized
    <3>2. CASE ~(k <= Len(collected))
      BY <1>e, <1>s, <2>1, <3>2 DEF Sized
    <3>3. QED
      BY <3>1, <3>2
  <2>4. /\ FirstOf(rows, cap) \in Seq(1..MaxRows)
        /\ Len(FirstOf(rows, cap)) = MinOf(cap, Len(rows))
        /\ \A k \in 1..MinOf(cap, Len(rows)) : FirstOf(rows, cap)[k] = rows[k]
    BY <1>a, <1>s, FirstPlaces DEF TypeOK, Sized
  <2>5. collected' = FirstOf(rows, cap)
    BY <1>k, <2>2, <2>3, <2>4, SeqEqual
  <2>6. total' = Len(rows)
    BY <1>b, <2>1 DEF Collect
  <2>7. ASSUME Aligned PROVE page * Size <= cap
    <3>1. /\ cap \in Nat /\ Size \in Nat \ {0} /\ page \in Nat \ {0}
          /\ cap % Size = 0 /\ (page - 1) * Size < cap
      BY <1>s, <2>1, <2>7 DEF Aligned, Base, Sized
    <3>2. QED
      BY <3>1, WholePages
  <2>8. QED
    BY <1>c, <1>s, <2>5, <2>6, <2>7 DEF Sized
<1>5. QED
  BY <1>k, <1>1, <1>2, <1>3, <1>4 DEF PInv

\* The cap cuts a listing that goes on.
LEMMA StopsAtCapKeeps == PInv /\ StopsAtCap => PInv'
<1> SUFFICES ASSUME PInv, StopsAtCap PROVE PInv'
  OBVIOUS
<1>a. TypeOK /\ RowsKnown /\ NoRepeat /\ NothingHidden /\ Quiet
  BY DEF PInv
<1>s. Sized
  BY <1>a, Sizes
<1>b. /\ state = "scanning" /\ Exists /\ HasNext /\ Full /\ Collect /\ page' = page
      /\ UNCHANGED <<listing, cap>> /\ state' = "truncated"
      /\ order' = order /\ rows' = rows /\ made' = made /\ before' = before
      /\ changes' = changes /\ cap' = cap
  BY DEF StopsAtCap, listing
<1>k. /\ collected' \in Seq(1..MaxRows) /\ total' \in 0..MaxRows \cup {None}
      /\ RowsKnown'
      /\ order = "oldest" \/ "create" \notin changes => Distinct(collected)'
  BY <1>b, ReadKeeps
<1>1. TypeOK'
  BY <1>a, <1>b, <1>k DEF TypeOK, Ended
<1>2. NoRepeat' /\ NothingHidden' /\ Quiet' /\ GrowthHidesNothing'
  BY <1>b, <1>k DEF NoRepeat, NothingHidden, Quiet, GrowthHidesNothing
<1>3. QuietIsExact'
  <2> SUFFICES ASSUME changes = {}
               PROVE  collected' = FirstOf(rows, cap) /\ total' = Len(rows) /\ Len(rows) > cap
    BY <1>b DEF QuietIsExact, Returned
  <2>1. /\ Len(collected) = Base /\ \A k \in 1..Base : collected[k] = rows[k]
        /\ IF page = 1 THEN total = None ELSE total = Len(rows)
    BY <1>a, <1>b DEF Quiet
  <2>2. Len(rows) > Base + Size
    BY <1>b, <1>s DEF HasNext, Sized
  <2>3. Len(Page) = Size
    BY <1>a, <1>b, <1>s, <2>2, PageHolds DEF MinOf, Sized
  <2>4. Base + Size >= cap
    BY <1>b, <2>1, <2>3 DEF Full
  <2>5. /\ Len(collected') = cap /\ Len(rows) > cap
        /\ \A k \in 1..Len(collected') :
             IF k <= Len(collected) THEN collected'[k] = collected[k]
             ELSE collected'[k] = rows[Base + (k - Len(collected))]
    <3>1. Len(collected') = MinOf(cap, Len(collected) + Len(Page))
      BY <1>a, <1>b, ReadsPage
    <3>2. QED
      BY <1>a, <1>b, <1>s, <2>1, <2>2, <2>3, <2>4, <3>1, ReadsPage DEF MinOf, Sized
  <2>6. ASSUME NEW k \in 1..Len(collected') PROVE collected'[k] = rows[k]
    <3>1. CASE k <= Len(collected)
      BY <1>s, <2>1, <2>5, <3>1 DEF Sized
    <3>2. CASE ~(k <= Len(collected))
      BY <1>s, <2>1, <2>5, <3>2 DEF Sized
    <3>3. QED
      BY <3>1, <3>2
  <2>7. /\ FirstOf(rows, cap) \in Seq(1..MaxRows)
        /\ Len(FirstOf(rows, cap)) = MinOf(cap, Len(rows))
        /\ \A k \in 1..MinOf(cap, Len(rows)) : FirstOf(rows, cap)[k] = rows[k]
    BY <1>a, <1>s, FirstPlaces DEF TypeOK, Sized
  <2>8. MinOf(cap, Len(rows)) = cap
    BY <1>s, <2>5 DEF MinOf, Sized
  <2>9. collected' = FirstOf(rows, cap)
    BY <1>k, <2>5, <2>6, <2>7, <2>8, SeqEqual
  <2>10. total' = Len(rows)
    BY <1>b, <2>1 DEF Collect
  <2>11. QED
    BY <2>5, <2>9, <2>10
<1>4. QED
  BY <1>k, <1>1, <1>2, <1>3 DEF PInv

\* A row is created: at the end of a listing by age, else in front of everything.
LEMMA CreateKeeps == PInv /\ Create => PInv'
<1> SUFFICES ASSUME PInv, Create PROVE PInv'
  OBVIOUS
<1>a. TypeOK /\ RowsKnown /\ NoRepeat /\ NothingHidden /\ rows \in Seq(1..MaxRows)
  BY DEF PInv, TypeOK
<1>s. Sized
  BY <1>a, Sizes
<1>b. /\ "create" \in Changes /\ state = "scanning" /\ made < MaxRows /\ made' = made + 1
      /\ changes' = changes \cup {"create"} /\ order' = order /\ before' = before
      /\ cap' = cap /\ collected' = collected /\ page' = page /\ total' = total
      /\ state' = state
  BY DEF Create, scan
<1>c. Base' = Base /\ Base \in Nat
  BY <1>b, <1>s DEF Base, Size, Sized
<1>d. made + 1 \in 1..MaxRows /\ made \in Nat /\ before \in Nat
  BY <1>a, <1>b, PaginateAssumption DEF TypeOK
<1>1. CASE order = "oldest"
  <2>1. /\ rows' \in Seq(1..MaxRows) /\ Len(rows') = Len(rows) + 1
        /\ \A i \in 1..Len(rows) : rows'[i] = rows[i]
        /\ rows'[Len(rows) + 1] = made + 1
    BY <1>1, <1>a, <1>d, AppendProperties DEF Create
  <2>2. \A i \in 1..Len(rows') : i \in 1..Len(rows) \/ i = Len(rows) + 1
    BY <1>s, <2>1 DEF Sized
  <2>3. RowsKnown'
    <3>1. \A n \in 1..Len(rows) : rows[n] \in Nat /\ rows[n] # made + 1 /\ rows[n] <= made + 1
      BY <1>a, <1>d, <1>s DEF RowsKnown, Sized
    <3>2. Distinct(rows)'
      BY <1>a, <2>1, <2>2, <3>1 DEF RowsKnown, Distinct
    <3>3. \A i \in 1..Len(rows') : rows'[i] <= made + 1
      BY <1>d, <2>1, <2>2, <3>1
    <3>4. \A k \in 1..Len(collected) : collected[k] \in 1..MaxRows /\ collected[k] <= made + 1
      BY <1>a, <1>d, <1>s DEF RowsKnown, Sized
    <3>5. Len(rows) \in Nat /\ Len(rows) <= made
      BY <1>a, <1>s DEF RowsKnown, Sized
    <3>6. QED
      BY <1>a, <1>b, <1>d, <2>1, <3>2, <3>3, <3>4, <3>5 DEF RowsKnown, Distinct
  <2>4. NoRepeat'
    BY <1>a, <1>b, <1>c, <1>d, <1>s, <1>1, <2>1, <2>2
       DEF NoRepeat, Ahead, Distinct, RowsKnown, Sized
  <2>5. \A x : Ahead(x) => Ahead(x)'
    BY <1>c, <1>s, <2>1 DEF Ahead, Sized
  <2>6. QED
    BY <2>1, <2>3, <2>4, <2>5, <1>a, <1>b, <1>d
       DEF PInv, TypeOK, NothingHidden, Read, GrowthHidesNothing, Quiet, QuietIsExact, Returned
<1>2. CASE order # "oldest"
  <2>1. /\ rows' \in Seq(1..MaxRows) /\ Len(rows') = Len(rows) + 1
        /\ \A i \in 1..Len(rows') : rows'[i] = IF i = 1 THEN made + 1 ELSE rows[i - 1]
    <3>1. rows' = <<made + 1>> \o rows
      BY <1>2 DEF Create, Cons
    <3>2. /\ <<made + 1>> \in Seq(1..MaxRows) /\ Len(<<made + 1>>) = 1
          /\ <<made + 1>>[1] = made + 1
      BY <1>d
    <3>3. /\ rows' \in Seq(1..MaxRows) /\ Len(rows') = 1 + Len(rows)
          /\ \A i \in 1..1 + Len(rows) :
               rows'[i] = IF i <= 1 THEN <<made + 1>>[i] ELSE rows[i - 1]
      BY <1>a, <3>1, <3>2, ConcatProperties
    <3>4. QED
      BY <1>s, <3>2, <3>3 DEF Sized
  <2>2. \A i \in 1..Len(rows) : i + 1 \in 1..Len(rows') /\ rows'[i + 1] = rows[i]
    BY <1>s, <2>1 DEF Sized
  <2>3. RowsKnown'
    <3>1. ASSUME NEW i \in 1..Len(rows'), NEW j \in 1..Len(rows'), rows'[i] = rows'[j]
          PROVE  i = j
      <4>1. \A n \in 1..Len(rows') : n # 1 => n - 1 \in 1..Len(rows) /\ rows'[n] = rows[n - 1]
        BY <1>s, <2>1 DEF Sized
      <4>2. \A n \in 1..Len(rows) : rows[n] # made + 1
        BY <1>a, <1>d, <1>s DEF RowsKnown, Sized
      <4>3. i = 1 <=> j = 1
        BY <2>1, <3>1, <4>1, <4>2
      <4>4. CASE i # 1 /\ j # 1
        <5>1. i - 1 = j - 1
          BY <1>a, <3>1, <4>1, <4>4 DEF RowsKnown, Distinct
        <5>2. QED
          BY <5>1, <1>s, <2>1 DEF Sized
      <4>5. QED
        BY <4>3, <4>4
    <3>2. ASSUME NEW i \in 1..Len(rows') PROVE rows'[i] <= made + 1
      <4>1. i = 1 \/ (i - 1 \in 1..Len(rows) /\ rows'[i] = rows[i - 1])
        BY <1>s, <2>1 DEF Sized
      <4>2. \A n \in 1..Len(rows) : rows[n] \in Nat /\ rows[n] <= made
        BY <1>a, <1>s DEF RowsKnown, Sized
      <4>3. CASE i = 1
        BY <1>d, <2>1, <4>3
      <4>4. CASE i # 1
        BY <1>d, <4>1, <4>2, <4>4
      <4>5. QED
        BY <4>3, <4>4
    <3>3. \A k \in 1..Len(collected) : collected[k] \in 1..MaxRows /\ collected[k] <= made + 1
      BY <1>a, <1>d, <1>s DEF RowsKnown, Sized
    <3>4. QED
      BY <1>a, <1>b, <1>d, <1>s, <2>1, <3>1, <3>2, <3>3 DEF RowsKnown, Distinct, Sized
  <2>4. NoRepeat'
    BY <1>b, <1>2 DEF NoRepeat
  <2>5. \A x : Ahead(x) => Ahead(x)'
    <3> SUFFICES ASSUME NEW x, Ahead(x) PROVE Ahead(x)'
      OBVIOUS
    <3>1. PICK i \in 1..Len(rows) : i > Base /\ rows[i] = x
      BY DEF Ahead
    <3>2. i + 1 \in 1..Len(rows') /\ i + 1 > Base' /\ rows'[i + 1] = x
      BY <1>c, <2>2, <3>1
    <3>3. QED
      BY <3>2 DEF Ahead
  <2>6. QED
    BY <2>1, <2>3, <2>4, <2>5, <1>a, <1>b, <1>d
       DEF PInv, TypeOK, NothingHidden, Read, GrowthHidesNothing, Quiet, QuietIsExact, Returned
<1>3. QED
  BY <1>1, <1>2

\* A row is deleted, and the later ones move up.
LEMMA DeleteKeeps == PInv /\ Delete => PInv'
<1> SUFFICES ASSUME PInv, Delete PROVE PInv'
  OBVIOUS
<1>a. TypeOK /\ RowsKnown /\ NoRepeat /\ NothingHidden /\ rows \in Seq(1..MaxRows)
  BY DEF PInv, TypeOK
<1>s. Sized
  BY <1>a, Sizes
<1>b. /\ "delete" \in Changes /\ state = "scanning" /\ changes' = changes \cup {"delete"}
      /\ order' = order /\ made' = made /\ before' = before
      /\ cap' = cap /\ collected' = collected /\ page' = page /\ total' = total
      /\ state' = state
  BY DEF Delete, scan
<1>c. Base' = Base /\ Base \in Nat
  BY <1>b, <1>s DEF Base, Size, Sized
<1>1. PICK d \in 1..Len(rows) : rows' = RemoveAt(rows, d)
  BY DEF Delete
<1>2. /\ rows' \in Seq(1..MaxRows) /\ Len(rows') = Len(rows) - 1
      /\ \A i \in 1..Len(rows') : rows'[i] = IF i < d THEN rows[i] ELSE rows[i + 1]
  <2> DEFINE front == SubSeq(rows, 1, d - 1)
             back == SubSeq(rows, d + 1, Len(rows))
  <2>a. d \in Nat /\ d >= 1 /\ d <= Len(rows) /\ Len(rows) \in Nat
    BY <1>s DEF Sized
  <2>1. /\ front \in Seq(1..MaxRows) /\ Len(front) = d - 1
        /\ \A i \in 1..d - 1 : front[i] = rows[i]
    <3>1. \A i \in 1..d - 1 : rows[i] \in 1..MaxRows
      BY <1>s, <2>a DEF Sized
    <3>2. /\ front \in Seq(1..MaxRows)
          /\ Len(front) = IF 1 <= d - 1 THEN d - 1 - 1 + 1 ELSE 0
          /\ \A i \in 1..d - 1 - 1 + 1 : front[i] = rows[1 + i - 1]
      BY <2>a, <3>1, SubSeqProperties
    <3> HIDE DEF front
    <3>3. Len(front) = d - 1 /\ d - 1 - 1 + 1 = d - 1
      BY <2>a, <3>2
    <3>4. QED
      BY <3>2, <3>3
  <2>2. /\ back \in Seq(1..MaxRows) /\ Len(back) = Len(rows) - d
        /\ \A i \in 1..Len(rows) - d : back[i] = rows[d + i]
    <3>1. \A i \in d + 1..Len(rows) : rows[i] \in 1..MaxRows
      BY <1>s, <2>a DEF Sized
    <3>2. /\ back \in Seq(1..MaxRows)
          /\ Len(back) = IF d + 1 <= Len(rows) THEN Len(rows) - (d + 1) + 1 ELSE 0
          /\ \A i \in 1..Len(rows) - (d + 1) + 1 : back[i] = rows[d + 1 + i - 1]
      BY <2>a, <3>1, SubSeqProperties
    <3> HIDE DEF back
    <3>3. Len(back) = Len(rows) - d /\ Len(rows) - (d + 1) + 1 = Len(rows) - d
      BY <2>a, <3>2
    <3>4. \A i \in 1..Len(rows) - d : d + 1 + i - 1 = d + i
      BY <2>a
    <3>5. QED
      BY <3>2, <3>3, <3>4
  <2>3. rows' = front \o back
    BY <1>1 DEF RemoveAt
  <2> HIDE DEF front, back
  <2>4. /\ rows' \in Seq(1..MaxRows) /\ Len(rows') = Len(front) + Len(back)
        /\ \A i \in 1..Len(front) + Len(back) :
             rows'[i] = IF i <= Len(front) THEN front[i] ELSE back[i - Len(front)]
    BY <2>1, <2>2, <2>3, ConcatProperties
  <2>5. Len(rows') = Len(rows) - 1
    BY <2>a, <2>1, <2>2, <2>4
  <2>6. ASSUME NEW i \in 1..Len(rows')
        PROVE  rows'[i] = IF i < d THEN rows[i] ELSE rows[i + 1]
    <3>1. CASE i < d
      BY <2>a, <2>1, <2>2, <2>4, <3>1
    <3>2. CASE ~(i < d)
      <4>1. /\ ~(i <= Len(front)) /\ i - Len(front) \in 1..Len(rows) - d
            /\ d + (i - Len(front)) = i + 1 /\ i \in 1..Len(front) + Len(back)
        BY <2>a, <2>1, <2>2, <2>4, <3>2
      <4>2. QED
        BY <2>2, <2>4, <3>2, <4>1
    <3>3. QED
      BY <3>1, <3>2
  <2>7. QED
    BY <2>4, <2>5, <2>6
<1>3. ASSUME NEW i \in 1..Len(rows')
      PROVE  \E k \in 1..Len(rows) : k = (IF i < d THEN i ELSE i + 1) /\ rows'[i] = rows[k]
  BY <1>2, <1>s DEF Sized
<1>4. RowsKnown'
  <2>1. Distinct(rows)'
    <3> SUFFICES ASSUME NEW i \in 1..Len(rows'), NEW j \in 1..Len(rows'), rows'[i] = rows'[j]
                 PROVE  i = j
      BY DEF Distinct
    <3>1. PICK k \in 1..Len(rows) : k = (IF i < d THEN i ELSE i + 1) /\ rows'[i] = rows[k]
      BY <1>3
    <3>2. PICK m \in 1..Len(rows) : m = (IF j < d THEN j ELSE j + 1) /\ rows'[j] = rows[m]
      BY <1>3
    <3>3. k = m
      BY <1>a, <3>1, <3>2 DEF RowsKnown, Distinct
    <3>4. QED
      BY <1>2, <1>s, <3>1, <3>2, <3>3 DEF Sized
  <2>2. \A i \in 1..Len(rows') : rows'[i] <= made
    BY <1>3, <1>a DEF RowsKnown
  <2>3. made \in Nat /\ Len(rows') <= made
    BY <1>2, <1>a, <1>s, PaginateAssumption DEF RowsKnown, TypeOK, Sized
  <2>4. QED
    BY <1>a, <1>b, <2>1, <2>2, <2>3 DEF RowsKnown, Distinct
<1>5. \A x : Ahead(x)' => Ahead(x)
  <2> SUFFICES ASSUME NEW x, Ahead(x)' PROVE Ahead(x)
    OBVIOUS
  <2>1. PICK i \in 1..Len(rows') : i > Base /\ rows'[i] = x
    BY <1>c DEF Ahead
  <2>2. PICK k \in 1..Len(rows) : k = (IF i < d THEN i ELSE i + 1) /\ rows'[i] = rows[k]
    BY <1>3
  <2>3. k > Base
    BY <1>2, <1>c, <1>s, <2>1, <2>2 DEF Sized
  <2>4. QED
    BY <2>1, <2>2, <2>3 DEF Ahead
<1>6. NoRepeat'
  BY <1>a, <1>b, <1>5 DEF NoRepeat, Distinct
<1>7. QED
  BY <1>a, <1>b, <1>2, <1>4, <1>6
     DEF PInv, TypeOK, NothingHidden, GrowthHidesNothing, Quiet, QuietIsExact, Returned

\* A listing, and what a scan has of it, stay in order whatever happens to either.
LEMMA ScanStep == PInv /\ [Next]_vars => PInv'
<1>1. PInv /\ PageGone => PInv'
  BY DEF PInv, PageGone, listing, TypeOK, Ended, RowsKnown, NoRepeat, NothingHidden, Quiet,
         GrowthHidesNothing, QuietIsExact, Returned, Distinct
<1>n. PInv /\ NoPage => PInv'
  BY DEF PInv, NoPage, TypeOK, Ended, RowsKnown, NoRepeat, NothingHidden, Quiet,
         GrowthHidesNothing, QuietIsExact, Returned, Distinct
<1>2. PInv /\ UNCHANGED vars => PInv'
  BY DEF PInv, vars, listing, scan, TypeOK, RowsKnown, NoRepeat, NothingHidden, Quiet, Base, Size,
         GrowthHidesNothing, QuietIsExact, Returned, Distinct, Ahead, Read, Aligned
<1>3. QED
  BY <1>1, <1>n, <1>2, LastPageKeeps, StopsAtCapKeeps, NextPageKeeps, CreateKeeps, DeleteKeeps
     DEF Next, Scan

\* The parts of PInv together are inductive.
LEMMA ScanInvariant == Spec => []PInv
BY ScanInit, ScanStep, PTL DEF Spec

\* A sequence without repetitions is as long as it has members.
LEMMA DistinctCount ==
  ASSUME NEW T, NEW s \in Seq(T), Distinct(s)
  PROVE  Len(s) = Cardinality(ToSet(s))
<1>1. Len(s) \in Nat /\ DOMAIN s = 1..Len(s) /\ s \in [1..Len(s) -> T]
  BY LenProperties
<1>2. s \in Bijection(1..Len(s), ToSet(s))
  BY <1>1 DEF Distinct, ToSet, Bijection, Injection, Surjection, IsInjective
<1>3. IsFiniteSet(1..Len(s)) /\ Cardinality(1..Len(s)) = Len(s)
  BY <1>1, FS_Interval
<1>4. QED
  BY <1>2, <1>3, FS_Bijection DEF ExistsBijection

\* While rows keep their places but for those created behind them or deleted, none is
\* collected twice.
LEMMA NoneTwice == PInv => RepeatsNeedInsertion
BY DistinctCount DEF PInv, TypeOK, NoRepeat, RepeatsNeedInsertion, Read

-----------------------------------------------------------------------------

\* The page counts from one, and paginate collects rows that exist, whatever happens meanwhile.
THEOREM ScanTypeCorrect == Spec => []TypeOK
<1>1. PInv => TypeOK
  BY DEF PInv
<1>2. QED
  BY ScanInvariant, <1>1, PTL

\* A listing that stood still is returned exactly, with its number, and "truncated" is true of
\* it exactly when rows are missing, if the cap falls on the end of a page (paginate, 124-155).
THEOREM QuietIsExactHolds == Spec => []QuietIsExact
<1>1. PInv => QuietIsExact
  BY DEF PInv
<1>2. QED
  BY ScanInvariant, <1>1, PTL

\* Rows created while paginate reads hide none of those that were there when it began.
THEOREM GrowthHidesNothingHolds == Spec => []GrowthHidesNothing
<1>1. PInv => GrowthHidesNothing
  BY DEF PInv
<1>2. QED
  BY ScanInvariant, <1>1, PTL

\* paginate collects a row twice only in a listing that grew at its beginning.
THEOREM RepeatsNeedInsertionHolds == Spec => []RepeatsNeedInsertion
BY ScanInvariant, NoneTwice, PTL
=============================================================================
