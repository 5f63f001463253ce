------------------------------ MODULE Paginate ------------------------------
(***************************************************************************)
(* Pretix.paginate, one request per page, while the listing it reads       *)
(* changes under it.  sales_summary adds up what was collected: an order   *)
(* collected twice is counted twice, one that was missed is not counted.   *)
(*                                                                         *)
(* A row is the number of its creation.  pretix keeps the listing, cuts it *)
(* into pages, counts it, and says whether there is a next page.           *)
(*                                                                         *)
(* An operator that stands just before a similar one, and that nothing     *)
(* uses, is a mutant: what the code would be with one mistake.             *)
(***************************************************************************)
EXTENDS Naturals, Sequences, FiniteSets, SequencesExt

CONSTANTS
  MaxRows,     \* bound: rows ever created
  Orders,      \* how pretix may order a listing: "oldest" or "newest" first
  Changes,     \* what may happen between two pages, "create" and "delete", or instead of
               \* one: "empty", an answer that is none
  Caps,        \* what callers pass for cap
  PAGE_SIZE,   \* default of the parameter page_size
  ServerMax,   \* the largest page pretix serves, whatever is asked for
  None

ASSUME PaginateAssumption ==
  /\ MaxRows \in Nat
  /\ Orders \subseteq {"oldest", "newest"}
  /\ Changes \subseteq {"create", "delete", "empty"}
  /\ Caps \subseteq Nat \ {0}
  /\ PAGE_SIZE \in Nat \ {0}
  /\ ServerMax \in Nat \ {0}
  /\ None \notin Nat

VARIABLES
  order,      \* the order of the listing
  rows,       \* the listing, as pretix would serve it now
  made,       \* rows created so far
  before,     \* history: rows created when the scan began
  changes,    \* history: what has happened to the listing since, or to a page of it
  cap, collected, page, total,
  state       \* "scanning", or how paginate ended

listing == <<order, rows, made, before, changes>>
scan == <<cap, collected, page, total, state>>
vars == <<listing, scan>>

MinOf(m, n) == IF m < n THEN m ELSE n
FirstOf(s, n) == SubSeq(s, 1, MinOf(n, Len(s)))

\* query["page_size"], and what pretix makes of it
Size == MinOf(MinOf(PAGE_SIZE, cap), ServerMax)

Ended == {"complete", "truncated", "error"}

TypeOK ==
  /\ order \in Orders
  /\ rows \in Seq(1..MaxRows)
  /\ made \in 0..MaxRows
  /\ before \in 0..MaxRows
  /\ changes \subseteq Changes
  /\ cap \in Caps
  /\ collected \in Seq(1..MaxRows)
  /\ page \in Nat \ {0}
  /\ total \in 0..MaxRows \cup {None}
  /\ state \in {"scanning"} \cup Ended

InitZeroBased ==
  /\ order = "oldest" /\ made = 0 /\ rows = <<>> /\ before = 0 /\ changes = {}
  /\ cap \in Caps
  /\ collected = <<>> /\ page = 0 /\ total = None
  /\ state = "scanning"

Init ==
  /\ order \in Orders
  /\ made \in 0..MaxRows
  /\ rows = IF order = "oldest" THEN [i \in 1..made |-> i]
                                ELSE [i \in 1..made |-> made + 1 - i]
  /\ before = made
  /\ changes = {}
  /\ cap \in Caps
  /\ collected = <<>>
  /\ page = 1
  /\ total = None
  /\ state = "scanning"

-----------------------------------------------------------------------------

\* The page the loop asks for, and whether pretix names a next one.
Page == SubSeq(rows, (page - 1) * Size + 1, MinOf(page * Size, Len(rows)))
HasNext == Len(rows) > page * Size
\* pretix answers 404 for a page past the end, except the first.
Exists == page = 1 \/ Len(rows) > (page - 1) * Size

Collect == /\ collected' = FirstOf(collected \o Page, cap)
           /\ total' = IF total = None THEN Len(rows) ELSE total

\* `if not payload.get("next") or not results`: this was the last page.
LastPage == /\ state = "scanning" /\ Exists
            /\ ~HasNext
            /\ Collect
            /\ state' = "complete"
            /\ UNCHANGED <<listing, cap, page>>

FullOneEarly == Len(collected) + Len(Page) >= cap - 1

\* while len(collected) < cap
Full == Len(collected) + Len(Page) >= cap

StopsAtCap == /\ state = "scanning" /\ Exists
              /\ HasNext /\ Full
              /\ Collect
              /\ state' = "truncated"
              /\ UNCHANGED <<listing, cap, page>>

NextPageSkipsOne == /\ state = "scanning" /\ Exists
                    /\ HasNext /\ ~Full
                    /\ Collect
                    /\ page' = page + 2
                    /\ UNCHANGED <<listing, cap, state>>

NextPageRepeats == /\ state = "scanning" /\ Exists
                   /\ HasNext /\ ~Full
                   /\ Collect
                   /\ UNCHANGED <<listing, cap, page, state>>

NextPage == /\ state = "scanning" /\ Exists
            /\ HasNext /\ ~Full
            /\ Collect
            /\ page' = page + 1
            /\ UNCHANGED <<listing, cap, state>>

\* PretixError: paginate returns nothing.
PageGone == /\ state = "scanning" /\ ~Exists
            /\ state' = "error"
            /\ UNCHANGED <<listing, cap, collected, page, total>>

\* The answer is not an object, as the None that request makes of a redirect without a body:
\* `break`, and what is collected so far is returned as if the cap had cut it.
NoPage == /\ "empty" \in Changes /\ state = "scanning"
          /\ state' = "truncated"
          /\ changes' = changes \cup {"empty"}
          /\ UNCHANGED <<order, rows, made, before, cap, collected, page, total>>

-----------------------------------------------------------------------------

Create == /\ "create" \in Changes /\ made < MaxRows
          /\ state = "scanning" /\ page > 1
          /\ made' = made + 1
          /\ rows' = IF order = "oldest" THEN Append(rows, made + 1)
                                         ELSE Cons(made + 1, rows)
          /\ changes' = changes \cup {"create"}
          /\ UNCHANGED <<order, before, scan>>

Delete == /\ "delete" \in Changes
          /\ state = "scanning" /\ page > 1
          /\ \E i \in 1..Len(rows) : rows' = RemoveAt(rows, i)
          /\ changes' = changes \cup {"delete"}
          /\ UNCHANGED <<order, made, before, scan>>

Scan == LastPage \/ StopsAtCap \/ NextPage \/ PageGone \/ NoPage
Next == Scan \/ Create \/ Delete
Spec == Init /\ [][Next]_vars

-----------------------------------------------------------------------------

Read == ToSet(collected)
Returned == state \in {"complete", "truncated"}

\* The cap falls on the end of a page, as it does for every caller but a sales_summary whose
\* SALES_SCAN_CAP is no multiple of the page size.
Aligned == cap % Size = 0

\* A listing that stood still is returned exactly: its first `cap` rows in their order, with
\* their true number; and when the cap falls on the end of a page, "truncated" says exactly
\* whether rows are missing (paginate's docstring, README.md:306-307).
QuietIsExact ==
  Returned /\ changes = {} =>
    /\ collected = FirstOf(rows, cap)
    /\ total = Len(rows)
    /\ state = "truncated" => Len(rows) > cap
    /\ Aligned => (state = "truncated" <=> Len(rows) > cap)

\* Rows created during the scan push others to later pages, never out of sight: when nothing
\* is deleted, a scan the cap did not cut has every row that was there when it began.
GrowthHidesNothing ==
  state = "complete" /\ "delete" \notin changes /\ Len(collected) < cap =>
    1..before \subseteq Read

\* A row is collected twice only if one was put in front of it meanwhile: not in a listing
\* that begins with the oldest, whatever is created and deleted, and not without creations.
RepeatsNeedInsertion ==
  order = "oldest" \/ "create" \notin changes => Len(collected) = Cardinality(Read)

\* pretix.py:128-129, "truncated is True when the cap stopped the scan - callers report it so
\* a number is never silently partial".
NeverSilentlyPartial ==
  state = "complete" /\ changes = {} => ToSet(rows) \subseteq Read
==============================================================================
