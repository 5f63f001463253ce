------------------------------ MODULE Reports ------------------------------
(***************************************************************************)
(* What the tools make of a listing that Paginate reads for them: the      *)
(* figures of sales_summary, the rows of search_orders and of a check-in   *)
(* list, the events of the allowlist, what is sold out, and the facts in   *)
(* the preview of publish_event.  Between two pages an object that is      *)
(* already read, or not yet, may change: the answer mixes moments.         *)
(*                                                                         *)
(* Amounts are numbers of cents, None one that does not parse; a time is a *)
(* number.  Names of products are left out.  publish_event reads products  *)
(* and quotas one after the other in the same way: one list is followed.   *)
(*                                                                         *)
(* An operator that stands just before a similar one, and that nothing     *)
(* uses, is a mutant: what the code would be with one mistake.             *)
(***************************************************************************)
EXTENDS Paginate, Config, Integers, FiniteSetsExt

CONSTANTS
  Populations,  \* for each tool: sequences of MaxRows objects, what the rows may hold
  Edited,       \* for each tool: the objects an edit may leave behind
  MaxEdits,     \* bound: edits during the scan
  Products,     \* ids of products and of dates
  Allowlist     \* PRETIX_EVENT_ALLOWLIST

\* What the rows a tool reads may hold.
ObjectsOf(t) == (UNION {ToSet(p) : p \in Populations[t]}) \cup Edited[t]

Amount(a) == a = None \/ a \in Int

\* What the API gives of an order, an attendee and a product, as far as the figures need it.
AnOrder(o) ==
  /\ Amount(o.total)
  /\ o.refunds \in Seq({r \in ToSet(o.refunds) : Amount(r.amount)})
  /\ o.positions \in Seq({p \in ToSet(o.positions) :
                          Amount(p.price) /\ p.item \in Products /\ p.subevent \in Products})
AnAttendee(o) == o.checkins \in Seq({c \in ToSet(o.checkins) : c.datetime \in Nat})
AProduct(o) == o.default_price = None \/ o.default_price \in Nat

ASSUME ReportsAssumption ==
  /\ DOMAIN Populations = DOMAIN Edited
  /\ DOMAIN Populations \subseteq {"sales_summary", "search_orders", "list_checkins",
                                  "list_events", "get_availability", "publish_event"}
  /\ \A t \in DOMAIN Populations :
       /\ \A p \in Populations[t] : p \in [1..MaxRows -> ToSet(p)]
       /\ \A o \in ObjectsOf(t) :
            /\ (t \in {"sales_summary", "search_orders"} => AnOrder(o))
            /\ (t = "list_checkins" => AnAttendee(o))
            /\ (t = "publish_event" => AProduct(o))
  /\ MaxEdits \in Nat

VARIABLES
  tool,    \* the tool that reads
  object,  \* what each row holds now
  past,    \* history: what the rows held when the scan began, and after each edit since
  copies,  \* what each row of collected held when its page was served
  answer   \* what the tool returned, or None

reportsVars == <<vars, tool, object, past, copies, answer>>

ReportsTypeOK ==
  /\ TypeOK
  /\ tool \in DOMAIN Populations
  /\ object \in [1..MaxRows -> ObjectsOf(tool)]
  /\ Len(past) \in 1..MaxEdits + 1 /\ object = Last(past)
  /\ Len(copies) = Len(collected)
  /\ \A i \in DOMAIN copies : \E m \in DOMAIN past : copies[i] = past[m][collected[i]]
  /\ answer # None => state \in Ended

ReportsInit ==
  /\ Init
  /\ tool \in DOMAIN Populations
  /\ object \in Populations[tool]
  /\ past = <<object>>
  /\ copies = <<>>
  /\ answer = None

-----------------------------------------------------------------------------
(* sales_summary                                                           *)

STATUS_NAMES == [n |-> "pending", p |-> "paid", e |-> "expired", c |-> "canceled"]
Names == {STATUS_NAMES[s] : s \in DOMAIN STATUS_NAMES}

_money(value) == IF value = None THEN 0 ELSE value

NoTickets == [tickets |-> 0, revenue |-> 0]
NoSales == [orders |-> [n \in Names |-> 0], revenue |-> [n \in Names |-> 0], refunded |-> 0,
            tickets |-> 0, by_item |-> [p \in Products |-> NoTickets],
            by_subevent |-> [p \in Products |-> NoTickets]]

AddRefund(sum, refund) == IF refund.state = "done" THEN sum + _money(refund.amount) ELSE sum

InBucket(bucket, key, price) ==
  [bucket EXCEPT ![key] = [tickets |-> @.tickets + 1, revenue |-> @.revenue + price]]

AddCanceledToo(sum, position) ==
  [sum EXCEPT !.tickets = @ + 1,
              !.by_item = InBucket(@, position.item, _money(position.price)),
              !.by_subevent = InBucket(@, position.subevent, _money(position.price))]

AddPosition(sum, position) ==
  IF position.canceled THEN sum
  ELSE [sum EXCEPT !.tickets = @ + 1,
                   !.by_item = InBucket(@, position.item, _money(position.price)),
                   !.by_subevent = InBucket(@, position.subevent, _money(position.price))]

CountOrder(sum, of, name) ==
  [sum EXCEPT !.orders[name] = @ + 1,
              !.revenue[name] = @ + _money(of.total),
              !.refunded = FoldLeft(AddRefund, @, of.refunds)]

AddOrderWhateverState(sum, of) ==
  IF of.status \notin DOMAIN STATUS_NAMES THEN sum
  ELSE FoldLeft(AddPosition, CountOrder(sum, of, STATUS_NAMES[of.status]), of.positions)

\* One round of the loop.
AddOrder(sum, of) ==
  IF of.status \notin DOMAIN STATUS_NAMES THEN sum
  ELSE LET name == STATUS_NAMES[of.status]
           counted == CountOrder(sum, of, name)
       IN IF name \in {"paid", "pending"}
          THEN FoldLeft(AddPosition, counted, of.positions) ELSE counted

\* A bucket appears when its first ticket does.
_breakdown(bucket) == {[key |-> p, sold |-> bucket[p]] : p \in {p \in Products : bucket[p].tickets > 0}}

sales_summary ==
  LET sum == FoldLeft(AddOrder, NoSales, copies)
  IN [scan |-> [orders_scanned |-> Len(copies), orders_matching |-> total, cap |-> cap,
                truncated |-> state = "truncated"],
      sales |-> [sum EXCEPT !.by_item = _breakdown(@), !.by_subevent = _breakdown(@)]]

-----------------------------------------------------------------------------
(* The tools that return rows.                                             *)

listed(items) == [count |-> Len(items), results |-> items, total_matching |-> total,
                  truncated |-> state = "truncated"]

\* The elements of s that are in T, in their order.
Only(s, T) == FoldLeft(LAMBDA kept, x : IF x \in T THEN Append(kept, x) ELSE kept, <<>>, s)

Live(positions) == {p \in ToSet(positions) : ~p.canceled}
_order_summary(of) == [status |-> of.status, total |-> of.total,
                       item_count |-> Len(Only(of.positions, Live(of.positions)))]
search_orders == listed([i \in DOMAIN copies |-> _order_summary(copies[i])])

\* max() by time: the first of the latest.
Latest(checkins) ==
  checkins[Min({i \in DOMAIN checkins :
                       \A j \in DOMAIN checkins : checkins[j].datetime <= checkins[i].datetime})]
_attendee(position) ==
  LET last == Latest(position.checkins)
      seen == position.checkins # <<>>
  IN [checked_in |-> seen,
      checkin_time |-> IF seen THEN last.datetime ELSE None,
      checkin_type |-> IF seen THEN last.type ELSE None]
list_checkins == listed([i \in DOMAIN copies |-> _attendee(copies[i])])

\* `total` counts the events the organizer has, allowed or not.
Allowed(events) ==
  {e \in ToSet(events) : event_allowed([event_allowlist |-> Allowlist], e.slug)}
list_events == listed(Only(copies, Allowed(copies)))

SoldOut(quotas) == {q \in ToSet(quotas) : q.available = FALSE}
get_availability == [quotas |-> listed(copies), sold_out |-> Only(copies, SoldOut(copies))]

\* _priced_above_zero and the warnings; of a list that _maybe_list could not read, nothing is said.
Paid(products) == {p \in ToSet(products) : _money(p.default_price) > 0}
_go_live_readiness ==
  IF state = "error" THEN [number |-> None, paid |-> 0, warning |-> FALSE]
  ELSE [number |-> Len(copies), paid |-> Len(Only(copies, Paid(copies))),
        warning |-> copies = <<>>]

\* What the tool makes of what was read.
Made == IF tool = "sales_summary" THEN sales_summary
        ELSE IF tool = "search_orders" THEN search_orders
        ELSE IF tool = "list_checkins" THEN list_checkins
        ELSE IF tool = "list_events" THEN list_events
        ELSE IF tool = "get_availability" THEN get_availability
        ELSE _go_live_readiness

-----------------------------------------------------------------------------

Collects == /\ copies' = FirstOf(copies \o [i \in 1..Len(Page) |-> object[Page[i]]], cap)
            /\ UNCHANGED <<tool, object, past, answer>>

Reading == (LastPage \/ StopsAtCap \/ NextPage) /\ Collects

Elsewhere == (Create \/ Delete \/ PageGone \/ NoPage) /\ UNCHANGED <<tool, object, past, copies, answer>>

Edit(r, new) == /\ state = "scanning" /\ page > 1
                /\ Len(past) <= MaxEdits /\ new # object[r]
                /\ object' = [object EXCEPT ![r] = new]
                /\ past' = Append(past, object')
                /\ UNCHANGED <<vars, tool, copies, answer>>

\* The request for the currency fails, or the one for the names: no answer.
LaterRequestFails == /\ Returned /\ answer = None
                     /\ tool \in {"sales_summary", "search_orders"}
                     /\ state' = "error"
                     /\ UNCHANGED <<listing, cap, collected, page, total>>
                     /\ UNCHANGED <<tool, object, past, copies, answer>>

Answers ==
  /\ answer = None
  /\ Returned \/ (state = "error" /\ tool = "publish_event")
  /\ answer' = Made
  /\ UNCHANGED <<vars, tool, object, past, copies>>

ReportsNext == \/ Reading \/ Elsewhere \/ LaterRequestFails \/ Answers
               \/ \E r \in ToSet(rows), new \in Edited[tool] : Edit(r, new)

ReportsSpec == ReportsInit /\ [][ReportsNext]_reportsVars

-----------------------------------------------------------------------------
(* The figures, said of a set of rows R and of what each of them holds, v. *)

Known(v, R) == {r \in R : v[r].status \in DOMAIN STATUS_NAMES}
In(v, R, name) == {r \in Known(v, R) : STATUS_NAMES[v[r].status] = name}
Tickets(v, R) ==
  UNION {{r} \X {i \in DOMAIN v[r].positions : ~v[r].positions[i].canceled}
           : r \in In(v, R, "paid") \cup In(v, R, "pending")}
Refunds(v, R) ==
  UNION {{r} \X {i \in DOMAIN v[r].refunds : v[r].refunds[i].state = "done"} : r \in Known(v, R)}

Ticket(v, t) == v[t[1]].positions[t[2]]
Sold(v, of) == [tickets |-> Cardinality(of),
                revenue |-> SumFunction([t \in of |-> _money(Ticket(v, t).price)])]
Per(v, tickets, key) ==
  {[key |-> k, sold |-> Sold(v, {t \in tickets : key[t] = k})] : k \in {key[t] : t \in tickets}}

Sales(v, R) ==
  LET tickets == Tickets(v, R)
  IN [orders |-> [n \in Names |-> Cardinality(In(v, R, n))],
      revenue |-> [n \in Names |-> SumFunction([r \in In(v, R, n) |-> _money(v[r].total)])],
      refunded |-> SumFunction([t \in Refunds(v, R) |-> _money(v[t[1]].refunds[t[2]].amount)]),
      tickets |-> Cardinality(tickets),
      by_item |-> Per(v, tickets, [t \in tickets |-> Ticket(v, t).item]),
      by_subevent |-> Per(v, tickets, [t \in tickets |-> Ticket(v, t).subevent])]

\* A check-in is reported with the time and the type of the latest.
ReportsLatest(checkins, row) ==
  /\ row.checked_in <=> checkins # <<>>
  /\ row.checked_in => \E i \in DOMAIN checkins :
       /\ checkins[i].datetime = row.checkin_time /\ checkins[i].type = row.checkin_type
       /\ \A j \in DOMAIN checkins : checkins[j].datetime <= row.checkin_time

\* The answer is what there is to say of the rows of s when each of them holds v.
Describes(v, s) ==
  /\ tool = "sales_summary" => answer.sales = Sales(v, ToSet(s))
  /\ tool = "search_orders" =>
       /\ answer.count = Len(s)
       /\ \A i \in DOMAIN s : LET of == v[s[i]] IN
            answer.results[i] =
              [status |-> of.status, total |-> of.total,
               item_count |-> Cardinality({j \in DOMAIN of.positions : ~of.positions[j].canceled})]
  /\ tool = "list_checkins" =>
       /\ answer.count = Len(s)
       /\ \A i \in DOMAIN s : ReportsLatest(v[s[i]].checkins, answer.results[i])
  /\ tool = "list_events" =>
       LET shown == {i \in DOMAIN s : Allowlist = {} \/ v[s[i]].slug \in Allowlist}
       IN /\ answer.count = Cardinality(shown)
          /\ ToSet(answer.results) = {v[s[i]] : i \in shown}
  /\ tool = "get_availability" =>
       LET gone == {i \in DOMAIN s : v[s[i]].available = FALSE}
       IN /\ ToSet(answer.sold_out) = {v[s[i]] : i \in gone}
          /\ Len(answer.sold_out) = Cardinality(gone)
  /\ tool = "publish_event" =>
       answer = [number |-> Len(s),
                 paid |-> Cardinality({i \in DOMAIN s : v[s[i]].default_price \notin {None, 0}}),
                 warning |-> s = <<>>]

Told == answer # None /\ Returned

\* What sales_summary, get_availability and the publish preview are for: of a listing that
\* stood still and that the cap did not cut, every tool tells what is there, no row and no
\* part of a row more or less.
ReportIsExact ==
  Told /\ changes = {} /\ Len(past) = 1 /\ Len(rows) <= cap => Describes(object, rows)

\* Objects change while the pages are read, and the answer adds up what was true at different
\* moments.  It is still the answer of some listing in which every row that was read holds
\* something it did hold during the scan: never half of one state and half of another.
EachRowInOneState ==
  Told /\ Len(collected) = Cardinality(Read) =>
    \E moment \in [Read -> DOMAIN past] : Describes([r \in Read |-> past[moment[r]][r]], collected)
=============================================================================
