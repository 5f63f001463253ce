----------------------------- MODULE MCReports -----------------------------
EXTENDS Reports, TLC

MCBothOrders == {"oldest", "newest"}
MCAllChanges == {"create", "delete", "empty"}

Position(canceled, price, item) ==
  [canceled |-> canceled, price |-> price, item |-> item, subevent |-> 3 - item]
Refund(state_, amount) == [state |-> state_, amount |-> amount]
Order(status, amount, refunds, positions) ==
  [status |-> status, total |-> amount, refunds |-> refunds, positions |-> positions]

\* The same order before and after it is paid, refunded, canceled; and odd ones.
Pending == Order("n", 5, <<>>, <<Position(FALSE, 3, 1), Position(FALSE, 2, 2)>>)
PaidOrder == [Pending EXCEPT !.status = "p"]
Partly == [PaidOrder EXCEPT !.refunds = <<Refund("done", 2), Refund("created", 3)>>,
                            !.positions[2].canceled = TRUE]
Canceled == [Partly EXCEPT !.status = "c", !.refunds[2].state = "done", !.total = 0]
Expired == [Pending EXCEPT !.status = "e"]
Odd == Order("x", 7, <<Refund("done", 7)>>, <<Position(FALSE, 7, 1)>>)
NoPrice == Order("p", None, <<Refund("done", None)>>, <<Position(FALSE, None, 2)>>)

Exit(t) == [datetime |-> t, type |-> "exit"]
Entry_(t) == [datetime |-> t, type |-> "entry"]
Checkins(c) == [checkins |-> c]
Event(slug) == [slug |-> slug]
Quota(name, available) == [name |-> name, available |-> available]
Product(price) == [default_price |-> price]

\* Two rotations of a sequence of six.
Turns(s) == {SubSeq(s \o s, i, i + MaxRows - 1) : i \in {1, 4}}

MCPopulations ==
  [ sales_summary |-> Turns(<<PaidOrder, Partly, Pending, Canceled, Odd, NoPrice>>)
                      \cup {<<Expired, PaidOrder, Expired, Pending, Canceled, Partly>>},
    search_orders |-> Turns(<<PaidOrder, Partly, Pending, Canceled, Odd, NoPrice>>),
    list_checkins |-> Turns(<<Checkins(<<>>), Checkins(<<Entry_(1), Exit(2)>>),
                              Checkins(<<Exit(2), Entry_(1)>>), Checkins(<<Entry_(1), Exit(1)>>),
                              Checkins(<<Exit(3)>>), Checkins(<<Entry_(2), Entry_(3)>>)>>),
    list_events |-> Turns(<<Event("a"), Event("b"), Event("c"), Event("d"), Event("e"), Event("f")>>),
    get_availability |-> Turns(<<Quota("a", TRUE), Quota("b", FALSE), Quota("c", TRUE),
                                 Quota("b", FALSE), Quota("d", FALSE), Quota("e", TRUE)>>),
    publish_event |-> Turns(<<Product(0), Product(5), Product(None), Product(0), Product(2),
                              Product(1)>>) ]

MCEdited ==
  [ sales_summary |-> {Partly, Canceled},
    search_orders |-> {PaidOrder, Partly},
    list_checkins |-> {Checkins(<<Entry_(4)>>), Checkins(<<>>)},
    list_events |-> {Event("a"), Event("z")},
    get_availability |-> {Quota("b", TRUE), Quota("a", FALSE)},
    publish_event |-> {Product(0), Product(9)} ]

MCAllowlist == {"a", "c"}
=============================================================================
