---------------------------- MODULE MCLiveGuard ----------------------------
EXTENDS LiveGuard, TLC

CONSTANTS e1, t1, t2

Conf(caps, auto, allow) == [caps |-> caps, auto |-> auto, allow |-> allow]
AllCaps == {"read", "write", "write:high-risk"}
Full == Conf(AllCaps, {}, {})
Trusting == Conf(AllCaps, {"publish_event"}, {})
Panic == Conf({"read"}, {"publish_event"}, {})
Listed == Conf({"read"}, {}, {"update_event", "execute_pending_action"})

MCConfs == {Full, Trusting, Panic, Listed}
MCTaskSymmetry == Permutations(Tasks)
=============================================================================
