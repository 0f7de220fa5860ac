------------------------- MODULE MCConsumerDelivery -------------------------
(* A small instance of ConsumerDelivery for TLC: e2 breaks a rule of its       *)
(* handler and, in a worker's group, starts a saga; the log holds one event    *)
(* the group ignores.                                                          *)
EXTENDS ConsumerDelivery

CONSTANTS m1, m2, e1, e2, foreign

TwoMembers == {m1, m2}
TwoEvents == {e1, e2}
Breaking == {e2}
Starting == {e2}
OneForeign == {foreign}
MixedLog == <<e1, foreign, e2>>
=============================================================================
