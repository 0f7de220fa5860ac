---------------------------- MODULE MCOutboxRelay ----------------------------
(* A small instance of OutboxRelay for TLC. *)
EXTENDS OutboxRelay

CONSTANTS r1, r2, w1, w2, k1, k2

TwoRelays == {r1, r2}
TwoWriters == {w1, w2}
TwoKeys == {k1, k2}
=============================================================================
