--------------------------- MODULE MCOutboxFlush ---------------------------
(* OutboxFlush with three events, the second of which is refused.          *)
EXTENDS OutboxFlush

ThreeEvents == 1..3
Second == {2}
=============================================================================
