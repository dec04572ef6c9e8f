-------------------------- MODULE MCOutboxEnqueue --------------------------
(* OutboxEnqueue on small sets of processes, events and inodes.            *)
EXTENDS OutboxEnqueue
=============================================================================
