---------------------------- MODULE DurableSpool ----------------------------
(***************************************************************************)
(* What the opt-in telemetry outbox promises to its callers, with nothing  *)
(* said about files, locks or threads: an event whose enqueue returned is  *)
(* kept until it leaves through delivery or retention expiry, and the      *)
(* spool never holds more than MaxEvents events.  OutboxEnqueue and        *)
(* OpenClawOutbox are shown to implement it.                               *)
(***************************************************************************)
EXTENDS Naturals, FiniteSets

CONSTANTS
    Events,     \* telemetry events, identified by the digest that names their file
    MaxEvents   \* the cap on queued events

VARIABLES
    spool,      \* events on disk
    acked,      \* events some enqueue call returned successfully for
    gone        \* events that left the spool, delivered or expired

spoolVars == <<spool, acked, gone>>

SpoolTypeOK == /\ spool \subseteq Events
               /\ acked \subseteq Events
               /\ gone \subseteq Events

(* Earlier processes may have left events.                                 *)
Init == /\ spool \in SUBSET Events /\ Cardinality(spool) <= MaxEvents
        /\ acked \in SUBSET spool
        /\ gone = {}

(* A new event becomes durable, if there is room for it.                   *)
Store(e) == /\ e \notin spool
            /\ Cardinality(spool) < MaxEvents
            /\ spool' = spool \cup {e}
            /\ UNCHANGED <<acked, gone>>

(* A caller is told that its event is safe: it is, or was already sent.    *)
Acknowledge(e) == /\ e \in spool \cup gone
                  /\ acked' = acked \cup {e}
                  /\ UNCHANGED <<spool, gone>>

(* Events leave, delivered or past their retention.                        *)
Discard(X) == /\ spool' = spool \ X
              /\ gone' = gone \cup X
              /\ UNCHANGED acked

Next == \/ \E e \in Events : Store(e)
        \/ \E e \in Events : Acknowledge(e)
        \/ \E X \in SUBSET spool : Discard(X)

Spec == Init /\ [][Next]_spoolVars

-----------------------------------------------------------------------------
(* What an enqueue has acknowledged is on disk until it leaves.            *)
Kept == acked \subseteq spool \cup gone
=============================================================================
