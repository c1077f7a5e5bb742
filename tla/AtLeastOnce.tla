---------------------------- MODULE AtLeastOnce ----------------------------
(***************************************************************************)
(* What an outbox or a group of consumers promises, whatever carries the   *)
(* events: nothing is delivered that was not committed, a committed event  *)
(* is never taken back, and each is delivered sooner or later, once or     *)
(* more often.  Delivered is whatever settles an event: the stream has it, *)
(* a consumer is done with it, an e-mail was handed over or is too old.    *)
(***************************************************************************)
CONSTANT Events

VARIABLES committed,  \* events that were committed
          delivered   \* events that were settled at least once

vars == <<committed, delivered>>

Init == committed = {} /\ delivered = {}

\* A transaction commits with all the events it has written.
Commit(es) ==
    /\ committed' = committed \union es
    /\ UNCHANGED delivered

Deliver(e) ==
    /\ e \in committed
    /\ delivered' = delivered \union {e}
    /\ UNCHANGED committed

Next ==
    \/ \E es \in SUBSET Events : Commit(es)
    \/ \E e \in Events : Deliver(e)

\* No committed event is lost.
Delivery == \A e \in Events : (e \in committed) ~> (e \in delivered)

Safety == Init /\ [][Next]_vars
Spec == Safety /\ Delivery
=============================================================================
