-------------------------- MODULE MCWebhookDelivery --------------------------
(* Instances of WebhookDelivery for TLC. *)
EXTENDS WebhookDelivery

CONSTANTS e1, push, issues

Kinds == [e \in Event |-> IF e = e1 THEN issues ELSE push]

\* Active and subscribed to the event; patches make hooks of other sorts of it.
Offers == {[active |-> TRUE, events |-> {issues}]}

\* Off, on again for every event, and out of the issues events (which leaves {push} of {issues}).
Patches == {[active |-> FALSE, events |-> Keep, add |-> {}, remove |-> {}],
            [active |-> TRUE, events |-> {Star}, add |-> {}, remove |-> {}],
            [active |-> Keep, events |-> Keep, add |-> {}, remove |-> {issues}]}
=============================================================================
