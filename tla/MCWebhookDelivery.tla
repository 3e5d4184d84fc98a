-------------------------- MODULE MCWebhookDelivery --------------------------
(* Two endpoints; deliveries alternate between them.                       *)
EXTENDS WebhookDelivery

CONSTANTS e1, e2

MCEndpoints == {e1, e2}
MCEndpointOf == [d \in 1 .. MaxDeliveries |-> IF d % 2 = 1 THEN e1 ELSE e2]
MCSingle == [d \in 1 .. MaxDeliveries |-> e1]
=============================================================================
