------------------------- MODULE MCWebhookDelivery -------------------------
(* Instances of WebhookDelivery: deliveries of one company, and the worker's senders. *)
EXTENDS WebhookDelivery, TLC

CONSTANTS d1, d2, d3, s1, s2

SenderSymmetry == Permutations({s1, s2})
=============================================================================
