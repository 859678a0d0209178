-------------------------- MODULE MCWebhookDelivery --------------------------
(* A small instance of WebhookDelivery for TLC.                            *)
EXTENDS WebhookDelivery

CONSTANTS s1, s2, w1, w2

MCSweepers == {s1, s2}
MCWorkers == {w1, w2}
=============================================================================
