-------------------------- MODULE MCWebhookDelivery --------------------------
(***************************************************************************)
(* A small instance of WebhookDelivery: one subscription that answers and  *)
(* one that calls back, two businesses, operations that record one or two  *)
(* events, one crash.                                                      *)
(***************************************************************************)
EXTENDS WebhookDelivery, TLC

CONSTANTS plain, caller, k1, k2

EventTypes == {"payment_request.created", "transaction.matched", "payment.confirmed"}
\* Subscriptions want some types and not others.
TypeChoices == {{"payment_request.created", "payment.confirmed"}}
Batches == {<<"payment_request.created">>, <<"transaction.matched", "payment.confirmed">>}
Secrets == (plain :> k1) @@ (caller :> k2)
===============================================================================
