-------------------------- MODULE MCWebhookDelivery --------------------------
EXTENDS WebhookDelivery, TLC

CONSTANTS e1, e2, pay, r1, r2, r3

Symmetry == Permutations(Endpoints) \union Permutations(Retriers)
=============================================================================
