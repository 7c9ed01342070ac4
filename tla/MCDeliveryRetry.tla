-------------------------- MODULE MCDeliveryRetry --------------------------
(* Eight refusals take a delivery that is run 127 minutes at least.        *)
EXTENDS DeliveryRetry
=============================================================================
