------------------------------ MODULE MCOutbox ------------------------------
(* Two workers let one outlive its lease; one alert goes before one event. *)
EXTENDS Outbox
=============================================================================
