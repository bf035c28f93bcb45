---------------------------- MODULE MCMqChat ----------------------------
(* Small instances of MqChat: two clients, a third adds no new step. *)
EXTENDS MqChat

CONSTANTS c1, c2

MCClients == {c1, c2}
=========================================================================
