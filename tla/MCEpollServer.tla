-------------------------- MODULE MCEpollServer --------------------------
(* A small instance of EpollServer: two clients, answers of two bytes and  *)
(* a send buffer of one, so that sends stop half way and events of both    *)
(* clients, of the listening socket and of the UDP socket mix.             *)
EXTENDS EpollServer

CONSTANTS c1, c2

MCClients == {c1, c2}
=========================================================================
