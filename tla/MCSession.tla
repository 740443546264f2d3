----------------------------- MODULE MCSession -----------------------------
(* Two clients, one of them the test console. *)
EXTENDS Session

CONSTANTS app, console
MCClients  == {app, console}
MCConsoles == {console}
=============================================================================
