----------------------------- MODULE MCWebServer ----------------------------
(***************************************************************************)
(* WebServer on small instances.                                           *)
(***************************************************************************)
EXTENDS WebServer

CONSTANTS c1, c2, c3

ThreeClients == {c1, c2, c3}

=============================================================================
