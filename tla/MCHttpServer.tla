---------------------------- MODULE MCHttpServer ----------------------------
(* The instance of HttpServer for TLC: two clients, of which one sends two  *)
(* parts: two requests that may arrive together, a request in two parts, or *)
(* one request and the beginning of another.                                *)
EXTENDS HttpServer

CONSTANTS c1, c2

TwoClients == {c1, c2}
PartsSent == [c \in TwoClients |-> IF c = c1 THEN 2 ELSE 1]
=============================================================================
