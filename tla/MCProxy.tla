------------------------------ MODULE MCProxy ------------------------------
(* A small instance of the proxy.                                          *)
EXTENDS Proxy

CONSTANTS c1, c2
=============================================================================
