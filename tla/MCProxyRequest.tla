--------------------------- MODULE MCProxyRequest ---------------------------
(* Values for the CONSTANTS of ProxyRequest that a .cfg cannot write.      *)
EXTENDS ProxyRequest

\* A success, the status one rule spares and another does not, and an
\* upstream's own 499, which is also the gateway's for a client that left.
Answers == {200, 400, 499}
=============================================================================
