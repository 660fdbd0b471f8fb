------------------------------- MODULE MCCloud -------------------------------
(* Two accounts, requests of both with the first token and of one with the  *)
(* second, an unbind and another command, a cache of two nonces.            *)
EXTENDS Cloud

CONSTANTS a, b

M(n, k, u, t) == [nonce |-> n, kind |-> k, user |-> u, token |-> t]

MCUsers == {a, b}
MCMessages == {M(1, "bind", a, 0), M(2, "bind", b, 0), M(3, "bind", b, 1),
               M(4, "unbind", a, 0), M(5, "other", b, 1)}
=============================================================================
