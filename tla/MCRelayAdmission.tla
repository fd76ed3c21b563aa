-------------------------- MODULE MCRelayAdmission --------------------------
(* Instances of RelayAdmission for TLC.                                    *)
EXTENDS RelayAdmission

Req(k, f, n, t, key, blind) ==
    [kind |-> k, fp |-> f, nonce |-> n, ts |-> t, key |-> key, blind |-> blind,
     auth |-> k # "status", sealed |-> FALSE]

CONSTANTS f1, n1, n2

\* One request of most kinds, by one client: a fetch and an ack with the same
\* nonce, a store with a blind tag and the same message forwarded by a peer, and a
\* sealed store.
MCRequests ==
    {Req("store", f1, n1, 1, TRUE, TRUE), Req("forward", f1, n1, 1, FALSE, FALSE),
     Req("fetch", f1, n1, 2, TRUE, FALSE), Req("ack", f1, n1, 2, TRUE, FALSE),
     Req("receipt", f1, n2, 1, TRUE, FALSE), Req("status", f1, n2, 0, TRUE, FALSE),
     [Req("store", f1, n2, 2, FALSE, FALSE) EXCEPT !.sealed = TRUE]}

=============================================================================
