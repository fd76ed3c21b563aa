------------------------------- MODULE Presence -------------------------------
(***************************************************************************)
(* How a contact finds a listener (client/src/presence.rs and run_listener *)
(* of client/src/main.rs): the listener's address is sealed to the         *)
(* contact's published KEM key and put as a blob on every bootstrap server *)
(* that answers, again every half hour.  Blobs and certificates live in    *)
(* the servers' blob stores (put_blob, get) and lapse after ADDR_TTL.  A   *)
(* client has two fingerprints, the OpenPGP one of its identity (gpg) and  *)
(* the one of its ML-DSA-87 key (pq), and may be added as a contact with   *)
(* either.  The module says what the servers hold; fetch_presence, which   *)
(* changes nothing, asks for a key under which nothing is stored.          *)
(*                                                                         *)
(* A server may be out of reach for any call, so every call takes the set  *)
(* of servers it reaches.  One owner of a listener and one contact.        *)
(***************************************************************************)
EXTENDS Naturals

CONSTANTS
    NServers,  \* bootstrap servers, in the order discovery lists them
    Hosts,     \* hosts the listener may be reached at
    ADDR_TTL,  \* lifetime of a blob, in refresh intervals
    MaxIntervals  \* bound: clock

ASSUME PresenceAssumption == NServers \in Nat /\ ADDR_TTL \in Nat \ {0}

Servers == 1..NServers

VARIABLES
    tick,      \* the clock, in refresh intervals
    host,      \* where the listener's machine is
    listener,  \* the listener and its refresh task
    blob,      \* blob[s]: the presence blob on s
    cert,      \* cert[s]: when the contact's certificate on s lapses
    missed,    \* missed[s]: refreshes in a row that stored nothing on s
    added      \* the fingerprint by which the contact was added

pvars == <<tick, host, listener, blob, cert, missed, added>>

Fingerprints == {"gpg", "pq"}

Down == [up |-> FALSE, fixed |-> FALSE, last |-> host, found |-> host, due |-> 0]
NoBlob == [host |-> host, expires |-> 0]

PresenceInit ==
    /\ tick = 1
    /\ host \in Hosts
    /\ listener = Down
    /\ blob = [s \in Servers |-> NoBlob]
    /\ cert = [s \in Servers |-> 0]
    /\ missed = [s \in Servers |-> ADDR_TTL]
    /\ added \in Fingerprints

-----------------------------------------------------------------------------
(* The servers' stores.                                                    *)

\* get: a record that has lapsed is not found.
Live(expires) == expires > tick

\* verify_dht_put_signature: the verifying key in the request derives to the
\* fingerprint it asserts, and the signature covers the key of the blob.
Verified(put) == put.derived = put.asserted /\ put.signed = put.key

\* handle_blob_put: the keys under which certificates are stored.
Accepted(puts) == {put.key : put \in {x \in puts : Verified(x)}}

-----------------------------------------------------------------------------
(* The contact's certificate.                                              *)

\* dht_publish_cert sends two requests with one signature, made for the key of
\* the post-quantum fingerprint: the one for the OpenPGP fingerprint is refused.
CertPuts == [key : {"pq", "gpg"}, derived : {"pq"}, asserted : {"pq"}, signed : {"pq"}]

\* On every server in reach; a certificate lapses like any blob, and only
\* another `add publish-cert' renews it.
publish_cert(R) ==
    /\ cert' = [s \in Servers |->
                   IF s \in R /\ "pq" \in Accepted(CertPuts) THEN tick + ADDR_TTL ELSE cert[s]]
    /\ UNCHANGED <<tick, host, listener, blob, missed, added>>

\* The bundle stored under the fingerprint fp that s answers with, if any.
HasCert(fp, s) == fp \in Accepted(CertPuts) /\ Live(cert[s])

\* dht_fetch_cert: the client asks the server.
FetchCert(fp, R, seed) == seed \in R /\ HasCert(fp, seed)

-----------------------------------------------------------------------------
(* The listener.                                                           *)

\* pair_encapsulate: the first server that has the contact's certificate, by
\* the fingerprint in the contact list.
CanSeal(R) == \E s \in Servers : FetchCert(added, R, s)

\* Where publish_presence stores when the servers in R have a certificate for
\* the contact and those in W take the blob.  A contact without a certificate
\* is skipped, which is no error.
StoredOn(R, W) == IF CanSeal(R) THEN W ELSE {}

Publish(addr, on) ==
    blob' = [s \in Servers |->
                IF s \in on THEN [host |-> addr, expires |-> tick + ADDR_TTL] ELSE blob[s]]

Missed(on) ==
    missed' = [s \in Servers |->
                  IF s \in on THEN 0 ELSE IF missed[s] < ADDR_TTL THEN missed[s] + 1 ELSE ADDR_TTL]

\* run_listener: the first publication; its failure changes nothing.  The
\* address is fixed with --advertised-url and for the reflector.
start_listener(R, W, fixed) ==
    /\ ~listener.up
    /\ Publish(host, StoredOn(R, W)) /\ Missed(StoredOn(R, W))
    /\ listener' = [up |-> TRUE, fixed |-> fixed, last |-> host, found |-> host, due |-> tick + 1]
    /\ UNCHANGED <<tick, host, cert, added>>

\* The address a refresh finds.
Current == IF listener.fixed THEN listener.last ELSE host

\* Mutant of Advertised: the address that was registered first.
AdvertisedFirst(current) == listener.last

\* What a refresh publishes: the current address if the host has changed, the
\* one registered last otherwise (their ports may differ, their hosts do not).
Advertised(current) == IF current # listener.last THEN current ELSE listener.last

\* Mutant of RefreshPublishes: only a change is published.
RefreshPublishesChange(current) == current # listener.last

\* An unchanged host is published again: the records stay live.
RefreshPublishes(current) == TRUE

\* The refresh task, every interval.  Where discovery finds no server at all
\* publish_presence fails, and the registered address stays as it is.
refresh(R, W) ==
    /\ listener.up /\ listener.due = tick
    /\ Publish(Advertised(Current), IF RefreshPublishes(Current) THEN StoredOn(R, W) ELSE {})
    /\ Missed(StoredOn(R, W))
    /\ listener' = [listener EXCEPT !.last = Advertised(Current), !.found = Current, !.due = tick + 1]
    /\ UNCHANGED <<tick, host, cert, added>>

refresh_fails ==
    /\ listener.up /\ listener.due = tick
    /\ Publish(host, {}) /\ Missed({})
    /\ listener' = [listener EXCEPT !.found = Current, !.due = tick + 1]
    /\ UNCHANGED <<tick, host, cert, added>>

\* The command ends; nothing is withdrawn.
stop_listener ==
    /\ listener.up
    /\ listener' = [listener EXCEPT !.up = FALSE, !.fixed = FALSE, !.due = 0]
    /\ missed' = [s \in Servers |-> ADDR_TTL]
    /\ UNCHANGED <<tick, host, blob, cert, added>>

move(h) == h # host /\ host' = h /\ UNCHANGED <<tick, listener, blob, cert, missed, added>>

PresenceTick ==
    /\ tick < MaxIntervals
    /\ listener.up => listener.due > tick
    /\ tick' = tick + 1
    /\ UNCHANGED <<host, listener, blob, cert, missed, added>>

PresenceNext ==
    \/ \E R, W \in SUBSET Servers : \/ \E fixed \in BOOLEAN : start_listener(R, W, fixed)
                                 \/ refresh(R, W)
    \/ \E R \in SUBSET Servers : publish_cert(R)
    \/ refresh_fails \/ stop_listener \/ PresenceTick
    \/ \E h \in Hosts : move(h)

PresenceSpec == PresenceInit /\ [][PresenceNext]_pvars

-----------------------------------------------------------------------------

\* As long as the listener runs, its record on a server outlives every two
\* refreshes in a row that do not get through to that server (the interval is
\* a quarter of the lifetime; at the third the record lapses just as the next
\* refresh is due).
SurvivesMisses ==
    listener.up => \A s \in Servers : missed[s] + 1 < ADDR_TTL => Live(blob[s].expires)

\* The record on every server that took the last refresh names the host that
\* refresh found, however often the host changed back and forth and whichever
\* refreshes failed before (the refresh compares with the address registered
\* last, and a failed publication does not register).
RecordIsCurrent ==
    listener.up => \A s \in Servers : missed[s] = 0 => blob[s].host = listener.found
=============================================================================
