------------------------------- MODULE DhtNode -------------------------------
(***************************************************************************)
(* The DHT node a bootstrap server runs (dht-core/src/dht_node.rs and      *)
(* sqlite_store.rs) and the clients that register with it (dht_register of *)
(* client/src/main.rs).                                                    *)
(*                                                                         *)
(* Every connection is a task, so handlers of dht-put requests interleave  *)
(* at every await: the seen nonces, the nonce log and the sequence number  *)
(* are read in separate steps before the transaction that writes.  A       *)
(* request may be delivered late, more than once, or never.  The rate      *)
(* limits (RateLimiter) only refuse and change nothing else here.          *)
(***************************************************************************)
EXTENDS Integers, FiniteSets

CONSTANTS
    Clients,      \* processes that register
    Keys,         \* null ids
    Blobs,        \* keys of blob-put: certificates and presence
    Nonces,       \* proofs of work, numbers that are found by counting up
    MaxAge,       \* POW_MAX_AGE
    TTL,          \* STORE_TTL
    BlobTTL,      \* ADDR_TTL
    Retention,    \* NONCE_RETENTION_SECS
    KeepNonces,   \* nonces of a key that stay in memory
    MaxKeys,      \* MAX_TOTAL_KEYS
    MaxTime,      \* bound: clock
    MaxRequests,  \* bound: requests sent
    MaxHandlers,  \* bound: requests handled at a time
    MaxBlobTime   \* bound: blobs are put until this time

\* The nonce log keeps a nonce for seven days, a request is fresh for five
\* minutes.  Null ids start with NN-, the keys of blobs with cert: or presence:.
ASSUME DhtAssumption ==
    /\ MaxAge \in Nat /\ TTL \in Nat /\ BlobTTL \in Nat /\ Retention \in Nat
    /\ Retention > MaxAge
    /\ Keys \cap Blobs = {}

VARIABLES
    now,       \* the clock, of clients and of the node
    kv,        \* table kv_store
    log,       \* table nonce_log
    seen,      \* seen_nonces, in memory
    handlers,  \* dht-put requests that are being handled
    client,    \* what a client's dht_register does
    sent,      \* dht-put requests sent so far
    stored     \* numbers of the requests that were stored

dhtvars == <<now, kv, log, seen, handlers, client, sent, stored>>

NoRow == [seq |-> -1, by |-> 0, expires |-> 0]
Idle == [state |-> "idle"]

DhtInit ==
    /\ now = 1
    /\ kv = [k \in Keys \cup Blobs |-> NoRow]
    /\ log = {} /\ seen = {} /\ handlers = {} /\ sent = {} /\ stored = {}
    /\ client = [c \in Clients |-> Idle]

-----------------------------------------------------------------------------
(* The store.                                                              *)

HasRow(k) == kv[k] # NoRow
\* get and count_keys leave out what has expired, has_key does not.
Get(k) == HasRow(k) /\ kv[k].expires > now
CountKeys == Cardinality({k \in Keys \cup Blobs : Get(k)})
NonceSeen(k, n) == \E e \in log : e.key = k /\ e.nonce = n

\* INSERT OR IGNORE: a nonce already there keeps its time.
Logged(k, n) ==
    IF NonceSeen(k, n) THEN log ELSE log \cup {[key |-> k, nonce |-> n, at |-> now]}

\* Mutant of Commit: the transaction is dropped without commit, which rolls
\* it back.
CommitDropped(h) == UNCHANGED <<log, kv>>

\* The transaction of put: it reads nothing again.
Commit(h) ==
    /\ log' = Logged(h.req.key, h.req.nonce)
    /\ kv' = [kv EXCEPT ![h.req.key] = [seq |-> h.req.seq, by |-> h.req.id,
                                        expires |-> h.expires]]

-----------------------------------------------------------------------------
(* Clients: dht_register.                                                  *)

\* What there is of k's record; an answer does not tell none from lapsed.
Found(k) == IF Get(k) THEN "live" ELSE IF HasRow(k) THEN "lapsed" ELSE "none"

\* A dht-get tells whether there is a live record; the first registration has
\* sequence number 0, any other the time.
dht_get(c, k) ==
    /\ client[c] = Idle
    /\ client' = [client EXCEPT ![c] =
                     [state |-> "solving", key |-> k, found |-> Found(k),
                      seq |-> IF Get(k) THEN now ELSE 0]]
    /\ UNCHANGED <<now, kv, log, seen, handlers, sent, stored>>

\* The proof of work is found and the request is sent, with the time of now.
\* The answer changes nothing at the client.
dht_register(c, n) ==
    LET id == Cardinality(sent) + 1 IN
    /\ client[c].state = "solving"
    /\ id <= MaxRequests
    /\ sent' = sent \cup {[id |-> id, key |-> client[c].key, seq |-> client[c].seq,
                           nonce |-> n, ts |-> now, found |-> client[c].found]}
    /\ client' = [client EXCEPT ![c] = Idle]
    /\ UNCHANGED <<now, kv, log, seen, handlers, stored>>

\* No proof of work was found, or the client was stopped.
register_fails(c) ==
    /\ client[c].state = "solving"
    /\ client' = [client EXCEPT ![c] = Idle]
    /\ UNCHANGED <<now, kv, log, seen, handlers, sent, stored>>

-----------------------------------------------------------------------------
(* handle_connection and handle_put.                                       *)

To(h, phase) == handlers' = (handlers \ {h}) \cup {[h EXCEPT !.phase = phase]}
End(h) == handlers' = handlers \ {h}

Fresh(m) == now <= m.ts + MaxAge /\ m.ts <= now + MaxAge

\* The cap of keys binds new keys only.
Fits(k) == HasRow(k) \/ CountKeys < MaxKeys

\* A request arrives: its age, then whether its key fits.
arrive(m) ==
    \E n \in 1..MaxHandlers :
       /\ {h.n : h \in handlers} \cap (1..n) = 1..(n - 1)  \* the least free number
       /\ Fresh(m)
       /\ Fits(m.key)
       /\ handlers' = handlers \cup
             {[n |-> n, req |-> m, phase |-> "capped", late |-> m.id \in stored,
              raced |-> FALSE, expires |-> 0]}
       /\ UNCHANGED <<now, kv, log, seen, client, sent, stored>>

\* The nonces in memory; the proof of work and the signature are checked next.
check_seen(h) ==
    /\ h.phase = "capped"
    /\ IF <<h.req.key, h.req.nonce>> \in seen THEN End(h) ELSE To(h, "unseen")
    /\ UNCHANGED <<now, kv, log, seen, client, sent, stored>>

\* put: is_nonce_seen
check_log(h) ==
    /\ h.phase = "unseen"
    /\ IF NonceSeen(h.req.key, h.req.nonce) THEN End(h) ELSE To(h, "unlogged")
    /\ UNCHANGED <<now, kv, log, seen, client, sent, stored>>

\* Mutant of Stale: an equal or lower number is accepted.
StaleNever(h) == FALSE

\* The rows of expired records count: nothing deletes them.
Stale(h) == kv[h.req.key].seq >= h.req.seq

\* put: the time and the existing sequence number.
check_seq(h) ==
    /\ h.phase = "unlogged"
    /\ IF Stale(h) THEN End(h)
       ELSE handlers' = (handlers \ {h}) \cup {[h EXCEPT !.phase = "newer", !.expires = now + TTL]}
    /\ UNCHANGED <<now, kv, log, seen, client, sent, stored>>

\* The handlers that go on from a number read before h's commit.
Raced(h) == {x \in handlers \ {h} : x.phase = "newer" /\ x.req.key = h.req.key}

commit(h) ==
    /\ h.phase = "newer"
    /\ Commit(h)
    /\ handlers' = (handlers \ (Raced(h) \cup {h}))
                      \cup {[x EXCEPT !.raced = TRUE] : x \in Raced(h)}
                      \cup {[h EXCEPT !.phase = "stored", !.raced = FALSE, !.expires = 0]}
    /\ stored' = stored \cup {h.req.id}
    /\ UNCHANGED <<now, seen, client, sent>>

\* The nonce goes to memory and the answer out.
answer(h) ==
    /\ h.phase = "stored"
    /\ seen' = seen \cup {<<h.req.key, h.req.nonce>>}
    /\ End(h)
    /\ UNCHANGED <<now, kv, log, client, sent, stored>>

\* A query fails: the request is refused as a storage error.
storage_error(h) ==
    /\ h.phase \in {"unseen", "unlogged", "newer"}
    /\ End(h)
    /\ UNCHANGED <<now, kv, log, seen, client, sent, stored>>

\* put_blob: the latest wins, with the time as its number, whatever the cap.
\* The keys are those the clients send, which are never null ids.
blob_put(k) ==
    /\ now <= MaxBlobTime
    /\ kv' = [kv EXCEPT ![k] = [seq |-> now, by |-> 0, expires |-> now + BlobTTL]]
    /\ UNCHANGED <<now, log, seen, handlers, client, sent, stored>>

-----------------------------------------------------------------------------
(* The node's tasks, the clock and restarts.                               *)

\* Every five minutes: of each key only the greatest nonces stay.
prune_seen ==
    LET Kept(k) == {n \in Nonces : /\ <<k, n>> \in seen
                                   /\ Cardinality({x \in Nonces : x > n /\ <<k, x>> \in seen}) < KeepNonces}
    IN  /\ seen' = {e \in seen : e[2] \in Kept(e[1])}
        /\ seen' # seen
        /\ UNCHANGED <<now, kv, log, handlers, client, sent, stored>>

Outdated(e) == e.at < now - Retention

\* Every ten minutes: prune_old_nonces.
prune_log ==
    /\ \E e \in log : Outdated(e)
    /\ log' = {e \in log : ~Outdated(e)}
    /\ UNCHANGED <<now, kv, seen, handlers, client, sent, stored>>

\* The node restarts: what is in memory is gone.
restart ==
    /\ seen' = {} /\ handlers' = {}
    /\ <<seen, handlers>> # <<{}, {}>>
    /\ UNCHANGED <<now, kv, log, client, sent, stored>>

\* A request is handled well within its life in the nonce log.
DhtTick ==
    /\ now < MaxTime
    /\ \A h \in handlers : now + 1 <= h.req.ts + MaxAge + 1
    /\ now' = now + 1
    /\ UNCHANGED <<kv, log, seen, handlers, client, sent, stored>>

DhtNext ==
    \/ \E c \in Clients : \/ \E k \in Keys : dht_get(c, k)
                          \/ \E n \in Nonces : dht_register(c, n)
                          \/ register_fails(c)
    \/ \E m \in sent : arrive(m)
    \/ \E h \in handlers : \/ check_seen(h) \/ check_log(h) \/ check_seq(h)
                           \/ commit(h) \/ answer(h) \/ storage_error(h)
    \/ \E b \in Blobs : blob_put(b)
    \/ prune_seen \/ prune_log \/ restart \/ DhtTick

DhtSpec == DhtInit /\ [][DhtNext]_dhtvars

-----------------------------------------------------------------------------

\* A request that was stored is not stored again when it is delivered again
\* later, be it after a restart, after either nonce store was pruned, or after
\* the row was overwritten by a record with a lower number: age, nonce log and
\* sequence number together cover what each of them forgets (DhtStore::put).
ReplayRefused == \A h \in handlers : h.late => h.phase # "stored"

\* The sequence number of a row goes down only when another request of the same
\* key was stored between the moment the replacing request read the number and
\* its transaction: without such a race a later registration always wins
\* (DhtStore::put reads the number outside its transaction).
SeqFalls ==
    \A k \in Keys : kv'[k].seq < kv[k].seq =>
       \E h \in handlers : h.raced /\ h.req.key = k /\ h.req.id = kv'[k].by

SeqFallsInRaceOnly == [][SeqFalls]_dhtvars

\* A client whose record has expired can register again, its request is not
\* refused for its number: `add register-all-bootstraps' brings a missing
\* registration back (Commands::CheckRegister of client/src/main.rs).
RegisterFixes ==
    \A h \in handlers : h.phase = "unlogged" /\ h.req.found = "lapsed" => ~Stale(h)
=============================================================================
