---------------------------- MODULE RelayMailbox ----------------------------
(***************************************************************************)
(* The store-and-forward mailbox of the relay (relay/src/main.rs).         *)
(*                                                                         *)
(* A relay keeps every accepted message twice: as an entry of an in-memory *)
(* mailbox (RelayState.mailboxes, bounded, lost on restart) and as a row   *)
(* of the SQLite table mailbox_entries (unbounded, durable).  The handlers *)
(* of the protocol touch the two copies in separate steps: `relay-ack',    *)
(* `relay-purge', `relay-read-receipt' and `relay-delete' change memory    *)
(* under the mailboxes lock, release it and then run an SQL statement;     *)
(* `relay-fetch' queries SQLite and only then looks at memory;             *)
(* `relay-store' sleeps for a random mix delay between its checks and its  *)
(* effects.  The module models those half-steps, the failure of each SQL   *)
(* statement, the hourly rotation of the blind mailbox key and the crash   *)
(* and restart of the relay.                                               *)
(*                                                                         *)
(* A Vec of entries is the set of its elements: entries are only appended  *)
(* and the identifiers grow with each append, so the order of the Vec is   *)
(* the order of the identifiers.  Requests enter after admission (module   *)
(* RelayAdmission models signature, timestamp and nonce checks).           *)
(***************************************************************************)
EXTENDS Integers, FiniteSets

CONSTANTS
    Users,        \* identities; compute_null_id is injective, so the user
                  \* stands for the fingerprint and the null id alike
    Msgs,         \* signed blobs
    From, To,     \* sender and recipient of each blob
    SeqOf,        \* the `seq' its store request carries: 1 in every request of
                  \* the client and of the bot
    HasSecret,    \* RelayState.shared_secret.is_some()
    AllowRelay,   \* RelayState.allow_relay
    MAX_ENTRIES_PER_SENDER,
    MAX_MAILBOX_SIZE,
    MAILBOX_TTL,        \* MAILBOX_TTL_SECONDS, in ticks
    ROUTING_EPOCH,      \* ROUTING_EPOCH_SECS, in ticks
    ROUTING_BUCKET,     \* ROUTING_BUCKET_SECS, in ticks
    MIX_MAX_DELAY,      \* MIX_MAX_DELAY_SECONDS, in ticks
    DbOutcomes,   \* what an SQL statement may report: {TRUE} or BOOLEAN
    MaxTime,      \* bound: the clock stops here
    MaxStores,    \* bound: number of calls of store_message
    MaxInFlight   \* bound: requests between their two halves at one time

ASSUME MailboxAssumption ==
    /\ From \in [Msgs -> Users] /\ To \in [Msgs -> Users]
    /\ SeqOf \in [Msgs -> Int]
    /\ HasSecret \in BOOLEAN /\ AllowRelay \in BOOLEAN
    /\ MAX_ENTRIES_PER_SENDER \in Nat \ {0}
    /\ MAX_MAILBOX_SIZE \in Nat \ {0}
    /\ MAILBOX_TTL \in Nat \ {0}
    /\ ROUTING_EPOCH \in Nat \ {0} /\ ROUTING_BUCKET \in Nat \ {0}
    /\ MIX_MAX_DELAY \in Nat
    /\ DbOutcomes \subseteq BOOLEAN /\ TRUE \in DbOutcomes
    /\ MaxTime \in Nat /\ MaxStores \in Nat /\ MaxInFlight \in Nat

VARIABLES
    now,       \* the relay's clock, in ticks
    mailboxes, \* in-memory entries of all mailboxes, each with its key
    db,        \* rows of mailbox_entries
    nextId,    \* AUTOINCREMENT: the identifier of the next entry
    delayed,   \* store and forward requests asleep in the mix delay
    halves,    \* acks and purges whose SQL statement has not run yet
    named,     \* read receipts and deletes whose SQL statement has not run yet
    fallbacks, \* fetches that found no row and have not read memory yet
    okd,       \* history: the stores whose sender was answered ok
    inbox,     \* history: what each user has been handed by a fetch
    released   \* history: the waiting stores that an ack or a purge of their
               \* own recipient has asked to end

vars == <<now, mailboxes, db, nextId, delayed, halves, named, fallbacks, okd, inbox,
          released>>

-----------------------------------------------------------------------------
(* Mailbox keys.  With a shared secret a mailbox is keyed by the blind tag *)
(* HMAC(secret, nid|epoch), otherwise by the null id itself.               *)

\* The epoch of the raw null id: smaller than every routing epoch.
NoEpoch == -1

Keys == [nid : Users, epoch : Nat \cup {NoEpoch}]

Tag(u, e) == [nid |-> u, epoch |-> e]

RawKey(u) == [nid |-> u, epoch |-> NoEpoch]

routing_epoch(t) == t \div ROUTING_EPOCH

\* The key store_message files a message under at time t.
StoreKey(u, t) == IF HasSecret THEN Tag(u, routing_epoch(t)) ELSE RawKey(u)

\* Mutant of mailbox_keys: the tag of the previous epoch is forgotten.
CurrentKeysOnly(u, t) == {RawKey(u), StoreKey(u, t)}

\* Where fetch, ack and purge look at time t: the tags of the current and of
\* the previous epoch and, always, the raw null id.
mailbox_keys(u, t) ==
    {RawKey(u)} \cup
    (IF HasSecret
     THEN {Tag(u, e) : e \in {routing_epoch(t), routing_epoch(t) - 1} \cap Nat}
     ELSE {})

\* Mutant of Bucketed: one bucket too far down.
BucketedTooFar(t) == ((t \div ROUTING_BUCKET) - 1) * ROUTING_BUCKET

Bucketed(t) == (t \div ROUTING_BUCKET) * ROUTING_BUCKET

-----------------------------------------------------------------------------
(* Entries and rows.                                                       *)

\* delivery_status: 1 = relayed, 2 = delivered, 3 = read.
Entry == [id : Nat, key : Keys, msg : Msgs, stored_at : Nat,
          status : {1, 2, 3}]

Row == [id : Nat, key : Keys, msg : Msgs, stored_at : Nat, delivered : BOOLEAN]

\* A blob and its SHA-256 are different strings.
signed_blob(m) == <<"blob", m>>
message_id(m) == <<"sha256", m>>

Mailbox(M, k) == {e \in M : e.key = k}

\* The first element of a Vec, if it has any: the smallest identifier.
First(S) == {e \in S : \A f \in S : e.id <= f.id}

\* Mutant of Evicted: the global cap tested with > for >=.
EvictedLate(box, s) ==
    LET own == {e \in box : From[e.msg] = s}
    IN  IF Cardinality(own) >= MAX_ENTRIES_PER_SENDER THEN First(own)
        ELSE IF Cardinality(box) > MAX_MAILBOX_SIZE THEN First(box)
        ELSE {}

\* What Mailbox::store removes to make room for a message of sender s.
Evicted(box, s) ==
    LET own == {e \in box : From[e.msg] = s}
    IN  IF Cardinality(own) >= MAX_ENTRIES_PER_SENDER THEN First(own)
        ELSE IF Cardinality(box) >= MAX_MAILBOX_SIZE THEN First(box)
        ELSE {}

MailboxStore(M, e) ==
    (M \ Evicted(Mailbox(M, e.key), From[e.msg])) \cup {e}

\* The filter of fetch_all and of cleanup_expired.
Live(e, t) == t - e.stored_at < MAILBOX_TTL

\* What ack_message does in memory: in each mailbox of the recipient the
\* first entry with that seq becomes delivered, whatever its status was.
AckedIn(M, ks, s) ==
    LET hit == UNION {First({e \in Mailbox(M, k) : SeqOf[e.msg] = s}) : k \in ks}
    IN  (M \ hit) \cup {[e EXCEPT !.status = 2] : e \in hit}

\* mark_read: the first entry of the mailbox with that message id becomes
\* read unless it is already.
MarkRead(M, k, mid) ==
    LET first == First({e \in Mailbox(M, k) : message_id(e.msg) = mid})
        hit   == {e \in first : e.status < 3}
    IN  (M \ hit) \cup {[e EXCEPT !.status = 3] : e \in hit}

\* remove_message: the first entry of the mailbox with that message id goes.
RemoveMessage(M, k, mid) ==
    M \ First({e \in Mailbox(M, k) : message_id(e.msg) = mid})

\* In memory a purge removes what the requester itself sent.
PurgedFrom(M, ks, u) == {e \in M : ~(e.key \in ks /\ From[e.msg] = u)}

\* Mutant of Undelivered: tags that do not depend on the null id.
UndeliveredOfEpoch(D, ks) ==
    {r \in D : ~r.delivered /\ \E k \in ks : k.epoch = r.key.epoch}

\* SELECT ... WHERE (recipient_tag IN keys OR recipient_nid IN keys)
\*            AND delivered = 0
Undelivered(D, ks) == {r \in D : r.key \in ks /\ ~r.delivered}

\* UPDATE ... SET delivered = 1 WHERE (tag or nid IN keys) AND seq = s
\*            AND delivered = 0
RowsAcked(D, ks, s) ==
    LET hit == {r \in Undelivered(D, ks) : SeqOf[r.msg] = s}
    IN  (D \ hit) \cup {[r EXCEPT !.delivered = TRUE] : r \in hit}

\* Mutants of RowsPurged: rows under the raw null id are deleted too; tags
\* that do not depend on the null id.
RowsPurgedAll(D, ks) == {r \in D : r.key \notin ks}

RowsPurgedOfEpoch(D, ks) ==
    {r \in D : r.key.epoch = NoEpoch \/ \A k \in ks : k.epoch # r.key.epoch}

\* DELETE ... WHERE recipient_tag IN (k1,..,kn)
\*            OR recipient_nid IN (k1,..,kn AND sender_fp = ?)
\* The sender filter is inside the second list, where it turns its last
\* member, the null id, into a truth value: a row is deleted when its tag is
\* among the keys, and a row stored under the raw null id never is.
RowsPurged(D, ks) == {r \in D : ~(r.key \in ks /\ r.key.epoch # NoEpoch)}

\* The rows `recipient_nid = ? AND signed_blob = ?' selects for the message id
\* of a read receipt or of a delete request.
RowsNamed(D, u, mid) == {r \in D : r.key = RawKey(u) /\ signed_blob(r.msg) = mid}

\* UPDATE ... SET delivered = 1 of a read receipt.
RowsRead(D, u, mid) ==
    LET hit == RowsNamed(D, u, mid)
    IN  (D \ hit) \cup {[r EXCEPT !.delivered = TRUE] : r \in hit}

\* The memory half of fetch_messages: the live entries of the first mailbox
\* that has any, trying the current tag, the previous tag, the raw null id.
FallbackEntries(M, ks, t) ==
    LET live == {e \in M : e.key \in ks /\ Live(e, t)}
    IN  {e \in live : \A f \in live : f.key.epoch <= e.key.epoch}

-----------------------------------------------------------------------------
(* Requests in flight.                                                     *)

Delayed == [kind : {"store", "forward"}, msg : Msgs, at : Nat]

Half == [op : {"ack"}, user : Users, keys : SUBSET Keys, seq : Int]
            \cup [op : {"purge"}, user : Users, keys : SUBSET Keys]

Named == [op : {"receipt", "delete"}, user : Users,
          mid : {message_id(m) : m \in Msgs} \cup {signed_blob(m) : m \in Msgs}]

Fallback == [user : Users, keys : SUBSET Keys]

InFlight ==
    Cardinality(delayed) + Cardinality(halves) + Cardinality(named)
        + Cardinality(fallbacks)

Init ==
    /\ now = 0
    /\ mailboxes = {} /\ db = {} /\ nextId = 0
    /\ delayed = {} /\ halves = {} /\ named = {} /\ fallbacks = {}
    /\ okd = {}
    /\ inbox = [u \in Users |-> {}]
    /\ released = {}

\* The store a row came from.
Store(r) == [id |-> r.id, msg |-> r.msg]

\* The request h of its recipient asks that row r should end: an ack names
\* its seq, a purge means every row under a blind tag.
Speaks(h, r) ==
    /\ To[r.msg] = h.user
    /\ IF h.op = "ack" THEN SeqOf[r.msg] = h.seq ELSE r.key.epoch # NoEpoch

\* The waiting stores that request h asks to end.
Released(h) == {Store(r) : r \in {q \in db : ~q.delivered /\ Speaks(h, q)}}

-----------------------------------------------------------------------------
(* The handlers.                                                           *)

\* Both `relay-store' and `relay-forward' put the request to sleep; a second
\* copy of a request that is asleep has the same nonce and is refused.
Sleep(kind, m) ==
    /\ InFlight < MaxInFlight
    /\ \A r \in delayed : r.msg # m
    /\ delayed' = delayed \cup {[kind |-> kind, msg |-> m, at |-> now]}
    /\ UNCHANGED <<now, mailboxes, db, nextId, halves, named, fallbacks, okd, inbox, released>>

relay_store(m) == Sleep("store", m)

\* Federation traffic is ignored without a secret and refused in edge mode.
relay_forward(m) == HasSecret /\ AllowRelay /\ Sleep("forward", m)

\* store_message, after the delay: file the message in memory and insert the
\* row while holding the mailboxes lock.  When the insert fails the sender
\* is answered with an error and the entry stays in memory.
store_message(r) ==
    /\ nextId < MaxStores
    /\ LET key   == StoreKey(To[r.msg], now)
           entry == [id |-> nextId, key |-> key, msg |-> r.msg,
                     stored_at |-> Bucketed(now), status |-> 1]
           row   == [id |-> nextId, key |-> key, msg |-> r.msg,
                     stored_at |-> Bucketed(now), delivered |-> FALSE]
       IN  /\ mailboxes' = MailboxStore(mailboxes, entry)
           /\ \/ /\ TRUE \in DbOutcomes
                 /\ db' = db \cup {row}
                 /\ okd' = okd \cup {[id |-> nextId, msg |-> r.msg]}
                 /\ released' = released \cup
                        {Store(q) : q \in {x \in {row} : \E h \in halves : Speaks(h, x)}}
              \/ /\ FALSE \in DbOutcomes
                 /\ UNCHANGED <<db, okd, released>>
    /\ nextId' = nextId + 1
    /\ delayed' = delayed \ {r}
    /\ UNCHANGED <<now, halves, named, fallbacks, inbox>>

\* relay-forward verifies signature, timestamp and nonce after its delay and
\* may refuse the request then.
refuse_forward(r) ==
    /\ r.kind = "forward"
    /\ delayed' = delayed \ {r}
    /\ UNCHANGED <<now, mailboxes, db, nextId, halves, named, fallbacks, okd, inbox, released>>

Hand(u, M) == inbox' = [inbox EXCEPT ![u] = @ \cup M]

\* relay-fetch, first half: answer with the undelivered rows, if any, else
\* (no row, or the query failed) go on to memory.
relay_fetch(u) ==
    LET ks   == mailbox_keys(u, now)
        rows == Undelivered(db, ks)
    IN  /\ \/ /\ rows # {}
              /\ Hand(u, {r.msg : r \in rows})
              /\ UNCHANGED fallbacks
           \/ /\ rows = {} \/ FALSE \in DbOutcomes
              /\ InFlight < MaxInFlight
              /\ fallbacks' = fallbacks \cup {[user |-> u, keys |-> ks]}
              /\ UNCHANGED inbox
        /\ UNCHANGED <<now, mailboxes, db, nextId, delayed, halves, named, okd, released>>

\* relay-fetch, second half.
fetch_memory(f) ==
    /\ Hand(f.user, {e.msg : e \in FallbackEntries(mailboxes, f.keys, now)})
    /\ fallbacks' = fallbacks \ {f}
    /\ UNCHANGED <<now, mailboxes, db, nextId, delayed, halves, named, okd, released>>

\* The recipient acknowledges a seq it has been handed (the client's side).
MayAck(u, s) == \E m \in inbox[u] : SeqOf[m] = s

\* relay-ack: memory first, the UPDATE later, with the keys computed now.
relay_ack(u, s) ==
    /\ InFlight < MaxInFlight
    /\ MayAck(u, s)
    /\ LET ks == mailbox_keys(u, now)
           h  == [op |-> "ack", user |-> u, keys |-> ks, seq |-> s]
       IN  /\ mailboxes' = AckedIn(mailboxes, ks, s)
           /\ halves' = halves \cup {h}
           /\ released' = released \cup Released(h)
    /\ UNCHANGED <<now, db, nextId, delayed, named, fallbacks, okd, inbox>>

\* relay-purge: memory first, the DELETE later.
relay_purge(u) ==
    /\ InFlight < MaxInFlight
    /\ LET ks == mailbox_keys(u, now)
           h  == [op |-> "purge", user |-> u, keys |-> ks]
       IN  /\ mailboxes' = PurgedFrom(mailboxes, ks, u)
           /\ halves' = halves \cup {h}
           /\ released' = released \cup Released(h)
    /\ UNCHANGED <<now, db, nextId, delayed, named, fallbacks, okd, inbox>>

\* The SQL half of an ack or of a purge; its error is ignored.
finish(h) ==
    /\ \/ /\ h.op = "ack"
          /\ db' = RowsAcked(db, h.keys, h.seq)
       \/ /\ h.op = "purge"
          /\ db' = RowsPurged(db, h.keys)
       \/ /\ FALSE \in DbOutcomes
          /\ UNCHANGED db
    /\ halves' = halves \ {h}
    /\ UNCHANGED <<now, mailboxes, nextId, delayed, named, fallbacks, okd, inbox, released>>

\* How a client names a message it has been handed: by its SHA-256, as the
\* answer of relay-fetch does, or by the whole blob, as the reflector does.
MessageNames(u) == {message_id(m) : m \in inbox[u]} \cup {signed_blob(m) : m \in inbox[u]}

\* relay-read-receipt, memory half.  Only the mailbox of the raw null id is
\* looked at; memory compares message ids, the UPDATE will compare blobs.
relay_read_receipt(u, mid) ==
    /\ InFlight < MaxInFlight
    /\ mailboxes' = MarkRead(mailboxes, RawKey(u), mid)
    /\ named' = named \cup {[op |-> "receipt", user |-> u, mid |-> mid]}
    /\ UNCHANGED <<now, db, nextId, delayed, halves, fallbacks, okd, inbox, released>>

\* relay-delete, which another relay sends after a read receipt: memory half.
relay_delete(u, mid) ==
    /\ InFlight < MaxInFlight
    /\ mailboxes' = RemoveMessage(mailboxes, RawKey(u), mid)
    /\ named' = named \cup {[op |-> "delete", user |-> u, mid |-> mid]}
    /\ UNCHANGED <<now, db, nextId, delayed, halves, fallbacks, okd, inbox, released>>

\* The SQL half of a read receipt or of a delete; its error is ignored.
finish_named(n) ==
    /\ \/ n.op = "receipt" /\ db' = RowsRead(db, n.user, n.mid)
       \/ n.op = "delete" /\ db' = db \ RowsNamed(db, n.user, n.mid)
       \/ FALSE \in DbOutcomes /\ UNCHANGED db
    /\ named' = named \ {n}
    /\ UNCHANGED <<now, mailboxes, nextId, delayed, halves, fallbacks, okd, inbox, released>>


\* The hourly task.
cleanup_expired ==
    /\ mailboxes' = {e \in mailboxes : Live(e, now)}
    /\ \/ db' = {r \in db : ~(r.stored_at < now - MAILBOX_TTL /\ r.delivered)}
       \/ FALSE \in DbOutcomes /\ UNCHANGED db
    /\ UNCHANGED <<now, nextId, delayed, halves, named, fallbacks, okd, inbox, released>>

\* The process stops and starts again: memory and requests in flight are
\* gone, the database is not, and RelayState::new loads no mailbox from it.
Restart ==
    /\ mailboxes' = {} /\ delayed' = {} /\ halves' = {} /\ named' = {} /\ fallbacks' = {}
    /\ UNCHANGED <<now, db, nextId, okd, inbox, released>>

\* Time passes, but no request sleeps longer than the largest mix delay.
Tick ==
    /\ now < MaxTime
    /\ \A r \in delayed : now < r.at + MIX_MAX_DELAY
    /\ now' = now + 1
    /\ UNCHANGED <<mailboxes, db, nextId, delayed, halves, named, fallbacks, okd, inbox, released>>

Next ==
    \/ \E m \in Msgs : relay_store(m) \/ relay_forward(m)
    \/ \E r \in delayed : store_message(r) \/ refuse_forward(r)
    \/ \E u \in Users : relay_fetch(u) \/ relay_purge(u)
    \/ \E f \in fallbacks : fetch_memory(f)
    \/ \E u \in Users : \E m \in Msgs : relay_ack(u, SeqOf[m])
    \/ \E h \in halves : finish(h)
    \/ \E n \in named : finish_named(n)
    \/ \E u \in Users : \E mid \in MessageNames(u) :
           relay_read_receipt(u, mid) \/ relay_delete(u, mid)
    \/ cleanup_expired
    \/ Restart
    \/ Tick

Spec == Init /\ [][Next]_vars

\* The recipients keep polling, and the relay finishes the fetches it began.
\* A handler runs as its own task on the executor, which polls every ready
\* task; that recipients poll is the client's periodic `read'.
FairSpec ==
    /\ Spec
    /\ \A u \in Users : WF_vars(relay_fetch(u))
    /\ WF_vars(\E f \in fallbacks : fetch_memory(f))

-----------------------------------------------------------------------------
(* Properties.                                                             *)

\* Every variable has its type.
TypeOK ==
    /\ now \in Nat /\ nextId \in Nat
    /\ mailboxes \subseteq Entry
    /\ db \subseteq Row
    /\ delayed \subseteq Delayed
    /\ halves \subseteq Half
    /\ named \subseteq Named
    /\ fallbacks \subseteq Fallback
    /\ okd \subseteq [id : Nat, msg : Msgs]
    /\ inbox \in [Users -> SUBSET Msgs]
    /\ released \subseteq [id : Nat, msg : Msgs]

\* What a fetch by u would hand out now, memory fallback included.
Visible(u) ==
    LET ks   == mailbox_keys(u, now)
        rows == Undelivered(db, ks)
    IN  IF rows # {} THEN {r.msg : r \in rows}
        ELSE {e.msg : e \in FallbackEntries(mailboxes, ks, now)}

\* No mailbox outgrows MAX_MAILBOX_SIZE and no sender has more than
\* MAX_ENTRIES_PER_SENDER entries in one (Mailbox::store, whose two eviction
\* branches exclude each other).
Capped ==
    \A e \in mailboxes :
        LET box == Mailbox(mailboxes, e.key)
        IN  /\ Cardinality(box) <= MAX_MAILBOX_SIZE
            /\ Cardinality({f \in box : From[f.msg] = From[e.msg]})
                   <= MAX_ENTRIES_PER_SENDER

\* A message is only ever handed to its recipient, whichever of the blind
\* tags it was filed under and whichever copy answered the fetch.
OwnMailOnly == \A u \in Users : \A m \in inbox[u] : To[m] = u

\* The recipient of a store has been handed its message or has itself asked
\* for its end.
Excused(a) == a.msg \in inbox[To[a.msg]] \/ a \in released

\* A message whose sender was answered ok stays in the database until its
\* recipient has been handed it or has itself acked or purged it, and is in
\* the answer of the recipient's next fetch: for ever without a secret, for
\* one routing epoch with one, since its blind tag is then still among the
\* mailbox_keys.  Nothing else may end it: no eviction, no expiry, no read
\* receipt or delete of another message, no half that ran before a crash, no
\* failing statement (store_message against every statement on the table).
AnsweredWaits ==
    \A a \in okd :
        \/ Excused(a)
        \/ \E r \in db :
               /\ Store(r) = a
               /\ (HasSecret => now - r.stored_at <= ROUTING_EPOCH)
                      => r.msg \in Visible(To[r.msg])

\* Every store whose sender was told ok is handed to its recipient in the
\* end, or ended by the recipient itself, if the recipient keeps fetching.
EventuallyFetched ==
    \A i \in 0..(MaxStores - 1) :
        (\E a \in okd : a.id = i) ~> (\E a \in okd : a.id = i /\ Excused(a))

\* The rows that wait for their recipient are the waiting messages of the
\* abstract mailbox, whatever is in memory.
Waiting == {Store(r) : r \in {q \in db : ~q.delivered}}

Durable == INSTANCE DurableMailbox
               WITH Ids <- 0..(MaxStores - 1),
                    accepted <- okd, waiting <- Waiting, handed <- inbox

\* The two copies, their half-steps, the evictions and the restarts implement
\* the durable mailbox: a store ends only after its recipient was handed it or
\* asked for its end, and nobody is handed the mail of another.
ImplementsDurable == Durable!DSpec

=============================================================================
