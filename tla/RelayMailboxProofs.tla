------------------------- MODULE RelayMailboxProofs -------------------------
(***************************************************************************)
(* Proofs about RelayMailbox for every number of users and messages, every *)
(* size and every bound.                                                   *)
(***************************************************************************)
EXTENDS RelayMailbox, FiniteSetTheorems, TLAPS

-----------------------------------------------------------------------------
(* Arithmetic of epochs and buckets.                                       *)

\* Epochs and bucketed times are naturals.
LEMMA TimeTypes ==
    ASSUME NEW t \in Nat
    PROVE  routing_epoch(t) \in Nat /\ Bucketed(t) \in Nat
<1>1. t \div ROUTING_EPOCH \in Nat
  BY MailboxAssumption, SMT
<1>2. t \div ROUTING_BUCKET \in Nat
  BY MailboxAssumption, SMT
<1>3. (t \div ROUTING_BUCKET) * ROUTING_BUCKET \in Nat
  BY <1>2, MailboxAssumption, SMT
<1> QED
  BY <1>1, <1>3 DEF routing_epoch, Bucketed

\* A message is filed under a key of its recipient, the raw one if there is no
\* secret, and a recipient only looks under its own keys.
LEMMA KeyFacts ==
    ASSUME NEW u \in Users, NEW t \in Nat
    PROVE  /\ StoreKey(u, t) \in Keys /\ StoreKey(u, t).nid = u
           /\ mailbox_keys(u, t) \subseteq Keys
           /\ \A k \in mailbox_keys(u, t) : k.nid = u
           /\ ~HasSecret => StoreKey(u, t) = RawKey(u)
<1>1. routing_epoch(t) \in Nat
  BY TimeTypes
<1>2. RawKey(u) \in Keys /\ RawKey(u).nid = u
  BY DEF RawKey, Keys, NoEpoch
<1>3. \A e \in Nat : Tag(u, e) \in Keys /\ Tag(u, e).nid = u
  BY DEF Tag, Keys
<1>4. \A k \in mailbox_keys(u, t) : k \in Keys /\ k.nid = u
  BY <1>2, <1>3 DEF mailbox_keys
<1>5. StoreKey(u, t) \in Keys /\ StoreKey(u, t).nid = u
  BY <1>1, <1>2, <1>3 DEF StoreKey
<1> QED
  BY <1>4, <1>5 DEF StoreKey

-----------------------------------------------------------------------------
(* What the updates of the two copies do to one element.                   *)

\* ack_message changes the status of entries of that seq and nothing else.
LEMMA AckedInFacts ==
    ASSUME NEW M \in SUBSET Entry, NEW ks, NEW s, NEW e \in AckedIn(M, ks, s)
    PROVE  /\ e \in Entry
           /\ \E f \in M : /\ e.id = f.id /\ e.key = f.key /\ e.msg = f.msg
                           /\ \/ e.status = f.status
                              \/ f.key \in ks /\ SeqOf[f.msg] = s
<1> DEFINE hit == UNION {First({x \in Mailbox(M, k) : SeqOf[x.msg] = s}) : k \in ks}
<1>1. AckedIn(M, ks, s) = (M \ hit) \cup {[x EXCEPT !.status = 2] : x \in hit}
  BY DEF AckedIn
<1>2. \A x \in hit : x \in M /\ x.key \in ks /\ SeqOf[x.msg] = s
  BY DEF First, Mailbox
<1>3. CASE e \in M
  BY <1>3
<1>4. CASE \E x \in hit : e = [x EXCEPT !.status = 2]
  <2>1. PICK x \in hit : e = [x EXCEPT !.status = 2]
    BY <1>4
  <2>2. x \in Entry /\ x \in M
    BY <1>2, <2>1
  <2>3. e \in Entry /\ e.id = x.id /\ e.key = x.key /\ e.msg = x.msg
    BY <2>1, <2>2 DEF Entry
  <2> QED
    BY <1>2, <2>2, <2>3
<1> HIDE DEF hit
<1> QED
  BY <1>1, <1>3, <1>4

\* mark_read changes the status of an entry that carries that message id.
LEMMA MarkReadFacts ==
    ASSUME NEW M \in SUBSET Entry, NEW k, NEW mid, NEW e \in MarkRead(M, k, mid)
    PROVE  /\ e \in Entry
           /\ \E f \in M : /\ e.id = f.id /\ e.key = f.key /\ e.msg = f.msg
                           /\ \/ e.status = f.status
                              \/ f.key = k /\ message_id(f.msg) = mid
<1> DEFINE first == First({x \in Mailbox(M, k) : message_id(x.msg) = mid})
           hit   == {x \in first : x.status < 3}
<1>1. MarkRead(M, k, mid)
        = (M \ hit) \cup {[x EXCEPT !.status = 3] : x \in hit}
  BY DEF MarkRead
<1>2. \A x \in hit : x \in M /\ x.key = k /\ message_id(x.msg) = mid
  BY DEF First, Mailbox
<1>3. CASE e \in M
  BY <1>3
<1>4. CASE \E x \in hit : e = [x EXCEPT !.status = 3]
  <2>1. PICK x \in hit : e = [x EXCEPT !.status = 3]
    BY <1>4
  <2>2. x \in Entry /\ x \in M
    BY <1>2, <2>1
  <2>3. e \in Entry /\ e.id = x.id /\ e.key = x.key /\ e.msg = x.msg
    BY <2>1, <2>2 DEF Entry
  <2> QED
    BY <1>2, <2>2, <2>3
<1> HIDE DEF hit
<1> QED
  BY <1>1, <1>3, <1>4

\* Marking rows as delivered changes nothing but that flag.
LEMMA MarkedRowFacts ==
    ASSUME NEW D \in SUBSET Row, NEW hit \in SUBSET D,
           NEW r \in (D \ hit) \cup {[q EXCEPT !.delivered = TRUE] : q \in hit}
    PROVE  /\ r \in Row
           /\ \E q \in D : /\ r.id = q.id /\ r.key = q.key /\ r.msg = q.msg
                           /\ r.stored_at = q.stored_at
                           /\ r.delivered = q.delivered \/ q \in hit
<1>1. CASE r \in D
  BY <1>1
<1>2. CASE \E q \in hit : r = [q EXCEPT !.delivered = TRUE]
  <2>1. PICK q \in hit : r = [q EXCEPT !.delivered = TRUE]
    BY <1>2
  <2>2. q \in Row
    BY <2>1
  <2>3. r \in Row /\ r.id = q.id /\ r.key = q.key /\ r.msg = q.msg
            /\ r.stored_at = q.stored_at
    BY <2>1, <2>2 DEF Row
  <2> QED
    BY <2>1, <2>3
<1> QED
  BY <1>1, <1>2

-----------------------------------------------------------------------------
(* Type correctness.                                                       *)

LEMMA InitTypeOK == Init => TypeOK
  BY DEF Init, TypeOK

\* What a request releases are stores.
LEMMA ReleasedType ==
    ASSUME TypeOK, NEW h
    PROVE  Released(h) \subseteq [id : Nat, msg : Msgs]
  BY DEF TypeOK, Released, Store, Row

\* Every step, handler by handler, keeps the types.
LEMMA NextTypeOK == TypeOK /\ [Next]_vars => TypeOK'
<1> SUFFICES ASSUME TypeOK, [Next]_vars
             PROVE  TypeOK'
  OBVIOUS
<1> USE DEF TypeOK
<1>1. ASSUME NEW m \in Msgs, relay_store(m) \/ relay_forward(m)
      PROVE  TypeOK'
  BY <1>1 DEF relay_store, relay_forward, Sleep, Delayed
<1>2. ASSUME NEW r \in delayed, store_message(r)
      PROVE  TypeOK'
  <2> DEFINE key   == StoreKey(To[r.msg], now)
             entry == [id |-> nextId, key |-> key, msg |-> r.msg,
                       stored_at |-> Bucketed(now), status |-> 1]
             row   == [id |-> nextId, key |-> key, msg |-> r.msg,
                       stored_at |-> Bucketed(now), delivered |-> FALSE]
             ok    == [id |-> nextId, msg |-> r.msg]
  <2>1. r.msg \in Msgs /\ To[r.msg] \in Users
    BY MailboxAssumption DEF Delayed
  <2>2. key \in Keys /\ Bucketed(now) \in Nat
    BY <2>1, KeyFacts, TimeTypes
  <2>3. entry \in Entry /\ row \in Row /\ ok \in [id : Nat, msg : Msgs]
    BY <2>1, <2>2 DEF Entry, Row
  <2>4. mailboxes' \subseteq mailboxes \cup {entry}
    BY <1>2 DEF store_message, MailboxStore
  <2>5. db' \subseteq db \cup {row} /\ okd' \subseteq okd \cup {ok}
    BY <1>2 DEF store_message
  <2>6. /\ now' = now /\ nextId' = nextId + 1 /\ delayed' \subseteq delayed
        /\ halves' = halves /\ named' = named /\ fallbacks' = fallbacks
        /\ inbox' = inbox
    BY <1>2 DEF store_message
  <2>7. released' \subseteq released \cup {ok}
    <3>1. Store(row) = ok
      BY DEF Store
    <3>2. \/ released' = released
          \/ released' = released \cup
                 {Store(q) : q \in {x \in {row} : \E h \in halves : Speaks(h, x)}}
      BY <1>2 DEF store_message
    <3> HIDE DEF row, ok
    <3> QED
      BY <3>1, <3>2
  <2> HIDE DEF entry, row, ok
  <2> QED
    BY <2>3, <2>4, <2>5, <2>6, <2>7
<1>3. ASSUME NEW r \in delayed, refuse_forward(r)
      PROVE  TypeOK'
  BY <1>3 DEF refuse_forward
<1>4. ASSUME NEW u \in Users, relay_fetch(u)
      PROVE  TypeOK'
  <2>1. mailbox_keys(u, now) \in SUBSET Keys
    BY KeyFacts
  <2>2. [user |-> u, keys |-> mailbox_keys(u, now)] \in Fallback
    BY <2>1 DEF Fallback
  <2>3. {r.msg : r \in Undelivered(db, mailbox_keys(u, now))} \subseteq Msgs
    BY DEF Undelivered, Row
  <2> QED
    BY <1>4, <2>2, <2>3 DEF relay_fetch, Hand
<1>5. ASSUME NEW u \in Users, relay_purge(u)
      PROVE  TypeOK'
  <2>1. mailbox_keys(u, now) \in SUBSET Keys
    BY KeyFacts
  <2>2. [op |-> "purge", user |-> u, keys |-> mailbox_keys(u, now)] \in Half
    BY <2>1 DEF Half
  <2> QED
    BY <1>5, <2>2, ReleasedType DEF relay_purge, PurgedFrom
<1>6. ASSUME NEW f \in fallbacks, fetch_memory(f)
      PROVE  TypeOK'
  <2>1. FallbackEntries(mailboxes, f.keys, now) \subseteq mailboxes
    BY DEF FallbackEntries
  <2>2. {e.msg : e \in FallbackEntries(mailboxes, f.keys, now)} \subseteq Msgs
    BY <2>1 DEF Entry
  <2> QED
    BY <1>6, <2>2 DEF fetch_memory, Hand, Fallback
<1>7. ASSUME NEW u \in Users, NEW m \in Msgs, relay_ack(u, SeqOf[m])
      PROVE  TypeOK'
  <2>1. mailbox_keys(u, now) \in SUBSET Keys /\ SeqOf[m] \in Int
    BY KeyFacts, MailboxAssumption
  <2>2. [op |-> "ack", user |-> u, keys |-> mailbox_keys(u, now), seq |-> SeqOf[m]]
            \in Half
    BY <2>1 DEF Half
  <2>3. AckedIn(mailboxes, mailbox_keys(u, now), SeqOf[m]) \subseteq Entry
    BY AckedInFacts
  <2> QED
    BY <1>7, <2>2, <2>3, ReleasedType DEF relay_ack
<1>8. ASSUME NEW h \in halves, finish(h)
      PROVE  TypeOK'
  <2>1. RowsAcked(db, h.keys, h.seq) \subseteq Row
    BY MarkedRowFacts DEF RowsAcked, Undelivered
  <2>2. RowsPurged(db, h.keys) \subseteq db
    BY DEF RowsPurged
  <2> QED
    BY <1>8, <2>1, <2>2 DEF finish
<1>9. ASSUME NEW u \in Users, NEW mid \in MessageNames(u),
             relay_read_receipt(u, mid) \/ relay_delete(u, mid)
      PROVE  TypeOK'
  <2>1. MarkRead(mailboxes, RawKey(u), mid) \subseteq Entry
    BY MarkReadFacts
  <2>2. RemoveMessage(mailboxes, RawKey(u), mid) \subseteq mailboxes
    BY DEF RemoveMessage
  <2>3. \A op \in {"receipt", "delete"} : [op |-> op, user |-> u, mid |-> mid] \in Named
    BY DEF MessageNames, Named
  <2> QED
    BY <1>9, <2>1, <2>2, <2>3 DEF relay_read_receipt, relay_delete
<1>10. ASSUME NEW n \in named, finish_named(n)
       PROVE  TypeOK'
  <2>1. RowsRead(db, n.user, n.mid) \subseteq Row
    BY MarkedRowFacts DEF RowsRead, RowsNamed
  <2> QED
    BY <1>10, <2>1 DEF finish_named
<1>11. CASE cleanup_expired
  BY <1>11 DEF cleanup_expired
<1>12. CASE Restart
  BY <1>12 DEF Restart
<1>13. CASE Tick
  BY <1>13 DEF Tick
<1>14. CASE UNCHANGED vars
  BY <1>14 DEF vars
<1> QED
  BY <1>1, <1>2, <1>3, <1>4, <1>5, <1>6, <1>7, <1>8, <1>9, <1>10, <1>11, <1>12,
     <1>13, <1>14 DEF Next

\* The state of the mailboxes keeps its type, whatever the handlers do.
THEOREM TypeCorrect == Spec => []TypeOK
  BY InitTypeOK, NextTypeOK, PTL DEF Spec

-----------------------------------------------------------------------------
(* Mail reaches its recipient and nobody else.                             *)

\* Both copies file a message under a key of its recipient, and identifiers
\* are smaller than the next one.
Filed ==
    /\ \A e \in mailboxes : e.key.nid = To[e.msg] /\ e.id < nextId
    /\ \A r \in db : r.key.nid = To[r.msg] /\ r.id < nextId
    /\ \A x \in okd : x.id < nextId

\* A request between its halves holds keys of the user it came from, and a
\* read receipt or a delete names what its user has been handed.
Asked ==
    /\ \A h \in halves : \A k \in h.keys : k.nid = h.user
    /\ \A n \in named : n.mid \in MessageNames(n.user)
    /\ \A f \in fallbacks : \A k \in f.keys : k.nid = f.user

\* What a user has been handed is never forgotten.
LEMMA InboxGrows ==
    ASSUME TypeOK, [Next]_vars
    PROVE  \A u \in Users : inbox[u] \subseteq inbox'[u]
<1> USE DEF TypeOK
<1>1. ASSUME NEW u \in Users, NEW M, Hand(u, M)
      PROVE  \A v \in Users : inbox[v] \subseteq inbox'[v]
  BY <1>1 DEF Hand
<1>2. ASSUME NEW u \in Users, relay_fetch(u)
      PROVE  \A v \in Users : inbox[v] \subseteq inbox'[v]
  BY <1>1, <1>2 DEF relay_fetch
<1>3. ASSUME NEW f \in fallbacks, fetch_memory(f)
      PROVE  \A v \in Users : inbox[v] \subseteq inbox'[v]
  <2>1. f.user \in Users
    BY DEF Fallback
  <2> QED
    BY <1>1, <1>3, <2>1 DEF fetch_memory
<1>4. CASE inbox' = inbox
  BY <1>4
<1> QED
  BY <1>2, <1>3, <1>4
     DEF Next, vars, relay_store, relay_forward, Sleep, store_message,
         refuse_forward, relay_purge, relay_ack, finish, relay_read_receipt,
         relay_delete, finish_named, cleanup_expired, Restart, Tick

LEMMA NextFiled == TypeOK /\ Filed /\ [Next]_vars => Filed'
<1> SUFFICES ASSUME TypeOK, Filed, [Next]_vars
             PROVE  Filed'
  OBVIOUS
<1> USE DEF TypeOK, Filed
<1>1. CASE /\ mailboxes' \subseteq mailboxes
           /\ UNCHANGED <<db, nextId, okd>>
  BY <1>1
<1>2. ASSUME NEW r \in delayed, store_message(r)
      PROVE  Filed'
  <2>1. r.msg \in Msgs /\ To[r.msg] \in Users
    BY MailboxAssumption DEF Delayed
  <2>2. StoreKey(To[r.msg], now).nid = To[r.msg]
    BY <2>1, KeyFacts
  <2>3. \A e \in mailboxes' : e \in mailboxes
            \/ (e.id = nextId /\ e.msg = r.msg /\ e.key = StoreKey(To[r.msg], now))
    BY <1>2 DEF store_message, MailboxStore
  <2>4. \A q \in db' : q \in db
            \/ (q.id = nextId /\ q.msg = r.msg /\ q.key = StoreKey(To[r.msg], now))
    <3>1. db' \subseteq db \cup
              {[id |-> nextId, key |-> StoreKey(To[r.msg], now), msg |-> r.msg,
                stored_at |-> Bucketed(now), delivered |-> FALSE]}
      BY <1>2 DEF store_message
    <3> QED
      BY <3>1
  <2>5. \A x \in okd' : x \in okd \/ x.id = nextId
    <3>1. okd' \subseteq okd \cup {[id |-> nextId, msg |-> r.msg]}
      BY <1>2 DEF store_message
    <3> QED
      BY <3>1
  <2>6. nextId' = nextId + 1
    BY <1>2 DEF store_message
  <2>7. \A e \in mailboxes' : e.key.nid = To[e.msg] /\ e.id < nextId'
    BY <2>2, <2>3, <2>6 DEF Entry
  <2>8. \A q \in db' : q.key.nid = To[q.msg] /\ q.id < nextId'
    BY <2>2, <2>4, <2>6 DEF Row
  <2> QED
    BY <2>5, <2>6, <2>7, <2>8
<1>3. ASSUME NEW u \in Users, relay_purge(u)
      PROVE  Filed'
  BY <1>1, <1>3 DEF relay_purge, PurgedFrom
<1>4. ASSUME NEW u \in Users, NEW m \in Msgs, relay_ack(u, SeqOf[m])
      PROVE  Filed'
  <2>1. mailboxes' = AckedIn(mailboxes, mailbox_keys(u, now), SeqOf[m])
    BY <1>4 DEF relay_ack
  <2>2. \A e \in mailboxes' : \E f \in mailboxes :
            e.id = f.id /\ e.key = f.key /\ e.msg = f.msg
    BY <2>1, AckedInFacts
  <2> QED
    BY <1>4, <2>2 DEF relay_ack
<1>5. ASSUME NEW h \in halves, finish(h)
      PROVE  Filed'
  <2>1. \A r \in RowsAcked(db, h.keys, h.seq) : \E q \in db :
            r.id = q.id /\ r.key = q.key /\ r.msg = q.msg
    BY MarkedRowFacts DEF RowsAcked, Undelivered
  <2>2. \A r \in db' : \E q \in db : r.id = q.id /\ r.key = q.key /\ r.msg = q.msg
    BY <1>5, <2>1 DEF finish, RowsPurged
  <2> QED
    BY <1>5, <2>2 DEF finish
<1>6. ASSUME NEW u \in Users, NEW mid, relay_read_receipt(u, mid) \/ relay_delete(u, mid)
      PROVE  Filed'
  <2>1. \A e \in MarkRead(mailboxes, RawKey(u), mid) : \E f \in mailboxes :
            e.id = f.id /\ e.key = f.key /\ e.msg = f.msg
    BY MarkReadFacts
  <2>2. \A e \in mailboxes' : \E f \in mailboxes :
            e.id = f.id /\ e.key = f.key /\ e.msg = f.msg
    BY <1>6, <2>1 DEF relay_read_receipt, relay_delete, RemoveMessage
  <2> QED
    BY <1>6, <2>2 DEF relay_read_receipt, relay_delete
<1>7. ASSUME NEW n \in named, finish_named(n)
      PROVE  Filed'
  <2>1. \A r \in RowsRead(db, n.user, n.mid) : \E q \in db :
            r.id = q.id /\ r.key = q.key /\ r.msg = q.msg
    BY MarkedRowFacts DEF RowsRead, RowsNamed
  <2>2. \A r \in db' : \E q \in db : r.id = q.id /\ r.key = q.key /\ r.msg = q.msg
    BY <1>7, <2>1 DEF finish_named
  <2> QED
    BY <1>7, <2>2 DEF finish_named
<1>8. CASE cleanup_expired
  BY <1>8 DEF cleanup_expired
<1> QED
  BY <1>1, <1>2, <1>3, <1>4, <1>5, <1>6, <1>7, <1>8
     DEF Next, vars, relay_store, relay_forward, Sleep, refuse_forward, relay_fetch,
         fetch_memory, Restart, Tick

LEMMA NextAsked == TypeOK /\ Asked /\ [Next]_vars => Asked'
<1> SUFFICES ASSUME TypeOK, Asked, [Next]_vars
             PROVE  Asked'
  OBVIOUS
<1> USE DEF TypeOK, Asked
<1>a. \A u \in Users : MessageNames(u) \subseteq MessageNames(u)'
  BY InboxGrows DEF MessageNames
<1>b. \A n \in named : n.user \in Users /\ n.mid \in MessageNames(n.user)'
  BY <1>a DEF Named
<1>4. CASE halves' \subseteq halves /\ named' \subseteq named /\ fallbacks' \subseteq fallbacks
  BY <1>b, <1>4
<1>5. ASSUME NEW u \in Users, relay_fetch(u)
      PROVE  Asked'
  <2>1. \A k \in mailbox_keys(u, now) : k.nid = u
    BY KeyFacts
  <2>2. \A f \in fallbacks' : f \in fallbacks
            \/ (f.user = u /\ f.keys = mailbox_keys(u, now))
    <3>1. fallbacks' \subseteq fallbacks \cup {[user |-> u, keys |-> mailbox_keys(u, now)]}
      BY <1>5 DEF relay_fetch
    <3> QED
      BY <3>1
  <2>3. halves' = halves /\ named' = named
    BY <1>5 DEF relay_fetch
  <2> QED
    BY <1>b, <2>1, <2>2, <2>3
<1>6. ASSUME NEW u \in Users, relay_purge(u)
      PROVE  Asked'
  <2>1. \A k \in mailbox_keys(u, now) : k.nid = u
    BY KeyFacts
  <2>2. \A h \in halves' : h \in halves
            \/ (h.op = "purge" /\ h.user = u /\ h.keys = mailbox_keys(u, now))
    BY <1>6 DEF relay_purge
  <2>3. fallbacks' = fallbacks /\ named' = named
    BY <1>6 DEF relay_purge
  <2> QED
    BY <1>b, <2>1, <2>2, <2>3
<1>7. ASSUME NEW u \in Users, NEW m \in Msgs, relay_ack(u, SeqOf[m])
      PROVE  Asked'
  <2>1. \A k \in mailbox_keys(u, now) : k.nid = u
    BY KeyFacts
  <2>2. \A h \in halves' : h \in halves
            \/ (h.user = u /\ h.seq = SeqOf[m] /\ h.keys = mailbox_keys(u, now))
    BY <1>7 DEF relay_ack
  <2>3. fallbacks' = fallbacks /\ named' = named
    BY <1>7 DEF relay_ack
  <2> QED
    BY <1>b, <2>1, <2>2, <2>3
<1>8. ASSUME NEW u \in Users, NEW mid \in MessageNames(u),
             relay_read_receipt(u, mid) \/ relay_delete(u, mid)
      PROVE  Asked'
  <2>1. \A n \in named' : n \in named \/ (n.user = u /\ n.mid = mid)
    BY <1>8 DEF relay_read_receipt, relay_delete
  <2>2. halves' = halves /\ fallbacks' = fallbacks
    BY <1>8 DEF relay_read_receipt, relay_delete
  <2> QED
    BY <1>a, <1>b, <2>1, <2>2
<1> QED
  BY <1>4, <1>5, <1>6, <1>7, <1>8
     DEF Next, vars, relay_store, relay_forward, Sleep, store_message,
         refuse_forward, fetch_memory, finish, finish_named, cleanup_expired,
         Restart, Tick

LEMMA NextOwnMail ==
    TypeOK /\ Filed /\ Asked /\ OwnMailOnly /\ [Next]_vars => OwnMailOnly'
<1> SUFFICES ASSUME TypeOK, Filed, Asked, OwnMailOnly, [Next]_vars
             PROVE  OwnMailOnly'
  OBVIOUS
<1> USE DEF TypeOK, OwnMailOnly
<1>1. ASSUME NEW u \in Users, NEW M, Hand(u, M), \A m \in M : To[m] = u
      PROVE  OwnMailOnly'
  BY <1>1 DEF Hand
<1>2. ASSUME NEW u \in Users, relay_fetch(u)
      PROVE  OwnMailOnly'
  <2>1. \A k \in mailbox_keys(u, now) : k.nid = u
    BY KeyFacts
  <2>2. \A m \in {r.msg : r \in Undelivered(db, mailbox_keys(u, now))} : To[m] = u
    BY <2>1 DEF Undelivered, Filed
  <2> QED
    BY <1>1, <1>2, <2>2 DEF relay_fetch
<1>3. ASSUME NEW f \in fallbacks, fetch_memory(f)
      PROVE  OwnMailOnly'
  <2>1. f.user \in Users /\ \A k \in f.keys : k.nid = f.user
    BY DEF Fallback, Asked
  <2>2. \A e \in FallbackEntries(mailboxes, f.keys, now) :
            e \in mailboxes /\ e.key \in f.keys
    BY DEF FallbackEntries
  <2>3. \A m \in {e.msg : e \in FallbackEntries(mailboxes, f.keys, now)} : To[m] = f.user
    BY <2>1, <2>2 DEF Filed
  <2> QED
    BY <1>1, <1>3, <2>1, <2>3 DEF fetch_memory
<1>4. CASE inbox' = inbox
  BY <1>4
<1> QED
  BY <1>2, <1>3, <1>4
     DEF Next, vars, relay_store, relay_forward, Sleep, store_message,
         refuse_forward, relay_purge, relay_ack, finish, relay_read_receipt,
         relay_delete, finish_named, cleanup_expired, Restart, Tick

\* The invariant the later theorems rest on.
Filing == TypeOK /\ Filed /\ Asked /\ OwnMailOnly

LEMMA FilingInvariant == Spec => []Filing
<1>1. Init => Filing
  BY InitTypeOK DEF Init, Filing, Filed, Asked, OwnMailOnly
<1>2. Filing /\ [Next]_vars => Filing'
  BY NextTypeOK, NextFiled, NextAsked, NextOwnMail DEF Filing
<1> QED
  BY <1>1, <1>2, PTL DEF Spec

\* Whatever tag a message was filed under and whichever copy answers, a fetch
\* hands it to its recipient only.
THEOREM MailIsPrivate == Spec => []OwnMailOnly
<1>1. Filing => OwnMailOnly
  BY DEF Filing
<1> QED
  BY <1>1, FilingInvariant, PTL

-----------------------------------------------------------------------------
(* An answered store is kept.                                              *)

\* Every waiting row that a request between its halves speaks of has been
\* released: also one that was stored after the request looked at memory.
Ending == \A h \in halves, r \in db : (~r.delivered /\ Speaks(h, r)) => Store(r) \in released

\* An answered store waits or is excused.
Kept == \A a \in okd : Excused(a) \/ a \in Waiting

\* A row that waits after a step other than a store waited before it.
LEMMA NoNewRows ==
    ASSUME TypeOK, [Next]_vars, \A s \in delayed : ~store_message(s)
    PROVE  \A q \in db' : ~q.delivered => q \in db
<1>1. CASE db' \subseteq db
  BY <1>1
<1>2. ASSUME NEW hit, hit \subseteq db,
             db' = (db \ hit) \cup {[q EXCEPT !.delivered = TRUE] : q \in hit}
      PROVE  \A q \in db' : ~q.delivered => q \in db
  <2>1. \A q \in hit : [q EXCEPT !.delivered = TRUE].delivered
    BY <1>2 DEF TypeOK, Row
  <2> QED
    BY <1>2, <2>1
<1>3. ASSUME NEW h \in halves, finish(h)
      PROVE  \A q \in db' : ~q.delivered => q \in db
  <2> DEFINE hit == {q \in Undelivered(db, h.keys) : SeqOf[q.msg] = h.seq}
  <2>1. hit \subseteq db
    BY DEF Undelivered
  <2>2. \/ db' = (db \ hit) \cup {[q EXCEPT !.delivered = TRUE] : q \in hit}
        \/ db' \subseteq db
    BY <1>3 DEF finish, RowsAcked, RowsPurged
  <2> HIDE DEF hit
  <2> QED
    BY <1>1, <1>2, <2>1, <2>2
<1>4. ASSUME NEW n \in named, finish_named(n)
      PROVE  \A q \in db' : ~q.delivered => q \in db
  <2> DEFINE hit == RowsNamed(db, n.user, n.mid)
  <2>1. hit \subseteq db
    BY DEF RowsNamed
  <2>2. \/ db' = (db \ hit) \cup {[q EXCEPT !.delivered = TRUE] : q \in hit}
        \/ db' \subseteq db
    BY <1>4 DEF finish_named, RowsRead
  <2> HIDE DEF hit
  <2> QED
    BY <1>1, <1>2, <2>1, <2>2
<1>5. CASE cleanup_expired
  BY <1>1, <1>5 DEF cleanup_expired
<1> QED
  BY <1>1, <1>3, <1>4, <1>5
     DEF Next, vars, relay_store, relay_forward, Sleep, refuse_forward, relay_fetch,
         fetch_memory, relay_ack, relay_purge, relay_read_receipt, relay_delete,
         Restart, Tick

\* No step takes back a release.
LEMMA ReleasedGrows ==
    ASSUME [Next]_vars
    PROVE  released \subseteq released'
  BY DEF Next, vars, relay_store, relay_forward, Sleep, store_message,
         refuse_forward, relay_fetch, fetch_memory, relay_ack, relay_purge, finish,
         relay_read_receipt, relay_delete, finish_named, cleanup_expired, Restart, Tick

LEMMA NextEnding ==
    ASSUME TypeOK, Ending, [Next]_vars
    PROVE  Ending'
<1> SUFFICES ASSUME NEW h \in halves', NEW r \in db', ~r.delivered, Speaks(h, r)
             PROVE  Store(r) \in released'
  BY DEF Ending
<1>1. CASE h \in halves /\ r \in db
  BY <1>1, ReleasedGrows DEF Ending
<1>2. ASSUME NEW s \in delayed, store_message(s)
      PROVE  Store(r) \in released'
  <2> DEFINE row == [id |-> nextId, key |-> StoreKey(To[s.msg], now), msg |-> s.msg,
                     stored_at |-> Bucketed(now), delivered |-> FALSE]
  <2>1. halves' = halves
    BY <1>2 DEF store_message
  <2>2. \/ db' = db
        \/ /\ db' = db \cup {row}
           /\ released' = released \cup
                  {Store(q) : q \in {x \in {row} : \E g \in halves : Speaks(g, x)}}
    BY <1>2 DEF store_message
  <2> HIDE DEF row
  <2> QED
    BY <1>1, <2>1, <2>2
<1>3. ASSUME NEW g, r \in db, halves' = halves \cup {g},
             released' = released \cup Released(g)
      PROVE  Store(r) \in released'
  BY <1>1, <1>3 DEF Released
<1>4. CASE \A s \in delayed : ~store_message(s)
  <2>1. r \in db
    BY <1>4, NoNewRows
  <2>2. ASSUME NEW u \in Users, relay_purge(u)
        PROVE  Store(r) \in released'
    <3> DEFINE g == [op |-> "purge", user |-> u, keys |-> mailbox_keys(u, now)]
    <3>1. halves' = halves \cup {g} /\ released' = released \cup Released(g)
      BY <2>2 DEF relay_purge
    <3> HIDE DEF g
    <3> QED
      BY <1>3, <2>1, <3>1
  <2>3. ASSUME NEW u \in Users, NEW m \in Msgs, relay_ack(u, SeqOf[m])
        PROVE  Store(r) \in released'
    <3> DEFINE g == [op |-> "ack", user |-> u, keys |-> mailbox_keys(u, now),
                     seq |-> SeqOf[m]]
    <3>1. halves' = halves \cup {g} /\ released' = released \cup Released(g)
      BY <2>3 DEF relay_ack
    <3> HIDE DEF g
    <3> QED
      BY <1>3, <2>1, <3>1
  <2>4. CASE halves' \subseteq halves
    BY <1>1, <2>1, <2>4
  <2> QED
    BY <1>4, <2>2, <2>3, <2>4
       DEF Next, vars, relay_store, relay_forward, Sleep, refuse_forward, relay_fetch,
           fetch_memory, finish, relay_read_receipt, relay_delete, finish_named,
           cleanup_expired, Restart, Tick
<1> QED
  BY <1>2, <1>4

\* A waiting row stays as it is through every step, unless its recipient has
\* been handed its message or has asked for its end.
LEMMA WaitingStays ==
    ASSUME Filing, Ending, [Next]_vars, NEW r \in db, ~r.delivered, ~Excused(Store(r))
    PROVE  r \in db'
<1> USE DEF Filing
<1>1. r.msg \notin inbox[To[r.msg]] /\ Store(r) \notin released
  BY DEF Excused, Store
<1>2. CASE db \subseteq db'
  BY <1>2
<1>3. ASSUME NEW h \in halves, finish(h)
      PROVE  r \in db'
  <2>1. r.key \in h.keys => To[r.msg] = h.user
    BY DEF Asked, Filed
  <2>2. CASE h.op = "ack" /\ db' = RowsAcked(db, h.keys, h.seq)
    BY <1>1, <2>1, <2>2 DEF RowsAcked, Undelivered, Ending, Speaks
  <2>3. CASE h.op = "purge" /\ db' = RowsPurged(db, h.keys)
    <3>1. h.op # "ack"
      BY <2>3
    <3> QED
      BY <1>1, <2>1, <2>3, <3>1 DEF RowsPurged, Ending, Speaks
  <2> QED
    BY <1>2, <1>3, <2>2, <2>3 DEF finish
<1>4. ASSUME NEW n \in named, finish_named(n)
      PROVE  r \in db'
  <2>1. r \notin RowsNamed(db, n.user, n.mid)
    <3>1. SUFFICES ASSUME r.key = RawKey(n.user), signed_blob(r.msg) = n.mid
                   PROVE  FALSE
      BY DEF RowsNamed
    <3>2. n.mid \in MessageNames(n.user) /\ r.key.nid = To[r.msg]
      BY DEF Asked, Filed
    <3>3. r.msg \in inbox[n.user] /\ To[r.msg] = n.user
      BY <3>1, <3>2 DEF MessageNames, signed_blob, message_id, RawKey
    <3> QED
      BY <1>1, <3>3
  <2> QED
    BY <1>4, <2>1 DEF finish_named, RowsRead
<1>5. CASE cleanup_expired
  BY <1>5 DEF cleanup_expired
<1>6. ASSUME NEW s \in delayed, store_message(s)
      PROVE  r \in db'
  BY <1>2, <1>6 DEF store_message
<1> QED
  BY <1>2, <1>3, <1>4, <1>5, <1>6
     DEF Next, vars, relay_store, relay_forward, Sleep, refuse_forward, relay_fetch,
         fetch_memory, relay_ack, relay_purge, relay_read_receipt, relay_delete,
         Restart, Tick

LEMMA NextKept ==
    ASSUME Filing, Ending, Kept, [Next]_vars
    PROVE  Kept'
<1> SUFFICES ASSUME NEW a \in okd', ~Excused(a)'
             PROVE  a \in Waiting'
  BY DEF Kept
<1>1. CASE a \in okd
  <2>1. To[a.msg] \in Users
    BY <1>1, MailboxAssumption DEF Filing, TypeOK
  <2>2. ~Excused(a)
    BY <2>1, InboxGrows, ReleasedGrows DEF Filing, Excused
  <2>3. PICK r \in db : ~r.delivered /\ a = Store(r)
    BY <1>1, <2>2 DEF Kept, Waiting
  <2>4. r \in db'
    BY <2>2, <2>3, WaitingStays
  <2> QED
    BY <2>3, <2>4 DEF Waiting
<1>2. CASE okd' = okd
  BY <1>1, <1>2
<1>3. ASSUME NEW s \in delayed, store_message(s)
      PROVE  a \in Waiting'
  <2> DEFINE row == [id |-> nextId, key |-> StoreKey(To[s.msg], now), msg |-> s.msg,
                     stored_at |-> Bucketed(now), delivered |-> FALSE]
  <2>1. \/ db' = db \cup {row} /\ okd' = okd \cup {[id |-> nextId, msg |-> s.msg]}
        \/ okd' = okd
    BY <1>3 DEF store_message
  <2>2. Store(row) = [id |-> nextId, msg |-> s.msg] /\ ~row.delivered
    BY DEF Store
  <2> HIDE DEF row
  <2> QED
    BY <1>1, <1>2, <2>1, <2>2 DEF Waiting
<1> QED
  BY <1>2, <1>3
     DEF Next, vars, relay_store, relay_forward, Sleep, refuse_forward, relay_fetch,
         fetch_memory, relay_ack, relay_purge, finish, relay_read_receipt,
         relay_delete, finish_named, cleanup_expired, Restart, Tick

LEMMA KeptInvariant == Spec => [](Ending /\ Kept)
<1>1. Init => Ending /\ Kept
  BY DEF Init, Ending, Kept
<1>2. Filing /\ Ending /\ Kept /\ [Next]_vars => Ending' /\ Kept'
  BY NextEnding, NextKept DEF Filing
<1> QED
  BY <1>1, <1>2, FilingInvariant, PTL DEF Spec

-----------------------------------------------------------------------------
(* A message waits where its recipient will look.                          *)

\* The key of a row is the one of a time between its stored_at and now.
FiledAt(r) ==
    \E t \in Nat : /\ r.stored_at <= t /\ t <= now
                   /\ r.key = StoreKey(To[r.msg], t)

RowsFiledAt == \A r \in db : FiledAt(r)

\* Division by the length of an epoch.
LEMMA DivFacts ==
    ASSUME NEW t \in Nat, NEW E \in Nat \ {0}
    PROVE  (t \div E) \in Nat /\ (t \div E) * E <= t /\ t < (t \div E) * E + E
  BY Z3

\* A smaller multiple has a smaller factor.
LEMMA MultipleLess ==
    ASSUME NEW p \in Int, NEW q \in Int, NEW E \in Nat \ {0}, p * E < q * E
    PROVE  p < q
<1>1. SUFFICES ASSUME p >= q PROVE FALSE
  OBVIOUS
<1>2. PICK d \in Nat : p = q + d
  <2>1. p - q \in Nat /\ p = q + (p - q)
    BY <1>1
  <2> QED
    BY <2>1
<1>3. p * E = q * E + d * E
  BY <1>2
<1>4. d * E >= 0
  BY SMT
<1> QED
  BY <1>3, <1>4

\* At most one epoch begins within the length of an epoch.
LEMMA NextEpochOnly ==
    ASSUME NEW t \in Nat, NEW n \in Nat, t <= n, n <= t + ROUTING_EPOCH
    PROVE  routing_epoch(t) \in {routing_epoch(n), routing_epoch(n) - 1}
<1> DEFINE E == ROUTING_EPOCH
           p == n \div E
           q == t \div E
<1>1. E \in Nat \ {0}
  BY MailboxAssumption
<1>2. p \in Nat /\ p * E <= n /\ n < p * E + E
  BY <1>1, DivFacts
<1>3. q \in Nat /\ q * E <= t /\ t < q * E + E
  BY <1>1, DivFacts
<1>4. t <= n /\ n <= t + E
  OBVIOUS
<1>5. routing_epoch(n) = p /\ routing_epoch(t) = q
  BY DEF routing_epoch
<1> HIDE DEF p, q, E
<1>6. p < q + 2
  <2>1. (q + 2) * E = q * E + 2 * E
    BY <1>1, <1>3
  <2>2. p * E < (q + 2) * E
    BY <1>1, <1>2, <1>3, <1>4, <2>1
  <2> QED
    BY <1>1, <1>2, <1>3, <2>2, MultipleLess
<1>7. q < p + 1
  <2>1. (p + 1) * E = p * E + E
    BY <1>1, <1>2
  <2>2. q * E < (p + 1) * E
    BY <1>1, <1>2, <1>3, <1>4, <2>1
  <2> QED
    BY <1>1, <1>2, <1>3, <2>2, MultipleLess
<1> QED
  BY <1>2, <1>3, <1>5, <1>6, <1>7

LEMMA NextRowsFiledAt ==
    ASSUME TypeOK, RowsFiledAt, [Next]_vars
    PROVE  RowsFiledAt'
<1>0. now \in Nat /\ (now' = now \/ now' = now + 1)
  BY DEF TypeOK, Next, vars, relay_store, relay_forward, Sleep, store_message,
         refuse_forward, relay_fetch, fetch_memory, relay_ack, relay_purge, finish,
         relay_read_receipt, relay_delete, finish_named, cleanup_expired, Restart, Tick
<1>1. ASSUME NEW r \in db, NEW q, q.key = r.key, q.msg = r.msg, q.stored_at = r.stored_at
      PROVE  FiledAt(q)'
  <2>1. PICK t \in Nat : /\ r.stored_at <= t /\ t <= now
                         /\ r.key = StoreKey(To[r.msg], t)
    BY DEF RowsFiledAt, FiledAt
  <2>2. t <= now'
    BY <1>0, <2>1
  <2> QED
    BY <1>1, <2>1, <2>2 DEF FiledAt
<1>2. CASE db' \subseteq db
  BY <1>1, <1>2 DEF RowsFiledAt
<1>3. ASSUME NEW s \in delayed, store_message(s)
      PROVE  RowsFiledAt'
  <2> DEFINE row == [id |-> nextId, key |-> StoreKey(To[s.msg], now), msg |-> s.msg,
                     stored_at |-> Bucketed(now), delivered |-> FALSE]
  <2>1. db' \subseteq db \cup {row} /\ now' = now
    BY <1>3 DEF store_message
  <2>2. Bucketed(now) <= now
    BY <1>0, MailboxAssumption, DivFacts DEF Bucketed
  <2>3. \A q \in db' : q \in db \/ /\ q.key = StoreKey(To[q.msg], now)
                                   /\ q.stored_at = Bucketed(now)
    BY <2>1
  <2>4. ASSUME NEW q, q.key = StoreKey(To[q.msg], now), q.stored_at = Bucketed(now)
        PROVE  FiledAt(q)'
    BY <1>0, <2>1, <2>2, <2>4 DEF FiledAt
  <2> QED
    BY <1>1, <2>3, <2>4 DEF RowsFiledAt
<1>4. ASSUME NEW h \in halves, finish(h)
      PROVE  RowsFiledAt'
  <2>1. \A r \in RowsAcked(db, h.keys, h.seq) : \E q \in db :
            r.key = q.key /\ r.msg = q.msg /\ r.stored_at = q.stored_at
    BY MarkedRowFacts DEF RowsAcked, Undelivered, TypeOK
  <2>2. CASE db' = RowsAcked(db, h.keys, h.seq)
    BY <1>1, <2>1, <2>2 DEF RowsFiledAt
  <2> QED
    BY <1>2, <1>4, <2>2 DEF finish, RowsPurged
<1>5. ASSUME NEW n \in named, finish_named(n)
      PROVE  RowsFiledAt'
  <2>1. \A r \in RowsRead(db, n.user, n.mid) : \E q \in db :
            r.key = q.key /\ r.msg = q.msg /\ r.stored_at = q.stored_at
    BY MarkedRowFacts DEF RowsRead, RowsNamed, TypeOK
  <2>2. CASE db' = RowsRead(db, n.user, n.mid)
    BY <1>1, <2>1, <2>2 DEF RowsFiledAt
  <2> QED
    BY <1>2, <1>5, <2>2 DEF finish_named
<1>6. CASE cleanup_expired
  BY <1>2, <1>6 DEF cleanup_expired
<1> QED
  BY <1>2, <1>3, <1>4, <1>5, <1>6
     DEF Next, vars, relay_store, relay_forward, Sleep, refuse_forward, relay_fetch,
         fetch_memory, relay_ack, relay_purge, relay_read_receipt, relay_delete,
         Restart, Tick

LEMMA RowsFiledAtInvariant == Spec => []RowsFiledAt
<1>1. Init => RowsFiledAt
  BY DEF Init, RowsFiledAt
<1>2. TypeOK /\ RowsFiledAt /\ [Next]_vars => RowsFiledAt'
  BY NextRowsFiledAt
<1> QED
  BY <1>1, <1>2, TypeCorrect, PTL DEF Spec

\* A row that is not delivered is in the answer of whoever looks at its key.
LEMMA UndeliveredIsVisible ==
    ASSUME NEW r \in db, NEW u, ~r.delivered, r.key \in mailbox_keys(u, now)
    PROVE  r.msg \in Visible(u)
  BY DEF Visible, Undelivered

\* Whatever seqs the clients send and with or without a shared secret, a store
\* that was answered ok keeps its row until its recipient has been handed the
\* message or has itself acked or purged it, whatever memory evicts, expires or
\* loses and whichever statement fails; and the recipient's next fetch returns
\* it, for ever under the raw null id and for an epoch under a blind tag: the
\* tags of the current and of the previous epoch are enough for that.
THEOREM AnsweredIsKept == Spec => []AnsweredWaits
<1>1. ASSUME Filing, RowsFiledAt, Kept
      PROVE  AnsweredWaits
  <2> SUFFICES ASSUME NEW a \in okd, ~Excused(a)
               PROVE  \E r \in db :
                          /\ Store(r) = a
                          /\ (HasSecret => now - r.stored_at <= ROUTING_EPOCH)
                                 => r.msg \in Visible(To[r.msg])
    BY DEF AnsweredWaits
  <2>1. PICK r \in db : ~r.delivered /\ Store(r) = a
    BY <1>1 DEF Kept, Waiting
  <2>2. PICK t \in Nat : /\ r.stored_at <= t /\ t <= now
                         /\ r.key = StoreKey(To[r.msg], t)
    BY <1>1 DEF RowsFiledAt, FiledAt
  <2>3. now \in Nat /\ r.stored_at \in Nat /\ ROUTING_EPOCH \in Nat /\ HasSecret \in BOOLEAN
    BY <1>1, MailboxAssumption DEF Filing, TypeOK, Row
  <2>4. CASE ~HasSecret
    <3>1. r.key \in mailbox_keys(To[r.msg], now)
      BY <2>2, <2>4 DEF StoreKey, mailbox_keys
    <3> QED
      BY <2>1, <3>1, UndeliveredIsVisible
  <2>5. CASE HasSecret
    <3> SUFFICES ASSUME now - r.stored_at <= ROUTING_EPOCH
                 PROVE  r.msg \in Visible(To[r.msg])
      BY <2>1, <2>5
    <3>1. now <= t + ROUTING_EPOCH
      BY <2>2, <2>3
    <3>2. routing_epoch(t) \in {routing_epoch(now), routing_epoch(now) - 1} \cap Nat
      BY <2>2, <2>3, <3>1, NextEpochOnly, TimeTypes
    <3>3. r.key \in mailbox_keys(To[r.msg], now)
      BY <2>2, <2>5, <3>2 DEF StoreKey, mailbox_keys
    <3> QED
      BY <2>1, <3>3, UndeliveredIsVisible
  <2> QED
    BY <2>3, <2>4, <2>5
<1> QED
  BY <1>1, FilingInvariant, RowsFiledAtInvariant, KeptInvariant, PTL

-----------------------------------------------------------------------------
(* The caps of an in-memory mailbox.                                       *)

\* The entries of sender s in mailbox k.
OwnEntries(M, k, s) == {e \in Mailbox(M, k) : From[e.msg] = s}

\* Every mailbox and every sender's part of it is within its cap.
WithinCaps ==
    /\ IsFiniteSet(mailboxes)
    /\ \A k \in Keys : Cardinality(Mailbox(mailboxes, k)) <= MAX_MAILBOX_SIZE
    /\ \A k \in Keys, s \in Users :
          Cardinality(OwnEntries(mailboxes, k, s)) <= MAX_ENTRIES_PER_SENDER

\* A set of naturals that is not empty has a least element.
LEMMA LeastNatural ==
    ASSUME NEW S \in SUBSET Nat, S # {}
    PROVE  \E x \in S : \A y \in S : x <= y
<1> DEFINE R == OpToRel(<, Nat)
<1>1. \A x, y \in Nat : y < x => <<y, x>> \in R
  <2>1. R = {ss \in Nat \X Nat : ss[1] < ss[2]}
    BY Zenon DEF OpToRel
  <2> HIDE DEF R
  <2> QED
    BY <2>1
<1>2. IsWellFoundedOn(R, Nat)
  BY NatLessThanWellFounded, Zenon
<1> HIDE DEF R
<1>3. PICK x \in S : \A y \in S : ~ (<<y, x>> \in R)
  BY <1>2, WFMin, Zenon
<1>4. \A y \in S : ~(y < x)
  BY <1>1, <1>3
<1> QED
  BY <1>4

\* A mailbox that is not empty has a first entry.
LEMMA FirstExists ==
    ASSUME NEW S \in SUBSET Entry, S # {}
    PROVE  First(S) # {} /\ First(S) \subseteq S
<1> DEFINE I == {e.id : e \in S}
<1>1. I \in SUBSET Nat /\ I # {}
  BY DEF Entry
<1>2. PICK i \in I : \A j \in I : i <= j
  <2> HIDE DEF I
  <2> QED
    BY <1>1, LeastNatural
<1>3. PICK e \in S : e.id = i
  OBVIOUS
<1>4. e \in First(S)
  BY <1>2, <1>3 DEF First
<1> QED
  BY <1>4 DEF First

\* The image of a finite set is not larger.
LEMMA ImageBound ==
    ASSUME NEW B, IsFiniteSet(B), NEW C, NEW g, \A y \in C : \E x \in B : y = g[x]
    PROVE  IsFiniteSet(C) /\ Cardinality(C) <= Cardinality(B)
<1> DEFINE P == {x \in B : g[x] \in C}
           f == [x \in P |-> g[x]]
<1>1. IsFiniteSet(P) /\ Cardinality(P) <= Cardinality(B)
  BY FS_Subset
<1>2. f \in Surjection(P, C)
  BY DEF Surjection
<1>3. IsFiniteSet(C) /\ Cardinality(C) <= Cardinality(P)
  <2> HIDE DEF P, f
  <2> QED
    BY <1>1, <1>2, FS_Surjection
<1>4. Cardinality(C) \in Nat /\ Cardinality(P) \in Nat /\ Cardinality(B) \in Nat
  BY <1>1, <1>3, FS_CardinalityType
<1> QED
  BY <1>1, <1>3, <1>4

\* A part of a set within a limit, one more element below the limit, and the
\* exchange of an element for another.
LEMMA SubsetBound ==
    ASSUME NEW B, IsFiniteSet(B), NEW C \in SUBSET B, NEW L \in Nat, Cardinality(B) <= L
    PROVE  Cardinality(C) <= L
<1>1. IsFiniteSet(C) /\ Cardinality(C) <= Cardinality(B)
  BY FS_Subset
<1>2. Cardinality(C) \in Nat /\ Cardinality(B) \in Nat
  BY <1>1, FS_CardinalityType
<1> QED
  BY <1>1, <1>2

LEMMA AddBound ==
    ASSUME NEW B, IsFiniteSet(B), NEW e, NEW C \in SUBSET (B \cup {e}),
           NEW L \in Nat, Cardinality(B) < L
    PROVE  Cardinality(C) <= L
<1>1. Cardinality(B) \in Nat
  BY FS_CardinalityType
<1>2. /\ IsFiniteSet(B \cup {e})
      /\ Cardinality(B \cup {e}) = IF e \in B THEN Cardinality(B) ELSE Cardinality(B) + 1
  BY FS_AddElement
<1>3. Cardinality(B \cup {e}) <= L
  BY <1>1, <1>2
<1> QED
  BY <1>2, <1>3, SubsetBound

LEMMA ExchangeBound ==
    ASSUME NEW B, IsFiniteSet(B), NEW d \in B, NEW e, NEW C \in SUBSET ((B \ {d}) \cup {e}),
           NEW L \in Nat, Cardinality(B) <= L
    PROVE  Cardinality(C) <= L
<1>1. Cardinality(B) \in Nat
  BY FS_CardinalityType
<1>2. IsFiniteSet(B \ {d}) /\ Cardinality(B \ {d}) = Cardinality(B) - 1
  BY FS_RemoveElement
<1>3. Cardinality(B \ {d}) < L
  BY <1>1, <1>2
<1> QED
  BY <1>2, <1>3, AddBound

\* Entries that go, or change in place, leave every mailbox within its caps.
LEMMA ShrinkKeepsCaps ==
    ASSUME WithinCaps,
           \E g : \A e \in mailboxes' : \E f \in mailboxes :
               e = g[f] /\ e.key = f.key /\ e.msg = f.msg
    PROVE  WithinCaps'
<1>0. PICK g : \A e \in mailboxes' : \E f \in mailboxes :
               e = g[f] /\ e.key = f.key /\ e.msg = f.msg
  OBVIOUS
<1> USE <1>0 DEF WithinCaps
<1>1. IsFiniteSet(mailboxes')
  BY ImageBound
<1>2. ASSUME NEW B, B \subseteq mailboxes, NEW C, \A y \in C : \E x \in B : y = g[x],
             NEW L \in Nat, Cardinality(B) <= L
      PROVE  Cardinality(C) <= L
  <2>1. IsFiniteSet(B)
    BY <1>2, FS_Subset
  <2>2. IsFiniteSet(C) /\ Cardinality(C) <= Cardinality(B)
    BY <1>2, <2>1, ImageBound
  <2>3. Cardinality(C) \in Nat /\ Cardinality(B) \in Nat
    BY <2>1, <2>2, FS_CardinalityType
  <2> QED
    BY <1>2, <2>2, <2>3
<1>3. ASSUME NEW k \in Keys
      PROVE  Cardinality(Mailbox(mailboxes', k)) <= MAX_MAILBOX_SIZE
  <2>1. \A y \in Mailbox(mailboxes', k) : \E x \in Mailbox(mailboxes, k) : y = g[x]
    BY DEF Mailbox
  <2>2. Mailbox(mailboxes, k) \subseteq mailboxes
    BY DEF Mailbox
  <2> QED
    BY <1>2, <2>1, <2>2, MailboxAssumption
<1>4. ASSUME NEW k \in Keys, NEW s \in Users
      PROVE  Cardinality(OwnEntries(mailboxes', k, s)) <= MAX_ENTRIES_PER_SENDER
  <2>1. \A y \in OwnEntries(mailboxes', k, s) :
            \E x \in OwnEntries(mailboxes, k, s) : y = g[x]
    BY DEF Mailbox, OwnEntries
  <2>2. OwnEntries(mailboxes, k, s) \subseteq mailboxes
    BY DEF Mailbox, OwnEntries
  <2> QED
    BY <1>2, <2>1, <2>2, MailboxAssumption
<1> QED
  BY <1>1, <1>3, <1>4

\* A step that only removes entries.
LEMMA RemoveKeepsCaps ==
    ASSUME WithinCaps, mailboxes' \subseteq mailboxes
    PROVE  WithinCaps'
<1> DEFINE g == [f \in mailboxes |-> f]
<1>1. \A e \in mailboxes' : \E f \in mailboxes :
          e = g[f] /\ e.key = f.key /\ e.msg = f.msg
  OBVIOUS
<1> HIDE DEF g
<1>2. \E h : \A e \in mailboxes' : \E f \in mailboxes :
          e = h[f] /\ e.key = f.key /\ e.msg = f.msg
  BY <1>1, Zenon
<1> QED
  BY <1>2, ShrinkKeepsCaps

\* A step that changes the status of some entries.
LEMMA StatusKeepsCaps ==
    ASSUME TypeOK, WithinCaps, NEW hit \in SUBSET mailboxes, NEW c,
           mailboxes' \subseteq (mailboxes \ hit) \cup {[e EXCEPT !.status = c] : e \in hit}
    PROVE  WithinCaps'
<1> DEFINE g == [f \in mailboxes |-> IF f \in hit THEN [f EXCEPT !.status = c] ELSE f]
<1>1. \A f \in mailboxes : [f EXCEPT !.status = c].key = f.key
                              /\ [f EXCEPT !.status = c].msg = f.msg
  BY DEF TypeOK, Entry
<1>2. \A f \in mailboxes : g[f].key = f.key /\ g[f].msg = f.msg
  BY <1>1
<1>3. \A e \in mailboxes' : \E f \in mailboxes : e = g[f]
  OBVIOUS
<1> HIDE DEF g
<1>4. \A e \in mailboxes' : \E f \in mailboxes :
          e = g[f] /\ e.key = f.key /\ e.msg = f.msg
  BY <1>2, <1>3
<1>5. \E h : \A e \in mailboxes' : \E f \in mailboxes :
          e = h[f] /\ e.key = f.key /\ e.msg = f.msg
  BY <1>4, Zenon
<1> QED
  BY <1>5, ShrinkKeepsCaps

\* What Mailbox::store removes is of the mailbox it stores into.
LEMMA EvictedFacts ==
    ASSUME NEW box \in SUBSET Entry, NEW s
    PROVE  LET own == {e \in box : From[e.msg] = s}
           IN  \/ /\ Cardinality(own) >= MAX_ENTRIES_PER_SENDER
                  /\ Evicted(box, s) = First(own)
               \/ /\ ~(Cardinality(own) >= MAX_ENTRIES_PER_SENDER)
                  /\ Cardinality(box) >= MAX_MAILBOX_SIZE
                  /\ Evicted(box, s) = First(box)
               \/ /\ ~(Cardinality(own) >= MAX_ENTRIES_PER_SENDER)
                  /\ ~(Cardinality(box) >= MAX_MAILBOX_SIZE)
                  /\ Evicted(box, s) = {}
  BY DEF Evicted

\* Mailbox::store evicts when, and only when, a cap is reached.
LEMMA StoreKeepsCaps ==
    ASSUME TypeOK, WithinCaps, NEW n \in Entry,
           mailboxes' = MailboxStore(mailboxes, n)
    PROVE  WithinCaps'
<1> DEFINE s   == From[n.msg]
           box == Mailbox(mailboxes, n.key)
           own == OwnEntries(mailboxes, n.key, s)
           out == Evicted(box, s)
<1>0. n.key \in Keys /\ n.msg \in Msgs /\ s \in Users
  BY MailboxAssumption DEF Entry
<1>1. mailboxes' = (mailboxes \ out) \cup {n}
  BY DEF MailboxStore
<1>2. box \subseteq mailboxes /\ own \subseteq box /\ box \subseteq Entry
  BY DEF Mailbox, OwnEntries, TypeOK
<1>3. IsFiniteSet(box) /\ IsFiniteSet(own)
  BY <1>2, FS_Subset DEF WithinCaps
<1>4. Cardinality(box) \in Nat /\ Cardinality(own) \in Nat
  BY <1>3, FS_CardinalityType
<1>5. own = {e \in box : From[e.msg] = s}
  BY DEF OwnEntries
<1>6. Cardinality(box) <= MAX_MAILBOX_SIZE /\ Cardinality(own) <= MAX_ENTRIES_PER_SENDER
  BY <1>0 DEF WithinCaps
<1>7. /\ MAX_MAILBOX_SIZE \in Nat \ {0} /\ MAX_ENTRIES_PER_SENDER \in Nat \ {0}
  BY MailboxAssumption
<1>8. \/ Cardinality(own) >= MAX_ENTRIES_PER_SENDER /\ out = First(own)
      \/ /\ Cardinality(own) < MAX_ENTRIES_PER_SENDER
         /\ Cardinality(box) >= MAX_MAILBOX_SIZE /\ out = First(box)
      \/ /\ Cardinality(own) < MAX_ENTRIES_PER_SENDER
         /\ Cardinality(box) < MAX_MAILBOX_SIZE /\ out = {}
  <2> HIDE DEF own, box, out
  <2> QED
    BY <1>2, <1>4, <1>5, <1>7, EvictedFacts DEF out
<1>9. Mailbox(mailboxes', n.key) = (box \ out) \cup {n}
  BY <1>1 DEF Mailbox
<1>10. OwnEntries(mailboxes', n.key, s) = (own \ out) \cup {n}
  BY <1>1 DEF Mailbox, OwnEntries
<1>11. out \subseteq box
  BY <1>2, <1>8 DEF First
<1>12. \A k \in Keys : k # n.key => Mailbox(mailboxes', k) = Mailbox(mailboxes, k)
  BY <1>1, <1>11 DEF Mailbox
<1>13. \A k \in Keys, t \in Users :
          (k # n.key \/ t # s) => OwnEntries(mailboxes', k, t) \subseteq OwnEntries(mailboxes, k, t)
  BY <1>1, <1>11 DEF OwnEntries, Mailbox
<1>14. \A S : S \subseteq mailboxes => IsFiniteSet(S)
  BY FS_Subset DEF WithinCaps
<1>15. \A k \in Keys, t \in Users :
          Mailbox(mailboxes, k) \subseteq mailboxes /\ OwnEntries(mailboxes, k, t) \subseteq mailboxes
  BY DEF Mailbox, OwnEntries
<1> HIDE DEF s, box, own, out
<1>16. Cardinality((box \ out) \cup {n}) <= MAX_MAILBOX_SIZE
  <2>1. CASE Cardinality(own) >= MAX_ENTRIES_PER_SENDER /\ out = First(own)
    <3>1. own # {}
      BY <1>7, <2>1, FS_EmptySet
    <3>2. PICK d \in own : d \in First(own)
      BY <1>2, <3>1, FirstExists
    <3>3. d \in box /\ (box \ out) \cup {n} \subseteq (box \ {d}) \cup {n}
      BY <1>2, <2>1, <3>2
    <3> QED
      BY <1>3, <1>6, <1>7, <3>3, ExchangeBound
  <2>2. CASE Cardinality(box) >= MAX_MAILBOX_SIZE /\ out = First(box)
    <3>1. box # {}
      BY <1>7, <2>2, FS_EmptySet
    <3>2. PICK d \in box : d \in First(box)
      BY <1>2, <3>1, FirstExists
    <3>3. (box \ out) \cup {n} \subseteq (box \ {d}) \cup {n}
      BY <2>2, <3>2
    <3> QED
      BY <1>3, <1>6, <1>7, <3>3, ExchangeBound
  <2>3. CASE Cardinality(box) < MAX_MAILBOX_SIZE /\ out = {}
    <3>1. (box \ out) \cup {n} \subseteq box \cup {n}
      OBVIOUS
    <3> QED
      BY <1>3, <1>7, <2>3, <3>1, AddBound
  <2> QED
    BY <1>8, <2>1, <2>2, <2>3
<1>17. Cardinality((own \ out) \cup {n}) <= MAX_ENTRIES_PER_SENDER
  <2>1. CASE Cardinality(own) >= MAX_ENTRIES_PER_SENDER /\ out = First(own)
    <3>1. own # {}
      BY <1>7, <2>1, FS_EmptySet
    <3>2. PICK d \in own : d \in First(own)
      BY <1>2, <3>1, FirstExists
    <3> DEFINE C == (own \ out) \cup {n}
    <3>3. C \in SUBSET ((own \ {d}) \cup {n})
      BY <2>1, <3>2
    <3> HIDE DEF C
    <3>4. Cardinality(C) <= MAX_ENTRIES_PER_SENDER
      BY <1>3, <1>6, <1>7, <3>3, ExchangeBound
    <3> QED
      BY <3>4 DEF C
  <2>2. CASE Cardinality(own) < MAX_ENTRIES_PER_SENDER
    <3>1. (own \ out) \cup {n} \subseteq own \cup {n}
      OBVIOUS
    <3> QED
      BY <1>3, <1>7, <2>2, <3>1, AddBound
  <2> QED
    BY <1>8, <2>1, <2>2
<1>18. IsFiniteSet(mailboxes')
  <2>1. IsFiniteSet(mailboxes \ out)
    BY <1>14
  <2> QED
    BY <1>1, <2>1, FS_AddElement
<1>19. \A k \in Keys : Cardinality(Mailbox(mailboxes', k)) <= MAX_MAILBOX_SIZE
  BY <1>9, <1>12, <1>16 DEF WithinCaps
<1>20. ASSUME NEW k \in Keys, NEW t \in Users
       PROVE  Cardinality(OwnEntries(mailboxes', k, t)) <= MAX_ENTRIES_PER_SENDER
  <2>1. CASE k = n.key /\ t = s
    BY <1>10, <1>17, <2>1
  <2>2. CASE k # n.key \/ t # s
    <3>1. OwnEntries(mailboxes', k, t) \subseteq OwnEntries(mailboxes, k, t)
      BY <1>13, <2>2
    <3>2. /\ IsFiniteSet(OwnEntries(mailboxes, k, t))
          /\ Cardinality(OwnEntries(mailboxes, k, t)) <= MAX_ENTRIES_PER_SENDER
      BY <1>14, <1>15 DEF WithinCaps
    <3> QED
      BY <1>7, <3>1, <3>2, SubsetBound
  <2> QED
    BY <2>1, <2>2
<1> QED
  BY <1>18, <1>19, <1>20 DEF WithinCaps

LEMMA NextWithinCaps ==
    ASSUME TypeOK, WithinCaps, [Next]_vars
    PROVE  WithinCaps'
<1>1. CASE mailboxes' \subseteq mailboxes
  BY <1>1, RemoveKeepsCaps
<1>2. ASSUME NEW r \in delayed, store_message(r)
      PROVE  WithinCaps'
  <2> DEFINE n == [id |-> nextId, key |-> StoreKey(To[r.msg], now), msg |-> r.msg,
                   stored_at |-> Bucketed(now), status |-> 1]
  <2>1. mailboxes' = MailboxStore(mailboxes, n)
    BY <1>2 DEF store_message
  <2>2. r.msg \in Msgs /\ To[r.msg] \in Users /\ now \in Nat /\ nextId \in Nat
    BY MailboxAssumption DEF Delayed, TypeOK
  <2>3. n \in Entry
    BY <2>2, KeyFacts, TimeTypes DEF Entry
  <2> HIDE DEF n
  <2> QED
    BY <2>1, <2>3, StoreKeepsCaps
<1>3. ASSUME NEW u \in Users, NEW m \in Msgs, relay_ack(u, SeqOf[m])
      PROVE  WithinCaps'
  <2> DEFINE hit == UNION {First({e \in Mailbox(mailboxes, k) : SeqOf[e.msg] = SeqOf[m]})
                              : k \in mailbox_keys(u, now)}
  <2>1. hit \in SUBSET mailboxes
    BY DEF First, Mailbox
  <2>2. mailboxes' \subseteq (mailboxes \ hit) \cup {[e EXCEPT !.status = 2] : e \in hit}
    BY <1>3 DEF relay_ack, AckedIn
  <2> HIDE DEF hit
  <2> QED
    BY <2>1, <2>2, StatusKeepsCaps
<1>4. ASSUME NEW u \in Users, NEW mid, relay_read_receipt(u, mid)
      PROVE  WithinCaps'
  <2> DEFINE first == First({e \in Mailbox(mailboxes, RawKey(u)) : message_id(e.msg) = mid})
             hit   == {e \in first : e.status < 3}
  <2>1. hit \in SUBSET mailboxes
    BY DEF First, Mailbox
  <2>2. mailboxes' \subseteq (mailboxes \ hit) \cup {[e EXCEPT !.status = 3] : e \in hit}
    BY <1>4 DEF relay_read_receipt, MarkRead
  <2> HIDE DEF hit
  <2> QED
    BY <2>1, <2>2, StatusKeepsCaps
<1>5. ASSUME NEW u \in Users, relay_purge(u)
      PROVE  WithinCaps'
  BY <1>1, <1>5 DEF relay_purge, PurgedFrom
<1>6. ASSUME NEW u \in Users, NEW mid, relay_delete(u, mid)
      PROVE  WithinCaps'
  BY <1>1, <1>6 DEF relay_delete, RemoveMessage
<1>7. CASE cleanup_expired
  BY <1>1, <1>7 DEF cleanup_expired
<1> QED
  BY <1>1, <1>2, <1>3, <1>4, <1>5, <1>6, <1>7
     DEF Next, vars, relay_store, relay_forward, Sleep, refuse_forward, relay_fetch,
         fetch_memory, finish, finish_named, Restart, Tick

LEMMA CapsInvariant == Spec => []WithinCaps
<1>1. Init => WithinCaps
  <2> SUFFICES ASSUME Init PROVE WithinCaps
    OBVIOUS
  <2>1. mailboxes = {}
    BY DEF Init
  <2>2. \A k \in Keys, s \in Users :
            Mailbox(mailboxes, k) = {} /\ OwnEntries(mailboxes, k, s) = {}
    BY <2>1 DEF Mailbox, OwnEntries
  <2>3. IsFiniteSet({}) /\ Cardinality({}) = 0
    BY FS_EmptySet
  <2>4. 0 <= MAX_MAILBOX_SIZE /\ 0 <= MAX_ENTRIES_PER_SENDER
    BY MailboxAssumption
  <2>5. \A k \in Keys : Mailbox(mailboxes, k) = {}
    BY <2>1 DEF Mailbox
  <2> QED
    BY <2>1, <2>2, <2>3, <2>4, <2>5 DEF WithinCaps
<1>2. TypeOK /\ WithinCaps /\ [Next]_vars => WithinCaps'
  BY NextWithinCaps
<1> QED
  BY <1>1, <1>2, TypeCorrect, PTL DEF Spec

\* No mailbox and no sender's part of one outgrows its cap, although each
\* store tests one cap only when the other is not reached (Mailbox::store).
THEOREM MailboxesAreCapped == Spec => []Capped
<1>1. TypeOK /\ WithinCaps => Capped
  BY MailboxAssumption DEF TypeOK, Entry, WithinCaps, Capped, OwnEntries
<1> QED
  BY <1>1, CapsInvariant, TypeCorrect, PTL

-----------------------------------------------------------------------------
(* The relay implements the durable mailbox.                               *)

\* A step that hands nothing out, stores nothing and releases nothing settles
\* what it drops.
LEMMA SettleStep ==
    ASSUME Filing, Ending, [Next]_vars, \A s \in delayed : ~store_message(s),
           UNCHANGED <<okd, inbox, released>>
    PROVE  [Durable!DNext]_<<okd, Waiting, inbox, released>>
<1> DEFINE W == Waiting \ Waiting'
<1>1. Waiting' \subseteq Waiting
  BY NoNewRows DEF Filing, Waiting
<1>2. ASSUME NEW w \in W
      PROVE  w.msg \in inbox[To[w.msg]] \/ w \in released
  <2>1. PICK r \in db : ~r.delivered /\ w = Store(r)
    BY DEF Waiting
  <2>2. r \notin db'
    BY <2>1 DEF Waiting
  <2> QED
    BY <2>1, <2>2, WaitingStays DEF Excused
<1>3. W \in SUBSET Waiting /\ Waiting' = Waiting \ W
  BY <1>1
<1> HIDE DEF W
<1>4. Durable!Settle(W)
  BY <1>2, <1>3 DEF Durable!Settle
<1> QED
  BY <1>3, <1>4 DEF Durable!DNext

\* An ack and a purge release mail of their own user.
LEMMA ReleaseStep ==
    ASSUME NEW u \in Users, NEW h, h.user = u, UNCHANGED <<okd, db, inbox>>,
           released' = released \cup Released(h)
    PROVE  [Durable!DNext]_<<okd, Waiting, inbox, released>>
<1>1. Released(h) \in SUBSET Waiting /\ Waiting' = Waiting
  BY DEF Released, Waiting
<1>2. \A w \in Released(h) : To[w.msg] = u
  BY DEF Released, Store, Speaks
<1>3. Durable!Release(u, Released(h))
  BY <1>1, <1>2 DEF Durable!Release
<1> QED
  BY <1>1, <1>3 DEF Durable!DNext

\* A store that is answered ok is an Accept, one that fails changes nothing.
LEMMA AcceptStep ==
    ASSUME Filing, NEW s \in delayed, store_message(s)
    PROVE  [Durable!DNext]_<<okd, Waiting, inbox, released>>
<1> DEFINE row == [id |-> nextId, key |-> StoreKey(To[s.msg], now), msg |-> s.msg,
                   stored_at |-> Bucketed(now), delivered |-> FALSE]
           ok  == [id |-> nextId, msg |-> s.msg]
<1>1. /\ nextId < MaxStores /\ inbox' = inbox
      /\ \/ /\ db' = db \cup {row} /\ okd' = okd \cup {ok}
            /\ released' \in {released, released \cup {ok}}
         \/ db' = db /\ okd' = okd /\ released' = released
  <2>1. Store(row) = ok
    BY DEF Store
  <2>2. {Store(q) : q \in {x \in {row} : \E h \in halves : Speaks(h, x)}} \in {{}, {ok}}
    <3> HIDE DEF row, ok
    <3> QED
      BY <2>1
  <2>3. /\ nextId < MaxStores /\ inbox' = inbox
        /\ \/ /\ db' = db \cup {row} /\ okd' = okd \cup {ok}
              /\ released' = released \cup
                     {Store(q) : q \in {x \in {row} : \E h \in halves : Speaks(h, x)}}
           \/ db' = db /\ okd' = okd /\ released' = released
    BY DEF store_message
  <2> HIDE DEF row, ok
  <2> QED
    BY <2>2, <2>3
<1>2. CASE db' = db /\ okd' = okd /\ released' = released
  BY <1>1, <1>2 DEF Waiting
<1>3. CASE /\ db' = db \cup {row} /\ okd' = okd \cup {ok}
           /\ released' \in {released, released \cup {ok}}
  <2>1. row.id = nextId /\ row.msg = s.msg /\ row.delivered = FALSE
    OBVIOUS
  <2>2. Waiting' = Waiting \cup {ok}
    <3>1. Store(row) = ok
      BY DEF Store
    <3> HIDE DEF row, ok
    <3> QED
      BY <1>3, <2>1, <3>1 DEF Waiting
  <2>3. s.msg \in Msgs /\ nextId \in 0..(MaxStores - 1)
    BY <1>1, MailboxAssumption DEF Filing, TypeOK, Delayed
  <2>4. \A x \in okd : x.id # nextId
    BY DEF Filing, Filed, TypeOK
  <2>5. Durable!Accept(s.msg)
    BY <1>1, <1>3, <2>2, <2>3, <2>4 DEF Durable!Accept
  <2> QED
    BY <2>3, <2>5 DEF Durable!DNext
<1> QED
  BY <1>1, <1>2, <1>3

\* Both ways to answer a fetch are a Hand.
LEMMA HandStep ==
    ASSUME Filing,
           \/ \E u \in Users : relay_fetch(u)
           \/ \E f \in fallbacks : fetch_memory(f)
    PROVE  [Durable!DNext]_<<okd, Waiting, inbox, released>>
<1>1. UNCHANGED <<okd, db, released>>
  BY DEF relay_fetch, fetch_memory
<1>2. Waiting' = Waiting
  BY <1>1 DEF Waiting
<1>3. ASSUME NEW u \in Users, NEW S \in SUBSET Msgs, Hand(u, S), \A m \in S : To[m] = u
      PROVE  Durable!DNext
  <2>1. Durable!Hand(u, S)
    BY <1>1, <1>2, <1>3 DEF Durable!Hand, Hand
  <2> QED
    BY <2>1 DEF Durable!DNext
<1>4. ASSUME NEW u \in Users, relay_fetch(u)
      PROVE  [Durable!DNext]_<<okd, Waiting, inbox, released>>
  <2> DEFINE S == {r.msg : r \in Undelivered(db, mailbox_keys(u, now))}
  <2>1. \A k \in mailbox_keys(u, now) : k.nid = u
    BY KeyFacts DEF Filing, TypeOK
  <2>2. S \in SUBSET Msgs /\ \A m \in S : To[m] = u
    BY <2>1 DEF Undelivered, Filing, Filed, TypeOK, Row
  <2>3. Hand(u, S) \/ inbox' = inbox
    BY <1>4 DEF relay_fetch
  <2> HIDE DEF S
  <2> QED
    BY <1>1, <1>2, <1>3, <2>2, <2>3
<1>5. ASSUME NEW f \in fallbacks, fetch_memory(f)
      PROVE  [Durable!DNext]_<<okd, Waiting, inbox, released>>
  <2> DEFINE S == {e.msg : e \in FallbackEntries(mailboxes, f.keys, now)}
  <2>1. f.user \in Users /\ \A k \in f.keys : k.nid = f.user
    BY DEF Filing, TypeOK, Fallback, Asked
  <2>2. \A e \in FallbackEntries(mailboxes, f.keys, now) :
            e \in mailboxes /\ e.key \in f.keys
    BY DEF FallbackEntries
  <2>3. S \in SUBSET Msgs /\ \A m \in S : To[m] = f.user
    BY <2>1, <2>2 DEF Filing, Filed, TypeOK, Entry
  <2>4. Hand(f.user, S)
    BY <1>5 DEF fetch_memory
  <2> HIDE DEF S
  <2> QED
    BY <1>3, <2>1, <2>3, <2>4
<1> QED
  BY <1>4, <1>5

\* Whatever seqs the clients send and with or without a shared secret, the
\* relay, with its two copies, half-steps, evictions, failing statements and
\* restarts, is a mailbox that keeps what it accepted until its recipient has
\* been handed it or has asked for its end.
THEOREM RefinesDurable == Spec => ImplementsDurable
<1>1. Init => Durable!DInit
  <2> SUFFICES ASSUME Init PROVE Durable!DInit
    OBVIOUS
  <2>1. Waiting = {}
    BY DEF Init, Waiting
  <2> QED
    BY <2>1 DEF Init, Durable!DInit
<1>2. ASSUME Filing, Ending, [Next]_vars
      PROVE  [Durable!DNext]_(Durable!dvars)
  <2>1. CASE \E s \in delayed : store_message(s)
    BY <1>2, <2>1, AcceptStep DEF Durable!dvars
  <2>2. CASE \/ \E u \in Users : relay_fetch(u)
             \/ \E f \in fallbacks : fetch_memory(f)
    BY <1>2, <2>2, HandStep DEF Durable!dvars
  <2>3. ASSUME NEW u \in Users, relay_purge(u)
        PROVE  [Durable!DNext]_(Durable!dvars)
    <3> DEFINE h == [op |-> "purge", user |-> u, keys |-> mailbox_keys(u, now)]
    <3>1. released' = released \cup Released(h) /\ UNCHANGED <<okd, db, inbox>>
      BY <2>3 DEF relay_purge
    <3>2. h.user = u
      OBVIOUS
    <3> HIDE DEF h
    <3> QED
      BY <3>1, <3>2, ReleaseStep DEF Durable!dvars
  <2>4. ASSUME NEW u \in Users, NEW m \in Msgs, relay_ack(u, SeqOf[m])
        PROVE  [Durable!DNext]_(Durable!dvars)
    <3> DEFINE h == [op |-> "ack", user |-> u, keys |-> mailbox_keys(u, now),
                     seq |-> SeqOf[m]]
    <3>1. released' = released \cup Released(h) /\ UNCHANGED <<okd, db, inbox>>
      BY <2>4 DEF relay_ack
    <3>2. h.user = u
      OBVIOUS
    <3> HIDE DEF h
    <3> QED
      BY <3>1, <3>2, ReleaseStep DEF Durable!dvars
  <2>5. CASE /\ \A s \in delayed : ~store_message(s)
             /\ UNCHANGED <<okd, inbox, released>>
    BY <1>2, <2>5, SettleStep DEF Durable!dvars
  <2> QED
    BY <1>2, <2>1, <2>2, <2>3, <2>4, <2>5
       DEF Next, vars, relay_store, relay_forward, Sleep, refuse_forward, finish,
           relay_read_receipt, relay_delete, finish_named, cleanup_expired, Restart, Tick
<1> QED
  BY <1>1, <1>2, FilingInvariant, KeptInvariant, PTL
     DEF Spec, ImplementsDurable, Durable!DSpec

=============================================================================
