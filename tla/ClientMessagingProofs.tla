------------------------ MODULE ClientMessagingProofs ------------------------
(***************************************************************************)
(* What every client can rely on, for any number of users, relays, texts,  *)
(* secrets and connections.                                                *)
(***************************************************************************)
EXTENDS ClientMessaging, DataFacts

-----------------------------------------------------------------------------
(* The ratchet's operators.                                                *)

\* The table of kept keys always has a value, and the only numbers it holds
\* are the ones it held and the new one.
LEMMA KeptTables ==
    ASSUME NEW table, NEW seq, NEW key
    PROVE  /\ Kept(table, seq, key) # {}
           /\ \A t \in Kept(table, seq, key) : DOMAIN t \subseteq DOMAIN table \cup {seq}
<1> DEFINE more == [n \in DOMAIN table \cup {seq} |-> IF n = seq THEN key ELSE table[n]]
           less(gone) == [n \in DOMAIN more \ {gone} |-> more[n]]
<1>1. DOMAIN more = DOMAIN table \cup {seq}
  OBVIOUS
<1>2. \A gone : DOMAIN less(gone) = DOMAIN more \ {gone}
  OBVIOUS
<1>3. Kept(table, seq, key) = IF Cardinality(DOMAIN more) > MaxSkippedKeys
                              THEN {less(gone) : gone \in DOMAIN more} ELSE {more}
  BY Zenon DEF Kept
<1> HIDE DEF more, less
<1>4. seq \in DOMAIN more
  BY <1>1, Zenon
<1>5. Kept(table, seq, key) # {}
  BY <1>3, <1>4, Zenon
<1>6. ASSUME NEW t \in Kept(table, seq, key)
      PROVE  DOMAIN t \subseteq DOMAIN table \cup {seq}
  <2>1. t = more \/ \E gone : t = less(gone)
    BY <1>3, Zenon
  <2> QED
    BY <1>1, <1>2, <2>1, Zenon
<1> QED
  BY <1>5, <1>6, Zenon

\* Nothing is skipped to decrypt the first message of a chain.
LEMMA FirstTables ==
    ASSUME NEW s, NEW key,
           s.received = 0
    PROVE  SimpleDecrypt(s, key, 0) =
              IF 0 <= MaxSkipAhead /\ key = KeyOf(Ahead(s, 0), Plain)
              THEN {[s EXCEPT !.recv = AfterReceive([s EXCEPT !.recv = Ahead(s, 0)], Plain),
                              !.received = s.received + 0 + 1, !.skipped = table] :
                       table \in UNION {Kept(t, 0, KeyOf(Ahead(s, 0), Plain)) : t \in {s.skipped}}}
              ELSE {}
<1> DEFINE n == IF 0 > s.received THEN 0 - s.received ELSE 0
           step(f) == [i \in 0..n |->
              IF i = 0 THEN {s.skipped}
              ELSE UNION {Kept(t, s.received + i - 1, KeyOf(Ahead(s, i - 1), Plain)) :
                              t \in f[i - 1]}]
           tables == CHOOSE f : f = step(f)
           result(k, T) ==
         IF k <= MaxSkipAhead /\ key = KeyOf(Ahead(s, k), Plain)
         THEN {[s EXCEPT !.recv = AfterReceive([s EXCEPT !.recv = Ahead(s, k)], Plain),
                         !.received = s.received + k + 1, !.skipped = table] :
                  table \in UNION {Kept(t, 0, KeyOf(Ahead(s, k), Plain)) : t \in T}}
         ELSE {}
<1>0. n = 0
  OBVIOUS
<1>1. SimpleDecrypt(s, key, 0) = result(n, tables[n])
  BY Zenon DEF SimpleDecrypt
<1> HIDE DEF n
<1>2. \A f : step(f) = [i \in {0} |-> {s.skipped}]
  <2>1. 0..n = {0}
    BY <1>0
  <2>2. ASSUME NEW f
        PROVE  step(f) = [i \in {0} |-> {s.skipped}]
    <3>1. \A i \in {0} : step(f)[i] = {s.skipped}
      BY <2>1, Zenon
    <3>2. step(f) = [i \in {0} |-> step(f)[i]]
      BY <2>1, Zenon
    <3> HIDE DEF step
    <3> QED
      BY <3>1, <3>2, Zenon
  <2> QED
    BY <2>2, Zenon
<1>3. tables = step(tables)
  <2>1. [i \in {0} |-> {s.skipped}] = step([i \in {0} |-> {s.skipped}])
    BY <1>2, Zenon
  <2> HIDE DEF step
  <2>2. \E f : f = step(f)
    BY <2>1, Zenon
  <2> QED
    BY <2>2, Zenon
<1>4. tables[0] = {s.skipped}
  <2> HIDE DEF step, tables
  <2>1. tables = [i \in {0} |-> {s.skipped}]
    BY <1>2, <1>3, Zenon
  <2> QED
    BY <2>1, Zenon
<1>5. SimpleDecrypt(s, key, 0) = result(0, {s.skipped})
  <2> HIDE DEF tables, result
  <2> QED
    BY <1>0, <1>1, <1>4, Zenon
<1> QED
  BY <1>5, Zenon

\* A first message decrypts with the session its ciphertext makes; the session
\* is then one step further on the receiving chain.
LEMMA FirstDecrypts ==
    ASSUME NEW k \in Secrets
    PROVE  LET after == DecryptFirst(NewSession(k, FALSE, FALSE), KeyOf(Chain(k, 1), Plain))
           IN  /\ after # {}
               /\ \A s \in after :
                     /\ s.root = k /\ s.self_mode = FALSE
                     /\ s.send = Chain(k, 2) /\ s.recv = Step(Chain(k, 1), Plain)
                     /\ DOMAIN s.skipped \subseteq {0}
<1> DEFINE s0 == NewSession(k, FALSE, FALSE)
           key == KeyOf(Chain(k, 1), Plain)
           next(table) ==
              [s0 EXCEPT !.recv = AfterReceive([s0 EXCEPT !.recv = Ahead(s0, 0)], Plain),
                         !.received = s0.received + 0 + 1, !.skipped = table]
           tables == UNION {Kept(t, 0, KeyOf(Ahead(s0, 0), Plain)) : t \in {s0.skipped}}
<1>1. s0 = [root |-> k, self_mode |-> FALSE, send |-> Chain(k, 2), recv |-> Chain(k, 1),
            sent |-> 0, received |-> 0, skipped |-> <<>>]
  BY DEF NewSession
<1> HIDE DEF s0
<1>2. Ahead(s0, 0) = Chain(k, 1)
  <2>1. <<>> \o [i \in 1..0 |-> Plain] = <<>>
    <3>1. [i \in 1..0 |-> Plain] = <<>>
      OBVIOUS
    <3> QED
      BY <3>1
  <2>2. Ahead(s0, 0) = [Chain(k, 1) EXCEPT !.mixed = @ \o [i \in 1..0 |-> Plain]]
    BY <1>1 DEF Ahead
  <2> QED
    BY <2>1, <2>2 DEF Chain
<1>3. 0 <= MaxSkipAhead /\ key = KeyOf(Ahead(s0, 0), Plain)
  BY <1>2, RatchetAssumption
<1>4. DecryptFirst(s0, key) = {next(table) : table \in tables}
  <2>1. s0.received = 0
    BY <1>1
  <2> HIDE DEF key
  <2> QED
    BY <1>3, <2>1, FirstTables, Zenon DEF DecryptFirst
<1>5. tables = Kept(<<>>, 0, key)
  <2>1. s0.skipped = <<>> /\ KeyOf(Ahead(s0, 0), Plain) = key
    BY <1>1, <1>2
  <2> HIDE DEF key
  <2> QED
    BY <2>1, Zenon
<1>6. tables # {} /\ \A t \in tables : DOMAIN t \subseteq {0}
  <2> HIDE DEF tables, key
  <2>1. DOMAIN <<>> = {}
    OBVIOUS
  <2> QED
    BY <1>5, <2>1, KeptTables
<1>7. \A t : /\ next(t).root = k /\ next(t).self_mode = FALSE
             /\ next(t).send = Chain(k, 2) /\ next(t).recv = Step(Chain(k, 1), Plain)
             /\ next(t).skipped = t
  <2>1. AfterReceive([s0 EXCEPT !.recv = Ahead(s0, 0)], Plain) = Step(Chain(k, 1), Plain)
    BY <1>1, <1>2 DEF AfterReceive
  <2> QED
    BY <1>1, <2>1
<1> HIDE DEF next, tables, key
<1>8. DecryptFirst(s0, key) # {}
  BY <1>4, <1>6, Zenon
<1>9. \A s \in DecryptFirst(s0, key) :
         /\ s.root = k /\ s.self_mode = FALSE
         /\ s.send = Chain(k, 2) /\ s.recv = Step(Chain(k, 1), Plain)
         /\ DOMAIN s.skipped \subseteq {0}
  BY <1>4, <1>6, <1>7, Zenon
<1> QED
  BY <1>8, <1>9, Zenon DEF s0, key

-----------------------------------------------------------------------------
(* The shape of the state: what holds of each variable by itself.          *)

\* A message in u's mailbox: unless u wrote it itself, its key is the first
\* of the chain that its ciphertext starts.
LettersTo(u) ==
    {m \in Msg : m.to = u /\ (m.from # u => /\ m.kct # Plain
                                            /\ m.key = KeyOf(Chain(m.kct, 1), Plain))}

BatchStates == {"read", "raw", "reflect"}

IsBatch(u, j) ==
    j \in [state : BatchStates, batch : Seq(LettersTo(u)), todo : Seq(LettersTo(u)),
           seen : SUBSET Texts, got : BOOLEAN]

IsRest(u, r) == r = NoBatch \/ IsBatch(u, r)

\* A send by the relay that waits for the answer.
IsRelaying(u, j) ==
    /\ j = [state |-> j.state, msg |-> j.msg, sess |-> j.sess, rest |-> j.rest]
    /\ j.msg.from = u /\ j.msg.to \in Users /\ j.msg \in LettersTo(j.msg.to)
    /\ IsRest(u, j.rest)

\* A direct send, or an echo that is about to become a send.
IsSending(u, j) == j.peer \in Users /\ j.text \in Texts /\ IsRest(u, j.rest)

IsJob(u, j) ==
    /\ j.state \in {"idle", "relay", "stored", "hello", "loaded", "sent", "failed", "echo"}
                       \cup BatchStates
    /\ j.state = "idle" => j = Idle
    /\ j.state \in BatchStates => IsBatch(u, j)
    /\ j.state \in {"relay", "stored"} => IsRelaying(u, j)
    /\ j.state \in {"hello", "loaded", "sent", "failed"} => IsSending(u, j)
    /\ j.state = "echo" => IsSending(u, j) /\ IsBatch(u, j.rest)
    /\ j.state = "loaded" => j.first \in BOOLEAN

IsConn(c) ==
    /\ c.from \in Users /\ c.to \in Users
    /\ c.state \in {"hello", "acked", "message", "loaded"}
    /\ c.state \in {"hello", "acked"} =>
          c = [n |-> c.n, from |-> c.from, to |-> c.to, state |-> c.state]

SessionsShaped == IsTable(Users, Users, session)
MailShaped ==
    /\ IsTable(Users, Relays, mailbox)
    /\ \A u \in Users, r \in Relays : mailbox[u][r] \in Seq(LettersTo(u))
JobsShaped ==
    /\ job = [u \in Users |-> job[u]]
    /\ \A u \in Users : IsJob(u, job[u])
ConnsShaped == \A c \in conns : IsConn(c)

Shape ==
    /\ secrets \in Nat
    /\ SessionsShaped /\ MailShaped /\ JobsShaped /\ ConnsShaped
    /\ RelayReadable

LEMMA ShapeInit == Init => Shape
<1> SUFFICES ASSUME Init PROVE Shape
  OBVIOUS
<1>1. SessionsShaped
  BY DEF Init, SessionsShaped, IsTable
<1>2. MailShaped
  BY DEF Init, MailShaped, IsTable
<1>3. JobsShaped
  <2>1. \A u : IsJob(u, Idle)
    BY DEF IsJob, Idle, BatchStates
  <2> QED
    BY <2>1 DEF Init, JobsShaped
<1>4. secrets \in Nat /\ ConnsShaped /\ RelayReadable
  BY DEF Init, ConnsShaped, RelayReadable
<1> QED
  BY <1>1, <1>2, <1>3, <1>4 DEF Shape

-----------------------------------------------------------------------------
(* Jobs, one user at a time.                                               *)

\* A step of u's command gives u another job and leaves the others alone.
LEMMA JobStep ==
    ASSUME JobsShaped, NEW u \in Users, NEW j, job' = [job EXCEPT ![u] = j], IsJob(u, j)
    PROVE  /\ JobsShaped'
           /\ job'[u] = j /\ \A v \in Users : v # u => job'[v] = job[v]
<1>1. \A v \in Users : job'[v] = IF v = u THEN j ELSE job[v]
  BY DEF JobsShaped
<1>2. job' = [v \in Users |-> job'[v]]
  BY DEF JobsShaped
<1>3. \A v \in Users : IsJob(v, job'[v])
  BY <1>1 DEF JobsShaped
<1> QED
  BY <1>1, <1>2, <1>3 DEF JobsShaped

LEMMA BatchIsJob ==
    ASSUME NEW u, NEW j, IsBatch(u, j)
    PROVE  IsJob(u, j)
BY DEF IsJob, IsBatch, BatchStates

\* What a command goes on with.
LEMMA AfterIsJob ==
    ASSUME NEW u, NEW rest, IsRest(u, rest)
    PROVE  IsJob(u, After(rest)) /\ (After(rest) = Idle \/ IsBatch(u, After(rest)))
<1>1. IsJob(u, Idle)
  BY DEF IsJob, Idle, BatchStates
<1> QED
  BY <1>1, BatchIsJob DEF After, IsRest

\* send_via_relay starts with a message its recipient can read.
LEMMA StartRelayShape ==
    ASSUME Shape, NEW u \in Users, NEW p \in Users, NEW text \in Texts, NEW rest,
           IsRest(u, rest), StartRelay(u, p, text, rest)
    PROVE  secrets' \in Nat /\ JobsShaped'
<1> DEFINE self == p = u
           e    == EncryptFirst(NewSession(Fresh, TRUE, self))
           msg  == [from |-> u, to |-> p, text |-> text, key |-> e.key,
                    kct |-> IF self THEN Plain ELSE Fresh]
           j    == [state |-> "relay", msg |-> msg, sess |-> e.session, rest |-> rest]
<1>1. secrets' = Fresh /\ Fresh \in Secrets /\ job' = [job EXCEPT ![u] = j]
  BY DEF StartRelay, Shape, Fresh, Secrets
<1>2. e.key = KeyOf(Chain(Fresh, 1), Plain) /\ e.key \in MessageKey
  <2>1. e.key = KeyOf(Chain(Fresh, 1), Plain)
    BY DEF EncryptFirst, NewSession
  <2>2. KeyOf(Chain(Fresh, 1), Plain) \in MessageKey
    BY <1>1 DEF KeyOf, Chain, MessageKey, ChainKey, Plain
  <2> QED
    BY <2>1, <2>2
<1> HIDE DEF e
<1>3. msg \in LettersTo(p)
  BY <1>1, <1>2 DEF LettersTo, Msg, Secrets, Plain
<1>4. IsJob(u, j)
  <2> HIDE DEF msg
  <2>1. msg.from = u /\ msg.to = p
    BY DEF msg
  <2> QED
    BY <1>3, <2>1 DEF IsJob, IsRelaying, BatchStates
<1> HIDE DEF j
<1> QED
  BY <1>1, <1>4, JobStep DEF Shape, Secrets

\* send_message starts with a job and a connection between the same two users.
LEMMA StartP2PShape ==
    ASSUME Shape, NEW u \in Users, NEW p \in Users, NEW text \in Texts, NEW rest,
           IsRest(u, rest), StartP2P(u, p, text, rest)
    PROVE  JobsShaped' /\ ConnsShaped'
<1>1. PICK n \in 1..MaxConns :
         /\ conns' = conns \cup {[n |-> n, from |-> u, to |-> p, state |-> "hello"]}
         /\ job' = [job EXCEPT ![u] = [state |-> "hello", peer |-> p, text |-> text,
                                       conn |-> n, rest |-> rest]]
  BY DEF StartP2P
<1> DEFINE j == [state |-> "hello", peer |-> p, text |-> text, conn |-> n, rest |-> rest]
           c == [n |-> n, from |-> u, to |-> p, state |-> "hello"]
<1>2. IsJob(u, j)
  BY DEF IsJob, IsSending, BatchStates
<1>3. IsConn(c)
  BY DEF IsConn
<1> HIDE DEF j, c
<1>4. JobsShaped'
  BY <1>1, <1>2, JobStep DEF Shape, j
<1>5. ConnsShaped'
  BY <1>1, <1>3 DEF Shape, ConnsShaped, c
<1> QED
  BY <1>4, <1>5

-----------------------------------------------------------------------------
(* The shape is kept, action by action.                                    *)

\* Nothing but the job of u changes.
LEMMA OnlyJob ==
    ASSUME Shape, NEW u \in Users, NEW j, IsJob(u, j), job' = [job EXCEPT ![u] = j],
           secrets' \in Nat, SessionsShaped', MailShaped', ConnsShaped', RelayReadable'
    PROVE  Shape'
BY JobStep DEF Shape

LEMMA ShapeUnchanged ==
    ASSUME Shape
    PROVE  /\ UNCHANGED session => SessionsShaped'
           /\ UNCHANGED mailbox => MailShaped'
           /\ UNCHANGED job => JobsShaped'
           /\ UNCHANGED conns => ConnsShaped'
           /\ UNCHANGED failures => RelayReadable'
           /\ UNCHANGED secrets => secrets' \in Nat
<1>1. UNCHANGED session => SessionsShaped'
  BY DEF Shape, SessionsShaped
<1>2. UNCHANGED mailbox => MailShaped'
  BY DEF Shape, MailShaped
<1>3. UNCHANGED job => JobsShaped'
  BY DEF Shape, JobsShaped
<1>4. UNCHANGED conns => ConnsShaped'
  BY DEF Shape, ConnsShaped
<1>5. UNCHANGED failures => RelayReadable'
  BY DEF Shape, RelayReadable
<1> QED
  BY <1>1, <1>2, <1>3, <1>4, <1>5 DEF Shape

LEMMA SaveShape ==
    ASSUME SessionsShaped, NEW u \in Users, NEW p \in Users, NEW s,
           session' = [session EXCEPT ![u][p] = s]
    PROVE  /\ SessionsShaped'
           /\ \A v \in Users, q \in Users :
                 session'[v][q] = IF v = u /\ q = p THEN s ELSE session[v][q]
<1>1. /\ IsTable(Users, Users, session')
      /\ \A v \in Users, q \in Users :
            session'[v][q] = IF v = u /\ q = p THEN s ELSE session[v][q]
  <2>1. session' = WithEntry(session, u, p, s)
    BY DEF WithEntry
  <2> QED
    BY ONLY <2>1, SessionsShaped, u \in Users, ExceptTwo DEF SessionsShaped
<1> QED
  BY <1>1 DEF SessionsShaped

LEMMA ShapeSend ==
    ASSUME Shape, NEW u \in Users, NEW p \in Users, NEW text \in Texts, send(u, p, text)
    PROVE  Shape'
<1>1. IsRest(u, NoBatch)
  BY DEF IsRest
<1>2. CASE StartRelay(u, p, text, NoBatch) /\ UNCHANGED conns
  BY <1>1, <1>2, StartRelayShape, ShapeUnchanged DEF send, Shape
<1>3. CASE StartP2P(u, p, text, NoBatch) /\ UNCHANGED <<secrets, keys, encrypted>>
  BY <1>1, <1>3, StartP2PShape, ShapeUnchanged DEF send, Shape
<1> QED
  BY <1>2, <1>3 DEF send

LEMMA ShapeRelayStores ==
    ASSUME Shape, NEW u \in Users, relay_stores(u)
    PROVE  Shape'
<1> DEFINE j == [job[u] EXCEPT !.state = "stored"]
           m == job[u].msg
<1>1. IsRelaying(u, job[u]) /\ m.to \in Users /\ m \in LettersTo(m.to)
  BY DEF relay_stores, Shape, JobsShaped, IsJob, IsRelaying
<1>2. IsJob(u, j)
  <2>1. j = [state |-> "stored", msg |-> job[u].msg, sess |-> job[u].sess, rest |-> job[u].rest]
    BY <1>1 DEF IsRelaying
  <2> HIDE DEF j
  <2>2. IsRelaying(u, j)
    BY <1>1, <2>1 DEF IsRelaying
  <2> QED
    BY <2>1, <2>2 DEF IsJob, BatchStates
<1>3. job' = [job EXCEPT ![u] = j]
  BY DEF relay_stores, Shape, JobsShaped
<1>4. MailShaped'
  <2>1. PICK r \in Relays : mailbox' = [mailbox EXCEPT ![m.to][r] = Append(@, m)]
    BY DEF relay_stores
  <2>2. Append(mailbox[m.to][r], m) \in Seq(LettersTo(m.to))
    BY <1>1 DEF Shape, MailShaped
  <2> HIDE DEF m
  <2>3. mailbox' = WithEntry(mailbox, m.to, r, Append(mailbox[m.to][r], m))
    BY <2>1 DEF WithEntry
  <2>5. /\ IsTable(Users, Relays, mailbox')
        /\ \A v \in Users, s \in Relays : mailbox'[v][s] =
              IF v = m.to /\ s = r THEN Append(mailbox[m.to][r], m) ELSE mailbox[v][s]
    <3>1. m.to \in Users
      BY <1>1
    <3> QED
      BY <2>3, <3>1, ExceptTwo DEF Shape, MailShaped
  <2>9. \A v \in Users, s \in Relays : mailbox'[v][s] \in Seq(LettersTo(v))
    BY <2>2, <2>5 DEF Shape, MailShaped
  <2> QED
    BY <2>5, <2>9 DEF MailShaped
<1> HIDE DEF j
<1>5. JobsShaped'
  BY <1>2, <1>3, JobStep DEF Shape
<1> QED
  BY <1>4, <1>5, ShapeUnchanged DEF relay_stores, Shape

\* The rest of a job that has one.
LEMMA RestOf ==
    ASSUME Shape, NEW u \in Users,
           job[u].state \in {"relay", "stored", "hello", "loaded", "sent", "failed", "echo"}
    PROVE  IsRest(u, job[u].rest)
BY DEF Shape, JobsShaped, IsJob, IsRelaying, IsSending, BatchStates

LEMMA ShapeRelayOk ==
    ASSUME Shape, NEW u \in Users, relay_ok(u)
    PROVE  Shape'
<1>1. job[u].msg.to \in Users
  BY DEF relay_ok, Shape, JobsShaped, IsJob, IsRelaying
<1>2. SessionsShaped'
  BY <1>1, SaveShape DEF relay_ok, Shape
<1>3. IsJob(u, After(job[u].rest))
  BY RestOf, AfterIsJob DEF relay_ok
<1>4. JobsShaped'
  BY <1>3, JobStep DEF relay_ok, Shape
<1> QED
  BY <1>2, <1>4, ShapeUnchanged DEF relay_ok, Shape

LEMMA ShapeRelayFails ==
    ASSUME Shape, NEW u \in Users, relay_fails(u)
    PROVE  Shape'
<1>1. IsJob(u, After(job[u].rest))
  BY RestOf, AfterIsJob DEF relay_fails
<1>2. JobsShaped'
  BY <1>1, JobStep DEF relay_fails, Shape
<1> QED
  BY <1>2, ShapeUnchanged DEF relay_fails, Shape

LEMMA ShapeHandleHello ==
    ASSUME Shape, NEW c \in conns, NEW sealed \in BOOLEAN, handle_hello(c, sealed)
    PROVE  Shape'
<1>1. IsConn(c) /\ c.state = "hello"
  BY DEF handle_hello, Shape, ConnsShaped
<1>2. IsConn([c EXCEPT !.state = "acked"])
  <2>1. [c EXCEPT !.state = "acked"] = [n |-> c.n, from |-> c.from, to |-> c.to, state |-> "acked"]
    BY <1>1 DEF IsConn
  <2> QED
    BY <1>1, <2>1 DEF IsConn
<1>3. ConnsShaped'
  BY <1>2 DEF handle_hello, Shape, ConnsShaped
<1> QED
  BY <1>3, ShapeUnchanged DEF handle_hello, Shape

LEMMA ShapeLoadToSend ==
    ASSUME Shape, NEW u \in Users, load_to_send(u)
    PROVE  Shape'
<1> DEFINE loaded(s, first) == [state |-> "loaded", peer |-> job[u].peer,
                 text |-> job[u].text, conn |-> job[u].conn, rest |-> job[u].rest,
                 sess |-> s, first |-> first]
           have == session[u][job[u].peer]
<1>1. IsSending(u, job[u])
  BY DEF load_to_send, Shape, JobsShaped, IsJob
<1>2. \A s : \A first \in BOOLEAN : IsJob(u, loaded(s, first))
  BY <1>1 DEF IsJob, IsSending, BatchStates
<1>3. CASE have # NoSession
  <2>1. job' = [job EXCEPT ![u] = loaded(have, FALSE)] /\ UNCHANGED secrets
    BY <1>3 DEF load_to_send
  <2> HIDE DEF loaded, have
  <2>2. JobsShaped'
    BY <1>2, <2>1, JobStep DEF Shape
  <2> QED
    BY <2>1, <2>2, ShapeUnchanged DEF load_to_send, Shape
<1>4. CASE have = NoSession
  <2>1. secrets' = Fresh /\ job' = [job EXCEPT ![u] = loaded(NewSession(Fresh, TRUE, FALSE), TRUE)]
    BY <1>4 DEF load_to_send
  <2> HIDE DEF loaded, have
  <2>2. JobsShaped'
    BY <1>2, <2>1, JobStep DEF Shape
  <2>3. secrets' \in Nat
    BY <2>1 DEF Fresh, Shape
  <2> QED
    BY <2>2, <2>3, ShapeUnchanged DEF load_to_send, Shape
<1> QED
  BY <1>3, <1>4

LEMMA ShapeSendP2P ==
    ASSUME Shape, NEW u \in Users, send_p2p(u)
    PROVE  Shape'
<1> DEFINE j == job[u]
           e == IF j.first THEN EncryptFirst(j.sess) ELSE EncryptMessage(j.sess, Fresh)
           st == IF ConnOf(u) # {} THEN "sent" ELSE "failed"
           k == [state |-> st, peer |-> j.peer, text |-> j.text, rest |-> j.rest]
<1>1. IsSending(u, j) /\ j.first \in BOOLEAN
  BY DEF send_p2p, Shape, JobsShaped, IsJob
<1>2. /\ secrets' = IF j.first THEN secrets ELSE Fresh
      /\ session' = [session EXCEPT ![u][j.peer] = j.sess]
      /\ conns' = (conns \ ConnOf(u)) \cup
            {[n |-> c.n, from |-> u, to |-> c.to, state |-> "message",
              key |-> e.key, first |-> j.first] : c \in ConnOf(u)}
      /\ job' = [job EXCEPT ![u] = k]
  BY DEF send_p2p
<1>3. IsJob(u, k)
  BY <1>1 DEF IsJob, IsSending, BatchStates
<1>4. ConnsShaped'
  <2> HIDE DEF e, j
  <2>1. ASSUME NEW c \in ConnOf(u)
        PROVE  IsConn([n |-> c.n, from |-> u, to |-> c.to, state |-> "message",
                       key |-> e.key, first |-> j.first])
    BY DEF Shape, ConnsShaped, IsConn, ConnOf
  <2> QED
    BY <1>2, <2>1 DEF Shape, ConnsShaped
<1> HIDE DEF j, e, st, k
<1>5. JobsShaped'
  BY <1>2, <1>3, JobStep DEF Shape
<1>6. SessionsShaped'
  BY <1>1, <1>2, SaveShape DEF Shape, IsSending
<1>7. secrets' \in Nat
  BY <1>2 DEF Shape, Fresh
<1> QED
  BY <1>4, <1>5, <1>6, <1>7, ShapeUnchanged DEF send_p2p, Shape

LEMMA ShapeP2PDone ==
    ASSUME Shape, NEW u \in Users, p2p_done(u)
    PROVE  Shape'
<1>1. IsJob(u, After(job[u].rest))
  BY RestOf, AfterIsJob DEF p2p_done
<1>2. JobsShaped'
  BY <1>1, JobStep DEF p2p_done, Shape
<1> QED
  BY <1>2, ShapeUnchanged DEF p2p_done, Shape

LEMMA ShapeP2PFails ==
    ASSUME Shape, NEW u \in Users, p2p_fails(u)
    PROVE  Shape'
<1>1. IsSending(u, job[u])
  BY DEF p2p_fails, Shape, JobsShaped, IsJob
<1>2. CASE job' = [job EXCEPT ![u] = Idle] /\ UNCHANGED <<secrets, keys, encrypted>>
  <2>1. IsJob(u, Idle)
    BY DEF IsJob, Idle, BatchStates
  <2>2. JobsShaped'
    BY <1>2, <2>1, JobStep DEF Shape
  <2> QED
    BY <1>2, <2>2, ShapeUnchanged DEF p2p_fails, Shape
<1>3. CASE StartRelay(u, job[u].peer, job[u].text, job[u].rest)
  <2>1. secrets' \in Nat /\ JobsShaped'
    BY <1>1, <1>3, StartRelayShape DEF IsSending
  <2> QED
    BY <2>1, ShapeUnchanged DEF p2p_fails, Shape
<1> QED
  BY <1>2, <1>3 DEF p2p_fails

LEMMA ShapeLoadToReceive ==
    ASSUME Shape, NEW c \in conns, load_to_receive(c)
    PROVE  Shape'
<1> DEFINE with(s) == [n |-> c.n, from |-> c.from, to |-> c.to, state |-> "loaded",
                       key |-> c.key, first |-> c.first, sess |-> s]
<1>1. \A s : IsConn(with(s))
  BY DEF Shape, ConnsShaped, IsConn
<1>2. \E s : conns' = (conns \ {c}) \cup {with(s)}
  BY DEF load_to_receive
<1> HIDE DEF with
<1>3. ConnsShaped'
  BY <1>1, <1>2 DEF Shape, ConnsShaped
<1>4. secrets' \in Nat
  <2>1. UNCHANGED secrets \/ secrets' = Fresh
    BY DEF load_to_receive
  <2> QED
    BY <2>1 DEF Shape, Fresh
<1> QED
  BY <1>3, <1>4, ShapeUnchanged DEF load_to_receive, Shape

LEMMA ShapeReceive ==
    ASSUME Shape, NEW c \in conns, receive(c)
    PROVE  Shape'
<1> DEFINE after == DecryptMessage(c.sess, c.key, Seq1)
<1>1. c.from \in Users /\ c.to \in Users
  BY DEF Shape, ConnsShaped, IsConn
<1>2. SessionsShaped'
  BY <1>1, SaveShape DEF receive, Shape
<1>3. RelayReadable'
  <2>1. Failed("p2p", c.first, FALSE, c.sess, c.key).via = "p2p"
    BY DEF Failed
  <2>2. failures' \subseteq failures \cup {Failed("p2p", c.first, FALSE, c.sess, c.key)}
    BY DEF receive
  <2> QED
    BY <2>1, <2>2 DEF Shape, RelayReadable
<1>4. ConnsShaped'
  BY DEF receive, Shape, ConnsShaped
<1> QED
  BY <1>2, <1>3, <1>4, ShapeUnchanged DEF receive, Shape

\* Everything fetched from u's mailboxes, of the relays that answer.
LEMMA FetchedType ==
    ASSUME NEW u \in Users, NEW up, NEW S, \A r \in Relays : mailbox[u][r] \in Seq(S)
    PROVE  relay_fetch_all(u, up) \in Seq(S)
<1> DEFINE q == [r \in Relays |-> IF r \in up THEN mailbox[u][r] ELSE <<>>]
<1>1. q \in [1..NRelays -> Seq(S)]
  BY DEF Relays
<1>2. NRelays \in Nat
  BY ClientAssumption
<1> HIDE DEF q
<1>3. FlattenSeq(q) \in Seq(S)
  BY <1>1, <1>2, FlattenSeqType
<1> QED
  BY <1>3 DEF relay_fetch_all, q

LEMMA UnreadType ==
    ASSUME NEW S, NEW q \in Seq(S), NEW batch
    PROVE  Unread(q, batch) \in Seq(S)
<1> DEFINE f == [i \in 1..Len(q) |-> IF Contains(batch, q[i]) THEN <<>> ELSE <<q[i]>>]
<1>1. f \in [1..Len(q) -> Seq(S)]
  OBVIOUS
<1>2. Len(q) \in Nat
  OBVIOUS
<1> HIDE DEF f
<1>3. FlattenSeq(f) \in Seq(S)
  BY <1>1, <1>2, FlattenSeqType
<1> QED
  BY <1>3 DEF Unread, f

LEMMA ShapeFetch ==
    ASSUME Shape, NEW u \in Users, NEW command \in BatchStates, fetch(u, command)
    PROVE  Shape'
<1>1. PICK up \in SUBSET Relays : job' = [job EXCEPT ![u] =
         [state |-> command, batch |-> relay_fetch_all(u, up), todo |-> relay_fetch_all(u, up),
          seen |-> {}, got |-> FALSE]]
  BY DEF fetch
<1>2. relay_fetch_all(u, up) \in Seq(LettersTo(u))
  BY FetchedType DEF Shape, MailShaped
<1> DEFINE j == [state |-> command, batch |-> relay_fetch_all(u, up),
                 todo |-> relay_fetch_all(u, up), seen |-> {}, got |-> FALSE]
<1>3. IsBatch(u, j)
  BY <1>2 DEF IsBatch
<1> HIDE DEF j
<1>4. JobsShaped'
  BY <1>1, <1>3, BatchIsJob, JobStep DEF Shape, j
<1> QED
  BY <1>4, ShapeUnchanged DEF fetch, Shape

\* The messages a batch still has to read.
LEMMA NextLetter ==
    ASSUME NEW u, NEW j, IsBatch(u, j), j.todo # <<>>
    PROVE  /\ Head(j.todo) \in LettersTo(u) /\ Head(j.todo).text \in Texts
           /\ IsBatch(u, [j EXCEPT !.todo = Tail(@)])
<1>1. Head(j.todo) \in LettersTo(u) /\ Tail(j.todo) \in Seq(LettersTo(u))
  BY DEF IsBatch
<1>2. Head(j.todo).text \in Texts
  BY <1>1 DEF LettersTo, Msg
<1>3. \A t \in Seq(LettersTo(u)) : IsBatch(u, [j EXCEPT !.todo = t])
  BY DEF IsBatch
<1> QED
  BY <1>1, <1>2, <1>3

LEMMA BatchNotes ==
    ASSUME NEW u, NEW j, IsBatch(u, j), NEW text \in Texts, NEW more \in BOOLEAN
    PROVE  /\ IsBatch(u, [j EXCEPT !.seen = @ \cup {text}])
           /\ IsBatch(u, [j EXCEPT !.seen = @ \cup {text}, !.got = @ \/ more])
BY DEF IsBatch

\* A message from another user can be decrypted, whatever sessions there are.
LEMMA LetterDecrypts ==
    ASSUME NEW u \in Users, NEW m \in LettersTo(u), m.from # u
    PROVE  /\ m.kct \in Secrets
           /\ Decrypted(u, m) # {}
           /\ Decrypted(u, m) = DecryptFirst(NewSession(m.kct, FALSE, FALSE),
                                             KeyOf(Chain(m.kct, 1), Plain))
<1>1. m.kct # Plain /\ m.key = KeyOf(Chain(m.kct, 1), Plain) /\ m.kct \in Secrets
  BY DEF LettersTo, Msg, Secrets, Plain
<1>2. SessionFor(u, m) = {NewSession(m.kct, FALSE, FALSE)}
  BY <1>1, Zenon DEF SessionFor
<1>3. Decrypted(u, m) = DecryptFirst(NewSession(m.kct, FALSE, FALSE), m.key)
  BY <1>1, <1>2, Zenon DEF Decrypted
<1> QED
  BY <1>1, <1>3, FirstDecrypts, Zenon

LEMMA ShapeReadNext ==
    ASSUME Shape, NEW u \in Users, read_next(u)
    PROVE  Shape'
<1> DEFINE j     == job[u]
           m     == Head(j.todo)
           after == Decrypted(u, m)
           next  == [j EXCEPT !.todo = Tail(@)]
           new   == m.text \notin j.seen
           heard == [state |-> "echo", peer |-> m.from, text |-> m.text,
                     rest |-> [next EXCEPT !.seen = @ \cup {m.text}]]
           shown == [next EXCEPT !.seen = @ \cup {m.text},
                                 !.got = @ \/ (new /\ contact[u][m.from] # "none")]
<1>1. IsBatch(u, j) /\ j.todo # <<>>
  BY DEF read_next, Shape, JobsShaped, IsJob, BatchStates
<1>2. m \in LettersTo(u) /\ m.from \in Users /\ m.text \in Texts
  <2>1. m \in LettersTo(u)
    BY <1>1, NextLetter
  <2> QED
    BY <2>1 DEF LettersTo, Msg
<1>3. CASE /\ after = {}
           /\ job' = [job EXCEPT ![u] = next]
           /\ failures' = failures \cup
                 {Failed("relay", m.kct # Plain, m.from = u, s, m.key) : s \in SessionFor(u, m)}
           /\ UNCHANGED session
  <2>1. m.from = u
    BY <1>2, <1>3, LetterDecrypts
  <2>2. \A s : Failed("relay", m.kct # Plain, m.from = u, s, m.key).self = (m.from = u)
    BY DEF Failed
  <2>3. \A f \in failures' : f \in failures \/ f.self
    <3> HIDE DEF m
    <3> QED
      BY <1>3, <2>1, <2>2
  <2>4. RelayReadable'
    BY <2>3 DEF Shape, RelayReadable
  <2>5. IsJob(u, next)
    BY <1>1, NextLetter, BatchIsJob
  <2>6. JobsShaped'
    <3> HIDE DEF next
    <3> QED
      BY <1>3, <2>5, JobStep DEF Shape
  <2> QED
    BY <1>3, <2>4, <2>6, ShapeUnchanged DEF read_next, Shape
<1>4. CASE /\ \E s \in after : session' = [session EXCEPT ![u][m.from] = s]
           /\ job' = [job EXCEPT ![u] = IF new /\ j.state = "reflect" THEN heard ELSE shown]
           /\ UNCHANGED failures
  <2>1. SessionsShaped'
    <3> HIDE DEF m, after
    <3> QED
      BY <1>2, <1>4, SaveShape DEF Shape
  <2>2. IsJob(u, heard)
    <3>1. IsBatch(u, heard.rest)
      <4>1. IsBatch(u, next)
        BY <1>1, NextLetter
      <4> HIDE DEF next, m
      <4> QED
        BY <1>2, <4>1, BatchNotes
    <3>2. heard.state = "echo" /\ heard.peer = m.from /\ heard.text = m.text
      OBVIOUS
    <3> HIDE DEF heard, m
    <3> QED
      BY <1>2, <3>1, <3>2 DEF IsJob, IsSending, IsRest, BatchStates
  <2>3. IsJob(u, shown)
    <3>1. IsBatch(u, next)
      BY <1>1, NextLetter
    <3>2. (new /\ contact[u][m.from] # "none") \in BOOLEAN
      OBVIOUS
    <3> HIDE DEF next, m, new
    <3>3. IsBatch(u, shown)
      BY <1>2, <3>1, <3>2, BatchNotes
    <3> QED
      BY <3>3, BatchIsJob
  <2>4. JobsShaped'
    <3> HIDE DEF heard, shown, new
    <3> QED
      BY <1>4, <2>2, <2>3, JobStep DEF Shape
  <2> QED
    BY <1>4, <2>1, <2>4, ShapeUnchanged DEF read_next, Shape
<1> QED
  BY <1>3, <1>4 DEF read_next

LEMMA ShapeEcho ==
    ASSUME Shape, NEW u \in Users, echo(u)
    PROVE  Shape'
<1>1. IsSending(u, job[u]) /\ IsBatch(u, job[u].rest)
  BY DEF echo, Shape, JobsShaped, IsJob
<1>2. SessionsShaped'
  BY <1>1, SaveShape DEF echo, Shape, IsSending
<1>3. CASE /\ StartP2P(u, job[u].peer, job[u].text, job[u].rest)
           /\ UNCHANGED <<secrets, keys, encrypted>>
  <2>1. JobsShaped' /\ ConnsShaped'
    BY <1>1, <1>3, StartP2PShape DEF IsSending
  <2> QED
    BY <1>2, <1>3, <2>1, ShapeUnchanged DEF echo, Shape
<1>4. CASE StartRelay(u, job[u].peer, job[u].text, job[u].rest) /\ UNCHANGED conns
  <2>1. secrets' \in Nat /\ JobsShaped'
    BY <1>1, <1>4, StartRelayShape DEF IsSending
  <2> QED
    BY <1>2, <1>4, <2>1, ShapeUnchanged DEF echo, Shape
<1>5. CASE job' = [job EXCEPT ![u] = job[u].rest] /\ UNCHANGED <<conns, secrets, keys, encrypted>>
  <2>1. JobsShaped'
    BY <1>1, <1>5, BatchIsJob, JobStep DEF Shape
  <2> QED
    BY <1>2, <1>5, <2>1, ShapeUnchanged DEF echo, Shape
<1> QED
  BY <1>3, <1>4, <1>5 DEF echo

\* What the relays leave of u's mailboxes is made of what they held.
LEMMA LeaveShape ==
    ASSUME Shape, NEW u \in Users, NEW left, RelaysLeave(u, left),
           \A r \in Relays : left[r] \subseteq Seq(LettersTo(u))
    PROVE  /\ MailShaped'
           /\ \A r \in Relays : mailbox'[u][r] \in left[r]
           /\ \A v \in Users : v # u => mailbox'[v] = mailbox[v]
<1>1. PICK after \in [Relays -> UNION {left[r] : r \in Relays}] :
         /\ \A r \in Relays : after[r] \in left[r]
         /\ mailbox' = [mailbox EXCEPT ![u] = after]
  BY DEF RelaysLeave
<1>2. mailbox = [v \in Users |-> mailbox[v]]
      /\ \A v \in Users : mailbox[v] = [r \in Relays |-> mailbox[v][r]]
  BY DEF Shape, MailShaped, IsTable
<1>3. \A v \in Users : mailbox'[v] = IF v = u THEN after ELSE mailbox[v]
  BY <1>1, <1>2
<1>4. mailbox' = [v \in Users |-> mailbox'[v]]
  BY <1>1, <1>2
<1>5. \A v \in Users : mailbox'[v] = [r \in Relays |-> mailbox'[v][r]]
  <2> SUFFICES ASSUME NEW v \in Users
               PROVE  mailbox'[v] = [r \in Relays |-> mailbox'[v][r]]
    OBVIOUS
  <2>1. after = [r \in Relays |-> after[r]]
    BY <1>1
  <2>2. CASE v = u
    BY <1>3, <2>1, <2>2, Zenon
  <2>3. CASE v # u
    <3>1. mailbox'[v] = mailbox[v]
      BY <1>3, <2>3
    <3> QED
      BY <1>2, <3>1, Zenon
  <2> QED
    BY <2>2, <2>3
<1>6. \A r \in Relays : mailbox'[u][r] \in left[r]
  BY <1>1, <1>3
<1>7. \A v \in Users, r \in Relays : mailbox'[v][r] \in Seq(LettersTo(v))
  BY <1>3, <1>6 DEF Shape, MailShaped
<1>8. IsTable(Users, Relays, mailbox')
  BY <1>4, <1>5, Zenon DEF IsTable
<1> QED
  BY <1>3, <1>6, <1>7, <1>8 DEF MailShaped

LEMMA LeftType ==
    ASSUME NEW u \in Users, NEW r \in Relays, NEW S, mailbox[u][r] \in Seq(S)
    PROVE  Receipted(u, r) \subseteq Seq(S) /\ relay_purge(u, r) \subseteq Seq(S)
<1>1. Unread(mailbox[u][r], job[u].batch) \in Seq(S)
  BY UnreadType
<1> QED
  BY <1>1 DEF Receipted, relay_purge

\* The three ends of a batch.
LEMMA DoneLeaves ==
    ASSUME NEW u \in Users, read_done(u)
    PROVE  \/ UNCHANGED mailbox
           \/ RelaysLeave(u, [r \in Relays |-> Receipted(u, r) \cup relay_purge(u, r)])
           \/ RelaysLeave(u, [r \in Relays |-> relay_purge(u, r)])
BY DEF read_done

LEMMA ShapeReadDone ==
    ASSUME Shape, NEW u \in Users, read_done(u)
    PROVE  Shape'
<1>1. IsJob(u, Idle)
  BY DEF IsJob, Idle, BatchStates
<1>2. JobsShaped'
  BY <1>1, JobStep DEF read_done, Shape
<1>3. \A r \in Relays : /\ Receipted(u, r) \subseteq Seq(LettersTo(u))
                        /\ relay_purge(u, r) \subseteq Seq(LettersTo(u))
  BY LeftType DEF Shape, MailShaped
<1> DEFINE both == [r \in Relays |-> Receipted(u, r) \cup relay_purge(u, r)]
           purged == [r \in Relays |-> relay_purge(u, r)]
<1>4. \A r \in Relays : both[r] \subseteq Seq(LettersTo(u)) /\ purged[r] \subseteq Seq(LettersTo(u))
  BY <1>3
<1>5. UNCHANGED mailbox \/ RelaysLeave(u, both) \/ RelaysLeave(u, purged)
  BY DoneLeaves
<1> HIDE DEF both, purged
<1>6. MailShaped'
  BY <1>4, <1>5, LeaveShape, ShapeUnchanged
<1> QED
  BY <1>2, <1>6, ShapeUnchanged DEF read_done, Shape

LEMMA ShapePurge ==
    ASSUME Shape, NEW u \in Users, purge(u)
    PROVE  Shape'
<1> DEFINE purged == [r \in Relays |-> relay_purge(u, r)]
<1>1. \A r \in Relays : purged[r] \subseteq Seq(LettersTo(u))
  BY LeftType DEF Shape, MailShaped
<1>2. RelaysLeave(u, purged)
  BY DEF purge
<1> HIDE DEF purged
<1>3. MailShaped'
  BY <1>1, <1>2, LeaveShape
<1> QED
  BY <1>3, ShapeUnchanged DEF purge, Shape

LEMMA ShapeKills ==
    ASSUME Shape, NEW u \in Users, kill_command(u) \/ kill_listener(u)
    PROVE  Shape'
<1>1. CASE kill_command(u)
  <2>1. IsJob(u, Idle)
    BY DEF IsJob, Idle, BatchStates
  <2>2. JobsShaped'
    BY <1>1, <2>1, JobStep DEF kill_command, Shape
  <2>3. ConnsShaped'
    BY <1>1 DEF kill_command, Shape, ConnsShaped
  <2> QED
    BY <1>1, <2>2, <2>3, ShapeUnchanged DEF kill_command, Shape
<1>2. CASE kill_listener(u)
  <2>1. ConnsShaped'
    BY <1>2 DEF kill_listener, Shape, ConnsShaped
  <2> QED
    BY <1>2, <2>1, ShapeUnchanged DEF kill_listener, Shape
<1> QED
  BY <1>1, <1>2

LEMMA ShapeNext == Shape /\ [Next]_vars => Shape'
<1> SUFFICES ASSUME Shape, [Next]_vars PROVE Shape'
  OBVIOUS
<1>1. CASE UNCHANGED vars
  BY <1>1, ShapeUnchanged DEF vars, Shape
<1>2. ASSUME NEW u \in Users,
             \/ relay_stores(u) \/ relay_ok(u) \/ relay_fails(u)
             \/ load_to_send(u) \/ send_p2p(u) \/ p2p_done(u) \/ p2p_fails(u)
      PROVE  Shape'
  BY <1>2, ShapeRelayStores, ShapeRelayOk, ShapeRelayFails, ShapeLoadToSend, ShapeSendP2P,
     ShapeP2PDone, ShapeP2PFails
<1>3. ASSUME NEW u \in Users,
             \/ \E command \in {"read", "raw", "reflect"} : fetch(u, command)
             \/ read_next(u) \/ echo(u) \/ read_done(u) \/ purge(u)
             \/ kill_command(u) \/ kill_listener(u)
      PROVE  Shape'
  BY <1>3, ShapeFetch, ShapeReadNext, ShapeEcho, ShapeReadDone, ShapePurge, ShapeKills
     DEF BatchStates
<1>4. ASSUME NEW u \in Users, NEW p \in Users,
             add_contact(u, p) \/ \E text \in Texts : send(u, p, text)
      PROVE  Shape'
  <2>1. CASE add_contact(u, p)
    BY <2>1, ShapeUnchanged DEF add_contact, Shape
  <2> QED
    BY <1>4, <2>1, ShapeSend
<1>5. ASSUME NEW c \in conns,
             \/ \E sealed \in BOOLEAN : handle_hello(c, sealed)
             \/ load_to_receive(c) \/ receive(c)
      PROVE  Shape'
  BY <1>5, ShapeHandleHello, ShapeLoadToReceive, ShapeReceive
<1> QED
  BY <1>1, <1>2, <1>3, <1>4, <1>5 DEF Next

LEMMA ShapeAlways == Spec => []Shape
BY ShapeInit, ShapeNext, PTL DEF Spec

\* What `add read' and the reflector fetch from a relay can always be decrypted,
\* whatever sessions other commands, handlers and crashes have left: every
\* message carries the ciphertext its key comes from.
THEOREM RelayMailReadable == Spec => []RelayReadable
<1>1. Shape => RelayReadable
  BY DEF Shape
<1> QED
  BY <1>1, ShapeAlways, PTL

-----------------------------------------------------------------------------
(* Message keys.  A key with a secret mixed in is new because the secret   *)
(* is; a plain key is the first of a chain.  What has to be shown is that  *)
(* no two commands hold the same unused chain: a send by the relay uses    *)
(* the first key at once, a direct send holds it until it is connected.    *)

OldKey(k, n) ==
    \/ k.mix = Plain /\ k.chain.root \in 1..n
    \/ k.mix \in 1..n

FirstKey(ss) == KeyOf(Chain(ss, 1), Plain)

\* u holds a session whose first key is not used yet.
HoldsFirst(u) == job[u].state = "loaded" /\ job[u].first

KeysCounted == IsFiniteSet(keys) /\ Cardinality(keys) = encrypted /\ encrypted \in Nat

\* A new session of one of the first n secrets, its first key not in used.
Unused(s, n, used) ==
    /\ s = NewSession(s.root, TRUE, FALSE)
    /\ s.root \in 1..n /\ FirstKey(s.root) \notin used

FirstUnused == \A u \in Users : HoldsFirst(u) => Unused(job[u].sess, secrets, keys)

FirstDistinct ==
    \A u, v \in Users : u # v /\ HoldsFirst(u) /\ HoldsFirst(v)
                           => job[u].sess.root # job[v].sess.root

KeyInv ==
    /\ KeysCounted
    /\ \A k \in keys : OldKey(k, secrets)
    /\ FirstUnused /\ FirstDistinct

\* A step after which nobody holds a session it did not hold before.
NoneLoaded == \A v \in Users : job'[v].state = "loaded" => job'[v] = job[v]

LEMMA NotLoaded ==
    ASSUME JobsShaped, NEW u \in Users, NEW j, job' = [job EXCEPT ![u] = j],
           j.state # "loaded"
    PROVE  NoneLoaded
<1>1. \A v \in Users : job'[v] = IF v = u THEN j ELSE job[v]
  BY DEF JobsShaped
<1> QED
  BY <1>1 DEF NoneLoaded

LEMMA AfterNotLoaded ==
    ASSUME NEW u, NEW rest, IsRest(u, rest)
    PROVE  After(rest).state # "loaded"
<1>1. After(rest) = Idle \/ IsBatch(u, After(rest))
  BY AfterIsJob
<1> QED
  BY <1>1 DEF Idle, IsBatch, BatchStates

LEMMA StillUnused ==
    ASSUME NEW s, NEW n \in Nat, NEW used, Unused(s, n, used),
           NEW more \in Nat, n <= more, NEW now, FirstKey(s.root) \notin now
    PROVE  Unused(s, more, now)
<1>1. s = NewSession(s.root, TRUE, FALSE) /\ s.root \in 1..n
  BY Zenon DEF Unused
<1>2. \A r \in 1..n : r \in 1..more
  OBVIOUS
<1> QED
  BY <1>1, <1>2, Zenon DEF Unused

\* Nothing is encrypted.
LEMMA KeysKept ==
    ASSUME Shape, KeyInv, UNCHANGED <<keys, encrypted>>, NoneLoaded,
           secrets' \in Nat, secrets <= secrets'
    PROVE  KeyInv'
<1>1. KeysCounted'
  BY DEF KeyInv, KeysCounted
<1>2. \A k \in keys' : OldKey(k, secrets')
  BY DEF KeyInv, OldKey, Shape
<1>3. \A u \in Users : HoldsFirst(u)' => job'[u] = job[u] /\ HoldsFirst(u)
  BY DEF NoneLoaded, HoldsFirst
<1>4. FirstUnused'
  <2> SUFFICES ASSUME NEW u \in Users, HoldsFirst(u)'
               PROVE  Unused(job[u].sess, secrets', keys)
    BY <1>3 DEF FirstUnused
  <2>1. Unused(job[u].sess, secrets, keys) /\ secrets \in Nat
    BY <1>3 DEF KeyInv, FirstUnused, Shape
  <2>2. FirstKey(job[u].sess.root) \notin keys
    BY <2>1 DEF Unused
  <2> QED
    BY <2>1, <2>2, StillUnused
<1>5. FirstDistinct'
  BY <1>3 DEF KeyInv, FirstDistinct
<1> QED
  BY <1>1, <1>2, <1>4, <1>5 DEF KeyInv

\* One message is encrypted, with a key that is neither used nor held.
LEMMA KeyUsed ==
    ASSUME Shape, KeyInv, NEW key, Use(key), key \notin keys, NoneLoaded,
           secrets' \in Nat, secrets <= secrets', OldKey(key, secrets'),
           \A u \in Users : HoldsFirst(u)' => key # FirstKey(job[u].sess.root)
    PROVE  KeyInv'
<1>1. KeysCounted'
  <2>1. keys' = keys \cup {key} /\ encrypted' = encrypted + 1
    BY DEF Use
  <2>2. IsFiniteSet(keys) /\ Cardinality(keys) = encrypted /\ encrypted \in Nat
    BY DEF KeyInv, KeysCounted
  <2>3. IsFiniteSet(keys \cup {key}) /\ Cardinality(keys \cup {key}) = Cardinality(keys) + 1
    BY <2>2, FS_AddElement
  <2> QED
    BY <2>1, <2>2, <2>3 DEF KeysCounted
<1>2. \A k \in keys' : OldKey(k, secrets')
  <2>1. \A k \in keys : OldKey(k, secrets')
    BY DEF KeyInv, OldKey, Shape
  <2> QED
    BY <2>1 DEF Use
<1>3. \A u \in Users : HoldsFirst(u)' => job'[u] = job[u] /\ HoldsFirst(u)
  BY DEF NoneLoaded, HoldsFirst
<1>4. FirstUnused'
  <2> SUFFICES ASSUME NEW u \in Users, HoldsFirst(u)'
               PROVE  Unused(job[u].sess, secrets', keys \cup {key})
    BY <1>3 DEF FirstUnused, Use
  <2>1. Unused(job[u].sess, secrets, keys) /\ secrets \in Nat
    BY <1>3 DEF KeyInv, FirstUnused, Shape
  <2>2. FirstKey(job[u].sess.root) \notin keys \cup {key}
    BY <2>1 DEF Unused
  <2> QED
    BY <2>1, <2>2, StillUnused
<1>5. FirstDistinct'
  BY <1>3 DEF KeyInv, FirstDistinct
<1> QED
  BY <1>1, <1>2, <1>4, <1>5 DEF KeyInv

LEMMA StartRelayKeys ==
    ASSUME Shape, KeyInv, NEW u \in Users, NEW p, NEW text, NEW rest,
           StartRelay(u, p, text, rest)
    PROVE  KeyInv'
<1> DEFINE e == EncryptFirst(NewSession(Fresh, TRUE, p = u))
<1>1. e.key = FirstKey(Fresh)
  BY DEF EncryptFirst, NewSession, FirstKey
<1>2. Use(e.key) /\ secrets' = Fresh
  BY DEF StartRelay
<1>3. NoneLoaded
  <2>1. \E j : j.state = "relay" /\ job' = [job EXCEPT ![u] = j]
    BY DEF StartRelay
  <2> QED
    BY <2>1, NotLoaded DEF Shape
<1> HIDE DEF e
<1>4. Fresh \in Nat /\ secrets \in Nat /\ secrets < Fresh
  BY DEF Fresh, Shape
<1>5. FirstKey(Fresh).mix = Plain /\ FirstKey(Fresh).chain.root = Fresh
  BY DEF FirstKey, KeyOf, Chain
<1>6. e.key \notin keys
  BY <1>1, <1>4, <1>5 DEF KeyInv, OldKey, Plain
<1>7. \A v \in Users : HoldsFirst(v)' => e.key # FirstKey(job[v].sess.root)
  <2>1. \A ss : FirstKey(ss).chain.root = ss
    BY DEF FirstKey, KeyOf, Chain
  <2>2. \A v \in Users : HoldsFirst(v)' => job[v].sess.root \in 1..secrets
    BY <1>3 DEF NoneLoaded, HoldsFirst, KeyInv, FirstUnused, Unused
  <2> QED
    BY <1>1, <1>4, <2>1, <2>2
<1>8. OldKey(e.key, secrets')
  BY <1>1, <1>2, <1>4, <1>5 DEF OldKey
<1> QED
  BY <1>2, <1>3, <1>4, <1>6, <1>7, <1>8, KeyUsed

LEMMA KeysLoadToSend ==
    ASSUME Shape, KeyInv, NEW u \in Users, load_to_send(u)
    PROVE  KeyInv'
<1> DEFINE loaded(s, first) == [state |-> "loaded", peer |-> job[u].peer,
                 text |-> job[u].text, conn |-> job[u].conn, rest |-> job[u].rest,
                 sess |-> s, first |-> first]
           have == session[u][job[u].peer]
<1>1. ASSUME NEW j, job' = [job EXCEPT ![u] = j]
      PROVE  \A v \in Users : job'[v] = IF v = u THEN j ELSE job[v]
  BY <1>1 DEF Shape, JobsShaped
<1>2. KeysCounted' /\ UNCHANGED keys
  BY DEF KeyInv, KeysCounted, load_to_send
<1>3. CASE have # NoSession
  <2>1. job' = [job EXCEPT ![u] = loaded(have, FALSE)] /\ UNCHANGED secrets
    BY <1>3 DEF load_to_send
  <2>2. PICK j : job' = [job EXCEPT ![u] = j] /\ j.first = FALSE
    <3>1. loaded(have, FALSE).first = FALSE
      OBVIOUS
    <3> HIDE DEF loaded, have
    <3> QED
      BY <2>1, <3>1, Zenon
  <2> HIDE DEF loaded, have
  <2>3. \A v \in Users : HoldsFirst(v)' => job'[v] = job[v] /\ HoldsFirst(v)
    BY <1>1, <2>1, <2>2 DEF HoldsFirst
  <2>4. FirstUnused' /\ FirstDistinct'
    <3>1. FirstUnused'
      BY <1>2, <2>1, <2>3 DEF KeyInv, FirstUnused
    <3>2. FirstDistinct'
      BY <2>3 DEF KeyInv, FirstDistinct
    <3> QED
      BY <3>1, <3>2
  <2> QED
    BY <1>2, <2>1, <2>4 DEF KeyInv
<1>4. CASE have = NoSession
  <2> DEFINE s == NewSession(Fresh, TRUE, FALSE)
  <2>1. secrets' = Fresh /\ job' = [job EXCEPT ![u] = loaded(s, TRUE)]
    BY <1>4 DEF load_to_send
  <2>2. loaded(s, TRUE).sess = s /\ s.root = Fresh
    BY DEF NewSession
  <2> HIDE DEF loaded, have, s
  <2>3. \A v \in Users : HoldsFirst(v)' => v = u \/ (job'[v] = job[v] /\ HoldsFirst(v))
    BY <1>1, <2>1 DEF HoldsFirst
  <2>4. job'[u].sess = s
    BY <1>1, <2>1, <2>2
  <2>5. Fresh \in Nat /\ secrets \in Nat /\ Fresh = secrets + 1
    BY DEF Fresh, Shape
  <2>6. FirstKey(Fresh) \notin keys
    <3>1. FirstKey(Fresh).mix = Plain /\ FirstKey(Fresh).chain.root = Fresh
      BY DEF FirstKey, KeyOf, Chain
    <3> QED
      BY <2>5, <3>1 DEF KeyInv, OldKey, Plain
  <2>7. FirstUnused'
    <3> SUFFICES ASSUME NEW v \in Users, HoldsFirst(v)'
                 PROVE  Unused(job'[v].sess, Fresh, keys)
      BY <1>2, <2>1 DEF FirstUnused
    <3>1. CASE v = u
      <4>1. Unused(s, Fresh, keys)
        <5>1. Fresh \in 1..Fresh
          BY <2>5
        <5> QED
          BY <2>2, <2>6, <5>1, Zenon DEF Unused, s
      <4> QED
        BY <2>4, <3>1, <4>1
    <3>2. CASE v # u
      <4>1. job'[v] = job[v] /\ Unused(job[v].sess, secrets, keys)
        BY <2>3, <3>2 DEF KeyInv, FirstUnused
      <4>2. FirstKey(job[v].sess.root) \notin keys
        BY <4>1 DEF Unused
      <4>3. Unused(job[v].sess, Fresh, keys)
        BY <2>5, <4>1, <4>2, StillUnused
      <4> QED
        BY <4>1, <4>3
    <3> QED
      BY <3>1, <3>2
  <2>8. FirstDistinct'
    <3>1. \A v \in Users : v # u /\ HoldsFirst(v)' => job'[v].sess.root \in 1..secrets
      BY <2>3 DEF KeyInv, FirstUnused, Unused
    <3>2. job'[u].sess.root = Fresh
      BY <2>2, <2>4
    <3> QED
      BY <2>3, <2>5, <3>1, <3>2 DEF KeyInv, FirstDistinct
  <2>9. \A k \in keys' : OldKey(k, secrets')
    BY <1>2, <2>1, <2>5 DEF KeyInv, OldKey
  <2> QED
    BY <1>2, <2>7, <2>8, <2>9 DEF KeyInv
<1> QED
  BY <1>3, <1>4

LEMMA KeysSendP2P ==
    ASSUME Shape, KeyInv, NEW u \in Users, send_p2p(u)
    PROVE  KeyInv'
<1> DEFINE j == job[u]
           e == IF j.first THEN EncryptFirst(j.sess) ELSE EncryptMessage(j.sess, Fresh)
<1>1. /\ Use(e.key) /\ secrets' = IF j.first THEN secrets ELSE Fresh
      /\ \E k : k.state # "loaded" /\ job' = [job EXCEPT ![u] = k]
  <2> DEFINE k == [state |-> IF ConnOf(u) # {} THEN "sent" ELSE "failed",
                   peer |-> j.peer, text |-> j.text, rest |-> j.rest]
  <2>1. Use(e.key) /\ (secrets' = IF j.first THEN secrets ELSE Fresh)
    BY DEF send_p2p
  <2>2. job' = [job EXCEPT ![u] = k]
    BY DEF send_p2p
  <2>3. k.state # "loaded"
    OBVIOUS
  <2> HIDE DEF k
  <2> QED
    BY <2>1, <2>2, <2>3
<1>2. NoneLoaded /\ ~HoldsFirst(u)'
  <2>1. PICK k : k.state # "loaded" /\ job' = [job EXCEPT ![u] = k]
    BY <1>1
  <2>2. job'[u] = k
    BY <2>1 DEF Shape, JobsShaped
  <2> QED
    BY <2>1, <2>2, NotLoaded DEF Shape, HoldsFirst
<1>3. e.key = KeyOf(j.sess.send, IF j.first THEN Plain ELSE Fresh)
  BY DEF EncryptFirst, EncryptMessage
<1> HIDE DEF e
<1>4. Fresh \in Nat /\ secrets \in Nat /\ Fresh = secrets + 1
  BY DEF Fresh, Shape
<1>5. \A v \in Users : HoldsFirst(v)' => v # u /\ HoldsFirst(v) /\ job[v].sess.root \in 1..secrets
  BY <1>2 DEF NoneLoaded, HoldsFirst, KeyInv, FirstUnused, Unused
<1>6. CASE j.first
  <2>1. HoldsFirst(u)
    BY <1>6 DEF HoldsFirst, send_p2p
  <2>2. /\ j.sess = NewSession(j.sess.root, TRUE, FALSE) /\ j.sess.root \in 1..secrets
        /\ FirstKey(j.sess.root) \notin keys
    BY <2>1 DEF KeyInv, FirstUnused, Unused
  <2>3. j.sess.send = Chain(j.sess.root, 1)
    <3>1. \A ss : NewSession(ss, TRUE, FALSE).send = Chain(ss, 1)
      BY DEF NewSession
    <3> QED
      BY <2>2, <3>1, Zenon
  <2>4. e.key = FirstKey(j.sess.root)
    BY <1>3, <1>6, <2>3, Zenon DEF FirstKey
  <2>5. \A ss : FirstKey(ss).mix = Plain /\ FirstKey(ss).chain.root = ss
    BY DEF FirstKey, KeyOf, Chain
  <2>6. secrets' = secrets
    BY <1>1, <1>6
  <2>7. OldKey(e.key, secrets')
    BY <2>2, <2>4, <2>5, <2>6 DEF OldKey
  <2>8. \A v \in Users : HoldsFirst(v)' => e.key # FirstKey(job[v].sess.root)
    <3>1. \A v \in Users : HoldsFirst(v)' => job[v].sess.root # j.sess.root
      BY <1>5, <2>1 DEF KeyInv, FirstDistinct
    <3> QED
      BY <2>4, <2>5, <3>1, Zenon
  <2>9. e.key \notin keys
    BY <2>2, <2>4
  <2> QED
    BY <1>1, <1>2, <1>4, <2>6, <2>7, <2>8, <2>9, KeyUsed
<1>7. CASE ~j.first
  <2>1. e.key.mix = Fresh /\ secrets' = Fresh
    BY <1>1, <1>3, <1>7 DEF KeyOf
  <2>2. e.key \notin keys
    BY <1>4, <2>1 DEF KeyInv, OldKey, Plain
  <2>3. \A ss : FirstKey(ss).mix = Plain
    BY DEF FirstKey, KeyOf
  <2>4. \A ss : e.key # FirstKey(ss)
    BY <1>4, <2>1, <2>3 DEF Plain
  <2>5. OldKey(e.key, secrets')
    BY <1>4, <2>1 DEF OldKey
  <2> QED
    BY <1>1, <1>2, <1>4, <2>1, <2>2, <2>4, <2>5, KeyUsed
<1> QED
  BY <1>6, <1>7

LEMMA KeyInvInit == Init => KeyInv
<1> SUFFICES ASSUME Init PROVE KeyInv
  OBVIOUS
<1>1. IsFiniteSet({}) /\ Cardinality({}) = 0
  BY FS_EmptySet
<1>2. KeysCounted
  BY <1>1 DEF Init, KeysCounted
<1>3. \A u \in Users : ~HoldsFirst(u)
  BY DEF Init, HoldsFirst, Idle
<1> QED
  BY <1>2, <1>3 DEF KeyInv, Init, FirstUnused, FirstDistinct

\* The commands that neither encrypt nor load a session to send.
LEMMA KeysOfJobs ==
    ASSUME Shape, KeyInv, NEW u \in Users,
           \/ relay_stores(u) \/ relay_ok(u) \/ relay_fails(u) \/ p2p_done(u)
           \/ \E command \in BatchStates : fetch(u, command)
           \/ read_next(u) \/ read_done(u) \/ purge(u)
           \/ kill_command(u) \/ kill_listener(u)
           \/ \E p \in Users : add_contact(u, p)
    PROVE  KeyInv'
<1>1. UNCHANGED <<keys, encrypted, secrets>> /\ secrets \in Nat
  BY DEF relay_stores, relay_ok, relay_fails, p2p_done, fetch, read_next, read_done, purge,
         kill_command, kill_listener, add_contact, Shape
<1>2. ASSUME UNCHANGED job
      PROVE  NoneLoaded
  BY <1>2 DEF NoneLoaded
<1>3. CASE relay_stores(u)
  <2> DEFINE j == [job[u] EXCEPT !.state = "stored"]
  <2>1. job' = [job EXCEPT ![u] = j]
    BY <1>3 DEF relay_stores, Shape, JobsShaped
  <2>2. IsRelaying(u, job[u])
    BY <1>3 DEF relay_stores, Shape, JobsShaped, IsJob
  <2>3. j.state # "loaded"
    BY <2>2 DEF IsRelaying
  <2> HIDE DEF j
  <2>4. NoneLoaded
    BY <2>1, <2>3, NotLoaded DEF Shape
  <2> QED
    BY <1>1, <2>4, KeysKept
<1>4. CASE relay_ok(u) \/ relay_fails(u) \/ p2p_done(u)
  <2>1. job' = [job EXCEPT ![u] = After(job[u].rest)] /\ IsRest(u, job[u].rest)
    BY <1>4, RestOf DEF relay_ok, relay_fails, p2p_done
  <2>2. NoneLoaded
    BY <2>1, AfterNotLoaded, NotLoaded DEF Shape
  <2> QED
    BY <1>1, <2>2, KeysKept
<1>5. CASE \E command \in BatchStates : fetch(u, command)
  <2>1. \E j : job' = [job EXCEPT ![u] = j] /\ j.state # "loaded"
    <3>1. PICK command \in BatchStates, up \in SUBSET Relays : job' = [job EXCEPT ![u] =
             [state |-> command, batch |-> relay_fetch_all(u, up),
              todo |-> relay_fetch_all(u, up), seen |-> {}, got |-> FALSE]]
      BY <1>5 DEF fetch
    <3> DEFINE j == [state |-> command, batch |-> relay_fetch_all(u, up),
                     todo |-> relay_fetch_all(u, up), seen |-> {}, got |-> FALSE]
    <3>2. j.state # "loaded" /\ job' = [job EXCEPT ![u] = j]
      BY <3>1 DEF BatchStates
    <3> HIDE DEF j
    <3> QED
      BY <3>2
  <2>2. NoneLoaded
    BY <2>1, NotLoaded DEF Shape
  <2> QED
    BY <1>1, <2>2, KeysKept
<1>6. CASE read_next(u)
  <2>1. IsBatch(u, job[u]) /\ job[u].todo # <<>>
    BY <1>6 DEF read_next, Shape, JobsShaped, IsJob, BatchStates
  <2> DEFINE m    == Head(job[u].todo)
             next == [job[u] EXCEPT !.todo = Tail(@)]
             new  == m.text \notin job[u].seen
             heard == [state |-> "echo", peer |-> m.from, text |-> m.text,
                       rest |-> [next EXCEPT !.seen = @ \cup {m.text}]]
             shown == [next EXCEPT !.seen = @ \cup {m.text},
                                   !.got = @ \/ (new /\ contact[u][m.from] # "none")]
  <2>2. \E j \in {next, heard, shown} : job' = [job EXCEPT ![u] = j]
    BY <1>6 DEF read_next
  <2>3. IsBatch(u, next) /\ m.text \in Texts
    BY <2>1, NextLetter
  <2>4. IsBatch(u, shown)
    <3>1. (new /\ contact[u][m.from] # "none") \in BOOLEAN
      OBVIOUS
    <3> HIDE DEF next, m, new
    <3> QED
      BY <2>3, <3>1, BatchNotes
  <2>5. heard.state # "loaded"
    OBVIOUS
  <2> HIDE DEF next, heard, shown
  <2>6. \A j \in {next, heard, shown} : j.state # "loaded"
    BY <2>3, <2>4, <2>5 DEF IsBatch, BatchStates
  <2>7. NoneLoaded
    BY <2>2, <2>6, NotLoaded DEF Shape
  <2> QED
    BY <1>1, <2>7, KeysKept
<1>7. CASE read_done(u) \/ kill_command(u)
  <2>1. job' = [job EXCEPT ![u] = Idle]
    BY <1>7 DEF read_done, kill_command
  <2>2. NoneLoaded
    <3>1. Idle.state # "loaded"
      BY DEF Idle
    <3> QED
      BY <2>1, <3>1, NotLoaded DEF Shape
  <2> QED
    BY <1>1, <2>2, KeysKept
<1>8. CASE purge(u) \/ kill_listener(u) \/ \E p \in Users : add_contact(u, p)
  <2>1. UNCHANGED job
    BY <1>8 DEF purge, kill_listener, add_contact
  <2> QED
    BY <1>1, <1>2, <2>1, KeysKept
<1> QED
  BY <1>3, <1>4, <1>5, <1>6, <1>7, <1>8

\* The commands that may start to send.
LEMMA KeysOfSends ==
    ASSUME Shape, KeyInv, NEW u \in Users,
           \/ p2p_fails(u) \/ echo(u)
           \/ \E p \in Users, text \in Texts : send(u, p, text)
    PROVE  KeyInv'
<1>1. ASSUME NEW p, NEW text, NEW rest, StartP2P(u, p, text, rest),
             UNCHANGED <<secrets, keys, encrypted>>
      PROVE  KeyInv'
  <2>1. PICK n \in 1..MaxConns : job' = [job EXCEPT ![u] =
           [state |-> "hello", peer |-> p, text |-> text, conn |-> n, rest |-> rest]]
    BY <1>1 DEF StartP2P
  <2> DEFINE j == [state |-> "hello", peer |-> p, text |-> text, conn |-> n, rest |-> rest]
  <2>2. NoneLoaded
    <3>1. j.state # "loaded" /\ job' = [job EXCEPT ![u] = j]
      BY <2>1
    <3> HIDE DEF j
    <3> QED
      BY <3>1, NotLoaded DEF Shape
  <2> QED
    BY <1>1, <2>2, KeysKept DEF Shape
<1>2. CASE p2p_fails(u)
  <2>1. CASE StartRelay(u, job[u].peer, job[u].text, job[u].rest)
    BY <2>1, StartRelayKeys
  <2>2. CASE job' = [job EXCEPT ![u] = Idle] /\ UNCHANGED <<secrets, keys, encrypted>>
    <3>1. NoneLoaded
      <4>1. Idle.state # "loaded"
        BY DEF Idle
      <4> QED
        BY <2>2, <4>1, NotLoaded DEF Shape
    <3> QED
      BY <2>2, <3>1, KeysKept DEF Shape
  <2> QED
    BY <1>2, <2>1, <2>2 DEF p2p_fails
<1>3. CASE echo(u)
  <2>1. CASE StartRelay(u, job[u].peer, job[u].text, job[u].rest)
    BY <2>1, StartRelayKeys
  <2>2. CASE /\ job' = [job EXCEPT ![u] = job[u].rest]
             /\ UNCHANGED <<secrets, keys, encrypted>>
    <3>1. IsBatch(u, job[u].rest)
      BY <1>3 DEF echo, Shape, JobsShaped, IsJob
    <3>2. NoneLoaded
      BY <2>2, <3>1, NotLoaded DEF Shape, IsBatch, BatchStates
    <3> QED
      BY <2>2, <3>2, KeysKept DEF Shape
  <2> QED
    BY <1>1, <1>3, <2>1, <2>2 DEF echo
<1>4. ASSUME NEW p \in Users, NEW text \in Texts, send(u, p, text)
      PROVE  KeyInv'
  <2>1. CASE StartRelay(u, p, text, NoBatch)
    BY <2>1, StartRelayKeys
  <2> QED
    BY <1>1, <1>4, <2>1 DEF send
<1> QED
  BY <1>2, <1>3, <1>4

LEMMA KeysOfHandlers ==
    ASSUME Shape, KeyInv, NEW c \in conns,
           \/ \E sealed \in BOOLEAN : handle_hello(c, sealed)
           \/ load_to_receive(c) \/ receive(c)
    PROVE  KeyInv'
<1>1. UNCHANGED <<job, keys, encrypted>>
  BY DEF handle_hello, load_to_receive, receive
<1>2. UNCHANGED secrets \/ secrets' = Fresh
  BY DEF handle_hello, load_to_receive, receive
<1>3. secrets' \in Nat /\ secrets <= secrets'
  BY <1>2 DEF Shape, Fresh
<1>4. NoneLoaded
  BY <1>1 DEF NoneLoaded
<1> QED
  BY <1>1, <1>3, <1>4, KeysKept

LEMMA KeyInvNext == Shape /\ KeyInv /\ [Next]_vars => KeyInv'
<1> SUFFICES ASSUME Shape, KeyInv, [Next]_vars PROVE KeyInv'
  OBVIOUS
<1>1. CASE UNCHANGED vars
  <2>1. NoneLoaded /\ UNCHANGED <<keys, encrypted, secrets>> /\ secrets \in Nat
    BY <1>1 DEF vars, NoneLoaded, Shape
  <2> QED
    BY <2>1, KeysKept
<1>2. ASSUME NEW u \in Users, load_to_send(u) \/ send_p2p(u)
      PROVE  KeyInv'
  BY <1>2, KeysLoadToSend, KeysSendP2P
<1> QED
  BY <1>1, <1>2, KeysOfJobs, KeysOfSends, KeysOfHandlers DEF Next, BatchStates

\* No message key ever encrypts two messages, although a direct send saves the
\* session as it was before the encryption and any number of commands and
\* handlers load and save sessions at the same time.
THEOREM KeysNeverReused == Spec => []NoKeyReuse
<1>1. KeyInv => NoKeyReuse
  BY DEF KeyInv, KeysCounted, NoKeyReuse
<1>2. Spec => []KeyInv
  BY KeyInvInit, KeyInvNext, ShapeAlways, PTL DEF Spec
<1> QED
  BY <1>1, <1>2, PTL

-----------------------------------------------------------------------------
(* Related sessions.  Every secret has an origin: the command that made it *)
(* for a message to the relay, or for a direct connection.  The origin     *)
(* fixes both chains of every session that comes from the secret, whoever  *)
(* holds it: a session by the relay is saved one step on, at both ends; a  *)
(* direct one is saved as it was made, at both ends.                       *)

Origins == [1..MaxSecrets -> [kind : {"relay", "direct"}, by : Users \cup {0}]]

\* The chain u sends on in a session of the secret ss.
SendOf(o, ss, u) ==
    IF o[ss].by # u THEN Chain(ss, 2)
    ELSE IF o[ss].kind = "relay" THEN Step(Chain(ss, 1), Plain) ELSE Chain(ss, 1)

\* A session u has with p, of one of the first n secrets.
IsLinked(o, n, u, p, s) ==
    /\ s.root \in 1..n /\ o[s.root].by \in {u, p}
    /\ s.send = SendOf(o, s.root, u) /\ s.recv = SendOf(o, s.root, p)
    /\ Seq1 \notin DOMAIN s.skipped

\* The messages for u whose secrets have the origin the message shows.
Known(o, n, u) ==
    {m \in LettersTo(u) : m.from # u => /\ m.kct \in 1..n
                                        /\ o[m.kct] = [kind |-> "relay", by |-> m.from]}

RestLinked(o, n, u, r) == r = NoBatch \/ r.todo \in Seq(Known(o, n, u))

JobLinked(o, n, u, j) ==
    /\ j.state \in BatchStates => j.todo \in Seq(Known(o, n, u))
    /\ j.state \in {"relay", "stored", "hello", "loaded", "sent", "failed", "echo"} =>
          RestLinked(o, n, u, j.rest)
    /\ j.state \in {"relay", "stored"} =>
          /\ j.msg \in Known(o, n, j.msg.to)
          /\ j.msg.to # u => IsLinked(o, n, u, j.msg.to, j.sess)
    /\ j.state = "loaded" /\ j.peer # u =>
          /\ IsLinked(o, n, u, j.peer, j.sess)
          /\ j.first => o[j.sess.root] = [kind |-> "direct", by |-> u]

\* The message of a connection is encrypted on the chain its sender sends on.
ConnLinked(o, n, c) ==
    /\ c.state \in {"message", "loaded"} /\ c.from # c.to =>
          /\ c.key.chain.root \in 1..n
          /\ c.key = KeyOf(SendOf(o, c.key.chain.root, c.from), c.key.mix)
          /\ c.first => o[c.key.chain.root] = [kind |-> "direct", by |-> c.from]
          /\ ~c.first => c.key.mix # Plain
    /\ c.state = "loaded" /\ c.from # c.to => IsLinked(o, n, c.to, c.from, c.sess)

SessionsLinked(o, n) ==
    \A u, p \in Users : u # p /\ session[u][p] # NoSession => IsLinked(o, n, u, p, session[u][p])
MailLinked(o, n) == \A u \in Users, r \in Relays : mailbox[u][r] \in Seq(Known(o, n, u))
JobsLinked(o, n) == \A u \in Users : JobLinked(o, n, u, job[u])
ConnsLinked(o, n) == \A c \in conns : ConnLinked(o, n, c)

Linked(o, n) == SessionsLinked(o, n) /\ MailLinked(o, n) /\ JobsLinked(o, n) /\ ConnsLinked(o, n)

\* The connection a command uses leads to the peer it sends to.
Joined ==
    \A c \in conns, u \in Users :
        c.from = u /\ job[u].state \in {"hello", "loaded"} /\ c.n = job[u].conn
            => c.to = job[u].peer

LinkInv ==
    /\ secrets <= MaxSecrets
    /\ \E o \in Origins : Linked(o, secrets)
    /\ Joined

\* More secrets, with the origins of the first n as they were.
Extends(o, n, o2, n2) == n <= n2 /\ \A i \in 1..n : o2[i] = o[i]

LEMMA LinkedGrows ==
    ASSUME NEW o, NEW n \in Nat, NEW o2, NEW n2 \in Nat, Extends(o, n, o2, n2), Linked(o, n)
    PROVE  Linked(o2, n2)
<1>1. \A i \in 1..n : i \in 1..n2 /\ o2[i] = o[i]
  BY DEF Extends
<1>2. \A i \in 1..n : \A u : SendOf(o2, i, u) = SendOf(o, i, u)
  BY <1>1 DEF SendOf
<1>3. ASSUME NEW u, NEW p, NEW s, IsLinked(o, n, u, p, s)
      PROVE  IsLinked(o2, n2, u, p, s)
  BY <1>1, <1>2, <1>3 DEF IsLinked
<1>4. \A u : Known(o, n, u) \subseteq Known(o2, n2, u)
  BY <1>1 DEF Known
<1>5. \A u : Seq(Known(o, n, u)) \subseteq Seq(Known(o2, n2, u))
  <2> SUFFICES ASSUME NEW u, NEW q \in Seq(Known(o, n, u))
               PROVE  q \in Seq(Known(o2, n2, u))
    OBVIOUS
  <2> QED
    BY <1>4
<1>6. SessionsLinked(o2, n2)
  BY <1>3 DEF Linked, SessionsLinked
<1>7. MailLinked(o2, n2)
  BY <1>5 DEF Linked, MailLinked
<1>8. JobsLinked(o2, n2)
  <2> SUFFICES ASSUME NEW u \in Users PROVE JobLinked(o2, n2, u, job[u])
    BY DEF JobsLinked
  <2>1. JobLinked(o, n, u, job[u])
    BY DEF Linked, JobsLinked
  <2>2. ASSUME NEW r, RestLinked(o, n, u, r)
        PROVE  RestLinked(o2, n2, u, r)
    BY <1>5, <2>2 DEF RestLinked
  <2>3. ASSUME IsLinked(o, n, u, job[u].peer, job[u].sess)
        PROVE  o2[job[u].sess.root] = o[job[u].sess.root]
    BY <1>1, <2>3 DEF IsLinked
  <2>4. job[u].state \in BatchStates => job[u].todo \in Seq(Known(o2, n2, u))
    BY <1>5, <2>1 DEF JobLinked
  <2>5. job[u].state \in {"relay", "stored", "hello", "loaded", "sent", "failed", "echo"} =>
           RestLinked(o2, n2, u, job[u].rest)
    BY <2>1, <2>2 DEF JobLinked
  <2>6. job[u].state \in {"relay", "stored"} =>
          /\ job[u].msg \in Known(o2, n2, job[u].msg.to)
          /\ job[u].msg.to # u => IsLinked(o2, n2, u, job[u].msg.to, job[u].sess)
    BY <1>3, <1>4, <2>1 DEF JobLinked
  <2>7. job[u].state = "loaded" /\ job[u].peer # u =>
          /\ IsLinked(o2, n2, u, job[u].peer, job[u].sess)
          /\ job[u].first => o2[job[u].sess.root] = [kind |-> "direct", by |-> u]
    BY <1>3, <2>1, <2>3 DEF JobLinked
  <2> QED
    BY <2>4, <2>5, <2>6, <2>7 DEF JobLinked
<1>9. ConnsLinked(o2, n2)
  <2> SUFFICES ASSUME NEW c \in conns PROVE ConnLinked(o2, n2, c)
    BY DEF ConnsLinked
  <2>1. ConnLinked(o, n, c)
    BY DEF Linked, ConnsLinked
  <2>2. c.key.chain.root \in 1..n =>
           /\ c.key.chain.root \in 1..n2
           /\ o2[c.key.chain.root] = o[c.key.chain.root]
           /\ SendOf(o2, c.key.chain.root, c.from) = SendOf(o, c.key.chain.root, c.from)
    BY <1>1, <1>2
  <2>3. IsLinked(o, n, c.to, c.from, c.sess) => IsLinked(o2, n2, c.to, c.from, c.sess)
    BY <1>3
  <2> QED
    BY <2>1, <2>2, <2>3, Zenon DEF ConnLinked
<1> QED
  BY <1>6, <1>7, <1>8, <1>9 DEF Linked

\* The origin of the next secret is still free.
LEMMA FreshOrigin ==
    ASSUME secrets \in Nat, Fresh <= MaxSecrets, NEW o \in Origins, Linked(o, secrets),
           NEW x \in [kind : {"relay", "direct"}, by : Users \cup {0}]
    PROVE  \E o2 \in Origins : o2[Fresh] = x /\ Fresh \in 1..Fresh /\ Linked(o2, Fresh)
<1> DEFINE o2 == [o EXCEPT ![Fresh] = x]
<1>1. Fresh \in Nat /\ Fresh \in 1..MaxSecrets /\ Fresh \in 1..Fresh /\ secrets <= Fresh
  BY ClientAssumption DEF Fresh
<1>2. o2 \in Origins /\ o2[Fresh] = x /\ \A i \in 1..secrets : o2[i] = o[i]
  BY <1>1, ClientAssumption DEF Origins, Fresh
<1> HIDE DEF o2
<1>3. Extends(o, secrets, o2, Fresh)
  BY <1>1, <1>2 DEF Extends
<1>4. Linked(o2, Fresh)
  BY <1>1, <1>3, LinkedGrows
<1> QED
  BY <1>1, <1>2, <1>4

-----------------------------------------------------------------------------
(* Sessions stay related, action by action, for origins o of n secrets.    *)

LEMMA LinkedUnchanged ==
    ASSUME NEW o, NEW n, Linked(o, n)
    PROVE  /\ UNCHANGED session => SessionsLinked(o, n)'
           /\ UNCHANGED mailbox => MailLinked(o, n)'
           /\ UNCHANGED job => JobsLinked(o, n)'
           /\ UNCHANGED conns => ConnsLinked(o, n)'
<1>1. UNCHANGED session => SessionsLinked(o, n)'
  BY DEF Linked, SessionsLinked
<1>2. UNCHANGED mailbox => MailLinked(o, n)'
  BY DEF Linked, MailLinked
<1>3. UNCHANGED job => JobsLinked(o, n)'
  BY DEF Linked, JobsLinked
<1>4. UNCHANGED conns => ConnsLinked(o, n)'
  BY DEF Linked, ConnsLinked
<1> QED
  BY <1>1, <1>2, <1>3, <1>4

LEMMA JobLinkStep ==
    ASSUME JobsShaped, NEW o, NEW n, JobsLinked(o, n), NEW u \in Users, NEW j,
           job' = [job EXCEPT ![u] = j], JobLinked(o, n, u, j)
    PROVE  JobsLinked(o, n)'
<1>1. \A v \in Users : job'[v] = IF v = u THEN j ELSE job[v]
  BY DEF JobsShaped
<1> QED
  BY <1>1 DEF JobsLinked

LEMMA SaveLinked ==
    ASSUME SessionsShaped, NEW o, NEW n, SessionsLinked(o, n), NEW u \in Users, NEW p \in Users,
           NEW s, session' = [session EXCEPT ![u][p] = s],
           u # p /\ s # NoSession => IsLinked(o, n, u, p, s)
    PROVE  SessionsLinked(o, n)'
<1>1. \A v \in Users, q \in Users :
         session'[v][q] = IF v = u /\ q = p THEN s ELSE session[v][q]
  <2>1. session' = WithEntry(session, u, p, s)
    BY DEF WithEntry
  <2> QED
    BY ONLY <2>1, SessionsShaped, u \in Users, ExceptTwo DEF SessionsShaped
<1> QED
  BY <1>1 DEF SessionsLinked

LEMMA AfterLinked ==
    ASSUME NEW o, NEW n, NEW u, NEW rest, IsRest(u, rest), RestLinked(o, n, u, rest)
    PROVE  JobLinked(o, n, u, After(rest))
<1>1. CASE rest = NoBatch
  BY <1>1 DEF After, JobLinked, Idle, BatchStates
<1>2. CASE rest # NoBatch
  <2>1. After(rest) = rest /\ rest.state \in BatchStates /\ rest.todo \in Seq(Known(o, n, u))
    BY <1>2 DEF After, IsRest, IsBatch, RestLinked
  <2> QED
    BY <2>1 DEF JobLinked, BatchStates
<1> QED
  BY <1>1, <1>2

\* A step after which nobody waits on a connection it did not wait on before.
NoneJoins == \A v \in Users : job'[v].state \in {"hello", "loaded"} => job'[v] = job[v]

\* A step that makes no connection.
NoneConnects == \A c \in conns' : \E d \in conns : c.n = d.n /\ c.from = d.from /\ c.to = d.to

LEMMA NotJoining ==
    ASSUME JobsShaped, NEW u \in Users, NEW j, job' = [job EXCEPT ![u] = j],
           j.state \notin {"hello", "loaded"}
    PROVE  NoneJoins
<1>1. \A v \in Users : job'[v] = IF v = u THEN j ELSE job[v]
  BY DEF JobsShaped
<1> QED
  BY <1>1 DEF NoneJoins

LEMMA AfterNotJoining ==
    ASSUME JobsShaped, NEW u \in Users, NEW rest, IsRest(u, rest), job' = [job EXCEPT ![u] = After(rest)]
    PROVE  NoneJoins
<1>1. After(rest) = Idle \/ IsBatch(u, After(rest))
  BY AfterIsJob
<1>2. After(rest).state \notin {"hello", "loaded"}
  BY <1>1 DEF Idle, IsBatch, BatchStates
<1> QED
  BY <1>2, NotJoining

LEMMA JoinedKept ==
    ASSUME Joined, NoneJoins, NoneConnects
    PROVE  Joined'
<1> SUFFICES ASSUME NEW c \in conns', NEW u \in Users, c.from = u,
                    job'[u].state \in {"hello", "loaded"}, c.n = job'[u].conn
             PROVE  c.to = job'[u].peer
  BY DEF Joined
<1>1. job'[u] = job[u]
  BY DEF NoneJoins
<1>2. PICK d \in conns : c.n = d.n /\ c.from = d.from /\ c.to = d.to
  BY DEF NoneConnects
<1> QED
  BY <1>1, <1>2 DEF Joined

LEMMA SameConns == ASSUME conns' \subseteq conns PROVE NoneConnects
BY DEF NoneConnects

\* What send_via_relay saves when the relay has answered.
LEMMA RelaySession ==
    ASSUME NEW k
    PROVE  LET s == EncryptFirst(NewSession(k, TRUE, FALSE)).session
           IN  /\ s.root = k /\ s.send = Step(Chain(k, 1), Plain) /\ s.recv = Chain(k, 2)
               /\ s.skipped = <<>>
BY DEF EncryptFirst, AfterSend, NewSession

LEMMA StartRelayLinks ==
    ASSUME Shape, NEW o, NEW n, Linked(o, n), Joined, NEW u \in Users, NEW p \in Users,
           NEW text \in Texts, NEW rest, IsRest(u, rest), RestLinked(o, n, u, rest),
           StartRelay(u, p, text, rest),
           Fresh \in 1..n, o[Fresh] = [kind |-> "relay", by |-> u]
    PROVE  JobsLinked(o, n)' /\ NoneJoins
<1> DEFINE e   == EncryptFirst(NewSession(Fresh, TRUE, p = u))
           msg == [from |-> u, to |-> p, text |-> text, key |-> e.key,
                   kct |-> IF p = u THEN Plain ELSE Fresh]
           j   == [state |-> "relay", msg |-> msg, sess |-> e.session, rest |-> rest]
<1>1. job' = [job EXCEPT ![u] = j]
  BY DEF StartRelay
<1>2. j.state = "relay" /\ j.msg.to = p /\ j.msg.from = u /\ j.rest = rest /\ j.sess = e.session
  OBVIOUS
<1>3. p # u => j.msg.kct = Fresh
  OBVIOUS
<1> HIDE DEF j, msg, e
<1>4. j.msg \in LettersTo(p)
  <2>1. JobsShaped' /\ job'[u] = j
    BY <1>1, StartRelayShape DEF Shape, JobsShaped
  <2> QED
    BY <1>2, <2>1 DEF JobsShaped, IsJob, IsRelaying
<1>5. j.msg \in Known(o, n, p)
  BY <1>2, <1>3, <1>4 DEF Known
<1>6. p # u => IsLinked(o, n, u, p, j.sess)
  <2> SUFFICES ASSUME p # u PROVE IsLinked(o, n, u, p, j.sess)
    OBVIOUS
  <2>1. e = EncryptFirst(NewSession(Fresh, TRUE, FALSE))
    BY DEF e
  <2>2. /\ j.sess.root = Fresh /\ j.sess.send = Step(Chain(Fresh, 1), Plain)
        /\ j.sess.recv = Chain(Fresh, 2) /\ j.sess.skipped = <<>>
    BY <1>2, <2>1, RelaySession
  <2>3. SendOf(o, Fresh, u) = Step(Chain(Fresh, 1), Plain) /\ SendOf(o, Fresh, p) = Chain(Fresh, 2)
    BY DEF SendOf
  <2> QED
    BY <2>2, <2>3 DEF IsLinked
<1>7. JobLinked(o, n, u, j)
  BY <1>2, <1>5, <1>6 DEF JobLinked, BatchStates
<1>8. JobsLinked(o, n)'
  BY <1>1, <1>7, JobLinkStep DEF Shape, Linked
<1>9. NoneJoins
  BY <1>1, <1>2, NotJoining DEF Shape
<1> QED
  BY <1>8, <1>9

LEMMA StartP2PLinks ==
    ASSUME Shape, NEW o, NEW n, Linked(o, n), Joined, NEW u \in Users, NEW p, NEW text, NEW rest,
           RestLinked(o, n, u, rest), StartP2P(u, p, text, rest)
    PROVE  JobsLinked(o, n)' /\ ConnsLinked(o, n)' /\ Joined'
<1>1. PICK m \in 1..MaxConns :
         /\ {c.n : c \in conns} \cap (1..m) = 1..(m - 1)
         /\ conns' = conns \cup {[n |-> m, from |-> u, to |-> p, state |-> "hello"]}
         /\ job' = [job EXCEPT ![u] = [state |-> "hello", peer |-> p, text |-> text,
                                       conn |-> m, rest |-> rest]]
  BY DEF StartP2P
<1> DEFINE j == [state |-> "hello", peer |-> p, text |-> text, conn |-> m, rest |-> rest]
           d == [n |-> m, from |-> u, to |-> p, state |-> "hello"]
<1>2. j.state = "hello" /\ j.peer = p /\ j.conn = m /\ j.rest = rest
  OBVIOUS
<1>3. d.state = "hello" /\ d.from = u /\ d.to = p /\ d.n = m
  OBVIOUS
<1>4. job' = [job EXCEPT ![u] = j] /\ conns' = conns \cup {d}
  BY <1>1
<1>5. \A c \in conns : c.n # m
  <2>1. m \in 1..m /\ m \notin 1..(m - 1)
    BY ClientAssumption
  <2>2. m \notin {c.n : c \in conns}
    BY <1>1, <2>1
  <2> QED
    BY <2>2
<1> HIDE DEF j, d
<1>6. JobLinked(o, n, u, j)
  BY <1>2 DEF JobLinked, BatchStates
<1>7. JobsLinked(o, n)'
  BY <1>4, <1>6, JobLinkStep DEF Shape, Linked
<1>8. ConnsLinked(o, n)'
  BY <1>3, <1>4 DEF Linked, ConnsLinked, ConnLinked
<1>9. Joined'
  <2>1. \A v \in Users : job'[v] = IF v = u THEN j ELSE job[v]
    BY <1>4 DEF Shape, JobsShaped
  <2> QED
    BY <1>2, <1>3, <1>4, <1>5, <2>1 DEF Joined
<1> QED
  BY <1>7, <1>8, <1>9

\* The rest of a job, and the relays' copies of its message.
LEMMA RestLinkedOf ==
    ASSUME NEW o, NEW n, Linked(o, n), NEW u \in Users,
           job[u].state \in {"relay", "stored", "hello", "loaded", "sent", "failed", "echo"}
    PROVE  RestLinked(o, n, u, job[u].rest)
BY DEF Linked, JobsLinked, JobLinked

LEMMA LinksRelayStores ==
    ASSUME Shape, NEW o, NEW n, Linked(o, n), Joined, NEW u \in Users, relay_stores(u)
    PROVE  Linked(o, n)' /\ Joined'
<1> DEFINE j == [job[u] EXCEPT !.state = "stored"]
           m == job[u].msg
<1>1. IsRelaying(u, job[u]) /\ job[u].state = "relay"
  BY DEF relay_stores, Shape, JobsShaped, IsJob
<1>2. JobLinked(o, n, u, job[u])
  BY DEF Linked, JobsLinked
<1>3. job' = [job EXCEPT ![u] = j]
  BY DEF relay_stores, Shape, JobsShaped
<1>4. j.state = "stored" /\ j.msg = m /\ j.sess = job[u].sess /\ j.rest = job[u].rest
  BY <1>1 DEF IsRelaying
<1>5. m \in Known(o, n, m.to) /\ m.to \in Users
  BY <1>1, <1>2 DEF JobLinked, IsRelaying
<1> HIDE DEF j, m
<1>6. JobLinked(o, n, u, j)
  BY <1>1, <1>2, <1>4 DEF JobLinked, BatchStates, m
<1>7. JobsLinked(o, n)'
  BY <1>3, <1>6, JobLinkStep DEF Shape, Linked
<1>8. MailLinked(o, n)'
  <2>1. PICK r \in Relays : mailbox' = [mailbox EXCEPT ![m.to][r] = Append(@, m)]
    BY DEF relay_stores, m
  <2>2. Append(mailbox[m.to][r], m) \in Seq(Known(o, n, m.to))
    BY <1>5 DEF Linked, MailLinked
  <2>3. mailbox' = WithEntry(mailbox, m.to, r, Append(mailbox[m.to][r], m))
    BY <2>1 DEF WithEntry
  <2>4. \A v \in Users, s \in Relays : mailbox'[v][s] =
           IF v = m.to /\ s = r THEN Append(mailbox[m.to][r], m) ELSE mailbox[v][s]
    <3>1. m.to \in Users /\ MailShaped
      BY <1>5 DEF Shape
    <3> QED
      BY ONLY <2>3, <3>1, ExceptTwo DEF MailShaped
  <2> QED
    BY <2>2, <2>4 DEF Linked, MailLinked
<1>9. Joined'
  <2>1. NoneJoins
    BY <1>3, <1>4, NotJoining DEF Shape
  <2>2. NoneConnects
    BY SameConns DEF relay_stores
  <2> QED
    BY <2>1, <2>2, JoinedKept
<1> QED
  BY <1>7, <1>8, <1>9, LinkedUnchanged DEF relay_stores, Linked

LEMMA LinksRelayAnswers ==
    ASSUME Shape, NEW o, NEW n, Linked(o, n), Joined, NEW u \in Users,
           relay_ok(u) \/ relay_fails(u) \/ p2p_done(u)
    PROVE  Linked(o, n)' /\ Joined'
<1>1. /\ job' = [job EXCEPT ![u] = After(job[u].rest)]
      /\ IsRest(u, job[u].rest) /\ RestLinked(o, n, u, job[u].rest)
  BY RestOf, RestLinkedOf DEF relay_ok, relay_fails, p2p_done
<1>2. JobsLinked(o, n)'
  BY <1>1, AfterLinked, JobLinkStep DEF Shape, Linked
<1>3. NoneJoins
  BY <1>1, AfterNotJoining DEF Shape
<1>4. UNCHANGED <<conns, mailbox>>
  BY DEF relay_ok, relay_fails, p2p_done
<1>5. Joined'
  BY <1>3, <1>4, SameConns, JoinedKept
<1>6. SessionsLinked(o, n)'
  <2>1. CASE relay_ok(u)
    <3>1. IsRelaying(u, job[u]) /\ job[u].state = "stored"
      BY <2>1 DEF relay_ok, Shape, JobsShaped, IsJob
    <3>2. job[u].msg.to \in Users
      BY <3>1 DEF IsRelaying
    <3>3. job[u].msg.to # u => IsLinked(o, n, u, job[u].msg.to, job[u].sess)
      BY <3>1 DEF Linked, JobsLinked, JobLinked
    <3>4. session' = [session EXCEPT ![u][job[u].msg.to] = job[u].sess]
      BY <2>1 DEF relay_ok, SessionToSave
    <3>5. SessionsShaped /\ SessionsLinked(o, n)
      BY DEF Shape, Linked
    <3> QED
      BY ONLY <3>2, <3>3, <3>4, <3>5, u \in Users, SaveLinked
  <2>2. CASE relay_fails(u) \/ p2p_done(u)
    BY <2>2, LinkedUnchanged DEF relay_fails, p2p_done
  <2> QED
    BY <2>1, <2>2
<1> QED
  BY <1>2, <1>4, <1>5, <1>6, LinkedUnchanged DEF Linked

LEMMA LinksHandleHello ==
    ASSUME Shape, NEW o, NEW n, Linked(o, n), Joined, NEW c \in conns,
           NEW sealed \in BOOLEAN, handle_hello(c, sealed)
    PROVE  Linked(o, n)' /\ Joined'
<1> DEFINE d == [c EXCEPT !.state = "acked"]
<1>1. IsConn(c) /\ c.state = "hello"
  BY DEF handle_hello, Shape, ConnsShaped
<1>2. d.state = "acked" /\ d.n = c.n /\ d.from = c.from /\ d.to = c.to
  BY <1>1 DEF IsConn
<1>3. conns' \subseteq conns \cup {d}
  BY DEF handle_hello
<1> HIDE DEF d
<1>4. ConnsLinked(o, n)'
  BY <1>2, <1>3 DEF Linked, ConnsLinked, ConnLinked
<1>5. NoneConnects
  BY <1>2, <1>3 DEF NoneConnects
<1>6. NoneJoins
  BY DEF handle_hello, NoneJoins
<1> QED
  BY <1>4, <1>5, <1>6, JoinedKept, LinkedUnchanged DEF handle_hello, Linked

\* The session is the stored one, or a new one of the secret Fresh.
LEMMA LinksLoadToSend ==
    ASSUME Shape, NEW o, NEW n, Linked(o, n), Joined, NEW u \in Users, load_to_send(u),
           secrets' = Fresh => Fresh \in 1..n /\ o[Fresh] = [kind |-> "direct", by |-> u]
    PROVE  Linked(o, n)' /\ Joined'
<1> DEFINE loaded(s, first) == [state |-> "loaded", peer |-> job[u].peer,
                 text |-> job[u].text, conn |-> job[u].conn, rest |-> job[u].rest,
                 sess |-> s, first |-> first]
           have == session[u][job[u].peer]
<1>1. IsSending(u, job[u]) /\ job[u].state = "hello"
  BY DEF load_to_send, Shape, JobsShaped, IsJob
<1>2. RestLinked(o, n, u, job[u].rest)
  BY <1>1, RestLinkedOf
<1>3. ASSUME NEW s, NEW first \in BOOLEAN,
             job[u].peer # u => /\ IsLinked(o, n, u, job[u].peer, s)
                                /\ first => o[s.root] = [kind |-> "direct", by |-> u],
             job' = [job EXCEPT ![u] = loaded(s, first)]
      PROVE  Linked(o, n)' /\ Joined'
  <2> DEFINE j == loaded(s, first)
  <2>1. /\ j.state = "loaded" /\ j.peer = job[u].peer /\ j.conn = job[u].conn
        /\ j.rest = job[u].rest /\ j.sess = s /\ j.first = first
    OBVIOUS
  <2>2. job' = [job EXCEPT ![u] = j]
    BY <1>3
  <2> HIDE DEF j, loaded
  <2>3. JobLinked(o, n, u, j)
    BY <1>2, <1>3, <2>1 DEF JobLinked, BatchStates
  <2>4. JobsLinked(o, n)'
    BY <2>2, <2>3, JobLinkStep DEF Shape, Linked
  <2>5. \A v \in Users : job'[v] = IF v = u THEN j ELSE job[v]
    BY <2>2 DEF Shape, JobsShaped
  <2>6. Joined'
    BY <1>1, <2>1, <2>5 DEF Joined, load_to_send
  <2> QED
    BY <2>4, <2>6, LinkedUnchanged DEF load_to_send, Linked
<1>4. CASE have # NoSession
  <2>1. job' = [job EXCEPT ![u] = loaded(have, FALSE)]
    BY <1>4 DEF load_to_send
  <2>2. job[u].peer # u => IsLinked(o, n, u, job[u].peer, have)
    BY <1>1, <1>4 DEF Linked, SessionsLinked, IsSending
  <2>3. PICK s : s = have
    OBVIOUS
  <2> HIDE DEF loaded, have
  <2> QED
    BY <1>3, <2>1, <2>2, <2>3
<1>5. CASE have = NoSession
  <2>1. secrets' = Fresh /\ job' = [job EXCEPT ![u] = loaded(NewSession(Fresh, TRUE, FALSE), TRUE)]
    BY <1>5 DEF load_to_send
  <2>2. PICK s : s = NewSession(Fresh, TRUE, FALSE)
    OBVIOUS
  <2>3. s.root = Fresh /\ s.send = Chain(Fresh, 1) /\ s.recv = Chain(Fresh, 2) /\ s.skipped = <<>>
    BY <2>2 DEF NewSession
  <2>4. Fresh \in 1..n /\ o[Fresh] = [kind |-> "direct", by |-> u]
    BY <2>1
  <2>5. job[u].peer # u => IsLinked(o, n, u, job[u].peer, s)
    BY <2>3, <2>4 DEF IsLinked, SendOf
  <2> HIDE DEF loaded, have
  <2> QED
    BY <1>3, <2>1, <2>2, <2>3, <2>4, <2>5
<1> QED
  BY <1>4, <1>5

LEMMA SendOfRoot == ASSUME NEW o, NEW ss, NEW u PROVE SendOf(o, ss, u).root = ss
BY DEF SendOf, Chain, Step

LEMMA LinksSendP2P ==
    ASSUME Shape, NEW o, NEW n, Linked(o, n), Joined, NEW u \in Users, send_p2p(u)
    PROVE  Linked(o, n)' /\ Joined'
<1> DEFINE j == job[u]
           e == IF j.first THEN EncryptFirst(j.sess) ELSE EncryptMessage(j.sess, Fresh)
           st == IF ConnOf(u) # {} THEN "sent" ELSE "failed"
           k == [state |-> st, peer |-> j.peer, text |-> j.text, rest |-> j.rest]
           d(c) == [n |-> c.n, from |-> u, to |-> c.to, state |-> "message",
                    key |-> e.key, first |-> j.first]
<1>1. IsSending(u, j) /\ j.first \in BOOLEAN /\ j.state = "loaded"
  BY DEF send_p2p, Shape, JobsShaped, IsJob
<1>2. /\ session' = [session EXCEPT ![u][j.peer] = j.sess]
      /\ conns' = (conns \ ConnOf(u)) \cup {d(c) : c \in ConnOf(u)}
      /\ job' = [job EXCEPT ![u] = k]
  BY DEF send_p2p
<1>3. k.state \in {"sent", "failed"} /\ k.rest = j.rest
  OBVIOUS
<1>4. \A c : /\ d(c).state = "message" /\ d(c).n = c.n /\ d(c).from = u /\ d(c).to = c.to
             /\ d(c).key = e.key /\ d(c).first = j.first
  OBVIOUS
<1>5. e.key = KeyOf(j.sess.send, IF j.first THEN Plain ELSE Fresh)
  BY DEF EncryptFirst, EncryptMessage
<1>6. RestLinked(o, n, u, j.rest) /\ JobLinked(o, n, u, j)
  BY <1>1, RestLinkedOf DEF Linked, JobsLinked
<1>7. Fresh # Plain
  BY DEF Fresh, Plain, Shape
<1> HIDE DEF j, e, st, k, d
<1>8. JobLinked(o, n, u, k)
  BY <1>3, <1>6 DEF JobLinked, BatchStates
<1>9. JobsLinked(o, n)'
  BY <1>2, <1>8, JobLinkStep DEF Shape, Linked
<1>10. j.peer # u => IsLinked(o, n, u, j.peer, j.sess)
  BY <1>1, <1>6 DEF JobLinked
<1>11. SessionsLinked(o, n)'
  <2>1. SessionsShaped /\ SessionsLinked(o, n) /\ j.peer \in Users
    BY <1>1 DEF Shape, Linked, IsSending
  <2>2. session' = [session EXCEPT ![u][j.peer] = j.sess]
    BY <1>2
  <2> QED
    BY ONLY <1>10, <2>1, <2>2, u \in Users, SaveLinked
<1>12. ConnsLinked(o, n)'
  <2> SUFFICES ASSUME NEW c \in ConnOf(u) PROVE ConnLinked(o, n, d(c))
    BY <1>2 DEF Linked, ConnsLinked
  <2>1. c.to = j.peer
    BY <1>1 DEF ConnOf, Joined, j
  <2>2. SUFFICES ASSUME j.peer # u PROVE ConnLinked(o, n, d(c))
    BY <1>4, <2>1 DEF ConnLinked
  <2>3. IsLinked(o, n, u, j.peer, j.sess)
    BY <1>10, <2>2
  <2>4. e.key.chain = SendOf(o, j.sess.root, u) /\ e.key.mix = (IF j.first THEN Plain ELSE Fresh)
    BY <1>5, <2>3 DEF KeyOf, IsLinked
  <2>5. e.key.chain.root = j.sess.root /\ j.sess.root \in 1..n
    BY <2>3, <2>4, SendOfRoot DEF IsLinked
  <2>6. e.key = KeyOf(SendOf(o, e.key.chain.root, u), e.key.mix)
    <3>1. \A ch, mix : KeyOf(ch, mix) = KeyOf(KeyOf(ch, mix).chain, KeyOf(ch, mix).mix)
      BY DEF KeyOf
    <3>2. e.key = KeyOf(e.key.chain, e.key.mix)
      <4>1. PICK ch, mix : e.key = KeyOf(ch, mix)
        BY <1>5, Zenon
      <4> QED
        BY <3>1, <4>1
    <3> QED
      BY <2>4, <2>5, <3>2, Zenon
  <2>7. j.first => o[e.key.chain.root] = [kind |-> "direct", by |-> u]
    BY <1>1, <1>6, <2>2, <2>5 DEF JobLinked
  <2>8. ~j.first => e.key.mix # Plain
    BY <1>7, <2>4
  <2> QED
    BY <1>4, <2>5, <2>6, <2>7, <2>8 DEF ConnLinked
<1>13. Joined'
  <2>1. NoneJoins
    BY <1>2, <1>3, NotJoining DEF Shape
  <2>2. NoneConnects
    BY <1>2, <1>4 DEF NoneConnects, ConnOf
  <2> QED
    BY <2>1, <2>2, JoinedKept
<1> QED
  BY <1>9, <1>11, <1>12, <1>13, LinkedUnchanged DEF send_p2p, Linked

\* The commands that may start to send, Fresh being the secret of a send by
\* the relay.
LEMMA LinksP2PFails ==
    ASSUME Shape, NEW o, NEW n, Linked(o, n), Joined, NEW u \in Users, p2p_fails(u),
           secrets' = Fresh => Fresh \in 1..n /\ o[Fresh] = [kind |-> "relay", by |-> u]
    PROVE  Linked(o, n)' /\ Joined'
<1>1. IsSending(u, job[u]) /\ RestLinked(o, n, u, job[u].rest)
  BY RestLinkedOf DEF p2p_fails, Shape, JobsShaped, IsJob
<1>2. NoneConnects
  BY SameConns DEF p2p_fails
<1>3. CASE job' = [job EXCEPT ![u] = Idle]
  <2>1. JobLinked(o, n, u, Idle) /\ Idle.state \notin {"hello", "loaded"}
    BY DEF JobLinked, Idle, BatchStates
  <2>2. JobsLinked(o, n)' /\ NoneJoins
    BY <1>3, <2>1, JobLinkStep, NotJoining DEF Shape, Linked
  <2> QED
    BY <1>2, <2>2, JoinedKept, LinkedUnchanged DEF p2p_fails, Linked
<1>4. CASE StartRelay(u, job[u].peer, job[u].text, job[u].rest)
  <2>1. secrets' = Fresh
    BY <1>4 DEF StartRelay
  <2>2. JobsLinked(o, n)' /\ NoneJoins
    BY <1>1, <1>4, <2>1, StartRelayLinks DEF IsSending
  <2> QED
    BY <1>2, <2>2, JoinedKept, LinkedUnchanged DEF p2p_fails, Linked
<1> QED
  BY <1>3, <1>4 DEF p2p_fails

LEMMA LinksSend ==
    ASSUME Shape, NEW o, NEW n, Linked(o, n), Joined, NEW u \in Users, NEW p \in Users,
           NEW text \in Texts, send(u, p, text),
           secrets' = Fresh => Fresh \in 1..n /\ o[Fresh] = [kind |-> "relay", by |-> u]
    PROVE  Linked(o, n)' /\ Joined'
<1>1. IsRest(u, NoBatch) /\ RestLinked(o, n, u, NoBatch)
  BY DEF IsRest, RestLinked
<1>2. CASE StartRelay(u, p, text, NoBatch) /\ UNCHANGED conns
  <2>1. secrets' = Fresh
    BY <1>2 DEF StartRelay
  <2>2. JobsLinked(o, n)' /\ NoneJoins
    BY <1>1, <1>2, <2>1, StartRelayLinks
  <2> QED
    BY <1>2, <2>2, SameConns, JoinedKept, LinkedUnchanged DEF send, Linked
<1>3. CASE StartP2P(u, p, text, NoBatch)
  <2>1. JobsLinked(o, n)' /\ ConnsLinked(o, n)' /\ Joined'
    BY <1>1, <1>3, StartP2PLinks
  <2> QED
    BY <2>1, LinkedUnchanged DEF send, Linked
<1> QED
  BY <1>2, <1>3 DEF send

LEMMA LinksEcho ==
    ASSUME Shape, NEW o, NEW n, Linked(o, n), Joined, NEW u \in Users, echo(u),
           secrets' = Fresh => Fresh \in 1..n /\ o[Fresh] = [kind |-> "relay", by |-> u]
    PROVE  Linked(o, n)' /\ Joined'
<1>1. IsSending(u, job[u]) /\ RestLinked(o, n, u, job[u].rest) /\ IsBatch(u, job[u].rest)
  BY RestLinkedOf DEF echo, Shape, JobsShaped, IsJob
<1>2. SessionsLinked(o, n)'
  <2>1. SessionsShaped /\ SessionsLinked(o, n) /\ job[u].peer \in Users
    BY <1>1 DEF Shape, Linked, IsSending
  <2>2. session' = [session EXCEPT ![u][job[u].peer] = NoSession]
    BY DEF echo
  <2> QED
    BY ONLY <2>1, <2>2, u \in Users, SaveLinked
<1>3. UNCHANGED mailbox
  BY DEF echo
<1>4. CASE StartP2P(u, job[u].peer, job[u].text, job[u].rest)
  <2>1. JobsLinked(o, n)' /\ ConnsLinked(o, n)' /\ Joined'
    BY <1>1, <1>4, StartP2PLinks
  <2> QED
    BY <1>2, <1>3, <2>1, LinkedUnchanged DEF Linked
<1>5. CASE StartRelay(u, job[u].peer, job[u].text, job[u].rest) /\ UNCHANGED conns
  <2>1. secrets' = Fresh
    BY <1>5 DEF StartRelay
  <2>2. JobsLinked(o, n)' /\ NoneJoins
    BY <1>1, <1>5, <2>1, StartRelayLinks DEF IsSending
  <2> QED
    BY <1>2, <1>3, <1>5, <2>2, SameConns, JoinedKept, LinkedUnchanged DEF Linked
<1>6. CASE job' = [job EXCEPT ![u] = job[u].rest] /\ UNCHANGED conns
  <2>1. job[u].rest # NoBatch /\ job[u].rest.state \in BatchStates
    BY <1>1 DEF IsBatch, NoBatch, BatchStates
  <2>2. JobLinked(o, n, u, job[u].rest)
    BY <1>1, <2>1 DEF RestLinked, JobLinked, BatchStates
  <2>3. job[u].rest.state \notin {"hello", "loaded"}
    BY <2>1 DEF BatchStates
  <2>4. JobsLinked(o, n)' /\ NoneJoins
    BY <1>6, <2>2, <2>3, JobLinkStep, NotJoining DEF Shape, Linked
  <2> QED
    BY <1>2, <1>3, <1>6, <2>4, SameConns, JoinedKept, LinkedUnchanged DEF Linked
<1> QED
  BY <1>4, <1>5, <1>6 DEF echo

\* The session is the stored one, one of the message's secret, or one of the
\* secret Fresh, which nobody else will have.
LEMMA LinksLoadToReceive ==
    ASSUME Shape, NEW o, NEW n, Linked(o, n), Joined, NEW c \in conns, load_to_receive(c),
           secrets' = Fresh => Fresh \in 1..n /\ o[Fresh] = [kind |-> "direct", by |-> c.from]
    PROVE  Linked(o, n)' /\ Joined'
<1> DEFINE with(s) == [n |-> c.n, from |-> c.from, to |-> c.to, state |-> "loaded",
                       key |-> c.key, first |-> c.first, sess |-> s]
           have == session[c.to][c.from]
<1>1. c.from \in Users /\ c.to \in Users /\ c.state = "message"
  BY DEF Shape, ConnsShaped, IsConn, load_to_receive
<1>2. ConnLinked(o, n, c)
  BY DEF Linked, ConnsLinked
<1>3. ASSUME NEW s, conns' = (conns \ {c}) \cup {with(s)},
             c.from # c.to => IsLinked(o, n, c.to, c.from, s)
      PROVE  Linked(o, n)' /\ Joined'
  <2>1. /\ with(s).n = c.n /\ with(s).from = c.from /\ with(s).to = c.to
        /\ with(s).state = "loaded" /\ with(s).key = c.key /\ with(s).first = c.first
        /\ with(s).sess = s
    OBVIOUS
  <2> HIDE DEF with
  <2>2. ConnLinked(o, n, with(s))
    BY <1>1, <1>2, <1>3, <2>1, Zenon DEF ConnLinked
  <2>3. ConnsLinked(o, n)'
    BY <1>3, <2>2 DEF Linked, ConnsLinked
  <2>4. NoneConnects
    BY <1>3, <2>1 DEF NoneConnects
  <2>5. NoneJoins
    BY DEF load_to_receive, NoneJoins
  <2> QED
    BY <2>3, <2>4, <2>5, JoinedKept, LinkedUnchanged DEF load_to_receive, Linked
<1>4. \A ss : LET s == NewSession(ss, FALSE, FALSE)
              IN  s.root = ss /\ s.send = Chain(ss, 2) /\ s.recv = Chain(ss, 1) /\ s.skipped = <<>>
  BY DEF NewSession
<1>5. ASSUME NEW ss, ss \in 1..n, o[ss] = [kind |-> "direct", by |-> c.from], c.from # c.to
      PROVE  IsLinked(o, n, c.to, c.from, NewSession(ss, FALSE, FALSE))
  <2>1. SendOf(o, ss, c.to) = Chain(ss, 2) /\ SendOf(o, ss, c.from) = Chain(ss, 1)
    BY <1>5 DEF SendOf
  <2>2. PICK s : s = NewSession(ss, FALSE, FALSE)
    OBVIOUS
  <2>3. s.root = ss /\ s.send = Chain(ss, 2) /\ s.recv = Chain(ss, 1) /\ s.skipped = <<>>
    BY <1>4, <2>2, Zenon
  <2>4. IsLinked(o, n, c.to, c.from, s)
    BY <1>5, <2>1, <2>3 DEF IsLinked
  <2> QED
    BY <2>2, <2>4
<1>6. CASE have # NoSession
  <2>1. conns' = (conns \ {c}) \cup {with(have)}
    BY <1>6 DEF load_to_receive
  <2>2. c.from # c.to => IsLinked(o, n, c.to, c.from, have)
    BY <1>1, <1>6 DEF Linked, SessionsLinked
  <2> HIDE DEF with, have
  <2>3. PICK s : s = have
    OBVIOUS
  <2> QED
    BY <1>3, <2>1, <2>2, <2>3
<1>7. CASE have = NoSession /\ c.first
  <2> DEFINE s0 == NewSession(c.key.chain.root, FALSE, FALSE)
  <2>1. conns' = (conns \ {c}) \cup {with(s0)}
    BY <1>7 DEF load_to_receive
  <2>2. c.from # c.to => IsLinked(o, n, c.to, c.from, s0)
    BY <1>1, <1>2, <1>5, <1>7 DEF ConnLinked
  <2> HIDE DEF with, s0
  <2> QED
    BY <1>3, <2>1, <2>2
<1>8. CASE have = NoSession /\ ~c.first
  <2> DEFINE s0 == NewSession(Fresh, FALSE, FALSE)
  <2>1. secrets' = Fresh /\ conns' = (conns \ {c}) \cup {with(s0)}
    BY <1>8 DEF load_to_receive
  <2>2. c.from # c.to => IsLinked(o, n, c.to, c.from, s0)
    BY <1>5, <2>1
  <2> HIDE DEF with, s0
  <2>3. PICK s : s = s0
    OBVIOUS
  <2> QED
    BY <1>3, <2>1, <2>2, <2>3
<1> QED
  BY <1>6, <1>7, <1>8

LEMMA LinksReceive ==
    ASSUME Shape, NEW o, NEW n, Linked(o, n), Joined, NEW c \in conns, receive(c)
    PROVE  Linked(o, n)' /\ Joined'
<1>1. c.from \in Users /\ c.to \in Users /\ c.state = "loaded"
  BY DEF receive, Shape, ConnsShaped, IsConn
<1>2. c.to # c.from => IsLinked(o, n, c.to, c.from, c.sess)
  BY <1>1 DEF Linked, ConnsLinked, ConnLinked
<1>3. session' = [session EXCEPT ![c.to][c.from] = c.sess]
  BY DEF receive, Received
<1>4. SessionsLinked(o, n)'
  <2>1. SessionsShaped /\ SessionsLinked(o, n)
    BY DEF Shape, Linked
  <2> QED
    BY ONLY <1>1, <1>2, <1>3, <2>1, SaveLinked
<1>5. ConnsLinked(o, n)'
  BY DEF receive, Linked, ConnsLinked
<1>6. NoneJoins /\ NoneConnects
  BY SameConns DEF receive, NoneJoins
<1> QED
  BY <1>4, <1>5, <1>6, JoinedKept, LinkedUnchanged DEF receive, Linked

LEMMA LinksFetch ==
    ASSUME Shape, NEW o, NEW n, Linked(o, n), Joined, NEW u \in Users, NEW command \in BatchStates,
           fetch(u, command)
    PROVE  Linked(o, n)' /\ Joined'
<1>1. PICK up \in SUBSET Relays : job' = [job EXCEPT ![u] =
         [state |-> command, batch |-> relay_fetch_all(u, up), todo |-> relay_fetch_all(u, up),
          seen |-> {}, got |-> FALSE]]
  BY DEF fetch
<1>2. relay_fetch_all(u, up) \in Seq(Known(o, n, u))
  BY FetchedType DEF Linked, MailLinked
<1> DEFINE j == [state |-> command, batch |-> relay_fetch_all(u, up),
                 todo |-> relay_fetch_all(u, up), seen |-> {}, got |-> FALSE]
<1>3. j.state = command /\ j.todo = relay_fetch_all(u, up) /\ job' = [job EXCEPT ![u] = j]
  BY <1>1
<1> HIDE DEF j
<1>4. JobLinked(o, n, u, j) /\ j.state \notin {"hello", "loaded"}
  BY <1>2, <1>3 DEF JobLinked, BatchStates
<1>5. JobsLinked(o, n)' /\ NoneJoins
  BY <1>3, <1>4, JobLinkStep, NotJoining DEF Shape, Linked
<1>6. NoneConnects
  BY SameConns DEF fetch
<1> QED
  BY <1>5, <1>6, JoinedKept, LinkedUnchanged DEF fetch, Linked

\* The session a message of another user leaves.
LEMMA ReadLinks ==
    ASSUME NEW o, NEW n, NEW u \in Users, NEW m \in Known(o, n, u), NEW s \in Decrypted(u, m),
           m.from # u
    PROVE  IsLinked(o, n, u, m.from, s)
<1>1. m \in LettersTo(u) /\ m.kct \in 1..n /\ o[m.kct] = [kind |-> "relay", by |-> m.from]
  BY DEF Known
<1>2. PICK k : k = m.kct
  OBVIOUS
<1>3. /\ k \in Secrets
      /\ s \in DecryptFirst(NewSession(k, FALSE, FALSE), KeyOf(Chain(k, 1), Plain))
  BY <1>1, <1>2, LetterDecrypts
<1>4. /\ s.root = k
      /\ s.send = Chain(k, 2) /\ s.recv = Step(Chain(k, 1), Plain)
      /\ DOMAIN s.skipped \subseteq {0}
  BY <1>3, FirstDecrypts, Zenon
<1>5. SendOf(o, k, u) = Chain(k, 2) /\ SendOf(o, k, m.from) = Step(Chain(k, 1), Plain)
  BY <1>1, <1>2 DEF SendOf
<1>6. Seq1 \notin DOMAIN s.skipped
  BY <1>4 DEF Seq1
<1> QED
  BY <1>1, <1>2, <1>4, <1>5, <1>6 DEF IsLinked

LEMMA LinksReadNext ==
    ASSUME Shape, NEW o, NEW n, Linked(o, n), Joined, NEW u \in Users, read_next(u)
    PROVE  Linked(o, n)' /\ Joined'
<1> DEFINE j     == job[u]
           m     == Head(j.todo)
           after == Decrypted(u, m)
           next  == [j EXCEPT !.todo = Tail(@)]
           new   == m.text \notin j.seen
           rest  == [next EXCEPT !.seen = @ \cup {m.text}]
           heard == [state |-> "echo", peer |-> m.from, text |-> m.text, rest |-> rest]
           shown == [next EXCEPT !.seen = @ \cup {m.text},
                                 !.got = @ \/ (new /\ contact[u][m.from] # "none")]
<1>1. IsBatch(u, j) /\ j.todo # <<>> /\ j.todo \in Seq(Known(o, n, u))
  BY DEF read_next, Shape, JobsShaped, IsJob, BatchStates, Linked, JobsLinked, JobLinked
<1>2. m \in Known(o, n, u) /\ Tail(j.todo) \in Seq(Known(o, n, u))
  BY <1>1
<1>3. m.from \in Users
  BY <1>2 DEF Known, LettersTo, Msg
<1>4. /\ next.state \in BatchStates /\ next.todo = Tail(j.todo)
      /\ rest.state \in BatchStates /\ rest.todo = Tail(j.todo)
      /\ shown.state \in BatchStates /\ shown.todo = Tail(j.todo)
  BY <1>1 DEF IsBatch
<1>5. heard.state = "echo" /\ heard.rest = rest
  OBVIOUS
<1>6. /\ \E k \in {next, heard, shown} : job' = [job EXCEPT ![u] = k]
      /\ UNCHANGED session \/ \E s \in after : session' = [session EXCEPT ![u][m.from] = s]
  BY DEF read_next
<1> HIDE DEF j, m, after, next, rest, heard, shown, new
<1>7. \A k \in {next, heard, shown} : JobLinked(o, n, u, k) /\ k.state \notin {"hello", "loaded"}
  <2>1. \A k \in {next, shown} : JobLinked(o, n, u, k) /\ k.state \notin {"hello", "loaded"}
    BY <1>2, <1>4 DEF JobLinked, BatchStates
  <2>2. JobLinked(o, n, u, heard) /\ heard.state \notin {"hello", "loaded"}
    BY <1>2, <1>4, <1>5 DEF JobLinked, BatchStates, RestLinked
  <2> QED
    BY <2>1, <2>2
<1>8. JobsLinked(o, n)' /\ NoneJoins
  BY <1>6, <1>7, JobLinkStep, NotJoining DEF Shape, Linked
<1>9. SessionsLinked(o, n)'
  <2>1. CASE UNCHANGED session
    BY <2>1, LinkedUnchanged
  <2>2. CASE \E s \in after : session' = [session EXCEPT ![u][m.from] = s]
    <3>1. PICK s \in after : session' = [session EXCEPT ![u][m.from] = s]
      BY <2>2
    <3>2. u # m.from => IsLinked(o, n, u, m.from, s)
      BY <1>2, <3>1, ReadLinks DEF after
    <3>3. SessionsShaped /\ SessionsLinked(o, n)
      BY DEF Shape, Linked
    <3> QED
      BY ONLY <1>3, <3>1, <3>2, <3>3, u \in Users, SaveLinked
  <2> QED
    BY <1>6, <2>1, <2>2
<1>10. UNCHANGED <<mailbox, conns>>
  BY DEF read_next
<1> QED
  BY <1>8, <1>9, <1>10, SameConns, JoinedKept, LinkedUnchanged DEF Linked

LEMMA LeaveLinked ==
    ASSUME Shape, NEW o, NEW n, Linked(o, n), NEW u \in Users, NEW left, RelaysLeave(u, left),
           \A r \in Relays : left[r] \subseteq Seq(LettersTo(u)) \cap Seq(Known(o, n, u))
    PROVE  MailLinked(o, n)'
<1>1. /\ \A r \in Relays : mailbox'[u][r] \in left[r]
      /\ \A v \in Users : v # u => mailbox'[v] = mailbox[v]
  BY LeaveShape
<1> QED
  BY <1>1 DEF Linked, MailLinked

LEMMA LinksBatchEnds ==
    ASSUME Shape, NEW o, NEW n, Linked(o, n), Joined, NEW u \in Users, read_done(u) \/ purge(u)
    PROVE  Linked(o, n)' /\ Joined'
<1> DEFINE both == [r \in Relays |-> Receipted(u, r) \cup relay_purge(u, r)]
           purged == [r \in Relays |-> relay_purge(u, r)]
<1>1. \A r \in Relays :
         /\ Receipted(u, r) \subseteq Seq(LettersTo(u)) /\ relay_purge(u, r) \subseteq Seq(LettersTo(u))
         /\ Receipted(u, r) \subseteq Seq(Known(o, n, u))
         /\ relay_purge(u, r) \subseteq Seq(Known(o, n, u))
  BY LeftType DEF Shape, MailShaped, Linked, MailLinked
<1>2. \A r \in Relays : /\ both[r] \subseteq Seq(LettersTo(u)) \cap Seq(Known(o, n, u))
                        /\ purged[r] \subseteq Seq(LettersTo(u)) \cap Seq(Known(o, n, u))
  BY <1>1
<1>3. UNCHANGED mailbox \/ RelaysLeave(u, both) \/ RelaysLeave(u, purged)
  BY DoneLeaves DEF purge
<1> HIDE DEF both, purged
<1>4. MailLinked(o, n)'
  BY <1>2, <1>3, LeaveLinked, LinkedUnchanged
<1>5. JobLinked(o, n, u, Idle) /\ Idle.state \notin {"hello", "loaded"}
  BY DEF JobLinked, Idle, BatchStates
<1>6. UNCHANGED job \/ job' = [job EXCEPT ![u] = Idle]
  BY DEF read_done, purge
<1>7. JobsLinked(o, n)' /\ NoneJoins
  <2>1. CASE UNCHANGED job
    BY <2>1, LinkedUnchanged DEF NoneJoins
  <2>2. CASE job' = [job EXCEPT ![u] = Idle]
    BY <1>5, <2>2, JobLinkStep, NotJoining DEF Shape, Linked
  <2> QED
    BY <1>6, <2>1, <2>2
<1>8. UNCHANGED <<session, conns>>
  BY DEF read_done, purge
<1> QED
  BY <1>4, <1>7, <1>8, SameConns, JoinedKept, LinkedUnchanged DEF Linked

LEMMA LinksKills ==
    ASSUME Shape, NEW o, NEW n, Linked(o, n), Joined, NEW u \in Users,
           kill_command(u) \/ kill_listener(u) \/ \E p \in Users : add_contact(u, p)
    PROVE  Linked(o, n)' /\ Joined'
<1>1. JobLinked(o, n, u, Idle) /\ Idle.state \notin {"hello", "loaded"}
  BY DEF JobLinked, Idle, BatchStates
<1>2. UNCHANGED job \/ job' = [job EXCEPT ![u] = Idle]
  BY DEF kill_command, kill_listener, add_contact
<1>3. JobsLinked(o, n)' /\ NoneJoins
  <2>1. CASE UNCHANGED job
    BY <2>1, LinkedUnchanged DEF NoneJoins
  <2>2. CASE job' = [job EXCEPT ![u] = Idle]
    BY <1>1, <2>2, JobLinkStep, NotJoining DEF Shape, Linked
  <2> QED
    BY <1>2, <2>1, <2>2
<1>4. conns' \subseteq conns
  BY DEF kill_command, kill_listener, add_contact
<1>5. ConnsLinked(o, n)'
  BY <1>4 DEF Linked, ConnsLinked
<1>6. UNCHANGED <<session, mailbox>>
  BY DEF kill_command, kill_listener, add_contact
<1> QED
  BY <1>3, <1>4, <1>5, <1>6, SameConns, JoinedKept, LinkedUnchanged DEF Linked

-----------------------------------------------------------------------------

LEMMA LinkInvInit == Init => LinkInv
<1> SUFFICES ASSUME Init PROVE LinkInv
  OBVIOUS
<1>1. secrets <= MaxSecrets
  BY ClientAssumption DEF Init
<1> DEFINE o == [i \in 1..MaxSecrets |-> [kind |-> "relay", by |-> 0]]
<1>2. o \in Origins
  BY DEF Origins
<1> HIDE DEF o
<1>3. SessionsLinked(o, 0)
  BY DEF Init, SessionsLinked
<1>4. MailLinked(o, 0)
  BY DEF Init, MailLinked
<1>5. JobsLinked(o, 0)
  BY DEF Init, JobsLinked, JobLinked, Idle, BatchStates
<1>6. ConnsLinked(o, 0) /\ Joined /\ secrets = 0
  BY DEF Init, ConnsLinked, Joined
<1>7. Linked(o, secrets)
  BY <1>3, <1>4, <1>5, <1>6 DEF Linked
<1> QED
  BY <1>1, <1>2, <1>6, <1>7 DEF LinkInv

\* A step that makes no secret.
LEMMA LinkInvSame ==
    ASSUME NEW o \in Origins, NEW n, n = secrets, LinkInv, UNCHANGED secrets,
           Linked(o, n)' /\ Joined'
    PROVE  LinkInv'
<1>1. secrets' = n /\ secrets' <= MaxSecrets
  BY DEF LinkInv
<1>2. Linked(o, secrets)'
  BY <1>1
<1> QED
  BY <1>1, <1>2 DEF LinkInv

\* A step that makes the secret n.
LEMMA LinkInvMore ==
    ASSUME NEW o \in Origins, NEW n, secrets' = n, n <= MaxSecrets, Linked(o, n)' /\ Joined'
    PROVE  LinkInv'
<1>1. Linked(o, secrets)'
  OBVIOUS
<1> QED
  BY <1>1 DEF LinkInv

\* A send by the relay makes a secret of u.
LEMMA LinkInvSends ==
    ASSUME Shape, LinkInv, NEW u \in Users,
           \/ p2p_fails(u) \/ echo(u)
           \/ \E p \in Users, text \in Texts : send(u, p, text)
    PROVE  LinkInv'
<1>1. PICK o \in Origins : Linked(o, secrets)
  BY DEF LinkInv
<1>2. Joined /\ secrets \in Nat
  BY DEF LinkInv, Shape
<1>3. (secrets' = Fresh /\ Fresh <= MaxSecrets) \/ (UNCHANGED secrets /\ secrets' # Fresh)
  <2>1. (secrets' = Fresh /\ Fresh <= MaxSecrets) \/ UNCHANGED secrets
    BY DEF p2p_fails, echo, send, StartRelay
  <2>2. secrets # Fresh
    BY <1>2 DEF Fresh
  <2> QED
    BY <2>1, <2>2
<1>4. CASE UNCHANGED secrets /\ secrets' # Fresh
  <2>1. PICK n : n = secrets
    OBVIOUS
  <2>2. Linked(o, n)
    BY <1>1, <2>1
  <2>3. Linked(o, n)' /\ Joined'
    BY <1>2, <1>4, <2>2, LinksP2PFails, LinksEcho, LinksSend
  <2> QED
    BY <1>4, <2>1, <2>3, LinkInvSame
<1>5. CASE secrets' = Fresh /\ Fresh <= MaxSecrets
  <2>1. PICK n : n = Fresh
    OBVIOUS
  <2>2. PICK o2 \in Origins : /\ o2[n] = [kind |-> "relay", by |-> u]
                              /\ n \in 1..n /\ Linked(o2, n)
    BY <1>1, <1>2, <1>5, <2>1, FreshOrigin
  <2>3. Fresh \in 1..n /\ o2[Fresh] = [kind |-> "relay", by |-> u]
    BY <2>1, <2>2
  <2>4. Linked(o2, n)' /\ Joined'
    BY <1>2, <2>2, <2>3, LinksP2PFails, LinksEcho, LinksSend
  <2> QED
    BY <1>5, <2>1, <2>4, LinkInvMore
<1> QED
  BY <1>3, <1>4, <1>5

\* A direct send makes a secret when there is no session yet, and mixes one
\* into every later message.
LEMMA LinkInvP2P ==
    ASSUME Shape, LinkInv, NEW u \in Users, load_to_send(u) \/ send_p2p(u)
    PROVE  LinkInv'
<1>1. PICK o \in Origins : Linked(o, secrets)
  BY DEF LinkInv
<1>2. Joined /\ secrets \in Nat
  BY DEF LinkInv, Shape
<1>3. (secrets' = Fresh /\ Fresh <= MaxSecrets) \/ (UNCHANGED secrets /\ secrets' # Fresh)
  <2>1. (secrets' = Fresh /\ Fresh <= MaxSecrets) \/ UNCHANGED secrets
    BY DEF load_to_send, send_p2p
  <2>2. secrets # Fresh
    BY <1>2 DEF Fresh
  <2> QED
    BY <2>1, <2>2
<1>4. CASE UNCHANGED secrets /\ secrets' # Fresh
  <2>1. PICK n : n = secrets
    OBVIOUS
  <2>2. Linked(o, n)
    BY <1>1, <2>1
  <2>3. Linked(o, n)' /\ Joined'
    BY <1>2, <1>4, <2>2, LinksLoadToSend, LinksSendP2P
  <2> QED
    BY <1>4, <2>1, <2>3, LinkInvSame
<1>5. CASE secrets' = Fresh /\ Fresh <= MaxSecrets
  <2>1. PICK n : n = Fresh
    OBVIOUS
  <2>2. PICK o2 \in Origins : /\ o2[n] = [kind |-> "direct", by |-> u]
                              /\ n \in 1..n /\ Linked(o2, n)
    BY <1>1, <1>2, <1>5, <2>1, FreshOrigin
  <2>3. Fresh \in 1..n /\ o2[Fresh] = [kind |-> "direct", by |-> u]
    BY <2>1, <2>2
  <2>4. Linked(o2, n)' /\ Joined'
    BY <1>2, <2>2, <2>3, LinksLoadToSend, LinksSendP2P
  <2> QED
    BY <1>5, <2>1, <2>4, LinkInvMore
<1> QED
  BY <1>3, <1>4, <1>5

LEMMA LinkInvLoadToReceive ==
    ASSUME Shape, LinkInv, NEW c \in conns, load_to_receive(c)
    PROVE  LinkInv'
<1>1. PICK o \in Origins : Linked(o, secrets)
  BY DEF LinkInv
<1>2. Joined /\ secrets \in Nat /\ c.from \in Users
  BY DEF LinkInv, Shape, ConnsShaped, IsConn
<1>3. (secrets' = Fresh /\ Fresh <= MaxSecrets) \/ (UNCHANGED secrets /\ secrets' # Fresh)
  <2>1. (secrets' = Fresh /\ Fresh <= MaxSecrets) \/ UNCHANGED secrets
    BY DEF load_to_receive
  <2>2. secrets # Fresh
    BY <1>2 DEF Fresh
  <2> QED
    BY <2>1, <2>2
<1>4. CASE UNCHANGED secrets /\ secrets' # Fresh
  <2>1. PICK n : n = secrets
    OBVIOUS
  <2>2. Linked(o, n)
    BY <1>1, <2>1
  <2>3. Linked(o, n)' /\ Joined'
    BY <1>2, <1>4, <2>2, LinksLoadToReceive
  <2> QED
    BY <1>4, <2>1, <2>3, LinkInvSame
<1>5. CASE secrets' = Fresh /\ Fresh <= MaxSecrets
  <2>1. PICK n : n = Fresh
    OBVIOUS
  <2>2. PICK o2 \in Origins : /\ o2[n] = [kind |-> "direct", by |-> c.from]
                              /\ n \in 1..n /\ Linked(o2, n)
    BY <1>1, <1>2, <1>5, <2>1, FreshOrigin
  <2>3. Fresh \in 1..n /\ o2[Fresh] = [kind |-> "direct", by |-> c.from]
    BY <2>1, <2>2
  <2>4. Linked(o2, n)' /\ Joined'
    BY <1>2, <2>2, <2>3, LinksLoadToReceive
  <2> QED
    BY <1>5, <2>1, <2>4, LinkInvMore
<1> QED
  BY <1>3, <1>4, <1>5

\* The steps that make no secret.
LEMMA LinkInvOthers ==
    ASSUME Shape, LinkInv,
           \/ \E u \in Users :
                 \/ relay_stores(u) \/ relay_ok(u) \/ relay_fails(u) \/ p2p_done(u)
                 \/ \E command \in BatchStates : fetch(u, command)
                 \/ read_next(u) \/ read_done(u) \/ purge(u)
                 \/ kill_command(u) \/ kill_listener(u)
                 \/ \E p \in Users : add_contact(u, p)
           \/ \E c \in conns : \/ \E sealed \in BOOLEAN : handle_hello(c, sealed)
                               \/ receive(c)
    PROVE  LinkInv'
<1>1. PICK n : n = secrets
  OBVIOUS
<1>2. PICK o \in Origins : Linked(o, n)
  BY <1>1 DEF LinkInv
<1>3. Joined
  BY DEF LinkInv
<1>4. UNCHANGED secrets
  BY DEF relay_stores, relay_ok, relay_fails, p2p_done, fetch, read_next, read_done, purge,
         kill_command, kill_listener, add_contact, handle_hello, receive
<1>5. Linked(o, n)' /\ Joined'
  BY <1>2, <1>3, LinksRelayStores, LinksRelayAnswers, LinksFetch, LinksReadNext, LinksBatchEnds,
     LinksKills, LinksHandleHello, LinksReceive
<1> QED
  BY <1>1, <1>4, <1>5, LinkInvSame

LEMMA LinkInvNext == Shape /\ LinkInv /\ [Next]_vars => LinkInv'
<1> SUFFICES ASSUME Shape, LinkInv, [Next]_vars PROVE LinkInv'
  OBVIOUS
<1>1. CASE UNCHANGED vars
  <2>1. PICK n : n = secrets
    OBVIOUS
  <2>2. PICK o \in Origins : Linked(o, n)
    BY <2>1 DEF LinkInv
  <2>3. Linked(o, n)'
    BY <1>1, <2>2, LinkedUnchanged DEF vars, Linked
  <2>4. Joined' /\ UNCHANGED secrets
    BY <1>1 DEF LinkInv, Joined, vars
  <2> QED
    BY <2>1, <2>3, <2>4, LinkInvSame
<1> QED
  BY <1>1, LinkInvSends, LinkInvP2P, LinkInvLoadToReceive, LinkInvOthers DEF Next, BatchStates

LEMMA LinkInvAlways == Spec => []LinkInv
BY LinkInvInit, LinkInvNext, ShapeAlways, PTL DEF Spec

\* Two peers whose sessions come from the same secret are in step, whatever
\* commands and handlers ran at the same time, whichever answers were lost and
\* processes killed: the origin of the secret fixes both ends.
THEOREM SessionsInStep == Spec => []InStep
<1>1. LinkInv => InStep
  <2> SUFFICES ASSUME LinkInv, NEW u \in Users, NEW p \in Users, u # p,
                      session[u][p] # NoSession, session[p][u] # NoSession,
                      session[u][p].root = session[p][u].root
               PROVE  /\ session[u][p].send = session[p][u].recv
                      /\ session[u][p].recv = session[p][u].send
    BY DEF InStep
  <2>1. PICK o \in Origins : Linked(o, secrets)
    BY DEF LinkInv
  <2>2. IsLinked(o, secrets, u, p, session[u][p]) /\ IsLinked(o, secrets, p, u, session[p][u])
    BY <2>1 DEF Linked, SessionsLinked
  <2> QED
    BY <2>2 DEF IsLinked
<1> QED
  BY <1>1, LinkInvAlways, PTL

-----------------------------------------------------------------------------
(* Direct messages.                                                        *)

\* Who has an OpenPGP fingerprint has had it from the beginning.
ContactsOld ==
    /\ IsTable(Users, Users, contact)
    /\ \A u, p \in Users : contact[u][p] = "gpg" => <<u, p>> \in Legacy

Apart == \A c \in conns : c.from # c.to

DirectInv == ContactsOld /\ Apart /\ DirectReadable

LEMMA ContactsOldNext == ContactsOld /\ [Next]_vars => ContactsOld'
<1> SUFFICES ASSUME ContactsOld, [Next]_vars PROVE ContactsOld'
  OBVIOUS
<1>1. CASE UNCHANGED contact
  BY <1>1 DEF ContactsOld
<1>2. ASSUME NEW u \in Users, NEW p \in Users, add_contact(u, p)
      PROVE  ContactsOld'
  <2>1. contact' = WithEntry(contact, u, p, "pq")
    BY <1>2 DEF add_contact, WithEntry
  <2>2. IsTable(Users, Users, contact)
    BY DEF ContactsOld
  <2>3. /\ IsTable(Users, Users, contact')
        /\ \A v \in Users, q \in Users :
              contact'[v][q] = IF v = u /\ q = p THEN "pq" ELSE contact[v][q]
    BY ONLY <2>1, <2>2, ExceptTwo, u \in Users
  <2> QED
    BY <2>3 DEF ContactsOld
<1> QED
  BY <1>1, <1>2 DEF Next, vars, relay_stores, relay_ok, relay_fails, load_to_send, send_p2p,
     p2p_done, p2p_fails, fetch, read_next, echo, read_done, purge, kill_command,
     kill_listener, send, handle_hello, load_to_receive, receive

\* A direct connection is made between two users, if nobody has an OpenPGP
\* fingerprint of himself in his contacts.
LEMMA ApartP2P ==
    ASSUME ContactsOld, Apart, \A v \in Users : <<v, v>> \notin Legacy,
           NEW u \in Users, NEW p \in Users, NEW text, NEW rest, StartP2P(u, p, text, rest)
    PROVE  Apart'
<1>1. u # p
  BY DEF StartP2P, Reachable, ContactsOld
<1>2. PICK n : conns' = conns \cup {[n |-> n, from |-> u, to |-> p, state |-> "hello"]}
  BY DEF StartP2P
<1> QED
  BY <1>1, <1>2 DEF Apart

LEMMA ApartNext ==
    ASSUME Shape, ContactsOld, Apart, \A v \in Users : <<v, v>> \notin Legacy, [Next]_vars
    PROVE  Apart'
<1>1. CASE conns' \subseteq conns
  BY <1>1 DEF Apart
<1>2. ASSUME NEW u \in Users, NEW p \in Users, NEW text \in Texts, send(u, p, text)
      PROVE  Apart'
  BY <1>1, <1>2, ApartP2P DEF send
<1>3. ASSUME NEW u \in Users, echo(u)
      PROVE  Apart'
  <2>1. job[u].peer \in Users
    BY <1>3 DEF echo, Shape, JobsShaped, IsJob, IsSending
  <2> QED
    BY <1>1, <1>3, <2>1, ApartP2P DEF echo
<1>4. ASSUME NEW u \in Users, send_p2p(u)
      PROVE  Apart'
  <2> DEFINE j == job[u]
             k == (IF j.first THEN EncryptFirst(j.sess) ELSE EncryptMessage(j.sess, Fresh)).key
             sentOn(c) == [n |-> c.n, from |-> u, to |-> c.to, state |-> "message",
                           key |-> k, first |-> j.first]
  <2>1. conns' = (conns \ ConnOf(u)) \cup {sentOn(c) : c \in ConnOf(u)}
    BY <1>4, Zenon DEF send_p2p
  <2>2. \A c : sentOn(c).from = u /\ sentOn(c).to = c.to
    OBVIOUS
  <2>3. \A c \in ConnOf(u) : c.to # u
    BY DEF ConnOf, Apart
  <2> HIDE DEF sentOn
  <2> QED
    BY <2>1, <2>2, <2>3 DEF Apart
<1>5. ASSUME NEW c \in conns, NEW sealed, handle_hello(c, sealed)
      PROVE  Apart'
  <2>1. c = [n |-> c.n, from |-> c.from, to |-> c.to, state |-> c.state]
    BY <1>5 DEF handle_hello, Shape, ConnsShaped, IsConn
  <2>2. [c EXCEPT !.state = "acked"].from = c.from /\ [c EXCEPT !.state = "acked"].to = c.to
    BY <2>1
  <2> QED
    BY <1>5, <2>2 DEF handle_hello, Apart
<1>6. ASSUME NEW c \in conns, load_to_receive(c)
      PROVE  Apart'
  <2>1. PICK s : conns' = (conns \ {c}) \cup
                 {[n |-> c.n, from |-> c.from, to |-> c.to, state |-> "loaded",
                   key |-> c.key, first |-> c.first, sess |-> s]}
    BY <1>6 DEF load_to_receive
  <2> QED
    BY <2>1 DEF Apart
<1>7. ASSUME NEW u \in Users, kill_command(u) \/ kill_listener(u)
      PROVE  Apart'
  BY <1>1, <1>7 DEF kill_command, kill_listener
<1>8. ASSUME NEW c \in conns, receive(c)
      PROVE  Apart'
  BY <1>1, <1>8 DEF receive
<1>9. CASE UNCHANGED conns
  BY <1>9 DEF Apart
<1> QED
  BY <1>2, <1>3, <1>4, <1>5, <1>6, <1>7, <1>8, <1>9 DEF Next, vars, relay_stores,
     relay_ok, relay_fails, load_to_send, p2p_done, p2p_fails, fetch, read_next, read_done, purge,
     add_contact

\* A later message is decrypted by a session of the same secret.
LEMMA LaterDecrypts ==
    ASSUME NEW s, NEW key, Seq1 \notin DOMAIN s.skipped, key.mix # Plain,
           key = KeyOf(s.recv, key.mix)
    PROVE  DecryptMessage(s, key, Seq1) # {}
<1> DEFINE next(table) == [s EXCEPT !.recv = AfterReceive(s, key.mix), !.received = @ + 1,
                                    !.skipped = table]
           fits == key = KeyOf(s.recv, key.mix)
           some == {next(table) : table \in Kept(s.skipped, Seq1, key)}
           early == SimpleDecrypt(s, key, Seq1)
           late == IF key = s.skipped[Seq1] /\ key.mix = Plain
                   THEN {[s EXCEPT !.received = IF Seq1 + 1 > @ THEN Seq1 + 1 ELSE @]} ELSE {}
<1>1. DecryptMessage(s, key, Seq1) =
         IF Seq1 \in DOMAIN s.skipped THEN late
         ELSE IF key.mix # Plain THEN (IF fits THEN some ELSE {}) ELSE early
  BY ONLY Zenon DEF DecryptMessage
<1>2. fits
  OBVIOUS
<1> HIDE DEF fits, some, early, late
<1>3. DecryptMessage(s, key, Seq1) = some
  <2>1. Seq1 \notin DOMAIN s.skipped /\ key.mix # Plain
    OBVIOUS
  <2> QED
    BY ONLY <1>1, <1>2, <2>1
<1>4. \E table : table \in Kept(s.skipped, Seq1, key)
  <2>1. Kept(s.skipped, Seq1, key) # {}
    BY ONLY KeptTables
  <2> QED
    BY ONLY <2>1
<1>5. some # {}
  BY ONLY <1>4, Zenon DEF some
<1> QED
  BY ONLY <1>3, <1>5, Zenon

LEMMA DirectReceive ==
    ASSUME Shape, LinkInv, Apart, DirectReadable, NEW c \in conns, receive(c)
    PROVE  DirectReadable'
<1>1. c.from # c.to /\ c.state = "loaded"
  BY DEF receive, Apart
<1>2. PICK o \in Origins : ConnLinked(o, secrets, c)
  BY DEF LinkInv, Linked, ConnsLinked
<1> DEFINE after == DecryptMessage(c.sess, c.key, Seq1)
           f == Failed("p2p", c.first, FALSE, c.sess, c.key)
<1>3. CASE c.first \/ c.sess.root # c.key.chain.root
  <2>1. f.first \/ ~f.same
    BY <1>3 DEF Failed
  <2>2. failures' = failures \/ failures' = failures \cup {f}
    BY DEF receive
  <2> HIDE DEF f
  <2> QED
    BY <2>1, <2>2 DEF DirectReadable
<1>4. CASE ~c.first /\ c.sess.root = c.key.chain.root
  <2>1. /\ Seq1 \notin DOMAIN c.sess.skipped /\ c.key.mix # Plain
        /\ c.sess.recv = SendOf(o, c.sess.root, c.from)
        /\ c.key = KeyOf(SendOf(o, c.key.chain.root, c.from), c.key.mix)
    BY <1>1, <1>2, <1>4 DEF ConnLinked, IsLinked
  <2>2. PICK s, key : s = c.sess /\ key = c.key
    OBVIOUS
  <2>3. Seq1 \notin DOMAIN s.skipped /\ key.mix # Plain /\ key = KeyOf(s.recv, key.mix)
    BY <1>4, <2>1, <2>2, Zenon
  <2>4. after # {}
    BY <2>2, <2>3, LaterDecrypts, Zenon
  <2>5. failures' = failures
    BY <2>4, Zenon DEF receive
  <2> QED
    BY <2>5 DEF DirectReadable
<1> QED
  BY <1>3, <1>4

LEMMA DirectReadableNext ==
    ASSUME Shape, LinkInv, Apart, DirectReadable, [Next]_vars
    PROVE  DirectReadable'
<1>1. CASE UNCHANGED failures
  BY <1>1 DEF DirectReadable
<1>2. ASSUME NEW u \in Users, read_next(u)
      PROVE  DirectReadable'
  <2> DEFINE m == Head(job[u].todo)
             lost == {Failed("relay", m.kct # Plain, m.from = u, s, m.key) : s \in SessionFor(u, m)}
  <2>1. failures' = failures \/ failures' = failures \cup lost
    BY <1>2, Zenon DEF read_next
  <2>2. \A f \in lost : f.via = "relay"
    BY DEF Failed
  <2> HIDE DEF lost
  <2> QED
    BY <2>1, <2>2 DEF DirectReadable
<1> QED
  BY <1>1, <1>2, DirectReceive DEF Next, vars, relay_stores, relay_ok, relay_fails,
     load_to_send, send_p2p, p2p_done, p2p_fails, fetch, echo, read_done, purge, kill_command,
     kill_listener, add_contact, send, handle_hello, load_to_receive

LEMMA DirectInvInit == Init => DirectInv
<1> SUFFICES ASSUME Init PROVE DirectInv
  OBVIOUS
<1>1. IsTable(Users, Users, contact)
  BY DEF Init, IsTable
<1>2. \A u, p \in Users : contact[u][p] = "gpg" => <<u, p>> \in Legacy
  BY DEF Init
<1> QED
  BY <1>1, <1>2 DEF Init, DirectInv, ContactsOld, Apart, DirectReadable

\* If nobody has an OpenPGP fingerprint of himself in his contacts, a direct
\* message fails to decrypt only if it is a first one or the sessions come
\* from different secrets, however handlers and commands save over each other.
THEOREM DirectMailReadable ==
    ASSUME \A u \in Users : <<u, u>> \notin Legacy
    PROVE  Spec => []DirectReadable
<1>1. DirectInv /\ Shape /\ LinkInv /\ [Next]_vars => DirectInv'
  BY ContactsOldNext, ApartNext, DirectReadableNext DEF DirectInv
<1>2. DirectInv => DirectReadable
  BY DEF DirectInv
<1> QED
  BY <1>1, <1>2, DirectInvInit, ShapeAlways, LinkInvAlways, PTL DEF Spec

=============================================================================
