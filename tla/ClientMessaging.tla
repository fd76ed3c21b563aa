--------------------------- MODULE ClientMessaging ---------------------------
(***************************************************************************)
(* How clients send and read messages, client/src/main.rs: `add send',     *)
(* `add read', the reflector's loop, and the listener that takes direct    *)
(* (P2P) connections while such a command runs.                            *)
(*                                                                         *)
(* The only state a client keeps between commands is one ratchet session   *)
(* per peer in its database; every path loads it, works on a copy and      *)
(* writes it back at a moment of its own choosing.  A command and any      *)
(* number of connection handlers of the listener do so at the same time.   *)
(* A relay is what its answers show: it appends to a mailbox, refuses, or  *)
(* its answer is lost; a purge or a receipt may or may not take effect     *)
(* (RelayMailbox says when).                                               *)
(***************************************************************************)
EXTENDS DoubleRatchet, SequencesExt

CONSTANTS
    Users,        \* clients
    NRelays,      \* number of relays, in the order of relay_urls
    Texts,        \* what messages say
    Reflectors,   \* users that run the reflect command and not read
    Legacy,       \* pairs whose contact entry holds an OpenPGP fingerprint
    Added,        \* pairs add-contact is called for
    MaxSecrets,   \* bound: encapsulations
    MaxConns      \* bound: direct connections at a time

Relays == 1..NRelays

ASSUME ClientAssumption ==
    /\ NRelays \in Nat /\ MaxSecrets \in Nat /\ MaxConns \in Nat
    /\ Reflectors \subseteq Users
    /\ Legacy \subseteq Users \X Users /\ Added \subseteq Users \X Users

VARIABLES
    contact,   \* contact[u][p]: the kind of fingerprint u has for p
    session,   \* session[u][p]: the row of ratchet_sessions, NoSession if none
    mailbox,   \* mailbox[u][r]: what relay r holds for u, oldest first
    job,       \* job[u]: the command u runs
    conns,     \* direct connections, as their handlers see them
    secrets,   \* shared secrets made so far
    keys,      \* message keys used so far
    encrypted, \* messages encrypted so far
    failures   \* which kinds of messages could not be decrypted

vars == <<contact, session, mailbox, job, conns, secrets, keys, encrypted,
          failures>>

NoSession == [root |-> 0]
NoBatch == [state |-> "none"]
Idle == [state |-> "idle"]

\* The field seq of every message a client sends.
Seq1 == 1

Fresh == secrets + 1

\* A message on a relay; kct is the secret its Kyber ciphertext carries.
Msg == [from : Users, to : Users, text : Texts, kct : Nat, key : MessageKey]

Init ==
    /\ contact = [u \in Users |-> [p \in Users |->
                     IF <<u, p>> \in Legacy THEN "gpg" ELSE "none"]]
    /\ session = [u \in Users |-> [p \in Users |-> NoSession]]
    /\ mailbox = [u \in Users |-> [r \in Relays |-> <<>>]]
    /\ job = [u \in Users |-> Idle]
    /\ conns = {} /\ secrets = 0 /\ keys = {} /\ encrypted = 0 /\ failures = {}

-----------------------------------------------------------------------------
(* Steps shared by the commands.                                           *)

Use(key) == keys' = keys \cup {key} /\ encrypted' = encrypted + 1

\* What a command goes on with when a send has ended: the reflector's batch.
After(rest) == IF rest = NoBatch THEN Idle ELSE rest

\* send_via_relay up to the request.  Every call passes force_first, so the
\* session is a new one; a message to oneself carries no ciphertext.
StartRelay(u, p, text, rest) ==
    LET self == p = u
        e    == EncryptFirst(NewSession(Fresh, TRUE, self))
        msg  == [from |-> u, to |-> p, text |-> text, key |-> e.key,
                 kct |-> IF self THEN Plain ELSE Fresh]
    IN  /\ Fresh <= MaxSecrets
        /\ secrets' = Fresh
        /\ Use(e.key)
        /\ job' = [job EXCEPT ![u] = [state |-> "relay", msg |-> msg,
                                      sess |-> e.session, rest |-> rest]]

\* Where a direct connection is possible: presence is published and fetched
\* under the OpenPGP fingerprints of both.  More is possible here than at this
\* commit, where the certificate to seal it with is refused under that
\* fingerprint (module Presence).
Reachable(u, p) == contact[u][p] = "gpg" /\ contact[p][u] = "gpg"

\* send_message up to the hello.
StartP2P(u, p, text, rest) ==
    /\ Reachable(u, p)
    /\ \E n \in 1..MaxConns :
          /\ {c.n : c \in conns} \cap (1..n) = 1..(n - 1)  \* the least free number
          /\ conns' = conns \cup {[n |-> n, from |-> u, to |-> p, state |-> "hello"]}
          /\ job' = [job EXCEPT ![u] = [state |-> "hello", peer |-> p, text |-> text,
                                        conn |-> n, rest |-> rest]]

ConnOf(u) == {c \in conns : c.from = u /\ c.n = job[u].conn}

-----------------------------------------------------------------------------
(* add add-contact, add send                                               *)

\* add-contact stores the post-quantum fingerprint, whatever was typed.
add_contact(u, p) ==
    /\ <<u, p>> \in Added
    /\ job[u] = Idle
    /\ contact[u][p] # "pq"
    /\ contact' = [contact EXCEPT ![u][p] = "pq"]
    /\ UNCHANGED <<session, mailbox, job, conns, secrets, keys, encrypted, failures>>

\* send_message to a contact.  Without an address, or when no connection
\* comes about, the message goes to the relay.
send(u, p, text) ==
    /\ job[u] = Idle
    /\ contact[u][p] # "none"
    /\ \/ StartRelay(u, p, text, NoBatch) /\ UNCHANGED conns
       \/ StartP2P(u, p, text, NoBatch) /\ UNCHANGED <<secrets, keys, encrypted>>
    /\ UNCHANGED <<contact, session, mailbox, failures>>

\* The relay stores the message.
relay_stores(u) ==
    /\ job[u].state = "relay"
    /\ \E r \in Relays : mailbox' = [mailbox EXCEPT ![job[u].msg.to][r] = Append(@, job[u].msg)]
    /\ job' = [job EXCEPT ![u].state = "stored"]
    /\ UNCHANGED <<contact, session, conns, secrets, keys, encrypted, failures>>

\* Mutant of SessionToSave: the session as it was before the encryption.
SessionUnadvanced(u) == NewSession(job[u].sess.root, TRUE, job[u].sess.self_mode)

SessionToSave(u) == job[u].sess

\* The answer ok: only now is the session saved.
relay_ok(u) ==
    /\ job[u].state = "stored"
    /\ session' = [session EXCEPT ![u][job[u].msg.to] = SessionToSave(u)]
    /\ job' = [job EXCEPT ![u] = After(job[u].rest)]
    /\ UNCHANGED <<contact, mailbox, conns, secrets, keys, encrypted, failures>>

\* The relay answers with an error, or the connection ends without an answer:
\* the message may be stored or not, the session is dropped.
relay_fails(u) ==
    /\ job[u].state \in {"relay", "stored"}
    /\ job' = [job EXCEPT ![u] = After(job[u].rest)]
    /\ UNCHANGED <<contact, session, mailbox, conns, secrets, keys, encrypted, failures>>

-----------------------------------------------------------------------------
(* Direct delivery.  The initiator is a command, the responder a handler   *)
(* of the listener.                                                        *)

\* handle_incoming_connection up to the ack.  The contact entry must hold the
\* fingerprint of the hello, an OpenPGP one.  The hello holds a sealed identity
\* when the initiator's lookup of the Kyber key succeeded: 32 random bytes where
\* `nid|fp' is expected, which never pass.
handle_hello(c, sealed) ==
    /\ c.state = "hello"
    /\ conns' = (conns \ {c}) \cup
                   (IF contact[c.to][c.from] = "gpg" /\ ~sealed
                    THEN {[c EXCEPT !.state = "acked"]} ELSE {})
    /\ UNCHANGED <<contact, session, mailbox, job, secrets, keys, encrypted, failures>>

\* The initiator loads its session, or makes one with a fresh secret.
load_to_send(u) ==
    /\ job[u].state = "hello"
    /\ \E c \in ConnOf(u) : c.state = "acked"
    /\ LET have == session[u][job[u].peer]
           loaded(s, first) == [job EXCEPT ![u] = [state |-> "loaded", peer |-> job[u].peer,
                 text |-> job[u].text, conn |-> job[u].conn, rest |-> job[u].rest,
                 sess |-> s, first |-> first]]
       IN  IF have # NoSession
           THEN job' = loaded(have, FALSE) /\ UNCHANGED secrets
           ELSE /\ Fresh <= MaxSecrets
                /\ secrets' = Fresh
                /\ job' = loaded(NewSession(Fresh, TRUE, FALSE), TRUE)
    /\ UNCHANGED <<contact, session, mailbox, conns, keys, encrypted, failures>>

\* Save the session, then encrypt and send; the advanced session is dropped.
send_p2p(u) ==
    /\ job[u].state = "loaded"
    /\ LET j == job[u]
           e == IF j.first THEN EncryptFirst(j.sess) ELSE EncryptMessage(j.sess, Fresh)
       IN  /\ j.first \/ Fresh <= MaxSecrets
           /\ secrets' = IF j.first THEN secrets ELSE Fresh
           /\ Use(e.key)
           /\ session' = [session EXCEPT ![u][j.peer] = j.sess]
           /\ conns' = (conns \ ConnOf(u)) \cup
                 {[n |-> c.n, from |-> u, to |-> c.to, state |-> "message",
                   key |-> e.key, first |-> j.first] : c \in ConnOf(u)}
           /\ job' = [job EXCEPT ![u] = [state |-> IF ConnOf(u) # {} THEN "sent" ELSE "failed",
                                         peer |-> j.peer, text |-> j.text, rest |-> j.rest]]
    /\ UNCHANGED <<contact, mailbox, failures>>

\* Acknowledged, closed or timed out: send_message succeeds all the same.
p2p_done(u) ==
    /\ job[u].state = "sent"
    /\ job' = [job EXCEPT ![u] = After(job[u].rest)]
    /\ UNCHANGED <<contact, session, mailbox, conns, secrets, keys, encrypted, failures>>

\* No hello-ack, or the message could not be written: an error for `add send';
\* the reflector goes on to the relay.
p2p_fails(u) ==
    /\ \/ job[u].state = "hello" /\ ConnOf(u) = {}
       \/ job[u].state = "failed"
    /\ \/ /\ job[u].rest = NoBatch
          /\ job' = [job EXCEPT ![u] = Idle]
          /\ UNCHANGED <<secrets, keys, encrypted>>
       \/ /\ job[u].rest # NoBatch
          /\ StartRelay(u, job[u].peer, job[u].text, job[u].rest)
    /\ UNCHANGED <<contact, session, mailbox, conns, failures>>

\* The responder loads its session.  Without one it makes one from the
\* message's ciphertext or, when there is none, from a secret of its own.
load_to_receive(c) ==
    /\ c.state = "message"
    /\ LET have == session[c.to][c.from]
           loaded(s) == conns' = (conns \ {c}) \cup
                 {[n |-> c.n, from |-> c.from, to |-> c.to, state |-> "loaded",
                   key |-> c.key, first |-> c.first, sess |-> s]}
       IN  IF have # NoSession THEN loaded(have) /\ UNCHANGED secrets
           ELSE IF c.first
           THEN loaded(NewSession(c.key.chain.root, FALSE, FALSE)) /\ UNCHANGED secrets
           ELSE /\ Fresh <= MaxSecrets
                /\ secrets' = Fresh
                /\ loaded(NewSession(Fresh, FALSE, FALSE))
    /\ UNCHANGED <<contact, session, mailbox, job, keys, encrypted, failures>>

Failed(via, first, self, s, key) ==
    [via |-> via, first |-> first, self |-> self, same |-> s.root = key.chain.root]

\* Mutant of Received: the session is saved as decrypting left it.
ReceivedAndSaved(c, after) == IF after = {} THEN c.sess ELSE CHOOSE s \in after : TRUE

\* What the responder saves: the session before the decryption.
Received(c, after) == c.sess

\* The responder saves the session and decrypts.
receive(c) ==
    /\ c.state = "loaded"
    /\ LET after == DecryptMessage(c.sess, c.key, Seq1)
       IN  /\ session' = [session EXCEPT ![c.to][c.from] = Received(c, after)]
           /\ failures' = IF after # {} THEN failures
                          ELSE failures \cup {Failed("p2p", c.first, FALSE, c.sess, c.key)}
    /\ conns' = conns \ {c}
    /\ UNCHANGED <<contact, mailbox, job, secrets, keys, encrypted>>

-----------------------------------------------------------------------------
(* add read, and the reflector.                                            *)

\* Everything the relays that answer hold, relay by relay.
relay_fetch_all(u, up) ==
    FlattenSeq([r \in Relays |-> IF r \in up THEN mailbox[u][r] ELSE <<>>])

\* `add read' and `add raw-fetch', or a round of the reflector.
fetch(u, command) ==
    /\ job[u] = Idle
    /\ (command = "reflect") = (u \in Reflectors)
    /\ \E up \in SUBSET Relays :
          LET batch == relay_fetch_all(u, up)
          IN  /\ batch # <<>>
              /\ job' = [job EXCEPT ![u] = [state |-> command, batch |-> batch, todo |-> batch,
                                            seen |-> {}, got |-> FALSE]]
    /\ UNCHANGED <<contact, session, mailbox, conns, secrets, keys, encrypted, failures>>

\* Mutant of SessionFor: a stored session is preferred to the ciphertext.
SessionForStored(u, m) ==
    IF session[u][m.from] # NoSession THEN {session[u][m.from]}
    ELSE IF m.kct # Plain THEN {NewSession(m.kct, FALSE, FALSE)} ELSE {}

\* relay_decrypt_message, the session: a ciphertext makes a new one.
SessionFor(u, m) ==
    IF m.from # u /\ m.kct # Plain THEN {NewSession(m.kct, FALSE, FALSE)}
    ELSE {session[u][m.from]} \ {NoSession}

\* relay_decrypt_message: the sessions it can save, none when it fails.
Decrypted(u, m) ==
    UNION {IF m.kct # Plain THEN DecryptFirst(s, m.key) ELSE DecryptMessage(s, m.key, Seq1) :
              s \in SessionFor(u, m)}

\* One round of the loop over the batch.  A decrypted text not seen in this
\* batch is shown when its sender is a contact, or echoed by the reflector.
read_next(u) ==
    /\ job[u].state \in {"read", "raw", "reflect"}
    /\ job[u].todo # <<>>
    /\ LET j     == job[u]
           m     == Head(j.todo)
           after == Decrypted(u, m)
           next  == [j EXCEPT !.todo = Tail(@)]
           new   == m.text \notin j.seen
       IN  \/ /\ after = {}
              /\ job' = [job EXCEPT ![u] = next]
              /\ failures' = failures \cup
                    {Failed("relay", m.kct # Plain, m.from = u, s, m.key) : s \in SessionFor(u, m)}
              /\ UNCHANGED session
           \/ /\ \E s \in after : session' = [session EXCEPT ![u][m.from] = s]
              /\ job' = [job EXCEPT ![u] =
                    IF new /\ j.state = "reflect"
                    THEN [state |-> "echo", peer |-> m.from, text |-> m.text,
                          rest |-> [next EXCEPT !.seen = @ \cup {m.text}]]
                    ELSE [next EXCEPT !.seen = @ \cup {m.text},
                                      !.got = @ \/ (new /\ contact[u][m.from] # "none")]]
              /\ UNCHANGED failures
    /\ UNCHANGED <<contact, mailbox, conns, secrets, keys, encrypted>>

\* The reflector forgets the session and sends the text back, directly or by
\* the relay, or fails to.
echo(u) ==
    /\ job[u].state = "echo"
    /\ session' = [session EXCEPT ![u][job[u].peer] = NoSession]
    /\ \/ /\ StartP2P(u, job[u].peer, job[u].text, job[u].rest)
          /\ UNCHANGED <<secrets, keys, encrypted>>
       \/ /\ StartRelay(u, job[u].peer, job[u].text, job[u].rest)
          /\ UNCHANGED conns
       \/ /\ job' = [job EXCEPT ![u] = job[u].rest]
          /\ UNCHANGED <<conns, secrets, keys, encrypted>>
    /\ UNCHANGED <<contact, mailbox, failures>>

\* The messages of a mailbox that are not in the batch.
Unread(q, batch) ==
    FlattenSeq([i \in 1..Len(q) |-> IF Contains(batch, q[i]) THEN <<>> ELSE <<q[i]>>])

\* What a receipt for each message of the batch, and a purge, leave on relay
\* r: a receipt removes its message, a purge everything, or nothing happens.
Receipted(u, r) == {mailbox[u][r], Unread(mailbox[u][r], job[u].batch)}
relay_purge(u, r) == {mailbox[u][r], <<>>}

RelaysLeave(u, left) ==
    \E after \in [Relays -> UNION {left[r] : r \in Relays}] :
        /\ \A r \in Relays : after[r] \in left[r]
        /\ mailbox' = [mailbox EXCEPT ![u] = after]

\* The end of the batch.  The reflector sends its receipts and purges; `add
\* read' purges when it has shown something, `add raw-fetch' does nothing.
read_done(u) ==
    /\ job[u].state \in {"read", "raw", "reflect"}
    /\ job[u].todo = <<>>
    /\ CASE job[u].state = "reflect" ->
              RelaysLeave(u, [r \in Relays |-> Receipted(u, r) \cup relay_purge(u, r)])
         [] job[u].state = "read" /\ job[u].got ->
              RelaysLeave(u, [r \in Relays |-> relay_purge(u, r)])
         [] OTHER -> UNCHANGED mailbox
    /\ job' = [job EXCEPT ![u] = Idle]
    /\ UNCHANGED <<contact, session, conns, secrets, keys, encrypted, failures>>

\* `add purge'
purge(u) ==
    /\ job[u] = Idle
    /\ RelaysLeave(u, [r \in Relays |-> relay_purge(u, r)])
    /\ UNCHANGED <<contact, session, job, conns, secrets, keys, encrypted, failures>>

-----------------------------------------------------------------------------

\* The command of u dies.  The handler of its connection ends unless it
\* already has the message.
kill_command(u) ==
    /\ job[u] # Idle
    /\ job' = [job EXCEPT ![u] = Idle]
    /\ conns' = {c \in conns : c.from # u \/ c.state \in {"message", "loaded"}}
    /\ UNCHANGED <<contact, session, mailbox, secrets, keys, encrypted, failures>>

\* The listener of u dies with the connections it handles, and is restarted.
kill_listener(u) ==
    /\ \E c \in conns : c.to = u
    /\ conns' = {c \in conns : c.to # u}
    /\ UNCHANGED <<contact, session, mailbox, job, secrets, keys, encrypted, failures>>

Next ==
    \/ \E u \in Users :
          \/ relay_stores(u) \/ relay_ok(u) \/ relay_fails(u)
          \/ load_to_send(u) \/ send_p2p(u) \/ p2p_done(u) \/ p2p_fails(u)
          \/ \E command \in {"read", "raw", "reflect"} : fetch(u, command)
          \/ read_next(u) \/ echo(u) \/ read_done(u) \/ purge(u)
          \/ kill_command(u) \/ kill_listener(u)
          \/ \E p \in Users : add_contact(u, p) \/ \E text \in Texts : send(u, p, text)
    \/ \E c \in conns : (\E sealed \in BOOLEAN : handle_hello(c, sealed)) \/ load_to_receive(c) \/ receive(c)

Spec == Init /\ [][Next]_vars

-----------------------------------------------------------------------------
(* Properties.                                                             *)

\* Types: sessions, mailboxes and jobs are well formed; a direct connection
\* joins two users that have each other's OpenPGP fingerprint at first.
TypeOK ==
    /\ contact \in [Users -> [Users -> {"none", "gpg", "pq"}]]
    /\ \A u, p \in Users : session[u][p] = NoSession \/ IsSession(session[u][p])
    /\ mailbox \in [Users -> [Relays -> Seq(Msg)]]
    /\ \A u \in Users : job[u].state \in {"idle", "relay", "stored", "hello", "loaded",
                                          "sent", "failed", "read", "raw",
                                          "reflect", "echo"}
    /\ \A c \in conns : {<<c.from, c.to>>, <<c.to, c.from>>} \subseteq Legacy /\ c.n \in 1..MaxConns
    /\ secrets \in 0..MaxSecrets /\ keys \subseteq MessageKey
    /\ encrypted \in Nat

\* No message key encrypts two messages, although a direct send saves the
\* session it started from and the next send starts from it again.
NoKeyReuse == Cardinality(keys) = encrypted

\* Two peers whose sessions come from the same secret are in step: what one
\* sends on is what the other receives on.  Commands and handlers that load
\* and save sessions at the same time, lost answers and killed processes can
\* leave two peers with unrelated sessions, never with related ones that
\* have drifted apart.
InStep ==
    \A u, p \in Users :
        LET s == session[u][p]
            t == session[p][u]
        IN  (u # p /\ s # NoSession /\ t # NoSession /\ s.root = t.root)
                => s.send = t.recv /\ s.recv = t.send

\* What a client reads from a relay it can decrypt, whatever became of the
\* sessions in between (messages to oneself apart).
RelayReadable == \A f \in failures : f.via = "relay" => f.self

\* A direct message fails to decrypt only if it is a first message or the two
\* sessions are unrelated.
DirectReadable == \A f \in failures : f.via = "p2p" => f.first \/ ~f.same
=============================================================================
