---------------------------- MODULE DoubleRatchet ----------------------------
(***************************************************************************)
(* The ratchet of crypto/src/lib.rs as operators on sessions.              *)
(*                                                                         *)
(* Keys are symbolic.  A shared secret is a number, fresh for every        *)
(* encapsulation.  A chain key is the secret it was derived from, the half *)
(* of the 64 derived bytes it started as, and the secrets mixed into it    *)
(* since (Plain for a step without one): two chain keys are equal exactly  *)
(* when they were derived the same way.  A message key is a chain key      *)
(* and the secret mixed in for this message.                               *)
(***************************************************************************)
EXTENDS Integers, Sequences, FiniteSets

CONSTANTS
    MaxSkippedKeys,  \* MAX_SKIPPED_KEYS: kept keys of received messages
    MaxSkipAhead     \* MAX_SKIP_AHEAD: largest gap in sequence numbers

ASSUME RatchetAssumption == MaxSkippedKeys \in Nat /\ MaxSkipAhead \in Nat

Plain == 0

Secrets == Nat \ {0}

ChainKey == [root : Secrets, half : {1, 2}, mixed : Seq(Nat)]

MessageKey == [chain : ChainKey, mix : Nat]

\* RatchetState; `skipped' is the table of kept message keys by number.
IsSession(s) ==
    /\ s = [root |-> s.root, self_mode |-> s.self_mode, send |-> s.send,
            recv |-> s.recv, sent |-> s.sent, received |-> s.received,
            skipped |-> s.skipped]
    /\ s.root \in Secrets /\ s.self_mode \in BOOLEAN
    /\ s.send \in ChainKey /\ s.recv \in ChainKey
    /\ s.sent \in Nat /\ s.received \in Nat
    /\ DOMAIN s.skipped \subseteq Nat
    /\ \A n \in DOMAIN s.skipped : s.skipped[n] \in MessageKey

Chain(ss, half) == [root |-> ss, half |-> half, mixed |-> <<>>]

\* new and new_self: the initiator sends on the first half, the responder on
\* the second; with oneself there is one chain.
NewSession(ss, is_initiator, self_mode) ==
    LET send == Chain(ss, IF is_initiator THEN 1 ELSE 2)
        recv == Chain(ss, IF is_initiator THEN 2 ELSE 1)
    IN  [root |-> ss, self_mode |-> self_mode, send |-> send,
         recv |-> IF self_mode THEN send ELSE recv,
         sent |-> 0, received |-> 0, skipped |-> <<>>]

\* derive_message_key: the message key and the next chain key.
KeyOf(chain, mix) == [chain |-> chain, mix |-> mix]
Step(chain, mix) == [chain EXCEPT !.mixed = Append(@, mix)]

\* Sending advances the sending chain, and with it the only chain of a
\* session with oneself.
AfterSend(s, mix) ==
    LET next == Step(s.send, mix)
    IN  [s EXCEPT !.send = next,
                  !.recv = IF s.self_mode THEN next ELSE @,
                  !.sent = @ + 1]

\* encrypt_first
EncryptFirst(s) == [session |-> AfterSend(s, Plain), key |-> KeyOf(s.send, Plain)]

\* Mutant of EncryptMessage: the fresh secret is sent along but not mixed in.
EncryptUnmixed(s, ss) == EncryptFirst(s)

\* encrypt_message, with the secret ss of a fresh encapsulation.
EncryptMessage(s, ss) == [session |-> AfterSend(s, ss), key |-> KeyOf(s.send, ss)]

\* skipped_keys.insert, then prune_skipped_keys: one key too many and some
\* key goes, which one is up to the hash map.
Kept(table, seq, key) ==
    LET more == [n \in DOMAIN table \cup {seq} |-> IF n = seq THEN key ELSE table[n]]
    IN  IF Cardinality(DOMAIN more) > MaxSkippedKeys
        THEN {[n \in DOMAIN more \ {gone} |-> more[n]] : gone \in DOMAIN more}
        ELSE {more}

\* A receiving chain does not move in a session with oneself.
AfterReceive(s, mix) == IF s.self_mode THEN s.recv ELSE Step(s.recv, mix)

\* The receiving chain n plain steps ahead.
Ahead(s, n) ==
    IF s.self_mode THEN s.recv
    ELSE [s.recv EXCEPT !.mixed = @ \o [i \in 1..n |-> Plain]]

\* simple_decrypt: the sessions a message with this key and number can leave,
\* none when it is refused.
SimpleDecrypt(s, key, seq) ==
    LET n   == IF seq > s.received THEN seq - s.received ELSE 0
        at  == Ahead(s, n)
        k   == KeyOf(at, Plain)
        \* the tables that keeping the keys of the first i skipped numbers leaves
        tables[i \in 0..n] ==
            IF i = 0 THEN {s.skipped}
            ELSE UNION {Kept(t, s.received + i - 1, KeyOf(Ahead(s, i - 1), Plain)) :
                            t \in tables[i - 1]}
    IN  IF n <= MaxSkipAhead /\ key = k
        THEN {[s EXCEPT !.recv = AfterReceive([s EXCEPT !.recv = at], Plain),
                        !.received = s.received + n + 1, !.skipped = table] :
                 table \in UNION {Kept(t, seq, k) : t \in tables[n]}}
        ELSE {}

\* decrypt_first
DecryptFirst(s, key) == SimpleDecrypt(s, key, 0)

\* decrypt_message.  A kept key of that number is tried first and is the only
\* one tried; it fits a message without an appended ciphertext only.
DecryptMessage(s, key, seq) ==
    IF seq \in DOMAIN s.skipped
    THEN IF key = s.skipped[seq] /\ key.mix = Plain
         THEN {[s EXCEPT !.received = IF seq + 1 > @ THEN seq + 1 ELSE @]}
         ELSE {}
    ELSE IF key.mix # Plain
    THEN IF key = KeyOf(s.recv, key.mix)
         THEN {[s EXCEPT !.recv = AfterReceive(s, key.mix), !.received = @ + 1,
                         !.skipped = table] : table \in Kept(s.skipped, seq, key)}
         ELSE {}
    ELSE SimpleDecrypt(s, key, seq)
=============================================================================
