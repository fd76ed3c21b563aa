----------------------------- MODULE PqRatchet -----------------------------
(***************************************************************************)
(* The message chains of the post-quantum ratchet,                         *)
(* crypto-pq/src/ratchet_pq.rs: a library that no program calls yet.  Two  *)
(* parties derive message keys from a sending and a receiving chain, each  *)
(* step mixing in a secret that the caller passes (what a KEM round gave,  *)
(* if both sides agree on it), and keep the keys in one list by number.    *)
(* A chain key is the sequence of what was mixed in, a message key the     *)
(* chain it comes from: equal keys are derived in equal ways.              *)
(***************************************************************************)
EXTENDS Naturals, FiniteSets, SequencesExt

CONSTANTS
    Parties,             \* the two parties
    Secrets,             \* combined secrets that callers pass, positive numbers
    MAX_SKIP_AHEAD,
    MAX_SKIPPED_KEYS,
    MaxSend              \* bound: steps of the two sending chains

ASSUME PqAssumption ==
    /\ \E p, q \in Parties : p # q /\ Parties = {p, q}
    /\ MAX_SKIP_AHEAD \in Nat /\ MAX_SKIPPED_KEYS \in Nat \ {0}

VARIABLES
    snd, rcv,            \* the chain keys
    send_seq, recv_seq,
    skipped_keys,        \* numbers with their keys, of both directions
    sent,                \* messages on their way; they may come again
    inorder              \* inorder[p]: no message of the peer was skipped

pqvars == <<snd, rcv, send_seq, recv_seq, skipped_keys, sent, inorder>>

\* What ratchet_epoch mixes into the sending chain.
Epoch == 0

PqInit ==
    /\ snd = [p \in Parties |-> <<>>] /\ rcv = snd
    /\ send_seq = [p \in Parties |-> 0] /\ recv_seq = send_seq
    /\ skipped_keys = [p \in Parties |-> {}]
    /\ sent = {} /\ inorder = [p \in Parties |-> TRUE]

Peer(p) == CHOOSE q \in Parties : q # p

\* The key of the next message of a chain that p sends on, mixing in ss.
derive_message_key(p, chain, ss) == <<p, Append(chain, ss)>>

HasKey(S, n) == \E x \in S : x.seq = n

get_message_key(S, n) == (CHOOSE x \in S : x.seq = n).key

\* Bug: a full list drops a key already when it reaches the capacity (>= for >).
StoreDropsEarly(S, n, k) ==
    LET T == S \cup {[seq |-> n, key |-> k]} IN
    IF HasKey(S, n) THEN S
    ELSE IF Cardinality(T) < MAX_SKIPPED_KEYS THEN T
    ELSE {x \in T : \E y \in T : y.seq < x.seq}

\* A number that has a key keeps it, also when the key is of the other
\* direction; over the capacity the key with the lowest number goes.
store_skipped_key(S, n, k) ==
    LET T == S \cup {[seq |-> n, key |-> k]} IN
    IF HasKey(S, n) THEN S
    ELSE IF Cardinality(T) <= MAX_SKIPPED_KEYS THEN T
    ELSE {x \in T : \E y \in T : y.seq < x.seq}

Steps == FoldFunction(LAMBDA s, n : n + Len(s), 0, snd)

\* The chain moves on even when the new key is dropped at once, which is an
\* error for the caller.
encrypt_message(p, ss) ==
    /\ Steps < MaxSend
    /\ LET n == send_seq[p]
           S == store_skipped_key(skipped_keys[p], n, derive_message_key(p, snd[p], ss))
       IN  /\ skipped_keys' = [skipped_keys EXCEPT ![p] = S]
           /\ sent' = IF HasKey(S, n)
                      THEN sent \cup {[from |-> p, seq |-> n, ss |-> ss,
                                       key |-> get_message_key(S, n)]}
                      ELSE sent
    /\ snd' = [snd EXCEPT ![p] = Append(@, ss)]
    /\ send_seq' = [send_seq EXCEPT ![p] = @ + 1]
    /\ UNCHANGED <<rcv, recv_seq, inorder>>

\* What a party has after advance_recv_chain up to the number of m, with the
\* secret of m for every step: the chain, and the keys.
Advanced(p, m) ==
    LET after[i \in recv_seq[p]..(m.seq + 1)] ==
            IF i = recv_seq[p] THEN [chain |-> rcv[p], keys |-> skipped_keys[p]]
            ELSE LET a == after[i - 1] IN
                 [chain |-> Append(a.chain, m.ss),
                  keys |-> store_skipped_key(a.keys, i - 1,
                               derive_message_key(m.from, a.chain, m.ss))]
    IN  IF m.seq < recv_seq[p] THEN [chain |-> rcv[p], keys |-> skipped_keys[p]]
        ELSE after[m.seq + 1]

\* A message comes for the first time or again; the chain has moved on when
\* its key then turns out to be missing or wrong.
decrypt_message(m) ==
    LET p == Peer(m.from)
        a == Advanced(p, m)
    IN  /\ m.seq <= recv_seq[p] + MAX_SKIP_AHEAD
        /\ rcv' = [rcv EXCEPT ![p] = a.chain]
        /\ skipped_keys' = [skipped_keys EXCEPT ![p] = a.keys]
        /\ recv_seq' = [recv_seq EXCEPT ![p] = IF m.seq < @ THEN @ ELSE m.seq + 1]
        /\ inorder' = [inorder EXCEPT ![p] = @ /\ m.seq <= recv_seq[p]]
        /\ UNCHANGED <<snd, send_seq, sent>>

\* Only the sender's chain is changed: the peer has no operation for it.
ratchet_epoch(p) ==
    /\ Steps < MaxSend
    /\ snd' = [snd EXCEPT ![p] = Append(@, Epoch)]
    /\ UNCHANGED <<rcv, send_seq, recv_seq, skipped_keys, sent, inorder>>

PqNext ==
    \/ \E p \in Parties : ratchet_epoch(p) \/ \E ss \in Secrets : encrypt_message(p, ss)
    \/ \E m \in sent : decrypt_message(m)

PqSpec == PqInit /\ [][PqNext]_pqvars

-----------------------------------------------------------------------------

\* A message opens in whatever order messages arrive and however often: up to
\* MAX_SKIP_AHEAD numbers early and MAX_SKIPPED_KEYS late, as long as its
\* sender used one secret (or all came in order) and no new epoch, and as long
\* as the receiver itself sends nothing: its own message of the same number
\* would take the place of the key.
PqOpens ==
    \A m \in sent :
        LET p == Peer(m.from)
            s == snd[m.from]
        IN  /\ send_seq[p] = 0 /\ Epoch \notin ToSet(s)
            /\ \/ \A i \in DOMAIN s : s[i] = m.ss
               \/ inorder[p] /\ m.seq <= recv_seq[p]
            /\ m.seq <= recv_seq[p] + MAX_SKIP_AHEAD
            /\ recv_seq[p] <= m.seq + MAX_SKIPPED_KEYS
            => LET keys == Advanced(p, m).keys
               IN  HasKey(keys, m.seq) /\ get_message_key(keys, m.seq) = m.key
=============================================================================
