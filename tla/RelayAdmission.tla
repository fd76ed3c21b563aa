--------------------------- MODULE RelayAdmission ---------------------------
(***************************************************************************)
(* How the relay decides whether a signed request takes effect             *)
(* (relay/src/main.rs): the checks that the arms of handle_message run, in *)
(* the order in which each arm runs them, and the store of seen nonces     *)
(* that suppresses duplicates.                                             *)
(*                                                                         *)
(* The store of a fingerprint is a Vec of (nonce, time recorded).  It is   *)
(* modelled as the set of its elements with the position counter `pos',    *)
(* which grows with each push, so that the order of the Vec is the order   *)
(* of `pos'.  A request is what a client signed once; the network may      *)
(* deliver it any number of times, at any time after it was signed.        *)
(***************************************************************************)
EXTENDS Integers, FiniteSets

CONSTANTS
    Fps,          \* fingerprints of the requesters
    Nonces,       \* nonces that clients draw
    Requests,     \* signed requests, see RequestType
    HasSecret,    \* RelayState.shared_secret.is_some()
    TOLERANCE,    \* STORE_TIMESTAMP_TOLERANCE_SECS, in ticks
    MAX_NONCES,   \* MAX_NONCES_PER_SENDER
    ROUTING_EPOCH,   \* ROUTING_EPOCH_SECS, in ticks
    MIX_MAX_DELAY,   \* MIX_MAX_DELAY_SECONDS, in ticks
    ClockAhead,   \* how far a client's clock may be ahead of the relay's
    MayRestart,   \* whether the relay restarts
    MaxTime,      \* bound: the clock stops here
    MaxRecords    \* bound: nonces recorded between two starts

Kinds == {"store", "forward", "fetch", "status", "ack", "purge", "receipt", "delete"}

\* `key' says whether the request carries the verifying key, `blind' whether
\* it carries a recipient tag (computed by the client from its own clock), and
\* `auth' whether its auth_hmac is the one of the shared secret; a store is
\* `sealed' when it hides its sender.
RequestType == [kind : Kinds, fp : Fps, nonce : Nonces, ts : Nat, key : BOOLEAN,
                blind : BOOLEAN, auth : BOOLEAN, sealed : BOOLEAN]

ASSUME AdmissionAssumption ==
    /\ Requests \subseteq RequestType
    /\ HasSecret \in BOOLEAN /\ MayRestart \in BOOLEAN
    /\ TOLERANCE \in Nat /\ MAX_NONCES \in Nat \ {0}
    /\ ROUTING_EPOCH \in Nat \ {0} /\ MIX_MAX_DELAY \in Nat
    /\ ClockAhead \in Nat /\ MaxTime \in Nat /\ MaxRecords \in Nat

VARIABLES
    now,       \* the relay's clock
    seen,      \* seen_nonce_strs: the recorded nonces of all fingerprints
    pos,       \* the position of the next record
    keyed,     \* ml_dsa87_verifying_key_cache: fingerprints with a key
    asleep,    \* requests in their mix delay, with the time they began
    admitted,  \* history: how often each request has passed its checks, after
               \* which it takes effect, a store when it has slept
    early,     \* history: the requests recorded before their own timestamp
    cut        \* history: the nonces that a full Vec has drained

vars == <<now, seen, pos, keyed, asleep, admitted, early, cut>>

-----------------------------------------------------------------------------
\* The string that is recorded: the arms prefix the nonce differently, and
\* relay-fetch and relay-ack alike.  The nonce of a forward is an integer that
\* is printed, the nonce of a store is the client's string.
NonceStr(r) ==
    <<CASE r.kind \in {"store", "forward"} -> "bare"
        [] r.kind \in {"fetch", "ack"}     -> "fp"
        [] OTHER                           -> r.kind, r.nonce>>

Record == [fp : Fps, nonce : {NonceStr(r) : r \in Requests}, at : Nat, pos : Nat]

routing_epoch(t) == t \div ROUTING_EPOCH

\* check_timestamp_freshness, and the same test on the envelope.
FreshTs(r, t) == t - r.ts <= TOLERANCE /\ r.ts - t <= TOLERANCE

\* verify_recipient_tag: a tag the client computed from its clock must be the
\* one of the relay's current epoch.
TagMatches(r, t) ==
    (r.kind = "store" /\ HasSecret /\ r.blind)
        => routing_epoch(r.ts) = routing_epoch(t)

\* relay-fetch and relay-status test auth_hmac last, after the nonce; relay-purge
\* tests it before anything else.
Authorized(r) == HasSecret => r.auth

\* relay-read-receipt and relay-delete also reach a relay in a fresh envelope
\* of another relay; they test their own timestamp after the nonce.
Relayed == {"receipt", "delete"}

-----------------------------------------------------------------------------
(* verify_ml_dsa87_signature, for an authentic signature.                  *)

\* A key must be in the cache, put there by this request if it carries one.
Verifiable(r) == r.key \/ r.fp \in keyed

\* The verification succeeds; a sealed store is not verified at all.
Verified(r) ==
    IF r.sealed THEN UNCHANGED keyed
    ELSE Verifiable(r) /\ keyed' = keyed \cup {r.fp}

\* It fails: there is no key, or the lock of the cache, which is only tried,
\* is held by another handler, before or after the key was put in.
Unverified(r) ==
    /\ ~r.sealed
    /\ keyed' = keyed \/ (r.key /\ keyed' = keyed \cup {r.fp})

-----------------------------------------------------------------------------
(* check_and_record_nonce_str.                                             *)

Of(S, f) == {x \in S : x.fp = f}

Seen(r) == \E x \in Of(seen, r.fp) : x.nonce = NonceStr(r)

\* Mutant of Retained: a record that is exactly TOLERANCE old is evicted.
RetainedTooShort(S, f, t) == {x \in S : x.fp = f => x.at > t - TOLERANCE}

\* Evict the records of f that are older than the tolerance.
Retained(S, f, t) == {x \in S : x.fp = f => x.at >= t - TOLERANCE}

\* The newer half of a full Vec (drain(0..len/2)).
Drained(S, f) ==
    LET own == Of(S, f)
        older(x) == Cardinality({y \in own : y.pos < x.pos})
    IN  IF Cardinality(own) >= MAX_NONCES
        THEN {x \in S : x.fp = f => older(x) >= Cardinality(own) \div 2}
        ELSE S

NonceRecorded(S, r, t) ==
    Drained(Retained(S, r.fp, t), r.fp)
        \cup {[fp |-> r.fp, nonce |-> NonceStr(r), at |-> t, pos |-> pos]}

-----------------------------------------------------------------------------
Init ==
    /\ now = 0
    /\ seen = {} /\ pos = 0 /\ keyed = {}
    /\ asleep = {}
    /\ admitted = [r \in Requests |-> 0] /\ early = {} /\ cut = {}

\* The request was signed; a client's clock may be ahead of the relay's.
Signed(r) == r.ts <= now + ClockAhead

\* The nonces of f that the drain of a full Vec forgets at time t.
DrainedNonces(S, f, t) ==
    {<<x.fp, x.nonce>> : x \in Retained(S, f, t) \ Drained(Retained(S, f, t), f)}

Records(r) ==
    /\ pos < MaxRecords
    /\ seen' = NonceRecorded(seen, r, now)
    /\ pos' = pos + 1
    /\ early' = early \cup {q \in {r} : q.ts > now}
    /\ cut' = cut \cup DrainedNonces(seen, r.fp, now)

RecordsNot == UNCHANGED <<seen, pos, early, cut>>

\* A store and a forward verify the signature before the timestamp, whose
\* failure then leaves the key in the cache.
SignatureFirst == {"store", "forward"}

\* The checks of the arms of handle_message; ok says whether all have passed.
\* Every arm but relay-status verifies the signature before it records the
\* nonce; the recipient tag of a store and the HMAC of a fetch are tested last.
Checks(r, ok) ==
    \/ /\ \/ ~FreshTs(r, now) /\ r.kind \notin Relayed
          \/ ~Authorized(r) /\ r.kind = "purge"
       /\ IF r.kind \in SignatureFirst THEN Verified(r) \/ Unverified(r)
          ELSE UNCHANGED keyed
       /\ ok = FALSE
       /\ RecordsNot
    \/ /\ FreshTs(r, now) \/ r.kind \in Relayed
       /\ Authorized(r) \/ r.kind # "purge"
       /\ \/ /\ r.kind # "status" /\ Unverified(r)
             /\ ok = FALSE
             /\ RecordsNot
          \/ /\ Seen(r)
             /\ IF r.kind = "status" THEN UNCHANGED keyed ELSE Verified(r)
             /\ ok = FALSE
             /\ RecordsNot
          \/ /\ ~Seen(r) /\ Records(r)
             /\ Verified(r)
             /\ ok = /\ FreshTs(r, now) /\ TagMatches(r, now)
                     /\ Authorized(r) \/ r.kind \notin {"fetch", "status"}
          \/ /\ ~Seen(r) /\ Records(r)
             /\ r.kind = "status" /\ Unverified(r)
             /\ ok = FALSE

Arm(r, ok) ==
    /\ Checks(r, ok)
    /\ admitted' = IF ok THEN [admitted EXCEPT ![r] = @ + 1] ELSE admitted

\* A request that takes effect at once.
Handle(r) ==
    /\ r.kind \notin {"store", "forward"} /\ Signed(r)
    /\ \E ok \in BOOLEAN : Arm(r, ok)
    /\ UNCHANGED <<now, asleep>>

\* relay-store: first the checks, then the mix delay, then the effect.
HandleStore(r) ==
    /\ r.kind = "store" /\ Signed(r)
    /\ \E ok \in BOOLEAN :
          /\ Arm(r, ok)
          /\ asleep' = asleep \cup (IF ok THEN {[req |-> r, since |-> now]} ELSE {})
    /\ UNCHANGED now

\* relay-forward: first the mix delay, then the checks and the effect.  It is
\* ignored without a shared secret.
HandleForward(r) ==
    /\ r.kind = "forward" /\ Signed(r) /\ HasSecret
    /\ asleep' = asleep \cup {[req |-> r, since |-> now]}
    /\ UNCHANGED <<now, seen, pos, keyed, admitted, early, cut>>

\* A store takes effect, a forward is checked and takes effect.
Wake(s) ==
    /\ asleep' = asleep \ {s}
    /\ \/ /\ s.req.kind = "store"
          /\ UNCHANGED <<seen, pos, keyed, admitted, early, cut>>
       \/ /\ s.req.kind = "forward"
          /\ \E ok \in BOOLEAN : Arm(s.req, ok)
    /\ UNCHANGED now

\* Everything of this module is in memory.
Restart ==
    /\ MayRestart
    /\ seen' = {} /\ pos' = 0 /\ keyed' = {} /\ asleep' = {}
    /\ admitted' = [r \in Requests |-> 0] /\ early' = {} /\ cut' = {}
    /\ UNCHANGED now

Tick ==
    /\ now < MaxTime
    /\ \A s \in asleep : now < s.since + MIX_MAX_DELAY
    /\ now' = now + 1
    /\ UNCHANGED <<seen, pos, keyed, asleep, admitted, early, cut>>

Next ==
    \/ \E r \in Requests : Handle(r) \/ HandleStore(r) \/ HandleForward(r)
    \/ \E s \in asleep : Wake(s)
    \/ Restart
    \/ Tick

Spec == Init /\ [][Next]_vars

-----------------------------------------------------------------------------
(* Properties.                                                             *)

\* Every variable has its type.
TypeOK ==
    /\ now \in Nat /\ pos \in Nat
    /\ seen \subseteq Record
    /\ keyed \subseteq Fps
    /\ asleep \subseteq [req : Requests, since : Nat]
    /\ admitted \in [Requests -> Nat]
    /\ early \subseteq Requests
    /\ cut \subseteq Fps \X {NonceStr(r) : r \in Requests}

\* Between two starts of the relay a signed request takes effect at most once,
\* however often and however late it is delivered, and whether it sleeps
\* before or after its checks (check_and_record_nonce_str together with
\* check_timestamp_freshness); twice, and never more, if the client's clock was
\* ahead of the relay's when its nonce was recorded, since the record is then
\* forgotten before the timestamp is stale.  Only the drain of a full Vec lets
\* it take effect more often.
AtMostOnce ==
    \A r \in Requests :
        \/ admitted[r] <= IF r \in early THEN 2 ELSE 1
        \/ <<r.fp, NonceStr(r)>> \in cut

=============================================================================
