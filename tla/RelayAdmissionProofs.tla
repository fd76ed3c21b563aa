------------------------ MODULE RelayAdmissionProofs ------------------------
(***************************************************************************)
(* Proofs about RelayAdmission: the types of its variables, and how often  *)
(* a signed request may take effect between two starts.                    *)
(*                                                                         *)
(* The argument is about how long the record of a nonce is kept.  A record *)
(* made at time t survives until t + TOLERANCE, and a request is fresh     *)
(* until its timestamp + TOLERANCE: one that was recorded at or after its  *)
(* timestamp is remembered for as long as it is fresh.  One that was       *)
(* recorded before it is forgotten while still fresh, but then its second  *)
(* record is late enough.                                                  *)
(***************************************************************************)
EXTENDS RelayAdmission, TLAPS

\* What one arm does: it records nothing and admits nothing, or it records the
\* nonce of a request not seen before and may admit it if its time is fresh.
LEMMA ArmFacts ==
    ASSUME TypeOK, NEW r \in Requests, NEW ok \in BOOLEAN, Arm(r, ok)
    PROVE  \/ UNCHANGED <<seen, pos, early, cut, admitted>>
           \/ /\ Records(r) /\ ~Seen(r)
              /\ \/ UNCHANGED admitted
                 \/ /\ FreshTs(r, now)
                    /\ admitted' = [admitted EXCEPT ![r] = @ + 1]
PROOF
<1>1. \/ RecordsNot /\ ok = FALSE
      \/ Records(r) /\ ~Seen(r) /\ (ok => FreshTs(r, now))
  BY DEF Arm, Checks
<1> QED BY <1>1 DEF Arm, RecordsNot

LEMMA ArmTypes ==
    ASSUME TypeOK, NEW r \in Requests, NEW ok \in BOOLEAN, Arm(r, ok)
    PROVE  /\ seen' \subseteq Record /\ pos' \in Nat /\ keyed' \subseteq Fps
           /\ admitted' \in [Requests -> Nat] /\ early' \subseteq Requests
           /\ cut' \subseteq Fps \X {NonceStr(q) : q \in Requests}
PROOF
<1>1. r.fp \in Fps
  BY AdmissionAssumption DEF RequestType
<1>2. keyed' \subseteq Fps
  BY <1>1 DEF Arm, Checks, Verified, Unverified, TypeOK
<1>3. Retained(seen, r.fp, now) \subseteq seen
  BY DEF Retained
<1>4. NonceRecorded(seen, r, now) \subseteq Record
  <2>1. Drained(Retained(seen, r.fp, now), r.fp) \subseteq seen
    BY <1>3 DEF Drained
  <2>2. [fp |-> r.fp, nonce |-> NonceStr(r), at |-> now, pos |-> pos] \in Record
    BY <1>1 DEF Record, TypeOK
  <2> QED BY <2>1, <2>2 DEF NonceRecorded, TypeOK
<1>5. DrainedNonces(seen, r.fp, now) \subseteq Fps \X {NonceStr(q) : q \in Requests}
  BY <1>3 DEF DrainedNonces, TypeOK, Record
<1>6. CASE UNCHANGED <<seen, pos, early, cut, admitted>>
  BY <1>2, <1>6 DEF TypeOK
<1>7. CASE /\ Records(r)
           /\ \/ UNCHANGED admitted
              \/ admitted' = [admitted EXCEPT ![r] = @ + 1]
  <2>1. admitted' \in [Requests -> Nat]
    BY <1>7 DEF TypeOK
  <2> QED BY <1>2, <1>4, <1>5, <1>7, <2>1 DEF Records, TypeOK
<1> QED BY <1>6, <1>7, ArmFacts

\* Every step keeps the types.
LEMMA NextTypes ==
    ASSUME TypeOK, [Next]_vars
    PROVE  TypeOK'
PROOF
<1> USE DEF TypeOK
<1>1. ASSUME NEW r \in Requests, Handle(r)
      PROVE  TypeOK'
  BY <1>1, ArmTypes DEF Handle
<1>2. ASSUME NEW r \in Requests, HandleStore(r)
      PROVE  TypeOK'
  <2>1. PICK ok \in BOOLEAN :
            /\ Arm(r, ok)
            /\ asleep' = asleep \cup (IF ok THEN {[req |-> r, since |-> now]} ELSE {})
    BY <1>2 DEF HandleStore
  <2>2. asleep' \subseteq [req : Requests, since : Nat]
    BY <2>1
  <2> QED BY <1>2, <2>1, <2>2, ArmTypes DEF HandleStore
<1>3. ASSUME NEW r \in Requests, HandleForward(r)
      PROVE  TypeOK'
  BY <1>3 DEF HandleForward
<1>4. ASSUME NEW s \in asleep, Wake(s)
      PROVE  TypeOK'
  <2>1. s.req \in Requests
    OBVIOUS
  <2>2. asleep' \subseteq [req : Requests, since : Nat] /\ now' = now
    BY <1>4 DEF Wake
  <2>3. CASE UNCHANGED <<seen, pos, keyed, admitted, early, cut>>
    BY <2>2, <2>3
  <2>4. CASE \E ok \in BOOLEAN : Arm(s.req, ok)
    BY <2>1, <2>2, <2>4, ArmTypes
  <2> QED BY <1>4, <2>3, <2>4 DEF Wake
<1>5. CASE Restart
  BY <1>5 DEF Restart
<1>6. CASE Tick
  BY <1>6 DEF Tick
<1>7. CASE UNCHANGED vars
  BY <1>7 DEF vars
<1> QED BY <1>1, <1>2, <1>3, <1>4, <1>5, <1>6, <1>7 DEF Next

\* Type correctness of RelayAdmission: seen_nonce_strs, the key cache and the
\* tasks in their mix delay hold only what their types allow.
THEOREM TypeCorrect == Spec => []TypeOK
PROOF
<1>1. Init => TypeOK
  BY DEF Init, TypeOK
<1>2. TypeOK /\ [Next]_vars => TypeOK'
  BY NextTypes
<1> QED BY <1>1, <1>2, PTL DEF Spec

-----------------------------------------------------------------------------
(* How often a request takes effect.                                       *)

\* The nonce of the request was lost to the drain of a full Vec.
Lost(r) == <<r.fp, NonceStr(r)>> \in cut

\* The nonce of the request has a record made at time t or later.
Since(r, t) == \E x \in seen : x.fp = r.fp /\ x.nonce = NonceStr(r) /\ x.at >= t

\* What is remembered of a request that was admitted: while its timestamp is
\* ahead, a record that is kept until then; and, if it must not be admitted
\* again, a record that is kept for as long as it is fresh.
Memory(r) ==
    /\ admitted[r] <= IF r \in early THEN 2 ELSE 1
    /\ admitted[r] >= 1 /\ now <= r.ts => Since(r, r.ts - TOLERANCE)
    /\ (admitted[r] = 2 \/ (admitted[r] = 1 /\ r \notin early)) /\ now <= r.ts + TOLERANCE
          => Since(r, r.ts)

\* The inductive invariant.
Remembers == TypeOK /\ \A r \in Requests : Lost(r) \/ Memory(r)

\* A record that is not too old survives the recording of another nonce,
\* unless the drain takes it.
LEMMA RecordingKeeps ==
    ASSUME TypeOK, NEW q \in Requests, Records(q), NEW r \in Requests, ~Lost(r)',
           NEW t \in Int, Since(r, t), now <= t + TOLERANCE
    PROVE  Since(r, t)'
PROOF
<1> DEFINE R == Retained(seen, q.fp, now)
<1>1. PICK x \in seen : x.fp = r.fp /\ x.nonce = NonceStr(r) /\ x.at >= t
  BY DEF Since
<1>2. x.at \in Nat /\ now \in Nat /\ TOLERANCE \in Nat
  BY AdmissionAssumption DEF TypeOK, Record
<1>3. x.at >= now - TOLERANCE
  BY <1>1, <1>2
<1>4. x \in R
  BY <1>3 DEF Retained
<1>5. x \in Drained(R, q.fp)
  <2>1. SUFFICES ASSUME x \notin Drained(R, q.fp) PROVE FALSE
    OBVIOUS
  <2>2. <<x.fp, x.nonce>> \in cut'
    BY <1>4, <2>1 DEF Records, DrainedNonces
  <2> QED BY <1>1, <2>2 DEF Lost
<1>6. x \in seen'
  BY <1>5 DEF Records, NonceRecorded
<1> QED BY <1>1, <1>6 DEF Since

\* The record that is made now.
LEMMA RecordedNow ==
    ASSUME TypeOK, NEW q \in Requests, Records(q)
    PROVE  \A t \in Int : t <= now => Since(q, t)'
PROOF
<1> DEFINE new == [fp |-> q.fp, nonce |-> NonceStr(q), at |-> now, pos |-> pos]
<1>1. new \in seen' /\ new.fp = q.fp /\ new.nonce = NonceStr(q) /\ new.at = now
  BY DEF Records, NonceRecorded
<1>2. now \in Nat
  BY DEF TypeOK
<1> HIDE DEF new
<1> QED BY <1>1, <1>2 DEF Since

\* A step in which the arm of request q runs.
LEMMA ArmRemembers ==
    ASSUME Remembers, NEW q \in Requests, NEW ok \in BOOLEAN, Arm(q, ok), now' = now,
           NEW r \in Requests
    PROVE  (Lost(r) \/ Memory(r))'
PROOF
<1> USE DEF Remembers
<1>0. /\ r.ts \in Nat /\ q.ts \in Nat /\ now \in Nat /\ TOLERANCE \in Nat
      /\ admitted[r] \in Nat
  BY AdmissionAssumption DEF TypeOK, RequestType
<1>1. CASE UNCHANGED <<seen, pos, early, cut, admitted>>
  BY <1>1 DEF Lost, Memory, Since
<1>2. ASSUME Records(q), ~Seen(q),
             \/ UNCHANGED admitted
             \/ /\ FreshTs(q, now)
                /\ admitted' = [admitted EXCEPT ![q] = @ + 1]
      PROVE  (Lost(r) \/ Memory(r))'
  <2> SUFFICES ASSUME ~Lost(r)' PROVE Memory(r)'
    OBVIOUS
  <2>1. Memory(r)
    BY <1>2 DEF Lost, Records
  <2>2. \A t \in Int : Since(r, t) /\ now <= t + TOLERANCE => Since(r, t)'
    BY <1>2, RecordingKeeps
  <2>3. early \subseteq early' /\ (r \in early' => r \in early \/ r = q)
    BY <1>2 DEF Records
  <2>4. CASE admitted'[r] = admitted[r]
    <3>1. admitted'[r] <= IF r \in early' THEN 2 ELSE 1
      BY <1>0, <2>1, <2>3, <2>4 DEF Memory
    <3>2. r.ts - TOLERANCE \in Int /\ now <= r.ts => now <= (r.ts - TOLERANCE) + TOLERANCE
      BY <1>0
    <3>3. admitted'[r] >= 1 /\ now <= r.ts => Since(r, r.ts - TOLERANCE)'
      BY <1>0, <2>1, <2>2, <2>4, <3>2 DEF Memory
    <3>4. (admitted'[r] = 2 \/ (admitted'[r] = 1 /\ r \notin early'))
              /\ now <= r.ts + TOLERANCE => Since(r, r.ts)'
      BY <1>0, <2>1, <2>2, <2>3, <2>4 DEF Memory
    <3> QED BY <3>1, <3>3, <3>4 DEF Memory
  <2>5. CASE r = q /\ FreshTs(q, now) /\ admitted'[r] = admitted[r] + 1
    <3>1. now <= r.ts + TOLERANCE /\ r.ts <= now + TOLERANCE
      BY <1>0, <2>5 DEF FreshTs
    <3>2. \A t \in Int : ~Since(r, t)
      BY <1>2, <2>5 DEF Seen, Of, Since
    <3>3. r.ts \in Int /\ r.ts - TOLERANCE \in Int /\ r.ts - TOLERANCE <= now
      BY <1>0, <3>1
    <3>4. admitted[r] = 0 \/ (admitted[r] = 1 /\ r \in early /\ r.ts < now)
      <4>1. ~(admitted[r] = 2 \/ (admitted[r] = 1 /\ r \notin early))
        BY <2>1, <3>1, <3>2, <3>3 DEF Memory
      <4>2. admitted[r] <= 2
        BY <1>0, <2>1 DEF Memory
      <4>3. admitted[r] >= 1 => ~(now <= r.ts)
        BY <2>1, <3>2, <3>3 DEF Memory
      <4> QED BY <1>0, <4>1, <4>2, <4>3
    <3>5. r \in early' <=> r \in early \/ r.ts > now
      BY <1>2, <2>5 DEF Records
    <3>6. admitted'[r] <= IF r \in early' THEN 2 ELSE 1
      BY <1>0, <2>5, <3>4, <3>5
    <3>7. Since(r, r.ts - TOLERANCE)'
      BY <1>2, <2>5, <3>3, RecordedNow
    <3>8. (admitted'[r] = 2 \/ (admitted'[r] = 1 /\ r \notin early')) => Since(r, r.ts)'
      <4>1. SUFFICES ASSUME admitted'[r] = 2 \/ (admitted'[r] = 1 /\ r \notin early')
                     PROVE  r.ts <= now
        BY <1>2, <2>5, <3>3, RecordedNow
      <4> QED BY <1>0, <2>5, <3>4, <3>5, <4>1
    <3> QED BY <3>6, <3>7, <3>8 DEF Memory
  <2> QED BY <1>2, <2>4, <2>5 DEF TypeOK
<1> QED BY <1>1, <1>2, ArmFacts

LEMMA NextRemembers ==
    ASSUME Remembers, [Next]_vars
    PROVE  Remembers'
PROOF
<1>0. TypeOK'
  BY NextTypes DEF Remembers
<1> SUFFICES ASSUME NEW r \in Requests PROVE (Lost(r) \/ Memory(r))'
  BY <1>0 DEF Remembers
<1>1. ASSUME NEW q \in Requests, NEW ok \in BOOLEAN, Arm(q, ok), now' = now
      PROVE  (Lost(r) \/ Memory(r))'
  BY <1>1, ArmRemembers
<1>2. ASSUME NEW q \in Requests, Handle(q) \/ HandleStore(q)
      PROVE  (Lost(r) \/ Memory(r))'
  BY <1>1, <1>2 DEF Handle, HandleStore
<1>3. CASE UNCHANGED <<now, seen, admitted, early, cut>>
  BY <1>3 DEF Remembers, Lost, Memory, Since
<1>4. ASSUME NEW s \in asleep, Wake(s)
      PROVE  (Lost(r) \/ Memory(r))'
  <2>1. s.req \in Requests
    BY DEF Remembers, TypeOK
  <2> QED BY <1>1, <1>3, <1>4, <2>1 DEF Wake
<1>5. CASE Restart
  BY <1>5 DEF Restart, Memory
<1>6. CASE Tick
  <2>1. now \in Nat /\ r.ts \in Nat /\ TOLERANCE \in Nat
    BY AdmissionAssumption DEF Remembers, TypeOK, RequestType
  <2>2. now' = now + 1 /\ UNCHANGED <<seen, admitted, early, cut>>
    BY <1>6 DEF Tick
  <2> QED BY <2>1, <2>2 DEF Remembers, Lost, Memory, Since
<1> QED BY <1>2, <1>3, <1>4, <1>5, <1>6 DEF Next, vars, HandleForward

\* Duplicate suppression (check_and_record_nonce_str with
\* check_timestamp_freshness), for every tolerance, cap and clock: between two
\* starts a request takes effect at most once, or twice if its nonce was once
\* recorded before its timestamp, unless a full Vec has drained its nonce.
THEOREM EffectOnce == Spec => []AtMostOnce
PROOF
<1>1. Init => Remembers
  BY DEF Init, Remembers, TypeOK, Memory
<1>2. Remembers /\ [Next]_vars => Remembers'
  BY NextRemembers
<1>3. Remembers => AtMostOnce
  BY DEF Remembers, Memory, Lost, AtMostOnce
<1> QED BY <1>1, <1>2, <1>3, PTL DEF Spec

=============================================================================
