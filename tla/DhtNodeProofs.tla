---------------------------- MODULE DhtNodeProofs ----------------------------
(***************************************************************************)
(* Proofs about DhtNode: a request that was stored is refused when it is   *)
(* delivered again, and the sequence number of a row falls only in a race; *)
(* about Presence: the records of a listener last and are current; and     *)
(* about RateLimiter and RelayConnections: nobody exceeds a limit.         *)
(*                                                                         *)
(* The argument of the first is about time.  A stored request has its      *)
(* nonce in the nonce log with a time that is not before the request's     *)
(* own, because the entry was not there when the request was checked.  As  *)
(* long as the request is fresh such an entry is too young to be pruned.   *)
(***************************************************************************)
EXTENDS DhtNode, Presence, RelayConnections, DataFacts, FiniteSetTheorems, TLAPS

Founds == {"live", "lapsed", "none"}
Phases == {"capped", "unseen", "unlogged", "newer", "stored"}
Request == [id : Nat, key : Keys, seq : Nat, nonce : Nonces, ts : Nat, found : Founds]
Handler == [n : Nat, req : Request, phase : Phases, late : BOOLEAN,
            raced : BOOLEAN, expires : Nat]
Solving == [state : {"solving"}, key : Keys, found : Founds, seq : Nat]

\* The types of the variables; those of `seen' do not matter below.
DhtTypeOK ==
    /\ now \in Nat
    /\ kv \in [Keys \cup Blobs -> [seq : Int, by : Nat, expires : Nat]]
    /\ log \subseteq [key : Keys, nonce : Nonces, at : Nat]
    /\ handlers \subseteq Handler
    /\ client \in [Clients -> {Idle} \cup Solving]
    /\ sent \subseteq Request
    /\ stored \subseteq Nat

\* A request has one number, and a number that is stored is of a request.
Numbered ==
    /\ IsFiniteSet(sent)
    /\ \A m \in sent : m.id <= Cardinality(sent)
    /\ \A m1, m2 \in sent : m1.id = m2.id => m1 = m2
    /\ \A i \in stored : i <= Cardinality(sent)

\* The nonce log has the nonce of m, recorded when m existed.
Covered(m) ==
    \E e \in log : e.key = m.key /\ e.nonce = m.nonce /\ e.at >= m.ts

\* m may still be handled.
Alive(m) == now <= m.ts + MaxAge + 1

\* What holds of a handler between two of its steps.
Good(h) ==
    /\ h.req \in sent
    /\ Alive(h.req)
    /\ h.late => h.req.id \in stored /\ h.phase \in {"capped", "unseen"}
    /\ h.phase \in {"unlogged", "newer"} =>
          \A e \in log : e.key = h.req.key /\ e.nonce = h.req.nonce
                            => e.at >= h.req.ts
    /\ h.phase = "newer" /\ ~h.raced => kv[h.req.key].seq < h.req.seq

\* The inductive invariant.
Protected ==
    /\ DhtTypeOK
    /\ Numbered
    /\ \A m \in sent : m.ts <= now
    /\ \A m \in sent : m.id \in stored /\ Alive(m) => Covered(m)
    /\ \A h \in handlers : Good(h)

-----------------------------------------------------------------------------
(* Lemmas: steps that leave most of the state alone.                       *)

\* A step that only moves handlers is safe when the new ones are good.
LEMMA HandlerStep ==
    ASSUME Protected,
           UNCHANGED <<now, kv, log, client, sent, stored>>,
           handlers' \subseteq Handler,
           \A g \in handlers' : Good(g)
    PROVE  Protected'
PROOF
<1>1. DhtTypeOK'
  BY DEF Protected, DhtTypeOK
<1>2. Numbered'
  BY DEF Protected, Numbered
<1>3. \A g \in handlers' : Good(g)'
  BY DEF Good, Alive
<1> QED BY <1>1, <1>2, <1>3 DEF Protected, Covered, Alive

\* A handler that ends, or goes to a phase it is good in, keeps the invariant.
LEMMA PhaseStep ==
    ASSUME Protected, NEW h \in handlers, NEW ph \in Phases,
           UNCHANGED <<now, kv, log, client, sent, stored>>,
           End(h) \/ (To(h, ph) /\ Good([h EXCEPT !.phase = ph]))
    PROVE  Protected'
PROOF
<1>1. h \in Handler /\ handlers \subseteq Handler
  BY DEF Protected, DhtTypeOK
<1>2. [h EXCEPT !.phase = ph] \in Handler
  BY <1>1 DEF Handler
<1>3. handlers' \subseteq Handler
  BY <1>1, <1>2 DEF End, To
<1>4. \A g \in handlers' : Good(g)
  BY DEF End, To, Protected
<1> QED BY <1>3, <1>4, HandlerStep

-----------------------------------------------------------------------------
\* A request is sent: it has a new number and is not stored.
LEMMA RegisterStep ==
    ASSUME Protected, NEW c \in Clients, NEW n \in Nonces, dht_register(c, n)
    PROVE  Protected'
PROOF
<1> DEFINE id == Cardinality(sent) + 1
           m == [id |-> id, key |-> client[c].key, seq |-> client[c].seq,
                 nonce |-> n, ts |-> now, found |-> client[c].found]
<1>1. /\ client[c].state = "solving"
      /\ sent' = sent \cup {m}
      /\ client' = [client EXCEPT ![c] = Idle]
      /\ UNCHANGED <<now, kv, log, seen, handlers, stored>>
  BY DEF dht_register
<1>2. client[c] \in Solving
  BY <1>1 DEF Protected, DhtTypeOK, Idle
<1>3. Cardinality(sent) \in Nat
  BY FS_CardinalityType DEF Protected, Numbered
<1>4. m \in Request
  BY <1>2, <1>3 DEF Request, Solving, Protected, DhtTypeOK
<1>5. DhtTypeOK'
  BY <1>1, <1>4 DEF Protected, DhtTypeOK
<1>6. m \notin sent
  <2>1. \A x \in sent : x.id \in Nat /\ x.id <= Cardinality(sent)
    BY DEF Protected, DhtTypeOK, Numbered, Request
  <2> QED BY <1>3, <2>1
<1>7. IsFiniteSet(sent') /\ Cardinality(sent') = id
  BY <1>1, <1>6, FS_AddElement DEF Protected, Numbered
<1>8. Numbered'
  <2>1. \A x \in sent : x.id \in Nat /\ x.id <= Cardinality(sent)
    BY DEF Protected, DhtTypeOK, Numbered, Request
  <2>2. \A i \in stored : i \in Nat /\ i <= Cardinality(sent)
    BY DEF Protected, DhtTypeOK, Numbered
  <2>3. m.id = id
    OBVIOUS
  <2>4. \A x \in sent : x.id # id /\ x.id <= id
    BY <1>3, <2>1
  <2>5. \A i \in stored : i <= id
    BY <1>3, <2>2
  <2>6. \A m1, m2 \in sent : m1.id = m2.id => m1 = m2
    BY DEF Protected, Numbered
  <2>7. \A m1, m2 \in sent' : m1.id = m2.id => m1 = m2
    <3> HIDE DEF m
    <3> QED BY <1>1, <2>3, <2>4, <2>6
  <2>8. \A x \in sent' : x.id <= Cardinality(sent')
    BY <1>1, <1>3, <1>7, <2>3, <2>4
  <2>9. \A i \in stored' : i <= Cardinality(sent')
    BY <1>1, <1>7, <2>5
  <2> QED BY <1>7, <2>7, <2>8, <2>9 DEF Numbered
<1>9. m.id \notin stored
  BY <1>3 DEF Protected, DhtTypeOK, Numbered
<1>10. m.ts = now /\ now \in Nat
  BY DEF Protected, DhtTypeOK
<1>11. \A x \in sent' : x.ts <= now'
  BY <1>1, <1>10 DEF Protected
<1>12. \A x \in sent' : x.id \in stored' /\ Alive(x)' => Covered(x)'
  BY <1>1, <1>9 DEF Protected, Alive, Covered
<1>13. \A h \in handlers' : Good(h)'
  <2> HIDE DEF m
  <2> QED BY <1>1 DEF Protected, Good, Alive
<1> QED BY <1>5, <1>8, <1>11, <1>12, <1>13 DEF Protected

\* A request arrives.
LEMMA ArriveStep ==
    ASSUME Protected, NEW m \in sent, arrive(m)
    PROVE  Protected'
PROOF
<1>1. PICK n \in 1..MaxHandlers :
         /\ Fresh(m)
         /\ handlers' = handlers \cup
             {[n |-> n, req |-> m, phase |-> "capped", late |-> m.id \in stored,
              raced |-> FALSE, expires |-> 0]}
         /\ UNCHANGED <<now, kv, log, seen, client, sent, stored>>
  BY DEF arrive
<1> DEFINE new == [n |-> n, req |-> m, phase |-> "capped", late |-> m.id \in stored,
                   raced |-> FALSE, expires |-> 0]
<1>2. m \in Request /\ now \in Nat /\ handlers \subseteq Handler
  BY DEF Protected, DhtTypeOK
<1>3. new \in Handler
  BY <1>2 DEF Handler, Phases
<1>4. now <= m.ts + MaxAge + 1
  <2>1. m.ts \in Nat
    BY <1>2 DEF Request
  <2> QED BY <1>1, <1>2, <2>1, DhtAssumption DEF Fresh
<1>5. Good(new)
  BY <1>4 DEF Good, Alive
<1>6. handlers' \subseteq Handler /\ \A g \in handlers' : Good(g)
  <2> HIDE DEF new
  <2> QED BY <1>1, <1>2, <1>3, <1>5 DEF Protected, new
<1> QED BY <1>1, <1>6, HandlerStep

\* check_log: a request that was stored is in the log, so it ends here.
LEMMA CheckLogStep ==
    ASSUME Protected, NEW h \in handlers, check_log(h)
    PROVE  Protected'
PROOF
<1>1. h.phase = "unseen" /\ UNCHANGED <<now, kv, log, client, sent, stored>>
  BY DEF check_log
<1>2. h \in Handler /\ Good(h)
  BY DEF Protected, DhtTypeOK
<1>3. CASE NonceSeen(h.req.key, h.req.nonce)
  <2>1. End(h)
    BY <1>3 DEF check_log
  <2> QED BY <1>1, <2>1, PhaseStep DEF Phases
<1>4. CASE ~NonceSeen(h.req.key, h.req.nonce)
  <2>1. To(h, "unlogged")
    BY <1>4 DEF check_log
  <2>2. ~Covered(h.req)
    BY <1>4 DEF Covered, NonceSeen
  <2>3. ~h.late
    BY <1>2, <2>2 DEF Good, Protected
  <2>4. Good([h EXCEPT !.phase = "unlogged"])
    <3> DEFINE g == [h EXCEPT !.phase = "unlogged"]
    <3>1. g.req = h.req /\ g.late = h.late /\ g.phase = "unlogged"
      BY <1>2 DEF Handler
    <3>2. \A e \in log : ~(e.key = h.req.key /\ e.nonce = h.req.nonce)
      BY <1>4 DEF NonceSeen
    <3> QED BY <1>2, <2>3, <3>1, <3>2 DEF Good
  <2> QED BY <1>1, <2>1, <2>4, PhaseStep DEF Phases
<1> QED BY <1>3, <1>4

\* check_seq: the number read is lower than the request's.
LEMMA CheckSeqStep ==
    ASSUME Protected, NEW h \in handlers, check_seq(h)
    PROVE  Protected'
PROOF
<1>1. h.phase = "unlogged" /\ UNCHANGED <<now, kv, log, client, sent, stored>>
  BY DEF check_seq
<1>2. h \in Handler /\ Good(h) /\ now \in Nat /\ handlers \subseteq Handler
  BY DEF Protected, DhtTypeOK
<1>3. CASE Stale(h)
  <2>1. End(h)
    BY <1>3 DEF check_seq, End
  <2> QED BY <1>1, <2>1, PhaseStep DEF Phases
<1>4. CASE ~Stale(h)
  <2> DEFINE g == [h EXCEPT !.phase = "newer", !.expires = now + TTL]
  <2>1. handlers' = (handlers \ {h}) \cup {g}
    BY <1>4 DEF check_seq
  <2>2. g \in Handler
    <3>1. now + TTL \in Nat
      BY <1>2, DhtAssumption
    <3> QED BY <1>2, <3>1 DEF Handler, Phases
  <2>3. g.req = h.req /\ g.late = h.late /\ g.raced = h.raced /\ g.phase = "newer"
    BY <1>2 DEF Handler
  <2>4. kv[h.req.key].seq < h.req.seq
    <3>1. h.req.key \in Keys /\ h.req.seq \in Nat
      BY <1>2 DEF Handler, Request
    <3>2. kv[h.req.key].seq \in Int
      BY <3>1 DEF Protected, DhtTypeOK
    <3> QED BY <1>4, <3>1, <3>2 DEF Stale
  <2>5. Good(g)
    <3> HIDE DEF g
    <3> QED BY <1>1, <1>2, <2>3, <2>4 DEF Good
  <2>6. handlers' \subseteq Handler /\ \A x \in handlers' : Good(x)
    <3> HIDE DEF g
    <3> QED BY <1>2, <2>1, <2>2, <2>5 DEF Protected
  <2> QED BY <1>1, <2>6, HandlerStep
<1> QED BY <1>3, <1>4

\* The transaction: the nonce is in the log afterwards, with a time that is
\* not before the request's, whoever put it there.
LEMMA CommitStep ==
    ASSUME Protected, NEW h \in handlers, commit(h)
    PROVE  Protected'
PROOF
<1> DEFINE m == h.req
           s == [h EXCEPT !.phase = "stored", !.raced = FALSE, !.expires = 0]
           mark(x) == [x EXCEPT !.raced = TRUE]
<1>1. /\ h.phase = "newer"
      /\ log' = Logged(m.key, m.nonce)
      /\ kv' = [kv EXCEPT ![m.key] = [seq |-> m.seq, by |-> m.id, expires |-> h.expires]]
      /\ handlers' = (handlers \ (Raced(h) \cup {h}))
                        \cup {mark(x) : x \in Raced(h)} \cup {s}
      /\ stored' = stored \cup {m.id}
      /\ UNCHANGED <<now, client, sent>>
  BY DEF commit, Commit
<1>2. /\ h \in Handler /\ Good(h) /\ now \in Nat /\ m \in sent /\ m \in Request
      /\ handlers \subseteq Handler /\ sent \subseteq Request
  BY DEF Protected, DhtTypeOK, Handler, Good
<1>3. m.key \in Keys /\ m.seq \in Nat /\ m.id \in Nat /\ m.ts \in Nat /\ m.nonce \in Nonces
  BY <1>2 DEF Request
<1>4. log \subseteq log' /\ \A e \in log' : e \in log \/ e.at = now
  BY <1>1 DEF Logged
<1>5. log' \subseteq [key : Keys, nonce : Nonces, at : Nat]
  BY <1>1, <1>2, <1>3 DEF Logged, Protected, DhtTypeOK
<1>6. kv' \in [Keys \cup Blobs -> [seq : Int, by : Nat, expires : Nat]]
  <2>1. h.expires \in Nat
    BY <1>2 DEF Handler
  <2> QED BY <1>1, <1>3, <2>1 DEF Protected, DhtTypeOK
<1>7. s \in Handler /\ s.req = m /\ s.late = h.late /\ s.phase = "stored"
  BY <1>2 DEF Handler, Phases
<1>8. \A x \in Raced(h) : /\ x \in handlers /\ x \in Handler /\ mark(x) \in Handler
                          /\ mark(x).req = x.req /\ mark(x).late = x.late
                          /\ mark(x).phase = x.phase /\ mark(x).raced = TRUE
  BY <1>2 DEF Raced, Handler
<1>9. handlers' \subseteq Handler
  <2> HIDE DEF s, mark
  <2> QED BY <1>1, <1>2, <1>7, <1>8
<1>10. DhtTypeOK'
  BY <1>1, <1>3, <1>5, <1>6, <1>9 DEF Protected, DhtTypeOK
<1>11. Numbered'
  BY <1>1, <1>2 DEF Protected, Numbered
<1>12. Covered(m)'
  <2>1. CASE NonceSeen(m.key, m.nonce)
    <3>1. PICK e \in log : e.key = m.key /\ e.nonce = m.nonce
      BY <2>1 DEF NonceSeen
    <3>2. e.at >= m.ts
      BY <1>1, <1>2, <3>1 DEF Good
    <3> QED BY <1>4, <3>1, <3>2 DEF Covered
  <2>2. CASE ~NonceSeen(m.key, m.nonce)
    <3>1. [key |-> m.key, nonce |-> m.nonce, at |-> now] \in log'
      BY <1>1, <2>2 DEF Logged
    <3>2. now >= m.ts
      BY <1>2, <1>3 DEF Protected
    <3> QED BY <3>1, <3>2 DEF Covered
  <2> QED BY <2>1, <2>2
<1>13. \A x \in sent' : x.id \in stored' /\ Alive(x)' => Covered(x)'
  <2> SUFFICES ASSUME NEW x \in sent, x.id \in stored', Alive(x)' PROVE Covered(x)'
    BY <1>1
  <2>1. CASE x.id = m.id
    BY <1>2, <1>12, <2>1 DEF Protected, Numbered
  <2>2. CASE x.id \in stored
    <3>1. Alive(x)
      BY <1>1 DEF Alive
    <3>2. Covered(x)
      BY <2>2, <3>1 DEF Protected
    <3> QED BY <1>4, <3>2 DEF Covered
  <2> QED BY <1>1, <2>1, <2>2
<1>14. \A x \in sent' : x.ts <= now'
  BY <1>1 DEF Protected
<1>15. ASSUME NEW x \in handlers, NEW y \in Handler,
              y.req = x.req, y.late = x.late, y.phase = x.phase,
              y.phase = "newer" /\ ~y.raced => ~x.raced /\ x.req.key # m.key
       PROVE  Good(y)'
  <2>1. Good(x) /\ x \in Handler /\ x.req \in Request /\ x.req.ts \in Nat
    BY <1>2 DEF Protected, Handler, Request
  <2>2. y.req \in sent' /\ Alive(y.req)'
    BY <1>1, <1>15, <2>1 DEF Good, Alive
  <2>3. y.late => y.req.id \in stored' /\ y.phase \in {"capped", "unseen"}
    BY <1>1, <1>15, <2>1 DEF Good
  <2>4. \A e \in log' : y.phase \in {"unlogged", "newer"} /\ e.key = y.req.key
                           /\ e.nonce = y.req.nonce => e.at >= y.req.ts
    <3>1. x.req.ts <= now
      BY <2>1 DEF Good, Protected
    <3> QED BY <1>2, <1>4, <1>15, <2>1, <3>1 DEF Good
  <2>5. y.phase = "newer" /\ ~y.raced => kv'[y.req.key].seq < y.req.seq
    <3> SUFFICES ASSUME y.phase = "newer", ~y.raced
                 PROVE  kv'[y.req.key].seq < y.req.seq
      OBVIOUS
    <3>1. x.req.key \in Keys
      BY <2>1 DEF Request
    <3>2. kv'[x.req.key] = kv[x.req.key]
      BY <1>1, <1>15, <3>1 DEF Protected, DhtTypeOK
    <3> QED BY <1>15, <2>1, <3>2 DEF Good
  <2> QED BY <2>2, <2>3, <2>4, <2>5 DEF Good
<1>16. ASSUME NEW g \in handlers'
       PROVE  Good(g)'
  <2>1. CASE g \in handlers \ (Raced(h) \cup {h})
    <3>1. g.phase = "newer" /\ ~g.raced => g.req.key # m.key
      BY <2>1 DEF Raced
    <3> QED BY <1>2, <1>15, <2>1, <3>1
  <2>2. CASE \E x \in Raced(h) : g = mark(x)
    <3>1. PICK x \in Raced(h) : g = mark(x)
      BY <2>2
    <3>2. g \in Handler /\ g.req = x.req /\ g.late = x.late /\ g.phase = x.phase /\ g.raced
      BY <1>8, <3>1
    <3> QED BY <1>8, <1>15, <3>2
  <2>3. CASE g = s
    <3> HIDE DEF s
    <3>1. ~h.late
      BY <1>1, <1>2 DEF Good
    <3> QED BY <1>1, <1>2, <1>7, <2>3, <3>1 DEF Good, Alive
  <2> QED BY <1>1, <2>1, <2>2, <2>3
<1> HIDE DEF s, mark
<1> QED BY <1>10, <1>11, <1>13, <1>14, <1>16 DEF Protected

\* The clean-up of the nonce log leaves what a live request needs.
LEMMA PruneLogStep ==
    ASSUME Protected, prune_log
    PROVE  Protected'
PROOF
<1>1. /\ log' = {e \in log : ~Outdated(e)}
      /\ UNCHANGED <<now, kv, seen, handlers, client, sent, stored>>
  BY DEF prune_log
<1>2. DhtTypeOK' /\ Numbered'
  BY <1>1 DEF Protected, DhtTypeOK, Numbered
<1>3. \A x \in sent : Alive(x) /\ Covered(x) => Covered(x)'
  <2> SUFFICES ASSUME NEW x \in sent, Alive(x), Covered(x) PROVE Covered(x)'
    OBVIOUS
  <2>1. PICK e \in log : e.key = x.key /\ e.nonce = x.nonce /\ e.at >= x.ts
    BY DEF Covered
  <2>2. e.at \in Nat /\ x.ts \in Nat /\ now \in Nat
    BY DEF Protected, DhtTypeOK, Request
  <2>3. ~Outdated(e)
    BY <2>1, <2>2, DhtAssumption DEF Alive, Outdated
  <2> QED BY <1>1, <2>1, <2>3 DEF Covered
<1>4. \A x \in sent' : x.id \in stored' /\ Alive(x)' => Covered(x)'
  BY <1>1, <1>3 DEF Protected, Alive
<1>5. \A h \in handlers' : Good(h)'
  BY <1>1 DEF Protected, Good, Alive
<1> QED BY <1>1, <1>2, <1>4, <1>5 DEF Protected

\* Time passes while every handler has time left.
LEMMA TickStep ==
    ASSUME Protected, DhtTick
    PROVE  Protected'
PROOF
<1>1. /\ \A h \in handlers : now + 1 <= h.req.ts + MaxAge + 1
      /\ now' = now + 1 /\ UNCHANGED <<kv, log, handlers, client, sent, stored>>
  BY DEF DhtTick
<1>2. DhtTypeOK' /\ Numbered'
  BY <1>1 DEF Protected, DhtTypeOK, Numbered
<1>3. now \in Nat /\ \A x \in sent : x.ts \in Nat
  BY DEF Protected, DhtTypeOK, Request
<1>4. \A x \in sent : x.ts <= now' /\ (Alive(x)' => Alive(x))
  BY <1>1, <1>3, DhtAssumption DEF Protected, Alive
<1>5. \A x \in sent' : x.id \in stored' /\ Alive(x)' => Covered(x)'
  BY <1>1, <1>4 DEF Protected, Covered
<1>6. \A h \in handlers' : Good(h)'
  BY <1>1 DEF Protected, Good, Alive
<1> QED BY <1>1, <1>2, <1>4, <1>5, <1>6 DEF Protected

\* The other steps of clients, and blobs, whose keys are others.
LEMMA OtherSteps ==
    ASSUME Protected,
           \/ \E c \in Clients : (\E k \in Keys : dht_get(c, k)) \/ register_fails(c)
           \/ \E b \in Blobs : blob_put(b)
           \/ prune_seen \/ restart \/ UNCHANGED dhtvars
    PROVE  Protected'
PROOF
<1>1. ASSUME NEW c \in Clients, NEW k \in Keys, dht_get(c, k)
      PROVE  Protected'
  <2>1. /\ client' = [client EXCEPT ![c] =
                         [state |-> "solving", key |-> k, found |-> Found(k),
                          seq |-> IF Get(k) THEN now ELSE 0]]
        /\ UNCHANGED <<now, kv, log, seen, handlers, sent, stored>>
    BY <1>1 DEF dht_get
  <2>2. Found(k) \in Founds /\ (IF Get(k) THEN now ELSE 0) \in Nat
    BY DEF Found, Founds, Protected, DhtTypeOK
  <2>3. client' \in [Clients -> {Idle} \cup Solving]
    BY <2>1, <2>2 DEF Solving, Protected, DhtTypeOK
  <2>4. DhtTypeOK' /\ Numbered'
    BY <2>1, <2>3 DEF Protected, DhtTypeOK, Numbered
  <2> QED BY <2>1, <2>4 DEF Protected, Good, Alive, Covered
<1>2. ASSUME NEW c \in Clients, register_fails(c)
      PROVE  Protected'
  <2>1. /\ client' = [client EXCEPT ![c] = Idle]
        /\ UNCHANGED <<now, kv, log, seen, handlers, sent, stored>>
    BY <1>2 DEF register_fails
  <2>2. DhtTypeOK' /\ Numbered'
    BY <2>1 DEF Protected, DhtTypeOK, Numbered
  <2> QED BY <2>1, <2>2 DEF Protected, Good, Alive, Covered
<1>3. ASSUME NEW b \in Blobs, blob_put(b)
      PROVE  Protected'
  <2>1. /\ kv' = [kv EXCEPT ![b] = [seq |-> now, by |-> 0, expires |-> now + BlobTTL]]
        /\ UNCHANGED <<now, log, seen, handlers, client, sent, stored>>
    BY <1>3 DEF blob_put
  <2>2. now \in Nat /\ now + BlobTTL \in Nat
    BY DhtAssumption DEF Protected, DhtTypeOK
  <2>3. kv' \in [Keys \cup Blobs -> [seq : Int, by : Nat, expires : Nat]]
    BY <2>1, <2>2 DEF Protected, DhtTypeOK
  <2>4. DhtTypeOK' /\ Numbered'
    BY <2>1, <2>3 DEF Protected, DhtTypeOK, Numbered
  <2>5. \A k \in Keys : kv'[k] = kv[k]
    BY <2>1, DhtAssumption DEF Protected, DhtTypeOK
  <2>6. \A h \in handlers : h.req.key \in Keys
    BY DEF Protected, DhtTypeOK, Handler, Request
  <2>7. \A h \in handlers' : Good(h)'
    BY <2>1, <2>5, <2>6 DEF Protected, Good, Alive
  <2> QED BY <2>1, <2>4, <2>7 DEF Protected, Alive, Covered
<1>4. CASE prune_seen \/ UNCHANGED dhtvars
  <2>1. UNCHANGED <<now, kv, log, handlers, client, sent, stored>>
    BY <1>4 DEF prune_seen, dhtvars
  <2> QED BY <2>1, HandlerStep DEF Protected, DhtTypeOK
<1>5. CASE restart
  <2>1. handlers' = {} /\ UNCHANGED <<now, kv, log, client, sent, stored>>
    BY <1>5 DEF restart
  <2> QED BY <2>1, HandlerStep
<1> QED BY <1>1, <1>2, <1>3, <1>4, <1>5

\* Every step keeps the invariant.
LEMMA ProtectedStep ==
    ASSUME Protected, [DhtNext]_dhtvars
    PROVE  Protected'
PROOF
<1>1. ASSUME NEW h \in handlers, check_seen(h)
      PROVE  Protected'
  <2>1. h.phase = "capped" /\ UNCHANGED <<now, kv, log, client, sent, stored>>
    BY <1>1 DEF check_seen
  <2>2. h \in Handler /\ Good(h)
    BY DEF Protected, DhtTypeOK
  <2>3. Good([h EXCEPT !.phase = "unseen"])
    <3> DEFINE g == [h EXCEPT !.phase = "unseen"]
    <3>1. g.req = h.req /\ g.late = h.late /\ g.phase = "unseen"
      BY <2>2 DEF Handler
    <3> QED BY <2>2, <3>1 DEF Good
  <2>4. End(h) \/ To(h, "unseen")
    BY <1>1 DEF check_seen
  <2> QED BY <2>1, <2>3, <2>4, PhaseStep DEF Phases
<1>2. ASSUME NEW h \in handlers, answer(h) \/ storage_error(h)
      PROVE  Protected'
  <2>1. End(h) /\ UNCHANGED <<now, kv, log, client, sent, stored>>
    BY <1>2 DEF answer, storage_error
  <2> QED BY <2>1, PhaseStep DEF Phases
<1> QED BY <1>1, <1>2, RegisterStep, ArriveStep, CheckLogStep, CheckSeqStep,
           CommitStep, PruneLogStep, TickStep, OtherSteps DEF DhtNext

\* The invariant holds in every reachable state.
LEMMA ProtectedInvariant == DhtSpec => []Protected
PROOF
<1>1. DhtInit => Protected
  <2> SUFFICES ASSUME DhtInit PROVE Protected
    OBVIOUS
  <2>1. NoRow \in [seq : Int, by : Nat, expires : Nat]
    BY DEF NoRow
  <2>2. DhtTypeOK
    BY <2>1 DEF DhtInit, DhtTypeOK
  <2>3. Numbered
    BY FS_EmptySet DEF DhtInit, Numbered
  <2> QED BY <2>2, <2>3 DEF DhtInit, Protected
<1>2. Protected /\ [DhtNext]_dhtvars => Protected'
  BY ProtectedStep
<1> QED BY <1>1, <1>2, PTL DEF DhtSpec

-----------------------------------------------------------------------------
\* Replay protection across restarts and clean-ups: what was stored is not
\* stored again (DhtStore::put, prune_old_nonces, POW_MAX_AGE).
THEOREM StoredOnce == DhtSpec => []ReplayRefused
PROOF
<1>1. Protected => ReplayRefused
  BY DEF Protected, Good, ReplayRefused
<1> QED BY <1>1, ProtectedInvariant, PTL

\* Newest wins outside of races: a row's number falls only by the transaction
\* of a request that read the number before another one was stored.
THEOREM NewestWins == DhtSpec => SeqFallsInRaceOnly
PROOF
<1>1. ASSUME Protected, [DhtNext]_dhtvars
      PROVE  [SeqFalls]_dhtvars
  <2> SUFFICES ASSUME NEW k \in Keys, kv'[k].seq < kv[k].seq
               PROVE  \E h \in handlers : h.raced /\ h.req.key = k /\ h.req.id = kv'[k].by
    BY DEF SeqFalls
  <2>1. kv[k].seq \in Int
    BY <1>1 DEF Protected, DhtTypeOK
  <2>2. kv' # kv
    BY <2>1
  <2>3. ASSUME NEW b \in Blobs, blob_put(b)
        PROVE  FALSE
    <3>1. kv'[k] = kv[k]
      BY <1>1, <2>3, DhtAssumption DEF blob_put, Protected, DhtTypeOK
    <3> QED BY <2>1, <3>1
  <2>4. ASSUME NEW h \in handlers, commit(h)
        PROVE  h.raced /\ h.req.key = k /\ h.req.id = kv'[k].by
    <3>1. /\ h.phase = "newer"
          /\ kv' = [kv EXCEPT ![h.req.key] = [seq |-> h.req.seq, by |-> h.req.id,
                                              expires |-> h.expires]]
      BY <2>4 DEF commit, Commit
    <3>2. h.req.key = k
      BY <1>1, <2>1, <3>1 DEF Protected, DhtTypeOK
    <3>3. kv'[k].seq = h.req.seq /\ kv'[k].by = h.req.id
      BY <1>1, <3>1, <3>2 DEF Protected, DhtTypeOK
    <3>4. h.req.seq \in Nat
      BY <1>1 DEF Protected, DhtTypeOK, Handler, Request
    <3>5. h.raced
      BY <1>1, <2>1, <3>1, <3>2, <3>3, <3>4 DEF Protected, Good
    <3> QED BY <3>2, <3>3, <3>5
  <2> QED BY <1>1, <2>2, <2>3, <2>4
        DEF DhtNext, dht_get, dht_register, register_fails, arrive, check_seen,
            check_log, check_seq, answer, storage_error, prune_seen, prune_log,
            restart, DhtTick, dhtvars
<1> QED BY <1>1, ProtectedInvariant, PTL DEF DhtSpec, SeqFallsInRaceOnly


-----------------------------------------------------------------------------
(* Presence.  The record of a server that missed m refreshes in a row was  *)
(* written m + 1 intervals before the next refresh is due, so it lapses no *)
(* earlier than ADDR_TTL - (m + 1) intervals after that.                   *)

PresenceTypeOK ==
    /\ tick \in Nat
    /\ DOMAIN blob = Servers /\ \A s \in Servers : blob[s].expires \in Nat
    /\ missed \in [Servers -> 0..ADDR_TTL]
    /\ listener.up \in BOOLEAN /\ listener.fixed \in BOOLEAN /\ listener.due \in Nat
    /\ listener = [up |-> listener.up, fixed |-> listener.fixed, last |-> listener.last,
                   found |-> listener.found, due |-> listener.due]

\* The record on s is as old as the number of missed refreshes says.
Renewed(s) ==
    missed[s] < ADDR_TTL => blob[s].expires + missed[s] + 1 >= listener.due + ADDR_TTL

\* The inductive invariant.
Announced ==
    /\ PresenceTypeOK
    /\ ~listener.up => \A s \in Servers : missed[s] = ADDR_TTL
    /\ listener.up => /\ listener.due >= tick
                      /\ \A s \in Servers : Renewed(s) /\ (missed[s] = 0 => blob[s].host = listener.found)

\* What a publication on the servers `on' leaves there.
LEMMA PublishedOn ==
    ASSUME Announced, NEW addr, NEW on, Publish(addr, on), Missed(on)
    PROVE  /\ DOMAIN blob' = Servers /\ missed' \in [Servers -> 0..ADDR_TTL]
           /\ \A s \in Servers : blob'[s].expires \in Nat
           /\ \A s \in Servers : s \in on =>
                 missed'[s] = 0 /\ blob'[s].host = addr /\ blob'[s].expires = tick + ADDR_TTL
           /\ \A s \in Servers : s \notin on =>
                 /\ blob'[s] = blob[s] /\ missed'[s] # 0
                 /\ missed'[s] < ADDR_TTL => missed[s] < ADDR_TTL /\ missed'[s] = missed[s] + 1
<1>1. tick \in Nat /\ ADDR_TTL \in Nat /\ ADDR_TTL # 0
      /\ \A s \in Servers : missed[s] \in 0..ADDR_TTL /\ blob[s].expires \in Nat
  BY PresenceAssumption DEF Announced, PresenceTypeOK
<1>2. DOMAIN blob' = Servers /\ DOMAIN missed' = Servers /\ missed' = [s \in Servers |-> missed'[s]]
  BY DEF Publish, Missed
<1>3. ASSUME NEW s \in Servers, s \in on
      PROVE  missed'[s] = 0 /\ blob'[s].host = addr /\ blob'[s].expires = tick + ADDR_TTL
  BY <1>3 DEF Publish, Missed
<1>4. ASSUME NEW s \in Servers, s \notin on
      PROVE  /\ blob'[s] = blob[s] /\ missed'[s] # 0 /\ missed'[s] \in 0..ADDR_TTL
             /\ missed'[s] < ADDR_TTL => missed[s] < ADDR_TTL /\ missed'[s] = missed[s] + 1
  <2>1. blob'[s] = blob[s] /\ missed'[s] = IF missed[s] < ADDR_TTL THEN missed[s] + 1 ELSE ADDR_TTL
    BY <1>4 DEF Publish, Missed
  <2> QED
    BY <1>1, <2>1
<1>5. ASSUME NEW s \in Servers
      PROVE  missed'[s] \in 0..ADDR_TTL /\ blob'[s].expires \in Nat
  <2>1. CASE s \in on
    BY <1>1, <1>3, <2>1
  <2>2. CASE s \notin on
    BY <1>1, <1>4, <2>2
  <2> QED
    BY <2>1, <2>2
<1>6. missed' \in [Servers -> 0..ADDR_TTL]
  BY <1>2, <1>5
<1> QED
  BY <1>2, <1>3, <1>4, <1>5, <1>6

\* A publication that is due now, and what a refresh that stored nothing leaves.
LEMMA PublishStep ==
    ASSUME Announced, NEW addr, NEW on, Publish(addr, on), Missed(on), UNCHANGED tick,
           NEW fixed \in BOOLEAN, NEW last,
           listener' = [up |-> TRUE, fixed |-> fixed, last |-> last, found |-> addr, due |-> tick + 1],
           listener.up => listener.due = tick
    PROVE  Announced'
<1>1. tick \in Nat /\ ADDR_TTL \in Nat
      /\ \A s \in Servers : missed[s] \in 0..ADDR_TTL /\ blob[s].expires \in Nat
  BY PresenceAssumption DEF Announced, PresenceTypeOK
<1>2. /\ listener'.up = TRUE /\ listener'.fixed = fixed /\ listener'.due = tick + 1
      /\ listener'.last = last /\ listener'.found = addr
  OBVIOUS
<1>3. PresenceTypeOK'
  BY <1>1, <1>2, PublishedOn DEF PresenceTypeOK
<1>4. ASSUME NEW s \in Servers
      PROVE  Renewed(s)' /\ (missed'[s] = 0 => blob'[s].host = listener'.found)
  <2>1. CASE s \in on
    BY <1>1, <1>2, <2>1, PublishedOn DEF Renewed
  <2>2. CASE s \notin on
    <3>1. CASE missed'[s] < ADDR_TTL
      <4>1. /\ blob'[s] = blob[s] /\ missed'[s] # 0
            /\ missed[s] < ADDR_TTL /\ missed'[s] = missed[s] + 1
        BY <2>2, <3>1, PublishedOn
      <4>2. listener.up
        BY <1>1, <4>1 DEF Announced
      <4>3. blob[s].expires + missed[s] + 1 >= tick + ADDR_TTL
        BY <4>1, <4>2 DEF Announced, Renewed
      <4> QED
        BY <1>1, <1>2, <4>1, <4>3 DEF Renewed
    <3>2. CASE ~(missed'[s] < ADDR_TTL)
      BY <2>2, <3>2, PublishedOn DEF Renewed
    <3> QED
      BY <3>1, <3>2
  <2> QED
    BY <2>1, <2>2
<1> QED
  BY <1>1, <1>2, <1>3, <1>4 DEF Announced


\* The steps that leave the listener and its records alone.
LEMMA NothingPublished ==
    ASSUME Announced, UNCHANGED <<listener, blob, missed>>, tick' \in Nat,
           listener.up => listener.due >= tick'
    PROVE  Announced'
BY DEF Announced, PresenceTypeOK, Renewed

LEMMA AnnouncedNext == Announced /\ [PresenceNext]_pvars => Announced'
<1> SUFFICES ASSUME Announced, [PresenceNext]_pvars PROVE Announced'
  OBVIOUS
<1>1. PICK j : j = listener
  OBVIOUS
<1>2. /\ tick \in Nat /\ j.fixed \in BOOLEAN /\ j.up \in BOOLEAN
      /\ j = [up |-> j.up, fixed |-> j.fixed, last |-> j.last, found |-> j.found, due |-> j.due]
  BY <1>1 DEF Announced, PresenceTypeOK
<1>2a. j.fixed \in BOOLEAN
  BY <1>2
<1>3. ASSUME NEW R, NEW W, NEW fixed \in BOOLEAN, start_listener(R, W, fixed)
      PROVE  Announced'
  <2>1. PICK on : on = StoredOn(R, W)
    OBVIOUS
  <2>2. Publish(host, on) /\ Missed(on) /\ UNCHANGED tick /\ ~listener.up
        /\ listener' = [up |-> TRUE, fixed |-> fixed, last |-> host, found |-> host, due |-> tick + 1]
    BY <1>3, <2>1 DEF start_listener
  <2> QED
    BY <2>2, PublishStep
<1>4. ASSUME NEW found, NEW last, j.up,
             listener' = [listener EXCEPT !.last = last, !.found = found, !.due = tick + 1]
      PROVE  listener' = [up |-> TRUE, fixed |-> j.fixed, last |-> last, found |-> found, due |-> tick + 1]
  BY <1>1, <1>2, <1>4
<1>5. ASSUME NEW R, NEW W, refresh(R, W)
      PROVE  Announced'
  <2>1. PICK on : on = StoredOn(R, W)
    OBVIOUS
  <2>2. PICK addr : addr = Current
    OBVIOUS
  <2>3. Advertised(addr) = addr
    BY DEF Advertised
  <2>4. Publish(addr, on) /\ Missed(on) /\ UNCHANGED tick /\ listener.up /\ listener.due = tick
        /\ listener' = [listener EXCEPT !.last = addr, !.found = addr, !.due = tick + 1]
    BY <1>5, <2>1, <2>2, <2>3 DEF refresh, RefreshPublishes
  <2>5. listener' = [up |-> TRUE, fixed |-> j.fixed, last |-> addr, found |-> addr, due |-> tick + 1]
    BY <1>1, <1>4, <2>4
  <2>6. Publish(addr, on) /\ Missed(on) /\ UNCHANGED tick /\ listener.due = tick
    BY <2>4
  <2> QED
    BY ONLY Announced, <1>2a, <2>5, <2>6, PublishStep
<1>6. CASE refresh_fails
  <2>1. PICK addr : addr = Current
    OBVIOUS
  <2>2. Publish(addr, {}) /\ Missed({}) /\ UNCHANGED tick /\ listener.up /\ listener.due = tick
        /\ listener' = [listener EXCEPT !.found = addr, !.due = tick + 1]
    BY <1>6, <2>1 DEF refresh_fails, Publish
  <2>3. listener' = [up |-> TRUE, fixed |-> j.fixed, last |-> j.last, found |-> addr, due |-> tick + 1]
    BY <1>1, <1>2, <2>2
  <2>4. Publish(addr, {}) /\ Missed({}) /\ UNCHANGED tick /\ listener.due = tick
    BY <2>2
  <2> QED
    BY ONLY Announced, <1>2a, <2>3, <2>4, PublishStep
<1>7. CASE stop_listener
  <2>1. listener' = [up |-> FALSE, fixed |-> FALSE, last |-> j.last, found |-> j.found, due |-> 0]
    BY <1>1, <1>2, <1>7 DEF stop_listener
  <2>2. UNCHANGED <<tick, blob>> /\ missed' = [s \in Servers |-> ADDR_TTL]
    BY <1>7 DEF stop_listener
  <2> QED
    BY <2>1, <2>2, PresenceAssumption DEF Announced, PresenceTypeOK
<1>8. CASE PresenceTick
  BY <1>2, <1>8, NothingPublished DEF PresenceTick, Announced, PresenceTypeOK
<1>9. ASSUME UNCHANGED <<listener, blob, missed, tick>>
      PROVE  Announced'
  BY <1>2, <1>9, NothingPublished DEF Announced
<1> QED
  BY <1>3, <1>5, <1>6, <1>7, <1>8, <1>9 DEF PresenceNext, publish_cert, move, pvars

LEMMA AnnouncedAlways == PresenceSpec => []Announced
<1>1. PresenceInit => Announced
  <2> SUFFICES ASSUME PresenceInit PROVE Announced
    OBVIOUS
  <2>1. listener = [up |-> FALSE, fixed |-> FALSE, last |-> host, found |-> host, due |-> 0]
    BY DEF PresenceInit, Down
  <2>2. tick = 1 /\ blob = [s \in Servers |-> NoBlob] /\ missed = [s \in Servers |-> ADDR_TTL]
    BY DEF PresenceInit
  <2> QED
    BY <2>1, <2>2, PresenceAssumption DEF Announced, PresenceTypeOK, NoBlob
<1> QED
  BY <1>1, AnnouncedNext, PTL DEF PresenceSpec

\* As long as the listener runs, its record on a server outlives fewer than
\* ADDR_TTL - 1 refreshes in a row that do not reach that server (run_listener).
THEOREM RecordsSurvive == PresenceSpec => []SurvivesMisses
<1>1. Announced => SurvivesMisses
  <2> SUFFICES ASSUME Announced, listener.up, NEW s \in Servers, missed[s] + 1 < ADDR_TTL
               PROVE  Live(blob[s].expires)
    BY DEF SurvivesMisses
  <2>1. /\ tick \in Nat /\ ADDR_TTL \in Nat /\ missed[s] \in Nat /\ blob[s].expires \in Nat
        /\ listener.due \in Nat /\ listener.due >= tick
    BY PresenceAssumption DEF Announced, PresenceTypeOK
  <2>2. blob[s].expires + missed[s] + 1 >= listener.due + ADDR_TTL
    BY <2>1 DEF Announced, Renewed
  <2> QED
    BY <2>1, <2>2 DEF Live
<1> QED
  BY <1>1, AnnouncedAlways, PTL

\* The record on every server that took the last refresh names the host that
\* refresh found, whatever failed or changed before (run_listener).
THEOREM RecordsFollow == PresenceSpec => []RecordIsCurrent
<1>1. Announced => RecordIsCurrent
  BY DEF Announced, RecordIsCurrent
<1> QED
  BY <1>1, AnnouncedAlways, PTL

-----------------------------------------------------------------------------
(***************************************************************************)
(* The rate limiters.  The bucket of a caller holds all the window still   *)
(* holds of what it was allowed, and at most Limit operations.  The relay  *)
(* forgets whole buckets, but only those older than the window.            *)
(***************************************************************************)

\* What both limiters keep true of each caller.  `done' are the operations it
\* was allowed, `kept' its bucket, t the time.
Counted(done, kept, t) ==
    /\ \A e \in done : e.at \in Nat
    /\ \A e \in done : e.at + Window >= t => e \in kept
    /\ IsFiniteSet(kept)
    /\ Cardinality(kept) <= Limit

LimiterInv ==
    /\ clock \in Nat
    /\ DOMAIN buckets \subseteq Callers
    /\ granted = [k \in Callers |-> granted[k]]
    /\ \A k \in Callers : Counted(granted[k], Bucket(k), clock)

\* A caller whose operations are counted was allowed no more than Limit in
\* the window.
LEMMA CountedBounds ==
    ASSUME NEW done, NEW kept, clock \in Nat, Counted(done, kept, clock)
    PROVE  /\ InWindow(done) \subseteq kept
           /\ Cardinality(InWindow(done)) <= Limit
<1>1. InWindow(done) \subseteq kept
  BY DEF Counted, InWindow
<1>2. IsFiniteSet(InWindow(done)) /\ Cardinality(InWindow(done)) <= Cardinality(kept)
  BY <1>1, FS_Subset DEF Counted
<1>3. Cardinality(InWindow(done)) \in Nat /\ Cardinality(kept) \in Nat
  BY <1>2, FS_CardinalityType DEF Counted
<1>. QED
  BY <1>1, <1>2, <1>3, LimiterAssumption DEF Counted

\* Time passes and nothing is allowed: the window only loses operations.
LEMMA CountedLater ==
    ASSUME NEW done, NEW kept, NEW t \in Nat, Counted(done, kept, t)
    PROVE  Counted(done, kept, t + 1)
BY LimiterAssumption DEF Counted

\* Nothing was allowed: an empty bucket counts it.
LEMMA CountedNone == ASSUME NEW t PROVE Counted({}, {}, t)
BY FS_EmptySet, LimiterAssumption DEF Counted

\* The bucket is pruned, and grows only while it holds less than Limit.
LEMMA CountedOutcome ==
    ASSUME NEW k \in Callers, LimiterInv
    PROVE  Counted(IF Outcome(k).ok THEN granted[k] \cup {Operation(k)} ELSE granted[k],
                   Outcome(k).entries, clock)
<1>. DEFINE kept == Retained(Bucket(k))
            op   == Operation(k)
<1>1. Counted(granted[k], Bucket(k), clock)
  BY DEF LimiterInv
<1>2. kept \subseteq Bucket(k)
  BY DEF Retained, InWindow
<1>3. IsFiniteSet(kept) /\ Cardinality(kept) <= Cardinality(Bucket(k))
  BY <1>1, <1>2, FS_Subset DEF Counted
<1>4. Cardinality(kept) \in Nat /\ Cardinality(Bucket(k)) \in Nat
  BY <1>1, <1>3, FS_CardinalityType DEF Counted
<1>5. \A e \in granted[k] : e.at + Window >= clock => e \in kept
  BY <1>1 DEF Counted, Retained, InWindow
<1>6. op.at = clock /\ clock \in Nat
  BY DEF Operation, LimiterInv
<1>7. IsFiniteSet(kept \cup {op}) /\ Cardinality(kept \cup {op}) <= Cardinality(kept) + 1
  <2>1. CASE op \in kept
    <3>1. kept \cup {op} = kept
      BY <2>1
    <3>. QED BY <3>1, <1>3, <1>4
  <2>2. CASE op \notin kept
    BY <2>2, <1>3, <1>4, FS_AddElement
  <2>. QED BY <2>1, <2>2
<1>8. Cardinality(kept \cup {op}) \in Nat
  BY <1>7, FS_CardinalityType
<1>9. CASE Cardinality(kept) >= Limit
  <2>1. Outcome(k) = [ok |-> FALSE, entries |-> kept]
    BY <1>9 DEF Outcome
  <2>2. Outcome(k).entries = kept /\ Outcome(k).ok = FALSE
    BY <2>1
  <2>3. Counted(granted[k], kept, clock)
    BY <1>1, <1>3, <1>4, <1>5, LimiterAssumption DEF Counted
  <2>. QED BY <2>2, <2>3
<1>10. CASE ~(Cardinality(kept) >= Limit)
  <2>1. Outcome(k) = [ok |-> TRUE, entries |-> kept \cup {op}]
    BY <1>10 DEF Outcome
  <2>2. Outcome(k).entries = kept \cup {op} /\ Outcome(k).ok = TRUE
    BY <2>1
  <2>3. Cardinality(kept \cup {op}) <= Limit
    BY <1>4, <1>7, <1>8, <1>10, LimiterAssumption
  <2>4. Counted(granted[k] \cup {op}, kept \cup {op}, clock)
    <3>. HIDE DEF kept, op
    <3>. QED BY <1>1, <1>5, <1>6, <1>7, <2>3 DEF Counted
  <2>. QED BY <2>2, <2>4
<1>. QED BY <1>9, <1>10

\* A call answers one caller and may evict others: each is counted after it.
LEMMA AnswerCounts ==
    ASSUME NEW k \in Callers, LimiterInv, NEW gone,
           NEW after, DOMAIN after \subseteq Callers,
           \A x \in Callers \ (gone \cup {k}) :
              x \in DOMAIN after <=> x \in DOMAIN buckets,
           \A x \in DOMAIN after :
              after[x] = IF x = k THEN Outcome(k).entries ELSE buckets[x],
           DOMAIN after \cap gone = {}, k \notin gone => k \in DOMAIN after,
           NEW x \in Callers
    PROVE  Counted(GrantedAfter(k, Outcome(k).ok, gone)[x],
                   IF x \in DOMAIN after THEN after[x] ELSE {}, clock)
<1>1. CASE x \in gone
  BY <1>1, CountedNone DEF GrantedAfter
<1>2. CASE x \notin gone /\ x = k
  BY <1>2, CountedOutcome DEF GrantedAfter
<1>3. CASE x \notin gone /\ x # k
  <2>1. GrantedAfter(k, Outcome(k).ok, gone)[x] = granted[x]
    BY <1>3 DEF GrantedAfter
  <2>2. (IF x \in DOMAIN after THEN after[x] ELSE {}) = Bucket(x)
    BY <1>3 DEF Bucket
  <2>. QED BY <2>1, <2>2 DEF LimiterInv
<1>. QED BY <1>1, <1>2, <1>3

\* The inductive step of the limiter of the DHT node.
LEMMA LimiterStep == LimiterInv /\ [RLNext]_rlvars => LimiterInv'
<1>. SUFFICES ASSUME LimiterInv, [RLNext]_rlvars PROVE LimiterInv'
  OBVIOUS
<1>1. CASE RLTick
  <2>1. \A k \in Callers : Counted(granted[k], Bucket(k), clock + 1)
    BY CountedLater DEF LimiterInv
  <2>2. /\ clock' = clock + 1 /\ granted' = granted /\ buckets' = buckets
        /\ \A k : Bucket(k)' = Bucket(k)
    BY <1>1 DEF RLTick, Bucket
  <2>. QED BY <2>1, <2>2 DEF LimiterInv
<1>2. ASSUME NEW k \in Callers, allow(k) PROVE LimiterInv'
  <2>1. PICK victim \in Victims(k) :
           /\ buckets' = [x \in (DOMAIN buckets \ victim) \cup {k} |->
                             IF x = k THEN Outcome(k).entries ELSE buckets[x]]
           /\ granted' = GrantedAfter(k, Outcome(k).ok, victim)
           /\ clock' = clock
    BY <1>2 DEF allow
  <2>2. k \notin victim
    BY <2>1 DEF Victims
  <2>3. DOMAIN buckets' \subseteq Callers
    BY <2>1 DEF LimiterInv
  <2>4. \A x \in Callers : Counted(granted'[x], Bucket(x)', clock)
    <3>. SUFFICES ASSUME NEW x \in Callers
                  PROVE  Counted(granted'[x], Bucket(x)', clock)
      OBVIOUS
    <3>1. PICK after : after = buckets'
      OBVIOUS
    <3>2. /\ \A y \in Callers \ (victim \cup {k}) : y \in DOMAIN after <=> y \in DOMAIN buckets
          /\ \A y \in DOMAIN after : after[y] = IF y = k THEN Outcome(k).entries ELSE buckets[y]
          /\ DOMAIN after \cap victim = {} /\ k \in DOMAIN after
          /\ DOMAIN after \subseteq Callers
      BY <2>1, <2>2, <2>3, <3>1
    <3>3. Counted(GrantedAfter(k, Outcome(k).ok, victim)[x],
                  IF x \in DOMAIN after THEN after[x] ELSE {}, clock)
      BY <3>2, AnswerCounts
    <3>. QED BY <3>1, <3>3, <2>1 DEF Bucket
  <2>5. granted' = [y \in Callers |-> granted'[y]]
    BY <2>1 DEF GrantedAfter
  <2>. QED BY <2>1, <2>3, <2>4, <2>5 DEF LimiterInv
<1>3. CASE UNCHANGED rlvars
  BY <1>3 DEF rlvars, LimiterInv, Bucket
<1>. QED BY <1>1, <1>2, <1>3 DEF RLNext

\* Initially nothing was allowed.
LEMMA LimiterStart == RLInit => LimiterInv
<1>. SUFFICES ASSUME RLInit PROVE LimiterInv
  OBVIOUS
<1>1. DOMAIN buckets = {}
  BY DEF RLInit
<1>2. \A k \in Callers : granted[k] = {} /\ Bucket(k) = {}
  BY <1>1 DEF RLInit, Bucket
<1>. QED BY <1>1, <1>2, CountedNone DEF RLInit, LimiterInv

LEMMA InvBounds == LimiterInv => WindowBound
BY CountedBounds DEF LimiterInv, WindowBound

\* Between two evictions of a caller, no window holds more than Limit of the
\* operations RateLimiter::allow allowed to it, for every limit, window and
\* cap of callers.
THEOREM LimiterKeepsLimit == RLSpec => []WindowBound
<1>1. RLSpec => []LimiterInv
  BY LimiterStart, LimiterStep, PTL DEF RLSpec
<1>. QED BY <1>1, InvBounds, PTL

\* The relay's connections: an address that is remembered was last accessed
\* no earlier than its last connection.
ConnInv ==
    /\ LimiterInv
    /\ DOMAIN lastUse = DOMAIN buckets
    /\ \A ip \in DOMAIN lastUse : lastUse[ip] \in Nat
    /\ \A ip \in Callers : \A e \in granted[ip] :
          e.at <= clock /\ (ip \in DOMAIN lastUse => e.at <= lastUse[ip])

LEMMA ConnectionCounts ==
    ASSUME ConnInv, NEW ip \in Callers, handle_connection(ip)
    PROVE  ConnInv'
<1>. DEFINE out   == Outcome(ip)
            order == Append(KeepSeq(recent, Callers \ {ip}), ip)
            all   == [x \in DOMAIN buckets \cup {ip} |->
                        IF x = ip THEN out.entries ELSE buckets[x]]
<1>1. PICK gone : /\ buckets' = Keep(all, Callers \ gone)
                  /\ lastUse' = Keep(Accessed(ip), Callers \ gone)
                  /\ granted' = GrantedAfter(ip, out.ok, gone)
                  /\ clock' = clock
  BY DEF handle_connection
<1>2. DOMAIN buckets \subseteq Callers /\ DOMAIN lastUse = DOMAIN buckets
      /\ clock \in Nat /\ LimiterInv
  BY DEF ConnInv, LimiterInv
<1>3. /\ DOMAIN buckets' = (DOMAIN buckets \cup {ip}) \ gone
      /\ \A x \in DOMAIN buckets' : buckets'[x] = IF x = ip THEN Outcome(ip).entries ELSE buckets[x]
  BY <1>1, <1>2 DEF Keep
<1>4. /\ DOMAIN lastUse' = (DOMAIN buckets \cup {ip}) \ gone
      /\ \A x \in DOMAIN lastUse' : lastUse'[x] = IF x = ip THEN clock ELSE lastUse[x]
  BY <1>1, <1>2 DEF Keep, Accessed
<1>5. \A x \in Callers : Counted(granted'[x], Bucket(x)', clock)
  <2>. SUFFICES ASSUME NEW x \in Callers
                PROVE  Counted(granted'[x], Bucket(x)', clock)
    OBVIOUS
  <2>1. PICK after : after = buckets'
    OBVIOUS
  <2>2. /\ \A y \in Callers \ (gone \cup {ip}) : y \in DOMAIN after <=> y \in DOMAIN buckets
        /\ \A y \in DOMAIN after : after[y] = IF y = ip THEN Outcome(ip).entries ELSE buckets[y]
        /\ DOMAIN after \cap gone = {} /\ (ip \notin gone => ip \in DOMAIN after)
        /\ DOMAIN after \subseteq Callers
    BY <1>2, <1>3, <2>1
  <2>3. Counted(GrantedAfter(ip, Outcome(ip).ok, gone)[x],
                IF x \in DOMAIN after THEN after[x] ELSE {}, clock)
    BY <2>2, <1>2, AnswerCounts
  <2>. QED BY <2>1, <2>3, <1>1 DEF Bucket
<1>6. granted' = [y \in Callers |-> granted'[y]]
  BY <1>1 DEF GrantedAfter
<1>7. \A x \in Callers : \A e \in granted'[x] :
         e.at <= clock /\ (x \in DOMAIN lastUse' => e.at <= lastUse'[x])
  <2>. SUFFICES ASSUME NEW x \in Callers, NEW e \in granted'[x]
                PROVE  e.at <= clock /\ (x \in DOMAIN lastUse' => e.at <= lastUse'[x])
    OBVIOUS
  <2>1. e \in granted[x] \/ (x = ip /\ e = Operation(x))
    BY <1>1 DEF GrantedAfter
  <2>2. e.at <= clock
    BY <2>1, <1>2 DEF ConnInv, Operation
  <2>3. ASSUME x \in DOMAIN lastUse' PROVE e.at <= lastUse'[x]
    BY <2>1, <2>2, <2>3, <1>2, <1>4 DEF ConnInv
  <2>. QED BY <2>2, <2>3
<1>8. LimiterInv'
  BY <1>1, <1>2, <1>3, <1>5, <1>6 DEF LimiterInv
<1>9. \A x \in DOMAIN lastUse' : lastUse'[x] \in Nat
  BY <1>2, <1>4 DEF ConnInv
<1>. QED BY <1>1, <1>3, <1>4, <1>7, <1>8, <1>9 DEF ConnInv

\* What the clean-up forgets is older than the window.
LEMMA CleanupCounts ==
    ASSUME ConnInv, limiter_cleanup
    PROVE  ConnInv'
<1>. DEFINE active == {ip \in DOMAIN lastUse : ~Inactive(ip)}
<1>1. /\ buckets' = Keep(buckets, active) /\ lastUse' = Keep(lastUse, active)
      /\ clock' = clock /\ granted' = granted
  BY DEF limiter_cleanup
<1>2. /\ clock \in Nat /\ DOMAIN lastUse = DOMAIN buckets
      /\ DOMAIN buckets \subseteq Callers /\ LimiterInv
  BY DEF ConnInv, LimiterInv
<1>3. /\ DOMAIN buckets' = active /\ DOMAIN lastUse' = active
      /\ \A x \in active : buckets'[x] = buckets[x] /\ lastUse'[x] = lastUse[x]
  BY <1>1, <1>2 DEF Keep
<1>4. \A x \in Callers : Counted(granted[x], Bucket(x)', clock)
  <2>. SUFFICES ASSUME NEW x \in Callers PROVE Counted(granted[x], Bucket(x)', clock)
    OBVIOUS
  <2>0. Counted(granted[x], Bucket(x), clock)
    BY <1>2 DEF LimiterInv
  <2>1. CASE x \in active \/ x \notin DOMAIN buckets
    <3>1. Bucket(x)' = Bucket(x)
      BY <2>1, <1>2, <1>3 DEF Bucket
    <3>. QED BY <3>1, <2>0
  <2>2. CASE x \in DOMAIN buckets /\ x \notin active
    <3>1. Bucket(x)' = {}
      BY <2>2, <1>3 DEF Bucket
    <3>2. lastUse[x] \in Nat /\ lastUse[x] <= clock - 2 * Cleanup
      BY <2>2, <1>2 DEF Inactive, ConnInv
    <3>3. \A e \in granted[x] : e.at \in Nat /\ e.at <= lastUse[x]
      BY <2>0, <2>2, <1>2 DEF ConnInv, Counted
    <3>4. \A e \in granted[x] : ~(e.at + Window >= clock)
      BY <3>2, <3>3, <1>2, LimiterAssumption, CleanupAssumption
    <3>. QED BY <2>0, <3>1, <3>4, FS_EmptySet, LimiterAssumption DEF Counted
  <2>. QED BY <2>1, <2>2
<1>5. LimiterInv'
  BY <1>1, <1>2, <1>3, <1>4 DEF LimiterInv
<1>. QED BY <1>1, <1>2, <1>3, <1>5 DEF ConnInv

LEMMA ConnStep == ConnInv /\ [RCNext]_rcvars => ConnInv'
<1>. SUFFICES ASSUME ConnInv, [RCNext]_rcvars PROVE ConnInv'
  OBVIOUS
<1>1. CASE RCTick
  <2>1. LimiterInv'
    BY <1>1, LimiterStep DEF RCTick, RLNext, ConnInv
  <2>2. /\ clock' = clock + 1 /\ granted' = granted /\ buckets' = buckets /\ lastUse' = lastUse
    BY <1>1 DEF RCTick, RLTick
  <2>3. /\ clock \in Nat
        /\ \A ip \in Callers : \A e \in granted[ip] : e.at \in Nat
    BY DEF ConnInv, LimiterInv, Counted
  <2>4. \A ip \in Callers : \A e \in granted[ip] : e.at <= clock + 1
    BY <2>3 DEF ConnInv
  <2>. QED BY <2>1, <2>2, <2>4 DEF ConnInv
<1>2. ASSUME NEW ip \in Callers, handle_connection(ip) PROVE ConnInv'
  BY <1>2, ConnectionCounts
<1>3. CASE limiter_cleanup
  BY <1>3, CleanupCounts
<1>4. CASE UNCHANGED rcvars
  BY <1>4 DEF rcvars, ConnInv, LimiterInv, Bucket
<1>. QED BY <1>1, <1>2, <1>3, <1>4 DEF RCNext

\* Forgetting the limiters of idle addresses lifts no limit: whatever an
\* address was allowed within the window since it was last evicted is still
\* counted, as long as the window is shorter than twice the interval of the
\* clean-up task.
THEOREM ConnectionsKeepLimit == RCSpec => []WindowBound
<1>1. RCInit => ConnInv
  <2>. SUFFICES ASSUME RCInit PROVE ConnInv
    OBVIOUS
  <2>1. LimiterInv
    BY LimiterStart DEF RCInit
  <2>2. DOMAIN lastUse = {} /\ DOMAIN buckets = {} /\ \A ip \in Callers : granted[ip] = {}
    BY DEF RCInit, RLInit
  <2>. QED BY <2>1, <2>2 DEF ConnInv
<1>2. RCSpec => []ConnInv
  BY <1>1, ConnStep, PTL DEF RCSpec
<1>3. ConnInv => WindowBound
  BY InvBounds DEF ConnInv
<1>. QED BY <1>2, <1>3, PTL
=============================================================================
