---------------------------- MODULE DesktopProofs ----------------------------
(***************************************************************************)
(* The desktop application, for any number of calls, listeners, launches,  *)
(* contacts and messages.                                                  *)
(***************************************************************************)
EXTENDS DesktopMain, ChatStore, TLAPS

-----------------------------------------------------------------------------
(* Sequences whose members change and whose length does not.               *)

LEMMA MembersMapped ==
    ASSUME NEW S, NEW s \in Seq(S), NEW T, NEW t, t = [i \in DOMAIN s |-> t[i]],
           \A i \in DOMAIN s : t[i] \in T
    PROVE  t \in Seq(T) /\ DOMAIN t = DOMAIN s
<1>1. DOMAIN s = 1..Len(s) /\ Len(s) \in Nat
  OBVIOUS
<1>2. t \in [1..Len(s) -> T]
  BY <1>1
<1> QED
  BY <1>1, <1>2

-----------------------------------------------------------------------------
(* The conversations.                                                      *)

Bodies == {Body(c) : c \in Contents}

Messages == [id : Nat, who : Peers \cup {"me"}, body : Bodies, data : BOOLEAN,
             st : {"read", "sending", "sent", "error"}]

Views == [Peers -> Seq(Messages)]

\* Two views hold the same messages, up to what sanitize and
\* updateMessageStatus change.
Like(v, w) ==
    \A p \in Peers :
        /\ DOMAIN w[p] = DOMAIN v[p]
        /\ \A i \in DOMAIN v[p] : /\ w[p][i].id = v[p][i].id
                                  /\ w[p][i].who = v[p][i].who
                                  /\ w[p][i].body = v[p][i].body

\* No message of a contact is in its conversation twice.
OnceIn(v) ==
    \A p \in Peers : \A i, j \in DOMAIN v[p] :
        v[p][i].who = p /\ v[p][j].who = p /\ v[p][i].body = v[p][j].body => i = j

\* What a contact has sent is known as seen.
SeenIn(v, seen) ==
    \A p \in Peers : \A i \in DOMAIN v[p] : v[p][i].who = p => <<p, v[p][i].body>> \in seen

ChatShape ==
    /\ items \in Nat /\ convs \subseteq Peers
    /\ view \in Views
    /\ saved \in [convs : SUBSET Peers, view : Views, there : BOOLEAN]
    /\ ~saved.there => saved.view = NoCopy.view

ChatOnce == OnceIn(view) /\ OnceIn(saved.view) /\ SeenIn(view, seenIncoming)

\* What was shown is in the copy, unless it was added since the last write or
\* written over.
ChatBack ==
    /\ unsaved \subseteq In(view) /\ In(view) \subseteq shown
    /\ shown \ (unsaved \cup overwritten) \subseteq In(saved.view)
    /\ ComesBack

ChatInv == ChatShape /\ ChatOnce /\ ChatBack

Sanitized(v) == [p \in Peers |-> [i \in DOMAIN v[p] |-> sanitize(v[p][i])]]

LEMMA EmptyView ==
    /\ NoCopy.view \in Views
    /\ \A p \in Peers : NoCopy.view[p] = <<>>
    /\ OnceIn(NoCopy.view) /\ \A seen : SeenIn(NoCopy.view, seen)
    /\ In(NoCopy.view) = {}
<1>1. NoCopy.view = [p \in Peers |-> <<>>]
  BY DEF NoCopy
<1>2. \A p \in Peers : NoCopy.view[p] = <<>> /\ DOMAIN NoCopy.view[p] = {}
  BY <1>1
<1>3. NoCopy.view \in Views
  BY <1>1 DEF Views
<1>4. In(NoCopy.view) = {}
  BY <1>2 DEF In
<1> QED
  BY <1>2, <1>3, <1>4 DEF OnceIn, SeenIn

LEMMA LikeOnce ==
    ASSUME NEW v, NEW w, Like(v, w)
    PROVE  /\ OnceIn(v) => OnceIn(w)
           /\ \A seen : SeenIn(v, seen) => SeenIn(w, seen)
           /\ In(w) = In(v)
<1>1. OnceIn(v) => OnceIn(w)
  BY DEF Like, OnceIn
<1>2. \A seen : SeenIn(v, seen) => SeenIn(w, seen)
  BY DEF Like, SeenIn
<1>3. In(w) = In(v)
  <2>1. \A p \in Peers : {<<p, w[p][i].id>> : i \in DOMAIN w[p]} = {<<p, v[p][i].id>> : i \in DOMAIN v[p]}
    BY DEF Like
  <2> QED
    BY <2>1 DEF In
<1> QED
  BY <1>1, <1>2, <1>3

\* A view whose messages change one by one.
LEMMA MappedView ==
    ASSUME NEW v \in Views, NEW w, w = [p \in Peers |-> w[p]],
           \A p \in Peers : w[p] = [i \in DOMAIN v[p] |-> w[p][i]],
           \A p \in Peers : \A i \in DOMAIN v[p] :
              /\ w[p][i] \in Messages /\ w[p][i].id = v[p][i].id
              /\ w[p][i].who = v[p][i].who /\ w[p][i].body = v[p][i].body
    PROVE  w \in Views /\ Like(v, w)
<1>1. ASSUME NEW p \in Peers
      PROVE  w[p] \in Seq(Messages) /\ DOMAIN w[p] = DOMAIN v[p]
  <2>1. v[p] \in Seq(Messages)
    BY DEF Views
  <2>2. w[p] = [i \in DOMAIN v[p] |-> w[p][i]] /\ \A i \in DOMAIN v[p] : w[p][i] \in Messages
    OBVIOUS
  <2>3. PICK s, t : s = v[p] /\ t = w[p]
    OBVIOUS
  <2> QED
    BY ONLY <2>1, <2>2, <2>3, MembersMapped
<1>2. w \in Views
  BY <1>1 DEF Views
<1>3. Like(v, w)
  BY <1>1 DEF Like
<1> QED
  BY <1>2, <1>3

LEMMA SanitizedView ==
    ASSUME NEW v \in Views
    PROVE  Sanitized(v) \in Views /\ Like(v, Sanitized(v))
<1>1. \A m \in Messages : /\ sanitize(m) \in Messages /\ sanitize(m).id = m.id
                          /\ sanitize(m).who = m.who /\ sanitize(m).body = m.body
  BY DEF Messages, sanitize
<1>2. PICK w : w = Sanitized(v)
  OBVIOUS
<1>3. w = [p \in Peers |-> w[p]] /\ \A p \in Peers : w[p] = [i \in DOMAIN v[p] |-> sanitize(v[p][i])]
  BY <1>2 DEF Sanitized
<1>4. \A p \in Peers : \A i \in DOMAIN v[p] : v[p][i] \in Messages
  BY DEF Views
<1>5. \A p \in Peers : /\ w[p] = [i \in DOMAIN v[p] |-> w[p][i]]
                       /\ \A i \in DOMAIN v[p] : w[p][i] = sanitize(v[p][i])
  BY <1>3
<1>6. \A p \in Peers : \A i \in DOMAIN v[p] :
         /\ w[p][i] \in Messages /\ w[p][i].id = v[p][i].id
         /\ w[p][i].who = v[p][i].who /\ w[p][i].body = v[p][i].body
  BY <1>1, <1>4, <1>5
<1> QED
  BY <1>2, <1>3, <1>5, <1>6, MappedView

WithMessage(v, p, m) == [v EXCEPT ![p] = Append(@, m)]

\* A message is added at the end of a conversation.
LEMMA AppendedView ==
    ASSUME NEW v \in Views, NEW p \in Peers, NEW m \in Messages, NEW w,
           w = WithMessage(v, p, m)
    PROVE  /\ w \in Views
           /\ \A q \in Peers : q # p => w[q] = v[q]
           /\ DOMAIN w[p] = DOMAIN v[p] \cup {Len(v[p]) + 1} /\ Len(v[p]) + 1 \notin DOMAIN v[p]
           /\ w[p][Len(v[p]) + 1] = m
           /\ \A i \in DOMAIN v[p] : w[p][i] = v[p][i]
           /\ In(v) \subseteq In(w)
<1>1. v[p] \in Seq(Messages)
  BY DEF Views
<1>2. w[p] = Append(v[p], m) /\ \A q \in Peers : q # p => w[q] = v[q]
  BY DEF Views, WithMessage
<1>3. w \in Views
  BY <1>1, <1>2 DEF Views, WithMessage
<1>4. /\ DOMAIN w[p] = DOMAIN v[p] \cup {Len(v[p]) + 1} /\ Len(v[p]) + 1 \notin DOMAIN v[p]
      /\ w[p][Len(v[p]) + 1] = m /\ \A i \in DOMAIN v[p] : w[p][i] = v[p][i]
  BY <1>1, <1>2
<1>5. In(v) \subseteq In(w)
  <2>1. \A q \in Peers : {<<q, v[q][i].id>> : i \in DOMAIN v[q]} \subseteq {<<q, w[q][i].id>> : i \in DOMAIN w[q]}
    BY <1>2, <1>4
  <2> QED
    BY <2>1 DEF In
<1> QED
  BY <1>2, <1>3, <1>4, <1>5

\* What a write that succeeds leaves in the copy.
LEMMA Persisted ==
    ASSUME NEW cs \in SUBSET Peers, NEW v \in Views, OnceIn(v), saved' = StoredItem(cs, v)
    PROVE  /\ saved' \in [convs : SUBSET Peers, view : Views, there : BOOLEAN]
           /\ saved'.there /\ OnceIn(saved'.view) /\ In(saved'.view) = In(v)
<1>1. saved' = [convs |-> cs, there |-> TRUE, view |-> Sanitized(v)]
  BY DEF StoredItem, Sanitized
<1>2. saved'.convs = cs /\ saved'.there = TRUE /\ saved'.view = Sanitized(v)
  BY <1>1
<1>3. OnceIn(Sanitized(v)) /\ In(Sanitized(v)) = In(v)
  BY SanitizedView, LikeOnce
<1>4. saved' \in [convs : SUBSET Peers, view : Views, there : BOOLEAN]
  BY <1>1, SanitizedView
<1> QED
  BY <1>2, <1>3, <1>4

LEMMA ChatInvInit == ChatInit => ChatInv
<1> SUFFICES ASSUME ChatInit PROVE ChatInv
  OBVIOUS
<1>1. /\ saved = NoCopy /\ view = NoCopy.view /\ items = 0 /\ convs = {} /\ hydrated = FALSE
      /\ shown = {} /\ unsaved = {}
  BY DEF ChatInit
<1>2. NoCopy.convs = {} /\ NoCopy.there = FALSE
  BY DEF NoCopy
<1>3. NoCopy \in [convs : SUBSET Peers, view : Views, there : BOOLEAN]
  BY EmptyView DEF NoCopy
<1>4. ChatShape
  BY <1>1, <1>3, EmptyView DEF ChatShape
<1>5. ChatOnce
  BY <1>1, EmptyView DEF ChatOnce
<1>6. ChatBack
  BY <1>1, EmptyView DEF ChatBack, ComesBack
<1> QED
  BY <1>4, <1>5, <1>6 DEF ChatInv

\* A step that adds messages to the view, or none, and tries to write: what it
\* made, or the view before.
LEMMA ChatPersists ==
    ASSUME ChatInv, items' \in Nat, convs' \in SUBSET Peers, view' \in Views,
           OnceIn(view'), SeenIn(view', seenIncoming'), In(view) \subseteq In(view'),
           UNCHANGED hydrated, shown' = shown \cup In(view'),
           NEW v \in {view, view'}, written(convs', v) \/ unwritten
    PROVE  ChatInv'
<1>1. /\ ChatShape /\ OnceIn(view) /\ OnceIn(saved.view) /\ ChatBack
      /\ view \in Views
  BY DEF ChatInv, ChatOnce, ChatShape
<1>2. v \in Views /\ OnceIn(v) /\ In(v) \subseteq In(view') /\ In(view) \subseteq In(v)
  BY <1>1
<1>3. /\ unsaved' \subseteq In(view')
      /\ (hydrated => shown \ overwritten \subseteq In(view'))
      /\ hydrated' = hydrated /\ shown' = shown \cup In(view') /\ In(view') \subseteq shown'
  BY <1>1 DEF ChatBack, ComesBack, written, unwritten
<1>4. CASE written(convs', v)
  <2>1. PICK cs : cs = convs'
    OBVIOUS
  <2>2. saved' = StoredItem(cs, v) /\ cs \in SUBSET Peers
    BY <1>4, <2>1 DEF written
  <2>3. /\ saved' \in [convs : SUBSET Peers, view : Views, there : BOOLEAN]
        /\ saved'.there /\ OnceIn(saved'.view) /\ In(saved'.view) = In(v)
    BY ONLY <1>2, <2>2, Persisted
  <2>4. ChatShape' /\ ChatOnce'
    BY <2>3 DEF ChatShape, ChatOnce
  <2>5. unsaved' = In(view') \ In(v) /\ overwritten \subseteq overwritten'
    BY <1>4 DEF written
  <2>6. shown \ overwritten' \subseteq In(v)
    BY <1>1, <1>2, <1>4 DEF written, ChatBack, ComesBack
  <2>7. shown' \ (unsaved' \cup overwritten') \subseteq In(saved'.view)
    BY <1>3, <2>3, <2>5, <2>6
  <2>8. ComesBack'
    BY <1>3, <2>5 DEF ComesBack
  <2> QED
    BY <1>3, <2>4, <2>7, <2>8 DEF ChatInv, ChatBack
<1>5. CASE unwritten
  <2>1. UNCHANGED <<saved, overwritten>> /\ unsaved' = unsaved \cup (In(view') \ In(view))
    BY <1>5 DEF unwritten
  <2>2. ChatShape' /\ ChatOnce'
    BY <1>1, <2>1 DEF ChatShape, ChatOnce
  <2>3. shown' \ (unsaved' \cup overwritten') \subseteq In(saved'.view)
    <3>1. SUFFICES ASSUME NEW m \in shown', m \notin unsaved', m \notin overwritten
                   PROVE  m \in In(saved.view)
      BY <2>1
    <3>2. CASE m \in shown
      BY <1>1, <2>1, <3>1, <3>2 DEF ChatBack
    <3>3. CASE m \in In(view') /\ m \notin shown
      BY <1>1, <2>1, <3>1, <3>3 DEF ChatBack
    <3> QED
      BY <1>3, <3>1, <3>2, <3>3
  <2>4. ComesBack'
    BY <1>3, <2>1 DEF ComesBack
  <2> QED
    BY <1>3, <2>2, <2>3, <2>4 DEF ChatInv, ChatBack
<1> QED
  BY <1>4, <1>5

LEMMA ChatAdd ==
    ASSUME ChatInv, NEW p \in Peers, addConversation(p)
    PROVE  ChatInv'
<1>1. /\ UNCHANGED <<view, seenIncoming, hydrated, items, shown>> /\ convs' = convs \cup {p}
      /\ written(convs', view) \/ unwritten
  BY DEF addConversation, persist
<1>2. /\ view \in Views /\ OnceIn(view) /\ SeenIn(view, seenIncoming) /\ In(view) \subseteq shown
      /\ convs \in SUBSET Peers /\ items \in Nat
  BY DEF ChatInv, ChatShape, ChatOnce, ChatBack
<1>3. PICK v \in {view, view'} : v = view
  OBVIOUS
<1>4. /\ convs' \in SUBSET Peers /\ items' \in Nat /\ view' \in Views /\ OnceIn(view')
      /\ SeenIn(view', seenIncoming') /\ In(view) \subseteq In(view')
      /\ shown' = shown \cup In(view') /\ UNCHANGED hydrated
      /\ written(convs', v) \/ unwritten
  BY <1>1, <1>2, <1>3
<1> QED
  BY <1>4, ChatPersists

\* What a new message needs: unless the user wrote it, its key was not seen.
LEMMA AddedOnce ==
    ASSUME ChatInv, NEW p \in Peers, NEW m \in Messages, NEW seen,
           seenIncoming \subseteq seen,
           m.who = p => <<p, m.body>> \notin seenIncoming /\ <<p, m.body>> \in seen,
           view' = [view EXCEPT ![p] = Append(@, m)]
    PROVE  /\ view' \in Views /\ OnceIn(view') /\ SeenIn(view', seen)
           /\ In(view) \subseteq In(view')
<1>1. view \in Views /\ OnceIn(view) /\ SeenIn(view, seenIncoming)
  BY DEF ChatInv, ChatShape, ChatOnce
<1> DEFINE n == Len(view[p]) + 1
<1>2. /\ view' \in Views
      /\ \A q \in Peers : q # p => view'[q] = view[q]
      /\ DOMAIN view'[p] = DOMAIN view[p] \cup {n} /\ n \notin DOMAIN view[p]
      /\ view'[p][n] = m
      /\ \A i \in DOMAIN view[p] : view'[p][i] = view[p][i]
      /\ In(view) \subseteq In(view')
  <2>1. PICK v, w : v = view /\ w = view'
    OBVIOUS
  <2>2. v \in Views /\ w = WithMessage(v, p, m)
    BY <1>1, <2>1, Zenon DEF WithMessage
  <2>3. /\ w \in Views
        /\ \A q \in Peers : q # p => w[q] = v[q]
        /\ DOMAIN w[p] = DOMAIN v[p] \cup {Len(v[p]) + 1} /\ Len(v[p]) + 1 \notin DOMAIN v[p]
        /\ w[p][Len(v[p]) + 1] = m
        /\ \A i \in DOMAIN v[p] : w[p][i] = v[p][i]
        /\ In(v) \subseteq In(w)
    BY ONLY <2>2, AppendedView, p \in Peers, m \in Messages
  <2> QED
    BY <2>1, <2>3
<1> HIDE DEF n
<1>3. OnceIn(view')
  <2> SUFFICES ASSUME NEW q \in Peers, NEW i \in DOMAIN view'[q], NEW j \in DOMAIN view'[q],
                      view'[q][i].who = q, view'[q][j].who = q,
                      view'[q][i].body = view'[q][j].body
               PROVE  i = j
    BY DEF OnceIn
  <2>1. CASE q # p
    BY <1>1, <1>2, <2>1 DEF OnceIn
  <2>2. CASE q = p /\ i \in DOMAIN view[p] /\ j \in DOMAIN view[p]
    BY <1>1, <1>2, <2>2 DEF OnceIn
  <2>3. CASE q = p /\ i = n /\ j \in DOMAIN view[p]
    BY <1>1, <1>2, <2>3 DEF SeenIn
  <2>4. CASE q = p /\ j = n /\ i \in DOMAIN view[p]
    BY <1>1, <1>2, <2>4 DEF SeenIn
  <2> QED
    BY <1>2, <2>1, <2>2, <2>3, <2>4
<1>4. SeenIn(view', seen)
  <2> SUFFICES ASSUME NEW q \in Peers, NEW i \in DOMAIN view'[q], view'[q][i].who = q
               PROVE  <<q, view'[q][i].body>> \in seen
    BY DEF SeenIn
  <2>1. CASE q # p
    BY <1>1, <1>2, <2>1 DEF SeenIn
  <2>2. CASE q = p /\ i \in DOMAIN view[p]
    BY <1>1, <1>2, <2>2 DEF SeenIn
  <2>3. CASE q = p /\ i = n
    BY <1>2, <2>3
  <2> QED
    BY <1>2, <2>1, <2>2, <2>3
<1> QED
  BY <1>2, <1>3, <1>4

LEMMA ItemType ==
    ASSUME items \in Nat, NEW who \in Peers \cup {"me"}, NEW c \in Contents,
           NEW st \in {"read", "sending"}
    PROVE  /\ Item(who, c, st) \in Messages
           /\ Item(who, c, st).who = who /\ Item(who, c, st).body = Body(c)
<1>1. Body(c) \in Bodies
  BY DEF Bodies
<1>2. (c \notin Texts) \in BOOLEAN
  OBVIOUS
<1>3. PICK d \in BOOLEAN : d = (c \notin Texts)
  BY <1>2
<1>4. Item(who, c, st) = [id |-> items + 1, who |-> who, body |-> Body(c), data |-> d, st |-> st]
  BY <1>3 DEF Item
<1> QED
  BY <1>1, <1>4 DEF Messages

\* A message arrives, with keys that are seen already.
LEMMA ChatArrives ==
    ASSUME ChatInv, NEW p \in Peers, NEW c \in Contents, NEW seen, seenIncoming \subseteq seen,
           arrives(p, c, seen)
    PROVE  ChatInv'
<1> DEFINE key == <<p, Body(c)>>
<1>1. convs' = convs \cup {p} /\ seenIncoming' = seen \cup {key} /\ UNCHANGED hydrated
  BY DEF arrives
<1>2. /\ items \in Nat /\ convs' \in SUBSET Peers
      /\ view \in Views /\ OnceIn(view) /\ SeenIn(view, seenIncoming) /\ In(view) \subseteq shown
  BY <1>1 DEF ChatInv, ChatShape, ChatOnce, ChatBack
<1>3. CASE key \notin seen
  <2>1. /\ view' = [view EXCEPT ![p] = Append(@, Item(p, c, "read"))]
        /\ items' = items + 1 /\ shown' = shown \cup In(view')
        /\ written(convs', view') \/ written(convs', view) \/ unwritten
    BY <1>3 DEF arrives, persist
  <2>2. PICK m : m = Item(p, c, "read")
    OBVIOUS
  <2>3. m \in Messages /\ m.who = p /\ m.body = Body(c)
    BY <1>2, <2>2, ItemType
  <2>4. /\ seenIncoming \subseteq seenIncoming'
        /\ <<p, m.body>> \notin seenIncoming /\ <<p, m.body>> \in seenIncoming'
    BY <1>1, <1>3, <2>3
  <2>5. view' \in Views /\ OnceIn(view') /\ SeenIn(view', seenIncoming') /\ In(view) \subseteq In(view')
    BY <2>1, <2>2, <2>3, <2>4, AddedOnce
  <2>6. PICK v \in {view, view'} : written(convs', v) \/ unwritten
    BY <2>1
  <2>7. items' \in Nat
    BY <1>2, <2>1
  <2> QED
    BY <1>1, <1>2, <2>1, <2>5, <2>6, <2>7, ChatPersists
<1>4. CASE key \in seen
  <2>1. UNCHANGED <<view, items, shown>>
    BY <1>4 DEF arrives
  <2>2. view' \in Views /\ OnceIn(view') /\ SeenIn(view', seenIncoming') /\ In(view) \subseteq In(view')
    BY <1>1, <1>2, <2>1 DEF SeenIn
  <2>3. CASE p \notin convs
    <3>1. written(convs', view) \/ unwritten
      BY <1>4, <2>3 DEF arrives, persist
    <3>2. PICK v \in {view, view'} : written(convs', v) \/ unwritten
      BY <3>1
    <3>3. shown' = shown \cup In(view') /\ items' \in Nat
      BY <1>2, <2>1
    <3> QED
      BY <1>1, <1>2, <2>2, <3>2, <3>3, ChatPersists
  <2>4. CASE p \in convs
    <3>1. UNCHANGED <<saved, convs, unsaved, overwritten>>
      BY <1>1, <1>4, <2>4 DEF arrives
    <3>2. ChatShape'
      BY <2>1, <3>1 DEF ChatInv, ChatShape
    <3>3. ChatOnce'
      BY <2>2, <3>1 DEF ChatInv, ChatOnce
    <3>4. ChatBack'
      BY <1>1, <2>1, <3>1 DEF ChatInv, ChatBack, ComesBack
    <3> QED
      BY <3>2, <3>3, <3>4 DEF ChatInv
  <2> QED
    BY <2>3, <2>4
<1> QED
  BY <1>3, <1>4

LEMMA ChatLoad ==
    ASSUME ChatInv, NEW p \in Peers, NEW c \in Contents,
           loadMessages(p, c)
    PROVE  ChatInv'
<1>1. PICK seen : seen = seenIncoming \cup {<<p, c>>}
  OBVIOUS
<1>2. seenIncoming \subseteq seen /\ arrives(p, c, seen)
  BY <1>1 DEF loadMessages
<1> QED
  BY <1>2, ChatArrives

LEMMA ChatSend ==
    ASSUME ChatInv, NEW p \in Peers, NEW c \in Contents, sendMessage(p, c)
    PROVE  ChatInv'
<1>1. /\ view' = [view EXCEPT ![p] = Append(@, Item("me", c, "sending"))]
      /\ items' = items + 1 /\ shown' = shown \cup In(view')
      /\ written(convs, view') \/ unwritten
      /\ UNCHANGED <<convs, seenIncoming, hydrated>>
  BY DEF sendMessage, persist
<1>2. items \in Nat /\ convs' \in SUBSET Peers /\ items' \in Nat
  BY <1>1 DEF ChatInv, ChatShape
<1>3. PICK m : m = Item("me", c, "sending")
  OBVIOUS
<1>4. m \in Messages /\ m.who # p
  BY <1>2, <1>3, ItemType, ChatAssumption
<1>5. /\ view' \in Views /\ OnceIn(view') /\ SeenIn(view', seenIncoming)
      /\ In(view) \subseteq In(view')
  BY <1>1, <1>3, <1>4, AddedOnce
<1>6. PICK v \in {view, view'} : written(convs', v) \/ unwritten
  BY <1>1
<1> QED
  BY <1>1, <1>2, <1>5, <1>6, ChatPersists

LEMMA ChatStatus ==
    ASSUME ChatInv, NEW id, NEW st \in {"sent", "error"}, updateMessageStatus(id, st)
    PROVE  ChatInv'
<1> DEFINE g(m) == IF m.id = id THEN [m EXCEPT !.st = st] ELSE m
<1>1. /\ view' = [p \in Peers |-> [i \in DOMAIN view[p] |-> g(view[p][i])]]
      /\ UNCHANGED <<convs, seenIncoming, saved, hydrated, items, shown, unsaved, overwritten>>
  BY DEF updateMessageStatus, history
<1>2. \A m \in Messages : g(m) \in Messages /\ g(m).id = m.id /\ g(m).who = m.who /\ g(m).body = m.body
  BY DEF Messages
<1> HIDE DEF g
<1>3. /\ view' = [p \in Peers |-> view'[p]]
      /\ \A p \in Peers : /\ view'[p] = [i \in DOMAIN view[p] |-> view'[p][i]]
                          /\ \A i \in DOMAIN view[p] : view'[p][i] = g(view[p][i])
  BY <1>1
<1>4. view \in Views /\ \A p \in Peers : \A i \in DOMAIN view[p] : view[p][i] \in Messages
  BY DEF ChatInv, ChatShape, Views
<1>5. \A p \in Peers : \A i \in DOMAIN view[p] :
         /\ view'[p][i] \in Messages /\ view'[p][i].id = view[p][i].id
         /\ view'[p][i].who = view[p][i].who /\ view'[p][i].body = view[p][i].body
  BY <1>2, <1>3, <1>4
<1>6. view' \in Views /\ Like(view, view')
  BY <1>3, <1>4, <1>5, MappedView
<1>7. ChatShape'
  BY <1>1, <1>6 DEF ChatInv, ChatShape
<1>8. ChatOnce'
  BY <1>1, <1>6, LikeOnce DEF ChatInv, ChatOnce
<1>9. ChatBack'
  <2>1. In(view') = In(view)
    BY <1>6, LikeOnce
  <2> QED
    BY <1>1, <2>1 DEF ChatInv, ChatBack, ComesBack
<1> QED
  BY <1>7, <1>8, <1>9 DEF ChatInv

LEMMA ChatClear ==
    ASSUME ChatInv, NEW p \in Peers, clearMessages(p)
    PROVE  ChatInv'
<1>1. /\ view' = [view EXCEPT ![p] = <<>>]
      /\ shown' = shown \ (In(view) \ In(view')) /\ unsaved' = unsaved \cap In(view')
      /\ UNCHANGED <<convs, seenIncoming, saved, hydrated, items, overwritten>>
  BY DEF clearMessages
<1>2. view \in Views
  BY DEF ChatInv, ChatShape
<1>3. view' \in Views /\ view'[p] = <<>> /\ \A q \in Peers : q # p => view'[q] = view[q]
  BY <1>1, <1>2 DEF Views
<1>4. DOMAIN view'[p] = {}
  BY <1>3
<1>5. ChatShape'
  BY <1>1, <1>3 DEF ChatInv, ChatShape
<1>6. OnceIn(view') /\ SeenIn(view', seenIncoming)
  BY <1>3, <1>4 DEF ChatInv, ChatOnce, OnceIn, SeenIn
<1>7. ChatOnce'
  BY <1>1, <1>6 DEF ChatInv, ChatOnce
<1>8. In(view') \subseteq In(view)
  <2>1. \A q \in Peers : {<<q, view'[q][i].id>> : i \in DOMAIN view'[q]} \subseteq
                           {<<q, view[q][i].id>> : i \in DOMAIN view[q]}
    BY <1>3, <1>4
  <2> QED
    BY <2>1 DEF In
<1>9. ChatBack'
  BY <1>1, <1>8 DEF ChatInv, ChatBack, ComesBack
<1> QED
  BY <1>5, <1>7, <1>9 DEF ChatInv

\* The keys of a view that are seeded.
LEMMA SeededSeen ==
    ASSUME NEW v, NEW seen, Incoming(Known(v)) \subseteq seen
    PROVE  SeenIn(v, seen)
<1> SUFFICES ASSUME NEW p \in Peers, NEW i \in DOMAIN v[p], v[p][i].who = p
             PROVE  <<p, v[p][i].body>> \in Incoming(Known(v))
  BY DEF SeenIn
<1> DEFINE keys(q) == {<<m.who, m.body>> : m \in {v[q][k] : k \in DOMAIN v[q]}}
<1>1. <<p, v[p][i].body>> \in keys(p)
  <2>1. v[p][i] \in {v[p][k] : k \in DOMAIN v[p]}
    OBVIOUS
  <2>2. PICK m : m = v[p][i]
    OBVIOUS
  <2>3. <<m.who, m.body>> \in keys(p)
    BY <2>1, <2>2
  <2> QED
    BY <2>2, <2>3
<1>2. Known(v) = UNION {keys(q) : q \in Peers}
  BY DEF Known
<1> HIDE DEF keys
<1>3. <<p, v[p][i].body>> \in Known(v)
  BY <1>1, <1>2
<1>4. <<p, v[p][i].body>>[1] # "me"
  BY ChatAssumption
<1> QED
  BY <1>3, <1>4 DEF Incoming

LEMMA ChatHydrate ==
    ASSUME ChatInv, hydrate
    PROVE  ChatInv'
<1>1. hydrated' = TRUE /\ UNCHANGED <<saved, items, overwritten>>
  BY DEF hydrate
<1>2. CASE saved.there
  <2>1. /\ convs' = saved.convs /\ view' = saved.view
        /\ seenIncoming' = seenIncoming \cup Incoming(Known(saved.view))
        /\ shown' = (shown \ unsaved) \cup In(view') /\ unsaved' = {}
    BY <1>2 DEF hydrate
  <2>2. ChatShape'
    BY <1>1, <2>1 DEF ChatInv, ChatShape
  <2>3. SeenIn(saved.view, seenIncoming')
    BY <2>1, SeededSeen
  <2>4. ChatOnce'
    BY <1>1, <2>1, <2>3 DEF ChatInv, ChatOnce
  <2>5. ChatBack'
    BY <1>1, <2>1 DEF ChatInv, ChatBack, ComesBack
  <2> QED
    BY <2>2, <2>4, <2>5 DEF ChatInv
<1>3. CASE ~saved.there
  <2>1. UNCHANGED <<convs, view, shown, unsaved, seenIncoming>>
    BY <1>3 DEF hydrate
  <2>2. ChatShape' /\ ChatOnce'
    BY <1>1, <2>1 DEF ChatInv, ChatShape, ChatOnce
  <2>3. In(saved.view) = {}
    BY <1>3, EmptyView DEF ChatInv, ChatShape
  <2>4. ChatBack'
    BY <1>1, <2>1, <2>3 DEF ChatInv, ChatBack, ComesBack
  <2> QED
    BY <2>2, <2>4 DEF ChatInv
<1> QED
  BY <1>2, <1>3

LEMMA ChatRestart ==
    ASSUME ChatInv, restart
    PROVE  ChatInv'
<1>1. /\ convs' = {} /\ view' = NoCopy.view /\ seenIncoming' = {} /\ hydrated' = FALSE
      /\ shown' = shown \ unsaved /\ unsaved' = {} /\ UNCHANGED <<saved, items, overwritten>>
  BY DEF restart
<1>2. ChatShape'
  BY <1>1, EmptyView DEF ChatInv, ChatShape
<1>3. ChatOnce'
  BY <1>1, EmptyView DEF ChatInv, ChatOnce
<1>4. ChatBack'
  BY <1>1, EmptyView DEF ChatInv, ChatBack, ComesBack
<1> QED
  BY <1>2, <1>3, <1>4 DEF ChatInv

LEMMA ChatInvAlways == ChatSpec => []ChatInv
<1>1. ChatInv /\ [ChatNext]_chatvars => ChatInv'
  <2> SUFFICES ASSUME ChatInv, [ChatNext]_chatvars PROVE ChatInv'
    OBVIOUS
  <2>1. CASE UNCHANGED chatvars
    BY <2>1 DEF chatvars, history, ChatInv, ChatShape, ChatOnce, ChatBack, ComesBack
  <2> QED
    BY <2>1, ChatAdd, ChatLoad, ChatSend, ChatStatus, ChatClear, ChatHydrate, ChatRestart DEF ChatNext
<1> QED
  BY <1>1, ChatInvInit, PTL DEF ChatSpec

\* A conversation never shows the same message of a contact twice, whatever
\* the relay answers to polls before and after a restart: the keys of the
\* saved messages are seeded by hydrate, and the saved ones are never doubled.
THEOREM ShowsOnce == ChatSpec => []ShownOnce
<1>1. ChatInv => ShownOnce
  BY DEF ChatInv, ChatOnce, OnceIn, ShownOnce
<1> QED
  BY <1>1, ChatInvAlways, PTL

\* After any number of restarts the user sees every message that was shown and
\* not cleared, unless every write since it came failed, or the window wrote
\* before it had read the copy.
THEOREM HistoryComesBack == ChatSpec => []ComesBack
<1>1. ChatInv => ComesBack
  BY DEF ChatInv, ChatBack
<1> QED
  BY <1>1, ChatInvAlways, PTL

-----------------------------------------------------------------------------
(* The children of the main process.                                       *)

Procs == [kind : {"cli", "listen", "background"},
          st : {"new", "checked", "up", "term"} \cup Gone, by : Nat]

Calls == [via : Queues \cup {"direct"}, kind : {"cli", "listen"},
          st : {"queued", "running", "wait", "done", "failed", "lost"}, tries : Nat, pid : Nat]

\* A child that works, or will, and was not told to end.
Active(x) == x.st \in {"new", "checked", "up"}

\* What may become of a child: one that ends stays so.
Becomes(x, y) ==
    /\ y \in Procs /\ y.by = x.by /\ y.kind = x.kind
    /\ Active(y) => Active(x)
    /\ x.st \in Gone => y.st \in Gone

\* Children are there before the calls that run them, and are never forgotten.
MainShape ==
    /\ app \in {"up", "quit", "crashed"} /\ launches \in Nat
    /\ procs \in Seq(Procs) /\ calls \in Seq(Calls)
    /\ \A p \in DOMAIN procs : procs[p].by <= launches
    /\ \A i \in DOMAIN calls : calls[i].pid # None => calls[i].pid \in DOMAIN procs

\* Children are added, and keep the start they belong to.
Kin == /\ procs' \in Seq(Procs)
       /\ \A p \in DOMAIN procs : p \in DOMAIN procs' /\ Becomes(procs[p], procs'[p])
       /\ \A p \in DOMAIN procs' : p \notin DOMAIN procs => procs'[p].by = launches

LEMMA ChildBecomes ==
    ASSUME NEW x \in Procs
    PROVE  /\ Becomes(x, x) /\ Becomes(x, Terminated(x))
           /\ Listener(x) => ~Active(Terminated(x))
           /\ \A st \in Gone : Becomes(x, [x EXCEPT !.st = st])
           /\ Active(x) => \A st \in {"checked", "up"} : Becomes(x, [x EXCEPT !.st = st])
BY DEF Becomes, Terminated, Listener, Active, Procs, Gone

LEMMA ChildrenAre ==
    ASSUME MainShape
    PROVE  /\ procs = [p \in DOMAIN procs |-> procs[p]] /\ None \notin DOMAIN procs
           /\ \A p \in DOMAIN procs : procs[p] \in Procs
           /\ Len(procs) \in Nat /\ DOMAIN procs = 1..Len(procs)
<1>1. procs \in Seq(Procs)
  BY DEF MainShape
<1>. QED BY <1>1 DEF None

\* Children whose states change.
LEMMA KinStay ==
    ASSUME MainShape, procs' = [p \in DOMAIN procs |-> procs'[p]],
           \A p \in DOMAIN procs : Becomes(procs[p], procs'[p])
    PROVE  Kin /\ DOMAIN procs' = DOMAIN procs
<1>1. procs' \in Seq(Procs) /\ DOMAIN procs' = DOMAIN procs
  <2>1. PICK s, t : s = procs /\ t = procs'
    OBVIOUS
  <2>2. s \in Seq(Procs) /\ t = [i \in DOMAIN s |-> t[i]] /\ \A i \in DOMAIN s : t[i] \in Procs
    BY <2>1 DEF MainShape, Becomes
  <2>. QED BY ONLY <2>1, <2>2, MembersMapped
<1>. QED BY <1>1 DEF Kin

\* One child changes, or none.
LEMMA KinOne ==
    ASSUME MainShape, NEW p,
           \/ procs' = [procs EXCEPT ![p] = Terminated(@)]
           \/ \E st \in Gone : procs' = [procs EXCEPT ![p].st = st]
           \/ Active(procs[p]) /\ \E st \in {"checked", "up"} : procs' = [procs EXCEPT ![p].st = st]
           \/ UNCHANGED procs
    PROVE  Kin /\ DOMAIN procs' = DOMAIN procs
<1>1. procs = [q \in DOMAIN procs |-> procs[q]] /\ \A q \in DOMAIN procs : procs[q] \in Procs
  BY ChildrenAre
<1>2. procs' = [q \in DOMAIN procs |-> procs'[q]]
  BY <1>1
<1>3. \A q \in DOMAIN procs : Becomes(procs[q], procs'[q])
  <2>. SUFFICES ASSUME NEW q \in DOMAIN procs PROVE Becomes(procs[q], procs'[q])
    OBVIOUS
  <2>1. PICK x \in Procs : x = procs[q]
    BY <1>1
  <2>2. \/ procs'[q] = x \/ procs'[q] = Terminated(x)
        \/ \E st \in Gone : procs'[q] = [x EXCEPT !.st = st]
        \/ Active(x) /\ \E st \in {"checked", "up"} : procs'[q] = [x EXCEPT !.st = st]
    BY <1>1, <2>1
  <2>. QED BY <2>1, <2>2, ChildBecomes
<1>. QED BY <1>2, <1>3, KinStay

\* A child is added to children of which one may have been told to end.
LEMMA KinAdded ==
    ASSUME MainShape, NEW kind \in {"cli", "listen", "background"}, NEW ps,
           ps = procs \/ ps = KilledByFile, procs' = Append(ps, Child(kind))
    PROVE  /\ Kin /\ DOMAIN procs' = DOMAIN procs \cup {NextPid}
           /\ NextPid \notin DOMAIN procs /\ NextPid \in Nat /\ NextPid # None
           /\ procs'[NextPid].by = launches /\ procs'[NextPid].kind = kind
<1>1. /\ procs \in Seq(Procs) /\ launches \in Nat
      /\ procs = [q \in DOMAIN procs |-> procs[q]] /\ \A q \in DOMAIN procs : procs[q] \in Procs
  BY ChildrenAre DEF MainShape
<1>2. PICK x : x = Child(kind)
  OBVIOUS
<1>3. x \in Procs /\ x.by = launches /\ x.kind = kind
  BY <1>1, <1>2 DEF Child, Procs
<1>4. /\ ps \in Seq(Procs) /\ DOMAIN ps = DOMAIN procs
      /\ \A q \in DOMAIN procs : Becomes(procs[q], ps[q])
  <2>1. CASE ps = procs
    BY <1>1, <2>1, ChildBecomes
  <2>2. CASE ps = [procs EXCEPT ![listenfile] = Terminated(@)]
    <3>1. ps = [q \in DOMAIN procs |-> ps[q]]
      BY <1>1, <2>2
    <3>2. \A q \in DOMAIN procs : Becomes(procs[q], ps[q])
      BY <1>1, <2>2, ChildBecomes
    <3>3. \A q \in DOMAIN procs : ps[q] \in Procs
      BY <3>2 DEF Becomes
    <3>4. PICK s : s = procs
      OBVIOUS
    <3>. QED BY <1>1, <3>1, <3>2, <3>3, <3>4, MembersMapped
  <2>. QED BY <2>1, <2>2 DEF KilledByFile
<1>5. Len(ps) = Len(procs) /\ Len(procs) \in Nat /\ procs' = Append(ps, x)
  BY <1>1, <1>2, <1>4
<1>6. /\ procs' \in Seq(Procs) /\ DOMAIN procs' = DOMAIN procs \cup {Len(procs) + 1}
      /\ Len(procs) + 1 \notin DOMAIN procs
      /\ procs'[Len(procs) + 1] = x
      /\ \A q \in DOMAIN procs : procs'[q] = ps[q]
  BY <1>1, <1>3, <1>4, <1>5
<1>7. Kin
  BY <1>3, <1>4, <1>6 DEF Kin
<1>. QED BY <1>3, <1>5, <1>6, <1>7 DEF NextPid, None

\* After reapStaleAddProcesses no listener works but the one of the handle.
LEMMA KinReaped ==
    ASSUME MainShape, procs' = Reaped
    PROVE  /\ Kin /\ DOMAIN procs' = DOMAIN procs
           /\ \A p \in DOMAIN procs : Listener(procs'[p]) /\ Active(procs'[p]) => p = listenProcess
<1>1. procs = [q \in DOMAIN procs |-> procs[q]] /\ \A q \in DOMAIN procs : procs[q] \in Procs
  BY ChildrenAre
<1>2. /\ procs' = [q \in DOMAIN procs |-> procs'[q]]
      /\ \A q \in DOMAIN procs :
            procs'[q] = IF q # listenProcess THEN Terminated(procs[q]) ELSE procs[q]
  BY DEF Reaped, isRustAddCli
<1>3. \A q \in DOMAIN procs : Becomes(procs[q], procs'[q])
  BY <1>1, <1>2, ChildBecomes
<1>4. ASSUME NEW p \in DOMAIN procs, Listener(procs'[p]), Active(procs'[p]), p # listenProcess
      PROVE  FALSE
  <2>1. PICK x \in Procs : x = procs[p]
    BY <1>1
  <2>2. procs'[p] = Terminated(x) /\ Listener(x)
    BY <1>2, <1>3, <1>4, <2>1 DEF Becomes, Listener
  <2>. QED BY <1>4, <2>1, <2>2, ChildBecomes
<1>. QED BY <1>2, <1>3, <1>4, KinStay

-----------------------------------------------------------------------------
(* The listener.                                                           *)

\* The listeners that work are of this start, and those in the background have
\* a handle or lost it to the close event of another.
Owned ==
    /\ \A p \in DOMAIN procs : Listener(procs[p]) /\ Active(procs[p]) => procs[p].by = launches
    /\ app # "up" => listenProcess = None
    /\ app # "crashed" =>
          \A p \in DOMAIN procs :
             procs[p].kind = "background" /\ Active(procs[p]) =>
                p \in disowned \/ (app = "up" /\ p = listenProcess)

\* No listener is started or told to end, and the handle stays.
LEMMA OwnedRests ==
    ASSUME MainShape, Owned, Kin, UNCHANGED <<launches, app, listenProcess, disowned>>,
           \A p \in DOMAIN procs' : p \notin DOMAIN procs => procs'[p].kind # "background"
    PROVE  Owned'
<1>1. \A p \in DOMAIN procs' : Listener(procs'[p]) /\ Active(procs'[p]) => procs'[p].by = launches
  BY DEF Owned, Kin, Becomes, Listener
<1>2. \A p \in DOMAIN procs' : procs'[p].kind = "background" /\ Active(procs'[p]) =>
         p \in DOMAIN procs /\ procs[p].kind = "background" /\ Active(procs[p])
  BY DEF Kin, Becomes
<1>. QED BY <1>1, <1>2 DEF Owned

\* A fresh listener, whose handle takes the place of one that is gone.
LEMMA OwnedStarts ==
    ASSUME MainShape, Owned, app = "up", startListenProcess, UNCHANGED <<launches, app, disowned>>
    PROVE  Kin /\ Owned'
<1>1. CASE UNCHANGED <<procs, listenProcess>>
  BY <1>1, KinOne, OwnedRests
<1>2. CASE /\ ~Alive(listenProcess) /\ procs' = Append(KilledByFile, Child("background"))
           /\ listenProcess' = NextPid
  <2>1. /\ Kin /\ DOMAIN procs' = DOMAIN procs \cup {NextPid}
        /\ NextPid \notin DOMAIN procs /\ procs'[NextPid].by = launches
    BY <1>2, KinAdded
  <2>2. \A p \in DOMAIN procs : Active(procs'[p]) => Active(procs[p]) /\ p # listenProcess
    BY <1>2, <2>1, ChildrenAre DEF Kin, Becomes, Alive, Active, Gone
  <2>3. \A p \in DOMAIN procs' : Listener(procs'[p]) /\ Active(procs'[p]) => procs'[p].by = launches
    BY <2>1, <2>2 DEF Owned, Kin, Becomes, Listener
  <2>4. \A p \in DOMAIN procs' : procs'[p].kind = "background" /\ Active(procs'[p]) =>
           p \in disowned \/ p = NextPid
    BY <2>1, <2>2 DEF Owned, Kin, Becomes
  <2>. QED BY <1>2, <2>1, <2>3, <2>4 DEF Owned
<1>. QED BY <1>1, <1>2 DEF startListenProcess

\* The listener of the handle, or the one that the file names, is told to end.
LEMMA OwnedStops ==
    ASSUME MainShape, Owned, app = "up", app' \in {"up", "quit"}, killListenProcess,
           UNCHANGED <<launches, disowned>>
    PROVE  Kin /\ Owned'
<1>1. Kin /\ DOMAIN procs' = DOMAIN procs /\ listenProcess' = None
  BY KinOne DEF killListenProcess, KilledByFile
<1>2. \A p \in DOMAIN procs : /\ procs'[p].kind = procs[p].kind /\ procs'[p].by = procs[p].by
                              /\ Active(procs'[p]) => Active(procs[p])
  BY <1>1 DEF Kin, Becomes
<1>3. ASSUME NEW p \in DOMAIN procs, procs'[p].kind = "background", Active(procs'[p])
      PROVE  p \in disowned
  <2>1. p \in disowned \/ p = listenProcess
    BY <1>2, <1>3 DEF Owned
  <2>2. CASE p = listenProcess
    <3>1. PICK x \in Procs : x = procs[p]
      BY ChildrenAre
    <3>2. procs'[p] = Terminated(x) /\ Listener(x)
      BY <1>2, <1>3, <2>2, <3>1, ChildrenAre DEF killListenProcess, Listener
    <3>. QED BY <1>3, <3>1, <3>2, ChildBecomes
  <2>. QED BY <2>1, <2>2
<1>. QED BY <1>1, <1>2, <1>3 DEF Owned, Listener

\* The close event of a listener takes the handle of another, which it disowns.
LEMMA OwnedCloses ==
    ASSUME MainShape, Owned, NEW p, listen_close(p)
    PROVE  Kin /\ Owned'
<1>1. /\ UNCHANGED <<app, launches, procs>> /\ listenProcess' = None
      /\ disowned' = disowned \cup ({listenProcess} \ {None, p}) /\ procs[p].st \in Gone
  BY DEF listen_close
<1>2. \A q \in DOMAIN procs : q = listenProcess /\ Active(procs[q]) => q \in disowned'
  BY <1>1, ChildrenAre DEF Active, Gone
<1>. QED BY <1>1, <1>2, KinOne DEF Owned

\* A crash leaves listeners, and the next start ends them.
LEMMA OwnedCrash ==
    ASSUME MainShape, Owned, crash \/ whenReady
    PROVE  Owned'
<1>1. CASE crash
  BY <1>1 DEF crash, Ended, Owned
<1>2. CASE whenReady
  <2>1. /\ app # "up" /\ app' = "up" /\ procs' = Reaped /\ UNCHANGED listenProcess
    BY <1>2 DEF whenReady
  <2>2. /\ DOMAIN procs' = DOMAIN procs /\ listenProcess \notin DOMAIN procs
        /\ \A p \in DOMAIN procs : Listener(procs'[p]) /\ Active(procs'[p]) => p = listenProcess
    BY <2>1, KinReaped, ChildrenAre DEF Owned
  <2>. QED BY <2>1, <2>2 DEF Owned, Listener
<1>. QED BY <1>1, <1>2

-----------------------------------------------------------------------------
(* The queues.                                                             *)

Ran(i) == Queued(i) /\ calls[i].pid # None

\* A call that is not settled is one of this start, and what it ran is gone when
\* it is settled; a call is lost with its start.
QueueNow ==
    \A i \in DOMAIN calls :
        /\ calls[i].st = "queued" => calls[i].pid = None
        /\ calls[i].st \in {"running", "wait"} => calls[i].pid # None
        /\ ~Settled(i) => app = "up" /\ (calls[i].pid # None => RunIn(i) = launches)
        /\ calls[i].pid # None =>
              /\ calls[i].st \in {"done", "failed"} => procs[calls[i].pid].st \in Gone
              /\ calls[i].st = "lost" /\ RunIn(i) = launches => app # "up"

\* What comes before a call that was run is settled.
QueueOrder ==
    \A i, j \in DOMAIN calls : i < j /\ calls[i].via = calls[j].via /\ Ran(j) => Settled(i)

QueueInv == MainShape /\ QueueNow /\ QueueOrder /\ RunsInTurn

LEMMA QueueInit == MainInit => QueueInv /\ Owned
<1>. SUFFICES ASSUME MainInit PROVE QueueInv /\ Owned
  OBVIOUS
<1>1. calls = <<>> /\ procs = <<>> /\ launches = 1 /\ DOMAIN calls = {} /\ DOMAIN procs = {}
  BY DEF MainInit
<1>2. calls \in Seq(Calls) /\ procs \in Seq(Procs)
  BY <1>1
<1>3. app = "up"
  BY DEF MainInit
<1>. QED
  BY <1>1, <1>2, <1>3 DEF QueueInv, MainShape, QueueNow, QueueOrder, RunsInTurn, Owned

\* What the children of calls do.
LEMMA KinCalls ==
    ASSUME MainShape, Kin, NEW i \in DOMAIN calls, calls[i].pid # None
    PROVE  /\ calls[i].pid \in DOMAIN procs' /\ procs'[calls[i].pid].by = procs[calls[i].pid].by
           /\ procs[calls[i].pid].st \in Gone => procs'[calls[i].pid].st \in Gone
BY DEF MainShape, Kin, Becomes

LEMMA KinShape ==
    ASSUME MainShape, Kin, UNCHANGED launches, app' \in {"up", "quit", "crashed"},
           calls' \in Seq(Calls),
           \A i \in DOMAIN calls' : calls'[i].pid # None => calls'[i].pid \in DOMAIN procs'
    PROVE  MainShape'
<1>1. launches \in Nat /\ procs' \in Seq(Procs)
  BY DEF MainShape, Kin
<1>2. \A p \in DOMAIN procs' : procs'[p].by <= launches
  BY <1>1 DEF MainShape, Kin, Becomes
<1>. QED BY <1>1, <1>2 DEF MainShape

\* No call moves.
LEMMA QueueRests ==
    ASSUME QueueInv, Kin, UNCHANGED <<calls, launches, app>>
    PROVE  QueueInv'
<1>1. MainShape /\ QueueNow /\ QueueOrder /\ RunsInTurn
  BY DEF QueueInv
<1>2. \A i \in DOMAIN calls : calls[i].pid # None =>
         /\ calls[i].pid \in DOMAIN procs' /\ procs'[calls[i].pid].by = procs[calls[i].pid].by
         /\ procs[calls[i].pid].st \in Gone => procs'[calls[i].pid].st \in Gone
  BY <1>1, KinCalls
<1>3. MainShape'
  BY <1>1, <1>2, KinShape DEF MainShape
<1>4. QueueNow'
  BY <1>1, <1>2 DEF QueueNow, Settled, RunIn
<1>5. QueueOrder'
  BY <1>1 DEF QueueOrder, Settled, Ran, Queued
<1>6. RunsInTurn'
  BY <1>1, <1>2 DEF RunsInTurn, RunIn, Queued, Settled, Alive
<1>. QED BY <1>3, <1>4, <1>5, <1>6 DEF QueueInv

\* The calls of its queue before i are settled, and gone if run now.
Clear(i) ==
    \A j \in DOMAIN calls : j < i /\ calls[j].via = calls[i].via =>
        Settled(j) /\ (Ran(j) /\ RunIn(j) = launches => ~Alive(calls[j].pid))

\* A call that is not settled moves.
LEMMA QueueMoves ==
    ASSUME QueueInv, Kin, UNCHANGED <<launches, app>>,
           NEW i \in DOMAIN calls, ~Settled(i),
           NEW c \in Calls, calls' = [calls EXCEPT ![i] = c], c.via = calls[i].via,
           c.pid # None => c.pid \in DOMAIN procs' /\ procs'[c.pid].by = launches,
           c.st \in {"running", "wait", "done", "failed"},
           c.st \in {"running", "wait"} => c.pid # None,
           c.st \in {"done", "failed"} /\ c.pid # None => procs'[c.pid].st \in Gone,
           c.via \in Queues /\ c.pid # None => Clear(i)
    PROVE  QueueInv'
<1>1. MainShape /\ QueueNow /\ QueueOrder /\ RunsInTurn
  BY DEF QueueInv
<1>2. /\ calls' \in Seq(Calls) /\ DOMAIN calls' = DOMAIN calls /\ calls'[i] = c
      /\ \A j \in DOMAIN calls : j # i => calls'[j] = calls[j]
      /\ DOMAIN calls \subseteq Nat
  <2>1. calls \in Seq(Calls)
    BY <1>1 DEF MainShape
  <2>. QED BY <2>1
<1>3. \A j \in DOMAIN calls : calls[j].pid # None =>
         /\ calls[j].pid \in DOMAIN procs' /\ procs'[calls[j].pid].by = procs[calls[j].pid].by
         /\ procs[calls[j].pid].st \in Gone => procs'[calls[j].pid].st \in Gone
  BY <1>1, KinCalls
<1>4. \A j \in DOMAIN calls : j # i =>
         /\ Ran(j)' <=> Ran(j)
         /\ Settled(j)' <=> Settled(j)
         /\ calls[j].pid # None => RunIn(j)' = RunIn(j)
         /\ calls[j].pid # None /\ ~Alive(calls[j].pid) => ~Alive(calls[j].pid)'
  BY <1>2, <1>3 DEF Ran, Queued, Settled, RunIn, Alive
<1>5. app = "up" /\ \A j \in DOMAIN calls : i < j /\ calls[j].via = calls[i].via => ~Ran(j)
  BY <1>1 DEF QueueNow, QueueOrder
<1>6. MainShape'
  <2>1. \A j \in DOMAIN calls' : calls'[j].pid # None => calls'[j].pid \in DOMAIN procs'
    BY <1>2, <1>3
  <2>. QED BY <1>1, <1>2, <1>5, <2>1, KinShape
<1>7. QueueNow'
  <2>. SUFFICES ASSUME NEW j \in DOMAIN calls
                PROVE  (/\ calls[j].st = "queued" => calls[j].pid = None
                        /\ calls[j].st \in {"running", "wait"} => calls[j].pid # None
                        /\ ~Settled(j) => app = "up" /\ (calls[j].pid # None => RunIn(j) = launches)
                        /\ calls[j].pid # None =>
                              /\ calls[j].st \in {"done", "failed"} => procs[calls[j].pid].st \in Gone
                              /\ calls[j].st = "lost" /\ RunIn(j) = launches => app # "up")'
    BY <1>2 DEF QueueNow
  <2>1. CASE j = i
    BY <1>2, <1>5, <2>1 DEF Settled, RunIn
  <2>2. CASE j # i
    BY <1>1, <1>2, <1>3, <1>4, <2>2 DEF QueueNow
  <2>. QED BY <2>1, <2>2
<1>8. Ran(i)' => Clear(i)
  BY <1>2 DEF Ran, Queued
<1>9. QueueOrder'
  <2>. SUFFICES ASSUME NEW j \in DOMAIN calls, NEW k \in DOMAIN calls, j < k,
                       calls'[j].via = calls'[k].via, Ran(k)'
                PROVE  Settled(j)'
    BY <1>2 DEF QueueOrder
  <2>0. j \in Nat /\ k \in Nat /\ j # k
    BY <1>2
  <2>1. CASE k = i
    BY <1>2, <1>4, <1>8, <2>0, <2>1 DEF Clear
  <2>2. CASE j = i
    BY <1>2, <1>4, <1>5, <2>0, <2>2
  <2>3. CASE j # i /\ k # i
    BY <1>1, <1>2, <1>4, <2>3 DEF QueueOrder
  <2>. QED BY <2>1, <2>2, <2>3
<1>10. RunsInTurn'
  <2>. SUFFICES ASSUME NEW j \in DOMAIN calls, NEW k \in DOMAIN calls, j < k,
                       calls'[j].via = calls'[k].via, Ran(j)', Ran(k)', RunIn(j)' = RunIn(k)'
                PROVE  (Settled(j) /\ ~Alive(calls[j].pid))'
    BY <1>2 DEF RunsInTurn, Ran, Queued
  <2>0. j \in Nat /\ k \in Nat /\ j # k
    BY <1>2
  <2>1. CASE k = i
    <3>1. RunIn(k)' = launches
      BY <1>2, <2>1 DEF RunIn, Ran
    <3>2. Ran(j) /\ RunIn(j) = launches /\ calls'[j] = calls[j] /\ calls[j].pid # None
      BY <1>2, <1>4, <2>0, <2>1, <3>1 DEF Ran
    <3>3. Settled(j) /\ ~Alive(calls[j].pid)
      BY <1>2, <1>8, <2>0, <2>1, <3>2 DEF Clear
    <3>. QED BY <1>4, <2>0, <2>1, <3>2, <3>3
  <2>2. CASE j = i
    BY <1>2, <1>4, <1>5, <2>0, <2>2
  <2>3. CASE j # i /\ k # i
    <3>1. Ran(j) /\ Ran(k) /\ RunIn(j) = RunIn(k) /\ calls[j].via = calls[k].via
      BY <1>2, <1>4, <2>3 DEF Ran
    <3>2. Settled(j) /\ ~Alive(calls[j].pid) /\ calls[j].pid # None
      BY <1>1, <3>1 DEF RunsInTurn, Ran
    <3>. QED BY <1>4, <2>3, <3>2
  <2>. QED BY <2>1, <2>2, <2>3
<1>. QED BY <1>6, <1>7, <1>9, <1>10 DEF QueueInv

\* The calls before one that was run are clear.
LEMMA RunClear ==
    ASSUME QueueInv, NEW i \in DOMAIN calls, ~Settled(i), Ran(i)
    PROVE  Clear(i)
BY DEF QueueInv, QueueNow, QueueOrder, RunsInTurn, Clear, Ran

\* So are those before a call whose turn it is.
LEMMA TurnClear ==
    ASSUME QueueInv, NEW i \in DOMAIN calls, ~Settled(i), Turn(i)
    PROVE  Clear(i)
<1>1. QueueNow /\ calls \in Seq(Calls)
  BY DEF QueueInv, MainShape
<1>2. \A j \in DOMAIN calls : j < i => j \in 1..(i - 1)
  BY <1>1
<1>3. app = "up"
  BY <1>1 DEF QueueNow
<1>. QED BY <1>1, <1>2, <1>3 DEF Turn, QueueNow, Clear, Settled, Ran, Alive

\* A call that is handled moves, and no listener in the background is started.
LEMMA QueueCommands ==
    ASSUME QueueInv, NEW i \in DOMAIN calls,
           queuedCommand(i) \/ timeout(i) \/ close(i) \/ retry(i)
    PROVE  /\ QueueInv' /\ Kin
           /\ \A p \in DOMAIN procs' : p \notin DOMAIN procs => procs'[p].kind # "background"
<1>. DEFINE Goal == /\ QueueInv' /\ Kin
                    /\ \A p \in DOMAIN procs' : p \notin DOMAIN procs => procs'[p].kind # "background"
<1>1. /\ calls \in Seq(Calls) /\ procs \in Seq(Procs) /\ launches \in Nat /\ QueueNow /\ MainShape
      /\ calls[i].pid # None => calls[i].pid \in DOMAIN procs
  BY DEF QueueInv, MainShape
<1>2. PICK d \in Calls : d = calls[i]
  BY <1>1
<1>3. ~Settled(i) /\ UNCHANGED <<app, launches>> /\ app = "up"
  BY <1>1 DEF queuedCommand, timeout, close, retry, Settled, QueueNow
<1>4. calls = [j \in DOMAIN calls |-> calls[j]]
  BY <1>1
<1>5. d.pid # None => procs[d.pid].by = launches
  BY <1>1, <1>2, <1>3 DEF QueueNow, RunIn
\* A child is started for the call.
<1>6. ASSUME NEW n \in Nat, procs' = Append(procs, Child(d.kind)),
             calls' = [calls EXCEPT ![i] = [d EXCEPT !.st = "running", !.tries = n, !.pid = NextPid]],
             d.via \in Queues => Clear(i)
      PROVE  Goal
  <2>0. PICK kind \in {"cli", "listen"} : kind = d.kind
    BY DEF Calls
  <2>1. /\ Kin /\ DOMAIN procs' = DOMAIN procs \cup {NextPid} /\ procs'[NextPid].by = launches
        /\ NextPid \in Nat /\ NextPid # None /\ procs'[NextPid].kind = kind
    BY <1>1, <1>6, <2>0, KinAdded
  <2>2. PICK c : c = [d EXCEPT !.st = "running", !.tries = n, !.pid = NextPid]
    OBVIOUS
  <2>3. c \in Calls /\ c.via = d.via /\ c.st = "running" /\ c.pid = NextPid
    BY <2>1, <2>2 DEF Calls
  <2>4. QueueInv'
    BY <1>2, <1>3, <1>6, <2>1, <2>2, <2>3, QueueMoves
  <2>. QED BY <2>0, <2>1, <2>4
\* The call is settled or waits.
<1>7. ASSUME NEW st \in {"wait", "done", "failed"}, Kin, DOMAIN procs' = DOMAIN procs,
             calls' = [calls EXCEPT ![i].st = st], st = "wait" => d.pid # None,
             st # "wait" /\ d.pid # None => procs'[d.pid].st \in Gone
      PROVE  Goal
  <2>1. PICK c : c = [d EXCEPT !.st = st]
    OBVIOUS
  <2>2. c \in Calls /\ c.via = d.via /\ c.st = st /\ c.pid = d.pid
    BY <2>1 DEF Calls
  <2>3. calls' = [calls EXCEPT ![i] = c]
    BY <1>2, <1>7, <2>1
  <2>4. c.pid # None => c.pid \in DOMAIN procs' /\ procs'[c.pid].by = launches
    BY <1>1, <1>2, <1>5, <1>7, <2>2 DEF Kin, Becomes
  <2>5. c.via \in Queues /\ c.pid # None => Clear(i)
    BY <1>2, <1>3, <2>2, RunClear DEF Ran, Queued
  <2>6. /\ c.st \in {"running", "wait", "done", "failed"}
        /\ c.st \in {"running", "wait"} => c.pid # None
        /\ c.st \in {"done", "failed"} /\ c.pid # None => procs'[c.pid].st \in Gone
        /\ c.via = calls[i].via
    BY <1>2, <1>7, <2>2
  <2>7. QueueInv'
    BY <1>3, <1>7, <2>2, <2>3, <2>4, <2>5, <2>6, QueueMoves
  <2>. QED BY <1>7, <2>7
<1>8. ASSUME NEW ok \in BOOLEAN, settle(i, ok), Kin, DOMAIN procs' = DOMAIN procs,
             d.pid # None => procs'[d.pid].st \in Gone
      PROVE  Goal
  <2>1. PICK st \in {"done", "failed"} : calls' = [calls EXCEPT ![i].st = st]
    BY <1>8 DEF settle
  <2>. QED BY <1>7, <1>8, <2>1
<1>9. CASE queuedCommand(i)
  <2>0. d.pid = None
    BY <1>1, <1>2, <1>9 DEF queuedCommand, QueueNow
  <2>1. CASE calls[i].via \in broken
    <3>1. settle(i, FALSE) /\ UNCHANGED procs
      BY <1>9, <2>1 DEF queuedCommand
    <3>2. Kin
      BY <1>1, <3>1, KinOne
    <3>. QED BY <1>8, <2>0, <3>1, <3>2
  <2>2. CASE calls[i].via \notin broken
    <3>1. Clear(i)
      BY <1>3, <1>9, TurnClear DEF queuedCommand
    <3>2. /\ calls' = [calls EXCEPT ![i].st = "running", ![i].tries = 1, ![i].pid = NextPid]
          /\ procs' = Append(procs, Child(d.kind))
      BY <1>2, <1>9, <2>2 DEF queuedCommand
    <3>3. calls' = [calls EXCEPT ![i] = [d EXCEPT !.st = "running", !.tries = 1, !.pid = NextPid]]
      BY <1>2, <1>4, <3>2
    <3>. QED BY <1>6, <3>1, <3>2, <3>3
  <2>. QED BY <2>1, <2>2
<1>10. CASE timeout(i)
  <2>1. /\ settle(i, FALSE)
        /\ procs' = IF Alive(d.pid) THEN [procs EXCEPT ![d.pid].st = "err"] ELSE procs
    BY <1>2, <1>10 DEF timeout
  <2>2. Kin /\ DOMAIN procs' = DOMAIN procs
    BY <1>1, <2>1, KinOne DEF Gone
  <2>3. d.pid # None => procs'[d.pid].st \in Gone
    <3>. SUFFICES ASSUME d.pid # None PROVE procs'[d.pid].st \in Gone
      OBVIOUS
    <3>0. PICK x \in Procs : x = procs[d.pid]
      BY <1>1, <1>2
    <3>1. CASE Alive(d.pid)
      <4>1. procs'[d.pid] = [x EXCEPT !.st = "err"]
        BY <1>1, <1>2, <2>1, <3>0, <3>1
      <4>. QED BY <3>0, <4>1 DEF Gone, Procs
    <3>2. CASE ~Alive(d.pid)
      BY <2>1, <3>2 DEF Alive
    <3>. QED BY <3>1, <3>2
  <2>. QED BY <1>8, <2>1, <2>2, <2>3
<1>11. CASE close(i)
  <2>1. /\ \/ /\ calls' = [calls EXCEPT ![i].st = "wait"] /\ procs' = Reaped
           \/ settle(i, procs[calls[i].pid].st = "ok") /\ UNCHANGED procs
        /\ procs[d.pid].st \in Gone
    BY <1>2, <1>11 DEF close
  <2>2. Kin /\ DOMAIN procs' = DOMAIN procs
    BY <1>1, <2>1, KinReaped, KinOne
  <2>3. (procs[calls[i].pid].st = "ok") \in BOOLEAN
    OBVIOUS
  <2>4. d.pid # None /\ procs'[d.pid].st \in Gone
    BY <1>1, <1>2, <1>11, <2>1, <2>2, KinCalls DEF close, QueueNow
  <2>. QED BY <1>7, <1>8, <2>1, <2>2, <2>3, <2>4
<1>12. CASE retry(i)
  <2>1. d.tries + 1 \in Nat
    BY DEF Calls
  <2>2. d.via \in Queues => Clear(i)
    BY <1>1, <1>2, <1>3, <1>12, RunClear DEF retry, Ran, Queued, QueueNow
  <2>3. calls' = [calls EXCEPT ![i] = [d EXCEPT !.st = "running", !.tries = d.tries + 1, !.pid = NextPid]]
    BY <1>2, <1>4, <1>12 DEF retry
  <2>4. procs' = Append(procs, Child(d.kind))
    BY <1>2, <1>12 DEF retry
  <2>. QED BY <1>6, <2>1, <2>2, <2>3, <2>4
<1>. QED BY <1>9, <1>10, <1>11, <1>12

\* A new call has not been run, or is no call of a queue.
LEMMA QueueInvoke ==
    ASSUME QueueInv, NEW via \in Queues \cup {"direct"}, NEW kind \in {"cli", "listen"},
           invoke(via, kind)
    PROVE  /\ QueueInv' /\ Kin
           /\ \A p \in DOMAIN procs' : p \notin DOMAIN procs => procs'[p].kind # "background"
<1>1. MainShape /\ QueueNow /\ QueueOrder /\ RunsInTurn
  BY DEF QueueInv
<1>2. calls \in Seq(Calls) /\ app = "up" /\ UNCHANGED <<app, launches>>
  BY <1>1 DEF MainShape, invoke
<1>3. PICK c \in Calls :
         /\ calls' = Append(calls, c) /\ Kin /\ ~(c.via \in Queues /\ c.pid # None)
         /\ \A p \in DOMAIN procs' : p \notin DOMAIN procs => procs'[p].kind # "background"
         /\ \/ c.st = "queued" /\ c.pid = None
            \/ /\ c.st = "running" /\ c.pid # None
               /\ c.pid \in DOMAIN procs' /\ procs'[c.pid].by = launches
  <2>1. CASE via = "direct"
    <3>1. PICK c : c = [via |-> via, kind |-> kind, st |-> "running", tries |-> 1, pid |-> NextPid]
      OBVIOUS
    <3>2. calls' = Append(calls, c) /\ procs' = Append(procs, Child(kind))
      BY <2>1, <3>1 DEF invoke
    <3>3. /\ Kin /\ DOMAIN procs' = DOMAIN procs \cup {NextPid} /\ procs'[NextPid].by = launches
          /\ NextPid \in Nat /\ NextPid # None /\ procs'[NextPid].kind = kind
      BY <1>1, <3>2, KinAdded
    <3>4. c \in Calls /\ c.via \notin Queues /\ c.st = "running" /\ c.pid = NextPid
      BY <2>1, <3>1, <3>3 DEF Calls, Queues
    <3>. QED BY <3>2, <3>3, <3>4
  <2>2. CASE via # "direct"
    <3>1. PICK c : c = [via |-> via, kind |-> kind, st |-> "queued", tries |-> 0, pid |-> None]
      OBVIOUS
    <3>2. calls' = Append(calls, c) /\ UNCHANGED procs
      BY <2>2, <3>1 DEF invoke
    <3>3. Kin
      BY <1>1, <3>2, KinOne
    <3>4. c \in Calls /\ c.st = "queued" /\ c.pid = None
      BY <3>1 DEF Calls, None
    <3>. QED BY <3>2, <3>3, <3>4
  <2>. QED BY <2>1, <2>2
<1>4. PICK n : n = Len(calls) + 1
  OBVIOUS
<1>5. /\ calls' \in Seq(Calls) /\ DOMAIN calls' = DOMAIN calls \cup {n} /\ n \notin DOMAIN calls
      /\ calls'[n] = c /\ \A j \in DOMAIN calls : calls'[j] = calls[j]
      /\ \A j \in DOMAIN calls' : ~(n < j)
  BY <1>2, <1>3, <1>4
<1>6. \A j \in DOMAIN calls : calls[j].pid # None =>
         /\ calls[j].pid \in DOMAIN procs' /\ procs'[calls[j].pid].by = procs[calls[j].pid].by
         /\ procs[calls[j].pid].st \in Gone => procs'[calls[j].pid].st \in Gone
  BY <1>1, <1>3, KinCalls
<1>7. /\ ~Ran(n)'
      /\ \A j \in DOMAIN calls :
            /\ Ran(j)' <=> Ran(j)
            /\ Settled(j)' <=> Settled(j)
            /\ calls[j].pid # None => RunIn(j)' = RunIn(j)
            /\ calls[j].pid # None /\ ~Alive(calls[j].pid) => ~Alive(calls[j].pid)'
  BY <1>3, <1>5, <1>6 DEF Ran, Queued, Settled, RunIn, Alive
<1>8. MainShape'
  <2>1. \A j \in DOMAIN calls' : calls'[j].pid # None => calls'[j].pid \in DOMAIN procs'
    BY <1>3, <1>5, <1>6
  <2>. QED BY <1>1, <1>2, <1>3, <1>5, <2>1, KinShape
<1>9. QueueNow'
  <2>. SUFFICES ASSUME NEW j \in DOMAIN calls'
                PROVE  (/\ calls[j].st = "queued" => calls[j].pid = None
                        /\ calls[j].st \in {"running", "wait"} => calls[j].pid # None
                        /\ ~Settled(j) => app = "up" /\ (calls[j].pid # None => RunIn(j) = launches)
                        /\ calls[j].pid # None =>
                              /\ calls[j].st \in {"done", "failed"} => procs[calls[j].pid].st \in Gone
                              /\ calls[j].st = "lost" /\ RunIn(j) = launches => app # "up")'
    BY DEF QueueNow
  <2>1. CASE j = n
    BY <1>2, <1>3, <1>5, <2>1 DEF RunIn
  <2>2. CASE j \in DOMAIN calls
    BY <1>1, <1>2, <1>5, <1>6, <1>7, <2>2 DEF QueueNow
  <2>. QED BY <1>5, <2>1, <2>2
<1>10. QueueOrder'
  BY <1>1, <1>5, <1>7 DEF QueueOrder
<1>11. RunsInTurn'
  <2>. SUFFICES ASSUME NEW j \in DOMAIN calls', NEW k \in DOMAIN calls', j < k,
                       calls'[j].via = calls'[k].via, Ran(j)', Ran(k)', RunIn(j)' = RunIn(k)'
                PROVE  (Settled(j) /\ ~Alive(calls[j].pid))'
    BY DEF RunsInTurn, Ran, Queued
  <2>1. j \in DOMAIN calls /\ k \in DOMAIN calls
    BY <1>5, <1>7
  <2>2. Ran(j) /\ Ran(k) /\ RunIn(j) = RunIn(k) /\ calls[j].via = calls[k].via
    BY <1>5, <1>7, <2>1 DEF Ran
  <2>3. Settled(j) /\ ~Alive(calls[j].pid) /\ calls[j].pid # None
    BY <1>1, <2>1, <2>2 DEF RunsInTurn, Ran
  <2>. QED BY <1>5, <1>7, <2>1, <2>3
<1>12. QueueInv'
  BY <1>8, <1>9, <1>10, <1>11 DEF QueueInv
<1>. QED BY <1>3, <1>12

\* The application ends: what was not settled is lost.
LEMMA QueueEnds ==
    ASSUME QueueInv, quit \/ crash
    PROVE  QueueInv'
<1>1. MainShape /\ QueueNow /\ QueueOrder /\ RunsInTurn
  BY DEF QueueInv
<1>2. \E how \in {"quit", "crashed"} : Ended(how)
  BY DEF quit, crash
<1>3. /\ app' # "up" /\ app' \in {"up", "quit", "crashed"} /\ UNCHANGED launches
      /\ calls' = [i \in DOMAIN calls |->
                      IF Settled(i) THEN calls[i] ELSE [calls[i] EXCEPT !.st = "lost"]]
  BY <1>2 DEF Ended
<1>4. Kin
  <2>1. CASE UNCHANGED procs
    BY <1>1, <2>1, KinOne
  <2>2. CASE killListenProcess
    BY <1>1, <2>2, KinOne DEF killListenProcess, KilledByFile
  <2>. QED BY <2>1, <2>2 DEF quit, crash
<1>5. \A i \in DOMAIN calls : calls[i] \in Calls
  BY <1>1 DEF MainShape
<1>6. \A i \in DOMAIN calls :
         /\ calls'[i] \in Calls /\ calls'[i].via = calls[i].via /\ calls'[i].pid = calls[i].pid
         /\ Settled(i)' /\ calls'[i].st # "queued"
         /\ Settled(i) => calls'[i].st = calls[i].st
         /\ ~Settled(i) => calls'[i].st = "lost"
  <2>. SUFFICES ASSUME NEW i \in DOMAIN calls
                PROVE  /\ calls'[i] \in Calls /\ calls'[i].via = calls[i].via /\ calls'[i].pid = calls[i].pid
                       /\ Settled(i)' /\ calls'[i].st # "queued"
                       /\ Settled(i) => calls'[i].st = calls[i].st
                       /\ ~Settled(i) => calls'[i].st = "lost"
    OBVIOUS
  <2>1. PICK d \in Calls : d = calls[i]
    BY <1>5
  <2>2. CASE Settled(i)
    BY <1>3, <2>1, <2>2 DEF Settled
  <2>3. CASE ~Settled(i)
    BY <1>3, <2>1, <2>3 DEF Settled, Calls
  <2>. QED BY <2>2, <2>3
<1>7. calls' \in Seq(Calls) /\ DOMAIN calls' = DOMAIN calls
  <2>1. PICK s, t : s = calls /\ t = calls'
    OBVIOUS
  <2>2. s \in Seq(Calls) /\ t = [i \in DOMAIN s |-> t[i]] /\ \A i \in DOMAIN s : t[i] \in Calls
    BY <1>1, <1>3, <1>6, <2>1 DEF MainShape
  <2>. QED BY <2>1, <2>2, MembersMapped
<1>8. \A j \in DOMAIN calls : calls[j].pid # None =>
         /\ calls[j].pid \in DOMAIN procs' /\ procs'[calls[j].pid].by = procs[calls[j].pid].by
         /\ procs[calls[j].pid].st \in Gone => procs'[calls[j].pid].st \in Gone
  BY <1>1, <1>4, KinCalls
<1>9. \A j \in DOMAIN calls :
         /\ Ran(j)' <=> Ran(j)
         /\ calls[j].pid # None => RunIn(j)' = RunIn(j)
         /\ calls[j].pid # None /\ ~Alive(calls[j].pid) => ~Alive(calls[j].pid)'
  BY <1>6, <1>8 DEF Ran, Queued, RunIn, Alive
<1>10. MainShape'
  <2>1. \A j \in DOMAIN calls' : calls'[j].pid # None => calls'[j].pid \in DOMAIN procs'
    BY <1>6, <1>7, <1>8
  <2>. QED BY <1>1, <1>3, <1>4, <1>7, <2>1, KinShape
<1>11. QueueNow'
  <2>. SUFFICES ASSUME NEW j \in DOMAIN calls
                PROVE  (/\ calls[j].st = "queued" => calls[j].pid = None
                        /\ calls[j].st \in {"running", "wait"} => calls[j].pid # None
                        /\ ~Settled(j) => app = "up" /\ (calls[j].pid # None => RunIn(j) = launches)
                        /\ calls[j].pid # None =>
                              /\ calls[j].st \in {"done", "failed"} => procs[calls[j].pid].st \in Gone
                              /\ calls[j].st = "lost" /\ RunIn(j) = launches => app # "up")'
    BY <1>7 DEF QueueNow
  <2>1. calls'[j].st \notin {"running", "wait"}
    BY <1>6 DEF Settled
  <2>2. calls'[j].st \in {"done", "failed"} => calls[j].st = calls'[j].st
    BY <1>6
  <2>. QED BY <1>1, <1>3, <1>6, <1>8, <2>1, <2>2 DEF QueueNow
<1>12. QueueOrder'
  BY <1>6, <1>7 DEF QueueOrder
<1>13. RunsInTurn'
  <2>. SUFFICES ASSUME NEW j \in DOMAIN calls, NEW k \in DOMAIN calls, j < k,
                       calls'[j].via = calls'[k].via, Ran(j)', Ran(k)', RunIn(j)' = RunIn(k)'
                PROVE  (Settled(j) /\ ~Alive(calls[j].pid))'
    BY <1>7 DEF RunsInTurn, Ran, Queued
  <2>1. Ran(j) /\ Ran(k) /\ RunIn(j) = RunIn(k) /\ calls[j].via = calls[k].via
    BY <1>6, <1>9 DEF Ran
  <2>2. Settled(j) /\ ~Alive(calls[j].pid) /\ calls[j].pid # None
    BY <1>1, <2>1 DEF RunsInTurn, Ran
  <2>3. (~Alive(calls[j].pid))'
    BY <1>6, <1>9, <2>2
  <2>. QED BY <1>6, <2>3
<1>. QED BY <1>10, <1>11, <1>12, <1>13 DEF QueueInv

\* A new start has run nothing yet.
LEMMA QueueRestarts ==
    ASSUME QueueInv, whenReady
    PROVE  QueueInv'
<1>1. MainShape /\ QueueNow /\ QueueOrder /\ RunsInTurn
  BY DEF QueueInv
<1>2. /\ app # "up" /\ app' = "up" /\ launches' = launches + 1 /\ UNCHANGED calls
      /\ Kin /\ DOMAIN procs' = DOMAIN procs
  BY <1>1, KinReaped DEF whenReady
<1>3. \A j \in DOMAIN calls : calls[j].pid # None =>
         /\ calls[j].pid \in DOMAIN procs /\ calls[j].pid \in DOMAIN procs'
         /\ procs'[calls[j].pid].by = procs[calls[j].pid].by
         /\ procs[calls[j].pid].st \in Gone => procs'[calls[j].pid].st \in Gone
  BY <1>1, <1>2, KinCalls DEF MainShape
<1>4. launches \in Nat /\ \A p \in DOMAIN procs : procs[p].by \in Nat
  <2>1. launches \in Nat /\ \A p \in DOMAIN procs : procs[p] \in Procs
    BY <1>1 DEF MainShape
  <2>. QED BY <2>1 DEF Procs
<1>5. \A j \in DOMAIN calls : calls[j].pid # None => procs'[calls[j].pid].by # launches'
  BY <1>1, <1>2, <1>3, <1>4 DEF MainShape
<1>6. MainShape'
  <2>1. \A p \in DOMAIN procs' : procs'[p].by <= launches'
    BY <1>1, <1>2, <1>4 DEF Kin, Becomes, MainShape
  <2>2. launches' \in Nat /\ procs' \in Seq(Procs) /\ calls' \in Seq(Calls)
    BY <1>1, <1>2, <1>4 DEF Kin, MainShape
  <2>. QED BY <1>2, <1>3, <2>1, <2>2 DEF MainShape
<1>7. QueueNow'
  <2>1. \A j \in DOMAIN calls : Settled(j)
    BY <1>1, <1>2 DEF QueueNow
  <2>. QED BY <1>1, <1>2, <1>3, <1>5, <2>1 DEF QueueNow, Settled, RunIn
<1>8. QueueOrder'
  BY <1>1, <1>2 DEF QueueOrder, Settled, Ran, Queued
<1>9. RunsInTurn'
  BY <1>1, <1>2, <1>3 DEF RunsInTurn, RunIn, Queued, Settled, Alive
<1>. QED BY <1>6, <1>7, <1>8, <1>9 DEF QueueInv

MainInv == QueueInv /\ Owned

LEMMA MainStep ==
    ASSUME MainInv, [MainNext]_mainvars
    PROVE  MainInv'
<1>1. QueueInv /\ Owned /\ MainShape
  BY DEF MainInv, QueueInv
<1>2. CASE UNCHANGED mainvars
  <2>1. UNCHANGED <<app, launches, calls, procs, listenProcess, disowned>>
    BY <1>2 DEF mainvars
  <2>2. Kin
    BY <1>1, <2>1, KinOne
  <2>. QED BY <1>1, <2>1, <2>2, QueueRests, OwnedRests DEF MainInv
<1>3. ASSUME NEW p \in DOMAIN procs, NEW drop \in BOOLEAN, NEW code \in {"ok", "err"},
             cli_check(p) \/ cli_lock(p) \/ cli_exit(p, code, drop)
      PROVE  MainInv'
  <2>1. UNCHANGED <<app, launches, calls, listenProcess, disowned>>
    BY <1>3 DEF cli_check, cli_lock, cli_exit, ChildSteps
  <2>2. \/ \E st \in Gone : procs' = [procs EXCEPT ![p].st = st]
        \/ Active(procs[p]) /\ \E st \in {"checked", "up"} : procs' = [procs EXCEPT ![p].st = st]
    BY <1>3 DEF cli_check, cli_lock, cli_exit, Gone, Active
  <2>3. Kin /\ DOMAIN procs' = DOMAIN procs
    BY <1>1, <2>2, KinOne
  <2>. QED BY <1>1, <2>1, <2>3, QueueRests, OwnedRests DEF MainInv
<1>4. ASSUME NEW via \in Queues \cup {"direct"}, NEW kind \in {"cli", "listen"}, invoke(via, kind)
      PROVE  MainInv'
  <2>1. UNCHANGED <<app, launches, listenProcess, disowned>>
    BY <1>4 DEF invoke
  <2>. QED BY <1>1, <1>4, <2>1, QueueInvoke, OwnedRests DEF MainInv
<1>5. ASSUME NEW i \in DOMAIN calls, queuedCommand(i) \/ timeout(i) \/ close(i) \/ retry(i)
      PROVE  MainInv'
  <2>1. UNCHANGED <<app, launches, listenProcess, disowned>>
    BY <1>5 DEF queuedCommand, timeout, close, retry
  <2>. QED BY <1>1, <1>5, <2>1, QueueCommands, OwnedRests DEF MainInv
<1>6. CASE start_listen \/ restart_due
  <2>1. UNCHANGED <<calls, launches, app, disowned>> /\ app = "up" /\ startListenProcess
    BY <1>6 DEF start_listen, restart_due
  <2>. QED BY <1>1, <2>1, OwnedStarts, QueueRests DEF MainInv
<1>7. CASE stop_listen \/ restartListenProcess
  <2>1. UNCHANGED <<calls, launches, app, disowned>> /\ app = "up" /\ killListenProcess
    BY <1>7 DEF stop_listen, restartListenProcess
  <2>2. Kin /\ Owned'
    BY <1>1, <2>1, OwnedStops
  <2>. QED BY <1>1, <2>1, <2>2, QueueRests DEF MainInv
<1>8. ASSUME NEW p, listen_close(p)
      PROVE  MainInv'
  <2>1. UNCHANGED <<calls, launches, app>>
    BY <1>8 DEF listen_close
  <2>. QED BY <1>1, <1>8, <2>1, OwnedCloses, QueueRests DEF MainInv
<1>9. CASE quit
  <2>1. app = "up" /\ app' = "quit" /\ killListenProcess /\ UNCHANGED <<launches, disowned>>
    BY <1>9 DEF quit, Ended
  <2>2. Owned'
    BY <1>1, <2>1, OwnedStops
  <2>. QED BY <1>1, <1>9, <2>2, QueueEnds DEF MainInv
<1>10. CASE crash
  BY <1>1, <1>10, QueueEnds, OwnedCrash DEF MainInv
<1>11. CASE whenReady
  BY <1>1, <1>11, QueueRestarts, OwnedCrash DEF MainInv
<1>. QED
  BY <1>2, <1>3, <1>4, <1>5, <1>6, <1>7, <1>8, <1>9, <1>10, <1>11 DEF MainNext

\* A queue of the main process runs one command at a time, in the order of the
\* calls: the child of a call is gone, and its promise settled, before the next
\* call of the queue is run by the same start, whatever times out, is run again
\* or is reaped: for any number of calls, retries, listeners and starts.
THEOREM CommandsInTurn == MainSpec => []RunsInTurn
<1>1. MainInv => RunsInTurn
  BY DEF MainInv, QueueInv
<1>2. MainInit => MainInv
  BY QueueInit DEF MainInv
<1>. QED BY <1>1, <1>2, MainStep, PTL DEF MainSpec

\* No listener of an earlier start serves, and of those in the background only
\* the one of the handle, or one whose handle the close event of another took:
\* for any number of listeners, calls, crashes and starts.
THEOREM HandleOwnsListener == MainSpec => []ListenerOwned
<1>1. ASSUME MainInv PROVE ListenerOwned
  <2>1. Owned
    BY <1>1 DEF MainInv
  <2>2. \A p \in DOMAIN procs : procs[p].st = "up" => Active(procs[p])
    BY DEF Active
  <2>. QED BY <2>1, <2>2 DEF Owned, ListenerOwned, Serving, Background, Listener
<1>2. MainInit => MainInv
  BY QueueInit DEF MainInv
<1>. QED BY <1>1, <1>2, MainStep, PTL DEF MainSpec

=============================================================================
