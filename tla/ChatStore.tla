------------------------------ MODULE ChatStore ------------------------------
(***************************************************************************)
(* The conversations that the window of the desktop application shows      *)
(* (desktop-ui/src/store/chatStore.ts): what a poll of the relay adds to   *)
(* them, what the user sends and clears, and the copy in localStorage that *)
(* is written with almost every change and read back, once the passphrase  *)
(* has opened the identity, after a restart.                               *)
(*                                                                         *)
(* A content is a text or an envelope <<name, data>> with a file.  Writing *)
(* to localStorage may fail, which nobody is told.  What the listener      *)
(* receives does not come here: add-incoming-message is sent to a window   *)
(* that electron/main.js never sets.                                       *)
(***************************************************************************)
EXTENDS Naturals, Sequences

CONSTANTS
    Peers, Me,           \* the ids of contacts, the user's own one among them
    Texts, Names,        \* texts; names (and sizes) of files
    MaxItems,            \* bound: ids of messages
    MaxStarts            \* bound: starts of the window

\* The id of a contact is a fingerprint, never the name of the user's own side.
ASSUME ChatAssumption == Me \in Peers /\ "me" \notin Peers

VARIABLES
    convs, view,         \* the conversations, and the messages of each
    seenIncoming,        \* keys of what has come
    saved,               \* the copy in localStorage, or NoCopy
    hydrated,            \* the identity is open and the copy read
    busy,                \* messages, by id, whose command is running
    items, starts,       \* counters: ids given, starts
    shown,               \* history: what the user was shown and did not clear,
                         \* and no failed write has lost
    unsaved,             \* what of it was added since the last write
    overwritten          \* what of it a write before hydrate has replaced

history == <<shown, unsaved, overwritten>>

chatvars == <<convs, view, seenIncoming, saved, hydrated, busy, items, starts, history>>

Contents == Texts \cup (Names \X {1, 2})

NoCopy == [convs |-> {}, view |-> [p \in Peers |-> <<>>], there |-> FALSE]

ChatInit ==
    /\ convs = {} /\ view = NoCopy.view /\ seenIncoming = {} /\ saved = NoCopy
    /\ hydrated = FALSE /\ busy = {} /\ items = 0 /\ starts = 1
    /\ shown = {} /\ unsaved = {} /\ overwritten = {}

\* What is kept of a content: a text, or the name of the file.
Body(c) == IF c \in Texts THEN c ELSE <<"file", c[1]>>

Item(who, c, st) ==
    [id |-> items + 1, who |-> who, body |-> Body(c), data |-> c \notin Texts, st |-> st]

\* A message as it is written: without the bytes of its file.
sanitize(m) == [m EXCEPT !.data = FALSE]

\* The messages of a view, each with its conversation.
In(v) == UNION {{<<p, v[p][i].id>> : i \in DOMAIN v[p]} : p \in Peers}

\* Bug: the conversations are written, the messages are not.
ItemOfConvs(cs, v) == [saved EXCEPT !.convs = cs, !.there = TRUE]

\* What is written: all conversations and messages, sanitized.
StoredItem(cs, v) ==
    [convs |-> cs, there |-> TRUE,
     view  |-> [p \in Peers |-> [i \in DOMAIN v[p] |-> sanitize(v[p][i])]]]

written(cs, v) ==
    /\ saved' = StoredItem(cs, v)
    /\ unsaved' = In(view') \ In(v)
    /\ overwritten' = IF hydrated THEN overwritten ELSE overwritten \cup (shown \ In(v))

\* Storage full or unavailable: the exception is caught and ignored.
unwritten ==
    /\ unsaved' = unsaved \cup (In(view') \ In(view))
    /\ UNCHANGED <<saved, overwritten>>

persist(cs, v) == written(cs, v) \/ unwritten

-----------------------------------------------------------------------------

\* A contact is added by hand.
addConversation(p) ==
    /\ ~(hydrated /\ p = Me)
    /\ convs' = convs \cup {p}
    /\ UNCHANGED <<view, seenIncoming, hydrated, busy, items, starts, shown>>
    /\ persist(convs', view)

\* A message of another has come: addConversation, if it is the first, and
\* addIncomingMessage, if its key is not in seen.  Both write the copy, and the
\* second time may fail alone.
arrives(p, c, seen) ==
    /\ ~(hydrated /\ p = Me) /\ items < MaxItems
    /\ convs' = convs \cup {p}
    /\ seenIncoming' = seen \cup {<<p, Body(c)>>}
    /\ IF <<p, Body(c)>> \notin seen
       THEN /\ view' = [view EXCEPT ![p] = Append(@, Item(p, c, "read"))]
            /\ items' = items + 1 /\ shown' = shown \cup In(view')
            /\ persist(convs', view') \/ (p \notin convs /\ written(convs', view))
       ELSE /\ UNCHANGED <<view, items, shown>>
            /\ IF p \notin convs THEN persist(convs', view)
               ELSE UNCHANGED <<saved, unsaved, overwritten>>
    /\ UNCHANGED <<hydrated, busy, starts>>

\* One message of a poll.  Its raw key is recorded before addIncomingMessage
\* looks for its own key, which for a text is the same.
loadMessages(p, c) ==
    <<p, c>> \notin seenIncoming /\ arrives(p, c, seenIncoming \cup {<<p, c>>})

\* A message is shown and saved before the command is run.
sendMessage(p, c) ==
    /\ p \in convs /\ items < MaxItems
    /\ view' = [view EXCEPT ![p] = Append(@, Item("me", c, "sending"))]
    /\ items' = items + 1 /\ busy' = busy \cup {items'} /\ shown' = shown \cup In(view')
    /\ persist(convs, view')
    /\ UNCHANGED <<convs, seenIncoming, hydrated, starts>>

\* The command has ended, which changes the message in the view only.
updateMessageStatus(id, st) ==
    /\ busy' = busy \ {id}
    /\ view' = [p \in Peers |-> [i \in DOMAIN view[p] |->
                  IF view[p][i].id = id THEN [view[p][i] EXCEPT !.st = st] ELSE view[p][i]]]
    /\ UNCHANGED <<convs, seenIncoming, saved, hydrated, items, starts, history>>

\* The messages are gone from the view; the copy keeps them.
clearMessages(p) ==
    /\ p \in convs /\ view[p] # <<>>
    /\ view' = [view EXCEPT ![p] = <<>>]
    /\ shown' = shown \ (In(view) \ In(view')) /\ unsaved' = unsaved \cap In(view')
    /\ UNCHANGED <<convs, seenIncoming, saved, hydrated, busy, items, starts, overwritten>>

\* The key under which a message of the copy is known as seen.
Known(v) ==
    UNION {{<<m.who, m.body>> : m \in {v[p][i] : i \in DOMAIN v[p]}} : p \in Peers}

Incoming(ks) == {k \in ks : k[1] # "me"}

\* Bug: the keys of the copy are not seeded.
HydrateUnseeded ==
    /\ hydrated' = TRUE
    /\ IF saved.there
       THEN /\ convs' = saved.convs /\ view' = saved.view
            /\ shown' = (shown \ unsaved) \cup In(view') /\ unsaved' = {}
       ELSE UNCHANGED <<convs, view, shown, unsaved>>
    /\ UNCHANGED <<seenIncoming, saved, busy, items, starts, overwritten>>

\* The identity is open: the copy, if there is one, replaces what is shown.
hydrate ==
    /\ hydrated' = TRUE
    /\ IF saved.there
       THEN /\ convs' = saved.convs /\ view' = saved.view
            /\ seenIncoming' = seenIncoming \cup Incoming(Known(saved.view))
            /\ shown' = (shown \ unsaved) \cup In(view') /\ unsaved' = {}
       ELSE UNCHANGED <<convs, view, seenIncoming, shown, unsaved>>
    /\ UNCHANGED <<saved, busy, items, starts, overwritten>>

\* The window goes, with all it has not written, and comes back.
restart ==
    /\ starts < MaxStarts /\ starts' = starts + 1
    /\ convs' = {} /\ view' = NoCopy.view /\ seenIncoming' = {}
    /\ hydrated' = FALSE /\ busy' = {} /\ shown' = shown \ unsaved /\ unsaved' = {}
    /\ UNCHANGED <<saved, items, overwritten>>

ChatNext ==
    \/ \E p \in Peers :
        \/ addConversation(p) \/ clearMessages(p)
        \/ \E c \in Contents : loadMessages(p, c) \/ sendMessage(p, c)
    \/ \E id \in busy, st \in {"sent", "error"} : updateMessageStatus(id, st)
    \/ hydrate \/ restart

ChatSpec == ChatInit /\ [][ChatNext]_chatvars

-----------------------------------------------------------------------------

\* "The UI never shows duplicates" (chatStore.ts), although the relay answers
\* a poll with old mail again and the window forgets what it has seen.
ShownOnce ==
    \A p \in Peers : \A i, j \in DOMAIN view[p] :
        view[p][i].who = p /\ view[p][j].who = p /\ view[p][i].body = view[p][j].body => i = j

\* Once the copy has been read, the user sees every message that was shown in
\* this and in earlier starts of the window and that was not cleared, with two
\* exceptions: the write that should have saved it, and each one after it,
\* failed; or the window wrote a copy before it had read the one that was there.
ComesBack == hydrated => shown \ overwritten \subseteq In(view)
=============================================================================
