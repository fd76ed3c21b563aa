--------------------------- MODULE DurableMailbox ---------------------------
(***************************************************************************)
(* What a relay promises the users of its mailboxes: a message whose       *)
(* sender was answered ok waits until it has been handed to its recipient  *)
(* or the recipient itself has asked for its end, by an ack or a purge;    *)
(* and a message is handed to nobody else.  It may be handed out several   *)
(* times.  RelayMailbox implements this specification.                     *)
(***************************************************************************)

CONSTANTS Users, Msgs, To,
    Ids         \* identities of stores

VARIABLES
    accepted,   \* the stores that were answered ok
    waiting,    \* those of them that are still kept for the recipient
    handed,     \* what each user has been given
    released    \* the stores whose recipient has asked for their end

dvars == <<accepted, waiting, handed, released>>

DInit ==
    /\ accepted = {} /\ waiting = {} /\ released = {}
    /\ handed = [u \in Users |-> {}]

\* A request of the recipient that has not ended may speak of the new store.
Accept(m) ==
    \E i \in Ids :
        LET new == [id |-> i, msg |-> m]
        IN  /\ \A x \in accepted : x.id # i
            /\ accepted' = accepted \cup {new}
            /\ waiting' = waiting \cup {new}
            /\ released' \in {released, released \cup {new}}
            /\ UNCHANGED handed

Hand(u, S) ==
    /\ \A m \in S : To[m] = u
    /\ handed' = [handed EXCEPT ![u] = @ \cup S]
    /\ UNCHANGED <<accepted, waiting, released>>

\* An ack or a purge of u, which can speak of the mail of u alone.
Release(u, R) ==
    /\ \A w \in R : To[w.msg] = u
    /\ released' = released \cup R
    /\ UNCHANGED <<accepted, waiting, handed>>

Settle(W) ==
    /\ \A w \in W : w.msg \in handed[To[w.msg]] \/ w \in released
    /\ waiting' = waiting \ W
    /\ UNCHANGED <<accepted, handed, released>>

DNext ==
    \/ \E m \in Msgs : Accept(m)
    \/ \E u \in Users, S \in SUBSET Msgs : Hand(u, S)
    \/ \E u \in Users, R \in SUBSET waiting : Release(u, R)
    \/ \E W \in SUBSET waiting : Settle(W)

DSpec == DInit /\ [][DNext]_dvars

=============================================================================
