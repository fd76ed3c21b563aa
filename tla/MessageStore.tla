---------------------------- MODULE MessageStore ----------------------------
(***************************************************************************)
(* The client's message store, client/src/main.rs: a SQLite file that      *)
(* several commands of one user open at the same time (listen and read).   *)
(* Opening migrates a store of an earlier build: it adds the encrypted     *)
(* columns one ALTER TABLE at a time and then encrypts the old rows one    *)
(* UPDATE at a time, with no transaction around them.  Every SQL statement *)
(* is a step; a command may be killed between any two.                     *)
(***************************************************************************)
EXTENDS Naturals, FiniteSets, FiniteSetsExt

CONSTANTS
    Procs,       \* commands
    Mids,        \* message ids
    Old,         \* the message of a legacy store
    MaxId        \* bound: rows of messages ever made

Tables == {"messages", "sessions"}

VARIABLES
    legacy,      \* the file was created by an earlier build
    cols,        \* cols[t]: how many of the encrypted columns table t has
    rows,        \* rows of messages
    srows,       \* rows of ratchet_sessions that an earlier build left
    auto,        \* the largest id AUTOINCREMENT has used
    op,          \* op[p]: what command p is doing
    ledger,      \* message_history
    cut          \* a command has been killed while it opened the store

storevars == <<legacy, cols, rows, srows, auto, op, ledger, cut>>

\* The columns that a migration adds, and the one it looks for.
NCols == [t \in Tables |-> IF t = "messages" THEN 6 ELSE 2]

\* Bug: the migration looks for a column that no table has.
ProbedColTypo(t) == IF t = "messages" THEN 1 ELSE 3

ProbedCol(t) == IF t = "messages" THEN 1 ELSE 2

\* A row; body counts the times its text has been encrypted.
Row(id, mid, enc) ==
    [id |-> id, mid |-> mid, enc |-> enc, body |-> IF enc THEN 1 ELSE 0, status |-> 1]

Closed == [pc |-> "closed", t |-> "messages", n |-> 0, snap |-> {}, alone |-> TRUE]
Ready == [Closed EXCEPT !.pc = "ready"]

Opening(o) == o.pc \in {"probe", "alter", "select", "update"}

RowsOf(t) == IF t = "messages" THEN rows ELSE srows

StoreInit ==
    /\ legacy \in BOOLEAN
    /\ cols = IF legacy THEN [t \in Tables |-> 0] ELSE NCols
    /\ rows = IF legacy THEN {Row(1, Old, FALSE)} ELSE {}
    /\ srows = IF legacy THEN {Row(1, Old, FALSE)} ELSE {}
    /\ auto = IF legacy THEN 1 ELSE 0
    /\ op = [p \in Procs |-> Closed]
    /\ ledger = {} /\ cut = FALSE

-----------------------------------------------------------------------------

Unchanged == UNCHANGED <<legacy, auto, ledger>>

open(p) ==
    /\ op[p].pc = "closed"
    /\ op' = [x \in Procs |->
                 IF x = p THEN [Closed EXCEPT !.pc = "probe",
                                !.alone = \A y \in Procs : ~Opening(op[y])]
                 ELSE [op[x] EXCEPT !.alone = FALSE]]
    /\ Unchanged /\ UNCHANGED <<cols, rows, srows, cut>>

\* table_has_column: the columns are added in order.
Probe(p) ==
    /\ op[p].pc = "probe"
    /\ op' = [op EXCEPT ![p] =
                 IF cols[@.t] < ProbedCol(@.t) THEN [@ EXCEPT !.pc = "alter", !.n = 1]
                 ELSE IF @.t = "messages" THEN [@ EXCEPT !.t = "sessions"]
                 ELSE [@ EXCEPT !.pc = "select", !.t = "messages"]]
    /\ Unchanged /\ UNCHANGED <<cols, rows, srows, cut>>

\* One ALTER TABLE; a column that exists by now is an error, and open fails.
Alter(p) ==
    /\ op[p].pc = "alter"
    /\ LET t == op[p].t
           n == op[p].n
       IN  IF cols[t] >= n
           THEN op' = [op EXCEPT ![p] = Closed] /\ UNCHANGED cols
           ELSE /\ cols' = [cols EXCEPT ![t] = n]
                /\ op' = [op EXCEPT ![p] =
                             IF n < NCols[t] THEN [@ EXCEPT !.n = n + 1]
                             ELSE IF t = "messages"
                             THEN [@ EXCEPT !.pc = "probe", !.t = "sessions"]
                             ELSE [@ EXCEPT !.pc = "select", !.t = "messages"]]
    /\ Unchanged /\ UNCHANGED <<rows, srows, cut>>

\* Bug: every row.
LegacyAll(t) == {r \in RowsOf(t) : legacy}

\* The old rows of a table.  In a new store the query fails, which is ignored.
Legacy(t) == {r \in RowsOf(t) : legacy /\ ~r.enc}

Select(p) ==
    /\ op[p].pc = "select"
    /\ op' = [op EXCEPT ![p] = [@ EXCEPT !.pc = "update", !.snap = Legacy(op[p].t)]]
    /\ Unchanged /\ UNCHANGED <<cols, rows, srows, cut>>

\* The row with the id of o, encrypted from the text of o.
Encrypted(R, o) ==
    {IF r.id = o.id THEN [r EXCEPT !.enc = TRUE, !.body = o.body + 1] ELSE r : r \in R}

\* One UPDATE of the loop; a column that is missing is an error.
Update(p) ==
    /\ op[p].pc = "update" /\ op[p].snap # {}
    /\ LET t == op[p].t IN
       IF cols[t] < NCols[t]
       THEN op' = [op EXCEPT ![p] = Closed] /\ UNCHANGED <<rows, srows>>
       ELSE \E o \in op[p].snap :
            /\ rows' = IF t = "messages" THEN Encrypted(rows, o) ELSE rows
            /\ srows' = IF t = "sessions" THEN Encrypted(srows, o) ELSE srows
            /\ op' = [op EXCEPT ![p].snap = @ \ {o}]
    /\ Unchanged /\ UNCHANGED <<cols, cut>>

Updated(p) ==
    /\ op[p].pc = "update" /\ op[p].snap = {}
    /\ op' = [op EXCEPT ![p] = IF @.t = "messages"
                               THEN [@ EXCEPT !.pc = "select", !.t = "sessions"]
                               ELSE Ready]
    /\ Unchanged /\ UNCHANGED <<cols, rows, srows, cut>>

-----------------------------------------------------------------------------

NextId == auto + 1

\* INSERT OR IGNORE.  The columns of an earlier build are NOT NULL and have no
\* default, so in a migrated store every new row is ignored.
store_message(p, mid) ==
    /\ op[p].pc = "ready" /\ auto < MaxId
    /\ IF legacy \/ \E r \in rows : r.mid = mid
       THEN UNCHANGED <<rows, auto>>
       ELSE rows' = rows \cup {Row(NextId, mid, TRUE)} /\ auto' = auto + 1
    /\ UNCHANGED <<legacy, cols, srows, op, ledger, cut>>

\* The messages, without the rows whose columns do not decrypt.
get_messages(p) ==
    /\ op[p].pc = "ready"
    /\ op' = [op EXCEPT ![p] = [@ EXCEPT !.pc = "listed",
                                         !.snap = {r \in rows : r.enc /\ r.body = 1}]]
    /\ Unchanged /\ UNCHANGED <<cols, rows, srows, cut>>

\* `add delete': the position the user gives is looked up in the command's own
\* list, and the id found there is deleted.
delete_message(p) ==
    /\ op[p].pc = "listed"
    /\ \E s \in op[p].snap : rows' = {r \in rows : r.id # s.id}
    /\ op' = [op EXCEPT ![p] = Ready]
    /\ Unchanged /\ UNCHANGED <<cols, srows, cut>>

\* update_message_status with status 3, the only one a command sets: it reads
\* the row, sets the status whatever it is by then, and writes the record.
ReadStatus(p, mid) ==
    /\ op[p].pc = "ready"
    /\ \E r \in rows : r.enc /\ r.mid = mid
                       /\ op' = [op EXCEPT ![p] = [@ EXCEPT !.pc = "status", !.snap = {r}]]
    /\ Unchanged /\ UNCHANGED <<cols, rows, srows, cut>>

Read(p) == CHOOSE r \in op[p].snap : TRUE

SetStatus(p) ==
    /\ op[p].pc = "status"
    /\ rows' = {IF r.enc /\ r.mid = Read(p).mid THEN [r EXCEPT !.status = 3] ELSE r : r \in rows}
    /\ op' = [op EXCEPT ![p] = IF \E r \in rows : r.mid = Read(p).mid
                               THEN [@ EXCEPT !.pc = "record"] ELSE Ready]
    /\ Unchanged /\ UNCHANGED <<cols, srows, cut>>

\* What the record says: the status that was read, and the new one.
Transition(r) == [mid |-> r.mid, old |-> r.status, new |-> 3]

Record(p) ==
    /\ op[p].pc = "record"
    /\ ledger' = ledger \cup {Transition(Read(p))}
    /\ op' = [op EXCEPT ![p] = Ready]
    /\ UNCHANGED <<legacy, cols, rows, srows, auto, cut>>

\* The command ends, or is killed.
Kill(p) ==
    /\ op[p].pc # "closed"
    /\ op' = [op EXCEPT ![p] = Closed]
    /\ cut' = (cut \/ Opening(op[p]))
    /\ UNCHANGED <<legacy, cols, rows, srows, auto, ledger>>

StoreNext ==
    \E p \in Procs :
        \/ open(p) \/ Probe(p) \/ Alter(p) \/ Select(p) \/ Update(p) \/ Updated(p)
        \/ \E mid \in Mids : store_message(p, mid) \/ ReadStatus(p, mid)
        \/ get_messages(p) \/ delete_message(p) \/ SetStatus(p) \/ Record(p)
        \/ Kill(p)

StoreSpec == StoreInit /\ [][StoreNext]_storevars

-----------------------------------------------------------------------------

\* The text of an old row is encrypted exactly once, however many commands
\* migrate the store at the same time or are killed in it; a row that is not
\* encrypted still has its text.
MigratedOnce == \A r \in rows \cup srows : r.body = IF r.enc THEN 1 ELSE 0

\* A store can be opened: an attempt fails only when another command opened the
\* store meanwhile, or some attempt was killed before (which no later one
\* repairs: it looks for one column only).
OpensUncut ==
    [][\A p \in Procs :
           Opening(op[p]) /\ op'[p].pc = "closed" => cut' \/ ~op[p].alone]_storevars

=============================================================================
