----------------------------- MODULE ClientFiles -----------------------------
(***************************************************************************)
(* The files that make up a client's identity, client/src/main.rs and      *)
(* crypto/src/tpm_vault.rs: the OpenPGP certificate (own_cert.asc in the   *)
(* clear or own_cert.age under a passphrase), the key of the message store *)
(* (db), the KEM key pair encrypted under it (kyber), identity.json, the   *)
(* vault and the count of failed unlocks.                                  *)
(*                                                                         *)
(* One command runs at a time and nobody else writes these files, so what  *)
(* it will do follows from the files at its start: the command is the      *)
(* sequence of file operations it still has to make.  Each is a step of    *)
(* its own, and the command may be killed before any of them or in the     *)
(* middle of it: fs::write empties the file before it fills it.            *)
(***************************************************************************)
EXTENDS Naturals, SequencesExt

CONSTANTS
    Passes,      \* passphrases
    NoPass,      \* the empty passphrase, an unset variable, a missing option
    Setting,     \* selfDestructThreshold in settings.json, 0 if not set
    MaxInits     \* bound: certificates and keys made

ASSUME FilesAssumption == NoPass \notin Passes /\ Setting \in Nat

VARIABLES
    files,       \* the files
    todo,        \* what the running command has still to do
    made,        \* certificates (and keys) made so far
    unended,     \* no init has ended since one was cut off or a write was torn
    wiped,       \* a self-destruct has been cut off
    tries        \* failed unlocks since the last one that succeeded

filevars == <<files, todo, made, unended, wiped, tries>>

Names == {"asc", "age", "db", "kyber", "identity", "vault", "fails"}

\* A file: none, cut off while written, or whole: what it holds and the
\* passphrase or the key that opens it.
None == [st |-> "none", v |-> 0, lock |-> NoPass]
Torn == [st |-> "torn", v |-> 0, lock |-> NoPass]
File(v, lock) == [st |-> "whole", v |-> v, lock |-> lock]

Write(f, c) == <<[op |-> "write", f |-> f, c |-> c]>>
Unlink(f) == <<[op |-> "remove", f |-> f, c |-> None]>>
Wipe == <<[op |-> "wipe", f |-> "vault", c |-> None]>>

Exists(f) == files[f].st # "none"

\* Does pass open file f, and what comes out: 0 for what is no certificate.
Opens(f, pass) == files[f].st = "whole" /\ files[f].lock = pass

FilesInit ==
    /\ files = [f \in Names |-> None]
    /\ todo = <<>> /\ made = 0 /\ unended = FALSE /\ wiped = FALSE /\ tries = 0

-----------------------------------------------------------------------------

\* The outcome of loading something: the file operations it makes, whether it
\* succeeds, the key.
Loaded(key) == [ops |-> <<>>, ok |-> TRUE, key |-> key]
Failed == [ops |-> <<>>, ok |-> FALSE, key |-> 0]

\* DbEncryptionKey::save; the empty passphrase leaves the key in the clear.
SaveDbKey(key, pass) == Write("db", File(key, pass))

\* Bug: NotFound means that there is no key file yet.
LoadDbKeyNotFound(env, fresh) ==
    IF ~Exists("db") \/ (env = NoPass /\ files["db"].st = "whole" /\ ~Opens("db", NoPass))
    THEN [ops |-> SaveDbKey(fresh, env), ok |-> TRUE, key |-> fresh]
    ELSE IF Opens("db", NoPass) \/ (env # NoPass /\ Opens("db", env))
         THEN Loaded(files["db"].v)
         ELSE Failed

\* Bug: an unreadable key file is replaced.
LoadDbKeyReplaces(env, fresh) ==
    IF ~Exists("db") \/ files["db"].st = "torn"
    THEN [ops |-> SaveDbKey(fresh, env), ok |-> TRUE, key |-> fresh]
    ELSE IF Opens("db", NoPass) \/ (env # NoPass /\ Opens("db", env))
         THEN Loaded(files["db"].v)
         ELSE Failed

\* load_db_key_interactive, given the passphrase of the environment.  Without
\* one a wrapped key is an error of the kind NotFound, and the attempt that
\* follows fails the same way: nobody is asked for the passphrase.
LoadDbKey(env, fresh) ==
    IF ~Exists("db")
    THEN [ops |-> SaveDbKey(fresh, env), ok |-> TRUE, key |-> fresh]
    ELSE IF Opens("db", NoPass) \/ (env # NoPass /\ Opens("db", env))
         THEN Loaded(files["db"].v)
         ELSE Failed

load_or_generate_kyber(dbkey, fresh) ==
    IF ~Exists("kyber")
    THEN [ops |-> Write("kyber", File(fresh, dbkey)), ok |-> TRUE, key |-> fresh]
    ELSE IF Opens("kyber", dbkey) THEN Loaded(files["kyber"].v) ELSE Failed

\* The certificate a passphrase of the environment gives: the encrypted file
\* is preferred, whatever the other one holds.
load_cert(env) ==
    IF Exists("age")
    THEN IF env # NoPass /\ Opens("age", env) THEN files["age"].v ELSE 0
    ELSE IF files["asc"].st = "whole" THEN files["asc"].v ELSE 0

\* generate_identity writes the certificate first and identity.json last; a
\* key that does not open ends the command in between.
generate_identity(pass, env, fresh) ==
    LET db == LoadDbKey(env, fresh)
        kem == load_or_generate_kyber(db.key, fresh)
    IN  (IF pass = NoPass THEN Write("asc", File(fresh, NoPass))
         ELSE Write("age", File(fresh, pass))
              \o (IF Exists("asc") THEN Unlink("asc") ELSE <<>>))
        \o db.ops
        \o (IF ~db.ok THEN <<>> ELSE
            SaveDbKey(db.key, pass) \o kem.ops
            \o (IF ~kem.ok THEN <<>> ELSE Write("identity", File(fresh, NoPass))))

Ends(plan) == plan # <<>> /\ Last(plan).f = "identity"

\* `add init': asks before it replaces an identity (No changes nothing), and
\* seals a new vault when a password or a PIN is given.
InitCommand ==
    /\ todo = <<>> /\ made < MaxInits
    /\ \E pass, env, secret \in Passes \cup {NoPass} :
        LET plan == generate_identity(pass, env, made + 1) IN
        todo' = plan \o IF secret # NoPass /\ Ends(plan)
                        THEN Write("vault", File(made + 1, secret)) ELSE <<>>
    /\ made' = made + 1
    /\ unended' = TRUE
    /\ UNCHANGED <<files, wiped, tries>>

\* Any command that opens the message store and needs the KEM key, with an
\* identity that can be read (read, listen, publish).
OpenCommand ==
    /\ todo = <<>> /\ made < MaxInits /\ files["identity"].st = "whole"
    /\ \E env \in Passes \cup {NoPass} :
        LET db == LoadDbKey(env, made + 1) IN
        todo' = db.ops \o IF db.ok THEN load_or_generate_kyber(db.key, made + 1).ops
                          ELSE <<>>
    /\ todo' # <<>> /\ made' = made + 1
    /\ UNCHANGED <<files, unended, wiped, tries>>

-----------------------------------------------------------------------------

\* What a file holds when it is read as text: a torn one gives no certificate.
Text(f) == files[f].v

\* change_passphrase with both passphrases as arguments.
PasswdArgs(old, new) ==
    IF new # NoPass /\ Opens("age", old) THEN Write("age", File(Text("age"), new)) ELSE <<>>

\* Bug: an encrypted certificate goes first, and the other file is stale.
PasswdPromptAge(old, new) ==
    IF old # NoPass /\ Opens("age", old)
    THEN IF new = NoPass
         THEN Write("asc", File(Text("age"), NoPass)) \o Unlink("age")
         ELSE Write("age", File(Text("age"), new))
              \o (IF Exists("asc") THEN Unlink("asc") ELSE <<>>)
    ELSE IF new = NoPass \/ ~Exists("asc") THEN <<>>
         ELSE Write("age", File(Text("asc"), new)) \o Unlink("asc")

\* change_passphrase from a terminal: a certificate in the clear is encrypted,
\* whatever the encrypted file holds; otherwise the encrypted one is changed.
PasswdPrompt(old, new) ==
    IF Exists("asc")
    THEN IF new = NoPass THEN <<>>
         ELSE Write("age", File(Text("asc"), new)) \o Unlink("asc")
    ELSE IF old = NoPass \/ ~Opens("age", old) THEN <<>>
    ELSE IF new = NoPass
         THEN Write("asc", File(Text("age"), NoPass)) \o Unlink("age")
         ELSE Write("age", File(Text("age"), new))

PasswdCommand ==
    /\ todo = <<>>
    /\ \E old, new \in Passes \cup {NoPass} :
        \/ old # NoPass /\ todo' = PasswdArgs(old, new)
        \/ todo' = PasswdPrompt(old, new)
    /\ todo' # <<>>
    /\ UNCHANGED <<files, made, unended, wiped, tries>>

-----------------------------------------------------------------------------

Clamp(n, lo, hi) == IF n < lo THEN lo ELSE IF n > hi THEN hi ELSE n

max_wrong_attempts == IF Setting = 0 THEN 10 ELSE Clamp(Setting, 3, 20)

\* A count that cannot be read is zero.
Count == files["fails"].v

\* What follows from a failed unlock.
check_failed_attempts ==
    IF Count + 1 >= max_wrong_attempts THEN Wipe ELSE Write("fails", File(Count + 1, NoPass))

\* Bug: the count is kept.
ResetNever == <<>>

reset_failed_attempts == IF Exists("fails") THEN Unlink("fails") ELSE <<>>

\* `add unlock'.  Without a password (a PIN alone, in the default build) or
\* with a vault that cannot be read the attempt is a wrong one too.
UnlockCommand ==
    /\ todo = <<>> /\ Exists("vault")
    /\ \E pass \in Passes \cup {NoPass} :
        IF pass # NoPass /\ Opens("vault", pass)
        THEN /\ todo' = reset_failed_attempts
             /\ tries' = IF reset_failed_attempts = <<>> THEN 0 ELSE tries
        ELSE todo' = check_failed_attempts /\ tries' = Clamp(tries + 1, 0, max_wrong_attempts)
    /\ UNCHANGED <<files, made, unended, wiped>>

-----------------------------------------------------------------------------

\* The next file operation of the running command.
Step ==
    /\ todo # <<>>
    /\ LET o == Head(todo) IN
       /\ files' = IF o.op = "wipe" THEN [f \in Names |-> None]
                   ELSE [files EXCEPT ![o.f] = o.c]
       /\ unended' = IF o.op = "write" /\ o.f = "identity" THEN FALSE ELSE unended
       /\ tries' = IF o.op = "remove" /\ o.f = "fails" THEN 0 ELSE tries
    /\ todo' = Tail(todo)
    /\ UNCHANGED <<made, wiped>>

\* The command is killed: before the next operation, in the middle of a write,
\* or when self_destruct has removed some files only.
KillCommand ==
    /\ todo # <<>>
    /\ LET o == Head(todo) IN
       \/ UNCHANGED <<files, unended, wiped>>
       \/ /\ o.op = "write" /\ files' = [files EXCEPT ![o.f] = Torn]
          /\ unended' = (unended \/ o.f \in {"asc", "age", "identity"}) /\ UNCHANGED wiped
       \/ /\ o.op = "wipe" /\ wiped' = TRUE /\ UNCHANGED unended
          /\ \E gone \in SUBSET {"db", "kyber", "age", "asc"} :
                files' = [f \in Names |-> IF f \in gone THEN None ELSE files[f]]
    /\ todo' = <<>>
    /\ UNCHANGED <<made, tries>>

FilesNext ==
    \/ InitCommand \/ OpenCommand \/ PasswdCommand \/ UnlockCommand
    \/ Step \/ KillCommand

FilesSpec == FilesInit /\ [][FilesNext]_filevars

-----------------------------------------------------------------------------

\* A key of the message store that can be read is never replaced by another
\* one, only put under another passphrase: a passphrase that is missing is no
\* reason to make a new key.
DbKeyKept ==
    [][files["db"].st = "whole" /\ files'["db"].st = "whole" => files'["db"].v = files["db"].v]_filevars

\* The KEM key pair opens with the key of the message store, whatever command
\* was cut off when, unless a self-destruct was.
KemOpens ==
    files["kyber"].st = "whole" /\ files["db"].st = "whole" /\ ~wiped
        => files["kyber"].lock = files["db"].v

\* Between two inits the certificate of the identity is never lost: no change
\* of the passphrase, killed between its steps or not, removes the last copy.
\* When there is one file, load_cert finds it there.
CertKept ==
    files["identity"].st = "whole" /\ ~unended /\ ~wiped =>
        LET own == files["identity"].v
            held == {f \in {"asc", "age"} : files[f].st = "whole" /\ files[f].v = own}
        IN  /\ held # {}
            /\ Exists("asc") # Exists("age")
                 => \E env \in Passes \cup {NoPass} : load_cert(env) = own

\* An identity is destroyed only after max_wrong_attempts failed unlocks since
\* the last one that succeeded.
DestroyedOnlyAfter ==
    todo # <<>> /\ Head(todo).op = "wipe" => tries >= max_wrong_attempts
=============================================================================
