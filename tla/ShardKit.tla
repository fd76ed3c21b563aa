------------------------------ MODULE ShardKit ------------------------------
(***************************************************************************)
(* The secure bootstrap kit of the relay and of the bootstrap server,      *)
(* crypto/src/snapshot_defense.rs: at every start a daemon recovers its    *)
(* volatile key from two of three shard files, or makes a new one, splits  *)
(* it again along a fresh random line and overwrites the three files one   *)
(* after the other.  A key is one byte here: the code treats the 32 bytes  *)
(* of a key independently of each other.  The arithmetic of the bytes is a *)
(* parameter; GF256 is the one of the code.                                *)
(***************************************************************************)
EXTENDS Naturals, FiniteSets, FiniteSetsExt

CONSTANTS
    NewKeys,     \* keys the random generator returns
    Lines,       \* coefficients it returns
    MaxBoots,    \* bound: starts of the daemon
    Add(_, _), Mul(_, _), Div(_, _)

VARIABLES
    mount,       \* what statfs says of the state directory
    strict,      \* ADD_REQUIRE_TMPFS is set
    shard,       \* shard[x]: the file of provider x
    boot,        \* the daemon: its state, key, line, and the shards written
    boots,       \* starts so far
    kit,         \* the key of the last start that ended, 0 if none
    mixed        \* a start has been cut off after its first write since

kitvars == <<mount, strict, shard, boot, boots, kit, mixed>>

\* Files: none, cut off while written (from_bytes refuses its length), whole.
NoShard == [st |-> "missing", x |-> 0, y |-> 0]
TornShard == [st |-> "torn", x |-> 0, y |-> 0]
Shard(x, y) == [st |-> "whole", x |-> x, y |-> y]

split_key(key, a) == [x \in 1..3 |-> Shard(x, Add(key, Mul(a, x)))]

\* Lagrange interpolation at 0: the weight of the share at x beside that at z.
Weight(x, z) == Div(z, Add(x, z))

reconstruct(a, b) == Add(Mul(a.y, Weight(a.x, b.x)), Mul(b.y, Weight(b.x, a.x)))

Bytes == 0..255

\* The arithmetic is one of bytes, and any two shares of a key along a line
\* give the key back.
ASSUME FieldAssumption ==
    /\ NewKeys \subseteq Bytes
    /\ \A u, v \in Bytes : Add(u, v) \in Bytes
    /\ \A x, z \in 1..3 : x # z => \A u \in Bytes : Mul(u, Weight(x, z)) \in Bytes
    /\ \A a \in Lines, x \in 1..3 : Mul(a, x) \in Bytes
    /\ \A key \in Bytes, a \in Lines, x, z \in 1..3 :
          x # z => reconstruct(split_key(key, a)[x], split_key(key, a)[z]) = key

\* Bug: a file that is too short is read all the same.
WholeAny == {x \in 1..3 : shard[x].st # "missing"}

Whole == {x \in 1..3 : shard[x].st = "whole"}

\* The first two shards that can be read.
First == Min(Whole)
Second == Min(Whole \ {First})

Down == [state |-> "down", key |-> 0, line |-> 0, written |-> 0]

KitInit ==
    /\ mount \in {"tmpfs", "disk", "unknown"} /\ strict \in BOOLEAN
    /\ shard = [x \in 1..3 |-> NoShard]
    /\ boot = Down /\ boots = 0 /\ kit = 0 /\ mixed = FALSE

\* enforce_ephemeral_storage refuses a disk; a statfs error is only a warning.
Enforced == strict => mount # "disk"

\* A new kit is refused when the mount could not be verified either.
MayBootstrap == strict => mount = "tmpfs"

\* A start that is refused panics and changes nothing.
Start ==
    /\ boot.state = "down" /\ boots < MaxBoots /\ Enforced
    /\ \E a \in Lines :
        \E key \in IF Cardinality(Whole) >= 2
                   THEN {reconstruct(shard[First], shard[Second])}
                   ELSE IF MayBootstrap THEN NewKeys ELSE {} :
            boot' = [state |-> "writing", key |-> key, line |-> a, written |-> 0]
    /\ boots' = boots + 1
    /\ UNCHANGED <<mount, strict, shard, kit, mixed>>

WriteShard ==
    /\ boot.state = "writing"
    /\ LET x == boot.written + 1 IN
       /\ shard' = [shard EXCEPT ![x] = split_key(boot.key, boot.line)[x]]
       /\ boot' = [boot EXCEPT !.written = x, !.state = IF x = 3 THEN "up" ELSE @]
       /\ kit' = IF x = 3 THEN boot.key ELSE kit
       /\ mixed' = IF x = 3 THEN FALSE ELSE mixed
    /\ UNCHANGED <<mount, strict, boots>>

\* The daemon ends while it writes: killed, or a write fails.
KillStart ==
    /\ boot.state = "writing"
    /\ \E torn \in BOOLEAN :
        shard' = IF torn THEN [shard EXCEPT ![boot.written + 1] = TornShard] ELSE shard
    /\ boot' = Down
    /\ mixed' = (mixed \/ boot.written > 0)
    /\ UNCHANGED <<mount, strict, boots, kit>>

Stop ==
    /\ boot.state = "up" /\ boot' = Down
    /\ UNCHANGED <<mount, strict, shard, boots, kit, mixed>>

\* A provider loses its shard while the daemon is down.
Lose(x) ==
    /\ boot.state = "down" /\ shard[x] # NoShard
    /\ shard' = [shard EXCEPT ![x] = NoShard]
    /\ UNCHANGED <<mount, strict, boot, boots, kit, mixed>>

KitNext == Start \/ WriteShard \/ KillStart \/ Stop \/ \E x \in 1..3 : Lose(x)

KitSpec == KitInit /\ [][KitNext]_kitvars

-----------------------------------------------------------------------------

\* Any two shards bring the key back: a start that finds at least two has the
\* key of the last start that ended, after any number of restarts and losses,
\* unless a start in between was cut off after its first write (the files then
\* hold points of two lines).
KeyKept ==
    [][boot.state = "down" /\ boot'.state = "writing" /\ Cardinality(Whole) >= 2 /\ ~mixed
          => boot'.key = kit]_kitvars

=============================================================================
