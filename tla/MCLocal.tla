------------------------------- MODULE MCLocal -------------------------------
(***************************************************************************)
(* What a program of the system keeps on its own machine: the secure       *)
(* bootstrap kit of a daemon, with the arithmetic of GF256, the identity   *)
(* files, the message store and the pins of a client, and the sessions of  *)
(* the post-quantum ratchet.  They share no state, so one behaviour moves  *)
(* only one of them (focus) and the run checks the behaviours of all.      *)
(***************************************************************************)
EXTENDS KeyPins, MessageStore, ClientFiles, PqRatchet, ShardKit, GF256

VARIABLES focus

vars == <<focus, kitvars, filevars, storevars, pinvars, pqvars>>

Init ==
    /\ focus \in {"kit", "files", "store", "pins", "cache", "ratchet"}
    /\ IF focus = "kit" THEN KitInit
       ELSE mount = "tmpfs" /\ strict = FALSE /\ KitInit
    /\ FilesInit
    /\ IF focus = "store" THEN StoreInit ELSE legacy = FALSE /\ StoreInit
    /\ PinsInit
    /\ PqInit

KitSteps == /\ focus = "kit" /\ KitNext
            /\ UNCHANGED <<focus, filevars, storevars, pinvars, pqvars>>

FilesSteps == /\ focus = "files" /\ FilesNext
              /\ UNCHANGED <<focus, kitvars, storevars, pinvars, pqvars>>

StoreSteps == /\ focus = "store" /\ StoreNext
              /\ UNCHANGED <<focus, kitvars, filevars, pinvars, pqvars>>

DiskSteps == /\ focus = "pins" /\ DiskNext
             /\ UNCHANGED <<focus, kitvars, filevars, storevars, pqvars>>

CacheSteps == /\ focus = "cache" /\ CacheNext
              /\ UNCHANGED <<focus, kitvars, filevars, storevars, pqvars>>

RatchetSteps == /\ focus = "ratchet" /\ PqNext
                /\ UNCHANGED <<focus, kitvars, filevars, storevars, pinvars>>

Next ==
    \/ KitSteps \/ FilesSteps \/ StoreSteps \/ DiskSteps \/ CacheSteps \/ RatchetSteps

Spec == Init /\ [][Next]_vars
=============================================================================
