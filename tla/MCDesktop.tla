------------------------------ MODULE MCDesktop ------------------------------
(***************************************************************************)
(* The desktop application.  The main process and the store of the window  *)
(* meet in calls whose results are any, so a behaviour moves one of them:  *)
(* the main process with three commands (focus "contend"), with two calls, *)
(* the first perhaps a `listen', a listener in the background and a second *)
(* start ("calls"), with one call, two listeners and a second start        *)
(* ("listen"), or the store ("chat").                                      *)
(***************************************************************************)
EXTENDS DesktopMain, ChatStore

VARIABLES focus

vars == <<focus, mainvars, chatvars>>

Init == focus \in {"contend", "calls", "listen", "chat"} /\ MainInit /\ ChatInit

Listens == Cardinality(Background')

MainSteps ==
    /\ focus # "chat" /\ MainNext
    /\ focus = "contend" => Listens = 0 /\ app' = "up" /\ ~timer'
    /\ focus = "contend" => \A i \in DOMAIN calls' : calls'[i].kind = "cli"
    /\ focus = "calls"   => Listens <= 1 /\ Len(calls') <= 2 /\ ~timer'
    /\ focus = "calls" /\ Len(calls') = 2 => calls'[2].kind = "cli"
    /\ focus = "listen"  => Len(calls') <= 1
    /\ UNCHANGED <<focus, chatvars>>

ChatSteps == focus = "chat" /\ ChatNext /\ UNCHANGED <<focus, mainvars>>

Next == MainSteps \/ ChatSteps

FairSpec == Init /\ [][Next]_vars /\ MainFairness
=============================================================================
