----------------------------- MODULE DesktopMain -----------------------------
(***************************************************************************)
(* The main process of the desktop application, desktop-ui/electron: it    *)
(* answers the calls of the window by running the client `add' as a child  *)
(* process, on a queue for reading, on a queue for the rest or, for calls  *)
(* that carry the passphrase, directly; it keeps one `add listen' in the   *)
(* background.  The children keep out of each other's way by files with    *)
(* their process ids, as far as the main process lets them.                *)
(*                                                                         *)
(* Steps are cut at the awaits and callbacks of the main process and at    *)
(* the file operations of the children.  A child may hang anywhere, the    *)
(* application may be closed or die, and children survive it.              *)
(***************************************************************************)
EXTENDS Naturals, Sequences, FiniteSets

CONSTANTS
    maxRetries,          \* runs of a queued command that finds the lock taken
    MaxCalls,            \* bound: calls
    MaxListens,          \* bound: listeners
    MaxLaunches          \* bound: starts of the application

VARIABLES
    app,                 \* "up", "quit" or "crashed"
    launches,
    calls,               \* the calls, in order, with their way and state
    broken,              \* queues whose promise is rejected
    procs,               \* the children; a process id is an index
    pidfile, listenfile, \* the contents of add.pid and add_listen.pid, or None
    listenProcess,       \* the handle of the listener, or None
    watched,             \* listeners whose close event has yet to be handled
    timer,               \* a restart of the listener is due
    disowned             \* history: listeners whose handle was cleared by the
                         \* close event of another one

mainvars == <<app, launches, calls, broken, procs, pidfile, listenfile,
              listenProcess, watched, timer, disowned>>

None == 0

Queues == {"queue", "readqueue"}

Gone == {"ok", "lock", "err"}

MainInit ==
    /\ app = "up" /\ launches = 1 /\ calls = <<>> /\ broken = {} /\ procs = <<>>
    /\ pidfile = None /\ listenfile = None /\ listenProcess = None
    /\ watched = {} /\ timer = FALSE /\ disowned = {}

Alive(p) == p # None /\ procs[p].st \notin Gone

\* A child: a command, a `listen' that is run as a command, or the listener in
\* the background.
Child(kind) == [kind |-> kind, st |-> "new", by |-> launches]

Listener(x) == x.kind \in {"listen", "background"}

NextPid == Len(procs) + 1

Settled(i) == calls[i].st \in {"done", "failed", "lost"}

-----------------------------------------------------------------------------
\* The children.

\* SIGTERM.  Only a listener waits for the notification of the handler;
\* another command works on, unless the handler is not installed yet.
Terminated(x) ==
    IF Listener(x) /\ x.st = "up" THEN [x EXCEPT !.st = "term"]
    ELSE IF x.st \in {"new", "checked"} THEN [x EXCEPT !.st = "err"] ELSE x

\* The file of a child's kind is rewritten.
FileBecomes(p, content) ==
    /\ pidfile' = IF Listener(procs[p]) THEN pidfile ELSE content
    /\ listenfile' = IF Listener(procs[p]) THEN content ELSE listenfile

ChildSteps == UNCHANGED <<app, launches, calls, broken, listenProcess, watched, timer, disowned>>

\* The look at the lock file: a command ends if another one is alive, and a
\* listener (with words that are no reason for a retry) if another one is.
cli_check(p) ==
    LET x == procs[p]
        holder == IF Listener(x) THEN listenfile ELSE pidfile
    IN
    /\ x.st = "new"
    /\ procs' = [procs EXCEPT ![p].st =
                    IF ~Alive(holder) \/ holder = p THEN "checked"
                    ELSE IF Listener(x) THEN "err" ELSE "lock"]
    /\ UNCHANGED <<pidfile, listenfile>> /\ ChildSteps

cli_lock(p) ==
    /\ procs[p].st = "checked"
    /\ procs' = [procs EXCEPT ![p].st = "up"]
    /\ FileBecomes(p, p) /\ ChildSteps

\* A command ends, or a listener, because it was told to or by itself; its
\* PidDrop removes the file, whoever wrote it last, unless it leaves by
\* process::exit.
cli_exit(p, code, drop) ==
    /\ procs[p].st \in {"up", "term"}
    /\ code = "ok" => drop
    /\ procs' = [procs EXCEPT ![p].st = code]
    /\ IF drop THEN FileBecomes(p, None) ELSE UNCHANGED <<pidfile, listenfile>>
    /\ ChildSteps

-----------------------------------------------------------------------------
\* Commands.

\* A process of the client, and not the listener that the handle names.
isRustAddCli(p) == p # listenProcess

\* Bug: only the processes that the two files name are told to end.
ReapedByFile ==
    [p \in DOMAIN procs |->
        IF p \in {pidfile, listenfile} /\ isRustAddCli(p)
        THEN Terminated(procs[p]) ELSE procs[p]]

\* What reapStaleAddProcesses leaves of the children: it ends those that the
\* files name and then every other process of the client (and unlinks both
\* files, that of a living listener too).
Reaped ==
    [p \in DOMAIN procs |->
        IF isRustAddCli(p) THEN Terminated(procs[p]) ELSE procs[p]]

Direct(i) == calls[i].via = "direct"

\* A call, of a command or of `listen' (add-listen, add-start-listener), that
\* is queued or runs at once in a child of its own.
invoke(via, kind) ==
    /\ app = "up" /\ Len(calls) < MaxCalls
    /\ kind = "listen" => via # "readqueue"
    /\ IF via = "direct"
       THEN /\ calls' = Append(calls, [via |-> via, kind |-> kind, st |-> "running",
                                       tries |-> 1, pid |-> NextPid])
            /\ procs' = Append(procs, Child(kind))
       ELSE /\ calls' = Append(calls, [via |-> via, kind |-> kind, st |-> "queued",
                                       tries |-> 0, pid |-> None])
            /\ UNCHANGED procs
    /\ UNCHANGED <<app, launches, broken, pidfile, listenfile, listenProcess, watched, timer,
                   disowned>>

\* The promise of a call is settled; one of a queue hands a failure on to
\* whatever is chained to it.
settle(i, ok) ==
    /\ calls' = [calls EXCEPT ![i].st = IF ok THEN "done" ELSE "failed"]
    /\ broken' = IF ok \/ Direct(i) THEN broken ELSE broken \cup {calls[i].via}

\* Bug: the chain does not wait for the command of the call before.
TurnUnawaited(i) ==
    \A j \in 1..(i - 1) : calls[j].via = calls[i].via => calls[j].st # "queued"

\* queue.then: the promise of the call before in the queue is settled.
Turn(i) == \A j \in 1..(i - 1) : calls[j].via = calls[i].via => Settled(j)

\* The turn of a queued call: a run, or at once the failure of an earlier one.
queuedCommand(i) ==
    /\ calls[i].st = "queued" /\ Turn(i)
    /\ IF calls[i].via \in broken
       THEN settle(i, FALSE) /\ UNCHANGED procs
       ELSE /\ calls' = [calls EXCEPT ![i].st = "running", ![i].tries = 1, ![i].pid = NextPid]
            /\ procs' = Append(procs, Child(calls[i].kind))
            /\ UNCHANGED broken
    /\ UNCHANGED <<app, launches, pidfile, listenfile, listenProcess, watched, timer, disowned>>

\* Bug: no limit on the time of a command.
NoTimeout(i) == FALSE /\ UNCHANGED mainvars

\* After 12 s a queued command is killed; it cannot remove its lock file.
timeout(i) ==
    /\ calls[i].st = "running" /\ ~Direct(i)
    /\ settle(i, FALSE)
    /\ LET p == calls[i].pid IN
       procs' = IF Alive(p) THEN [procs EXCEPT ![p].st = "err"] ELSE procs
    /\ UNCHANGED <<app, launches, pidfile, listenfile, listenProcess, watched, timer, disowned>>

\* The close event of a command.  One that found the lock taken is run again,
\* after the processes that may hold the lock are reaped.
close(i) ==
    LET code == procs[calls[i].pid].st IN
    /\ calls[i].st = "running" /\ code \in Gone
    /\ IF code = "lock" /\ ~Direct(i) /\ calls[i].tries < maxRetries
       THEN /\ calls' = [calls EXCEPT ![i].st = "wait"]
            /\ procs' = Reaped /\ pidfile' = None /\ listenfile' = None
            /\ UNCHANGED broken
       ELSE settle(i, code = "ok") /\ UNCHANGED <<procs, pidfile, listenfile>>
    /\ UNCHANGED <<app, launches, listenProcess, watched, timer, disowned>>

retry(i) ==
    /\ calls[i].st = "wait"
    /\ calls' = [calls EXCEPT ![i].st = "running", ![i].tries = @ + 1, ![i].pid = NextPid]
    /\ procs' = Append(procs, Child(calls[i].kind))
    /\ UNCHANGED <<app, launches, broken, pidfile, listenfile, listenProcess, watched, timer,
                   disowned>>

-----------------------------------------------------------------------------
\* The listener.

Background == {p \in DOMAIN procs : procs[p].kind = "background"}

\* The listener that the file names, told to end.
KilledByFile ==
    IF Alive(listenfile)
    THEN [procs EXCEPT ![listenfile] = Terminated(@)] ELSE procs

\* Nothing when the listener of the handle is alive; else a fresh one, whether
\* or not those before it have ended, or their close events been handled.
startListenProcess ==
    \/ /\ Alive(listenProcess)
       /\ UNCHANGED <<procs, listenfile, listenProcess, watched>>
    \/ /\ ~Alive(listenProcess)
       /\ Cardinality(Background) < MaxListens
       /\ procs' = Append(KilledByFile, Child("background"))
       /\ listenProcess' = NextPid /\ listenfile' = NextPid
       /\ watched' = watched \cup {NextPid}

start_listen ==
    /\ app = "up" /\ startListenProcess
    /\ UNCHANGED <<app, launches, calls, broken, pidfile, timer, disowned>>

killListenProcess ==
    /\ procs' = IF listenProcess # None
                THEN [procs EXCEPT ![listenProcess] = Terminated(@)]
                ELSE KilledByFile
    /\ listenProcess' = None /\ listenfile' = None

stop_listen ==
    /\ app = "up" /\ killListenProcess
    /\ UNCHANGED <<app, launches, calls, broken, pidfile, watched, timer, disowned>>

restartListenProcess ==
    /\ app = "up" /\ killListenProcess /\ timer' = TRUE
    /\ UNCHANGED <<app, launches, calls, broken, pidfile, watched, disowned>>

\* 500 ms later, whatever the listener told to stop has done since.
restart_due ==
    /\ app = "up" /\ timer /\ timer' = FALSE /\ startListenProcess
    /\ UNCHANGED <<app, launches, calls, broken, pidfile, disowned>>

\* The close event of a listener clears handle and file, whosever they are.
listen_close(p) ==
    /\ p \in watched /\ procs[p].st \in Gone /\ watched' = watched \ {p}
    /\ listenProcess' = None /\ listenfile' = None
    /\ disowned' = disowned \cup ({listenProcess} \ {None, p})
    /\ UNCHANGED <<app, launches, calls, broken, procs, pidfile, timer>>

-----------------------------------------------------------------------------
\* The application.

Ended(how) ==
    /\ app = "up" /\ app' = how
    /\ calls' = [i \in DOMAIN calls |->
                    IF Settled(i) THEN calls[i] ELSE [calls[i] EXCEPT !.st = "lost"]]
    /\ watched' = {} /\ timer' = FALSE
    /\ UNCHANGED <<launches, broken, pidfile, disowned>>

quit == Ended("quit") /\ killListenProcess

crash == Ended("crashed") /\ listenProcess' = None /\ UNCHANGED <<procs, listenfile>>

whenReady ==
    /\ app # "up" /\ launches < MaxLaunches
    /\ app' = "up" /\ launches' = launches + 1 /\ broken' = {}
    /\ procs' = Reaped /\ pidfile' = None /\ listenfile' = None
    /\ UNCHANGED <<calls, listenProcess, watched, timer, disowned>>

MainNext ==
    \/ \E p \in DOMAIN procs :
        \/ cli_check(p) \/ cli_lock(p)
        \/ \E drop \in BOOLEAN, code \in {"ok", "err"} : cli_exit(p, code, drop)
    \/ \E via \in Queues \cup {"direct"}, kind \in {"cli", "listen"} : invoke(via, kind)
    \/ \E i \in DOMAIN calls : queuedCommand(i) \/ timeout(i) \/ close(i) \/ retry(i)
    \/ start_listen \/ stop_listen \/ restartListenProcess \/ restart_due
    \/ \E p \in watched : listen_close(p)
    \/ quit \/ crash \/ whenReady

MainSpec == MainInit /\ [][MainNext]_mainvars

\* The event loop runs the chain of a promise, timers and events.  Nothing is
\* asked of the children: they may hang.
MainFairness ==
    \A i \in 1..MaxCalls :
        WF_mainvars(i \in DOMAIN calls /\ (queuedCommand(i) \/ timeout(i) \/ close(i) \/ retry(i)))

-----------------------------------------------------------------------------

Serving == {p \in DOMAIN procs : Listener(procs[p]) /\ procs[p].st = "up"}

\* No listener of an earlier start serves: not one that a crash left behind,
\* with or without the file that names it, and not one that a call had started
\* (reapStaleAddProcesses).  Of this start's listeners in the background only
\* the one of the handle serves, and none once the application was closed; the
\* one exception are listeners whose handle the close event of another took.
ListenerOwned ==
    /\ \A p \in Serving : procs[p].by = launches
    /\ app # "crashed" =>
          Serving \cap Background \subseteq
             disowned \cup (IF app = "up" THEN {listenProcess} ELSE {})

\* "Kill the background listener on ANY exit path [...].  Without this the
\* spawned `add listen` child is orphaned and keeps holding the listen port
\* after the UI exits" (main.js): none serves once the application was closed.
NoneOrphaned == app = "quit" => Serving \cap Background = {}

\* The start of the application in which a call was run.
RunIn(i) == procs[calls[i].pid].by

Queued(i) == calls[i].via \in Queues

\* "Queue wrapper to serialize CLI calls" (main.js): of the calls of a queue
\* that one start of the application has run, the child of each was gone, by
\* itself or killed, and its promise settled before the next was run, through
\* retries and timeouts; calls are run in their order.
RunsInTurn ==
    \A i, j \in DOMAIN calls :
        /\ i < j /\ Queued(i) /\ calls[i].via = calls[j].via
        /\ calls[i].pid # None /\ calls[j].pid # None /\ RunIn(i) = RunIn(j)
        => Settled(i) /\ ~Alive(calls[i].pid)

\* Every queued call is answered, whatever the commands do: "a hung CLI can
\* never block the renderer" (main.js).
Settles ==
    \A i \in 1..MaxCalls :
        (i \in DOMAIN calls /\ calls[i].via \in Queues) ~> (i \in DOMAIN calls /\ Settled(i))
=============================================================================
