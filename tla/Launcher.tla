------------------------------ MODULE Launcher ------------------------------
(***************************************************************************)
(* start_all.py: the launcher prepares data and models, reclaims the port, *)
(* starts the dashboard server as a child, watches it and, on a signal,    *)
(* tears its process tree down.  The server is that of ReplayControl,      *)
(* which serves requests and has replay subprocesses of its own until it   *)
(* exits; those then live on.                                              *)
(***************************************************************************)
EXTENDS ReplayControl

CONSTANT MaxSignals   \* bound on the SIGINT and SIGTERM the launcher gets

ASSUME LauncherAssumption == MaxSignals \in Nat

VARIABLES
    launcher,   \* where main() or the signal handler is
    server,     \* the child: "none", "starting", "up", "gone"
    listener,   \* whether somebody else listens on the port
    signals,    \* signals received so far
    children,   \* the descendants kill_process_tree has listed
    ended       \* history: how the launcher came to its end

launchVars == <<launcher, server, listener, signals, children, ended>>
allVars == <<controlVars, launchVars>>

LaunchInit ==
    /\ ControlInit
    /\ launcher = "assets" /\ server = "none" /\ listener \in BOOLEAN
    /\ signals = 0 /\ children = {} /\ ended = "no"

At(from, to) == launcher = from /\ launcher' = to
Exit(how) == launcher' = "exited" /\ ended' = how

-----------------------------------------------------------------------------
(* main(): generate and train what is missing; a script that fails ends    *)
(* the launcher.                                                           *)
PrepareAssets ==
    /\ launcher = "assets"
    /\ \/ launcher' = "port" /\ UNCHANGED ended
       \/ Exit("script failed")
    /\ UNCHANGED <<controlVars, server, listener, signals, children>>

(* ensure_port_available: a listener whose process is found is killed, if  *)
(* that works.  The answer is not looked at.                               *)
EnsurePort ==
    /\ At("port", "popen")
    /\ listener' \in {FALSE, listener}
    /\ UNCHANGED <<controlVars, server, signals, children, ended>>

StartServer ==
    /\ At("popen", "install")
    /\ server' = "starting"
    /\ UNCHANGED <<controlVars, listener, signals, children, ended>>

(* ProcessSupervisor.__init__: from here on signals are handled.           *)
InstallHandlers ==
    /\ At("install", "health")
    /\ UNCHANGED <<controlVars, server, listener, signals, children, ended>>

(* wait_for_server, which gives up after 10 s, and the browser.            *)
WaitForServer ==
    /\ At("health", "monitor")
    /\ UNCHANGED <<controlVars, server, listener, signals, children, ended>>

(* monitor() returns when the server has exited; atexit's shutdown() then  *)
(* finds nothing to kill.                                                  *)
Monitor ==
    /\ launcher = "monitor" /\ server = "gone"
    /\ Exit("server ended")
    /\ UNCHANGED <<controlVars, server, listener, signals, children>>

-----------------------------------------------------------------------------
Unhandled == {"assets", "port", "popen", "install"}
Teardown == {"list", "terminate", "wait", "kill"}

(* A signal: before the handlers are installed it ends the launcher, as it *)
(* does in the middle of a teardown (shutdown() returns at once, sys.exit  *)
(* unwinds the first handler); otherwise shutdown() tears down, unless the *)
(* server has exited.                                                      *)
Signal ==
    /\ launcher # "exited" /\ signals < MaxSignals
    /\ signals' = signals + 1
    /\ \/ launcher \in Unhandled /\ Exit("early signal")
       \/ launcher \in Teardown /\ Exit("second signal")
       \/ /\ launcher \in {"health", "monitor"}
          /\ IF server = "gone" THEN Exit("server ended")
             ELSE launcher' = "list" /\ UNCHANGED ended
    /\ UNCHANGED <<controlVars, server, listener, children>>

(* kill_process_tree: list the descendants, SIGTERM them and the server,   *)
(* wait 1.5 s, SIGKILL those of them that are left.  The server answers    *)
(* requests until it is gone.                                              *)
ListChildren ==
    /\ launcher = "list"
    /\ IF server = "gone"
       THEN Exit("server ended") /\ UNCHANGED children
       ELSE launcher' = "terminate" /\ children' = running /\ UNCHANGED ended
    /\ UNCHANGED <<controlVars, server, listener, signals>>

Terminate ==
    /\ At("terminate", "wait")
    /\ UNCHANGED <<controlVars, server, listener, signals, children, ended>>

BugWaitProcs ==           \* wait_procs without a timeout
    /\ launcher = "wait"
    /\ server = "gone" /\ children \cap running = {} /\ Exit("teardown")
    /\ UNCHANGED <<controlVars, server, listener, signals, children>>

WaitProcs ==
    /\ launcher = "wait"
    /\ IF server = "gone" /\ children \cap running = {}
       THEN Exit("teardown") ELSE launcher' = "kill" /\ UNCHANGED ended
    /\ UNCHANGED <<controlVars, server, listener, signals, children>>

BugKillAlive ==           \* SIGTERM taken to be enough
    /\ launcher = "kill" /\ Exit("teardown")
    /\ UNCHANGED <<controlVars, server, listener, signals, children>>

KillAlive ==
    /\ launcher = "kill" /\ Exit("teardown")
    /\ server' = "gone"
    /\ running' = running \ children
    /\ UNCHANGED <<dsVars, mode, proc, req, asked, awaited, last, survivors>>
    /\ UNCHANGED <<listener, signals, children>>

(* Any other exception (no psutil, access denied, at any of these steps)   *)
(* abandons the rest of the teardown.  Some may have been killed by then,  *)
(* or on Windows by the taskkill it falls back to; nobody looks.           *)
TeardownRaises ==
    /\ launcher \in Teardown /\ Exit("aborted")
    /\ server' \in {server, "gone"}
    /\ \E killed \in SUBSET running : running' = running \ killed
    /\ UNCHANGED <<dsVars, mode, proc, req, asked, awaited, last, survivors>>
    /\ UNCHANGED <<listener, signals, children>>

-----------------------------------------------------------------------------
(* The server process: its lifespan runs, then it binds the port, which    *)
(* fails while another listens.  It may also end by itself: graceful after *)
(* SIGTERM, or a crash.                                                    *)
ServerBinds ==
    /\ server = "starting"
    /\ server' = IF listener THEN "gone" ELSE "up"
    /\ UNCHANGED <<controlVars, launcher, listener, signals, children, ended>>

ServerExits ==
    /\ server \in {"starting", "up"} /\ server' = "gone"
    /\ UNCHANGED <<controlVars, launcher, listener, signals, children, ended>>

(* What runs inside the server runs while it is up.                        *)
Serves(A) == server = "up" /\ A /\ UNCHANGED launchVars

Run == \/ PrepareAssets \/ EnsurePort \/ StartServer \/ InstallHandlers \/ WaitForServer
       \/ Monitor \/ ListChildren \/ Terminate \/ WaitProcs \/ KillAlive

LaunchNext ==
    \/ Run \/ Signal \/ TeardownRaises \/ ServerBinds \/ ServerExits
    \/ \E c \in Callers : \/ Serves(Accept(c) \/ AcceptDefault(c) \/ Request(c))
                          \/ ProcExit(c) /\ UNCHANGED launchVars
    \/ \E r \in Replays : Serves(ReplayThread(r))
    \/ Serves(ReadAlerts /\ UNCHANGED ctlVars)

(* The launcher runs on, its scripts end, and requests in flight go on     *)
(* while the server is up.  Nothing is assumed of the replay threads.      *)
LaunchSpec ==
    /\ LaunchInit /\ [][LaunchNext]_allVars
    /\ WF_allVars(Run)
    /\ \A c \in Callers : WF_allVars(Serves(Request(c)))

-----------------------------------------------------------------------------
(* start_all.py 33-61, 109-137: a teardown that runs to its end leaves     *)
(* neither the server nor a replay that it had listed, whatever ignores    *)
(* SIGTERM; the server outlives the launcher only after a signal before    *)
(* the handlers, a second one during the teardown, or an exception in it.  *)
OrphansOnlyAfterCutTeardown ==
    launcher = "exited" =>
        /\ server \in {"starting", "up"} =>
              ended \in {"early signal", "second signal", "aborted"}
        /\ ended = "teardown" => running \cap children = {}

(* start_all.py 101: the supervisor "Supervises the Dashboard API child    *)
(* process tree and guarantees clean termination": once it is in place,    *)
(* neither the server nor one of its replays outlives the launcher.        *)
CleanTermination ==
    launcher = "exited" /\ ended \notin {"script failed", "early signal"} =>
        server \notin {"starting", "up"} /\ running = {}

(* start_all.py 110-137: a signal ends the launcher, and so does the end   *)
(* of the server, whatever the server and its replays do meanwhile.        *)
LauncherEnds ==
    /\ signals > 0 ~> launcher = "exited"
    /\ server = "gone" ~> launcher = "exited"

(* server.py 367-403: a request is always answered, or its replay started: *)
(* stopping cannot hang on a replay that does not end.                     *)
RequestsSettle ==
    \A c \in Callers : ~SettledReq(c) ~> (SettledReq(c) \/ server = "gone")

=============================================================================
