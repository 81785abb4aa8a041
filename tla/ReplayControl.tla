--------------------------- MODULE ReplayControl ---------------------------
(***************************************************************************)
(* The replay control of dashboard/api/server.py: POST /api/replay, which  *)
(* runs run_replay_script in a thread of its own, POST /api/replay/stop    *)
(* and POST /api/datasource/mode, composed with the dataset source of      *)
(* DatasetReplay.  Every caller serves one request.  A replay subprocess   *)
(* is named by the caller that started it.  stop_active_replay holds       *)
(* replay_lock only around the subprocess, and Popen takes it again.       *)
(***************************************************************************)
EXTENDS DatasetReplay, FiniteSets

CONSTANT Overlap   \* whether a request may arrive while one is in flight

ASSUME ControlAssumption ==
    /\ Overlap \in BOOLEAN
    /\ Cardinality(Callers) <= MaxReplays /\ 0 \notin Callers

Modes == {"simulated", "dataset"}
NoProc == 0

VARIABLES
    mode,      \* _data_source_mode
    proc,      \* current_replay_process
    running,   \* replay subprocesses that have not exited
    req,       \* where each request is
    asked,     \* what each request is: an op and a mode
    awaited,   \* the subprocess a request waits for
    last,      \* history: the request accepted last
    survivors  \* history: subprocesses whose kill raised

ctlVars == <<mode, proc, running, req, asked, awaited, last, survivors>>
controlVars == <<dsVars, ctlVars>>

Ask(op, m) == [op |-> op, mode |-> m]

ControlInit ==
    /\ DSInit
    /\ mode = "simulated" /\ proc = NoProc /\ running = {}
    /\ req = [c \in Callers |-> "new"]
    /\ asked = [c \in Callers |-> Ask("stop", "simulated")]
    /\ awaited = [c \in Callers |-> NoProc]
    /\ last = NoProc /\ survivors = {}

Goes(c, from, to) == req[c] = from /\ req' = [req EXCEPT ![c] = to]

(* A replay thread has settled once it only waits for its replay to end.   *)
SettledReq(c) == req[c] \in {"new", "waiting", "dswait", "done"}
AllSettled == \A c \in Callers : SettledReq(c)

(* The endpoints.  trigger_replay without a mode takes the global one when *)
(* the request arrives.                                                    *)
Accept(c) ==
    /\ Overlap \/ AllSettled
    /\ Goes(c, "new", "stopds")
    /\ \E a \in {Ask("stop", mode)} \cup [op : {"trigger", "mode"}, mode : Modes] :
          asked' = [asked EXCEPT ![c] = a]
    /\ last' = c
    /\ UNCHANGED <<dsVars, mode, proc, running, awaited, survivors>>

AcceptDefault(c) ==
    /\ Overlap \/ AllSettled
    /\ Goes(c, "new", "stopds")
    /\ asked' = [asked EXCEPT ![c] = Ask("trigger", mode)]
    /\ last' = c
    /\ UNCHANGED <<dsVars, mode, proc, running, awaited, survivors>>

-----------------------------------------------------------------------------
(* stop_active_replay: the dataset source first, without a lock ...        *)
BugStopDataset(c) ==      \* only the subprocess is stopped
    /\ Goes(c, "stopds", "kill")
    /\ UNCHANGED <<dsVars, mode, proc, running, asked, awaited, last, survivors>>

StopDataset(c) ==
    /\ \/ IsRunning /\ Goes(c, "stopds", "instop") /\ Enter(c, "stop")
       \/ ~IsRunning /\ Goes(c, "stopds", "kill") /\ UNCHANGED dsVars
    /\ UNCHANGED <<mode, proc, running, asked, awaited, last, survivors>>

SourceStopped(c) ==
    /\ call[c] \in Outside
    /\ Goes(c, "instop", IF call[c] = "error" THEN "done" ELSE "kill")
    /\ UNCHANGED <<dsVars, mode, proc, running, asked, awaited, last, survivors>>

(* What follows stop_active_replay in each of its three callers.           *)
AfterStop(a) == IF a.op # "trigger" THEN "done"
                ELSE IF a.mode = "dataset" THEN "dsstart" ELSE "popen"

BugKill(c) ==             \* forgotten without being killed
    /\ Goes(c, "kill", AfterStop(asked[c]))
    /\ proc' = NoProc
    /\ mode' = IF asked[c].op = "mode" THEN asked[c].mode ELSE mode
    /\ UNCHANGED <<dsVars, running, asked, awaited, last, survivors>>

(* ... then the subprocess under replay_lock.  It is forgotten even if     *)
(* killing it raised.  set_datasource_mode assigns the mode afterwards.    *)
Kill(c) ==
    /\ Goes(c, "kill", AfterStop(asked[c]))
    /\ IF proc \in running
       THEN /\ proc' = NoProc
            /\ \/ running' = running \ {proc} /\ UNCHANGED survivors
               \/ survivors' = survivors \cup {proc} /\ UNCHANGED running
       ELSE UNCHANGED <<proc, running, survivors>>
    /\ mode' = IF asked[c].op = "mode" THEN asked[c].mode ELSE mode
    /\ UNCHANGED <<dsVars, asked, awaited, last>>

-----------------------------------------------------------------------------
(* run_replay_script, simulated: Popen under a second hold of replay_lock, *)
(* then current_replay_process.wait() on whatever it is by then.           *)
Popen(c) ==
    /\ Goes(c, "popen", "wait")
    /\ proc' = c
    /\ running' = running \cup {c}
    /\ UNCHANGED <<dsVars, mode, asked, awaited, last, survivors>>

WaitProc(c) ==
    /\ Goes(c, "wait", IF proc = NoProc THEN "done" ELSE "waiting")
    /\ awaited' = [awaited EXCEPT ![c] = proc]
    /\ UNCHANGED <<dsVars, mode, proc, running, asked, last, survivors>>

ProcEnded(c) ==
    /\ awaited[c] \notin running
    /\ Goes(c, "waiting", "done")
    /\ UNCHANGED <<dsVars, mode, proc, running, asked, awaited, last, survivors>>

(* run_replay_script, dataset: start the source and poll it.               *)
StartDataset(c) ==
    /\ Goes(c, "dsstart", "instart")
    /\ Enter(c, "start")
    /\ UNCHANGED <<mode, proc, running, asked, awaited, last, survivors>>

SourceStarted(c) ==
    /\ call[c] \in Outside
    /\ Goes(c, "instart", IF call[c] = "error" THEN "done" ELSE "dswait")
    /\ UNCHANGED <<dsVars, mode, proc, running, asked, awaited, last, survivors>>

DatasetEnded(c) ==
    /\ ~IsRunning
    /\ Goes(c, "dswait", "done")
    /\ UNCHANGED <<dsVars, mode, proc, running, asked, awaited, last, survivors>>

(* A replay subprocess comes to its end.                                   *)
ProcExit(p) ==
    /\ p \in running /\ running' = running \ {p}
    /\ UNCHANGED <<dsVars, mode, proc, req, asked, awaited, last, survivors>>

-----------------------------------------------------------------------------
Request(c) ==
    \/ StopDataset(c) \/ SourceStopped(c) \/ Kill(c)
    \/ Popen(c) \/ WaitProc(c) \/ ProcEnded(c)
    \/ StartDataset(c) \/ SourceStarted(c) \/ DatasetEnded(c)
    \/ InSource(c) /\ UNCHANGED ctlVars

ReplayThread(r) ==
    (Load(r) \/ CheckStop(r) \/ Emit(r) \/ Finish(r)) /\ UNCHANGED ctlVars

ControlNext ==
    \/ \E c \in Callers : Accept(c) \/ AcceptDefault(c) \/ Request(c) \/ ProcExit(c)
    \/ \E r \in Replays : ReplayThread(r)
    \/ ReadAlerts /\ UNCHANGED ctlVars

ControlSpec == ControlInit /\ [][ControlNext]_controlVars

-----------------------------------------------------------------------------
(* server.py 405-427: replays do not pile up: requests that do not overlap *)
(* never leave two sources of alerts alive, of either kind, but for a      *)
(* subprocess whose kill raised and a thread that outlived its join.       *)
AtMostOneReplay ==
    AllSettled => Cardinality(running \ survivors) + Cardinality(Alive \ outlived) <= 1

(* dataset_replay.py 107-125: once all requests have settled, every queued *)
(* record is of the current replay: a stop() leaves nothing of the one it  *)
(* stopped, unless that outlived the join.                                 *)
QueueIsCurrent ==
    AllSettled => \A i \in 1..Len(queue) : queue[i] \in {current} \cup outlived

(* server.py 368 says stop_active_replay "Recursively terminates any       *)
(* active background replay subprocess or dataset source", and 467 that    *)
(* POST /api/replay/stop "Immediately terminates the running live replay   *)
(* simulation": when the last request was a stop or a switch of mode and   *)
(* all are settled, nothing runs that killing and joining could end.       *)
StopTerminatesReplay ==
    (AllSettled /\ last # NoProc /\ asked[last].op # "trigger") =>
        running \subseteq survivors /\ Alive \subseteq outlived

=============================================================================
