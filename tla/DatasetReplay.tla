--------------------------- MODULE DatasetReplay ---------------------------
(***************************************************************************)
(* DatasetReplaySource of datasource/dataset_replay.py: start() and stop() *)
(* called from several threads of the server, and the replay threads they  *)
(* leave behind.  start and stop take no lock, so every access to the      *)
(* shared _stop_event, _thread and queue is a step of its own.  A queued   *)
(* record is represented by the replay thread that put it there.           *)
(***************************************************************************)
EXTENDS Naturals, Sequences

CONSTANTS Callers,      \* threads that call start and stop
          MaxReplays,   \* bound on the replay threads ever created
          MaxQueue      \* max_queue

ASSUME DatasetAssumption == MaxReplays \in Nat \ {0} /\ MaxQueue \in Nat \ {0}

VARIABLES
    dsStop,     \* _stop_event
    current,    \* _thread: a replay thread, or 0 for None
    nthreads,   \* Thread objects created so far
    phase,      \* of each replay thread
    queue,      \* _alert_queue
    call,       \* where each caller is inside start or stop
    wants,      \* the method each caller is in
    target,     \* the thread each caller joins
    outlived    \* history: the threads whose join timed out

dsVars == <<dsStop, current, nthreads, phase, queue, call, wants, target, outlived>>

Replays == 1..MaxReplays
Alive == {r \in Replays : phase[r] \in {"loading", "running", "putting"}}

(* is_running() *)
IsRunning == current \in Alive

DSInit ==
    /\ dsStop = FALSE /\ current = 0 /\ nthreads = 0
    /\ phase = [r \in Replays |-> "new"]
    /\ queue = <<>>
    /\ call = [c \in Callers |-> "out"]
    /\ wants = [c \in Callers |-> "stop"]
    /\ target = [c \in Callers |-> 0]
    /\ outlived = {}

Outside == {"out", "error"}   \* the last call returned, or raised

Goto(c, from, to) == call[c] = from /\ call' = [call EXCEPT ![c] = to]

(* A caller enters start, whose first line is stop(), or stop itself.      *)
Enter(c, method) ==
    /\ method = "start" => nthreads < MaxReplays
    /\ \E from \in Outside : Goto(c, from, "set")
    /\ wants' = [wants EXCEPT ![c] = method]
    /\ UNCHANGED <<dsStop, current, nthreads, phase, queue, target, outlived>>

-----------------------------------------------------------------------------
(* stop() *)
StopSet(c) ==
    /\ Goto(c, "set", "check")
    /\ dsStop' = TRUE
    /\ UNCHANGED <<current, nthreads, phase, queue, wants, target, outlived>>

StopCheck(c) ==
    /\ Goto(c, "check", IF IsRunning THEN "join" ELSE "forget")
    /\ UNCHANGED <<dsStop, current, nthreads, phase, queue, wants, target, outlived>>

(* self._thread is read again for the join; another caller may have reset  *)
(* it, and then the call raises AttributeError.                            *)
StopJoin(c) ==
    /\ Goto(c, "join", IF current = 0 THEN "error" ELSE "joining")
    /\ target' = [target EXCEPT ![c] = current]
    /\ UNCHANGED <<dsStop, current, nthreads, phase, queue, wants, outlived>>

BugStopJoined(c) ==   \* join() without a timeout
    /\ Goto(c, "joining", "forget")
    /\ target[c] \notin Alive
    /\ target' = [target EXCEPT ![c] = 0]
    /\ UNCHANGED <<dsStop, current, nthreads, phase, queue, wants, outlived>>

(* The join ends with the thread, or after 3 s, wherever the thread is.    *)
StopJoined(c) ==
    /\ Goto(c, "joining", "forget")
    /\ \/ target[c] \notin Alive /\ UNCHANGED outlived
       \/ target[c] \in Alive /\ outlived' = outlived \cup {target[c]}
    /\ target' = [target EXCEPT ![c] = 0]
    /\ UNCHANGED <<dsStop, current, nthreads, phase, queue, wants>>

StopForget(c) ==
    /\ Goto(c, "forget", "drain")
    /\ current' = 0
    /\ UNCHANGED <<dsStop, nthreads, phase, queue, wants, target, outlived>>

BugStopDrain(c) ==    \* the queue left as it is
    /\ Goto(c, "drain", IF wants[c] = "start" THEN "clear" ELSE "out")
    /\ UNCHANGED <<dsStop, current, nthreads, phase, queue, wants, target, outlived>>

(* The queue is emptied one record at a time; stop then returns to its     *)
(* caller, or to start.                                                    *)
StopDrain(c) ==
    /\ \/ queue # <<>> /\ Goto(c, "drain", "drain") /\ queue' = Tail(queue)
       \/ /\ queue = <<>> /\ UNCHANGED queue
          /\ Goto(c, "drain", IF wants[c] = "start" THEN "clear" ELSE "out")
    /\ UNCHANGED <<dsStop, current, nthreads, phase, wants, target, outlived>>

-----------------------------------------------------------------------------
(* The rest of start() *)
StartClear(c) ==
    /\ Goto(c, "clear", "create")
    /\ dsStop' = FALSE
    /\ UNCHANGED <<current, nthreads, phase, queue, wants, target, outlived>>

StartCreate(c) ==
    /\ nthreads < MaxReplays
    /\ Goto(c, "create", "run")
    /\ nthreads' = nthreads + 1
    /\ current' = nthreads + 1
    /\ UNCHANGED <<dsStop, phase, queue, wants, target, outlived>>

(* self._thread.start(), which raises when _thread was reset, or replaced  *)
(* by a thread that already runs.                                          *)
Startable == current \in {r \in Replays : phase[r] = "new"}

StartRun(c) ==
    /\ \/ /\ Startable
          /\ phase' = [phase EXCEPT ![current] = "loading"]
          /\ Goto(c, "run", "out")
       \/ /\ ~Startable
          /\ UNCHANGED phase
          /\ Goto(c, "run", "error")
    /\ UNCHANGED <<dsStop, current, nthreads, queue, wants, target, outlived>>

-----------------------------------------------------------------------------
(* _replay_thread: load everything, then look at the stop event before     *)
(* every record and drop a record that finds the queue full.  A duration   *)
(* may end it too.                                                         *)
Load(r) ==
    /\ phase[r] = "loading"
    /\ phase' = [phase EXCEPT ![r] = "running"]
    /\ UNCHANGED <<dsStop, current, nthreads, queue, call, wants, target, outlived>>

CheckStop(r) ==
    /\ phase[r] = "running" /\ ~dsStop
    /\ phase' = [phase EXCEPT ![r] = "putting"]
    /\ UNCHANGED <<dsStop, current, nthreads, queue, call, wants, target, outlived>>

Emit(r) ==
    /\ phase[r] = "putting"
    /\ phase' = [phase EXCEPT ![r] = "running"]
    /\ queue' = IF Len(queue) < MaxQueue THEN Append(queue, r) ELSE queue
    /\ UNCHANGED <<dsStop, current, nthreads, call, wants, target, outlived>>

Finish(r) ==
    /\ phase[r] = "running"
    /\ phase' = [phase EXCEPT ![r] = "dead"]
    /\ UNCHANGED <<dsStop, current, nthreads, queue, call, wants, target, outlived>>

(* read_alerts() empties the queue.                                        *)
ReadAlerts ==
    /\ queue # <<>> /\ queue' = <<>>
    /\ UNCHANGED <<dsStop, current, nthreads, phase, call, wants, target, outlived>>

InSource(c) ==
    \/ StopSet(c) \/ StopCheck(c) \/ StopJoin(c) \/ StopJoined(c) \/ StopForget(c)
    \/ StopDrain(c) \/ StartClear(c) \/ StartCreate(c) \/ StartRun(c)

=============================================================================
