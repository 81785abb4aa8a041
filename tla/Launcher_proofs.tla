-------------------------- MODULE Launcher_proofs --------------------------
(***************************************************************************)
(* The launcher and the replay control of the server it starts, for every  *)
(* number of requests, replays and signals: what outlives the launcher,    *)
(* and, for requests that do not overlap, that replays do not pile up.     *)
(***************************************************************************)
EXTENDS Launcher, FiniteSetTheorems, SequenceTheorems, TLAPS

(* What of the two kinds of replay counts: the subprocesses that no kill   *)
(* failed on, and the threads that no join gave up.                        *)
Subprocesses == running \ survivors
Threads == Alive \ outlived

(* Without overlap no call raises.                                         *)
CallStates == {"out", "set", "check", "join", "joining", "forget", "drain", "clear", "create",
               "run"}
ReqStates == {"new", "stopds", "instop", "kill", "popen", "wait", "waiting", "dsstart",
              "instart", "dswait", "done"}

ControlTypes ==
    /\ nthreads \in 0..MaxReplays /\ current \in 0..nthreads
    /\ phase \in [Replays -> {"new", "loading", "running", "putting", "dead"}]
    /\ \A r \in Replays : r > nthreads => phase[r] = "new"
    /\ queue \in Seq(Replays)
    /\ call \in [Callers -> CallStates]
    /\ wants \in [Callers -> {"start", "stop"}] /\ target \in [Callers -> 0..MaxReplays]
    /\ req \in [Callers -> ReqStates]
    /\ asked \in [Callers -> [op : {"stop", "trigger", "mode"}, mode : Modes]]
    /\ mode \in Modes
    /\ running \subseteq Callers /\ proc \in Callers \cup {NoProc}
    /\ last \in Callers \cup {NoProc}

(* Without overlap only the request accepted last is being served.         *)
OneAtATime ==
    \A c \in Callers :
        /\ c # last => SettledReq(c) /\ call[c] \in Outside
        /\ req[c] = "new" => c # last
        /\ call[c] \notin Outside => req[c] \in {"instop", "instart"}
        /\ req[c] = "instop" => wants[c] = "stop"
        /\ req[c] = "instart" => wants[c] = "start"
        /\ req[c] \in {"popen", "wait", "waiting", "dsstart", "instart", "dswait"}
              => asked[c].op = "trigger"

(* What holds where inside a request: no thread once stop() has joined,    *)
(* no subprocess after the kill, and neither before a new one is started.  *)
Inside(c) ==
    /\ call[c] \in {"forget", "drain", "clear", "create", "run"} => Threads = {}
    /\ call[c] \in {"drain", "clear", "create"} => current = 0
    /\ call[c] \in {"clear", "create", "run"} => wants[c] = "start"
    /\ call[c] = "join" => current # 0
    /\ call[c] = "joining" => target[c] = current /\ current # 0
    /\ call[c] = "run" => current \in Replays /\ phase[current] = "new"
    /\ (req[c] = "instop" /\ call[c] \in Outside) => Threads = {}
    /\ req[c] \in {"kill", "popen", "dsstart"} => Threads = {}
    /\ req[c] \in {"popen", "dsstart", "instart"} => Subprocesses = {}
    /\ (req[c] = "done" /\ asked[c].op # "trigger") => Threads = {} /\ Subprocesses = {}

InsideLast == \A c \in Callers : c = last => Inside(c)

(* There is one subprocess or one thread, and the server knows it.         *)
OneSource ==
    /\ Subprocesses \subseteq {proc} /\ Threads \subseteq {current}
    /\ Subprocesses = {} \/ Threads = {}

QueueInv ==
    (\A c \in Callers : call[c] # "drain") =>
        \A i \in 1..Len(queue) : queue[i] \in {current} \cup outlived

ControlInv == ControlTypes /\ OneAtATime /\ InsideLast /\ OneSource /\ QueueInv

(* The launcher: how it ended says what the server is.                     *)
LaunchInv ==
    /\ launcher \in {"assets", "port", "popen"} => server = "none"
    /\ launcher = "exited" =>
        /\ ended \in {"script failed", "server ended", "early signal", "second signal",
                      "aborted", "teardown"}
        /\ ended = "script failed" => server = "none"
        /\ ended \in {"server ended", "teardown"} => server = "gone"
        /\ ended = "teardown" => running \cap children = {}


-----------------------------------------------------------------------------
(* The dataset source.  A step of the request c inside start() or stop():  *)
(* what it has to show for the control's invariant.                        *)
LEMMA SourceStep ==
    ASSUME ControlInv, NEW c \in Callers, NEW to \in CallStates,
           call[c] \notin Outside, call' = [call EXCEPT ![c] = to], UNCHANGED <<ctlVars, wants>>,
           ControlTypes',
           Threads' \subseteq {current'}, Threads' \subseteq Threads \/ req[c] = "instart",
           to \in {"forget", "drain", "clear", "create", "run"} => Threads' = {},
           to \in {"drain", "clear", "create"} => current' = 0,
           to \in {"clear", "create", "run"} => wants[c] = "start",
           to = "join" => current' # 0,
           to = "joining" => target'[c] = current' /\ current' # 0,
           to = "run" => current' \in Replays /\ phase'[current'] = "new",
           to = "out" /\ wants[c] = "stop" => Threads' = {},
           to # "drain" => \A i \in 1..Len(queue') : queue'[i] \in {current'} \cup outlived'
    PROVE  ControlInv'
<1>0. ControlTypes /\ OneAtATime /\ InsideLast /\ OneSource
  BY DEF ControlInv
<1>1. /\ c = last /\ req[c] \in {"instop", "instart"}
      /\ \A d \in Callers \ {c} : call[d] \in Outside
  BY <1>0 DEF OneAtATime
<1>2. /\ UNCHANGED <<mode, proc, running, req, asked, last, survivors>> /\ wants' = wants
      /\ Subprocesses' = Subprocesses /\ \A d \in Callers : SettledReq(d)' <=> SettledReq(d)
  BY DEF ctlVars, Subprocesses, SettledReq
<1>3. call'[c] = to /\ \A d \in Callers \ {c} : call'[d] = call[d]
  BY <1>0 DEF ControlTypes
<1>4. OneAtATime'
  <2> SUFFICES ASSUME NEW d \in Callers
               PROVE  /\ d # last' => SettledReq(d)' /\ call'[d] \in Outside
                      /\ req'[d] = "new" => d # last'
                      /\ call'[d] \notin Outside => req'[d] \in {"instop", "instart"}
                      /\ req'[d] = "instop" => wants'[d] = "stop"
                      /\ req'[d] = "instart" => wants'[d] = "start"
                      /\ req'[d] \in {"popen", "wait", "waiting", "dsstart", "instart", "dswait"}
                            => asked'[d].op = "trigger"
    BY DEF OneAtATime, Outside
  <2> QED
    BY <1>0, <1>1, <1>2, <1>3 DEF OneAtATime
<1>5. req[c] = "instart" => Subprocesses = {}
  BY <1>0, <1>1 DEF InsideLast, Inside
<1>6. req[c] = "instop" => wants[c] = "stop"
  BY <1>0 DEF OneAtATime
<1>7. Inside(c)'
  BY <1>1, <1>2, <1>3, <1>5, <1>6 DEF Inside, Outside, CallStates
<1>8. InsideLast'
  BY <1>1, <1>2, <1>7 DEF InsideLast
<1>9. OneSource'
  BY <1>0, <1>2, <1>5 DEF OneSource
<1>10. QueueInv'
  BY <1>3 DEF QueueInv
<1> QED
  BY <1>4, <1>8, <1>9, <1>10 DEF ControlInv

(* The steps of stop() and start().                                        *)
LEMMA InSourceInv == \A c \in Callers : ControlInv /\ InSource(c) /\ UNCHANGED ctlVars => ControlInv'
<1> SUFFICES ASSUME NEW c \in Callers, ControlInv, InSource(c), UNCHANGED ctlVars
             PROVE  ControlInv'
  OBVIOUS
<1>0. ControlTypes /\ OneAtATime /\ InsideLast /\ OneSource /\ QueueInv
  BY DEF ControlInv
<1>a. UNCHANGED <<mode, proc, running, req, asked, awaited, last, survivors>>
  BY DEF ctlVars
<1>b. MaxReplays \in Nat /\ Replays = 1..MaxReplays
  BY DatasetAssumption DEF Replays
<1>c. ASSUME call[c] \notin Outside
      PROVE  /\ c = last /\ Inside(c)
             /\ req[c] \in {"instop", "instart"} /\ \A d \in Callers \ {c} : call[d] \in Outside
             /\ wants[c] = "start" => req[c] = "instart"
  BY <1>0, <1>c DEF OneAtATime, InsideLast
<1>d. ASSUME call[c] \notin Outside, call[c] # "drain"
      PROVE  \A i \in 1..Len(queue) : queue[i] \in {current} \cup outlived
  <2>1. \A d \in Callers : call[d] # "drain"
    BY <1>c, <1>d DEF Outside
  <2> QED
    BY <1>0, <2>1 DEF QueueInv
<1>e. UNCHANGED <<phase, outlived>> => Threads' = Threads
  BY DEF Threads, Alive
<1>f. Threads \subseteq {current}
  BY <1>0 DEF OneSource
<1>1. CASE StopSet(c)
  <2>1. /\ call[c] = "set" /\ call' = [call EXCEPT ![c] = "check"] /\ wants' = wants
        /\ UNCHANGED <<current, nthreads, phase, queue, wants, target, outlived>>
    BY <1>1 DEF StopSet, Goto
  <2>2. ControlTypes'
    BY <1>0, <1>a, <2>1 DEF ControlTypes, CallStates
  <2>3. call[c] \notin Outside
    BY <2>1 DEF Outside
  <2>4. Threads' = Threads
    BY <1>e, <2>1
  <2> QED
    BY <1>d, <1>f, <2>1, <2>2, <2>3, <2>4, SourceStep DEF CallStates
<1>2. CASE StopCheck(c)
  <2> DEFINE to == IF IsRunning THEN "join" ELSE "forget"
  <2>1. /\ call[c] = "check" /\ call' = [call EXCEPT ![c] = to] /\ wants' = wants
        /\ UNCHANGED <<dsStop, current, nthreads, phase, queue, wants, target, outlived>>
    BY <1>2 DEF StopCheck, Goto
  <2>2. ControlTypes'
    BY <1>0, <1>a, <2>1 DEF ControlTypes, CallStates
  <2>3. call[c] \notin Outside
    BY <2>1 DEF Outside
  <2>4. Threads' = Threads
    BY <1>e, <2>1
  <2>5. to = "forget" => Threads = {}
    BY <1>f DEF IsRunning, Threads
  <2>6. to = "join" => current # 0
    BY <1>b DEF IsRunning, Alive
  <2>7. to \in {"join", "forget"}
    OBVIOUS
  <2> HIDE DEF to
  <2> QED
    BY <1>d, <1>f, <2>1, <2>2, <2>3, <2>4, <2>5, <2>6, <2>7, SourceStep DEF CallStates
<1>3. CASE StopJoin(c)
  <2>1. /\ call[c] = "join" /\ target' = [target EXCEPT ![c] = current] /\ wants' = wants
        /\ call' = [call EXCEPT ![c] = IF current = 0 THEN "error" ELSE "joining"]
        /\ UNCHANGED <<dsStop, current, nthreads, phase, queue, wants, outlived>>
    BY <1>3 DEF StopJoin, Goto
  <2>2. call[c] \notin Outside
    BY <2>1 DEF Outside
  <2>3. current # 0
    BY <1>c, <2>1, <2>2 DEF Inside
  <2>4. call' = [call EXCEPT ![c] = "joining"] /\ target'[c] = current
    BY <1>0, <2>1, <2>3 DEF ControlTypes
  <2>5. ControlTypes'
    <3>1. current \in 0..MaxReplays
      BY <1>0, <1>b DEF ControlTypes
    <3> QED
      BY <1>0, <1>a, <2>1, <2>4, <3>1 DEF ControlTypes, CallStates
  <2>6. Threads' = Threads
    BY <1>e, <2>1
  <2> QED
    BY <1>d, <1>f, <2>1, <2>2, <2>3, <2>4, <2>5, <2>6, SourceStep DEF CallStates
<1>4. CASE StopJoined(c)
  <2>1. /\ call[c] = "joining" /\ call' = [call EXCEPT ![c] = "forget"] /\ wants' = wants
        /\ target' = [target EXCEPT ![c] = 0]
        /\ \/ target[c] \notin Alive /\ outlived' = outlived
           \/ outlived' = outlived \cup {target[c]}
        /\ UNCHANGED <<dsStop, current, nthreads, phase, queue, wants>>
    BY <1>4 DEF StopJoined, Goto
  <2>2. call[c] \notin Outside
    BY <2>1 DEF Outside
  <2>3. target[c] = current
    BY <1>c, <2>1, <2>2 DEF Inside
  <2>4. ControlTypes'
    BY <1>0, <1>a, <1>b, <2>1 DEF ControlTypes, CallStates
  <2>5. Alive' = Alive
    BY <2>1 DEF Alive
  <2>6. Threads' = {}
    BY <1>f, <2>1, <2>3, <2>5 DEF Threads
  <2> QED
    BY <1>d, <2>1, <2>2, <2>4, <2>6, SourceStep DEF CallStates
<1>5. CASE StopForget(c)
  <2>1. /\ call[c] = "forget" /\ call' = [call EXCEPT ![c] = "drain"] /\ wants' = wants
        /\ current' = 0
        /\ UNCHANGED <<dsStop, nthreads, phase, queue, wants, target, outlived>>
    BY <1>5 DEF StopForget, Goto
  <2>2. call[c] \notin Outside
    BY <2>1 DEF Outside
  <2>3. ControlTypes'
    <3>1. current' \in 0..nthreads'
      BY <1>0, <1>b, <2>1 DEF ControlTypes
    <3> QED
      BY <1>0, <1>a, <2>1, <3>1 DEF ControlTypes, CallStates
  <2>4. Threads' = {}
    BY <1>c, <1>e, <2>1, <2>2 DEF Inside
  <2> QED
    BY <2>1, <2>2, <2>3, <2>4, SourceStep DEF CallStates
<1>6. CASE StopDrain(c)
  <2>1. /\ call[c] = "drain" /\ wants' = wants
        /\ UNCHANGED <<dsStop, current, nthreads, phase, wants, target, outlived>>
    BY <1>6 DEF StopDrain, Goto
  <2>2. call[c] \notin Outside
    BY <2>1 DEF Outside
  <2>3. Threads' = {} /\ current' = 0
    BY <1>c, <1>e, <2>1, <2>2 DEF Inside
  <2>4. CASE queue # <<>> /\ call' = [call EXCEPT ![c] = "drain"] /\ queue' = Tail(queue)
    <3>1. queue' \in Seq(Replays)
      <4>1. queue \in Seq(Replays)
        BY <1>0 DEF ControlTypes
      <4> QED
        BY <2>4, <4>1, HeadTailProperties
    <3>2. ControlTypes'
      BY <1>0, <1>a, <2>1, <2>4, <3>1 DEF ControlTypes, CallStates
    <3> QED
      BY <2>1, <2>2, <2>3, <2>4, <3>2, SourceStep DEF CallStates
  <2>5. CASE /\ queue = <<>> /\ queue' = queue
             /\ call' = [call EXCEPT ![c] = IF wants[c] = "start" THEN "clear" ELSE "out"]
    <3> DEFINE to == IF wants[c] = "start" THEN "clear" ELSE "out"
    <3>1. ControlTypes'
      BY <1>0, <1>a, <2>1, <2>5 DEF ControlTypes, CallStates
    <3>2. \A i \in 1..Len(queue') : queue'[i] \in {current'} \cup outlived'
      BY <2>5
    <3>3. /\ to \in {"clear", "out"} /\ call' = [call EXCEPT ![c] = to]
          /\ to = "clear" => wants[c] = "start"
      BY <2>5
    <3> HIDE DEF to
    <3> QED
      BY <2>1, <2>2, <2>3, <3>1, <3>2, <3>3, SourceStep DEF CallStates
  <2> QED
    BY <1>6, <2>4, <2>5 DEF StopDrain, Goto
<1>7. CASE StartClear(c)
  <2>1. /\ call[c] = "clear" /\ call' = [call EXCEPT ![c] = "create"] /\ wants' = wants
        /\ UNCHANGED <<current, nthreads, phase, queue, wants, target, outlived>>
    BY <1>7 DEF StartClear, Goto
  <2>2. call[c] \notin Outside
    BY <2>1 DEF Outside
  <2>3. Threads' = {} /\ current' = 0 /\ wants[c] = "start"
    BY <1>c, <1>e, <2>1, <2>2 DEF Inside
  <2>4. ControlTypes'
    BY <1>0, <1>a, <2>1 DEF ControlTypes, CallStates
  <2> QED
    BY <1>d, <2>1, <2>2, <2>3, <2>4, SourceStep DEF CallStates
<1>8. CASE StartCreate(c)
  <2>1. /\ call[c] = "create" /\ call' = [call EXCEPT ![c] = "run"] /\ wants' = wants
        /\ nthreads < MaxReplays /\ nthreads' = nthreads + 1 /\ current' = nthreads + 1
        /\ UNCHANGED <<dsStop, phase, queue, wants, target, outlived>>
    BY <1>8 DEF StartCreate, Goto
  <2>2. call[c] \notin Outside
    BY <2>1 DEF Outside
  <2>3. Threads' = {} /\ current = 0 /\ wants[c] = "start"
    BY <1>c, <1>e, <2>1, <2>2 DEF Inside
  <2>4. nthreads \in Nat /\ nthreads' \in 0..MaxReplays /\ current' \in 0..nthreads'
        /\ current' \in Replays /\ current' > nthreads
    BY <1>0, <1>b, <2>1 DEF ControlTypes
  <2>5. ControlTypes'
    <3>1. \A r \in Replays : r > nthreads' => phase'[r] = "new"
      BY <1>0, <1>b, <2>1, <2>4 DEF ControlTypes
    <3> QED
      BY <1>0, <1>a, <2>1, <2>4, <3>1 DEF ControlTypes, CallStates
  <2>6. phase'[current'] = "new"
    BY <1>0, <2>1, <2>4 DEF ControlTypes
  <2>7. \A i \in 1..Len(queue') : queue'[i] \in {current'} \cup outlived'
    <3>1. \A i \in 1..Len(queue) : queue[i] \in Replays
      BY <1>0 DEF ControlTypes
    <3>2. \A i \in 1..Len(queue) : queue[i] # 0
      BY <1>b, <3>1
    <3> QED
      BY <1>d, <2>1, <2>2, <2>3, <3>2
  <2> QED
    BY <2>1, <2>2, <2>3, <2>4, <2>5, <2>6, <2>7, SourceStep DEF CallStates
<1>9. CASE StartRun(c)
  <2>1. /\ call[c] = "run" /\ wants' = wants
        /\ UNCHANGED <<dsStop, current, nthreads, queue, wants, target, outlived>>
    BY <1>9 DEF StartRun, Goto
  <2>2. call[c] \notin Outside
    BY <2>1 DEF Outside
  <2>3. Threads = {} /\ current \in Replays /\ phase[current] = "new"
    BY <1>c, <2>1, <2>2 DEF Inside
  <2>4. phase' = [phase EXCEPT ![current] = "loading"] /\ call' = [call EXCEPT ![c] = "out"]
    BY <1>9, <2>3 DEF StartRun, Startable, Goto
  <2>5. ControlTypes'
    <3>1. ~(current > nthreads)
      BY <1>0, <1>b DEF ControlTypes
    <3>2. \A r \in Replays : r > nthreads' => phase'[r] = "new"
      BY <1>0, <2>1, <2>4, <3>1 DEF ControlTypes
    <3> QED
      BY <1>0, <1>a, <2>1, <2>4, <3>2 DEF ControlTypes, CallStates
  <2>6. Threads' \subseteq {current'}
    <3>1. \A r \in Replays \ {current} : phase'[r] = phase[r]
      BY <1>0, <2>4 DEF ControlTypes
    <3> QED
      BY <2>1, <2>3, <3>1 DEF Threads, Alive
  <2>7. req[c] = "instart" /\ wants[c] = "start"
    BY <1>c, <2>1, <2>2 DEF Inside
  <2> QED
    BY <1>d, <2>1, <2>2, <2>4, <2>5, <2>6, <2>7, SourceStep DEF CallStates
<1> QED
  BY <1>1, <1>2, <1>3, <1>4, <1>5, <1>6, <1>7, <1>8, <1>9 DEF InSource


-----------------------------------------------------------------------------
(* A step of no request: replays may only end.                             *)
LEMMA ReplaysEnd ==
    ASSUME ControlInv, ControlTypes', QueueInv',
           UNCHANGED <<nthreads, current, call, wants, target, outlived>>,
           UNCHANGED <<mode, proc, req, asked, last, survivors>>,
           running' \subseteq running, Threads' \subseteq Threads,
           \A r \in Replays : phase[r] = "new" => phase'[r] = "new"
    PROVE  ControlInv'
<1>0. ControlTypes /\ OneAtATime /\ InsideLast /\ OneSource
  BY DEF ControlInv
<1>1. Subprocesses' \subseteq Subprocesses
  BY DEF Subprocesses
<1>2. OneAtATime'
  BY <1>0 DEF OneAtATime, SettledReq, Outside
<1>3. ASSUME NEW c \in Callers, c = last PROVE Inside(c)'
  <2>1. Inside(c)
    BY <1>0, <1>3 DEF InsideLast
  <2> QED
    BY <1>1, <2>1 DEF Inside, Outside
<1>4. InsideLast' /\ OneSource'
  BY <1>0, <1>1, <1>3 DEF InsideLast, OneSource
<1> QED
  BY <1>2, <1>4 DEF ControlInv

(* The replay threads, the streams that read the queue, and a subprocess   *)
(* that ends or is killed.                                                 *)
LEMMA ThreadInv == \A r \in Replays : ControlInv /\ ReplayThread(r) => ControlInv'
<1> SUFFICES ASSUME NEW r \in Replays, ControlInv, ReplayThread(r) PROVE ControlInv'
  OBVIOUS
<1>0. ControlTypes /\ QueueInv /\ OneSource
  BY DEF ControlInv
<1>1. /\ UNCHANGED <<nthreads, current, call, wants, target, outlived>>
      /\ UNCHANGED <<mode, proc, req, asked, last, survivors>> /\ running' = running
  BY DEF ReplayThread, Load, CheckStop, Emit, Finish, ctlVars
<1>2. /\ phase[r] \in {"loading", "running", "putting"}
      /\ \E to \in {"running", "putting", "dead"} : phase' = [phase EXCEPT ![r] = to]
  BY DEF ReplayThread, Load, CheckStop, Emit, Finish
<1>3. PICK to \in {"running", "putting", "dead"} : phase' = [phase EXCEPT ![r] = to]
  BY <1>2
<1>4. /\ \A q \in Replays : phase[q] = "new" => phase'[q] = "new"
      /\ \A q \in Replays : phase[q] # "new" => phase'[q] # "new"
      /\ r \in Alive /\ Alive' \subseteq Alive
  BY <1>0, <1>2, <1>3 DEF ControlTypes, Alive
<1>5. Threads' \subseteq Threads
  BY <1>1, <1>4 DEF Threads
<1>6. queue' = queue \/ queue' = Append(queue, r)
  BY DEF ReplayThread, Load, CheckStop, Emit, Finish
<1>7. queue \in Seq(Replays) /\ queue' \in Seq(Replays)
  <2>1. queue \in Seq(Replays)
    BY <1>0 DEF ControlTypes
  <2>2. Append(queue, r) \in Seq(Replays)
    BY <2>1
  <2> QED
    BY <1>6, <2>1, <2>2
<1>8. ControlTypes'
  BY <1>0, <1>1, <1>3, <1>4, <1>7 DEF ControlTypes
<1>9. QueueInv'
  <2> SUFFICES ASSUME \A c \in Callers : call[c] # "drain", NEW i \in 1..Len(queue')
               PROVE  queue'[i] \in {current} \cup outlived
    BY <1>1 DEF QueueInv
  <2>1. \A j \in 1..Len(queue) : queue[j] \in {current} \cup outlived
    BY <1>0 DEF QueueInv
  <2>2. r \in {current} \cup outlived
    BY <1>0, <1>4 DEF OneSource, Threads
  <2>3. CASE queue' = Append(queue, r)
    <3>1. Len(queue') = Len(queue) + 1 /\ Len(queue) \in Nat
      BY <1>7, <2>3
    <3>2. CASE i \in 1..Len(queue)
      BY <1>7, <2>1, <2>3, <3>2
    <3>3. CASE i = Len(queue) + 1
      BY <1>7, <2>2, <2>3, <3>3
    <3> QED
      BY <3>1, <3>2, <3>3
  <2> QED
    BY <1>6, <2>1, <2>3
<1> QED
  BY <1>1, <1>4, <1>5, <1>8, <1>9, ReplaysEnd

LEMMA ReadInv == ControlInv /\ ReadAlerts /\ UNCHANGED ctlVars => ControlInv'
<1> SUFFICES ASSUME ControlInv, ReadAlerts, UNCHANGED ctlVars PROVE ControlInv'
  OBVIOUS
<1>0. ControlTypes
  BY DEF ControlInv
<1>1. /\ UNCHANGED <<nthreads, current, phase, call, wants, target, outlived>> /\ queue' = <<>>
      /\ UNCHANGED <<mode, proc, req, asked, last, survivors>> /\ running' = running
  BY DEF ReadAlerts, ctlVars
<1>2. queue' \in Seq(Replays) /\ Len(queue') = 0
  BY <1>1
<1>3. ControlTypes'
  BY <1>0, <1>1, <1>2 DEF ControlTypes
<1>4. QueueInv'
  BY <1>2 DEF QueueInv
<1>5. Threads' = Threads
  BY <1>1 DEF Threads, Alive
<1> QED
  BY <1>1, <1>3, <1>4, <1>5, ReplaysEnd

LEMMA ProcessesEnd ==
    ASSUME ControlInv, UNCHANGED dsVars, running' \subseteq running,
           UNCHANGED <<mode, proc, req, asked, last, survivors>>
    PROVE  ControlInv'
<1>0. ControlTypes /\ QueueInv
  BY DEF ControlInv
<1>1. UNCHANGED <<nthreads, current, phase, queue, call, wants, target, outlived>>
  BY DEF dsVars
<1>2. ControlTypes' /\ QueueInv' /\ Threads' = Threads
  BY <1>0, <1>1 DEF ControlTypes, QueueInv, Threads, Alive
<1> QED
  BY <1>1, <1>2, ReplaysEnd

-----------------------------------------------------------------------------
(* A step of the request being served, or of one just accepted.            *)
LEMMA RequestStep ==
    ASSUME ControlInv, NEW c \in Callers, last' = c, NEW to \in ReqStates \ {"new"},
           \A d \in Callers \ {c} : SettledReq(d) /\ call[d] \in Outside,
           req' = [req EXCEPT ![c] = to],
           \A d \in Callers \ {c} : call'[d] = call[d] /\ wants'[d] = wants[d] /\ asked'[d] = asked[d],
           ControlTypes', OneSource', QueueInv',
           call'[c] \notin Outside => to \in {"instop", "instart"},
           to = "instop" => wants'[c] = "stop", to = "instart" => wants'[c] = "start",
           to \in {"popen", "wait", "waiting", "dsstart", "instart", "dswait"}
              => asked'[c].op = "trigger",
           Inside(c)'
    PROVE  ControlInv'
<1>0. ControlTypes /\ OneAtATime
  BY DEF ControlInv
<1>1. req'[c] = to /\ \A d \in Callers \ {c} : req'[d] = req[d]
  BY <1>0 DEF ControlTypes
<1>2. \A d \in Callers \ {c} : SettledReq(d)'
  BY <1>1 DEF SettledReq
<1>3. OneAtATime'
  <2> SUFFICES ASSUME NEW d \in Callers
               PROVE  /\ d # last' => SettledReq(d)' /\ call'[d] \in Outside
                      /\ req'[d] = "new" => d # last'
                      /\ call'[d] \notin Outside => req'[d] \in {"instop", "instart"}
                      /\ req'[d] = "instop" => wants'[d] = "stop"
                      /\ req'[d] = "instart" => wants'[d] = "start"
                      /\ req'[d] \in {"popen", "wait", "waiting", "dsstart", "instart", "dswait"}
                            => asked'[d].op = "trigger"
    BY DEF OneAtATime, Outside
  <2>1. CASE d = c
    BY <1>1, <2>1
  <2>2. CASE d # c
    BY <1>0, <1>1, <1>2, <2>2 DEF OneAtATime
  <2> QED
    BY <2>1, <2>2
<1>4. InsideLast'
  BY DEF InsideLast
<1> QED
  BY <1>3, <1>4 DEF ControlInv

(* The endpoints, when no request may overlap another.                     *)
LEMMA AcceptInv ==
    ASSUME ~Overlap, NEW c \in Callers, ControlInv, Accept(c) \/ AcceptDefault(c)
    PROVE  ControlInv'
<1>0. ControlTypes /\ OneAtATime /\ OneSource /\ QueueInv
  BY DEF ControlInv
<1>1. /\ \A d \in Callers : SettledReq(d)
      /\ req[c] = "new" /\ req' = [req EXCEPT ![c] = "stopds"] /\ last' = c
      /\ UNCHANGED <<dsVars, mode, proc, running, survivors>>
  BY DEF Accept, AcceptDefault, Goes, AllSettled
<1>2. PICK a \in [op : {"stop", "trigger", "mode"}, mode : Modes] :
        asked' = [asked EXCEPT ![c] = a]
  <2>1. mode \in Modes
    BY <1>0 DEF ControlTypes
  <2>2. CASE Accept(c)
    <3>1. \E x \in {Ask("stop", mode)} \cup [op : {"trigger", "mode"}, mode : Modes] :
            asked' = [asked EXCEPT ![c] = x]
      BY <2>2 DEF Accept
    <3>2. Ask("stop", mode) \in [op : {"stop", "trigger", "mode"}, mode : Modes]
      BY <2>1 DEF Ask
    <3>3. [op : {"trigger", "mode"}, mode : Modes]
             \subseteq [op : {"stop", "trigger", "mode"}, mode : Modes]
      OBVIOUS
    <3> QED
      BY <3>1, <3>2, <3>3
  <2>3. CASE AcceptDefault(c)
    BY <2>1, <2>3 DEF AcceptDefault, Ask
  <2> QED
    BY <2>2, <2>3
<1>3. UNCHANGED <<nthreads, current, phase, queue, call, wants, target, outlived>>
  BY <1>1 DEF dsVars
<1>4. \A d \in Callers : call[d] \in Outside
  BY <1>0, <1>1 DEF OneAtATime, SettledReq
<1>5. ControlTypes'
  BY <1>0, <1>1, <1>2, <1>3 DEF ControlTypes, ReqStates
<1>6. OneSource' /\ QueueInv'
  BY <1>0, <1>1, <1>3 DEF OneSource, QueueInv, Subprocesses, Threads, Alive
<1>7. req'[c] = "stopds" /\ call'[c] \in Outside /\ call'[c] = call[c]
  BY <1>0, <1>1, <1>3, <1>4 DEF ControlTypes
<1>8. Inside(c)'
  BY <1>7 DEF Inside, Outside
<1>9. \A d \in Callers \ {c} : call'[d] = call[d] /\ wants'[d] = wants[d] /\ asked'[d] = asked[d]
  BY <1>0, <1>2, <1>3 DEF ControlTypes
<1> QED
  BY <1>1, <1>4, <1>5, <1>6, <1>7, <1>8, <1>9, RequestStep DEF ReqStates


(* What the request c relies on while it is served.                        *)
LEMMA Served ==
    ASSUME ControlInv, NEW c \in Callers, ~SettledReq(c)
    PROVE  /\ c = last /\ Inside(c)
           /\ \A d \in Callers \ {c} : SettledReq(d) /\ call[d] \in Outside
  BY DEF ControlInv, OneAtATime, InsideLast

(* A step of the request that leaves the dataset source and what it was    *)
(* asked alone.                                                            *)
LEMMA ControlStep ==
    ASSUME ControlInv, NEW c \in Callers, ~SettledReq(c), NEW to \in ReqStates \ {"new"},
           req' = [req EXCEPT ![c] = to], UNCHANGED <<dsVars, asked, last>>,
           call[c] \in Outside, to \notin {"instop", "instart"},
           mode' \in Modes, running' \subseteq Callers, proc' \in Callers \cup {NoProc},
           to \in {"popen", "wait", "waiting", "dsstart", "dswait"} => asked[c].op = "trigger",
           Subprocesses' \subseteq {proc'}, Subprocesses' = {} \/ Threads = {},
           to \in {"kill", "popen", "dsstart"} => Threads = {},
           to \in {"popen", "dsstart"} => Subprocesses' = {},
           (to = "done" /\ asked[c].op # "trigger") => Threads = {} /\ Subprocesses' = {}
    PROVE  ControlInv'
<1>0. ControlTypes /\ OneAtATime /\ OneSource /\ QueueInv
  BY DEF ControlInv
<1>1. UNCHANGED <<nthreads, current, phase, queue, call, wants, target, outlived>>
  BY DEF dsVars
<1>2. /\ c = last /\ Inside(c)
      /\ \A d \in Callers \ {c} : SettledReq(d) /\ call[d] \in Outside
  BY Served
<1>3. Threads' = Threads /\ QueueInv'
  BY <1>0, <1>1 DEF Threads, Alive, QueueInv
<1>4. ControlTypes'
  BY <1>0, <1>1 DEF ControlTypes
<1>5. OneSource'
  BY <1>0, <1>1, <1>3 DEF OneSource
<1>6. req'[c] = to /\ call'[c] = call[c] /\ asked'[c] = asked[c]
  BY <1>0, <1>1 DEF ControlTypes
<1>7. Inside(c)'
  BY <1>3, <1>6 DEF Inside, Outside
<1> QED
  BY <1>1, <1>2, <1>3, <1>4, <1>5, <1>6, <1>7, RequestStep

LEMMA RequestInv ==
    ASSUME NEW c \in Callers, ControlInv, Request(c)
    PROVE  ControlInv'
<1>0. ControlTypes /\ OneAtATime /\ OneSource /\ QueueInv
  BY DEF ControlInv
<1>a. running \subseteq Callers /\ proc \in Callers \cup {NoProc} /\ mode \in Modes
  BY <1>0 DEF ControlTypes
<1>b. /\ Subprocesses \subseteq {proc} /\ Threads \subseteq {current}
      /\ Subprocesses = {} \/ Threads = {}
  BY <1>0 DEF OneSource
<1>c. ASSUME req[c] \notin {"instop", "instart"} PROVE call[c] \in Outside
  BY <1>0, <1>c DEF OneAtATime
<1>d. UNCHANGED <<running, survivors>> => Subprocesses' = Subprocesses
  BY DEF Subprocesses
<1>1. CASE StopDataset(c)
  <2>1. /\ req[c] = "stopds" /\ ~SettledReq(c) /\ call[c] \in Outside
        /\ UNCHANGED <<mode, proc, running, asked, last, survivors>>
    BY <1>1, <1>c DEF StopDataset, Goes, SettledReq
  <2>2. /\ c = last
        /\ \A d \in Callers \ {c} : SettledReq(d) /\ call[d] \in Outside
    BY <2>1, Served
  <2>3. CASE /\ req' = [req EXCEPT ![c] = "instop"] /\ Enter(c, "stop")
    <3>1. /\ call' = [call EXCEPT ![c] = "set"] /\ wants' = [wants EXCEPT ![c] = "stop"]
          /\ UNCHANGED <<dsStop, current, nthreads, phase, queue, target, outlived>>
      BY <2>3 DEF Enter, Goto
    <3>2. ControlTypes'
      BY <1>0, <2>1, <2>3, <3>1 DEF ControlTypes, CallStates, ReqStates
    <3>3. /\ call'[c] = "set" /\ wants'[c] = "stop" /\ req'[c] = "instop"
          /\ \A d \in Callers \ {c} : call'[d] = call[d] /\ wants'[d] = wants[d] /\ asked'[d] = asked[d]
      BY <1>0, <2>1, <2>3, <3>1 DEF ControlTypes
    <3>4. OneSource'
      BY <1>b, <2>1, <3>1 DEF OneSource, Subprocesses, Threads, Alive
    <3>5. QueueInv'
      <4>1. \A d \in Callers : call[d] # "drain"
        BY <2>1, <2>2 DEF Outside
      <4> QED
        BY <1>0, <3>1, <4>1 DEF QueueInv
    <3>6. Inside(c)'
      BY <3>3 DEF Inside, Outside
    <3> QED
      BY <2>1, <2>2, <2>3, <3>2, <3>3, <3>4, <3>5, <3>6, RequestStep DEF ReqStates
  <2>4. CASE ~IsRunning /\ req' = [req EXCEPT ![c] = "kill"] /\ UNCHANGED dsVars
    <3>1. Threads = {}
      BY <1>b, <2>4 DEF IsRunning, Threads
    <3>2. /\ Subprocesses' = Subprocesses /\ running' \subseteq Callers /\ mode' \in Modes
          /\ proc' = proc /\ proc' \in Callers \cup {NoProc} /\ UNCHANGED <<dsVars, asked, last>>
      BY <1>a, <1>d, <2>1, <2>4
    <3>3. "kill" \in ReqStates \ {"new"}
      BY DEF ReqStates
    <3> QED
      BY <1>b, <2>1, <2>4, <3>1, <3>2, <3>3, ControlStep
  <2> QED
    BY <1>1, <2>3, <2>4 DEF StopDataset, Goes
<1>2. CASE SourceStopped(c)
  <2>1. /\ req[c] = "instop" /\ ~SettledReq(c) /\ call[c] \in Outside
        /\ req' = [req EXCEPT ![c] = IF call[c] = "error" THEN "done" ELSE "kill"]
        /\ UNCHANGED <<dsVars, mode, proc, running, asked, last, survivors>>
    BY <1>2 DEF SourceStopped, Goes, SettledReq
  <2>2. call[c] # "error"
    BY <1>0 DEF ControlTypes, CallStates
  <2>3. Threads = {}
    BY <2>1, Served DEF Inside
  <2>4. /\ Subprocesses' = Subprocesses /\ running' \subseteq Callers /\ mode' \in Modes
        /\ proc' = proc /\ proc' \in Callers \cup {NoProc} /\ UNCHANGED <<dsVars, asked, last>>
    BY <1>a, <1>d, <2>1
  <2>5. "kill" \in ReqStates \ {"new"} /\ req' = [req EXCEPT ![c] = "kill"]
    BY <2>1, <2>2 DEF ReqStates
  <2> QED
    BY <1>b, <2>1, <2>3, <2>4, <2>5, ControlStep
<1>3. CASE Kill(c)
  <2> DEFINE to == AfterStop(asked[c])
  <2>1. /\ req[c] = "kill" /\ ~SettledReq(c) /\ call[c] \in Outside
        /\ req' = [req EXCEPT ![c] = to] /\ UNCHANGED <<dsVars, asked, last>>
    BY <1>3, <1>c DEF Kill, Goes, SettledReq
  <2>2. Threads = {}
    BY <2>1, Served DEF Inside
  <2>3. running' \subseteq Callers /\ proc' \in Callers \cup {NoProc}
    BY <1>3, <1>a DEF Kill
  <2>4. Subprocesses' = {}
    BY <1>3, <1>b DEF Kill, Subprocesses
  <2>5. mode' \in Modes
    BY <1>0, <1>3, <1>a DEF Kill, ControlTypes
  <2>6. /\ to \in {"done", "dsstart", "popen"}
        /\ to \in {"dsstart", "popen"} => asked[c].op = "trigger"
    BY DEF AfterStop
  <2> HIDE DEF to
  <2> QED
    BY <2>1, <2>2, <2>3, <2>4, <2>5, <2>6, ControlStep DEF ReqStates
<1>4. CASE Popen(c)
  <2>1. /\ req[c] = "popen" /\ ~SettledReq(c) /\ call[c] \in Outside
        /\ req' = [req EXCEPT ![c] = "wait"] /\ UNCHANGED <<dsVars, mode, asked, last, survivors>>
        /\ proc' = c /\ running' = running \cup {c}
    BY <1>4, <1>c DEF Popen, Goes, SettledReq
  <2>2. Threads = {} /\ Subprocesses = {} /\ asked[c].op = "trigger"
    BY <1>0, <2>1, Served DEF Inside, OneAtATime
  <2>3. Subprocesses' \subseteq {c}
    BY <2>1, <2>2 DEF Subprocesses
  <2> QED
    BY <1>a, <2>1, <2>2, <2>3, ControlStep DEF ReqStates
<1>5. CASE WaitProc(c)
  <2> DEFINE to == IF proc = NoProc THEN "done" ELSE "waiting"
  <2>1. /\ req[c] = "wait" /\ ~SettledReq(c) /\ call[c] \in Outside
        /\ req' = [req EXCEPT ![c] = to]
        /\ UNCHANGED <<dsVars, mode, proc, running, asked, last, survivors>>
    BY <1>5, <1>c DEF WaitProc, Goes, SettledReq
  <2>2. asked[c].op = "trigger"
    BY <1>0, <2>1 DEF OneAtATime
  <2>3. to \in {"done", "waiting"}
    OBVIOUS
  <2> HIDE DEF to
  <2> QED
    BY <1>a, <1>b, <1>d, <2>1, <2>2, <2>3, ControlStep DEF ReqStates
<1>6. CASE StartDataset(c)
  <2>1. /\ req[c] = "dsstart" /\ ~SettledReq(c) /\ call[c] \in Outside
        /\ req' = [req EXCEPT ![c] = "instart"]
        /\ UNCHANGED <<mode, proc, running, asked, last, survivors>>
        /\ call' = [call EXCEPT ![c] = "set"] /\ wants' = [wants EXCEPT ![c] = "start"]
        /\ UNCHANGED <<dsStop, current, nthreads, phase, queue, target, outlived>>
    BY <1>6, <1>c DEF StartDataset, Goes, SettledReq, Enter, Goto
  <2>2. /\ c = last /\ Subprocesses = {}
        /\ \A d \in Callers \ {c} : SettledReq(d) /\ call[d] \in Outside
    BY <2>1, Served DEF Inside
  <2>3. asked[c].op = "trigger"
    BY <1>0, <2>1 DEF OneAtATime
  <2>4. ControlTypes'
    BY <1>0, <2>1 DEF ControlTypes, CallStates, ReqStates
  <2>5. /\ call'[c] = "set" /\ wants'[c] = "start" /\ req'[c] = "instart" /\ asked'[c] = asked[c]
        /\ \A d \in Callers \ {c} : call'[d] = call[d] /\ wants'[d] = wants[d] /\ asked'[d] = asked[d]
    BY <1>0, <2>1 DEF ControlTypes
  <2>6. OneSource' /\ Subprocesses' = {}
    BY <1>b, <2>1, <2>2 DEF OneSource, Subprocesses, Threads, Alive
  <2>7. QueueInv'
    <3>1. \A d \in Callers : call[d] # "drain"
      BY <2>1, <2>2 DEF Outside
    <3> QED
      BY <1>0, <2>1, <3>1 DEF QueueInv
  <2>8. Inside(c)'
    BY <2>5, <2>6 DEF Inside, Outside
  <2> QED
    BY <2>1, <2>2, <2>3, <2>4, <2>5, <2>6, <2>7, <2>8, RequestStep DEF ReqStates
<1>7. CASE SourceStarted(c)
  <2>1. /\ req[c] = "instart" /\ ~SettledReq(c) /\ call[c] \in Outside
        /\ req' = [req EXCEPT ![c] = IF call[c] = "error" THEN "done" ELSE "dswait"]
        /\ UNCHANGED <<dsVars, mode, proc, running, asked, last, survivors>>
    BY <1>7 DEF SourceStarted, Goes, SettledReq
  <2>2. call[c] # "error" /\ asked[c].op = "trigger"
    BY <1>0, <2>1 DEF ControlTypes, CallStates, OneAtATime
  <2>3. /\ Subprocesses' = Subprocesses /\ running' \subseteq Callers /\ mode' \in Modes
        /\ proc' = proc /\ proc' \in Callers \cup {NoProc} /\ UNCHANGED <<dsVars, asked, last>>
    BY <1>a, <1>d, <2>1
  <2>4. "dswait" \in ReqStates \ {"new"} /\ req' = [req EXCEPT ![c] = "dswait"]
    BY <2>1, <2>2 DEF ReqStates
  <2> QED
    BY <1>b, <2>1, <2>2, <2>3, <2>4, ControlStep
<1>8. CASE ProcEnded(c) \/ DatasetEnded(c)
  <2>1. /\ req[c] \in {"waiting", "dswait"} /\ req' = [req EXCEPT ![c] = "done"]
        /\ UNCHANGED <<dsVars, mode, proc, running, asked, last, survivors>>
    BY <1>8 DEF ProcEnded, DatasetEnded, Goes
  <2>2. UNCHANGED <<nthreads, current, phase, queue, call, wants, target, outlived>>
    BY <2>1 DEF dsVars
  <2>3. asked[c].op = "trigger" /\ call[c] \in Outside
    BY <1>0, <2>1 DEF OneAtATime
  <2>4. req'[c] = "done" /\ \A d \in Callers \ {c} : req'[d] = req[d]
    BY <1>0, <2>1 DEF ControlTypes
  <2>5. ControlTypes'
    BY <1>0, <2>1, <2>2 DEF ControlTypes, ReqStates
  <2>6. Threads' = Threads /\ Subprocesses' = Subprocesses
    BY <2>1, <2>2 DEF Threads, Alive, Subprocesses
  <2>7. OneSource' /\ QueueInv'
    BY <1>0, <2>1, <2>2, <2>6 DEF OneSource, QueueInv
  <2>8. OneAtATime'
    <3>1. \A d \in Callers : SettledReq(d)' <=> SettledReq(d)
      BY <2>1, <2>4 DEF SettledReq
    <3>2. \A d \in Callers : req'[d] = req[d] \/ (d = c /\ req'[d] = "done")
      BY <2>4
    <3>3. UNCHANGED <<call, wants, asked, last>>
      BY <2>1, <2>2
    <3> QED
      BY <1>0, <2>3, <3>1, <3>2, <3>3 DEF OneAtATime, Outside
  <2>9. InsideLast'
    <3> SUFFICES ASSUME NEW d \in Callers, d = last PROVE Inside(d)'
      BY <2>1 DEF InsideLast
    <3>1. Inside(d)
      BY DEF ControlInv, InsideLast
    <3>2. CASE d = c
      BY <2>1, <2>2, <2>3, <2>4, <3>2 DEF Inside, Outside
    <3>3. CASE d # c
      BY <2>1, <2>2, <2>4, <2>6, <3>1, <3>3 DEF Inside, Outside
    <3> QED
      BY <3>2, <3>3
  <2> QED
    BY <2>5, <2>7, <2>8, <2>9 DEF ControlInv
<1>9. CASE InSource(c) /\ UNCHANGED ctlVars
  BY <1>9, InSourceInv
<1> QED
  BY <1>1, <1>2, <1>3, <1>4, <1>5, <1>6, <1>7, <1>8, <1>9 DEF Request


-----------------------------------------------------------------------------
(* The launcher around the server.                                         *)
LEMMA LaunchInitInv == LaunchInit => ControlInv /\ LaunchInv
<1> SUFFICES ASSUME LaunchInit PROVE ControlInv /\ LaunchInv
  OBVIOUS
<1>0. 0 \notin Callers /\ MaxReplays \in Nat /\ Replays = 1..MaxReplays
  BY ControlAssumption, DatasetAssumption DEF Replays
<1>1. /\ current = 0 /\ nthreads = 0 /\ phase = [r \in Replays |-> "new"] /\ queue = <<>>
      /\ call = [c \in Callers |-> "out"] /\ wants = [c \in Callers |-> "stop"]
      /\ target = [c \in Callers |-> 0] /\ outlived = {}
      /\ mode = "simulated" /\ proc = NoProc /\ running = {} /\ last = 0 /\ survivors = {}
      /\ req = [c \in Callers |-> "new"]
      /\ asked = [c \in Callers |-> [op |-> "stop", mode |-> "simulated"]]
  BY DEF LaunchInit, ControlInit, DSInit, Ask, NoProc
<1>2. queue \in Seq(Replays) /\ Len(queue) = 0
  BY <1>1
<1>3. ControlTypes
  <2>1. nthreads \in 0..MaxReplays /\ current \in 0..nthreads
    BY <1>0, <1>1
  <2>2. /\ phase \in [Replays -> {"new", "loading", "running", "putting", "dead"}]
        /\ \A r \in Replays : phase[r] = "new"
    BY <1>1
  <2>3. call \in [Callers -> CallStates]
    BY <1>1 DEF CallStates
  <2>4. wants \in [Callers -> {"start", "stop"}]
    BY <1>1
  <2>5. target \in [Callers -> 0..MaxReplays]
    BY <1>0, <1>1
  <2>6. req \in [Callers -> ReqStates]
    BY <1>1 DEF ReqStates
  <2>7. "simulated" \in Modes
    BY DEF Modes
  <2>8. asked \in [Callers -> [op : {"stop", "trigger", "mode"}, mode : Modes]]
    BY <1>1, <2>7
  <2>9. /\ mode \in Modes /\ running \subseteq Callers
        /\ proc \in Callers \cup {NoProc} /\ last \in Callers \cup {NoProc}
    BY <1>1, <2>7 DEF NoProc
  <2> QED
    BY <1>2, <2>1, <2>2, <2>3, <2>4, <2>5, <2>6, <2>8, <2>9 DEF ControlTypes
<1>4. Threads = {} /\ Subprocesses = {}
  BY <1>1 DEF Threads, Alive, Subprocesses
<1>5. OneAtATime /\ InsideLast
  BY <1>0, <1>1 DEF OneAtATime, InsideLast, SettledReq, Outside
<1>6. OneSource /\ QueueInv
  BY <1>2, <1>4 DEF OneSource, QueueInv
<1>7. LaunchInv
  BY DEF LaunchInit, LaunchInv
<1> QED
  BY <1>3, <1>5, <1>6, <1>7 DEF ControlInv

(* The launcher itself does nothing to the replays but kill some.          *)
LEMMA ControlStepInv ==
    ASSUME ~Overlap, ControlInv, [LaunchNext]_allVars
    PROVE  ControlInv'
<1>1. CASE UNCHANGED controlVars
  <2>1. /\ UNCHANGED dsVars /\ running' \subseteq running
        /\ UNCHANGED <<mode, proc, req, asked, last, survivors>>
    BY <1>1 DEF controlVars, ctlVars
  <2> QED
    BY <2>1, ProcessesEnd
<1>2. CASE KillAlive
  <2>1. /\ UNCHANGED dsVars /\ running' \subseteq running
        /\ UNCHANGED <<mode, proc, req, asked, last, survivors>>
    BY <1>2 DEF KillAlive
  <2> QED
    BY <2>1, ProcessesEnd
<1>t. CASE TeardownRaises
  <2>1. /\ UNCHANGED dsVars /\ running' \subseteq running
        /\ UNCHANGED <<mode, proc, req, asked, last, survivors>>
    BY <1>t DEF TeardownRaises
  <2> QED
    BY <2>1, ProcessesEnd
<1>3. ASSUME NEW c \in Callers, Accept(c) \/ AcceptDefault(c) \/ Request(c) \/ ProcExit(c)
      PROVE  ControlInv'
  <2>1. CASE ProcExit(c)
    <3>1. /\ UNCHANGED dsVars /\ running' \subseteq running
          /\ UNCHANGED <<mode, proc, req, asked, last, survivors>>
      BY <2>1 DEF ProcExit
    <3> QED
      BY <3>1, ProcessesEnd
  <2> QED
    BY <1>3, <2>1, AcceptInv, RequestInv
<1>4. ASSUME NEW r \in Replays, ReplayThread(r) PROVE ControlInv'
  BY <1>4, ThreadInv
<1>5. CASE ReadAlerts /\ UNCHANGED ctlVars
  BY <1>5, ReadInv
<1>6. CASE Run \/ Signal \/ ServerBinds \/ ServerExits
  <2>1. UNCHANGED controlVars \/ KillAlive
    BY <1>6 DEF Run, Signal, ServerBinds, ServerExits, PrepareAssets, EnsurePort, StartServer,
                InstallHandlers, WaitForServer, Monitor, ListChildren, Terminate, WaitProcs
  <2> QED
    BY <1>1, <1>2, <2>1
<1>7. CASE UNCHANGED allVars
  BY <1>1, <1>7 DEF allVars
<1> QED
  BY <1>3, <1>4, <1>5, <1>6, <1>7, <1>t DEF LaunchNext, Serves

(* This one needs no order among the requests.                             *)
LEMMA LaunchStepInv == LaunchInv /\ [LaunchNext]_allVars => LaunchInv'
<1> SUFFICES ASSUME LaunchInv, [LaunchNext]_allVars PROVE LaunchInv'
  OBVIOUS
<1>1. ASSUME UNCHANGED launchVars, server = "up" \/ running' \subseteq running PROVE LaunchInv'
  BY <1>1 DEF LaunchInv, launchVars
<1>2. CASE UNCHANGED allVars
  BY <1>1, <1>2 DEF allVars, controlVars, ctlVars
<1>3. ASSUME NEW c \in Callers, ProcExit(c), UNCHANGED launchVars PROVE LaunchInv'
  BY <1>1, <1>3 DEF ProcExit
<1>4. ASSUME server = "up", UNCHANGED launchVars PROVE LaunchInv'
  BY <1>1, <1>4
<1>5. CASE ServerBinds \/ ServerExits
  BY <1>5 DEF ServerBinds, ServerExits, LaunchInv, controlVars, ctlVars
<1>6. CASE Signal
  BY <1>6 DEF Signal, Exit, Unhandled, Teardown, LaunchInv, controlVars, ctlVars
<1>7. CASE PrepareAssets \/ EnsurePort \/ StartServer \/ InstallHandlers \/ WaitForServer \/ Monitor
  BY <1>7 DEF PrepareAssets, EnsurePort, StartServer, InstallHandlers, WaitForServer, Monitor,
              At, Exit, LaunchInv, controlVars, ctlVars
<1>8. CASE ListChildren \/ Terminate
  BY <1>8 DEF ListChildren, Terminate, At, Exit, LaunchInv, controlVars, ctlVars
<1>9. CASE WaitProcs
  BY <1>9 DEF WaitProcs, Exit, LaunchInv, controlVars, ctlVars
<1>10. CASE KillAlive
  BY <1>10 DEF KillAlive, Exit, LaunchInv
<1>11. CASE TeardownRaises
  BY <1>11 DEF TeardownRaises, Exit, LaunchInv
<1> QED
  BY <1>2, <1>3, <1>4, <1>5, <1>6, <1>7, <1>8, <1>9, <1>10, <1>11 DEF LaunchNext, Run, Serves

(* The two invariants of the launcher and its server; the second one is of *)
(* requests that come one at a time.                                       *)
THEOREM LaunchInvariant == LaunchSpec => []LaunchInv
  BY LaunchInitInv, LaunchStepInv, PTL DEF LaunchSpec

(* The replay control of the server under its supervisor keeps its         *)
(* inductive invariant when requests come one at a time: what the handlers *)
(* (server.py 348-498) know of the processes and threads is still so.      *)
THEOREM ControlInvariant == ASSUME ~Overlap PROVE LaunchSpec => []ControlInv
<1>1. ControlInv /\ [LaunchNext]_allVars => ControlInv'
  BY ControlStepInv
<1> QED
  BY <1>1, LaunchInitInv, PTL DEF LaunchSpec

(* start_all.py 101-137: whatever signals come and however the server      *)
(* ends, it outlives the launcher only after a signal before the handlers, *)
(* a second one or an exception during the teardown, and a teardown that   *)
(* ran to its end leaves nothing it has listed.                            *)
THEOREM TeardownIsClean == LaunchSpec => []OrphansOnlyAfterCutTeardown
<1>1. LaunchInv => OrphansOnlyAfterCutTeardown
  BY DEF LaunchInv, OrphansOnlyAfterCutTeardown
<1> QED
  BY <1>1, LaunchInvariant, PTL

(* server.py 405-427: any number of requests, one after the other, leave   *)
(* at most one source of alerts alive.                                     *)
THEOREM ReplaysDoNotPileUp == ASSUME ~Overlap PROVE LaunchSpec => []AtMostOneReplay
<1>1. ControlInv => AtMostOneReplay
  <2> SUFFICES ASSUME ControlInv
               PROVE  Cardinality(Subprocesses) + Cardinality(Threads) <= 1
    BY DEF AtMostOneReplay, Subprocesses, Threads
  <2>1. \A x, S : S \subseteq {x} => Cardinality(S) \in {0, 1}
    <3> SUFFICES ASSUME NEW x, NEW S, S \subseteq {x} PROVE Cardinality(S) \in {0, 1}
      OBVIOUS
    <3>1. S = {} \/ S = {x}
      OBVIOUS
    <3> QED
      BY <3>1, FS_EmptySet, FS_Singleton
  <2>2. Cardinality(Subprocesses) \in {0, 1} /\ Cardinality(Threads) \in {0, 1}
    BY <2>1 DEF ControlInv, OneSource
  <2>3. Cardinality(Subprocesses) = 0 \/ Cardinality(Threads) = 0
    BY FS_EmptySet DEF ControlInv, OneSource
  <2> QED
    BY <2>2, <2>3
<1> QED
  BY <1>1, ControlInvariant, PTL

(* dataset_replay.py 107-125: once they have settled, the queue holds only *)
(* records of the replay that runs.                                        *)
THEOREM QueueStaysCurrent == ASSUME ~Overlap PROVE LaunchSpec => []QueueIsCurrent
<1>1. ControlInv => QueueIsCurrent
  <2> SUFFICES ASSUME ControlInv, AllSettled
               PROVE  \A i \in 1..Len(queue) : queue[i] \in {current} \cup outlived
    BY DEF QueueIsCurrent
  <2>1. \A c \in Callers : call[c] # "drain"
    BY DEF ControlInv, OneAtATime, AllSettled, SettledReq, Outside
  <2> QED
    BY <2>1 DEF ControlInv, QueueInv
<1> QED
  BY <1>1, ControlInvariant, PTL

(* server.py 367-403, 467: a stop or a change of mode that nothing         *)
(* overlaps ends every replay that killing and joining can end.            *)
THEOREM StopEndsReplays == ASSUME ~Overlap PROVE LaunchSpec => []StopTerminatesReplay
<1>1. ControlInv => StopTerminatesReplay
  <2> SUFFICES ASSUME ControlInv, AllSettled, last # NoProc, asked[last].op # "trigger"
               PROVE  Threads = {} /\ Subprocesses = {}
    BY DEF StopTerminatesReplay, Threads, Subprocesses
  <2>1. last \in Callers
    BY DEF ControlInv, ControlTypes
  <2>2. req[last] = "done"
    BY <2>1 DEF ControlInv, OneAtATime, AllSettled, SettledReq
  <2> QED
    BY <2>1, <2>2 DEF ControlInv, InsideLast, Inside
<1> QED
  BY <1>1, ControlInvariant, PTL

=============================================================================
