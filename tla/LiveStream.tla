----------------------------- MODULE LiveStream -----------------------------
(***************************************************************************)
(* GET /api/stream of dashboard/api/server.py in simulated mode: every     *)
(* dashboard has an event_generator of its own, which polls the store for  *)
(* the alerts from last_ts on, pushes at most a batch of them and moves    *)
(* last_ts along.  The alerts come from the replay subprocess, which       *)
(* clears the table when it starts and stamps alerts with a simulated      *)
(* clock that starts at the wall clock and may run ahead of it.            *)
(***************************************************************************)
EXTENDS Integers, FiniteSets

CONSTANTS Clients,    \* dashboards
          Alerts,     \* alerts, identified by alert_id
          Ts,         \* the timestamp of each alert
          Batch,      \* alerts pushed per turn (50)
          MaxIds,     \* size at which sent_alert_ids is pruned (10000)
          KeepIds,    \* ids that survive the pruning (5000)
          MaxTime,    \* bound on the wall clock: the run is within one hour
          MaxReplays  \* bound on the replays started

ASSUME StreamAssumption ==
    /\ Ts \in [Alerts -> Nat]
    /\ Batch \in Nat \ {0} /\ MaxTime \in Nat /\ MaxReplays \in Nat
    /\ MaxIds \in Nat /\ KeepIds \in 0..MaxIds
    \* Fewer alerts share a timestamp than the server remembers.
    /\ \A a \in Alerts : Cardinality({b \in Alerts : Ts[b] = Ts[a]}) <= MaxIds

VARIABLES
    now,      \* time.time()
    replay,   \* the subprocess: "off", "starting" (table not cleared), "on"
    replays,  \* replays started so far
    simClock, \* its simulated clock
    rows,     \* the alerts committed to the table
    used,     \* alerts ever produced
    open,     \* dashboards with a stream
    lastTs,   \* last_ts of each stream
    sent,     \* sent_alert_ids of each stream
    \* History:
    pushed,   \* every alert pushed on the stream since it was opened
    floor,    \* last_ts when the stream was opened or last found no replay
    stale     \* streams whose last_ts is ahead of the clock a new replay starts at

replayVars == <<replay, replays, simClock, rows, used>>
streamVars == <<open, lastTs, sent, pushed, floor>>
vars == <<now, replayVars, streamVars, stale>>

Init ==
    /\ now = 0 /\ replay = "off" /\ replays = 0 /\ simClock = 0
    /\ rows = {} /\ used = {}
    /\ open = {} /\ stale = {}
    /\ lastTs = [c \in Clients |-> 0] /\ floor = [c \in Clients |-> 0]
    /\ sent = [c \in Clients |-> {}] /\ pushed = [c \in Clients |-> {}]

-----------------------------------------------------------------------------
(* The replay subprocess: Popen, the table cleared by its writer while the *)
(* simulated clock is set, alerts committed in the order of that clock,    *)
(* and its end.                                                            *)
StartReplay ==
    /\ replay = "off" /\ replays < MaxReplays
    /\ replay' = "starting" /\ replays' = replays + 1
    /\ UNCHANGED <<now, simClock, rows, used, streamVars, stale>>

ClearTable ==
    /\ replay = "starting"
    /\ replay' = "on" /\ rows' = {}
    /\ simClock' = now
    /\ stale' = {c \in open : lastTs[c] > now}
    /\ UNCHANGED <<now, replays, used, streamVars>>

Commit(a) ==
    /\ replay = "on" /\ a \notin used /\ Ts[a] >= simClock
    /\ rows' = rows \cup {a} /\ used' = used \cup {a}
    /\ simClock' = Ts[a]
    /\ UNCHANGED <<now, replay, replays, streamVars, stale>>

EndReplay ==
    /\ replay # "off"
    /\ replay' = "off"
    /\ UNCHANGED <<now, replays, simClock, rows, used, streamVars, stale>>

Tick ==
    /\ now < MaxTime /\ now' = now + 1
    /\ UNCHANGED <<replayVars, streamVars, stale>>

-----------------------------------------------------------------------------
(* A dashboard connects: the stream begins an hour back, which is before   *)
(* everything here.  It disconnects when the page goes or the link breaks; *)
(* the client then opens a new stream.                                     *)
Connect(c) ==
    /\ c \notin open /\ open' = open \cup {c}
    /\ lastTs' = [lastTs EXCEPT ![c] = 0] /\ floor' = [floor EXCEPT ![c] = 0]
    /\ sent' = [sent EXCEPT ![c] = {}] /\ pushed' = [pushed EXCEPT ![c] = {}]
    /\ stale' = stale \ {c}
    /\ UNCHANGED <<now, replayVars>>

Disconnect(c) ==
    /\ c \in open /\ open' = open \ {c}
    /\ UNCHANGED <<now, replayVars, lastTs, sent, pushed, floor, stale>>

BugUnsent(c) == {a \in rows : Ts[a] > lastTs[c]} \ sent[c]     \* ties missed
Unsent(c) == {a \in rows : Ts[a] >= lastTs[c]} \ sent[c]

(* The alerts one turn pushes: read_alerts orders by timestamp, ascending, *)
(* and leaves the order of equal timestamps open.                          *)
BugTurnBatch(c) ==                             \* the newest first
    {b \in SUBSET Unsent(c) :
        /\ Cardinality(b) = Batch \/ (b = Unsent(c) /\ Cardinality(b) < Batch)
        /\ \A a \in b, x \in Unsent(c) \ b : Ts[a] >= Ts[x]}

TurnBatch(c) ==
    {b \in SUBSET Unsent(c) :
        /\ Cardinality(b) = Batch \/ (b = Unsent(c) /\ Cardinality(b) < Batch)
        /\ \A a \in b, x \in Unsent(c) \ b : Ts[a] <= Ts[x]}

Latest(times) == CHOOSE t \in times : \A u \in times : u <= t

(* set(list(sent_alert_ids)[-5000:]): any KeepIds of them.                 *)
Pruned(ids) == IF Cardinality(ids) > MaxIds
               THEN {k \in SUBSET ids : Cardinality(k) = KeepIds} ELSE {ids}

(* A turn of the generator while a replay runs ...                         *)
Push(c) ==
    /\ c \in open /\ replay # "off"
    /\ \E b \in TurnBatch(c) :
        /\ b # {}
        /\ pushed' = [pushed EXCEPT ![c] = @ \cup b]
        /\ lastTs' = [lastTs EXCEPT ![c] = Latest({Ts[a] : a \in b} \cup {lastTs[c]})]
        /\ \E ids \in Pruned(sent[c] \cup b) : sent' = [sent EXCEPT ![c] = ids]
    /\ UNCHANGED <<now, replayVars, open, floor, stale>>

(* ... and while none runs: whatever was not pushed by then never is.      *)
Idle(c) ==
    /\ c \in open /\ replay = "off" /\ lastTs[c] # now
    /\ lastTs' = [lastTs EXCEPT ![c] = now]
    /\ floor' = [floor EXCEPT ![c] = now]
    /\ UNCHANGED <<now, replayVars, open, sent, pushed, stale>>

LiveNext(clients) ==
    \/ StartReplay \/ ClearTable \/ EndReplay \/ Tick
    \/ \E a \in Alerts : Commit(a)
    \/ \E c \in clients : Connect(c) \/ Disconnect(c) \/ Push(c) \/ Idle(c)

Spec == Init /\ [][LiveNext(Clients)]_vars

-----------------------------------------------------------------------------
Reached(c) ==
    \A a \in rows : Ts[a] >= floor[c] => a \in pushed[c] \/ Ts[a] >= lastTs[c]

(* server.py 317-332: moving last_ts past the timestamp of a pushed batch  *)
(* skips no alert that is already in the table or still to come from this  *)
(* replay, although a turn ends after 50 and many may share a timestamp.   *)
(* Only streams that were ahead of the clock of a new replay are left out. *)
NothingSkipped == \A c \in open \ stale : Reached(c)

(* server.py 320-332: every alert of the table a stream has yet to reach   *)
(* is pushed if the replay runs on and the dashboard stays, also when the  *)
(* set of sent ids is pruned meanwhile.                                    *)
PushedEventually ==
    \A c \in Clients, a \in Alerts :
        (c \in open /\ a \in rows /\ Ts[a] >= lastTs[c])
            ~> (a \in pushed[c] \/ a \notin rows \/ c \notin open \/ replay = "off")

(* server.py 265 says the stream "Pushes live telemetry and real-time      *)
(* alert events directly to the dashboard": no stream skips an alert.      *)
EveryStreamReached == \A c \in open : Reached(c)

=============================================================================
