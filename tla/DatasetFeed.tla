---------------------------- MODULE DatasetFeed ----------------------------
(***************************************************************************)
(* What a dataset replay shows on the event streams: the records that the  *)
(* scenario filter picks, the timestamps the replay thread gives them, its *)
(* pacing, and the turns of the event_generators that drain the one queue  *)
(* all streams share (dataset_replay.py and the dataset branch of          *)
(* GET /api/stream).  Starting and stopping the thread is atomic here;     *)
(* DatasetReplay has its interleavings.                                    *)
(***************************************************************************)
EXTENDS LiveStream, Sequences

CONSTANTS Family,       \* attack_family of each record in the files, in load order
          Captures,     \* the timestamps they may be loaded with
          Scenarios,    \* weights, in percent, of the families a scenario lists
          FallbackCount,\* records synthesized when there are no files (500)
          MinWait,      \* a shorter wait between two records is left out (5 ms)
          WaitCap,      \* the longest wait between two records (0.5 s)
          MaxDsQueue,   \* max_queue
          MaxEmits,     \* bound on the records replayed
          MaxDsTime     \* bound on the clock

ASSUME FeedAssumption ==
    /\ Family \in Seq(STRING) /\ Family # <<>>
    /\ Captures \subseteq [DOMAIN Family -> Nat]
    /\ \A sc \in Scenarios : IsFiniteSet(DOMAIN sc) /\ \A f \in DOMAIN sc : sc[f] \in Nat
    /\ MinWait \in Nat /\ WaitCap \in Nat \ {0} /\ MaxDsQueue \in Nat \ {0}
    /\ FallbackCount \in Nat /\ MaxEmits \in Nat /\ MaxDsTime \in Nat

VARIABLES
    dsPhase,   \* the replay thread: "off", "loading", "on", "ended"
    family,    \* attack_family of each record it has loaded
    schedule,  \* records: what is replayed, in order; a record may repeat
    pos,       \* the next of them
    stamp,     \* rec.timestamp of each record, overwritten as it is replayed
    refTs,     \* ref_ts
    wall0,     \* wall_t0
    wakeAt,    \* when the pacing lets the thread go on
    dsQueue,   \* _alert_queue
    emits,     \* records replayed so far
    loaded     \* history: the timestamps the records were loaded with

threadVars == <<family, schedule, pos, stamp, refTs, wall0, wakeAt, loaded>>
feedVars == <<dsPhase, threadVars, dsQueue, emits>>

FeedInit ==
    /\ dsPhase = "off" /\ family = <<>> /\ schedule = <<>> /\ pos = 1 /\ stamp = <<>>
    /\ refTs = 0 /\ wall0 = 0 /\ wakeAt = 0 /\ loaded = <<>>
    /\ dsQueue = <<>> /\ emits = 0

-----------------------------------------------------------------------------
(* _filter_by_scenario: each listed family is repeated up to its share of  *)
(* the total, the others share what is left; a scenario without weights,   *)
(* and one that picks nothing, replays every record once.                  *)
Pool(f) == {r \in DOMAIN Family : Family[r] = f}
Listed(sc) == {f \in DOMAIN sc : Pool(f) # {}}
Unlisted(sc) == {Family[r] : r \in DOMAIN Family} \ DOMAIN sc

Repeated(n) == UNION {{x} \X (1..n[x]) : x \in DOMAIN n}   \* each x, n[x] times

Share(sc, f) == (Len(Family) * sc[f]) \div 100
Residual(sc) ==
    LET taken == Cardinality(Repeated([f \in Listed(sc) |-> Share(sc, f)]))
    IN IF taken > Len(Family) THEN 0 ELSE Len(Family) - taken

Target(sc, f) == IF f \in DOMAIN sc THEN Share(sc, f)
                 ELSE Residual(sc) \div Cardinality(Unlisted(sc))

Copies(sc, r) ==
    LET pool == Pool(Family[r])
        rank == Cardinality({q \in pool : q <= r})
        t    == Target(sc, Family[r])
        n    == Cardinality(pool)
    IN t \div n + (IF rank <= t % n THEN 1 ELSE 0)

PicksAny(sc) == DOMAIN sc # {} /\ \E r \in DOMAIN Family : Copies(sc, r) > 0

FilterByScenario(sc) == [r \in DOMAIN Family |-> IF PicksAny(sc) THEN Copies(sc, r) ELSE 1]

(* What is replayed, each record as often as it was picked, after          *)
(* records.sort.  That is stable: records that share a timestamp are in    *)
(* the order random.shuffle gave them, or in load order if they were not   *)
(* shuffled.                                                               *)
Schedules(ts, times, shuffled) ==
    LET total == Cardinality(Repeated(times))
    IN
    {s \in [1..total -> DOMAIN times] :
        /\ \A r \in DOMAIN times : Cardinality({i \in 1..total : s[i] = r}) = times[r]
        /\ \A i, j \in 1..total : i < j =>
              \/ ts[s[i]] < ts[s[j]]
              \/ ts[s[i]] = ts[s[j]] /\ (shuffled \/ s[i] < s[j])}

(* _synthesize_fallback_records, when there are no files: at least one     *)
(* record of each family the scenario lists, stamped from the clock on,    *)
(* the n-th of every family at about the same time.  A scenario without    *)
(* weights lists none.                                                     *)
Synthesized(sc) ==
    Repeated([f \in DOMAIN sc |-> IF FallbackCount * sc[f] < 100 THEN 1
                                  ELSE (FallbackCount * sc[f]) \div 100])

-----------------------------------------------------------------------------
StartDataset ==
    /\ dsPhase = "off" /\ replays < MaxReplays
    /\ dsPhase' = "loading" /\ replays' = replays + 1
    /\ UNCHANGED <<now, replay, simClock, rows, used, streamVars, stale>>
    /\ UNCHANGED <<threadVars, dsQueue, emits>>

(* The loop begins with records ts, fam, in one of the orders ss.  Two     *)
(* readings of the clock differ, so the one for wall_t0 is later than any  *)
(* before.                                                                 *)
Begins(ts, fam, ss) ==
    /\ dsPhase = "loading" /\ dsPhase' = "on" /\ now < MaxDsTime /\ now' = now + 1
    /\ \E s \in ss :
        /\ schedule' = s
        /\ refTs' = IF s = <<>> THEN now ELSE ts[s[1]]
    /\ family' = fam /\ stamp' = ts /\ loaded' = ts
    /\ pos' = 1 /\ wall0' = now + 1 /\ wakeAt' = now + 1
    /\ UNCHANGED <<replayVars, streamVars, stale, dsQueue, emits>>

(* _replay_thread up to its loop, with files ...                           *)
LoadRecords ==
    \E ts \in Captures, sc \in Scenarios :
        Begins(ts, Family, Schedules(ts, FilterByScenario(sc), PicksAny(sc)))

(* ... and without.                                                        *)
LoadFallback ==
    \E sc \in Scenarios :
        LET recs == Synthesized(sc)
            ts   == [r \in recs |-> now + r[2] - 1]
        IN Begins(ts, [r \in recs |-> r[1]], Schedules(ts, [r \in recs |-> 1], TRUE))

Pause(s) == IF s <= MinWait THEN 0 ELSE IF s < WaitCap THEN s ELSE WaitCap

(* One turn of the loop: remap the record's timestamp in place, enqueue it *)
(* unless the queue is full, and wait for the next one's time, if that is  *)
(* worth it, but no longer than the cap.                                   *)
EmitRecord ==
    LET r == schedule[pos]
        ts == wall0 + stamp[r] - refTs
        stamped == [stamp EXCEPT ![r] = ts]
    IN
    /\ dsPhase = "on" /\ pos <= Len(schedule) /\ now >= wakeAt
    /\ emits < MaxEmits /\ emits' = emits + 1
    /\ stamp' = stamped
    /\ dsQueue' = IF Len(dsQueue) < MaxDsQueue THEN Append(dsQueue, r) ELSE dsQueue
    /\ pos' = pos + 1
    /\ wakeAt' = IF pos < Len(schedule)
                 THEN now + Pause(wall0 + stamped[schedule[pos + 1]] - refTs - now)
                 ELSE now
    /\ UNCHANGED <<now, replayVars, streamVars, stale>>
    /\ UNCHANGED <<dsPhase, family, schedule, refTs, wall0, loaded>>

BugReference == refTs               \* ref_ts kept from the pass before
Reference == stamp[schedule[1]]

(* The dataset is replayed from its start, anchored at the clock again.    *)
NextPass ==
    /\ dsPhase = "on" /\ schedule # <<>> /\ pos > Len(schedule) /\ now < MaxDsTime
    /\ now' = now + 1 /\ wall0' = now + 1 /\ wakeAt' = now + 1
    /\ refTs' = Reference /\ pos' = 1
    /\ UNCHANGED <<replayVars, streamVars, stale>>
    /\ UNCHANGED <<dsPhase, family, schedule, stamp, dsQueue, emits, loaded>>

(* The thread ends by itself: its duration is over, or there is no record  *)
(* and records[0] raises.  What it queued stays there.                     *)
ThreadEnds ==
    /\ dsPhase = "on" /\ (schedule = <<>> \/ pos <= Len(schedule))
    /\ dsPhase' = "ended"
    /\ UNCHANGED <<now, replayVars, streamVars, stale, threadVars, dsQueue, emits>>

(* stop() empties the queue; the thread's records go with it.              *)
StopDataset ==
    /\ dsPhase # "off" /\ dsPhase' = "off"
    /\ dsQueue' = <<>>
    /\ family' = <<>> /\ schedule' = <<>> /\ pos' = 1 /\ stamp' = <<>>
    /\ refTs' = 0 /\ wall0' = 0 /\ wakeAt' = 0 /\ loaded' = <<>>
    /\ UNCHANGED <<now, replayVars, streamVars, stale, emits>>

FeedTick ==
    /\ now < MaxDsTime /\ now' = now + 1
    /\ UNCHANGED <<replayVars, streamVars, stale, feedVars>>

-----------------------------------------------------------------------------
(* A turn of a stream while the thread runs: read_alerts takes everything  *)
(* off the queue, leaves out benign records and those not after last_ts,   *)
(* by the timestamp they have by now; at most a batch of the others is     *)
(* pushed.  What is not pushed is gone, for the other streams too.  Every  *)
(* alert gets a fresh id, so sent_alert_ids never matters.                 *)
DsRunning == dsPhase \in {"loading", "on"}

Attacks == {i \in 1..Len(dsQueue) : family[dsQueue[i]] # "BENIGN"}
Readable(c) == {i \in Attacks : stamp[dsQueue[i]] > lastTs[c]}
Yielded(c) == {i \in Readable(c) : Cardinality({j \in Readable(c) : j <= i}) <= Batch}

DatasetTurn(c) ==
    /\ c \in open /\ DsRunning /\ dsQueue # <<>>
    /\ dsQueue' = <<>>
    /\ lastTs' = [lastTs EXCEPT ![c] =
                    Latest({lastTs[c]} \cup {stamp[dsQueue[i]] : i \in Yielded(c)})]
    /\ UNCHANGED <<now, replayVars, open, sent, pushed, floor, stale>>
    /\ UNCHANGED <<dsPhase, threadVars, emits>>

FeedNext ==
    \/ StartDataset \/ LoadRecords \/ LoadFallback \/ EmitRecord \/ NextPass \/ ThreadEnds
    \/ StopDataset \/ FeedTick
    \/ \E c \in Clients : \/ (Connect(c) \/ Disconnect(c)) /\ UNCHANGED feedVars
                          \/ ~DsRunning /\ Idle(c) /\ UNCHANGED feedVars
                          \/ DatasetTurn(c)

-----------------------------------------------------------------------------
(* dataset_replay.py 294-296 says "Remap timestamp to wall clock": a       *)
(* record that was replayed in this pass is stamped as far from the clock  *)
(* the pass began at as it lay from the first record of the dataset.       *)
RemapsToWallClock ==
    dsPhase = "on" =>
        \A i \in 1..(pos - 1) :
            stamp[schedule[i]] = wall0 + loaded[schedule[i]] - loaded[schedule[1]]

(* dataset_replay.py 272-322: overwriting the timestamps in place and      *)
(* taking the next reference from them does no harm from one pass to the   *)
(* next while no record repeats, whatever the ties and the gaps and        *)
(* however late the thread runs.  The default scenario and the synthetic   *)
(* records repeat none.                                                    *)
PassesKeepSpacing ==
    (\A i, j \in 1..Len(schedule) : schedule[i] = schedule[j] => i = j) => RemapsToWallClock

=============================================================================
