--------------------------- MODULE AlertPipeline ---------------------------
(***************************************************************************)
(* The inference worker of the replay pipeline: a detector's features are  *)
(* scored, on the fast path when an ONNX file is there and by a detector   *)
(* with its pickled model otherwise, an alarm is normalized and handed to  *)
(* the correlator.  Models are loaded when first used, and loading may     *)
(* fail.  The correlator treats every alert alike, whatever its score, so  *)
(* a behaviour exercises the scoring or the correlation.                   *)
(***************************************************************************)
EXTENDS Correlator, Detectors

CONSTANTS Points,       \* the feature vectors of each detector
          Answers,      \* what the model of each detector may answer
          Calibrated,   \* what a calibrator may answer
          BatchPoints,  \* the vectors given to the ddos detector in batches
          MaxBatch      \* bound on the vectors of a batch

Dets == DOMAIN Points
FileStates == {"missing", "broken", "ok"}

(* Counts and ratios are not negative; a classifier answers a probability, *)
(* an isolation forest a label.                                            *)
ASSUME PipelineAssumption ==
    /\ MaxBatch \in Nat /\ Calibrated \subseteq Int
    /\ Dets = {"ddos", "beaconing", "dga", "encrypted", "recon", "exfil", "dns_exfil"}
    /\ Points["ddos"] \subseteq [syn : Nat, pkt : Nat, amp : Nat, ent : Nat, byte : Nat]
    /\ Points["dga"] \subseteq [len : Nat, ent : Nat]
    /\ Points["recon"] \subseteq [syn : Nat, act : Nat]
    /\ Points["beaconing"] \subseteq [iat : Nat, cv : Nat]
    /\ Points["exfil"] \subseteq [ratio : Nat, out : Nat, in : Nat]
    /\ \A d \in Dets :
          Answers[d] \subseteq IF d \in {"ddos", "dga", "encrypted"}
                              THEN [kind : {"prob"}, value : 0..100]
                              ELSE [kind : {"label"}, value : {-1, 1}]
    /\ BatchPoints \subseteq Points["ddos"]

VARIABLES
    stage,     \* "score" or "correlate"
    det,       \* the detector whose tasks are scored
    onnx,      \* its ONNX file
    session,   \* whether _loaded_sessions has it
    pickled,   \* its pickled model file
    fallback,  \* fallback_detectors: "no", "rules" (no model), "full"
    task,      \* the last task: features and what the model says of them
    verdict,   \* how it was decided: the path, score, explanation and alert
    batch      \* the last batch given to predict_batch, and its results

scoreVars == <<stage, det, onnx, session, pickled, fallback, task, verdict, batch>>
pipeVars == <<corrVars, scoreVars>>

NoTask == [feats |-> <<>>, says |-> NoModel]
NoVerdict == [path |-> "none", score |-> 0, expl |-> "", severity |-> "none"]
NoBatch == [feats |-> <<>>, says |-> <<>>, results |-> <<>>]

PipeInit ==
    /\ CorrInit
    /\ stage \in {"score", "correlate"}
    /\ det \in IF stage = "score" THEN Dets ELSE {"ddos"}
    /\ onnx \in IF stage = "score" /\ det # "dns_exfil" THEN FileStates ELSE {"missing"}
    /\ pickled \in IF stage = "score" /\ det # "dns_exfil" THEN FileStates ELSE {"missing"}
    /\ session = FALSE /\ fallback = "no"
    /\ task = NoTask /\ verdict = NoVerdict /\ batch = NoBatch

-----------------------------------------------------------------------------
(* A model file is written, replaced or damaged while the worker runs.     *)
FileChanges ==
    /\ stage = "score" /\ det # "dns_exfil" /\ task = NoTask /\ batch = NoBatch
    /\ \/ onnx' \in FileStates /\ UNCHANGED pickled
       \/ pickled' \in FileStates /\ UNCHANGED onnx
    /\ UNCHANGED <<corrVars, stage, det, session, fallback, task, verdict, batch>>

(* get_session: loaded once, when first asked; a load that fails is tried  *)
(* again next time.                                                        *)
SessionAfter == session \/ onnx = "ok"

(* get_fallback_detector: a file that is not there leaves the rules, one   *)
(* that cannot be loaded no detector at all, until it can.                 *)
FallbackAfter ==
    IF fallback # "no" THEN fallback
    ELSE CASE pickled = "ok" -> "full" [] pickled = "missing" -> "rules"
           [] pickled = "broken" -> "no"

(* normalize, with or without a calibrator for the detector.               *)
Severities(score) == {GetSeverity(Clamped(c)) : c \in Calibrated \cup {score}}

Decided(path, v) ==
    \E s \in IF Raises(v) THEN Severities(v.score) ELSE {"none"} :
        verdict' = [path |-> path, score |-> v.score, expl |-> v.expl, severity |-> s]

(* `det_name in onnx_engine.sessions` asks only whether the file exists.   *)
FastPath == onnx # "missing"

ScoreFast(f, m) ==
    /\ FastPath
    /\ session' = IF FastAsks(det, f) THEN SessionAfter ELSE session
    /\ UNCHANGED fallback
    /\ Decided("fast", FastPredict(det, f, IF SessionAfter THEN m ELSE Absent(det)))

ScoreFallback(f, m) ==
    /\ ~FastPath
    /\ UNCHANGED session
    /\ IF det = "dns_exfil"
       THEN Decided("rules", WorkerDNSExfil(f)) /\ UNCHANGED fallback
       ELSE /\ fallback' = FallbackAfter
            /\ IF FallbackAfter = "no"
               THEN verdict' = [NoVerdict EXCEPT !.path = "skipped"]
               ELSE Decided(FallbackAfter,
                            Predict(det, f, IF FallbackAfter = "full" THEN m ELSE NoModel))

Score ==
    /\ stage = "score" /\ task = NoTask /\ batch = NoBatch
    /\ \E f \in Points[det], m \in Answers[det] :
        /\ task' = [feats |-> f, says |-> m]
        /\ ScoreFast(f, m) \/ ScoreFallback(f, m)
    /\ UNCHANGED <<corrVars, stage, det, onnx, pickled, batch>>

(* predict_batch of the ddos detector, with a model, whose answer depends  *)
(* on two features only, or without one.                                   *)
Consistent(fs, says) ==
    /\ \A i, j \in DOMAIN fs :
          fs[i].syn = fs[j].syn /\ fs[i].pkt = fs[j].pkt => says[i] = says[j]
    /\ \A i, j \in DOMAIN fs : says[i] = NoModel => says[j] = NoModel

ScoreBatch ==
    /\ stage = "score" /\ det = "ddos" /\ task = NoTask /\ batch = NoBatch
    /\ onnx = "missing" /\ pickled = "missing"
    /\ \E n \in 1..MaxBatch :
        \E fs \in [1..n -> BatchPoints], says \in [1..n -> Answers["ddos"] \cup {NoModel}] :
            LET model == [f \in {fs[i] : i \in 1..n} |-> says[CHOOSE i \in 1..n : fs[i] = f]] IN
            /\ Consistent(fs, says)
            /\ batch' = [feats |-> fs, says |-> says, results |-> DDoSBatch(fs, model)]
    /\ UNCHANGED <<corrVars, stage, det, onnx, session, pickled, fallback, task, verdict>>

(* The loop goes on to the next task.                                      *)
NextTask ==
    /\ task # NoTask \/ batch # NoBatch
    /\ task' = NoTask /\ verdict' = NoVerdict /\ batch' = NoBatch
    /\ UNCHANGED <<corrVars, stage, det, onnx, session, pickled, fallback>>

Correlate ==
    /\ stage = "correlate" /\ Len(log) < MaxAlerts
    /\ \E ts \in AlertTimes, src, dst \in IPs \cup {NoIP} : Process(ts, src, dst)
    /\ UNCHANGED scoreVars

PipeNext == FileChanges \/ Score \/ ScoreBatch \/ NextTask \/ Correlate

PipeSpec == PipeInit /\ [][PipeNext]_pipeVars

-----------------------------------------------------------------------------
(* What the detector itself says when its model works.                     *)
DetectorSays == Predict(det, task.feats, task.says)

(* test_phase5_e2e.py 195-282, models/: every rule is written twice, once  *)
(* in its detector and once in the worker.  With the same answer of the    *)
(* model both raise an alarm on the same vectors: one is lost only to the  *)
(* two rules the worker does not have, or when it was the model's and the  *)
(* model is not there or cannot be loaded, and only ddos vectors below the *)
(* gate raise one the detector would not.                                  *)
PathsAgree ==
    (task # NoTask /\ Raises(DetectorSays) # (verdict.severity # "none")) =>
        \/ verdict.path = "skipped"
        \/ verdict.path = "rules" /\ DetectorSays.expl = "model"
        \/ verdict.path = "fast" /\ ~session /\ DetectorSays.expl = "model"
        \/ verdict.path = "fast" /\ det = "ddos" /\ DetectorSays.expl = "spoofed"
        \/ verdict.path = "fast" /\ det = "dga" /\ DetectorSays.expl = "prefilter"
        \/ verdict.path = "fast" /\ det = "ddos" /\ DDoSGate(task.feats)

(* test_phase5_e2e.py 149: the worker "runs vectorized ONNX inference when *)
(* available, else falls back to PKL".  When no session could be made of   *)
(* the ONNX file and the pickled model is there, the detector decides.     *)
FallsBack ==
    task # NoTask /\ onnx = "broken" /\ ~session /\ pickled = "ok" =>
        (Raises(DetectorSays) <=> verdict.severity # "none")

(* base_detector.py 25-33, ddos_detector.py 74-136: the ddos detector's    *)
(* own predict_batch gives every vector what predict gives it, in order.   *)
BatchAgreesWithSingle ==
    \A i \in 1..Len(batch.feats) : batch.results[i] = DDoS(batch.feats[i], batch.says[i])

=============================================================================
