----------------------------- MODULE Detectors -----------------------------
(***************************************************************************)
(* The threat detectors of models/ as functions of a feature vector and of *)
(* what their model answers, the fast path that the replay pipeline takes  *)
(* instead of them when an ONNX model is there, and the normalizer.        *)
(* Scores are in percent; ratios and entropies in tenths, the coefficient  *)
(* of variation and the SYN-only ratio in percent, as the thresholds need. *)
(* A model answers a probability (kind "prob") or a label, -1 for an       *)
(* outlier (kind "label"); kind "none" is no model.                        *)
(***************************************************************************)
EXTENDS Integers, Sequences, FiniteSets

Verdict(score, expl) == [score |-> score, expl |-> expl]
Nothing == Verdict(0, "")

NoModel == [kind |-> "none", value |-> 0]
IsOutlier(m) == m.kind = "label" /\ m.value = -1
Flagged(m) == m.kind = "prob" /\ m.value > 50

-----------------------------------------------------------------------------
(* A probability, explained when it is above one half.                     *)
Probable(m) == Verdict(m.value, IF Flagged(m) THEN "model" ELSE "")

(* DDoSDetector.predict: gate, three rules in order, then the model.       *)
DDoSGate(f) == f.pkt < 20 /\ f.syn < 20 /\ f.amp < 50 /\ f.ent < 30

DDoSModel(m) ==
    CASE m.kind = "prob"  -> Probable(m)
      [] m.kind = "label" -> IF IsOutlier(m) THEN Verdict(80, "model") ELSE Nothing
      [] m.kind = "none"  -> Nothing

DDoS(f, m) ==
    IF DDoSGate(f) THEN Nothing
    ELSE IF f.syn > 100 THEN Verdict(95, "syn flood")
    ELSE IF f.amp > 100 THEN Verdict(98, "amplification")
    ELSE IF f.ent > 30 /\ (f.pkt > 50 \/ f.byte > 1000) THEN Verdict(92, "spoofed")
    ELSE DDoSModel(m)

(* DDoSDetector.predict_batch: the rules over the whole batch first, those *)
(* left over are put to the model at once, and its answers, which come     *)
(* back in the order they were queued in, are put in their places.  model  *)
(* is what it answers to each vector; absent, left over vectors score      *)
(* nothing.                                                                *)
Triaged(f) == DDoSGate(f) \/ f.syn > 100 \/ f.amp > 100
              \/ (f.ent > 30 /\ (f.pkt > 50 \/ f.byte > 1000))

BugQueued(fs) == {i \in 1..Len(fs) : ~Triaged(fs[i]) \/ DDoSGate(fs[i])}   \* no gate
Queued(fs) == {i \in 1..Len(fs) : ~Triaged(fs[i])}

DDoSBatch(fs, model) ==
    LET queue  == Queued(fs)
        Row(i) == Cardinality({j \in queue : j <= i})
        indices == [k \in 1..Cardinality(queue) |-> CHOOSE i \in queue : Row(i) = k]
        answers == [k \in 1..Cardinality(queue) |-> model[fs[indices[k]]]]
    IN [i \in 1..Len(fs) |-> IF i \in queue THEN DDoSModel(answers[Row(i)])
                             ELSE DDoS(fs[i], NoModel)]

(* BeaconingDetector.predict *)
Beaconing(f, m) ==
    IF f.iat = 0 THEN Nothing
    ELSE IF f.cv < 10 THEN Verdict(90, "periodic")
    ELSE IF IsOutlier(m) /\ f.cv < 50 THEN Verdict(85, "model") ELSE Nothing

(* DGAClassifier.predict: the pre-filter's verdict stands unless the       *)
(* model's is flagged, and then the higher score counts.                   *)
DGA(f, m) ==
    LET pre == f.ent > 35 /\ f.len > 15
        base == IF pre THEN 70 ELSE 0
    IN IF f.len = 0 THEN Nothing
       ELSE IF Flagged(m) THEN Verdict(IF m.value > base THEN m.value ELSE base, "model")
       ELSE IF pre THEN Verdict(70, "prefilter") ELSE Nothing

(* EncryptedTrafficClassifier.predict *)
Encrypted(f, m) ==
    IF f.seen /\ Flagged(m) THEN Verdict(m.value, "model") ELSE Nothing

(* ReconScanDetector.predict *)
Recon(f, m) ==
    IF f.act = 0 THEN Nothing
    ELSE IF f.syn > 90 /\ f.act > 50 THEN Verdict(90, "scan")
    ELSE IF IsOutlier(m) THEN Verdict(75, "model") ELSE Nothing

(* ExfiltrationDetector.predict *)
Exfil(f, m) ==
    IF f.out = 0 /\ f.in = 0 THEN Nothing
    ELSE IF f.ratio > 100 /\ f.out > 5000 THEN Verdict(85, "exfil")
    ELSE IF IsOutlier(m) THEN Verdict(75, "model") ELSE Nothing

(* DNSExfiltrationDetector, which the pipeline creates without a model.    *)
DNSExfil(f, m) ==
    IF f.ent > 45 /\ f.len > 40 /\ f.rate > 5 THEN Verdict(85, "tunnel") ELSE Nothing

Predict(d, f, m) ==
    CASE d = "ddos" -> DDoS(f, m)
      [] d = "beaconing" -> Beaconing(f, m)
      [] d = "dga" -> DGA(f, m)
      [] d = "encrypted" -> Encrypted(f, m)
      [] d = "recon" -> Recon(f, m)
      [] d = "exfil" -> Exfil(f, m)
      [] d = "dns_exfil" -> DNSExfil(f, m)

-----------------------------------------------------------------------------
(* What the predict methods of the ONNX engine return when the session is  *)
(* not there: probability 0, or the label of an inlier.                    *)
Absent(d) == IF d \in {"ddos", "dga", "encrypted"} THEN [kind |-> "prob", value |-> 0]
             ELSE [kind |-> "label", value |-> 1]

(* The rules of inference_worker, written anew in the worker: no gate and  *)
(* no spoofed-source rule for ddos, no pre-filter for dga.                 *)
FastDDoS(f, m) ==
    IF f.syn > 100 THEN Verdict(95, "syn flood")
    ELSE IF f.amp > 100 THEN Verdict(98, "amplification")
    ELSE Probable(m)

FastBeaconing(f, m) ==
    IF f.iat > 0 /\ f.cv < 10 THEN Verdict(90, "periodic")
    ELSE IF f.iat > 0 /\ IsOutlier(m) /\ f.cv < 50 THEN Verdict(85, "model")
    ELSE Nothing

FastDGA(f, m) == IF f.len > 0 THEN Probable(m) ELSE Nothing

FastEncrypted(f, m) == IF f.seen THEN Probable(m) ELSE Nothing

BugFastRecon(f, m) ==     \* the label alone, as if any activity were a scan
    IF IsOutlier(m) THEN Verdict(75, "model") ELSE Nothing

FastRecon(f, m) ==
    IF f.act > 0
    THEN IF f.syn > 90 /\ f.act > 50 THEN Verdict(90, "scan")
         ELSE IF IsOutlier(m) THEN Verdict(75, "model") ELSE Nothing
    ELSE Nothing

FastExfil(f, m) ==
    IF f.out > 0 \/ f.in > 0
    THEN IF f.ratio > 100 /\ f.out > 5000 THEN Verdict(85, "exfil")
         ELSE IF IsOutlier(m) THEN Verdict(75, "model") ELSE Nothing
    ELSE Nothing

FastPredict(d, f, m) ==
    CASE d = "ddos" -> FastDDoS(f, m)
      [] d = "dga" -> FastDGA(f, m)
      [] d = "recon" -> FastRecon(f, m)
      [] d = "encrypted" -> FastEncrypted(f, m)
      [] d = "beaconing" -> FastBeaconing(f, m)
      [] d = "exfil" -> FastExfil(f, m)

(* Whether the fast path gets as far as asking the model.                  *)
FastAsks(d, f) ==
    CASE d = "ddos" -> f.syn <= 100 /\ f.amp <= 100
      [] d = "beaconing" -> f.iat > 0 /\ f.cv >= 10
      [] d = "dga" -> f.len > 0
      [] d = "encrypted" -> f.seen
      [] d = "recon" -> f.act > 0 /\ ~(f.syn > 90 /\ f.act > 50)
      [] d = "exfil" -> (f.out > 0 \/ f.in > 0) /\ ~(f.ratio > 100 /\ f.out > 5000)

(* dns_exfil, which has no ONNX model, is decided in the worker itself.    *)
WorkerDNSExfil(f) ==
    IF f.ent > 45 /\ f.len > 40 /\ f.rate > 5 THEN Verdict(85, "tunnel") ELSE Nothing

(* The worker raises an alert when there is an explanation and a score     *)
(* above one half.                                                         *)
Raises(v) == v.expl # "" /\ v.score > 50

(* AlertNormalizer: the calibrator's answer, or the raw score when there   *)
(* is none or it raises, kept within 0 and 1; and the severity of that.    *)
Clamped(c) == IF c < 0 THEN 0 ELSE IF c > 100 THEN 100 ELSE c

GetSeverity(c) == IF c >= 90 THEN "CRITICAL" ELSE IF c >= 75 THEN "HIGH"
                  ELSE IF c >= 50 THEN "MEDIUM" ELSE "LOW"

=============================================================================
