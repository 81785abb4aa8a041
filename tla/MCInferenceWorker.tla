------------------------- MODULE MCInferenceWorker -------------------------
(* A small instance of the worker: two anomalies of one model in the first *)
(* batch, one of them malformed, and one of another model in the batch     *)
(* that never fills; a third model, dga, is loaded and given nothing.      *)
EXTENDS InferenceWorker

MCAlerts == {<<1, "ddos">>, <<2, "ddos">>, <<4, "recon">>}
MCMalformed == {<<1, "ddos">>}
MCModels == <<"ddos", "dga", "recon">>
=============================================================================
