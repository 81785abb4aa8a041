------------------------------ MODULE Threads ------------------------------
(***************************************************************************)
(* The processes whose threads hand their work on in bounded queues and    *)
(* have to end: the ingest loop with its reader, and the replay subprocess *)
(* with its worker and its writer.  They never run in one process, so a    *)
(* behaviour exercises one of them.                                        *)
(***************************************************************************)
EXTENDS PcapIngest, E2EPipeline

VARIABLE process

threadsVars == <<ingestVars, e2eVars, process>>

ThreadsInit ==
    /\ IngestInit /\ E2EInit /\ process \in {"ingest", "replay"}
    /\ process = "replay" => reader = "pcap"

Ingesting(A) == process = "ingest" /\ A /\ UNCHANGED <<e2eVars, process>>
Replaying(A) == process = "replay" /\ A /\ UNCHANGED <<ingestVars, process>>

ThreadsNext == Ingesting(IngestNext) \/ Replaying(E2ENext)

(* The fairness of IngestSpec and of E2ESpec.                              *)
ThreadsSpec ==
    /\ ThreadsInit /\ [][ThreadsNext]_threadsVars
    /\ WF_threadsVars(Ingesting(WithPcap(Producer /\ UNCHANGED flowVars)))
    /\ WF_threadsVars(Ingesting(WithPcap(Ingest)))
    /\ WF_threadsVars(Ingesting(WithPcap(Stop("eof") /\ UNCHANGED flowVars)))
    /\ WF_threadsVars(Ingesting(WithPcap(Joined /\ UNCHANGED flowVars)))
    /\ WF_threadsVars(Ingesting(WithZeek(ZeekThread)))
    /\ WF_threadsVars(Ingesting(WithZeek(ZeekJoined)))
    /\ WF_threadsVars(Replaying(MainStep))
    /\ WF_threadsVars(Replaying(WorkerStep))
    /\ WF_threadsVars(Replaying(DbStep))

=============================================================================
