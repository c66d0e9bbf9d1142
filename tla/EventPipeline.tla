---------------------------- MODULE EventPipeline ----------------------------
(***************************************************************************)
(* From the outbox to the audit log: the relay of account-service,         *)
(* OutboxRelay, appends to the Kafka log that the consumer group of        *)
(* audit-service, AuditWorker, reads.  The log is all they share.  The     *)
(* pipeline implements EventTrail.                                         *)
(***************************************************************************)
EXTENDS OutboxRelay, AuditWorker

ASSUME PipelineAssumption == Events = Ids \cup Poison

pipelineVars == <<log, relayVars, workerVars>>

-----------------------------------------------------------------------------

PipelineInit == Init /\ WorkerInit

RelayStep == Next /\ UNCHANGED workerVars
AuditStep == WorkerNext /\ UNCHANGED relayVars
Garbage   == /\ \E p \in Partitions, e \in Poison : Produce(p, e)
             /\ UNCHANGED <<relayVars, workerVars>>

PipelineNext == RelayStep \/ AuditStep \/ Garbage

\* The relay ticks again and again; the broker assigns free partitions, kafkajs
\* fetches what is there and retries with backoff, and a handler goes on.
PipelineFairness ==
  /\ \A r \in Replicas : WF_pipelineVars(Tick(r) /\ UNCHANGED workerVars)
  /\ \A p \in Partitions :
       WF_pipelineVars(\E w \in Workers : Assign(w, p) /\ UNCHANGED relayVars)
  /\ \A w \in Workers, p \in Partitions : SF_pipelineVars(Fetch(w, p) /\ UNCHANGED relayVars)
  /\ \A w \in Workers : WF_pipelineVars(Handle(w) /\ UNCHANGED relayVars)

PipelineSpec == PipelineInit /\ [][PipelineNext]_pipelineVars /\ PipelineFairness

-----------------------------------------------------------------------------
(* Properties.                                                             *)

\* The group catches up with its partitions, whatever failed: no message is
\* left behind, poison included.
EveryMessagePassed == \A p \in Partitions : []<>(committed[p] > Len(log[p]))

\* The pipeline seen as the abstract trail.
Written   == {i \in DOMAIN outbox : outbox[i].status # "OPEN"}
Abandoned == {i \in DOMAIN outbox : outbox[i].status = "FAILED"}
Recorded  == [i \in Ids |-> [a \in Accounts |-> audit[<<i, a>>]]]

Trail == INSTANCE EventTrail
  WITH AccountsOf <- Affected,
       written <- Written, abandoned <- Abandoned, trail <- Recorded

\* Relay, Kafka and consumer together record every event exactly once, all its
\* rows together and no others, through faults, rollbacks, crashes, redelivery
\* and garbage; only an event the relay gave up on may be missing.
ImplementsTrail == Trail!Spec

=============================================================================
