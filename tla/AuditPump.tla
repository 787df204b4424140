------------------------------ MODULE AuditPump ------------------------------
(***************************************************************************)
(* Forwarding of audit events to an external sink (internal/server/audit/  *)
(* pump.go, storage/audit_forward.go).  Every replica runs one pump per    *)
(* forwarder; a tick on the leader reads the persisted watermark, lists    *)
(* the rows above it, sends them and, when the sink acknowledged, stores   *)
(* the last seq as the new watermark.  Each of these is a separate step:   *)
(* leadership can change hands, and the process can die, between them.     *)
(***************************************************************************)
EXTENDS AuditLog, FiniteSetsExt

CONSTANT BatchSize  \* rows per tick

ASSUME PumpAssumption == BatchSize \in Nat \ {0}

VARIABLES
    watermark,  \* audit_forward_state.last_seq
    tick,       \* tick[r]: the step the pump of r is at
    since,      \* since[r]: the watermark it read
    batch,      \* batch[r]: the seqs it listed
    delivered   \* the seqs the sink has received at least once

pumpVars == <<watermark, tick, since, batch, delivered>>
allVars == <<vars, pumpVars>>

PumpTypeOK ==
    /\ watermark \in 0..MaxSeq
    /\ tick \in [Replica -> {"idle", "read", "listed", "acked"}]
    /\ since \in [Replica -> 0..MaxSeq]
    /\ batch \in [Replica -> SUBSET (1..MaxSeq)]
    /\ delivered \subseteq DOMAIN rows

PumpInit ==
    /\ Init
    /\ watermark = 0
    /\ tick = [r \in Replica |-> "idle"]
    /\ since = [r \in Replica |-> 0]
    /\ batch = [r \in Replica |-> {}]
    /\ delivered = {}

EndTick(r) ==
    /\ tick' = [tick EXCEPT ![r] = "idle"]
    /\ since' = [since EXCEPT ![r] = 0]
    /\ batch' = [batch EXCEPT ![r] = {}]

(* A follower's tick returns at once. *)
ReadWatermark(r) ==
    /\ tick[r] = "idle" /\ up[r] /\ IsLeader(r)
    /\ since' = [since EXCEPT ![r] = watermark]
    /\ tick' = [tick EXCEPT ![r] = "read"]
    /\ UNCHANGED <<watermark, batch, delivered>>

(* ListAudit: committed rows above since, oldest first, up to the limit. *)
Listed(from) ==
    LET above == {s \in DOMAIN rows : s > from}
    IN  {s \in above : Cardinality({t \in above : t <= s}) <= BatchSize}

ListBatch(r) ==
    /\ tick[r] = "read"
    /\ IF Listed(since[r]) = {}
       THEN EndTick(r)
       ELSE /\ batch' = [batch EXCEPT ![r] = Listed(since[r])]
            /\ tick' = [tick EXCEPT ![r] = "listed"]
            /\ UNCHANGED since
    /\ UNCHANGED <<watermark, delivered>>

(* The sink took the batch and answered 2xx. *)
Forward(r) ==
    /\ tick[r] = "listed"
    /\ delivered' = delivered \cup batch[r]
    /\ tick' = [tick EXCEPT ![r] = "acked"]
    /\ UNCHANGED <<watermark, since, batch>>

(* Mutant: the sink's refusal is ignored. *)
ForwardFailsUnseen(r) ==
    /\ tick[r] = "listed"
    /\ tick' = [tick EXCEPT ![r] = "acked"]
    /\ UNCHANGED <<watermark, since, batch, delivered>>

(* Any other outcome ends the tick, whether or not the sink took the batch. *)
ForwardFails(r) ==
    /\ tick[r] = "listed"
    /\ delivered' \in {delivered, delivered \cup batch[r]}
    /\ EndTick(r)
    /\ UNCHANGED watermark

(* Mutant: the watermark is the next seq instead of the last. *)
SetWatermarkNext(r) ==
    /\ tick[r] = "acked"
    /\ watermark' = Max(batch[r]) + 1
    /\ EndTick(r)
    /\ UNCHANGED delivered

(* SetAuditForwardSeq overwrites whatever is stored. *)
SetWatermark(r) ==
    /\ tick[r] = "acked"
    /\ watermark' = Max(batch[r])
    /\ EndTick(r)
    /\ UNCHANGED delivered

(* The watermark could not be read, the rows listed or the watermark written. *)
TickFails(r) ==
    /\ tick[r] \in {"read", "acked"}
    /\ EndTick(r)
    /\ UNCHANGED <<watermark, delivered>>

Tick(r) == ReadWatermark(r) \/ ListBatch(r) \/ Forward(r) \/ SetWatermark(r)

PumpStep(r) == Tick(r) \/ ForwardFails(r) \/ TickFails(r)

CrashPump(r) ==
    /\ CrashReplica(r)
    /\ EndTick(r)
    /\ UNCHANGED <<watermark, delivered>>

PumpNext ==
    \/ LogStep /\ UNCHANGED pumpVars
    \/ \E r \in Replica : PumpStep(r) /\ UNCHANGED vars
    \/ \E r \in Replica : CrashPump(r)

(* The ticker keeps the pump ticking, and the sink and the database answer
   again and again even if they also keep failing; crashed processes are
   restarted and the election makes progress. *)
PumpSpec ==
    /\ PumpInit
    /\ [][PumpNext]_allVars
    /\ \A r \in Replica :
        /\ WF_allVars((ReadWatermark(r) \/ ListBatch(r)) /\ UNCHANGED vars)
        /\ SF_allVars(ListBatch(r) /\ UNCHANGED vars)
        /\ SF_allVars(Forward(r) /\ UNCHANGED vars)
        /\ SF_allVars(SetWatermark(r) /\ UNCHANGED vars)
        /\ WF_allVars(RestartReplica(r) /\ UNCHANGED pumpVars)
        /\ WF_allVars(Acquire(r) /\ UNCHANGED <<auditVars, pumpVars>>)
        /\ WF_allVars((ReleaseLost(r) \/ ClearFlag(r)) /\ UNCHANGED <<auditVars, pumpVars>>)
    /\ WF_allVars(ReapSession /\ UNCHANGED <<auditVars, pumpVars>>)

-----------------------------------------------------------------------------
(* The watermark never runs ahead of the sink: every committed row at or
   below it was delivered, also when the pumps of an old and a new leader
   interleave and one overwrites the other's watermark with a lower one. *)
WatermarkCovered ==
    ~overlap => \A s \in DOMAIN rows : s <= watermark => s \in delivered

(* At-least-once delivery: every row reaches the sink in the end. *)
EveryRowForwarded ==
    \A s \in 1..MaxSeq : (s \in DOMAIN rows /\ ~overlap) ~> (s \in delivered \/ overlap)

=============================================================================
