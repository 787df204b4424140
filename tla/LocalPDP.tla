------------------------------ MODULE LocalPDP ------------------------------
(***************************************************************************)
(* The node agent's local PDP (internal/agent/localpdp/localpdp.go): how a *)
(* decision gets from Evaluate through the in-memory queue and the spool   *)
(* file to the audit chain.  Request goroutines, the Run goroutine that    *)
(* flushes, and the control plane's handlers interleave; the agent may     *)
(* crash or be shut down at any point.  Whether a decision is allowed, and *)
(* the freshness of the bundle, do not matter here.                        *)
(***************************************************************************)
EXTENDS DecisionRecorder, Functions

CONSTANTS
    BufferSize,       \* decisions that may wait to be shipped
    Spooling,         \* --decision-spool is set
    MaxBatch,         \* maxBatchDecisions
    MaxDropStreak,    \* maxDropStreak
    MaxDropsPerHour,  \* maxDropsPerHour
    MaxFaults,        \* failed calls and writes, crashes and shutdowns in one behaviour
    MaxUnrepaired,    \* failed spool writes that could not be undone either
    Garbage           \* a spool line that does not parse

ASSUME PDPAssumption ==
    /\ BufferSize \in Nat \ {0} /\ MaxBatch \in Nat \ {0}
    /\ Spooling \in BOOLEAN
    /\ MaxDropStreak \in Nat /\ MaxDropsPerHour \in Nat
    /\ MaxFaults \in Nat /\ MaxUnrepaired \in Nat
    /\ IsFiniteSet(Decision) /\ Garbage \notin Decision /\ "free" \notin Decision
    /\ Decision \cap Nat = {}   \* loss ids are not decision ids

VARIABLES
    run,         \* the process: "up", "draining" after a signal, "down"
    listening,   \* the listener takes requests
    req,         \* req[d]: what became of the request that makes decision d
    order,       \* history: decisions in the order they were queued
    pending,     \* p.pending
    spool,       \* lines of the spool file
    torn,        \* the last line has no newline yet
    spoolOpen,   \* p.spool is open
    spoolMu,     \* the request that holds spoolMu, or "free"
    dropped,     \* p.droppedIDs
    lossID,      \* p.lossID, 0 when empty
    nextLoss,    \* source of fresh loss ids
    dropStreak,  \* p.dropStreak
    drops,       \* how many of p.dropTimes lie in the last hour
    batchCap,    \* p.batchCap
    removed,     \* p.removed changed during this Flush
    flush,       \* where the Run goroutine is
    final,       \* this Flush is the one of a shutdown
    discarded,   \* history: decisions dropped by this process
    everDropped, \* history: decisions dropped by any process
    faults, unrepaired

queueVars == <<order, pending, spool, torn, spoolOpen, spoolMu>>
lossVars == <<dropped, lossID, nextLoss, dropStreak, drops, batchCap, discarded, everDropped>>
flushVars == <<removed, flush, final>>
procVars == <<run, listening>>
faultVars == <<faults, unrepaired>>
vars == <<recorderVars, procVars, req, queueVars, lossVars, flushVars, faultVars>>

Drop(s, n) == SubSeq(s, n + 1, Len(s))

ReqState == {"new", "reserved", "written", "answered", "failed"}
FlushState == {"idle", "send", "wait", "rewrite", "done"}

TypeOK ==
    /\ bad \subseteq Decision
    /\ \A p \in posts : p.at \in 0..Len(p.rows) /\ p.live \in BOOLEAN
    /\ run \in {"up", "draining", "down"} /\ listening \in BOOLEAN
    /\ req \in [Decision -> ReqState]
    /\ Range(order) \subseteq Decision /\ Range(pending) \subseteq Decision
    /\ Range(spool) \subseteq Decision \cup {Garbage}
    /\ torn \in BOOLEAN /\ spoolOpen \in BOOLEAN
    /\ spoolMu \in Decision \cup {"free"}
    /\ Range(dropped) \subseteq Decision
    /\ lossID \in 0..nextLoss
    /\ dropStreak \in 0..MaxDropStreak /\ drops \in 0..MaxDropsPerHour
    /\ batchCap \in Nat
    /\ removed \in BOOLEAN /\ flush \in FlushState /\ final \in BOOLEAN
    /\ discarded \subseteq everDropped /\ everDropped \subseteq Decision

(* What a fresh process has in memory. *)
ResetMemory ==
    /\ dropped' = <<>> /\ lossID' = 0 /\ dropStreak' = 0 /\ drops' = 0 /\ batchCap' = 0
    /\ discarded' = {}
    /\ removed' = FALSE /\ flush' = "idle" /\ final' = FALSE
    /\ UNCHANGED <<nextLoss, everDropped>>

Init ==
    /\ RecorderInit
    /\ run = "up" /\ listening = TRUE
    /\ req = [d \in Decision |-> "new"]
    /\ order = <<>> /\ pending = <<>> /\ spool = <<>> /\ torn = FALSE
    /\ spoolOpen = Spooling /\ spoolMu = "free"
    /\ dropped = <<>> /\ lossID = 0 /\ nextLoss = 0 /\ dropStreak = 0 /\ drops = 0
    /\ batchCap = 0 /\ discarded = {} /\ everDropped = {}
    /\ removed = FALSE /\ flush = "idle" /\ final = FALSE
    /\ faults = 0 /\ unrepaired = 0

Fault ==
    /\ faults < MaxFaults
    /\ faults' = faults + 1
    /\ UNCHANGED unrepaired

reserved == Cardinality({d \in Decision : req[d] \in {"reserved", "written"}})

-----------------------------------------------------------------------------
(* Evaluate *)

(* Mutant: slots held by requests under way are not counted. *)
ReserveUncounted(d) ==
    /\ run # "down" /\ listening
    /\ req[d] = "new"
    /\ Len(pending) < BufferSize
    /\ req' = [req EXCEPT ![d] = "reserved"]
    /\ UNCHANGED <<recorderVars, procVars, queueVars, lossVars, flushVars, faultVars>>

(* The check and the reservation are one critical section under mu. *)
Reserve(d) ==
    /\ run # "down" /\ listening
    /\ req[d] = "new"
    /\ Len(pending) + reserved < BufferSize
    /\ req' = [req EXCEPT ![d] = "reserved"]
    /\ UNCHANGED <<recorderVars, procVars, queueVars, lossVars, flushVars, faultVars>>

(* The file after a write: behind leftovers without a newline the new line
   merges with them and neither can be read. *)
WithLine(line) ==
    IF torn THEN [spool EXCEPT ![Len(spool)] = Garbage] ELSE Append(spool, line)

(* Mutant: spoolMu is given back before the decision is queued. *)
SpoolUnlocked(d) ==
    /\ Spooling /\ req[d] = "reserved" /\ spoolMu = "free" /\ spoolOpen
    /\ spool' = WithLine(d)
    /\ torn' = FALSE
    /\ req' = [req EXCEPT ![d] = "written"]
    /\ UNCHANGED <<recorderVars, procVars, order, pending, spoolOpen, spoolMu, lossVars, flushVars, faultVars>>

(* The line is written and synced under spoolMu, which stays held.  After
   an unrepaired failure it lands behind the leftovers of another line. *)
SpoolDecision(d) ==
    /\ Spooling /\ req[d] = "reserved" /\ spoolMu = "free" /\ spoolOpen
    /\ spool' = WithLine(d)
    /\ torn' = FALSE
    /\ spoolMu' = d
    /\ req' = [req EXCEPT ![d] = "written"]
    /\ UNCHANGED <<recorderVars, procVars, order, pending, spoolOpen, lossVars, flushVars, faultVars>>

(* Queue the decision and answer it. *)
Enqueue(d) ==
    /\ req[d] = IF Spooling THEN "written" ELSE "reserved"
    /\ pending' = Append(pending, d)
    /\ order' = Append(order, d)
    /\ spoolMu' = "free"
    /\ req' = [req EXCEPT ![d] = "answered"]
    /\ UNCHANGED <<recorderVars, procVars, spool, torn, spoolOpen, lossVars, flushVars, faultVars>>

Refuse(d) ==
    /\ req' = [req EXCEPT ![d] = "failed"]
    /\ UNCHANGED <<recorderVars, procVars, order, pending, spoolMu, lossVars, flushVars>>

(* p.spool is nil. *)
SpoolClosed(d) ==
    /\ Spooling /\ req[d] = "reserved" /\ spoolMu = "free" /\ ~spoolOpen
    /\ Refuse(d)
    /\ UNCHANGED <<spool, torn, spoolOpen, faultVars>>

(* The engine fails, or the write fails and is undone: by Truncate, by a
   rewrite of the file, or by a rewrite that cannot reopen it. *)
EvaluateFails(d) ==
    /\ req[d] = "reserved" /\ Fault
    /\ \/ UNCHANGED <<spool, torn, spoolOpen>>
       \/ /\ Spooling /\ spoolOpen /\ spoolMu = "free"
          /\ spool' = pending /\ torn' = FALSE
          /\ spoolOpen' \in BOOLEAN
    /\ Refuse(d)

(* The write or the sync fails, then Truncate, then the rewrite: the whole
   line, or a part of it without its newline, stays in the file. *)
WriteUnrepaired(d) ==
    /\ Spooling /\ req[d] = "reserved" /\ spoolMu = "free" /\ spoolOpen
    /\ unrepaired < MaxUnrepaired
    /\ unrepaired' = unrepaired + 1
    /\ \/ spool' = WithLine(d) /\ torn' \in BOOLEAN
       \/ spool' = WithLine(Garbage) /\ torn' = TRUE
    /\ Refuse(d)
    /\ UNCHANGED <<spoolOpen, faults>>

-----------------------------------------------------------------------------
(* Flush *)

StartFlush ==
    /\ run # "down" /\ flush = "idle"
    /\ final' = (run = "draining")
    /\ run = "up" => pending # <<>> \/ dropped # <<>>
    /\ flush' = "send"
    /\ removed' = FALSE
    /\ UNCHANGED <<recorderVars, procVars, req, queueVars, lossVars, faultVars>>

(* Mutant: a batch may mix revisions. *)
BatchLenMixed ==
    LET limit == IF batchCap > 0 THEN batchCap ELSE MaxBatch
    IN  IF Len(pending) < limit THEN Len(pending) ELSE limit

(* A batch: the longest prefix of pending with one revision, within the cap. *)
BatchLen ==
    LET limit == IF batchCap > 0 THEN batchCap ELSE MaxBatch
        fits(n) == n <= limit /\ \A i \in 1..n : Revision[pending[i]] = Revision[pending[1]]
    IN  CHOOSE n \in 0..Len(pending) : fits(n) /\ \A m \in 0..Len(pending) : fits(m) => m <= n

(* A signal cancels the context of every Flush but the final one. *)
Cancelled == run = "draining" /\ ~final

(* A loss report goes out on its own; its bundle_revision is that of
   whatever is first in the queue. *)
Send ==
    /\ flush = "send" /\ (pending # <<>> \/ dropped # <<>>) /\ ~Cancelled
    /\ LET rev == IF pending = <<>> THEN NoRevision ELSE Revision[pending[1]]
           rows == IF dropped # <<>>
                   THEN <<DroppedRow(lossID, dropped, rev)>>
                   ELSE [i \in 1..BatchLen |-> DecisionRow(pending[i], rev)]
       IN  posts' = posts \cup {Post(rows)}
    /\ flush' = "wait"
    /\ UNCHANGED <<bad, chain, procVars, req, queueVars, lossVars, removed, final, faultVars>>

(* flush() returned: the spool is rewritten if anything left the queue. *)
AfterFlush ==
    flush' = IF Spooling /\ removed' THEN "rewrite" ELSE IF final THEN "done" ELSE "idle"

NothingToSend ==
    /\ flush = "send"
    /\ Cancelled \/ (pending = <<>> /\ dropped = <<>>)
    /\ removed' = removed /\ AfterFlush
    /\ UNCHANGED <<recorderVars, procVars, req, queueVars, lossVars, final, faultVars>>

Remove(n) ==
    /\ pending' = Drop(pending, n)
    /\ removed' = (removed \/ n > 0)
    /\ UNCHANGED <<order, spool, torn, spoolOpen, spoolMu>>

Decisions(p) == IF p.rows[1].kind = "decision" THEN Len(p.rows) ELSE 0

(* Mutant: a recorded loss report ends the streak as well. *)
ShippedResets(p) ==
    /\ p.live /\ Succeeds(p) /\ Answer(p)
    /\ Remove(Decisions(p))
    /\ dropStreak' = 0
    /\ IF Decisions(p) > 0 THEN UNCHANGED <<dropped, lossID>> ELSE dropped' = <<>> /\ lossID' = 0
    /\ batchCap' = 0
    /\ flush' = "send"
    /\ UNCHANGED <<procVars, req, nextLoss, drops, discarded, everDropped, final, faultVars>>

(* 200. *)
Shipped(p) ==
    /\ p.live /\ Succeeds(p) /\ Answer(p)
    /\ Remove(Decisions(p))
    /\ IF Decisions(p) > 0
       THEN dropStreak' = 0 /\ UNCHANGED <<dropped, lossID>>
       ELSE dropped' = <<>> /\ lossID' = 0 /\ UNCHANGED dropStreak
    /\ batchCap' = 0
    /\ flush' = "send"
    /\ UNCHANGED <<procVars, req, nextLoss, drops, discarded, everDropped, final, faultVars>>

(* Mutant: a rejected batch is not made smaller. *)
HalveNot(p) ==
    /\ p.live /\ Rejects(p) /\ Answer(p)
    /\ Decisions(p) > 1
    /\ batchCap' = Decisions(p)
    /\ flush' = "send"
    /\ UNCHANGED <<procVars, req, queueVars, dropped, lossID, nextLoss, dropStreak, drops,
                   discarded, everDropped, removed, final, faultVars>>

(* 400 for more than one decision: halve the batch. *)
Halve(p) ==
    /\ p.live /\ Rejects(p) /\ Answer(p)
    /\ Decisions(p) > 1
    /\ batchCap' = (Decisions(p) + 1) \div 2
    /\ flush' = "send"
    /\ UNCHANGED <<procVars, req, queueVars, dropped, lossID, nextLoss, dropStreak, drops,
                   discarded, everDropped, removed, final, faultVars>>

(* Mutant: one drop more. *)
MayDropOneMore == dropStreak <= MaxDropStreak /\ drops < MaxDropsPerHour

MayDrop == dropStreak < MaxDropStreak /\ drops < MaxDropsPerHour

(* 400 for one decision: drop it and remember to report it. *)
DropRejected(p) ==
    /\ p.live /\ Rejects(p) /\ Answer(p)
    /\ Decisions(p) = 1 /\ MayDrop
    /\ Remove(1)
    /\ dropped' = Append(dropped, pending[1])
    /\ IF lossID = 0 THEN lossID' = nextLoss + 1 /\ nextLoss' = nextLoss + 1
                     ELSE UNCHANGED <<lossID, nextLoss>>
    /\ dropStreak' = dropStreak + 1
    /\ drops' = drops + 1
    /\ batchCap' = 0
    /\ discarded' = discarded \cup {pending[1]}
    /\ everDropped' = everDropped \cup {pending[1]}
    /\ flush' = "send"
    /\ UNCHANGED <<procVars, req, final, faultVars>>

(* 400 for one decision after too many drops: keep the queue. *)
RefuseToDrop(p) ==
    /\ p.live /\ Rejects(p) /\ Answer(p)
    /\ Decisions(p) = 1 /\ ~MayDrop
    /\ removed' = removed /\ AfterFlush
    /\ UNCHANGED <<procVars, req, queueVars, lossVars, final, faultVars>>

(* Any other status, which says how many decisions were recorded. *)
ShipFails(p) ==
    /\ p.live /\ Fault /\ Answer(p)
    /\ Remove(IF RecordedBy(p) < Decisions(p) THEN RecordedBy(p) ELSE 0)
    /\ AfterFlush
    /\ UNCHANGED <<procVars, req, lossVars, final>>

(* Mutant: a report that got no answer is taken for delivered. *)
NoAnswerForgets(p) ==
    /\ p.live
    /\ IF Cancelled THEN UNCHANGED faultVars ELSE Fault
    /\ posts' = (posts \ {p}) \cup {[p EXCEPT !.live = FALSE]}
    /\ dropped' = <<>> /\ lossID' = 0
    /\ removed' = removed /\ AfterFlush
    /\ UNCHANGED <<bad, chain, procVars, req, queueVars, nextLoss, dropStreak, drops, batchCap,
                   discarded, everDropped, final>>

(* No answer arrives, or the agent stops waiting because its context was
   cancelled: the handler may still be running. *)
NoAnswer(p) ==
    /\ p.live
    /\ IF Cancelled THEN UNCHANGED faultVars ELSE Fault
    /\ posts' = (posts \ {p}) \cup {[p EXCEPT !.live = FALSE]}
    /\ removed' = removed /\ AfterFlush
    /\ UNCHANGED <<bad, chain, procVars, req, queueVars, lossVars, final>>

AfterRewrite == flush' = IF final THEN "done" ELSE "idle"

(* Mutant: the rewrite does not wait for a write under way. *)
RewriteUnlocked ==
    /\ flush = "rewrite"
    /\ spool' = pending /\ torn' = FALSE /\ spoolOpen' = TRUE
    /\ AfterRewrite
    /\ UNCHANGED <<recorderVars, procVars, req, order, pending, spoolMu, lossVars, removed, final, faultVars>>

(* rewriteSpoolLocked under spoolMu: what is pending replaces the file. *)
RewriteSpool ==
    /\ flush = "rewrite" /\ spoolMu = "free"
    /\ spool' = pending /\ torn' = FALSE /\ spoolOpen' = TRUE
    /\ AfterRewrite
    /\ UNCHANGED <<recorderVars, procVars, req, order, pending, spoolMu, lossVars, removed, final, faultVars>>

(* It fails before the rename and leaves the file alone, or reopening the
   renamed file fails. *)
RewriteFails ==
    /\ flush = "rewrite" /\ spoolMu = "free" /\ Fault
    /\ \/ UNCHANGED <<spool, torn, spoolOpen>>
       \/ spool' = pending /\ torn' = FALSE /\ spoolOpen' = FALSE
    /\ AfterRewrite
    /\ UNCHANGED <<recorderVars, procVars, req, order, pending, spoolMu, lossVars, removed, final>>

(* A drop is an hour old. *)
HourPasses ==
    /\ drops > 0
    /\ drops' = drops - 1
    /\ UNCHANGED <<recorderVars, procVars, req, queueVars, dropped, lossID, nextLoss, dropStreak,
                   batchCap, discarded, everDropped, flushVars, faultVars>>

-----------------------------------------------------------------------------
(* The process *)

Detach == posts' = {[p EXCEPT !.live = FALSE] : p \in posts}

GiveUp == req' = [d \in Decision |-> IF req[d] \in {"reserved", "written"} THEN "failed" ELSE req[d]]

(* A crash may cut a line short that was being written. *)
Crash ==
    /\ run # "down" /\ Fault
    /\ run' = "down" /\ listening' = FALSE
    /\ \/ UNCHANGED <<spool, torn>>
       \/ /\ Spooling /\ spoolOpen /\ spoolMu = "free"
          /\ \E d \in Decision : req[d] = "reserved"
          /\ spool' = WithLine(Garbage) /\ torn' = TRUE
    /\ pending' = <<>> /\ spoolMu' = "free" /\ spoolOpen' = FALSE
    /\ GiveUp /\ Detach /\ ResetMemory
    /\ UNCHANGED <<bad, chain, order>>

(* RestoreSpool: an unreadable last line is skipped, any other one keeps
   the agent from starting. *)
Restart ==
    LET cut    == spool # <<>> /\ spool[Len(spool)] = Garbage
        parsed == IF cut THEN SubSeq(spool, 1, Len(spool) - 1) ELSE spool
    IN  /\ run = "down"
        /\ \A i \in 1..Len(spool) - 1 : spool[i] # Garbage
        /\ run' = "up" /\ listening' = TRUE
        /\ pending' = parsed /\ spool' = parsed /\ torn' = FALSE
        /\ spoolOpen' = Spooling
        /\ UNCHANGED <<recorderVars, req, order, spoolMu, lossVars, flushVars, faultVars>>

(* SIGTERM cancels the context Run works under. *)
Shutdown ==
    /\ run = "up" /\ Fault
    /\ run' = "draining"
    /\ UNCHANGED <<recorderVars, listening, req, queueVars, lossVars, flushVars>>

(* srv.Shutdown: no new requests; the ones in flight finish. *)
StopListening ==
    /\ run = "draining" /\ listening
    /\ listening' = FALSE
    /\ UNCHANGED <<recorderVars, run, req, queueVars, lossVars, flushVars, faultVars>>

(* The process ends once the listener has drained and Run has returned. *)
Exit ==
    /\ run = "draining" /\ ~listening /\ reserved = 0 /\ flush = "done"
    /\ run' = "down"
    /\ pending' = <<>> /\ spoolOpen' = FALSE
    /\ ResetMemory
    /\ UNCHANGED <<recorderVars, listening, req, order, spool, torn, spoolMu, faultVars>>

Handle(p) ==
    \/ Shipped(p) \/ Halve(p) \/ DropRejected(p) \/ RefuseToDrop(p)

Server(p) ==
    /\ AppendNext(p) \/ Abandon(p)
    /\ UNCHANGED <<procVars, req, queueVars, lossVars, flushVars, faultVars>>

Serve == \E p \in posts : Server(p) \/ Handle(p)
Flushing == StartFlush \/ Send \/ NothingToSend \/ RewriteSpool

Next ==
    \/ \E d \in Decision : Reserve(d) \/ SpoolDecision(d) \/ Enqueue(d)
                           \/ SpoolClosed(d) \/ EvaluateFails(d) \/ WriteUnrepaired(d)
    \/ Flushing \/ RewriteFails \/ HourPasses
    \/ Serve
    \/ \E p \in posts : ShipFails(p) \/ NoAnswer(p)
    \/ Crash \/ Restart \/ Shutdown \/ StopListening \/ Exit

(* Request goroutines, the flush ticker, handlers and a supervisor that
   restarts the agent all keep going; nothing makes a fault or a signal
   happen. *)
Spec ==
    /\ Init /\ [][Next]_vars
    /\ \A d \in Decision : SF_vars(SpoolDecision(d) \/ SpoolClosed(d)) /\ WF_vars(Enqueue(d))
    /\ WF_vars(Flushing) /\ WF_vars(Serve)
    /\ WF_vars(Restart) /\ WF_vars(StopListening) /\ WF_vars(Exit)

-----------------------------------------------------------------------------
Answered == {d \in Decision : req[d] = "answered"}
DecisionRows == {i \in 1..Len(chain) : chain[i].kind = "decision"}

(* No crash, failed write or rewrite loses an answered decision, except that
   a spool write that failed and could not be undone costs at most one: only
   the next line merges with what it left. *)
LossBound ==
    Spooling => Cardinality(Answered \ (Range(spool) \cup Recorded \cup everDropped)) <= unrepaired

(* Resent batches, also those a late handler still works on and those
   replayed from the spool, put each decision in the chain once and leave
   no conflict row for it. *)
RecordedOnce ==
    /\ \A i, j \in DecisionRows : chain[i].id = chain[j].id => i = j
    /\ \A i \in 1..Len(chain) : chain[i].kind = "conflict" => chain[i].id \notin Decision

(* With a spool, decisions reach the chain in the order in which they were
   queued, also those a restarted agent sends again.  (Without one a handler
   that outlives a crashed agent may append after the new agent's batch, and
   so it may for a decision lost to an unrepaired write.) *)
RecordedInOrder ==
    Spooling /\ unrepaired = 0 => \A i, j \in DecisionRows : \A m, n \in 1..Len(order) :
        order[m] = chain[i].id /\ order[n] = chain[j].id /\ i < j => m < n

(* A row names the bundle revision its own decision was made with, although
   a batch carries one revision for all its decisions. *)
RecordedWithOwnRevision == \A i \in DecisionRows : chain[i].rev = Revision[chain[i].id]

(* What this process dropped is in the chain as a loss or still to be
   reported. *)
LossVisible == discarded \subseteq Range(dropped) \cup Reported

(* A control plane that rejects everything cannot empty the queue. *)
RejectAllKeepsQueue == bad = Decision => Cardinality(discarded) <= MaxDropStreak

(* Concurrent requests never overrun the buffer. *)
BufferBound == reserved > 0 => Len(pending) + reserved <= BufferSize

(* As long as the rejected decisions are few enough to be dropped, and no
   spool write failed beyond repair, every answered decision is recorded or
   dropped in the end. *)
Drains ==
    []<>(Cardinality(bad) <= MaxDropStreak /\ unrepaired = 0
         => Answered \subseteq Recorded \cup everDropped)

(* docs/local-pdp.md: a loss report is recorded once per loss_id, and
   resending it adds nothing. *)
LossCountedOnce == \A i \in 1..Len(chain) : chain[i].kind # "conflict"

(* docs/threat-model.md: a normal shutdown flushes the queued decisions. *)
ShutdownShipsAnswered == run = "down" /\ bad = {} => Answered \subseteq Recorded
=============================================================================
