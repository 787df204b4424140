------------------------------ MODULE AuditLog ------------------------------
(***************************************************************************)
(* The hash-chained audit log (internal/server/storage/audit.go) and the   *)
(* leader gate in front of it.  A worker is a request goroutine of one     *)
(* replica that appends one event: it checks IsLeader, waits for the       *)
(* process-local auditMu, and runs one READ COMMITTED transaction that     *)
(* reads the newest committed hash, inserts a row with the placeholder     *)
(* hash 'pending', fills the real hash in and commits.                     *)
(*                                                                         *)
(* A row's MAC covers its unique seq, so hashes are modelled by seqs: prev *)
(* is the seq of the row whose hash prev_hash repeats, 0 for genesisHash.  *)
(***************************************************************************)
EXTENDS LeaderElection

CONSTANTS
    Worker,       \* request goroutines
    Home,         \* Home[w]: the replica w runs in
    NoWorker,     \* auditMu is free
    NoKey,        \* an event appended without a key
    Key,          \* idempotency keys given to AppendAuditOnce
    Digest,       \* digests of the events sent under them
    InitKeyed,    \* a keyring is configured from the start
    MaxSeq        \* how many sequence numbers the database hands out

ASSUME AuditAssumption ==
    /\ Home \in [Worker -> Replica]
    /\ NoWorker \notin Worker
    /\ NoKey \notin Key
    /\ InitKeyed \in BOOLEAN
    /\ MaxSeq \in Nat

VARIABLES
    rows,        \* audit_log, committed: seq -> row
    nextSeq,     \* the table's sequence; a number is used up even on rollback
    once,        \* audit_once, committed: key -> digest
    aged,        \* keys first recorded longer than auditOnceRetention ago
    epoch,       \* audit_meta keyed_from_seq, 0 when absent
    keyed,       \* keyed[r]: the process was started with a keyring
    epochKnown,  \* epochKnown[r]: keyedEpochRecorded
    mu,          \* mu[r]: the worker that holds r's auditMu
    pc,          \* pc[w]: where worker w is
    event,       \* event[w]: what it appends
    prev,        \* prev[w]: the head it read
    seq,         \* seq[w]: the number its row was given
    overlap      \* history: two replicas have had chain transactions open at once

work == <<pc, event, prev, seq>>
auditVars == <<rows, nextSeq, once, aged, epoch, keyed, epochKnown, mu, work, overlap>>
vars == <<electionVars, auditVars>>

(* What a worker was asked to append: AppendAudit's event, or an event for
   AppendAuditOnce.  A conflict is the row written for a reused key. *)
Plain == [kind |-> "plain", key |-> NoKey, digest |-> NoKey]
OnceEvent == [kind : {"once", "conflict"}, key : Key, digest : Digest]
Submitted == {Plain} \cup {e \in OnceEvent : e.kind = "once"}

Chaining == {"read", "inserting", "inserted"}
Locked == {"begun", "keyed"} \cup Chaining

Row == [prev : Nat, keyed : BOOLEAN, event : {Plain} \cup OnceEvent]

TypeOK ==
    /\ ElectionTypeOK
    /\ nextSeq \in 1..MaxSeq + 1
    /\ DOMAIN rows \subseteq 1..MaxSeq
    /\ \A s \in DOMAIN rows : rows[s] \in Row
    /\ DOMAIN once \subseteq Key
    /\ \A k \in DOMAIN once : once[k] \in Digest
    /\ aged \subseteq Key
    /\ epoch \in 0..MaxSeq
    /\ keyed \in [Replica -> BOOLEAN]
    /\ epochKnown \in [Replica -> BOOLEAN]
    /\ mu \in [Replica -> Worker \cup {NoWorker}]
    /\ pc \in [Worker -> {"idle", "waiting"} \cup Locked]
    /\ event \in [Worker -> {Plain} \cup OnceEvent]
    /\ prev \in [Worker -> 0..MaxSeq]
    /\ seq \in [Worker -> 0..MaxSeq]
    /\ overlap \in BOOLEAN

Init ==
    /\ ElectionInit
    /\ rows = [s \in {} |-> 0]
    /\ nextSeq = 1
    /\ once = [k \in {} |-> 0]
    /\ aged = {}
    /\ epoch = 0
    /\ keyed = [r \in Replica |-> InitKeyed]
    /\ epochKnown = [r \in Replica |-> FALSE]
    /\ mu = [r \in Replica |-> NoWorker]
    /\ pc = [w \in Worker |-> "idle"]
    /\ event = [w \in Worker |-> Plain]
    /\ prev = [w \in Worker |-> 0]
    /\ seq = [w \in Worker |-> 0]
    /\ overlap = FALSE

-----------------------------------------------------------------------------
(* h is what SELECT hash ... ORDER BY seq DESC LIMIT 1 answers. *)
IsHead(h) ==
    /\ h \in DOMAIN rows \cup {0}
    /\ \A s \in DOMAIN rows : s <= h

Unlock(w) == mu' = [mu EXCEPT ![Home[w]] = NoWorker]

(* Workers ws end their calls and their transactions. *)
Finish(ws) ==
    /\ pc' = [w \in Worker |-> IF w \in ws THEN "idle" ELSE pc[w]]
    /\ event' = [w \in Worker |-> IF w \in ws THEN Plain ELSE event[w]]
    /\ prev' = [w \in Worker |-> IF w \in ws THEN 0 ELSE prev[w]]
    /\ seq' = [w \in Worker |-> IF w \in ws THEN 0 ELSE seq[w]]

(* AppendAudit and AppendAuditOnce up to auditMu.Lock(): a follower answers
   ErrNotLeader and changes nothing.  Leadership is not looked at again.
   A key is resent only within its retention, and MaxSeq bounds the rows. *)
Call(w, ev) ==
    /\ up[Home[w]] /\ IsLeader(Home[w])
    /\ pc[w] = "idle"
    /\ ev.key \notin aged
    /\ nextSeq + Cardinality({v \in Worker : pc[v] # "idle"}) <= MaxSeq
    /\ pc' = [pc EXCEPT ![w] = "waiting"]
    /\ event' = [event EXCEPT ![w] = ev]
    /\ UNCHANGED <<prev, seq, rows, nextSeq, once, aged, epoch, keyed, epochKnown, mu, overlap>>

(* Mutant: auditMu is not waited for. *)
BeginUnlocked(w) ==
    /\ pc[w] = "waiting"
    /\ mu' = [mu EXCEPT ![Home[w]] = w]
    /\ pc' = [pc EXCEPT ![w] = "begun"]
    /\ UNCHANGED <<event, prev, seq, rows, nextSeq, once, aged, epoch, keyed, epochKnown, overlap>>

(* auditMu and BEGIN. *)
Begin(w) ==
    /\ pc[w] = "waiting"
    /\ mu[Home[w]] = NoWorker
    /\ mu' = [mu EXCEPT ![Home[w]] = w]
    /\ pc' = [pc EXCEPT ![w] = "begun"]
    /\ UNCHANGED <<event, prev, seq, rows, nextSeq, once, aged, epoch, keyed, epochKnown, overlap>>

(* AppendAuditOnce inserts its key, waiting for the end of a transaction
   that has the same key uncommitted.  A key found with the same digest
   ends the call; with another one the event becomes a conflict event. *)
KeyFree(w) ==
    \A v \in Worker \ {w} :
        pc[v] \in {"keyed"} \cup Chaining =>
            event[v].key # event[w].key

Recorded(ev) == ev.key \in DOMAIN once /\ once[ev.key] = ev.digest

InsertKey(w) ==
    /\ pc[w] = "begun" /\ event[w] # Plain
    /\ KeyFree(w)
    /\ ~Recorded(event[w])
    /\ pc' = [pc EXCEPT ![w] = "keyed"]
    /\ event' = [event EXCEPT ![w] =
                    [kind |-> IF @.key \in DOMAIN once THEN "conflict" ELSE "once",
                     key |-> @.key, digest |-> @.digest]]
    /\ UNCHANGED <<prev, seq, rows, nextSeq, once, aged, epoch, keyed, epochKnown, mu, overlap>>

Duplicate(w) ==
    /\ pc[w] = "begun" /\ event[w] # Plain
    /\ KeyFree(w)
    /\ Recorded(event[w])
    /\ Unlock(w)
    /\ Finish({w})
    /\ UNCHANGED <<rows, nextSeq, once, aged, epoch, keyed, epochKnown, overlap>>

(* Mutants: the row read is not the newest, or is the last number given out. *)
ReadHeadUnordered(w) ==
    /\ pc[w] = IF event[w] = Plain THEN "begun" ELSE "keyed"
    /\ \E h \in DOMAIN rows \cup {0} : prev' = [prev EXCEPT ![w] = h]
    /\ pc' = [pc EXCEPT ![w] = "read"]
    /\ overlap' = (overlap \/ \E v \in Worker : Home[v] # Home[w] /\ pc[v] \in Chaining)
    /\ UNCHANGED <<event, seq, rows, nextSeq, once, aged, epoch, keyed, epochKnown, mu>>

ReadHeadLastSeq(w) ==
    /\ pc[w] = IF event[w] = Plain THEN "begun" ELSE "keyed"
    /\ prev' = [prev EXCEPT ![w] = nextSeq - 1]
    /\ pc' = [pc EXCEPT ![w] = "read"]
    /\ overlap' = (overlap \/ \E v \in Worker : Home[v] # Home[w] /\ pc[v] \in Chaining)
    /\ UNCHANGED <<event, seq, rows, nextSeq, once, aged, epoch, keyed, epochKnown, mu>>

(* lastAuditHash: the newest committed row. *)
ReadHead(w) ==
    /\ pc[w] = IF event[w] = Plain THEN "begun" ELSE "keyed"
    /\ \E h \in DOMAIN rows \cup {0} :
        /\ IsHead(h)
        /\ prev' = [prev EXCEPT ![w] = h]
    /\ pc' = [pc EXCEPT ![w] = "read"]
    /\ overlap' = (overlap \/ \E v \in Worker : Home[v] # Home[w] /\ pc[v] \in Chaining)
    /\ UNCHANGED <<event, seq, rows, nextSeq, once, aged, epoch, keyed, epochKnown, mu>>

(* INSERT ... RETURNING seq takes its number before it meets the unique
   index on hash, *)
TakeSeq(w) ==
    /\ pc[w] = "read"
    /\ nextSeq <= MaxSeq
    /\ pc' = [pc EXCEPT ![w] = "inserting"]
    /\ seq' = [seq EXCEPT ![w] = nextSeq]
    /\ nextSeq' = nextSeq + 1
    /\ UNCHANGED <<event, prev, rows, once, aged, epoch, keyed, epochKnown, mu, overlap>>

(* where it waits until no other transaction has an uncommitted 'pending'. *)
Insert(w) ==
    /\ pc[w] = "inserting"
    /\ \A v \in Worker : pc[v] # "inserted"
    /\ pc' = [pc EXCEPT ![w] = "inserted"]
    /\ UNCHANGED <<event, prev, seq, rows, nextSeq, once, aged, epoch, keyed, epochKnown, mu, overlap>>

(* Mutants: the epoch is one too high or one too low. *)
CommitRowEpochLate(w) ==
    LET r == Home[w]
    IN  /\ pc[w] = "inserted"
        /\ rows' = [s \in DOMAIN rows \cup {seq[w]} |->
                       IF s = seq[w]
                       THEN [prev |-> prev[w], keyed |-> keyed[r], event |-> event[w]]
                       ELSE rows[s]]
        /\ epoch' = IF keyed[r] /\ ~epochKnown[r] /\ epoch = 0 THEN seq[w] + 1 ELSE epoch
        /\ Unlock(w)
        /\ Finish({w})
        /\ UNCHANGED <<nextSeq, keyed, overlap>>

CommitRowEpochEarly(w) ==
    LET r == Home[w]
    IN  /\ pc[w] = "inserted"
        /\ rows' = [s \in DOMAIN rows \cup {seq[w]} |->
                       IF s = seq[w]
                       THEN [prev |-> prev[w], keyed |-> keyed[r], event |-> event[w]]
                       ELSE rows[s]]
        /\ epoch' = IF keyed[r] /\ ~epochKnown[r] /\ epoch = 0 THEN seq[w] - 1 ELSE epoch
        /\ Unlock(w)
        /\ Finish({w})
        /\ UNCHANGED <<nextSeq, keyed, overlap>>

(* The row, the epoch and the key become visible together. *)
CommitRow(w) ==
    LET r == Home[w]
    IN  /\ pc[w] = "inserted"
        /\ rows' = [s \in DOMAIN rows \cup {seq[w]} |->
                       IF s = seq[w]
                       THEN [prev |-> prev[w], keyed |-> keyed[r], event |-> event[w]]
                       ELSE rows[s]]
        /\ epoch' = IF keyed[r] /\ ~epochKnown[r] /\ epoch = 0 THEN seq[w] ELSE epoch
        /\ Unlock(w)
        /\ Finish({w})
        /\ UNCHANGED <<nextSeq, keyed, overlap>>

(* Mutant: the key does not commit with its event. *)
KeysWithout(w) == once

KeysWith(w) ==
    IF event[w].kind = "once"
    THEN [k \in DOMAIN once \cup {event[w].key} |->
             IF k = event[w].key THEN event[w].digest ELSE once[k]]
    ELSE once

Forget(o, ks) == [k \in DOMAIN o \ ks |-> o[k]]

(* Commit, auditCommitted and, at most hourly after a once event, the
   pruning of old keys. *)
Commit(w) ==
    /\ CommitRow(w)
    /\ epochKnown' = [epochKnown EXCEPT ![Home[w]] = keyed[Home[w]]]
    /\ \E pruned \in {{}, aged} :
        /\ pruned # {} => event[w].kind = "once"
        /\ once' = Forget(KeysWith(w), pruned)
    /\ UNCHANGED aged

(* The commit happened but its reply did not arrive: the caller sees an
   error and auditCommitted does not run. *)
CommitReplyLost(w) ==
    /\ CommitRow(w)
    /\ once' = KeysWith(w)
    /\ UNCHANGED <<aged, epochKnown>>

(* Mutant: no deferred Unlock. *)
RollbackLocked(w) ==
    /\ pc[w] \in Locked
    /\ Finish({w})
    /\ UNCHANGED <<rows, nextSeq, once, aged, epoch, keyed, epochKnown, mu, overlap>>

(* A statement fails or the request's context ends: the deferred Rollback
   and Unlock. *)
Rollback(w) ==
    /\ pc[w] \in Locked
    /\ Unlock(w)
    /\ Finish({w})
    /\ UNCHANGED <<rows, nextSeq, once, aged, epoch, keyed, epochKnown, overlap>>

(* Thirty days pass for a key. *)
Age(k) ==
    /\ k \in DOMAIN once \ aged
    /\ \A w \in Worker : event[w].key # k
    /\ aged' = aged \cup {k}
    /\ UNCHANGED <<rows, nextSeq, once, epoch, keyed, epochKnown, mu, work, overlap>>

CrashReplica(r) ==
    /\ Crash(r)
    /\ Finish({w \in Worker : Home[w] = r})
    /\ mu' = [mu EXCEPT ![r] = NoWorker]
    /\ epochKnown' = [epochKnown EXCEPT ![r] = FALSE]
    /\ UNCHANGED <<rows, nextSeq, once, aged, epoch, keyed, overlap>>

(* The operator may add a keyring at a restart; it is never taken away. *)
RestartReplica(r) ==
    /\ Restart(r)
    /\ \E k \in {keyed[r], TRUE} : keyed' = [keyed EXCEPT ![r] = k]
    /\ UNCHANGED <<rows, nextSeq, once, aged, epoch, epochKnown, mu, work, overlap>>

Progress(w) ==
    \/ Begin(w) \/ InsertKey(w) \/ Duplicate(w) \/ ReadHead(w)
    \/ TakeSeq(w) \/ Insert(w) \/ Commit(w)

WorkerStep(w) ==
    \/ \E ev \in Submitted : Call(w, ev)
    \/ Progress(w) \/ CommitReplyLost(w) \/ Rollback(w)

(* Everything but the crash of a process, which takes more than the log's
   transactions down. *)
LogStep ==
    \/ ElectionStep /\ UNCHANGED auditVars
    \/ \E w \in Worker : WorkerStep(w) /\ UNCHANGED electionVars
    \/ \E k \in Key : Age(k) /\ UNCHANGED electionVars
    \/ \E r \in Replica : RestartReplica(r)

Next == LogStep \/ \E r \in Replica : CrashReplica(r)

Spec == Init /\ [][Next]_vars

(* A goroutine that runs makes progress.  Strong fairness, because what it
   waits for is handed to waiters in turn: Go's mutex serves a starved
   waiter first, and Postgres wakes whoever queued behind a transaction. *)
FairSpec ==
    /\ Spec
    /\ \A w \in Worker : SF_vars(Progress(w) /\ UNCHANGED electionVars)

-----------------------------------------------------------------------------
(* VerifyAudit, run by replica r: the first seq whose row does not link to
   the row before it, or that a downgrade or an unresolvable key spoils. *)
Linked(s) ==
    /\ rows[s].prev < s
    /\ rows[s].prev \in DOMAIN rows \cup {0}
    /\ \A t \in DOMAIN rows : ~(rows[s].prev < t /\ t < s)

Downgraded(s) ==
    /\ ~rows[s].keyed
    /\ \/ epoch # 0 /\ s >= epoch
       \/ \E t \in DOMAIN rows : t < s /\ rows[t].keyed

Good(r, s) ==
    /\ keyed[r] => ~Downgraded(s)
    /\ ~keyed[r] => ~rows[s].keyed
    /\ Linked(s)

VerifyAudit(r) == \A s \in DOMAIN rows : Good(r, s)

-----------------------------------------------------------------------------
(* Appends of one replica never overlap: auditMu covers the whole
   transaction, from before BEGIN to after COMMIT. *)
MutexCoversTx ==
    \A w \in Worker : pc[w] \in Locked <=> mu[Home[w]] = w

(* The hash chain is a single line: walked by seq, every row links to the
   row just before it. *)
ChainLinear == \A s \in DOMAIN rows : Linked(s)

(* As long as two replicas never had appends in flight together, whatever
   failed, was retried or was rolled back, the chain is a single line. *)
SingleWriterChainLinear == ~overlap => ChainLinear

(* Without overlapping writers a replica that holds the keyring always
   verifies the log, also across the restart that turned keying on. *)
KeyedReplicaVerifies ==
    ~overlap /\ (\A r \in Replica : keyed[r] = keyed[CHOOSE q \in Replica : TRUE])
        => \A r \in Replica : VerifyAudit(r)

(* Even with two writers every row hangs off an earlier committed row, so
   the log stays one tree rooted at genesis, *)
RowsHangTogether ==
    \A s \in DOMAIN rows : rows[s].prev < s /\ rows[s].prev \in DOMAIN rows \cup {0}

(* and a row has at most one successor per replica: auditMu keeps one
   process from forking the chain by itself. *)
ForkBound ==
    \A p \in DOMAIN rows \cup {0} :
        Cardinality({s \in DOMAIN rows : rows[s].prev = p}) <= Cardinality(Replica)

(* AppendAuditOnce records an event at most once per key, over retries
   after lost replies, crashes and a change of leader, until the key is
   forgotten. *)
OncePerKey ==
    \A s, t \in DOMAIN rows :
        rows[s].event.kind = "once" /\ rows[t].event.kind = "once" /\ rows[s].event.key = rows[t].event.key
            => s = t

(* The keying epoch names a keyed row and every keyed row is at or after
   it, so no legitimate row can be taken for a downgrade. *)
EpochIsFirstKeyed ==
    ~overlap =>
        /\ epoch # 0 => epoch \in DOMAIN rows /\ rows[epoch].keyed
        /\ \A s \in DOMAIN rows : rows[s].keyed => epoch # 0 /\ epoch <= s

(* The log of one process implements the append-only chain of HashChain,
   whatever fails or is rolled back. *)
HeadSeq == CHOOSE h \in DOMAIN rows \cup {0} : IsHead(h)
Chain == INSTANCE HashChain WITH head <- HeadSeq
ImplementsHashChain == Chain!Spec

(* No append waits for ever, on auditMu or on another transaction's key or
   'pending' row. *)
AppendEnds == \A w \in Worker : pc[w] # "idle" ~> pc[w] = "idle"

=============================================================================
