--------------------------- MODULE StoredPolicies ---------------------------
(***************************************************************************)
(* Writes to the Cedar policies stored over the API (storage/policies.go,  *)
(* api/policies.go).  A write changes one row of the policies table and    *)
(* appends its audit row in one transaction.                               *)
(*                                                                         *)
(* A stale leader may still write (LeaderElection, AuditLog), so a write   *)
(* may run on any replica; auditMu serialises those of one replica, and    *)
(* only Postgres' locks those of two.  A digest is its text.               *)
(***************************************************************************)
EXTENDS Naturals, FiniteSets, FiniteSetsExt

CONSTANTS
    Replica,
    Worker,     \* requests in flight
    Home,       \* Home[w]: the replica that serves w
    NoWorker,   \* a free mutex
    Policy,     \* policy ids
    Text,       \* Cedar texts
    NoText,     \* no row, or the empty new_digest of a delete
    Unrecorded, \* no chain row for the id
    AnyTag,     \* If-Match: *
    Collides,   \* <<r, t>>: t does not load next to the --policy-dir files of r
    MaxSeq,     \* writes in one behaviour
    MaxFaults   \* lost replies, failed statements, crashes and edited rows in one behaviour

ASSUME PolicyAssumption ==
    /\ Home \in [Worker -> Replica]
    /\ NoWorker \notin Worker
    /\ NoText \notin Text /\ Unrecorded \notin Text /\ Unrecorded # NoText
    /\ Collides \subseteq Replica \X Text
    /\ MaxSeq \in Nat /\ MaxFaults \in Nat

VARIABLES
    stored,   \* the policies table
    chain,    \* the policy rows of audit_log, committed: seq -> [id, text]
    nextSeq,  \* the table's sequence
    mu,       \* mu[r]: who holds auditMu
    pc,       \* pc[w]: the step the request is at
    req,      \* req[w]: what it asks for
    cur,      \* cur[w]: the row its transaction read
    seq,      \* seq[w]: the number its audit row got
    faults,   \* faults so far
    edits     \* those that changed the table behind the API

work == <<pc, req, cur, seq>>
writeVars == <<stored, chain, nextSeq, mu, work, faults, edits>>

NoRow == [text |-> NoText, version |-> 0]
Row == [text : Text, version : 1..MaxSeq + 1] \cup {NoRow}
Request ==
    [kind : {"create", "update", "delete"}, id : Policy, text : Text \cup {NoText}, match : Row \cup {AnyTag}]
Idle == [kind |-> "delete", id |-> CHOOSE p \in Policy : TRUE, text |-> NoText, match |-> AnyTag]

InTx == {"begun", "read", "written", "chained"}
Answering == {"committed", "refreshing", "stale"}

WriteTypeOK ==
    /\ stored \in [Policy -> Row]
    /\ DOMAIN chain \subseteq 1..MaxSeq
    /\ \A s \in DOMAIN chain : chain[s] \in [id : Policy, text : Text \cup {NoText}]
    /\ nextSeq \in 1..MaxSeq + 1
    /\ mu \in [Replica -> Worker \cup {NoWorker}]
    /\ pc \in [Worker -> {"idle", "called"} \cup InTx \cup Answering]
    /\ req \in [Worker -> Request]
    /\ cur \in [Worker -> Row]
    /\ seq \in [Worker -> 0..MaxSeq]
    /\ faults \in 0..MaxFaults /\ edits \in 0..MaxFaults

WriteInit ==
    /\ stored = [p \in Policy |-> NoRow] /\ chain = <<>> /\ nextSeq = 1
    /\ mu = [r \in Replica |-> NoWorker]
    /\ pc = [w \in Worker |-> "idle"] /\ req = [w \in Worker |-> Idle]
    /\ cur = [w \in Worker |-> NoRow] /\ seq = [w \in Worker |-> 0]
    /\ faults = 0 /\ edits = 0

Fault == faults < MaxFaults /\ faults' = faults + 1

(* Writes that have not drawn their sequence number yet (MaxSeq bounds them). *)
Pending == {w \in Worker : pc[w] \in {"called", "begun", "read", "written"}}

(* createPolicy, updatePolicy and deletePolicy up to changePolicy.  A text
   loads next to the files of this replica; If-Match is "*" or the ETag of the
   row as the client read it. *)
Accepted(w) ==
    LET texts == {t \in Text : <<Home[w], t>> \notin Collides}
        tags(p) == {AnyTag} \cup ({stored[p]} \ {NoRow})
    IN  [kind : {"create"}, id : Policy, text : texts, match : {AnyTag}]
        \cup (UNION {[kind : {"update"}, id : {p}, text : texts, match : tags(p)] : p \in Policy})
        \cup (UNION {[kind : {"delete"}, id : {p}, text : {NoText}, match : tags(p)] : p \in Policy})

Call(w) ==
    /\ pc[w] = "idle"
    /\ nextSeq + Cardinality(Pending) <= MaxSeq
    /\ \E q \in Accepted(w) : req' = [req EXCEPT ![w] = q]
    /\ pc' = [pc EXCEPT ![w] = "called"]
    /\ UNCHANGED <<stored, chain, nextSeq, mu, cur, seq, faults, edits>>

(* ChangePolicy past the leader gate. *)
Begin(w) ==
    /\ pc[w] = "called" /\ mu[Home[w]] = NoWorker
    /\ mu' = [mu EXCEPT ![Home[w]] = w]
    /\ pc' = [pc EXCEPT ![w] = "begun"]
    /\ UNCHANGED <<stored, chain, nextSeq, req, cur, seq, faults, edits>>

(* The requests ws are over. *)
Finish(ws) ==
    /\ pc' = [w \in Worker |-> IF w \in ws THEN "idle" ELSE pc[w]]
    /\ req' = [w \in Worker |-> IF w \in ws THEN Idle ELSE req[w]]
    /\ cur' = [w \in Worker |-> IF w \in ws THEN NoRow ELSE cur[w]]
    /\ seq' = [w \in Worker |-> IF w \in ws THEN 0 ELSE seq[w]]

Unlock(w) == mu' = [mu EXCEPT ![Home[w]] = IF mu[Home[w]] = w THEN NoWorker ELSE mu[Home[w]]]

(* SELECT ... FOR UPDATE waits for a transaction that locked the row. *)
RowLocked(p, w) ==
    \E v \in Worker \ {w} : pc[v] \in {"read", "written", "chained"} /\ req[v].id = p /\ cur[v] # NoRow

(* Mutant: If-Match is not compared. *)
AppliesUnmatched(q, row) == (q.kind = "create") <=> (row = NoRow)

(* The PolicyChange callbacks, and ChangePolicy's own check. *)
Applies(q, row) ==
    /\ (q.kind = "create") <=> (row = NoRow)
    /\ q.match \in {AnyTag, row}

ReadRow(w) ==
    /\ pc[w] = "begun" /\ ~RowLocked(req[w].id, w)
    /\ Applies(req[w], stored[req[w].id])
    /\ cur' = [cur EXCEPT ![w] = stored[req[w].id]]
    /\ pc' = [pc EXCEPT ![w] = "read"]
    /\ UNCHANGED <<stored, chain, nextSeq, mu, req, seq, faults, edits>>

(* The change does not apply to the row as it is: 404, 409 or 412. *)
Refused(w) ==
    /\ pc[w] = "begun" /\ ~RowLocked(req[w].id, w)
    /\ ~Applies(req[w], stored[req[w].id])
    /\ Finish({w}) /\ Unlock(w)
    /\ UNCHANGED <<stored, chain, nextSeq, faults, edits>>

(* An INSERT waits for an uncommitted change of the same id. *)
InsertWaits(p, w) ==
    \E v \in Worker \ {w} : pc[v] \in {"written", "chained"} /\ req[v].id = p

Write(w) ==
    /\ pc[w] = "read"
    /\ cur[w] = NoRow => ~InsertWaits(req[w].id, w) /\ stored[req[w].id] = NoRow
    /\ pc' = [pc EXCEPT ![w] = "written"]
    /\ UNCHANGED <<stored, chain, nextSeq, mu, req, cur, seq, faults, edits>>

(* The INSERT meets a row committed since: ErrAlreadyExists. *)
Duplicate(w) ==
    /\ pc[w] = "read" /\ cur[w] = NoRow
    /\ ~InsertWaits(req[w].id, w) /\ stored[req[w].id] # NoRow
    /\ Finish({w}) /\ Unlock(w)
    /\ UNCHANGED <<stored, chain, nextSeq, faults, edits>>

(* appendAuditTx draws the number of the audit row. *)
Append(w) ==
    /\ pc[w] = "written"
    /\ seq' = [seq EXCEPT ![w] = nextSeq]
    /\ nextSeq' = nextSeq + 1
    /\ pc' = [pc EXCEPT ![w] = "chained"]
    /\ UNCHANGED <<stored, chain, mu, req, cur, faults, edits>>

(* Mutant: versions start at 0. *)
WrittenFromZero(w) ==
    IF req[w].kind = "delete" THEN NoRow ELSE [text |-> req[w].text, version |-> cur[w].version]

(* The row the transaction writes: its version starts at 1 and grows by one. *)
Written(w) ==
    IF req[w].kind = "delete" THEN NoRow
    ELSE [text |-> req[w].text, version |-> cur[w].version + 1]

(* Mutant: new_digest is the digest of the text before the change. *)
EventOldDigest(w) == [id |-> req[w].id, text |-> cur[w].text]

(* policyEvent: the audit row of the change, with the digest it leaves. *)
Event(w) == [id |-> req[w].id, text |-> req[w].text]

CommitChange(w) ==
    /\ pc[w] = "chained"
    /\ stored' = [stored EXCEPT ![req[w].id] = Written(w)]
    /\ chain' = [s \in DOMAIN chain \cup {seq[w]} |-> IF s = seq[w] THEN Event(w) ELSE chain[s]]

Commit(w) ==
    /\ CommitChange(w)
    /\ pc' = [pc EXCEPT ![w] = "committed"]
    /\ Unlock(w)
    /\ UNCHANGED <<nextSeq, req, cur, seq, faults, edits>>

(* The transaction committed but the answer was lost: 500, and no reload. *)
CommitReplyLost(w) ==
    /\ CommitChange(w)
    /\ Fault
    /\ Finish({w}) /\ Unlock(w)
    /\ UNCHANGED <<nextSeq, edits>>

(* Mutant: a failed statement leaves auditMu locked. *)
RollbackLocked(w) ==
    /\ pc[w] \in {"called"} \cup InTx
    /\ Fault
    /\ Finish({w})
    /\ UNCHANGED <<stored, chain, nextSeq, mu, edits>>

(* Not the leader, or a statement failed: nothing is written. *)
Rollback(w) ==
    /\ pc[w] \in {"called"} \cup InTx
    /\ Fault
    /\ Finish({w}) /\ Unlock(w)
    /\ UNCHANGED <<stored, chain, nextSeq, edits>>

(* The process dies, and its transactions roll back. *)
CrashWrites(r) ==
    /\ Fault
    /\ Finish({w \in Worker : Home[w] = r})
    /\ mu' = [mu EXCEPT ![r] = NoWorker]
    /\ UNCHANGED <<stored, chain, nextSeq, edits>>

(* A row is edited, added or removed in the database behind the API. *)
EditRow ==
    /\ Fault
    /\ edits' = edits + 1
    /\ \E p \in Policy, t \in Text \cup {NoText} :
        /\ ~RowLocked(p, NoWorker) /\ ~InsertWaits(p, NoWorker)
        /\ t # stored[p].text
        /\ stored' = [stored EXCEPT ![p] = IF t = NoText THEN NoRow ELSE [text |-> t, version |-> 1]]
    /\ UNCHANGED <<chain, nextSeq, mu, work>>

Change(w) ==
    Begin(w) \/ ReadRow(w) \/ Refused(w) \/ Write(w) \/ Duplicate(w) \/ Append(w) \/ Commit(w)

WriteFails(w) == CommitReplyLost(w) \/ Rollback(w)

(* The handler reloads the engine (PolicyLoading) and answers. *)
Answer(w) ==
    /\ pc[w] = "committed"
    /\ Finish({w})
    /\ UNCHANGED <<stored, chain, nextSeq, mu, faults, edits>>

WriteNext ==
    \/ \E w \in Worker : Call(w) \/ Change(w) \/ WriteFails(w) \/ Answer(w)
    \/ \E r \in Replica : CrashWrites(r)
    \/ EditRow

(* Go's mutex and Postgres' locks serve their waiters in turn. *)
WriteSpec ==
    /\ WriteInit /\ [][WriteNext]_writeVars
    /\ \A w \in Worker : SF_writeVars(Change(w)) /\ WF_writeVars(Answer(w))

-----------------------------------------------------------------------------
(* PolicyAuditDigests: the text the latest chain row of each id left. *)
Recorded(rows) ==
    [p \in Policy |->
        LET of == {s \in DOMAIN rows : rows[s].id = p}
        IN  IF of = {} THEN Unrecorded ELSE rows[Max(of)].text]

(* matchAuditChain *)
Matches(set, rec) ==
    \A p \in Policy : set[p] = IF rec[p] = Unrecorded THEN NoText ELSE rec[p]

(* What PolicySet and matchAuditChain rely on: in every committed state the
   newest chain row of each policy records the text in the table, also when
   two replicas write at once and their audit rows commit out of order. *)
ChainMatchesTable ==
    edits = 0 => Matches([p \in Policy |-> stored[p].text], Recorded(chain))

(* No lost update: a write replaces the row it was decided on, and that is
   the row its If-Match named. *)
WritesReplaceWhatTheyRead ==
    [][\A p \in Policy : stored'[p] # stored[p] /\ edits' = edits =>
        \E w \in Worker :
            /\ pc[w] = "chained" /\ req[w].id = p /\ cur[w] = stored[p]
            /\ req[w].match \in {AnyTag, stored[p]}]_writeVars

(* A request never waits for ever: auditMu, the row locks and the unique
   index are never held in a circle. *)
WriteEnds == \A w \in Worker : (pc[w] = "called") ~> (pc[w] = "idle")
=============================================================================
