--------------------------- MODULE AuditLogProofs ---------------------------
(***************************************************************************)
(* Proofs about the audit log, for any number of replicas and workers.     *)
(***************************************************************************)
EXTENDS AuditLog, TLAPS

USE ElectionAssumption, AuditAssumption

(* The election's variables keep their types under every step. *)
LEMMA ElectionTypes == ElectionTypeOK /\ [Next]_vars => ElectionTypeOK'
<1> SUFFICES ASSUME ElectionTypeOK, [Next]_vars PROVE ElectionTypeOK'
    OBVIOUS
<1> USE DEF ElectionTypeOK, HeldState
<1>1. CASE UNCHANGED electionVars
    BY <1>1 DEF electionVars
<1>2. CASE ElectionStep
    <2>1. CASE ReapSession
        BY <2>1 DEF ReapSession
    <2>2. ASSUME NEW r \in Replica, Acquire(r) PROVE ElectionTypeOK'
        BY <2>2 DEF Acquire
    <2>3. ASSUME NEW r \in Replica, AcquireReplyLost(r) PROVE ElectionTypeOK'
        BY <2>3 DEF AcquireReplyLost, Fault
    <2>4. ASSUME NEW r \in Replica, Ping(r) PROVE ElectionTypeOK'
        BY <2>4 DEF Ping, electionVars
    <2>5. ASSUME NEW r \in Replica, SessionLost(r) PROVE ElectionTypeOK'
        BY <2>5 DEF SessionLost, Fault
    <2>6. ASSUME NEW r \in Replica, ReleaseLost(r) PROVE ElectionTypeOK'
        BY <2>6 DEF ReleaseLost
    <2>7. ASSUME NEW r \in Replica, ReleaseOpen(r) PROVE ElectionTypeOK'
        BY <2>7 DEF ReleaseOpen, Fault
    <2>8. ASSUME NEW r \in Replica, ClearFlag(r) PROVE ElectionTypeOK'
        BY <2>8 DEF ClearFlag
    <2> QED BY <1>2, <2>1, <2>2, <2>3, <2>4, <2>5, <2>6, <2>7, <2>8 DEF ElectionStep
<1>3. ASSUME NEW r \in Replica, Crash(r) PROVE ElectionTypeOK'
    BY <1>3 DEF Crash, Fault
<1>4. ASSUME NEW r \in Replica, Restart(r) PROVE ElectionTypeOK'
    BY <1>4 DEF Restart
<1> QED BY Zenon, <1>1, <1>2, <1>3, <1>4 DEF Next, LogStep, vars, CrashReplica, RestartReplica

(* What the audit log's own part of TypeOK says. *)
AuditTypeOK ==
    /\ nextSeq \in 1..MaxSeq + 1
    /\ DOMAIN rows \subseteq 1..MaxSeq
    /\ \A s \in DOMAIN rows : rows[s] \in Row
    /\ DOMAIN once \subseteq Key
    /\ \A k \in DOMAIN once : once[k] \in Digest
    /\ aged \subseteq Key
    /\ epoch \in 0..MaxSeq
    /\ keyed \in [Replica -> BOOLEAN]
    /\ epochKnown \in [Replica -> BOOLEAN]
    /\ mu \in [Replica -> Worker \cup {NoWorker}]
    /\ pc \in [Worker -> {"idle", "waiting"} \cup Locked]
    /\ event \in [Worker -> {Plain} \cup OnceEvent]
    /\ prev \in [Worker -> 0..MaxSeq]
    /\ seq \in [Worker -> 0..MaxSeq]
    /\ overlap \in BOOLEAN

(* A sequence number handed out is a positive one. *)
SeqTaken == \A w \in Worker : pc[w] \in {"inserting", "inserted"} => seq[w] \in 1..MaxSeq

(* The log's variables keep their types under every step, and a transaction
   that inserts has a number from the table's sequence. *)
LEMMA AuditTypes ==
    AuditTypeOK /\ SeqTaken /\ [Next]_vars => AuditTypeOK' /\ SeqTaken'
<1> SUFFICES ASSUME AuditTypeOK, SeqTaken, [Next]_vars PROVE AuditTypeOK' /\ SeqTaken'
    OBVIOUS
<1> USE DEF AuditTypeOK, SeqTaken, Locked, Chaining
<1>1. CASE UNCHANGED auditVars
    BY <1>1 DEF auditVars, work
<1>2. ASSUME NEW w \in Worker, WorkerStep(w) PROVE AuditTypeOK' /\ SeqTaken'
    <2> USE DEF Unlock, Finish
    <2>1. ASSUME NEW ev \in Submitted, Call(w, ev) PROVE AuditTypeOK' /\ SeqTaken'
        BY <2>1 DEF Call, Submitted
    <2>2. CASE Begin(w)
        BY <2>2 DEF Begin
    <2>3. CASE InsertKey(w)
        <3>1. event[w] \in OnceEvent
            BY <2>3 DEF InsertKey
        <3>2. event' \in [Worker -> {Plain} \cup OnceEvent]
            BY <2>3, <3>1 DEF InsertKey, OnceEvent
        <3> QED BY <2>3, <3>2 DEF InsertKey
    <2>4. CASE Duplicate(w)
        BY <2>4 DEF Duplicate
    <2>5. CASE ReadHead(w)
        BY <2>5 DEF ReadHead
    <2>6. CASE TakeSeq(w)
        BY <2>6 DEF TakeSeq
    <2>7. CASE Insert(w)
        BY <2>7 DEF Insert
    <2>8. CASE CommitRow(w) /\ DOMAIN once' \subseteq DOMAIN KeysWith(w)
               /\ (\A k \in DOMAIN once' : once'[k] = KeysWith(w)[k])
               /\ aged' = aged /\ epochKnown' \in [Replica -> BOOLEAN]
        <3>1. DOMAIN KeysWith(w) \subseteq Key /\ \A k \in DOMAIN KeysWith(w) : KeysWith(w)[k] \in Digest
            BY DEF KeysWith, OnceEvent, Plain
        <3>2. DOMAIN rows' \subseteq 1..MaxSeq /\ \A s \in DOMAIN rows' : rows'[s] \in Row
            BY <2>8 DEF CommitRow, Row
        <3>3. pc' \in [Worker -> {"idle", "waiting"} \cup Locked]
              /\ event' \in [Worker -> {Plain} \cup OnceEvent]
              /\ prev' \in [Worker -> 0..MaxSeq] /\ seq' \in [Worker -> 0..MaxSeq]
              /\ SeqTaken'
            BY <2>8 DEF CommitRow
        <3>4. epoch' \in 0..MaxSeq /\ mu' \in [Replica -> Worker \cup {NoWorker}]
              /\ nextSeq' = nextSeq /\ keyed' = keyed /\ overlap' = overlap
            BY <2>8 DEF CommitRow
        <3>5. DOMAIN once' \subseteq Key /\ \A k \in DOMAIN once' : once'[k] \in Digest
            BY <2>8, <3>1
        <3> QED BY <2>8, <3>2, <3>3, <3>4, <3>5
    <2>9. CASE Commit(w)
        BY <2>8, <2>9 DEF Commit, Forget
    <2>10. CASE CommitReplyLost(w)
        BY <2>8, <2>10 DEF CommitReplyLost
    <2>11. CASE Rollback(w)
        BY <2>11 DEF Rollback
    <2> QED BY <1>2, <2>1, <2>2, <2>3, <2>4, <2>5, <2>6, <2>7, <2>9, <2>10, <2>11
            DEF WorkerStep, Progress
<1>3. ASSUME NEW k \in Key, Age(k) PROVE AuditTypeOK' /\ SeqTaken'
    BY <1>3 DEF Age, work
<1>4. ASSUME NEW r \in Replica, CrashReplica(r) PROVE AuditTypeOK' /\ SeqTaken'
    BY <1>4 DEF CrashReplica, Finish
<1>5. ASSUME NEW r \in Replica, RestartReplica(r) PROVE AuditTypeOK' /\ SeqTaken'
    BY Zenon, <1>5 DEF RestartReplica, work
<1> QED BY <1>1, <1>2, <1>3, <1>4, <1>5 DEF Next, LogStep, vars

(* The types hold of an empty log. *)
LEMMA InitTypes == Init => ElectionTypeOK /\ AuditTypeOK /\ SeqTaken
<1> SUFFICES ASSUME Init PROVE ElectionTypeOK /\ AuditTypeOK /\ SeqTaken
    OBVIOUS
<1>1. ElectionTypeOK
    BY DEF Init, ElectionInit, ElectionTypeOK, HeldState
<1>2. DOMAIN rows = {} /\ DOMAIN once = {}
    BY DEF Init
<1>3. keyed \in [Replica -> BOOLEAN] /\ epochKnown \in [Replica -> BOOLEAN]
    BY Zenon DEF Init
<1>4. /\ pc \in [Worker -> {"idle", "waiting"} \cup Locked]
      /\ event \in [Worker -> {Plain} \cup OnceEvent]
      /\ prev \in [Worker -> 0..MaxSeq] /\ seq \in [Worker -> 0..MaxSeq]
      /\ SeqTaken
    BY DEF Init, SeqTaken
<1>5. nextSeq \in 1..MaxSeq + 1 /\ epoch \in 0..MaxSeq /\ aged \subseteq Key
    BY DEF Init
<1>6. mu \in [Replica -> Worker \cup {NoWorker}] /\ overlap \in BOOLEAN
    BY Zenon DEF Init
<1> QED BY <1>1, <1>2, <1>3, <1>4, <1>5, <1>6 DEF AuditTypeOK

(* Every variable keeps its type, for any number of replicas and workers. *)
THEOREM TypeCorrect == Spec => []TypeOK
<1>1. ElectionTypeOK /\ AuditTypeOK /\ SeqTaken /\ [Next]_vars
          => (ElectionTypeOK /\ AuditTypeOK /\ SeqTaken)'
    BY ElectionTypes, AuditTypes
<1>2. ElectionTypeOK /\ AuditTypeOK => TypeOK
    BY DEF TypeOK, AuditTypeOK
<1> QED BY InitTypes, <1>1, <1>2, PTL DEF Spec

(* auditMu is held by exactly the worker whose transaction is open. *)
LEMMA MutexStep == AuditTypeOK /\ MutexCoversTx /\ [Next]_vars => MutexCoversTx'
<1> SUFFICES ASSUME AuditTypeOK, MutexCoversTx, [Next]_vars PROVE MutexCoversTx'
    OBVIOUS
<1> USE DEF AuditTypeOK, MutexCoversTx, Locked, Chaining
<1>1. CASE UNCHANGED auditVars
    BY <1>1 DEF auditVars, work
<1>2. ASSUME NEW w \in Worker, WorkerStep(w) PROVE MutexCoversTx'
    <2>1. ASSUME NEW ev \in Submitted, Call(w, ev) PROVE MutexCoversTx'
        BY <2>1 DEF Call
    <2>2. CASE Begin(w)
        BY <2>2 DEF Begin
    <2>3. CASE InsertKey(w) \/ ReadHead(w) \/ TakeSeq(w) \/ Insert(w)
        BY <2>3 DEF InsertKey, ReadHead, TakeSeq, Insert
    <2>4. ASSUME pc[w] \in Locked, Unlock(w), Finish({w}) PROVE MutexCoversTx'
        BY <2>4 DEF Unlock, Finish
    <2> QED BY <1>2, <2>1, <2>2, <2>3, <2>4
            DEF WorkerStep, Progress, Duplicate, Commit, CommitReplyLost, CommitRow, Rollback
<1>3. ASSUME NEW k \in Key, Age(k) PROVE MutexCoversTx'
    BY <1>3 DEF Age, work
<1>4. ASSUME NEW r \in Replica, CrashReplica(r) PROVE MutexCoversTx'
    BY <1>4 DEF CrashReplica, Finish
<1>5. ASSUME NEW r \in Replica, RestartReplica(r) PROVE MutexCoversTx'
    BY <1>5 DEF RestartReplica, work
<1> QED BY <1>1, <1>2, <1>3, <1>4, <1>5 DEF Next, LogStep, vars

(* No two transactions of one replica overlap: auditMu covers a
   transaction of AppendAudit or AppendAuditOnce from BEGIN to its end. *)
THEOREM MutexCorrect == Spec => []MutexCoversTx
<1>1. Init => MutexCoversTx
    BY DEF Init, MutexCoversTx, Locked, Chaining
<1>2. AuditTypeOK /\ SeqTaken /\ MutexCoversTx /\ [Next]_vars
          => (AuditTypeOK /\ SeqTaken /\ MutexCoversTx)'
    BY AuditTypes, MutexStep
<1> QED BY InitTypes, <1>1, <1>2, PTL DEF Spec

-----------------------------------------------------------------------------
(* The strengthening that makes the chain properties inductive.  A number
   handed out is used by one row only, a transaction links to a committed
   row below its own number, and while no two replicas have overlapped
   there is at most one open transaction, and it links to the newest row. *)
Numbered == {"inserting", "inserted"}

SeqsBelow ==
    /\ \A s \in DOMAIN rows : s < nextSeq
    /\ \A w \in Worker : pc[w] \in Numbered => seq[w] < nextSeq

SeqsFresh ==
    /\ \A w \in Worker : pc[w] \in Numbered => seq[w] \notin DOMAIN rows
    /\ \A v, w \in Worker : pc[v] \in Numbered /\ pc[w] \in Numbered /\ seq[v] = seq[w] => v = w

PrevsCommitted ==
    \A w \in Worker :
        /\ pc[w] \in Chaining => prev[w] \in DOMAIN rows \cup {0}
        /\ pc[w] \in Numbered => prev[w] < seq[w]

OneChaining ==
    ~overlap => \A v, w \in Worker : pc[v] \in Chaining /\ pc[w] \in Chaining => v = w

LinksToHead ==
    ~overlap => \A w \in Worker : pc[w] \in Chaining => \A s \in DOMAIN rows : s <= prev[w]

ChainFacts ==
    /\ SeqsBelow /\ SeqsFresh /\ PrevsCommitted /\ OneChaining /\ LinksToHead
    /\ RowsHangTogether
    /\ SingleWriterChainLinear

(* Ending calls only takes transactions away. *)
LEMMA FinishKeeps ==
    ASSUME AuditTypeOK, ChainFacts, NEW ws \in SUBSET Worker, Finish(ws),
           UNCHANGED <<rows, nextSeq, overlap>>
    PROVE  ChainFacts'
<1> USE DEF AuditTypeOK, ChainFacts, Finish, Numbered, Chaining
<1>1. SeqsBelow' /\ SeqsFresh' /\ PrevsCommitted'
    BY DEF SeqsBelow, SeqsFresh, PrevsCommitted
<1>2. OneChaining' /\ LinksToHead'
    BY DEF OneChaining, LinksToHead
<1>3. RowsHangTogether' /\ SingleWriterChainLinear'
    BY DEF RowsHangTogether, SingleWriterChainLinear, ChainLinear, Linked
<1> QED BY <1>1, <1>2, <1>3

(* Reading the head opens the only transaction, or sets overlap. *)
LEMMA ReadHeadKeeps ==
    ASSUME AuditTypeOK, MutexCoversTx, ChainFacts, NEW w \in Worker, ReadHead(w)
    PROVE  ChainFacts'
<1> USE DEF AuditTypeOK, ChainFacts, ReadHead, Numbered, Chaining
<1>1. SeqsBelow' /\ SeqsFresh'
    BY DEF SeqsBelow, SeqsFresh
<1>2. PrevsCommitted'
    BY DEF PrevsCommitted
<1>3. OneChaining'
    <2> SUFFICES ASSUME ~overlap', NEW v \in Worker, v # w, pc[v] \in Chaining PROVE FALSE
        BY DEF OneChaining
    <2>1. Home[v] = Home[w]
        BY Zenon
    <2>2. pc[w] \in Locked /\ pc[v] \in Locked
        BY DEF Locked
    <2> QED BY <2>1, <2>2 DEF MutexCoversTx
<1>4. LinksToHead'
    <2> SUFFICES ASSUME ~overlap', NEW v \in Worker, pc'[v] \in Chaining, NEW s \in DOMAIN rows
                 PROVE  s <= prev'[v]
        BY DEF LinksToHead
    <2>1. CASE v = w
        BY <2>1 DEF IsHead
    <2>2. CASE v # w
        BY <2>2 DEF LinksToHead
    <2> QED BY <2>1, <2>2
<1>5. RowsHangTogether' /\ SingleWriterChainLinear'
    BY DEF RowsHangTogether, SingleWriterChainLinear, ChainLinear, Linked
<1> QED BY <1>1, <1>2, <1>3, <1>4, <1>5

(* A number taken is above every row and every other number. *)
LEMMA TakeSeqKeeps ==
    ASSUME AuditTypeOK, ChainFacts, NEW w \in Worker, TakeSeq(w)
    PROVE  ChainFacts'
<1> USE DEF AuditTypeOK, ChainFacts, TakeSeq, Numbered, Chaining
<1>1. SeqsBelow' /\ SeqsFresh'
    BY DEF SeqsBelow, SeqsFresh
<1>2. PrevsCommitted'
    BY DEF PrevsCommitted, SeqsBelow
<1>3. OneChaining' /\ LinksToHead'
    BY DEF OneChaining, LinksToHead
<1>4. RowsHangTogether' /\ SingleWriterChainLinear'
    BY DEF RowsHangTogether, SingleWriterChainLinear, ChainLinear, Linked
<1> QED BY <1>1, <1>2, <1>3, <1>4

(* The committed row links to the newest row when nobody else wrote. *)
LEMMA CommitKeeps ==
    ASSUME AuditTypeOK, SeqTaken, ChainFacts, NEW w \in Worker, CommitRow(w)
    PROVE  ChainFacts'
<1> USE DEF AuditTypeOK, ChainFacts, Numbered, Chaining
<1>1. /\ DOMAIN rows' = DOMAIN rows \cup {seq[w]}
      /\ rows'[seq[w]].prev = prev[w]
      /\ \A s \in DOMAIN rows : rows'[s] = rows[s]
      /\ seq[w] \notin DOMAIN rows /\ seq[w] < nextSeq /\ seq[w] \in 1..MaxSeq
      /\ prev[w] < seq[w] /\ prev[w] \in DOMAIN rows \cup {0}
    BY DEF CommitRow, SeqsFresh, SeqsBelow, PrevsCommitted, SeqTaken
<1>2. /\ pc' = [v \in Worker |-> IF v = w THEN "idle" ELSE pc[v]]
      /\ prev' = [v \in Worker |-> IF v = w THEN 0 ELSE prev[v]]
      /\ seq' = [v \in Worker |-> IF v = w THEN 0 ELSE seq[v]]
      /\ nextSeq' = nextSeq /\ overlap' = overlap /\ pc[w] = "inserted"
    BY DEF CommitRow, Finish
<1>3. SeqsBelow' /\ SeqsFresh'
    BY <1>1, <1>2 DEF SeqsBelow, SeqsFresh
<1>4. PrevsCommitted'
    BY <1>1, <1>2 DEF PrevsCommitted
<1>5. OneChaining' /\ LinksToHead'
    BY <1>1, <1>2 DEF OneChaining, LinksToHead
<1>6. RowsHangTogether'
    BY <1>1 DEF RowsHangTogether
<1>7. SingleWriterChainLinear'
    <2> SUFFICES ASSUME ~overlap, NEW s \in DOMAIN rows' PROVE Linked(s)'
        BY <1>2 DEF SingleWriterChainLinear, ChainLinear
    <2>1. \A t \in DOMAIN rows : t <= prev[w]
        BY <1>2 DEF LinksToHead
    <2>2. CASE s = seq[w]
        BY <1>1, <2>1, <2>2 DEF Linked
    <2>3. CASE s \in DOMAIN rows
        <3>1. Linked(s) /\ rows'[s] = rows[s] /\ s < seq[w]
            BY <1>1, <2>1, <2>3 DEF SingleWriterChainLinear, ChainLinear
        <3> QED BY <1>1, <3>1 DEF Linked
    <2> QED BY <1>1, <2>2, <2>3
<1> QED BY <1>3, <1>4, <1>5, <1>6, <1>7

(* Steps that touch neither the rows nor a chaining transaction. *)
LEMMA OtherKeeps ==
    ASSUME AuditTypeOK, ChainFacts, UNCHANGED <<rows, nextSeq, prev, seq, overlap>>,
           \A w \in Worker : \/ pc'[w] = pc[w]
                             \/ pc'[w] \notin Chaining
                             \/ pc[w] \in Numbered /\ pc'[w] \in Numbered
    PROVE  ChainFacts'
<1> USE DEF AuditTypeOK, ChainFacts, Numbered, Chaining
<1>1. SeqsBelow' /\ SeqsFresh' /\ PrevsCommitted'
    BY DEF SeqsBelow, SeqsFresh, PrevsCommitted
<1>2. OneChaining' /\ LinksToHead'
    BY DEF OneChaining, LinksToHead
<1>3. RowsHangTogether' /\ SingleWriterChainLinear'
    BY DEF RowsHangTogether, SingleWriterChainLinear, ChainLinear, Linked
<1> QED BY <1>1, <1>2, <1>3

(* Every step keeps what the chain's linearity rests on. *)
LEMMA ChainStep ==
    AuditTypeOK /\ SeqTaken /\ MutexCoversTx /\ ChainFacts /\ [Next]_vars => ChainFacts'
<1> SUFFICES ASSUME AuditTypeOK, SeqTaken, MutexCoversTx, ChainFacts, [Next]_vars
             PROVE  ChainFacts'
    OBVIOUS
<1>1. CASE UNCHANGED auditVars
    BY <1>1, OtherKeeps DEF auditVars, work
<1>2. ASSUME NEW w \in Worker, WorkerStep(w) PROVE ChainFacts'
    <2> USE DEF AuditTypeOK
    <2>1. ASSUME NEW ev \in Submitted, Call(w, ev) PROVE ChainFacts'
        BY <2>1, OtherKeeps DEF Call, Chaining
    <2>2. CASE Begin(w)
        BY <2>2, OtherKeeps DEF Begin, Chaining
    <2>3. CASE InsertKey(w)
        BY <2>3, OtherKeeps DEF InsertKey, Chaining
    <2>4. CASE Insert(w)
        BY <2>4, OtherKeeps DEF Insert, Numbered
    <2>5. CASE Duplicate(w) \/ Rollback(w)
        BY <2>5, FinishKeeps DEF Duplicate, Rollback
    <2> QED BY <1>2, <2>1, <2>2, <2>3, <2>4, <2>5, ReadHeadKeeps, TakeSeqKeeps, CommitKeeps
            DEF WorkerStep, Progress, Commit, CommitReplyLost
<1>3. ASSUME NEW k \in Key, Age(k) PROVE ChainFacts'
    BY <1>3, OtherKeeps DEF Age, work
<1>4. ASSUME NEW r \in Replica, CrashReplica(r) PROVE ChainFacts'
    BY <1>4, FinishKeeps DEF CrashReplica
<1>5. ASSUME NEW r \in Replica, RestartReplica(r) PROVE ChainFacts'
    BY <1>5, OtherKeeps DEF RestartReplica, work
<1> QED BY <1>1, <1>2, <1>3, <1>4, <1>5 DEF Next, LogStep, vars

(* The whole inductive invariant. *)
ChainInv == AuditTypeOK /\ SeqTaken /\ MutexCoversTx /\ ChainFacts

(* An empty log satisfies it. *)
LEMMA ChainInvInit == Init => ChainInv
<1>1. Init => ChainFacts /\ MutexCoversTx
    <2> SUFFICES ASSUME Init PROVE ChainFacts /\ MutexCoversTx
        OBVIOUS
    <2>1. DOMAIN rows = {} /\ \A w \in Worker : pc[w] = "idle" /\ mu[Home[w]] # w
        BY DEF Init
    <2> QED BY <2>1 DEF ChainFacts, SeqsBelow, SeqsFresh, PrevsCommitted, OneChaining, LinksToHead,
                RowsHangTogether, SingleWriterChainLinear, ChainLinear, MutexCoversTx,
                Chaining, Numbered, Locked
<1> QED BY InitTypes, <1>1 DEF ChainInv

(* Every step keeps it. *)
LEMMA ChainInvStep == ChainInv /\ [Next]_vars => ChainInv'
BY AuditTypes, MutexStep, ChainStep DEF ChainInv

(* The inductive invariant of the chain: types, auditMu over transactions,
   numbers above every committed row, and a head that is still the newest
   row while one replica writes. *)
THEOREM ChainInvariant == Spec => []ChainInv
<1> QED BY ChainInvInit, ChainInvStep, PTL DEF Spec

(* While no two replicas' appends have overlapped, the log is one line. *)
THEOREM SingleWriterLinear == Spec => []SingleWriterChainLinear
<1>1. ChainInv => SingleWriterChainLinear
    BY DEF ChainInv, ChainFacts
<1> QED BY ChainInvariant, <1>1, PTL

(* With any number of writers the log is one tree: every row links to an
   earlier committed row. *)
THEOREM RowsAreATree == Spec => []RowsHangTogether
<1>1. ChainInv => RowsHangTogether
    BY DEF ChainInv, ChainFacts
<1> QED BY ChainInvariant, <1>1, PTL

-----------------------------------------------------------------------------
(* All workers live in one process: SQLite, or one Postgres replica. *)
OneProcess == \A v, w \in Worker : Home[v] = Home[w]

(* One process cannot overlap with itself. *)
LEMMA NoOverlap == OneProcess /\ ~overlap /\ [Next]_vars => ~overlap'
<1> SUFFICES ASSUME OneProcess, ~overlap, [Next]_vars PROVE ~overlap'
    OBVIOUS
<1>1. ASSUME NEW w \in Worker, ReadHead(w) PROVE ~overlap'
    BY Zenon, <1>1 DEF ReadHead, OneProcess
<1>2. ASSUME NEW w \in Worker, WorkerStep(w), ~ReadHead(w) PROVE overlap' = overlap
    BY Zenon, <1>2 DEF WorkerStep, Progress, Call, Begin, InsertKey, Duplicate, TakeSeq, Insert, Commit,
                CommitReplyLost, CommitRow, Rollback
<1>3. ASSUME NEW k \in Key, Age(k) PROVE overlap' = overlap
    BY <1>3 DEF Age
<1>4. ASSUME NEW r \in Replica, CrashReplica(r) \/ RestartReplica(r) PROVE overlap' = overlap
    BY <1>4 DEF CrashReplica, RestartReplica
<1> QED BY <1>1, <1>2, <1>3, <1>4 DEF Next, LogStep, vars, auditVars

(* In one process the audit log is a single hash chain, whatever fails. *)
THEOREM OneProcessLinear == OneProcess => (Spec => []ChainLinear)
<1> SUFFICES ASSUME OneProcess PROVE Spec => []ChainLinear
    OBVIOUS
<1>1. Init => ~overlap
    BY DEF Init
<1>2. ~overlap /\ [Next]_vars => ~overlap'
    BY NoOverlap
<1>3. ChainInv /\ ~overlap => ChainLinear
    BY DEF ChainInv, ChainFacts, SingleWriterChainLinear
<1> QED BY ChainInvariant, <1>1, <1>2, <1>3, PTL DEF Spec

-----------------------------------------------------------------------------
(* The newest row exists and is the one HeadSeq chooses. *)
HasHead == \E h \in DOMAIN rows \cup {0} : IsHead(h)

(* A log has one newest row. *)
LEMMA HeadUnique ==
    ASSUME AuditTypeOK, NEW h \in DOMAIN rows \cup {0}, IsHead(h)
    PROVE  HeadSeq = h
BY DEF AuditTypeOK, HeadSeq, IsHead

(* The rows change only when a transaction commits. *)
LEMMA RowsChange ==
    [Next]_vars => UNCHANGED rows \/ \E w \in Worker : CommitRow(w)
<1> SUFFICES ASSUME [Next]_vars, \A w \in Worker : ~CommitRow(w) PROVE UNCHANGED rows
    OBVIOUS
<1>1. ASSUME NEW w \in Worker, WorkerStep(w) PROVE UNCHANGED rows
    BY Zenon, <1>1 DEF WorkerStep, Progress, Call, Begin, InsertKey, Duplicate, ReadHead, TakeSeq, Insert,
                Commit, CommitReplyLost, Rollback
<1>2. ASSUME NEW k \in Key, Age(k) PROVE UNCHANGED rows
    BY <1>2 DEF Age
<1>3. ASSUME NEW r \in Replica, CrashReplica(r) \/ RestartReplica(r) PROVE UNCHANGED rows
    BY <1>3 DEF CrashReplica, RestartReplica
<1> QED BY <1>1, <1>2, <1>3 DEF Next, LogStep, vars, auditVars

(* A commit without overlap is an Append of the abstract chain. *)
LEMMA CommitRefines ==
    ASSUME ChainInv, ~overlap, HasHead, NEW w \in Worker, CommitRow(w), AuditTypeOK'
    PROVE  Chain!Append /\ HasHead'
<1> USE DEF ChainInv, ChainFacts
<1>1. /\ DOMAIN rows' = DOMAIN rows \cup {seq[w]}
      /\ rows'[seq[w]].prev = prev[w]
      /\ \A s \in DOMAIN rows : rows'[s] = rows[s]
      /\ seq[w] \notin DOMAIN rows /\ seq[w] \in 1..MaxSeq
      /\ prev[w] < seq[w] /\ prev[w] \in DOMAIN rows \cup {0}
    BY Zenon DEF CommitRow, SeqsFresh, PrevsCommitted, SeqTaken, Numbered, Chaining
<1>2. \A s \in DOMAIN rows : s <= prev[w]
    BY Zenon DEF LinksToHead, CommitRow, Chaining
<1>3. HeadSeq = prev[w]
    BY Zenon, <1>1, <1>2, HeadUnique DEF IsHead
<1>4. \A s \in DOMAIN rows' : s <= seq[w]
    <2> HIDE DEF ChainInv, ChainFacts
    <2>1. DOMAIN rows' \subseteq 1..MaxSeq
        BY DEF AuditTypeOK
    <2>2. prev[w] \in 0..MaxSeq
        BY <1>1, <2>1
    <2> QED BY <1>1, <1>2, <2>1, <2>2
<1>5. \A h \in DOMAIN rows' \cup {0} : (\A s \in DOMAIN rows' : s <= h) <=> h = seq[w]
    <2> HIDE DEF ChainInv, ChainFacts
    <2> TAKE h \in DOMAIN rows' \cup {0}
    <2>1. DOMAIN rows' \subseteq 1..MaxSeq /\ MaxSeq \in Nat
        BY DEF AuditTypeOK
    <2>2. seq[w] \in DOMAIN rows' /\ seq[w] \in 1..MaxSeq
        BY <1>1
    <2>3. h \in 0..MaxSeq
        BY <2>1
    <2>4. h <= seq[w]
        BY <1>4, <2>1, <2>2
    <2>5. ASSUME \A s \in DOMAIN rows' : s <= h PROVE h = seq[w]
        <3>1. seq[w] <= h
            BY <2>2, <2>5
        <3> QED BY <2>1, <2>2, <2>3, <2>4, <3>1
    <2> QED BY <1>4, <2>5
<1>6. HeadSeq' = seq[w]
    BY <1>1, <1>5 DEF HeadSeq, IsHead
<1> QED BY <1>1, <1>3, <1>4, <1>6 DEF Chain!Append, HasHead, IsHead, AuditTypeOK

(* The audit log of one process implements the append-only hash chain. *)
THEOREM Refinement == OneProcess => (Spec => ImplementsHashChain)
<1> SUFFICES ASSUME OneProcess PROVE Spec => ImplementsHashChain
    OBVIOUS
<1>1. Init => Chain!Init /\ ~overlap /\ HasHead
    <2> SUFFICES ASSUME Init PROVE Chain!Init /\ ~overlap /\ HasHead
        OBVIOUS
    <2>1. DOMAIN rows = {} /\ ~overlap
        BY DEF Init
    <2> QED BY <2>1 DEF Chain!Init, HasHead, HeadSeq, IsHead
<1>2. ChainInv /\ ChainInv' /\ ~overlap /\ HasHead /\ [Next]_vars
          => [Chain!Append]_<<rows, HeadSeq>> /\ HasHead'
    <2> SUFFICES ASSUME ChainInv, ChainInv', ~overlap, HasHead, [Next]_vars
                 PROVE  [Chain!Append]_<<rows, HeadSeq>> /\ HasHead'
        OBVIOUS
    <2>1. CASE UNCHANGED rows
        BY <2>1 DEF HasHead, HeadSeq, IsHead
    <2>2. ASSUME NEW w \in Worker, CommitRow(w) PROVE [Chain!Append]_<<rows, HeadSeq>> /\ HasHead'
        BY <2>2, CommitRefines DEF ChainInv
    <2> QED BY <2>1, <2>2, RowsChange
<1>3. ~overlap /\ [Next]_vars => ~overlap'
    BY NoOverlap
<1> QED BY ChainInvariant, <1>1, <1>2, <1>3, PTL DEF Spec, ImplementsHashChain, Chain!Spec

=============================================================================
