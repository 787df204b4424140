-------------------------- MODULE AuditRecordProofs --------------------------
(***************************************************************************)
(* Proofs about the rows of the audit log: events recorded once per key,   *)
(* keyed rows, and the pumps that forward them, for any number of replicas *)
(* and workers and any batch size.                                         *)
(***************************************************************************)
EXTENDS AuditPump, AuditLogProofs, Integers, FiniteSetTheorems, WellFoundedInduction

USE ElectionAssumption, AuditAssumption, PumpAssumption

(* What makes OncePerKey inductive: a recorded key is remembered or aged, a
   transaction that inserted a new key is the only one with it, and the key
   is not yet in the table.  No call carries an aged key. *)
KeyHeld == {"keyed"} \cup Chaining

OnceFacts ==
    /\ OncePerKey
    /\ \A s \in DOMAIN rows :
          rows[s].event.kind = "once" => rows[s].event.key \in DOMAIN once \cup aged
    /\ \A w \in Worker : event[w].key \notin aged
    /\ \A w \in Worker :
          pc[w] \in KeyHeld /\ event[w].kind = "once" => event[w].key \notin DOMAIN once
    /\ \A v, w \in Worker :
          pc[v] \in KeyHeld /\ pc[w] \in KeyHeld /\ event[v].kind = "once" /\ event[v].key = event[w].key
              => v = w

(* Steps that add no row, change no key and open no key-holding transaction. *)
LEMMA OnceOther ==
    ASSUME AuditTypeOK, OnceFacts, UNCHANGED <<rows, once, aged>>,
           \A w \in Worker : event'[w].key \notin aged,
           \A w \in Worker : pc'[w] \in KeyHeld => pc[w] \in KeyHeld /\ event'[w] = event[w]
    PROVE  OnceFacts'
BY DEF OnceFacts, OncePerKey

(* Ending calls records nothing under a key. *)
LEMMA OnceFinish ==
    ASSUME AuditTypeOK, OnceFacts, NEW ws \in SUBSET Worker, Finish(ws), UNCHANGED <<rows, once, aged>>
    PROVE  OnceFacts'
<1>1. \A w \in Worker : event'[w].key \notin aged
    BY DEF Finish, OnceFacts, AuditTypeOK, Plain
<1>2. \A w \in Worker : pc'[w] \in KeyHeld => pc[w] \in KeyHeld /\ event'[w] = event[w]
    BY DEF Finish, KeyHeld, Chaining
<1> QED BY <1>1, <1>2, OnceOther

(* A key is inserted by one transaction at a time, and only when no event
   was recorded under it. *)
LEMMA OnceInsertKey ==
    ASSUME AuditTypeOK, OnceFacts, NEW w \in Worker, InsertKey(w)
    PROVE  OnceFacts'
<1>1. /\ event'[w].key = event[w].key
      /\ event'[w].kind = "once" => event[w].key \notin DOMAIN once
      /\ \A v \in Worker \ {w} : event'[v] = event[v] /\ pc'[v] = pc[v]
      /\ UNCHANGED <<rows, once, aged>>
    BY DEF InsertKey, AuditTypeOK
<1>2. \A v \in Worker \ {w} : pc[v] \in KeyHeld => event[v].key # event[w].key
    BY DEF InsertKey, KeyFree, KeyHeld
<1>3. OncePerKey'
    BY <1>1 DEF OnceFacts, OncePerKey
<1>4. (\A s \in DOMAIN rows :
          rows[s].event.kind = "once" => rows[s].event.key \in DOMAIN once \cup aged)'
    BY <1>1 DEF OnceFacts
<1>5. (\A v \in Worker : event[v].key \notin aged)'
    BY <1>1 DEF OnceFacts
<1>6. (\A v \in Worker :
          pc[v] \in KeyHeld /\ event[v].kind = "once" => event[v].key \notin DOMAIN once)'
    BY <1>1 DEF OnceFacts
<1>7. (\A u, v \in Worker :
          pc[u] \in KeyHeld /\ pc[v] \in KeyHeld /\ event[u].kind = "once" /\ event[u].key = event[v].key
              => u = v)'
    <2>1. \A u, v \in Worker :
              pc[u] \in KeyHeld /\ pc[v] \in KeyHeld /\ event[u].kind = "once" /\ event[u].key = event[v].key
                  => u = v
        BY DEF OnceFacts
    <2> SUFFICES ASSUME NEW u \in Worker, NEW v \in Worker, u # v,
                        pc'[u] \in KeyHeld, pc'[v] \in KeyHeld,
                        event'[u].kind = "once", event'[u].key = event'[v].key
                 PROVE  FALSE
        BY DEF KeyHeld
    <2>2. CASE u = w
        BY <1>1, <1>2, <2>2
    <2>3. CASE v = w
        BY <1>1, <1>2, <2>3
    <2>4. CASE u # w /\ v # w
        BY <1>1, <2>1, <2>4
    <2> QED BY <2>2, <2>3, <2>4
<1> QED BY <1>3, <1>4, <1>5, <1>6, <1>7 DEF OnceFacts

(* A commit makes the event and its key visible together. *)
LEMMA OnceCommit ==
    ASSUME AuditTypeOK, SeqTaken, ChainFacts, OnceFacts, NEW w \in Worker, CommitRow(w), aged' = aged,
           NEW gone \in SUBSET aged, DOMAIN once' = DOMAIN KeysWith(w) \ gone
    PROVE  OnceFacts'
<1>1. /\ DOMAIN rows' = DOMAIN rows \cup {seq[w]} /\ seq[w] \notin DOMAIN rows
      /\ rows'[seq[w]].event = event[w]
      /\ \A s \in DOMAIN rows : rows'[s] = rows[s]
      /\ pc[w] \in KeyHeld
    BY DEF CommitRow, ChainFacts, SeqsFresh, Numbered, KeyHeld, Chaining
<1>2. /\ pc'[w] = "idle" /\ event'[w] = Plain
      /\ \A v \in Worker \ {w} : pc'[v] = pc[v] /\ event'[v] = event[v]
    BY DEF CommitRow, Finish
<1>3. DOMAIN once' = (DOMAIN once \cup (IF event[w].kind = "once" THEN {event[w].key} ELSE {})) \ gone
    BY DEF KeysWith
<1>4. event'[w].key \notin aged /\ pc'[w] \notin KeyHeld
    <2>1. NoKey \notin aged
        BY DEF AuditTypeOK
    <2>2. event'[w].key = NoKey
        <3>1. event'[w] = Plain
            BY <1>2
        <3>2. Plain.key = NoKey
            BY DEF Plain
        <3> QED BY <3>1, <3>2
    <2>3. pc'[w] \notin KeyHeld
        BY <1>2 DEF KeyHeld, Chaining
    <2> QED BY <2>1, <2>2, <2>3
<1>5. OncePerKey'
    <2>1. event[w].kind = "once" => event[w].key \notin DOMAIN once \cup aged
        BY <1>1 DEF OnceFacts
    <2>2. ASSUME NEW t \in DOMAIN rows, event[w].kind = "once", rows[t].event.kind = "once"
          PROVE  rows[t].event.key # event[w].key
        BY <2>1, <2>2 DEF OnceFacts
    <2>3. \A s, t \in DOMAIN rows :
              rows[s].event.kind = "once" /\ rows[t].event.kind = "once" /\ rows[s].event.key = rows[t].event.key
                  => s = t
        BY DEF OnceFacts, OncePerKey
    <2> SUFFICES ASSUME NEW s \in DOMAIN rows', NEW t \in DOMAIN rows',
                        rows'[s].event.kind = "once", rows'[t].event.kind = "once",
                        rows'[s].event.key = rows'[t].event.key
                 PROVE  s = t
        BY DEF OncePerKey
    <2>4. CASE s \in DOMAIN rows /\ t \in DOMAIN rows
        BY <1>1, <2>3, <2>4
    <2>5. CASE s = seq[w] /\ t \in DOMAIN rows
        BY <1>1, <2>2, <2>5
    <2>6. CASE s \in DOMAIN rows /\ t = seq[w]
        BY <1>1, <2>2, <2>6
    <2> QED BY <1>1, <2>4, <2>5, <2>6
<1>6. (\A s \in DOMAIN rows :
          rows[s].event.kind = "once" => rows[s].event.key \in DOMAIN once \cup aged)'
    BY Zenon, <1>1, <1>3 DEF OnceFacts
<1>7. (\A v \in Worker : event[v].key \notin aged)'
    BY <1>2, <1>4 DEF OnceFacts
<1>8. (\A v \in Worker :
          pc[v] \in KeyHeld /\ event[v].kind = "once" => event[v].key \notin DOMAIN once)'
    BY Zenon, <1>1, <1>2, <1>3, <1>4 DEF OnceFacts
<1>9. (\A u, v \in Worker :
          pc[u] \in KeyHeld /\ pc[v] \in KeyHeld /\ event[u].kind = "once" /\ event[u].key = event[v].key
              => u = v)'
    BY <1>2, <1>4 DEF OnceFacts
<1> QED BY <1>5, <1>6, <1>7, <1>8, <1>9 DEF OnceFacts

(* Every step keeps one event per key. *)
LEMMA OnceStep ==
    ChainInv /\ OnceFacts /\ [Next]_vars => OnceFacts'
<1> SUFFICES ASSUME ChainInv, OnceFacts, [Next]_vars PROVE OnceFacts'
    OBVIOUS
<1> USE DEF ChainInv
<1>1. CASE UNCHANGED auditVars
    BY <1>1, OnceOther DEF auditVars, work, OnceFacts
<1>2. ASSUME NEW w \in Worker, WorkerStep(w) PROVE OnceFacts'
    <2>1. ASSUME NEW ev \in Submitted, Call(w, ev) PROVE OnceFacts'
        BY <2>1, OnceOther DEF Call, KeyHeld, Chaining, AuditTypeOK, OnceFacts
    <2>2. CASE Begin(w)
        BY <2>2, OnceOther DEF Begin, KeyHeld, Chaining, AuditTypeOK, OnceFacts
    <2>3. CASE ReadHead(w)
        <3>1. CASE event[w] = Plain
            <4>1. event[w].kind # "once"
                BY <3>1 DEF Plain
            <4>2. event[w].key = NoKey
                BY <3>1 DEF Plain
            <4>3. \A v \in Worker : event[v].kind = "once" => event[v].key # NoKey
                <5> TAKE v \in Worker
                <5>1. event[v] \in OnceEvent \cup {Plain}
                    BY DEF AuditTypeOK
                <5>2. event[v] \in OnceEvent => event[v].key \in Key
                    BY DEF OnceEvent
                <5>3. Plain.kind # "once"
                    BY DEF Plain
                <5> QED BY <5>1, <5>2, <5>3, AuditAssumption
            <4>4. UNCHANGED <<event, rows, once, aged>>
                BY <2>3 DEF ReadHead
            <4>5. \A v \in Worker \ {w} : pc'[v] = pc[v]
                BY <2>3 DEF ReadHead, AuditTypeOK
            <4>6. (\A v \in Worker :
                      pc[v] \in KeyHeld /\ event[v].kind = "once" => event[v].key \notin DOMAIN once)'
                BY <4>1, <4>4, <4>5 DEF OnceFacts
            <4>7. (\A u, v \in Worker :
                      pc[u] \in KeyHeld /\ pc[v] \in KeyHeld /\ event[u].kind = "once"
                      /\ event[u].key = event[v].key => u = v)'
                BY <4>1, <4>2, <4>3, <4>4, <4>5 DEF OnceFacts
            <4> QED BY <4>4, <4>6, <4>7 DEF OnceFacts, OncePerKey
        <3>2. CASE event[w] # Plain
            BY <2>3, <3>2, OnceOther DEF ReadHead, KeyHeld, Chaining, AuditTypeOK, OnceFacts
        <3> QED BY <3>1, <3>2
    <2>4. CASE TakeSeq(w) \/ Insert(w)
        BY <2>4, OnceOther DEF TakeSeq, Insert, KeyHeld, Chaining, AuditTypeOK, OnceFacts
    <2>5. CASE Duplicate(w) \/ Rollback(w)
        BY <2>5, OnceFinish DEF Duplicate, Rollback
    <2>6. CASE Commit(w)
        BY <2>6, OnceCommit DEF Commit, Forget
    <2>7. CASE CommitReplyLost(w)
        <3>1. CommitRow(w) /\ aged' = aged /\ once' = KeysWith(w)
            BY <2>7 DEF CommitReplyLost
        <3>2. {} \in SUBSET aged /\ DOMAIN once' = DOMAIN KeysWith(w) \ {}
            BY <3>1
        <3> QED BY Zenon, <3>1, <3>2, OnceCommit
    <2> QED BY <1>2, <2>1, <2>2, <2>3, <2>4, <2>5, <2>6, <2>7, OnceInsertKey
            DEF WorkerStep, Progress
<1>3. ASSUME NEW k \in Key, Age(k) PROVE OnceFacts'
    BY <1>3 DEF Age, work, OnceFacts, OncePerKey
<1>4. ASSUME NEW r \in Replica, CrashReplica(r) PROVE OnceFacts'
    BY <1>4, OnceFinish DEF CrashReplica
<1>5. ASSUME NEW r \in Replica, RestartReplica(r) PROVE OnceFacts'
    BY <1>5, OnceOther DEF RestartReplica, work, OnceFacts
<1> QED BY <1>1, <1>2, <1>3, <1>4, <1>5 DEF Next, LogStep, vars

(* AppendAuditOnce records one event per key, with any number of replicas
   writing, over lost replies, rollbacks, crashes and changes of leader. *)
THEOREM RecordedOnce == Spec => []OncePerKey
<1>1. Init => OnceFacts
    <2> SUFFICES ASSUME Init PROVE OnceFacts
        OBVIOUS
    <2>1. DOMAIN rows = {} /\ DOMAIN once = {} /\ aged = {} /\ \A w \in Worker : pc[w] = "idle"
        BY DEF Init
    <2> QED BY <2>1 DEF OnceFacts, OncePerKey, KeyHeld, Chaining
<1>2. OnceFacts => OncePerKey
    BY DEF OnceFacts
<1> QED BY ChainInvariant, OnceStep, <1>1, <1>2, PTL DEF Spec
-----------------------------------------------------------------------------
(* In one process keyed rows follow keyed rows: the keyring is never taken
   away, and the epoch names a keyed row. *)
KeyFacts ==
    /\ \A s \in DOMAIN rows : rows[s].keyed => \E w \in Worker : keyed[Home[w]]
    /\ \A s, t \in DOMAIN rows : s <= t /\ rows[s].keyed => rows[t].keyed
    /\ epoch # 0 => epoch \in DOMAIN rows /\ rows[epoch].keyed

(* A commit keeps them: the new row is above all others, and has a key if an
   earlier row of this process has one. *)
LEMMA KeyCommit ==
    ASSUME OneProcess, ~overlap, ChainInv, KeyFacts, NEW w \in Worker, CommitRow(w)
    PROVE  KeyFacts'
<1> DEFINE s0 == seq[w]  new == [prev |-> prev[w], keyed |-> keyed[Home[w]], event |-> event[w]]
<1>1. pc[w] = "inserted" /\ UNCHANGED keyed
      /\ rows' = [s \in DOMAIN rows \cup {s0} |-> IF s = s0 THEN new ELSE rows[s]]
      /\ epoch' \in {epoch, IF keyed[Home[w]] THEN s0 ELSE epoch}
    BY DEF CommitRow
<1>2. AuditTypeOK /\ SeqTaken /\ PrevsCommitted /\ LinksToHead /\ SeqsFresh
    BY DEF ChainInv, ChainFacts
<1>3. s0 \in Nat \ {0} /\ DOMAIN rows \subseteq Nat /\ s0 \notin DOMAIN rows
    BY <1>1, <1>2 DEF AuditTypeOK, SeqTaken, SeqsFresh, Numbered
<1>4. \A s \in DOMAIN rows : s < s0
    <2>1. prev[w] < s0 /\ prev[w] \in Nat /\ \A s \in DOMAIN rows : s <= prev[w]
        BY <1>1, <1>2 DEF AuditTypeOK, PrevsCommitted, LinksToHead, Numbered, Chaining
    <2> QED BY <1>3, <2>1
<1>5. DOMAIN rows' = DOMAIN rows \cup {s0} /\ rows'[s0].keyed = keyed[Home[w]]
      /\ \A s \in DOMAIN rows : rows'[s] = rows[s]
    BY <1>1, <1>3
<1>6. \A s \in DOMAIN rows : rows[s].keyed => keyed[Home[w]]
    BY DEF KeyFacts, OneProcess
<1> HIDE DEF s0
<1>7. \A s \in DOMAIN rows' : rows'[s].keyed => keyed[Home[w]]
    BY <1>5, <1>6
<1>8. \A s, t \in DOMAIN rows' : s <= t /\ rows'[s].keyed => rows'[t].keyed
    <2> SUFFICES ASSUME NEW s \in DOMAIN rows', NEW t \in DOMAIN rows', s <= t, rows'[s].keyed
                 PROVE  rows'[t].keyed
        OBVIOUS
    <2>1. CASE t = s0
        BY <1>5, <1>7, <2>1
    <2>2. CASE t # s0
        BY <1>3, <1>4, <1>5, <2>2 DEF KeyFacts
    <2> QED BY <2>1, <2>2
<1>9. epoch' # 0 => epoch' \in DOMAIN rows' /\ rows'[epoch'].keyed
    BY <1>1, <1>5 DEF KeyFacts
<1> QED BY Zenon, <1>1, <1>7, <1>8, <1>9 DEF KeyFacts

(* Every other step leaves the rows and the epoch, and takes no keyring away. *)
LEMMA KeyOther ==
    ASSUME AuditTypeOK, KeyFacts, UNCHANGED <<rows, epoch>>,
           \A r \in Replica : keyed[r] => keyed'[r]
    PROVE  KeyFacts'
BY DEF KeyFacts

(* Every step keeps them. *)
LEMMA KeyStep == OneProcess /\ ~overlap /\ ChainInv /\ KeyFacts /\ [Next]_vars => KeyFacts'
<1> SUFFICES ASSUME OneProcess, ~overlap, ChainInv, KeyFacts, [Next]_vars PROVE KeyFacts'
    OBVIOUS
<1>1. AuditTypeOK
    BY DEF ChainInv
<1>2. CASE UNCHANGED auditVars
    BY <1>1, <1>2, KeyOther DEF auditVars
<1>3. ASSUME NEW w \in Worker, WorkerStep(w) PROVE KeyFacts'
    <2>1. CASE CommitRow(w)
        BY <2>1, KeyCommit
    <2>2. CASE ~CommitRow(w)
        <3>1. UNCHANGED <<rows, epoch, keyed>>
            BY Zenon, <1>3, <2>2 DEF WorkerStep, Call, Progress, Begin, InsertKey, Duplicate, ReadHead,
                              TakeSeq, Insert, Commit, CommitReplyLost, Rollback
        <3> QED BY <1>1, <3>1, KeyOther
    <2> QED BY <2>1, <2>2
<1>4. ASSUME NEW k \in Key, Age(k) PROVE KeyFacts'
    BY <1>1, <1>4, KeyOther DEF Age
<1>5. ASSUME NEW r \in Replica, CrashReplica(r) PROVE KeyFacts'
    BY <1>1, <1>5, KeyOther DEF CrashReplica
<1>6. ASSUME NEW r \in Replica, RestartReplica(r) PROVE KeyFacts'
    <2>1. UNCHANGED <<rows, epoch>> /\ \A q \in Replica : keyed[q] => keyed'[q]
        BY Zenon, <1>1, <1>6 DEF RestartReplica, AuditTypeOK
    <2> QED BY <1>1, <2>1, KeyOther
<1> QED BY <1>2, <1>3, <1>4, <1>5, <1>6 DEF Next, LogStep, vars

(* VerifyAudit: in one process a replica always verifies the whole log, also
   across the restart that turned keying on and after every lost reply. *)
THEOREM OneProcessVerifies == OneProcess => (Spec => []KeyedReplicaVerifies)
<1> SUFFICES ASSUME OneProcess PROVE Spec => []KeyedReplicaVerifies
    OBVIOUS
<1>1. Init => ~overlap /\ KeyFacts
    BY DEF Init, KeyFacts
<1>2. ~overlap /\ [Next]_vars => ~overlap'
    BY NoOverlap
<1>3. ~overlap /\ ChainInv /\ KeyFacts /\ [Next]_vars => KeyFacts'
    BY KeyStep
<1>4. ChainInv /\ KeyFacts => KeyedReplicaVerifies
    <2> SUFFICES ASSUME ChainInv, KeyFacts, ~overlap,
                        \A r \in Replica : keyed[r] = keyed[CHOOSE q \in Replica : TRUE],
                        NEW r \in Replica, NEW s \in DOMAIN rows
                 PROVE  Good(r, s)
        BY DEF KeyedReplicaVerifies, VerifyAudit
    <2>1. AuditTypeOK /\ Linked(s)
        BY DEF ChainInv, ChainFacts, SingleWriterChainLinear, ChainLinear
    <2>2. ~Downgraded(s)
        BY <2>1 DEF Downgraded, KeyFacts, AuditTypeOK
    <2>3. ~keyed[r] => ~rows[s].keyed
        BY DEF KeyFacts
    <2> QED BY <2>1, <2>2, <2>3 DEF Good
<1> QED BY <1>1, <1>2, <1>3, <1>4, ChainInvariant, PTL DEF Spec

-----------------------------------------------------------------------------
(* A non-empty set of naturals has a least element. *)
LEMMA LeastExists ==
    ASSUME NEW S, S \subseteq Nat, S # {}
    PROVE  \E m \in S : \A y \in S : m <= y
<1>1. PICK m \in S : \A y \in S : ~ (<<y, m>> \in OpToRel(<, Nat))
    BY Zenon, NatLessThanWellFounded, WFMin
<1>2. ASSUME NEW y \in S PROVE m <= y
    <2>1. ~ (<<y, m>> \in OpToRel(<, Nat))
        BY Zenon, <1>1
    <2>2. ~ (y < m)
        BY <2>1 DEF OpToRel
    <2> QED BY <2>2
<1> QED BY <1>2

(* Max of a bounded non-empty set of naturals is its greatest element. *)
LEMMA MaxIsGreatest ==
    ASSUME NEW n \in Nat, NEW S, S \subseteq 0..n, S # {}
    PROVE  Max(S) \in S /\ \A y \in S : y <= Max(S)
<1> DEFINE D == {n - s : s \in S}
<1>1. D \subseteq Nat
    OBVIOUS
<1>2. D # {}
    <2>1. PICK s \in S : TRUE
        BY Zenon
    <2>2. n - s \in D
        OBVIOUS
    <2> QED BY <2>2
<1> HIDE DEF D
<1>3. PICK m \in D : \A y \in D : m <= y
    BY Zenon, <1>1, <1>2, LeastExists
<1>4. PICK x \in S : m = n - x
    BY DEF D
<1>5. ASSUME NEW y \in S PROVE x >= y
    <2>1. n - y \in D
        BY DEF D
    <2>2. n - x <= n - y
        BY <2>1, <1>3, <1>4
    <2> QED BY <2>2
<1>6. Max(S) \in S /\ \A y \in S : Max(S) >= y
    BY Zenon, <1>5 DEF Max
<1> QED BY <1>6

(* Every committed row at or below n was delivered. *)
Covered(n) == \A s \in DOMAIN rows : s <= n => s \in delivered

PumpTypes ==
    /\ watermark \in DOMAIN rows \cup {0}
    /\ tick \in [Replica -> {"idle", "read", "listed", "acked"}]
    /\ since \in [Replica -> DOMAIN rows \cup {0}]
    /\ batch \in [Replica -> SUBSET DOMAIN rows]
    /\ \A r \in Replica : tick[r] \in {"listed", "acked"} => batch[r] # {}

(* A tick started from a covered watermark, its batch has no gap above it,
   and was delivered once the sink acknowledged it. *)
TickOK(r) ==
    /\ tick[r] # "idle" => Covered(since[r])
    /\ tick[r] \in {"listed", "acked"} =>
        \A b \in batch[r], s \in DOMAIN rows : since[r] < s /\ s <= b => s \in batch[r]
    /\ tick[r] = "acked" => batch[r] \subseteq delivered

PumpFacts ==
    /\ PumpTypes
    /\ ~overlap => Covered(watermark) /\ \A r \in Replica : TickOK(r)

(* A batch has no gap: with a row it has every older one above since. *)
LEMMA ListedHasNoGap ==
    ASSUME AuditTypeOK, NEW n \in Nat, NEW b \in Listed(n), NEW s \in DOMAIN rows, n < s, s <= b
    PROVE  s \in Listed(n)
<1> DEFINE above == {t \in DOMAIN rows : t > n}
           upTo(x) == {t \in above : t <= x}
<1>1. DOMAIN rows \subseteq 1..MaxSeq
    BY DEF AuditTypeOK
<1>2. b \in above /\ Cardinality(upTo(b)) <= BatchSize
    BY DEF Listed
<1>3. upTo(b) \subseteq 1..MaxSeq /\ upTo(s) \subseteq upTo(b)
    BY <1>1, <1>2
<1>4. IsFiniteSet(1..MaxSeq)
    BY FS_Interval
<1> HIDE DEF upTo
<1>5. IsFiniteSet(upTo(b))
    BY <1>3, <1>4, FS_Subset
<1>6. IsFiniteSet(upTo(s)) /\ Cardinality(upTo(s)) <= Cardinality(upTo(b))
    BY <1>3, <1>5, FS_Subset
<1>7. Cardinality(upTo(s)) \in Nat /\ Cardinality(upTo(b)) \in Nat
    BY <1>5, <1>6, FS_CardinalityType
<1>8. Cardinality(upTo(s)) <= BatchSize
    BY <1>2, <1>6, <1>7
<1> QED BY <1>8 DEF upTo, Listed

(* A committed row stays, and while no two replicas have overlapped a new
   one is above all others. *)
LEMMA RowsGrow ==
    ASSUME ChainInv, [Next]_vars
    PROVE  /\ DOMAIN rows \subseteq DOMAIN rows'
           /\ ~overlap => \A s \in DOMAIN rows' \ DOMAIN rows :
                            s \in Nat \ {0} /\ \A t \in DOMAIN rows : t < s
<1>1. CASE UNCHANGED rows
    BY <1>1
<1>2. ASSUME NEW w \in Worker, CommitRow(w)
      PROVE  /\ DOMAIN rows \subseteq DOMAIN rows'
             /\ ~overlap => \A s \in DOMAIN rows' \ DOMAIN rows :
                              s \in Nat \ {0} /\ \A t \in DOMAIN rows : t < s
    <2>1. pc[w] = "inserted" /\ DOMAIN rows' = DOMAIN rows \cup {seq[w]}
        BY <1>2 DEF CommitRow
    <2>2. prev[w] < seq[w] /\ prev[w] \in Nat /\ seq[w] \in Nat \ {0} /\ DOMAIN rows \subseteq Nat
        BY <2>1 DEF ChainInv, ChainFacts, AuditTypeOK, SeqTaken, PrevsCommitted, Numbered
    <2>3. ~overlap => \A s \in DOMAIN rows : s <= prev[w]
        BY <2>1 DEF ChainInv, ChainFacts, LinksToHead, Chaining
    <2> QED BY <2>1, <2>2, <2>3
<1> QED BY <1>1, <1>2, RowsChange DEF ChainInv

(* Two replicas that have overlapped have overlapped for ever. *)
LEMMA OverlapStays == AuditTypeOK /\ [Next]_vars /\ overlap => overlap'
<1> SUFFICES ASSUME AuditTypeOK, [Next]_vars, overlap PROVE overlap'
    OBVIOUS
<1>1. ASSUME NEW w \in Worker, WorkerStep(w) PROVE overlap'
    BY Zenon, <1>1 DEF WorkerStep, Call, Progress, Begin, InsertKey, Duplicate, ReadHead, TakeSeq, Insert, Commit,
                CommitReplyLost, CommitRow, Rollback
<1>2. ASSUME NEW k \in Key, Age(k) PROVE overlap'
    BY <1>2 DEF Age
<1>3. ASSUME NEW r \in Replica, CrashReplica(r) \/ RestartReplica(r) PROVE overlap'
    BY Zenon, <1>3 DEF CrashReplica, RestartReplica
<1> QED BY Zenon, <1>1, <1>2, <1>3 DEF Next, LogStep, vars, auditVars

(* A log step keeps the facts, whatever the pumps have read. *)
LEMMA LogKeepsPump ==
    ASSUME ChainInv, PumpFacts, [Next]_vars, UNCHANGED pumpVars PROVE PumpFacts'
<1>1. UNCHANGED <<watermark, tick, since, batch, delivered>>
    BY DEF pumpVars
<1>2. AuditTypeOK /\ PumpTypes /\ DOMAIN rows \subseteq Nat
    BY DEF ChainInv, PumpFacts, AuditTypeOK
<1>3. DOMAIN rows \subseteq DOMAIN rows'
    BY RowsGrow
<1>4. PumpTypes'
    BY <1>1, <1>2, <1>3 DEF PumpTypes
<1>5. SUFFICES ASSUME ~overlap' PROVE Covered(watermark)' /\ \A r \in Replica : TickOK(r)'
    BY <1>4 DEF PumpFacts
<1>6. Covered(watermark) /\ \A r \in Replica : TickOK(r)
    BY <1>2, <1>5, OverlapStays DEF PumpFacts
<1>7. \A s \in DOMAIN rows' \ DOMAIN rows : s \in Nat \ {0} /\ \A t \in DOMAIN rows : t < s
    BY <1>2, <1>5, OverlapStays, RowsGrow
<1>8. \A n \in DOMAIN rows \cup {0}, s \in DOMAIN rows' : s <= n => s \in DOMAIN rows
    BY <1>2, <1>7
<1>9. Covered(watermark)'
    BY <1>1, <1>2, <1>6, <1>8 DEF Covered, PumpTypes
<1>10. ASSUME NEW r \in Replica PROVE TickOK(r)'
    <2>1. TickOK(r) /\ since[r] \in DOMAIN rows \cup {0} /\ batch[r] \subseteq DOMAIN rows
        BY <1>2, <1>6 DEF PumpTypes
    <2>2. tick'[r] # "idle" => Covered(since[r])'
        BY <1>1, <1>8, <2>1 DEF TickOK, Covered
    <2>3. ASSUME tick'[r] \in {"listed", "acked"}, NEW b \in batch'[r], NEW s \in DOMAIN rows',
                 since'[r] < s, s <= b
          PROVE  s \in batch'[r]
        <3>1. s \in DOMAIN rows
            BY <1>1, <1>8, <2>1, <2>3
        <3> QED BY <1>1, <2>1, <2>3, <3>1 DEF TickOK
    <2>4. tick'[r] = "acked" => batch'[r] \subseteq delivered'
        BY <1>1, <2>1 DEF TickOK
    <2> QED BY <2>2, <2>3, <2>4 DEF TickOK
<1> QED BY <1>9, <1>10

(* A step of the pump of r leaves the ticks of the others as they are. *)
LEMMA OthersTick ==
    ASSUME PumpFacts, UNCHANGED <<rows, overlap>>, NEW r \in Replica,
           delivered \subseteq delivered', PumpTypes',
           \A q \in Replica \ {r} : tick'[q] = tick[q] /\ since'[q] = since[q] /\ batch'[q] = batch[q],
           ~overlap => Covered(watermark)' /\ TickOK(r)'
    PROVE  PumpFacts'
<1>1. ASSUME ~overlap, NEW q \in Replica PROVE TickOK(q)'
    <2>1. CASE q = r
        BY <1>1, <2>1
    <2>2. CASE q # r
        BY <1>1, <2>2 DEF PumpFacts, TickOK, Covered
    <2> QED BY <2>1, <2>2
<1> QED BY <1>1 DEF PumpFacts

(* The end of a tick. *)
LEMMA EndTickKeeps ==
    ASSUME PumpFacts, UNCHANGED <<rows, overlap>>, NEW r \in Replica, delivered \subseteq delivered',
           EndTick(r), watermark' \in DOMAIN rows \cup {0},
           ~overlap => Covered(watermark)'
    PROVE  PumpFacts'
<1>1. PumpTypes
    BY DEF PumpFacts
<1>2. tick'[r] = "idle"
      /\ \A q \in Replica \ {r} : tick'[q] = tick[q] /\ since'[q] = since[q] /\ batch'[q] = batch[q]
    BY <1>1 DEF EndTick, PumpTypes
<1>3. PumpTypes'
    BY <1>1 DEF EndTick, PumpTypes
<1>4. TickOK(r)'
    BY <1>2 DEF TickOK
<1> QED BY <1>2, <1>3, <1>4, OthersTick

(* Every step of the pump of r keeps the facts. *)
LEMMA PumpStepKeeps ==
    ASSUME AuditTypeOK, PumpFacts, NEW r \in Replica, PumpStep(r), UNCHANGED <<rows, overlap>>
    PROVE  PumpFacts'
<1>1. PumpTypes /\ DOMAIN rows \subseteq 0..MaxSeq /\ MaxSeq \in Nat
    BY DEF PumpFacts, AuditTypeOK
<1>2. CASE ReadWatermark(r)
    <2>1. since' = [since EXCEPT ![r] = watermark] /\ tick' = [tick EXCEPT ![r] = "read"]
          /\ UNCHANGED <<watermark, batch, delivered>>
        BY <1>2 DEF ReadWatermark
    <2>2. PumpTypes' /\ tick'[r] = "read" /\ since'[r] = watermark
          /\ \A q \in Replica \ {r} : tick'[q] = tick[q] /\ since'[q] = since[q] /\ batch'[q] = batch[q]
        BY <1>1, <2>1 DEF PumpTypes
    <2>3. ~overlap => Covered(watermark)' /\ TickOK(r)'
        BY <2>1, <2>2 DEF PumpFacts, TickOK, Covered
    <2> QED BY <2>1, <2>2, <2>3, OthersTick
<1>3. CASE ListBatch(r) /\ Listed(since[r]) = {}
    <2>1. EndTick(r) /\ UNCHANGED <<watermark, delivered>>
        BY <1>3 DEF ListBatch
    <2>2. watermark' \in DOMAIN rows \cup {0} /\ (~overlap => Covered(watermark)')
        BY <1>1, <2>1 DEF PumpTypes, PumpFacts, Covered
    <2> QED BY <2>1, <2>2, EndTickKeeps
<1>4. CASE ListBatch(r) /\ Listed(since[r]) # {}
    <2>1. tick[r] = "read" /\ batch' = [batch EXCEPT ![r] = Listed(since[r])]
          /\ tick' = [tick EXCEPT ![r] = "listed"] /\ UNCHANGED <<watermark, since, delivered>>
        BY <1>4 DEF ListBatch
    <2>2. Listed(since[r]) \subseteq DOMAIN rows
        BY DEF Listed
    <2>3. PumpTypes' /\ tick'[r] = "listed" /\ batch'[r] = Listed(since[r])
          /\ \A q \in Replica \ {r} : tick'[q] = tick[q] /\ since'[q] = since[q] /\ batch'[q] = batch[q]
        BY <1>1, <1>4, <2>1, <2>2 DEF PumpTypes
    <2>4. since[r] \in Nat
        BY <1>1 DEF PumpTypes
    <2>5. \A b \in batch'[r], s \in DOMAIN rows' : since'[r] < s /\ s <= b => s \in batch'[r]
        BY <2>1, <2>3, <2>4, ListedHasNoGap
    <2>6. ~overlap => Covered(watermark)' /\ Covered(since[r])'
        BY <2>1 DEF PumpFacts, TickOK, Covered
    <2>7. ~overlap => TickOK(r)'
        BY <2>3, <2>5, <2>6 DEF TickOK
    <2> QED BY <2>1, <2>3, <2>6, <2>7, OthersTick
<1>5. CASE Forward(r)
    <2>1. tick[r] = "listed" /\ delivered' = delivered \cup batch[r]
          /\ tick' = [tick EXCEPT ![r] = "acked"] /\ UNCHANGED <<watermark, since, batch>>
        BY <1>5 DEF Forward
    <2>2. PumpTypes' /\ tick'[r] = "acked"
          /\ \A q \in Replica \ {r} : tick'[q] = tick[q] /\ since'[q] = since[q] /\ batch'[q] = batch[q]
        BY <1>1, <2>1 DEF PumpTypes
    <2>3. ~overlap => Covered(watermark)' /\ TickOK(r)'
        BY <2>1, <2>2 DEF PumpFacts, TickOK, Covered
    <2> QED BY <2>1, <2>2, <2>3, OthersTick
<1>6. CASE ForwardFails(r) \/ TickFails(r)
    <2>1. EndTick(r) /\ watermark' = watermark /\ delivered \subseteq delivered'
        BY <1>6 DEF ForwardFails, TickFails
    <2>2. watermark' \in DOMAIN rows \cup {0} /\ (~overlap => Covered(watermark)')
        BY <1>1, <2>1 DEF PumpTypes, PumpFacts, Covered
    <2> QED BY <2>1, <2>2, EndTickKeeps
<1>7. CASE SetWatermark(r)
    <2>1. tick[r] = "acked" /\ watermark' = Max(batch[r]) /\ EndTick(r) /\ delivered' = delivered
        BY <1>7 DEF SetWatermark
    <2>2. batch[r] \subseteq DOMAIN rows /\ batch[r] # {}
        BY <1>1, <2>1 DEF PumpTypes
    <2>3. Max(batch[r]) \in batch[r]
        BY <1>1, <2>2, MaxIsGreatest
    <2> DEFINE m == Max(batch[r])
    <2> HIDE DEF m
    <2>4. m \in batch[r] /\ watermark' = m
        BY <2>1, <2>3 DEF m
    <2>5. ASSUME ~overlap, NEW s \in DOMAIN rows, s <= m PROVE s \in delivered
        <3>1. TickOK(r) /\ since[r] \in Nat /\ s \in Nat
            BY <1>1, <2>5 DEF PumpFacts, PumpTypes
        <3>2. CASE s <= since[r]
            BY <2>1, <3>1, <3>2 DEF TickOK, Covered
        <3>3. CASE since[r] < s
            BY <2>1, <2>4, <2>5, <3>1, <3>3 DEF TickOK
        <3> QED BY <3>1, <3>2, <3>3
    <2>6. ~overlap => Covered(watermark)'
        BY <2>1, <2>4, <2>5 DEF Covered
    <2> QED BY <2>1, <2>2, <2>4, <2>6, EndTickKeeps
<1> QED BY <1>2, <1>3, <1>4, <1>5, <1>6, <1>7 DEF PumpStep, Tick

(* A process that dies takes its tick with it. *)
LEMMA CrashPumpKeeps ==
    ASSUME PumpFacts, NEW r \in Replica, CrashPump(r) PROVE PumpFacts'
<1>1. EndTick(r) /\ UNCHANGED <<rows, overlap, watermark, delivered>>
    BY DEF CrashPump, CrashReplica
<1>2. watermark' \in DOMAIN rows \cup {0} /\ (~overlap => Covered(watermark)')
    BY <1>1 DEF PumpTypes, PumpFacts, Covered
<1> QED BY <1>1, <1>2, EndTickKeeps

(* SetAuditForwardSeq: while no two replicas' appends have overlapped, every
   row at or below the stored watermark was delivered, for any batch size and
   whatever pumps of old and new leaders interleave. *)
THEOREM WatermarkCoveredHolds == PumpSpec => []WatermarkCovered
<1>1. PumpInit => ChainInv /\ PumpFacts
    <2> SUFFICES ASSUME PumpInit PROVE ChainInv /\ PumpFacts
        OBVIOUS
    <2>1. Init /\ DOMAIN rows = {}
        BY DEF PumpInit, Init
    <2>2. PumpFacts
        BY <2>1 DEF PumpInit, PumpFacts, PumpTypes, TickOK, Covered
    <2> QED BY <2>1, <2>2, ChainInvInit
<1>2. [PumpNext]_allVars => [Next]_vars
    BY DEF PumpNext, allVars, CrashPump, Next
<1>3. ChainInv /\ PumpFacts /\ [PumpNext]_allVars => (ChainInv /\ PumpFacts)'
    <2> SUFFICES ASSUME ChainInv, PumpFacts, [PumpNext]_allVars PROVE ChainInv' /\ PumpFacts'
        OBVIOUS
    <2>1. ChainInv'
        BY <1>2, ChainInvStep
    <2>2. ASSUME UNCHANGED pumpVars PROVE PumpFacts'
        BY <1>2, <2>2, LogKeepsPump
    <2>3. ASSUME NEW r \in Replica, PumpStep(r), UNCHANGED vars PROVE PumpFacts'
        BY <2>3, PumpStepKeeps DEF ChainInv, vars, auditVars
    <2>4. ASSUME NEW r \in Replica, CrashPump(r) PROVE PumpFacts'
        BY <2>4, CrashPumpKeeps
    <2>5. PumpFacts'
        BY <2>2, <2>3, <2>4 DEF PumpNext, allVars, Next
    <2> QED BY <2>1, <2>5
<1>4. PumpFacts => WatermarkCovered
    BY DEF PumpFacts, WatermarkCovered, Covered
<1> QED BY <1>1, <1>3, <1>4, PTL DEF PumpSpec

==============================================================================
