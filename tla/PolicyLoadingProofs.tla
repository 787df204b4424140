------------------------ MODULE PolicyLoadingProofs ------------------------
(***************************************************************************)
(* Proofs about the loads that put the stored policies in force, next to   *)
(* the writes, for any replicas, requests, policies, texts and faults.     *)
(***************************************************************************)
EXTENDS PolicyLoading, StoredPolicyProofs

USE PolicyAssumption, ActorAssumption

LoadTypes ==
    /\ serving \in [Replica -> BOOLEAN] /\ broken \in [Replica -> BOOLEAN]
    /\ engine \in [Replica -> [Policy -> Text \cup {NoText}]]
    /\ by \in [Replica -> Actor \cup {NoWorker}]
    /\ load \in [Actor -> {"idle", "start", "digests", "listed", "agreed"}]
    /\ before \in [Actor -> [Policy -> Text \cup {NoText, Unrecorded}]]
    /\ items \in [Actor -> [Policy -> Text \cup {NoText}]]
    /\ read \in [Actor -> SUBSET Nat]
    /\ seen \in [Replica -> SUBSET Nat]
    /\ acked \in [Replica -> SUBSET Nat]

(* What the chain recorded when it had the rows S. *)
RecordedBy(S) == Recorded([s \in S |-> chain[s]])

(* refreshMu belongs to the one load of its replica. *)
RefreshMutex ==
    /\ \A x \in Actor : load[x] # "idle" <=> by[At(x)] = x
    /\ \A w \in Worker : pc[w] = "refreshing" <=> load[w] # "idle"

(* A load that read the digests knows every row its replica has answered for,
   or is about to answer for after a failed load, and every row in force. *)
ReadOK(x) ==
    load[x] \in {"digests", "listed", "agreed"} =>
        /\ read[x] \subseteq DOMAIN chain
        /\ before[x] = RecordedBy(read[x])
        /\ acked[At(x)] \cup seen[At(x)] \subseteq read[x]
        /\ \A w \in Worker : Home[w] = At(x) /\ pc[w] \in {"stale", "refreshing"} => seq[w] \in read[x]

(* The set in force is what the chain recorded, also before serving, and has
   every row its replica answered for unless evaluation fails closed. *)
ForceOK(r) ==
    /\ seen[r] \cup acked[r] \subseteq DOMAIN chain
    /\ Matches(engine[r], RecordedBy(seen[r]))
    /\ serving[r] => acked[r] \subseteq seen[r] \/ broken[r]

LoadInv ==
    /\ LoadTypes /\ RefreshMutex
    /\ \A x \in Actor : ReadOK(x)
    /\ \A r \in Replica : ForceOK(r)

PolicyInv == WriteInv /\ LoadInv

(* An actor is at one replica, and is not a free mutex. *)
LEMMA AtReplica == \A x \in Actor : At(x) \in Replica /\ x # NoWorker
BY DEF Actor, At

(* A request loads at its home, a sync goroutine at its own replica. *)
LEMMA AtHome == (\A w \in Worker : At(w) = Home[w] /\ w \notin Replica) /\ (\A r \in Replica : At(r) = r)
BY DEF At

(* The digests of all rows are those of the chain. *)
LEMMA RecordedAll == WriteTypes => RecordedBy(DOMAIN chain) = Recorded(chain)
<1> SUFFICES ASSUME WriteTypes PROVE RecordedBy(DOMAIN chain) = Recorded(chain)
    OBVIOUS
<1>1. chain = [s \in DOMAIN chain |-> chain[s]]
    BY DEF WriteTypes
<1> QED BY <1>1 DEF RecordedBy

(* A write step of the model that loads nothing keeps LoadInv. *)
LEMMA WritesKeepLoads ==
    ASSUME LoadInv, UNCHANGED loadVars,
           DOMAIN chain \subseteq DOMAIN chain', \A s \in DOMAIN chain : chain'[s] = chain[s],
           \A w \in Worker : pc'[w] \in {"stale", "refreshing"} \/ pc[w] = "refreshing"
                                => pc'[w] = pc[w] /\ seq'[w] = seq[w]
    PROVE  LoadInv'
<1>1. UNCHANGED <<serving, engine, broken, by, load, before, items, left, read, seen, acked>>
    BY DEF loadVars, reading, inForce
<1>2. LoadTypes'
    BY <1>1 DEF LoadInv, LoadTypes
<1>3. RefreshMutex'
    BY <1>1 DEF LoadInv, RefreshMutex
<1>4. ASSUME NEW x \in Actor PROVE ReadOK(x)'
    <2> SUFFICES ASSUME load[x] \in {"digests", "listed", "agreed"}
                 PROVE  /\ read[x] \subseteq DOMAIN chain'
                        /\ before[x] = RecordedBy(read[x])'
                        /\ acked[At(x)] \cup seen[At(x)] \subseteq read[x]
                        /\ \A w \in Worker : Home[w] = At(x) /\ pc'[w] \in {"stale", "refreshing"} => seq'[w] \in read[x]
        BY <1>1 DEF ReadOK, RecordedBy
    <2>1. read[x] \subseteq DOMAIN chain /\ before[x] = RecordedBy(read[x])
          /\ acked[At(x)] \cup seen[At(x)] \subseteq read[x]
          /\ \A w \in Worker : Home[w] = At(x) /\ pc[w] \in {"stale", "refreshing"} => seq[w] \in read[x]
        BY DEF LoadInv, ReadOK
    <2>2. RecordedBy(read[x])' = RecordedBy(read[x])
        BY <1>1, <2>1 DEF RecordedBy
    <2> QED BY <2>1, <2>2
<1>5. ASSUME NEW r \in Replica PROVE ForceOK(r)'
    <2>1. ForceOK(r)
        BY DEF LoadInv
    <2>2. RecordedBy(seen[r])' = RecordedBy(seen[r])
        BY <1>1, <2>1 DEF RecordedBy, ForceOK
    <2> QED BY <1>1, <2>1, <2>2 DEF ForceOK
<1> QED BY <1>2, <1>3, <1>4, <1>5 DEF LoadInv

(* refreshMu is taken. *)
LEMMA StartLoadStep == ASSUME PolicyInv, NEW x \in Actor, StartLoad(x) PROVE PolicyInv'
<1>1. by[At(x)] = NoWorker /\ (x \in Worker => pc[x] = "committed")
      /\ pc' = [w \in Worker |-> IF w = x THEN "refreshing" ELSE pc[w]]
      /\ by' = [by EXCEPT ![At(x)] = x] /\ load' = [load EXCEPT ![x] = "start"]
      /\ UNCHANGED <<stored, chain, nextSeq, req, cur, seq, edits, before, items, read,
                     serving, engine, broken, seen, acked>>
    BY DEF StartLoad, inForce
<1>2. WriteInv /\ LoadTypes /\ RefreshMutex /\ At(x) \in Replica
    BY AtReplica DEF PolicyInv, LoadInv
<1>3. WriteInv'
    <2>1. WriteTypes'
        BY <1>1, <1>2 DEF WriteInv, WriteTypes, Answering
    <2>2. Quiet
        BY <1>1, <1>2 DEF Quiet, Answering, WriteInv, WriteTypes
    <2> QED BY <1>2, <2>1, <2>2, QuietStep
<1>4. LoadTypes'
    BY <1>1, <1>2 DEF LoadTypes
<1>5. \A y \in Actor : At(y) = At(x) => load[y] = "idle"
    BY <1>1, <1>2, AtReplica DEF RefreshMutex
<1>6. RefreshMutex'
    BY <1>1, <1>2, <1>5, AtReplica DEF RefreshMutex, LoadTypes, Actor
<1>7. ASSUME NEW y \in Actor PROVE ReadOK(y)'
    <2>1. CASE y = x
        BY <1>1, <1>2, <2>1 DEF ReadOK, LoadTypes
    <2>2. CASE y # x
        <3>1. load'[y] = load[y]
            BY <1>1, <1>2, <2>2 DEF LoadTypes
        <3>2. At(y) = At(x) => load[y] = "idle"
            BY <1>5
        <3>3. \A w \in Worker : Home[w] = At(y) /\ At(y) # At(x) => pc'[w] = pc[w]
            BY <1>1, AtHome
        <3>4. ReadOK(y)
            BY DEF PolicyInv, LoadInv
        <3> QED BY <1>1, <3>1, <3>2, <3>3, <3>4 DEF ReadOK, RecordedBy
    <2> QED BY <2>1, <2>2
<1>8. \A r \in Replica : ForceOK(r)'
    BY <1>1 DEF PolicyInv, LoadInv, ForceOK, RecordedBy
<1> QED BY <1>3, <1>4, <1>6, <1>7, <1>8 DEF PolicyInv, LoadInv

(* A read of the digests, by a load that may have read them before. *)
LEMMA DigestsStep ==
    ASSUME PolicyInv, NEW x \in Actor, load[x] # "idle",
           before' = [before EXCEPT ![x] = Recorded(chain)],
           read' = [read EXCEPT ![x] = DOMAIN chain],
           NEW to \in {"digests", "agreed"}, load' = [load EXCEPT ![x] = to],
           UNCHANGED <<stored, chain, nextSeq, pc, req, cur, seq, edits, by, items,
                       serving, engine, broken, seen, acked>>
    PROVE  PolicyInv'
<1>1. WriteInv /\ LoadTypes /\ RefreshMutex
    BY DEF PolicyInv, LoadInv
<1>2. Recorded(chain) = RecordedBy(DOMAIN chain)
    BY <1>1, RecordedAll DEF WriteInv
<1>3. Recorded(chain) \in [Policy -> Text \cup {NoText, Unrecorded}] /\ DOMAIN chain \subseteq Nat
    <2>1. nextSeq - 1 \in Nat /\ DOMAIN chain \subseteq 1..nextSeq - 1 /\ \A s \in DOMAIN chain : chain[s] \in Events
        BY <1>1 DEF WriteInv, WriteTypes, NumberInv
    <2> QED BY <2>1, RecordedType
<1>4. LoadTypes'
    BY <1>1, <1>3 DEF LoadTypes
<1>5. WriteInv'
    <2>1. WriteTypes'
        BY <1>1 DEF WriteInv, WriteTypes
    <2>2. Quiet
        BY DEF Quiet
    <2> QED BY <1>1, <2>1, <2>2, QuietStep
<1>6. RefreshMutex'
    BY <1>1 DEF RefreshMutex, LoadTypes
<1>7. ASSUME NEW y \in Actor PROVE ReadOK(y)'
    <2>1. CASE y = x
        <3>1. read'[x] = DOMAIN chain /\ before'[x] = RecordedBy(DOMAIN chain)
            BY <1>1, <1>2 DEF LoadTypes
        <3>2. acked[At(x)] \cup seen[At(x)] \subseteq DOMAIN chain
            BY AtReplica DEF PolicyInv, LoadInv, ForceOK
        <3>3. \A w \in Worker : pc[w] \in {"stale", "refreshing"} => seq[w] \in DOMAIN chain
            BY <1>1 DEF WriteInv, NumberInv, Answering
        <3> QED BY <2>1, <3>1, <3>2, <3>3 DEF ReadOK, RecordedBy
    <2>2. CASE y # x
        <3>1. load'[y] = load[y] /\ before'[y] = before[y] /\ read'[y] = read[y]
            BY <1>1, <2>2 DEF LoadTypes
        <3>2. ReadOK(y)
            BY DEF PolicyInv, LoadInv
        <3> QED BY <3>1, <3>2 DEF ReadOK, RecordedBy
    <2> QED BY <2>1, <2>2
<1>8. \A r \in Replica : ForceOK(r)'
    BY DEF PolicyInv, LoadInv, ForceOK, RecordedBy
<1> QED BY <1>4, <1>5, <1>6, <1>7, <1>8 DEF PolicyInv, LoadInv

(* The table is listed. *)
LEMMA ListStep == ASSUME PolicyInv, NEW x \in Actor, ListPolicies(x) PROVE PolicyInv'
<1>1. load[x] = "digests" /\ load' = [load EXCEPT ![x] = "listed"]
      /\ items' = [items EXCEPT ![x] = [p \in Policy |-> stored[p].text]]
      /\ UNCHANGED <<stored, chain, nextSeq, pc, req, cur, seq, edits, by, before, read,
                     serving, engine, broken, seen, acked>>
    BY DEF ListPolicies, writeVars, work, inForce
<1>2. WriteInv /\ LoadTypes /\ RefreshMutex
    BY DEF PolicyInv, LoadInv
<1>3. [p \in Policy |-> stored[p].text] \in [Policy -> Text \cup {NoText}]
    BY <1>2 DEF WriteInv, WriteTypes, StoredRow, NoRow
<1>4. LoadTypes'
    BY <1>1, <1>2, <1>3 DEF LoadTypes
<1>5. WriteInv'
    <2>1. WriteTypes'
        BY <1>1, <1>2 DEF WriteInv, WriteTypes
    <2>2. Quiet
        BY <1>1 DEF Quiet
    <2> QED BY <1>2, <2>1, <2>2, QuietStep
<1>6. RefreshMutex'
    BY <1>1, <1>2 DEF RefreshMutex, LoadTypes
<1>7. ASSUME NEW y \in Actor PROVE ReadOK(y)'
    <2>1. load'[y] \in {"digests", "listed", "agreed"} => load[y] \in {"digests", "listed", "agreed"}
        BY <1>1, <1>2 DEF LoadTypes
    <2> QED BY <1>1, <2>1 DEF ReadOK, RecordedBy, PolicyInv, LoadInv
<1>8. \A r \in Replica : ForceOK(r)'
    BY <1>1 DEF PolicyInv, LoadInv, ForceOK, RecordedBy
<1> QED BY <1>4, <1>5, <1>6, <1>7, <1>8 DEF PolicyInv, LoadInv

(* The end of a load frees refreshMu and leaves the other loads alone. *)
LEMMA EndLoadStep ==
    ASSUME PolicyInv, WriteInv', UNCHANGED chain,
           NEW x \in Actor, load[x] # "idle", EndLoads(At(x), {x}),
           \A w \in Worker : w # x => pc'[w] = pc[w] /\ seq'[w] = seq[w],
           x \in Worker => pc'[x] # "refreshing",
           serving' \in [Replica -> BOOLEAN], broken' \in [Replica -> BOOLEAN],
           engine' \in [Replica -> [Policy -> Text \cup {NoText}]],
           seen' \in [Replica -> SUBSET Nat], acked' \in [Replica -> SUBSET Nat],
           \A r \in Replica : r # At(x) => acked'[r] = acked[r] /\ seen'[r] = seen[r],
           \A r \in Replica : ForceOK(r)'
    PROVE  PolicyInv'
<1>1. LoadTypes /\ RefreshMutex
    BY DEF PolicyInv, LoadInv
<1>2. by' = [by EXCEPT ![At(x)] = NoWorker]
      /\ \A y \in Actor : y # x => load'[y] = load[y] /\ before'[y] = before[y] /\ read'[y] = read[y]
    BY <1>1 DEF EndLoads
<1>3. load'[x] = "idle"
    BY DEF EndLoads
<1>4. LoadTypes'
    BY Zenon, <1>1 DEF EndLoads, LoadTypes, Empty
<1>5. \A y \in Actor : y # x /\ At(y) = At(x) => load[y] = "idle"
    BY <1>1 DEF RefreshMutex
<1>6. RefreshMutex'
    <2>1. \A y \in Actor : load'[y] # "idle" <=> by'[At(y)] = y
        <3>1. ASSUME NEW y \in Actor, At(y) = At(x) PROVE load'[y] = "idle" /\ by'[At(y)] # y
            BY Zenon, <1>1, <1>2, <1>3, <1>5, <3>1, AtReplica DEF LoadTypes
        <3>2. ASSUME NEW y \in Actor, At(y) # At(x) PROVE load'[y] # "idle" <=> by'[At(y)] = y
            BY <1>1, <1>2, <3>2, AtReplica DEF LoadTypes, RefreshMutex
        <3> QED BY <3>1, <3>2
    <2>2. \A w \in Worker : pc'[w] = "refreshing" <=> load'[w] # "idle"
        BY <1>1, <1>2, <1>3 DEF RefreshMutex, Actor
    <2> QED BY <2>1, <2>2 DEF RefreshMutex
<1>7. ASSUME NEW y \in Actor PROVE ReadOK(y)'
    <2>1. CASE At(y) = At(x)
        <3>1. load'[y] = "idle"
            BY <1>2, <1>3, <1>5, <2>1
        <3> QED BY <3>1 DEF ReadOK
    <2>2. CASE At(y) # At(x)
        <3>1. y # x /\ At(y) \in Replica
            BY <2>2, AtReplica
        <3>2. \A w \in Worker : Home[w] = At(y) => w # x
            BY <2>2, AtHome
        <3>3. ReadOK(y)
            BY DEF PolicyInv, LoadInv
        <3> QED BY Zenon, <1>2, <2>2, <3>1, <3>2, <3>3 DEF ReadOK, RecordedBy
    <2> QED BY <2>1, <2>2
<1> QED BY <1>4, <1>6, <1>7 DEF PolicyInv, LoadInv

(* A failed load leaves its request to say so; nothing else of the writes
   changes. *)
LEMMA FailedWrites ==
    ASSUME PolicyInv, NEW x \in Actor, load[x] # "idle", LoadFailed(x),
           UNCHANGED <<stored, chain, nextSeq, edits>>
    PROVE  /\ WriteInv'
           /\ \A w \in Worker : w # x => pc'[w] = pc[w] /\ seq'[w] = seq[w]
           /\ x \in Worker => pc'[x] # "refreshing"
           /\ UNCHANGED acked
<1>1. WriteInv /\ RefreshMutex
    BY DEF PolicyInv, LoadInv
<1>2. pc' = [w \in Worker |-> IF w = x THEN "stale" ELSE pc[w]] /\ UNCHANGED <<req, cur, seq, acked>>
    BY DEF LoadFailed
<1>3. x \in Worker => pc[x] = "refreshing"
    BY <1>1 DEF RefreshMutex
<1>4. WriteTypes'
    BY <1>1, <1>2, <1>3 DEF WriteInv, WriteTypes, Answering
<1>5. Quiet
    BY <1>1, <1>2, <1>3 DEF Quiet, Answering, WriteInv, WriteTypes
<1> QED BY <1>1, <1>2, <1>4, <1>5, QuietStep

(* A load that did not get a set to enforce: the engine keeps the last one. *)
LEMMA LoadFailedStep ==
    ASSUME PolicyInv, NEW x \in Actor, load[x] # "idle", LoadFailed(x),
           UNCHANGED <<stored, chain, nextSeq, edits, engine, seen>>,
           \/ UNCHANGED <<serving, broken>>
           \/ /\ broken' = [broken EXCEPT ![At(x)] = TRUE]
              /\ serving' = [serving EXCEPT ![At(x)] = TRUE]
    PROVE  PolicyInv'
<1>1. EndLoads(At(x), {x}) /\ UNCHANGED acked
    BY DEF LoadFailed
<1>2. LoadTypes /\ At(x) \in Replica
    BY AtReplica DEF PolicyInv, LoadInv
<1>3. serving' \in [Replica -> BOOLEAN] /\ broken' \in [Replica -> BOOLEAN]
      /\ engine' \in [Replica -> [Policy -> Text \cup {NoText}]]
      /\ seen' \in [Replica -> SUBSET Nat] /\ acked' \in [Replica -> SUBSET Nat]
    BY Zenon, <1>1, <1>2 DEF LoadTypes
<1>4. ASSUME NEW r \in Replica PROVE ForceOK(r)'
    <2>1. ForceOK(r)
        BY DEF PolicyInv, LoadInv
    <2>2. r = At(x) /\ ~UNCHANGED <<serving, broken>> => broken'[r]
        BY <1>2 DEF LoadTypes
    <2>3. r # At(x) => serving'[r] = serving[r] /\ broken'[r] = broken[r]
        BY <1>2 DEF LoadTypes
    <2> QED BY <1>1, <2>1, <2>2, <2>3 DEF ForceOK, RecordedBy
<1> QED BY <1>1, <1>3, <1>4, FailedWrites, EndLoadStep

(* A load that agrees with the chain puts its set in force and answers. *)
LEMMA LoadStep == ASSUME PolicyInv, NEW x \in Actor, Load(x) PROVE PolicyInv'
<1> DEFINE r0 == At(x)
<1>1. load[x] = "agreed" /\ Matches(items[x], before[x])
      /\ engine' = [engine EXCEPT ![r0] = items[x]]
      /\ seen' = [seen EXCEPT ![r0] = read[x]]
      /\ broken' = [broken EXCEPT ![r0] = FALSE]
      /\ serving' = [serving EXCEPT ![r0] = TRUE]
      /\ EndLoads(r0, {x})
      /\ UNCHANGED <<stored, chain, nextSeq, edits>>
    BY DEF Load, LoadDone, Enforceable
<1>2. IF x \in Replica THEN UNCHANGED <<work, acked>> ELSE Acknowledge(x)
    BY DEF Load, LoadDone
<1>3. WriteInv /\ LoadTypes /\ RefreshMutex /\ ReadOK(x) /\ r0 \in Replica
    BY AtReplica DEF PolicyInv, LoadInv
<1>4. read[x] \subseteq DOMAIN chain /\ before[x] = RecordedBy(read[x])
      /\ acked[r0] \subseteq read[x]
      /\ \A w \in Worker : Home[w] = r0 /\ pc[w] \in {"stale", "refreshing"} => seq[w] \in read[x]
    BY <1>1, <1>3 DEF ReadOK
<1>5. /\ WriteInv'
      /\ \A w \in Worker : w # x => pc'[w] = pc[w] /\ seq'[w] = seq[w]
      /\ x \in Worker => pc'[x] # "refreshing"
      /\ acked' \in [Replica -> SUBSET Nat]
      /\ acked'[r0] \subseteq read[x]
      /\ \A r \in Replica : r # r0 => acked'[r] = acked[r]
    <2>1. CASE x \in Replica
        <3>1. UNCHANGED <<pc, req, cur, seq, acked>> /\ x \notin Worker
            BY <1>2, <2>1, AtHome DEF work
        <3>2. WriteTypes' /\ Quiet
            BY <1>1, <1>3, <3>1 DEF WriteInv, WriteTypes, Quiet
        <3> QED BY <1>3, <1>4, <3>1, <3>2, QuietStep DEF LoadTypes
    <2>2. CASE x \notin Replica
        <3>1. x \in Worker /\ r0 = Home[x] /\ Finish({x})
              /\ acked' = [acked EXCEPT ![r0] = acked[r0] \cup {seq[x]}]
            BY <1>2, <2>2, AtHome DEF Acknowledge, Actor
        <3>2. pc[x] = "refreshing"
            BY <1>1, <1>3, <3>1 DEF RefreshMutex
        <3>3. seq[x] \in read[x] /\ seq[x] \in Nat
            BY <1>3, <1>4, <3>1, <3>2 DEF WriteInv, WriteTypes
        <3>4. WriteInv'
            BY <1>1, <1>3, <3>1, FinishStep
        <3>5. \A w \in Worker : w # x => pc'[w] = pc[w] /\ seq'[w] = seq[w]
            BY <3>1 DEF Finish
        <3>6. pc'[x] = "idle"
            BY <3>1 DEF Finish
        <3>7. acked' \in [Replica -> SUBSET Nat] /\ acked'[r0] = acked[r0] \cup {seq[x]}
              /\ \A r \in Replica : r # r0 => acked'[r] = acked[r]
            BY <1>3, <3>1, <3>3 DEF LoadTypes
        <3> QED BY <1>4, <3>3, <3>4, <3>5, <3>6, <3>7
    <2> QED BY <2>1, <2>2
<1>6. serving' \in [Replica -> BOOLEAN] /\ broken' \in [Replica -> BOOLEAN]
      /\ engine' \in [Replica -> [Policy -> Text \cup {NoText}]]
      /\ seen' \in [Replica -> SUBSET Nat]
    BY <1>1, <1>3 DEF LoadTypes
<1>7. ASSUME NEW r \in Replica PROVE ForceOK(r)'
    <2>1. CASE r = r0
        <3>1. engine'[r] = items[x] /\ seen'[r] = read[x]
            BY <1>1, <1>3, <2>1 DEF LoadTypes
        <3>2. Matches(engine'[r], RecordedBy(seen[r])')
            BY <1>1, <1>4, <3>1 DEF RecordedBy
        <3> QED BY <1>1, <1>4, <1>5, <2>1, <3>1, <3>2 DEF ForceOK
    <2>2. CASE r # r0
        <3>1. engine'[r] = engine[r] /\ seen'[r] = seen[r] /\ acked'[r] = acked[r]
              /\ serving'[r] = serving[r] /\ broken'[r] = broken[r]
            BY <1>1, <1>3, <1>5, <2>2 DEF LoadTypes
        <3> QED BY Zenon, <1>1, <3>1 DEF ForceOK, RecordedBy, PolicyInv, LoadInv
    <2> QED BY <2>1, <2>2
<1>8. \A r \in Replica : r # r0 => acked'[r] = acked[r] /\ seen'[r] = seen[r]
    BY <1>1, <1>3, <1>5 DEF LoadTypes
<1> QED BY <1>1, <1>5, <1>6, <1>7, <1>8, EndLoadStep

(* refreshAfterWrite marks the engine broken and answers. *)
LEMMA MarkBrokenStep == ASSUME PolicyInv, NEW w \in Worker, MarkBroken(w) PROVE PolicyInv'
<1>1. pc[w] = "stale" /\ broken' = [broken EXCEPT ![Home[w]] = TRUE]
      /\ acked' = [acked EXCEPT ![Home[w]] = acked[Home[w]] \cup {seq[w]}] /\ Finish({w})
      /\ UNCHANGED <<stored, chain, nextSeq, edits, by, load, before, items, read, serving, engine, seen>>
    BY DEF MarkBroken, Acknowledge, reading
<1>2. WriteInv /\ LoadTypes /\ RefreshMutex
    BY DEF PolicyInv, LoadInv
<1>3. WriteInv'
    BY <1>1, <1>2, FinishStep
<1>4. seq[w] \in DOMAIN chain /\ seq[w] \in Nat
    BY <1>1, <1>2 DEF WriteInv, WriteTypes, NumberInv, Answering
<1>5. LoadTypes'
    BY <1>1, <1>2, <1>4 DEF LoadTypes
<1>6. \A v \in Worker : v # w => pc'[v] = pc[v] /\ seq'[v] = seq[v]
    BY <1>1 DEF Finish
<1>7. pc'[w] = "idle"
    BY <1>1 DEF Finish
<1>8. RefreshMutex'
    BY <1>1, <1>2, <1>6, <1>7 DEF RefreshMutex
<1>9. ASSUME NEW y \in Actor PROVE ReadOK(y)'
    <2> SUFFICES ASSUME load[y] \in {"digests", "listed", "agreed"}
                 PROVE  /\ acked'[At(y)] \cup seen[At(y)] \subseteq read[y]
                        /\ \A v \in Worker : Home[v] = At(y) /\ pc'[v] \in {"stale", "refreshing"} => seq'[v] \in read[y]
        BY Zenon, <1>1 DEF ReadOK, RecordedBy, PolicyInv, LoadInv
    <2>1. ReadOK(y)
        BY DEF PolicyInv, LoadInv
    <2>2. At(y) = Home[w] => seq[w] \in read[y]
        BY <1>1, <2>1 DEF ReadOK
    <2>3. acked'[At(y)] \subseteq acked[At(y)] \cup read[y]
        BY <1>1, <1>2, <2>2, AtReplica DEF LoadTypes
    <2> QED BY <1>6, <1>7, <2>1, <2>3 DEF ReadOK
<1>10. ASSUME NEW r \in Replica PROVE ForceOK(r)'
    <2>1. ForceOK(r)
        BY DEF PolicyInv, LoadInv
    <2>2. CASE r = Home[w]
        BY <1>1, <1>2, <1>4, <2>1, <2>2 DEF ForceOK, RecordedBy, LoadTypes
    <2>3. CASE r # Home[w]
        BY <1>1, <1>2, <2>1, <2>3 DEF ForceOK, RecordedBy, LoadTypes
    <2> QED BY <2>2, <2>3
<1> QED BY <1>3, <1>5, <1>8, <1>9, <1>10 DEF PolicyInv, LoadInv

(* A replica without rows enforces nothing. *)
LEMMA EmptyMatches == Matches(Empty, RecordedBy({}))
<1>1. \A p \in Policy : RecordedBy({})[p] = Unrecorded
    BY DEF RecordedBy, Recorded
<1> QED BY <1>1 DEF Matches, Empty

(* A process dies, with its requests and its load. *)
LEMMA CrashStep == ASSUME PolicyInv, NEW r \in Replica, Crash(r) PROVE PolicyInv'
<1> DEFINE ws == {w \in Worker : Home[w] = r}  xs == {x \in Actor : At(x) = r}
<1>1. Finish(ws) /\ EndLoads(r, xs) /\ UNCHANGED <<stored, chain, nextSeq, edits, acked>>
      /\ serving' = [serving EXCEPT ![r] = FALSE] /\ broken' = [broken EXCEPT ![r] = FALSE]
      /\ engine' = [engine EXCEPT ![r] = Empty] /\ seen' = [seen EXCEPT ![r] = {}]
    BY DEF Crash, CrashWrites
<1>2. WriteInv /\ LoadTypes /\ RefreshMutex
    BY DEF PolicyInv, LoadInv
<1>3. WriteInv'
    BY <1>1, <1>2, FinishStep
<1>4. LoadTypes'
    BY <1>1, <1>2 DEF LoadTypes, EndLoads, Empty
<1>5. \A w \in Worker : IF Home[w] = r THEN pc'[w] = "idle"
                        ELSE pc'[w] = pc[w] /\ seq'[w] = seq[w]
    BY <1>1 DEF Finish
<1>6. \A x \in Actor : IF At(x) = r THEN load'[x] = "idle"
                       ELSE load'[x] = load[x] /\ before'[x] = before[x] /\ read'[x] = read[x]
    BY <1>1 DEF EndLoads
<1>7. by' = [by EXCEPT ![r] = NoWorker]
    BY <1>1 DEF EndLoads
<1>8. RefreshMutex'
    <2>1. \A x \in Actor : load'[x] # "idle" <=> by'[At(x)] = x
        BY <1>2, <1>6, <1>7, AtReplica DEF RefreshMutex, LoadTypes
    <2>2. \A w \in Worker : pc'[w] = "refreshing" <=> load'[w] # "idle"
        BY <1>2, <1>5, <1>6, AtHome DEF RefreshMutex, Actor
    <2> QED BY <2>1, <2>2 DEF RefreshMutex
<1>9. ASSUME NEW y \in Actor PROVE ReadOK(y)'
    <2>1. CASE At(y) = r
        BY <1>6, <2>1 DEF ReadOK
    <2>2. CASE At(y) # r
        <3>1. ReadOK(y) /\ At(y) \in Replica
            BY AtReplica DEF PolicyInv, LoadInv
        <3>2. seen'[At(y)] = seen[At(y)]
            BY <1>1, <1>2, <2>2, <3>1 DEF LoadTypes
        <3> QED BY <1>1, <1>5, <1>6, <2>2, <3>1, <3>2 DEF ReadOK, RecordedBy
    <2> QED BY <2>1, <2>2
<1>10. ASSUME NEW q \in Replica PROVE ForceOK(q)'
    <2>1. ForceOK(q)
        BY DEF PolicyInv, LoadInv
    <2>2. CASE q = r
        <3>1. seen'[q] = {} /\ engine'[q] = Empty /\ ~serving'[q]
            BY <1>1, <1>2, <2>2 DEF LoadTypes
        <3>2. Matches(engine'[q], RecordedBy(seen[q])')
            BY Zenon, <1>1, <3>1, EmptyMatches DEF RecordedBy
        <3> QED BY <1>1, <2>1, <3>1, <3>2 DEF ForceOK
    <2>3. CASE q # r
        BY <1>1, <1>2, <2>1, <2>3 DEF ForceOK, RecordedBy, LoadTypes
    <2> QED BY <2>2, <2>3
<1> QED BY <1>3, <1>4, <1>8, <1>9, <1>10 DEF PolicyInv, LoadInv

(* The first states satisfy the invariant. *)
LEMMA PolicyInit == Init => PolicyInv
<1> SUFFICES ASSUME Init PROVE PolicyInv
    OBVIOUS
<1>1. WriteInit /\ WriteInv
    BY WriteInvInit DEF Init
<1>2. LoadTypes
    BY DEF Init, LoadTypes, Empty
<1>3. RefreshMutex
    BY <1>1, AtReplica DEF Init, WriteInit, RefreshMutex, Actor
<1>4. (\A x \in Actor : ReadOK(x)) /\ (\A r \in Replica : ForceOK(r))
    BY EmptyMatches DEF Init, ReadOK, ForceOK
<1> QED BY <1>1, <1>2, <1>3, <1>4 DEF PolicyInv, LoadInv

(* Every step keeps the invariant. *)
LEMMA PolicyStep == PolicyInv /\ [Next]_vars => PolicyInv'
<1> SUFFICES ASSUME PolicyInv, [Next]_vars PROVE PolicyInv'
    OBVIOUS
<1>1. ASSUME NEW w \in Worker, Call(w) \/ Change(w) \/ WriteFails(w), UNCHANGED loadVars
      PROVE  PolicyInv'
    <2>1. WriteInv'
        BY <1>1, WriteInvStep DEF PolicyInv
    <2>2. LoadInv'
        BY <1>1, WriteEffect, WritesKeepLoads DEF PolicyInv
    <2> QED BY <2>1, <2>2 DEF PolicyInv
<1>2. ASSUME NEW w \in Worker, MarkBroken(w) PROVE PolicyInv'
    BY <1>2, MarkBrokenStep
<1>3. ASSUME NEW x \in Actor, StartLoad(x) PROVE PolicyInv'
    BY <1>3, StartLoadStep
<1>4. ASSUME NEW x \in Actor, Reload(x) PROVE PolicyInv'
    <2>1. CASE ReadDigests(x) \/ AnotherRound(x)
        <3>1. load[x] # "idle" /\ before' = [before EXCEPT ![x] = Recorded(chain)]
              /\ read' = [read EXCEPT ![x] = DOMAIN chain] /\ load' = [load EXCEPT ![x] = "digests"]
              /\ UNCHANGED <<stored, chain, nextSeq, pc, req, cur, seq, edits, by, items,
                             serving, engine, broken, seen, acked>>
            BY <2>1 DEF ReadDigests, AnotherRound, writeVars, work, inForce
        <3> QED BY Zenon, <3>1, DigestsStep
    <2>2. CASE Agree(x)
        <3>1. load[x] # "idle" /\ before[x] = Recorded(chain) /\ before' = before
              /\ read' = [read EXCEPT ![x] = DOMAIN chain] /\ load' = [load EXCEPT ![x] = "agreed"]
              /\ UNCHANGED <<stored, chain, nextSeq, pc, req, cur, seq, edits, by, items,
                             serving, engine, broken, seen, acked>>
            BY Zenon, <2>2 DEF Agree, writeVars, work, inForce
        <3>2. before' = [before EXCEPT ![x] = Recorded(chain)]
            BY <3>1 DEF PolicyInv, LoadInv, LoadTypes
        <3> QED BY Zenon, <3>1, <3>2, DigestsStep
    <2>3. CASE LoadRefused(x)
        BY Zenon, <2>3, LoadFailedStep DEF LoadRefused
    <2>4. CASE KeptChanging(x)
        BY <2>4, LoadFailedStep DEF KeptChanging, inForce
    <2> QED BY <1>4, <2>1, <2>2, <2>3, <2>4, ListStep, LoadStep DEF Reload
<1>5. ASSUME NEW x \in Actor, QueryFails(x) PROVE PolicyInv'
    BY <1>5, LoadFailedStep DEF QueryFails, inForce
<1>6. ASSUME NEW r \in Replica, Crash(r) PROVE PolicyInv'
    BY <1>6, CrashStep
<1>7. CASE EditRow /\ UNCHANGED loadVars
    <2>1. WriteInv'
        BY <1>7, EditStep DEF PolicyInv
    <2>2. UNCHANGED <<chain, pc, seq>>
        BY <1>7 DEF EditRow, work
    <2>3. LoadInv'
        BY <1>7, <2>2, WritesKeepLoads DEF PolicyInv
    <2> QED BY <2>1, <2>3 DEF PolicyInv
<1>8. CASE UNCHANGED vars
    <2>1. UNCHANGED <<stored, chain, nextSeq, pc, req, cur, seq, edits>> /\ UNCHANGED loadVars
        BY <1>8 DEF vars, writeVars, work
    <2>3. WriteInv'
        BY <2>1, WriteInvStutter DEF PolicyInv
    <2>4. LoadInv'
        BY <2>1, WritesKeepLoads DEF PolicyInv
    <2> QED BY <2>3, <2>4 DEF PolicyInv
<1> QED BY <1>1, <1>2, <1>3, <1>4, <1>5, <1>6, <1>7, <1>8 DEF Next

(* The whole invariant of the stored policies and their loads. *)
THEOREM PolicyInvHolds == Spec => []PolicyInv
<1> QED BY PolicyInit, PolicyStep, PTL DEF Spec

(* What PolicySet and matchAuditChain rely on: unless a row was edited behind
   the API, the newest chain row of each policy records the text in the table,
   for any number of replicas writing at once, with their audit rows committed
   in any order. *)
THEOREM ChainMatchesTableHolds == Spec => []ChainMatchesTable
<1>1. PolicyInv => ChainMatchesTable
    BY DEF PolicyInv, WriteInv
<1> QED BY <1>1, PolicyInvHolds, PTL

(* loadStoredPolicies: a serving replica enforces exactly what the chain had
   recorded, whatever is committed or edited between its three reads. *)
THEOREM EnforcedWasRecordedHolds == Spec => []EnforcedWasRecorded
<1>1. PolicyInv => EnforcedWasRecorded
    BY DEF PolicyInv, LoadInv, ForceOK, RecordedBy, EnforcedWasRecorded
<1> QED BY <1>1, PolicyInvHolds, PTL

(* refreshAfterWrite: a write a serving replica has answered is in force there,
   or that replica fails closed. *)
THEOREM AckedWriteEnforcedHolds == Spec => []AckedWriteEnforced
<1>1. PolicyInv => AckedWriteEnforced
    BY DEF PolicyInv, LoadInv, ForceOK, AckedWriteEnforced
<1> QED BY <1>1, PolicyInvHolds, PTL

(* ChangePolicy: a committed write replaces the row it was decided on, and that
   is the row its If-Match named. *)
THEOREM WritesReplaceWhatTheyReadHolds == Spec => WritesReplaceWhatTheyRead
<1>1. ASSUME PolicyInv, [Next]_vars, NEW p \in Policy, stored'[p] # stored[p], edits' = edits
      PROVE  \E w \in Worker :
                /\ pc[w] = "chained" /\ req[w].id = p /\ cur[w] = stored[p]
                /\ req[w].match \in {AnyTag, stored[p]}
    <2>1. WriteTypes /\ LockInv
        BY <1>1 DEF PolicyInv, WriteInv
    <2>2. ~EditRow
        BY <1>1, <2>1, EditCounts
    <2>3. PICK w \in Worker : CommitChange(w)
        <3>1. \A w \in Worker : Call(w) \/ Change(w) \/ WriteFails(w) => CommitChange(w)
            BY <1>1, OnlyCommitsWrite
        <3>2. \A w \in Worker : ~MarkBroken(w)
            BY <1>1 DEF MarkBroken
        <3>3. \A x \in Actor : ~StartLoad(x) /\ ~Reload(x) /\ ~QueryFails(x)
            BY Zenon, <1>1 DEF StartLoad, Reload, QueryFails, ReadDigests, ListPolicies, Agree, AnotherRound,
                        Load, LoadRefused, KeptChanging, writeVars
        <3>4. \A r \in Replica : ~Crash(r)
            BY <1>1 DEF Crash, CrashWrites
        <3>5. ~UNCHANGED vars
            BY <1>1 DEF vars, writeVars
        <3> QED BY Zenon, <1>1, <2>2, <3>1, <3>2, <3>3, <3>4, <3>5 DEF Next
    <2>4. pc[w] = "chained" /\ req[w].id = p
        BY <1>1, <2>1, <2>3 DEF CommitChange, WriteTypes
    <2>5. cur[w] = stored[p] /\ req[w].match \in {AnyTag, cur[w]}
        BY Zenon, <2>1, <2>4 DEF LockInv, Holding, Applies
    <2> QED BY <2>4, <2>5
<1>2. PolicyInv /\ [Next]_vars =>
        [\A p \in Policy : stored'[p] # stored[p] /\ edits' = edits =>
            \E w \in Worker :
                /\ pc[w] = "chained" /\ req[w].id = p /\ cur[w] = stored[p]
                /\ req[w].match \in {AnyTag, stored[p]}]_writeVars
    BY <1>1
<1> QED BY <1>2, PolicyInvHolds, PTL DEF Spec, WritesReplaceWhatTheyRead

(* RefreshDirectory: a replica never goes back to an older set while it runs,
   although a load may have read the chain long before it ends. *)
THEOREM EnforcedMovesForwardHolds == Spec => EnforcedMovesForward
<1>1. ASSUME PolicyInv, [Next]_vars, NEW r \in Replica, serving[r], serving'[r]
      PROVE  seen[r] \subseteq seen'[r]
    <2>1. LoadTypes
        BY <1>1 DEF PolicyInv, LoadInv
    <2>2. CASE UNCHANGED seen
        BY <2>2
    <2>3. ASSUME NEW x \in Actor, Load(x) PROVE seen[r] \subseteq seen'[r]
        <3>1. ReadOK(x) /\ At(x) \in Replica
            BY <1>1, AtReplica DEF PolicyInv, LoadInv
        <3>2. load[x] = "agreed" /\ seen' = [seen EXCEPT ![At(x)] = read[x]]
            BY <2>3 DEF Load
        <3>3. seen[At(x)] \subseteq read[x]
            BY <3>1, <3>2 DEF ReadOK
        <3> QED BY <2>1, <3>1, <3>2, <3>3 DEF LoadTypes
    <2>4. ASSUME NEW q \in Replica, Crash(q) PROVE seen[r] \subseteq seen'[r]
        <3>1. serving' = [serving EXCEPT ![q] = FALSE] /\ seen' = [seen EXCEPT ![q] = {}]
            BY <2>4 DEF Crash
        <3> QED BY <1>1, <2>1, <3>1 DEF LoadTypes
    <2>5. UNCHANGED seen \/ (\E x \in Actor : Load(x)) \/ (\E q \in Replica : Crash(q))
        BY Zenon, <1>1 DEF Next, MarkBroken, StartLoad, Reload, QueryFails, ReadDigests, ListPolicies, Agree,
                    AnotherRound, LoadRefused, KeptChanging, inForce, loadVars, vars
    <2> QED BY <2>2, <2>3, <2>4, <2>5
<1>2. PolicyInv /\ [Next]_vars =>
        [\A r \in Replica : serving[r] /\ serving'[r] => seen[r] \subseteq seen'[r]]_vars
    BY <1>1
<1> QED BY <1>2, PolicyInvHolds, PTL DEF Spec, EnforcedMovesForward

=============================================================================
