------------------------- MODULE StoredPolicyProofs -------------------------
(***************************************************************************)
(* Proofs about the writes to the stored policies and their chain rows,    *)
(* for any replicas, requests, policies, texts and faults.                 *)
(***************************************************************************)
EXTENDS StoredPolicies, Integers, WellFoundedInduction, TLAPS

USE PolicyAssumption

(* A non-empty set of naturals has a least element. *)
LEMMA LeastExists ==
    ASSUME NEW S, S \subseteq Nat, S # {}
    PROVE  \E m \in S : \A y \in S : m <= y
<1>1. PICK m \in S : \A y \in S : ~ (<<y, m>> \in OpToRel(<, Nat))
    BY Zenon, NatLessThanWellFounded, WFMin
<1>2. ASSUME NEW y \in S PROVE m <= y
    <2>1. ~ (<<y, m>> \in OpToRel(<, Nat))
        BY Zenon, <1>1
    <2>2. ~ (y < m)
        BY <2>1 DEF OpToRel
    <2> QED BY <2>2
<1> QED BY <1>2

(* Max of a bounded non-empty set of naturals is its greatest element. *)
LEMMA MaxIsGreatest ==
    ASSUME NEW n \in Nat, NEW S, S \subseteq 0..n, S # {}
    PROVE  Max(S) \in S /\ \A y \in S : y <= Max(S)
<1> DEFINE D == {n - s : s \in S}
<1>1. D \subseteq Nat
    OBVIOUS
<1>2. D # {}
    <2>1. PICK s \in S : TRUE
        BY Zenon
    <2>2. n - s \in D
        OBVIOUS
    <2> QED BY <2>2
<1> HIDE DEF D
<1>3. PICK m \in D : \A y \in D : m <= y
    BY Zenon, <1>1, <1>2, LeastExists
<1>4. PICK x \in S : m = n - x
    BY DEF D
<1>5. ASSUME NEW y \in S PROVE x >= y
    <2>1. n - y \in D
        BY DEF D
    <2>2. n - x <= n - y
        BY <2>1, <1>3, <1>4
    <2> QED BY <2>2
<1>6. Max(S) \in S /\ \A y \in S : Max(S) >= y
    BY Zenon, <1>5 DEF Max
<1> QED BY <1>6

(* The events of the chain, and the rows and requests of the handlers. *)
Events == [id : Policy, text : Text \cup {NoText}]
StoredRow == [text : Text, version : Nat \ {0}] \cup {NoRow}
Requests ==
    [kind : {"create", "update"}, id : Policy, text : Text, match : StoredRow \cup {AnyTag}]
    \cup [kind : {"delete"}, id : Policy, text : {NoText}, match : StoredRow \cup {AnyTag}]

(* more is rows and the event e under a new number s, which is above those of
   the other events of its policy. *)
Extended(rows, more, s, e, n) ==
    /\ n \in Nat /\ s \in 1..n /\ e \in Events
    /\ DOMAIN rows \subseteq 1..n /\ s \notin DOMAIN rows
    /\ \A t \in DOMAIN rows : rows[t].id = e.id => t < s
    /\ DOMAIN more = DOMAIN rows \cup {s} /\ more[s] = e
    /\ \A t \in DOMAIN rows : more[t] = rows[t]

(* Then e is what PolicyAuditDigests reports for its policy, and it reports
   the same as before for every other policy. *)
LEMMA RecordedGrows ==
    ASSUME NEW rows, NEW more, NEW s, NEW e, NEW n, Extended(rows, more, s, e, n)
    PROVE  \A p \in Policy : Recorded(more)[p] = IF p = e.id THEN e.text ELSE Recorded(rows)[p]
<1> USE DEF Extended
<1> DEFINE Of(f, p) == {t \in DOMAIN f : f[t].id = p}
           Newest(f, p) == IF Of(f, p) = {} THEN Unrecorded ELSE f[Max(Of(f, p))].text
<1>1. \A f : Recorded(f) = [p \in Policy |-> Newest(f, p)]
    BY DEF Recorded
<1>3. ASSUME NEW p \in Policy, p # e.id PROVE Newest(more, p) = Newest(rows, p)
    <2>1. Of(more, p) = Of(rows, p)
        BY <1>3
    <2>2. CASE Of(rows, p) = {}
        BY <2>1, <2>2
    <2>3. CASE Of(rows, p) # {}
        <3>1. Of(rows, p) \subseteq 0..n
            OBVIOUS
        <3>2. Max(Of(rows, p)) \in Of(rows, p)
            <4> HIDE DEF Of
            <4> QED BY <3>1, <2>3, MaxIsGreatest
        <3>3. more[Max(Of(rows, p))] = rows[Max(Of(rows, p))]
            <4> DEFINE m == Max(Of(rows, p))
            <4>1. m \in DOMAIN rows
                BY <3>2
            <4> HIDE DEF m
            <4> QED BY <4>1 DEF m
        <3> HIDE DEF Of
        <3> QED BY <2>1, <2>3, <3>3
    <2> QED BY <2>2, <2>3
<1>4. Newest(more, e.id) = e.text
    <2>1. Of(more, e.id) \subseteq 0..n /\ s \in Of(more, e.id)
        OBVIOUS
    <2>2. \A t \in Of(more, e.id) : t <= s
        OBVIOUS
    <2> DEFINE m == Max(Of(more, e.id))
    <2>3. m \in Of(more, e.id) /\ s <= m
        <3> HIDE DEF Of
        <3> QED BY <2>1, MaxIsGreatest
    <2>4. m = s
        <3> HIDE DEF m, Of
        <3>1. m \in 0..n /\ m <= s
            BY <2>1, <2>2, <2>3
        <3> QED BY <2>3, <3>1
    <2>5. more[s] = e
        OBVIOUS
    <2>6. Of(more, e.id) # {}
        BY <2>1
    <2> HIDE DEF Of
    <2> QED BY <2>4, <2>5, <2>6
<1>5. e.id \in Policy
    BY DEF Events
<1> HIDE DEF Newest
<1> QED BY <1>1, <1>3, <1>4, <1>5

(* What the chain records of a policy is a text, or that there is none, or
   that it has no row. *)
LEMMA RecordedType ==
    ASSUME NEW n \in Nat, NEW rows, DOMAIN rows \subseteq 1..n,
           \A s \in DOMAIN rows : rows[s] \in Events
    PROVE  Recorded(rows) \in [Policy -> Text \cup {NoText, Unrecorded}]
<1> SUFFICES ASSUME NEW p \in Policy
             PROVE  Recorded(rows)[p] \in Text \cup {NoText, Unrecorded}
    BY DEF Recorded
<1> DEFINE of == {s \in DOMAIN rows : rows[s].id = p}
<1>1. Recorded(rows)[p] = IF of = {} THEN Unrecorded ELSE rows[Max(of)].text
    BY DEF Recorded
<1>2. CASE of = {}
    BY <1>1, <1>2
<1>3. CASE of # {}
    <2>1. of \subseteq 0..n
        OBVIOUS
    <2>2. Max(of) \in of
        <3> HIDE DEF of
        <3> QED BY Zenon, <2>1, <1>3, MaxIsGreatest
    <2>3. rows[Max(of)] \in Events
        BY <2>2
    <2> QED BY <1>1, <1>3, <2>3 DEF Events
<1> QED BY <1>2, <1>3

-----------------------------------------------------------------------------
(* The writes. *)

WriteTypes ==
    /\ stored \in [Policy -> StoredRow]
    /\ chain \in [DOMAIN chain -> Events]
    /\ nextSeq \in Nat \ {0}
    /\ pc \in [Worker -> {"idle", "called"} \cup InTx \cup Answering]
    /\ req \in [Worker -> Requests \cup {Idle}]
    /\ \A w \in Worker : pc[w] # "idle" => req[w] \in Requests
    /\ cur \in [Worker -> StoredRow]
    /\ seq \in [Worker -> Nat]
    /\ edits \in Nat

(* A request whose transaction has the row of its policy to itself: it locked
   the row it read, or it changed it. *)
Holding(w) ==
    \/ pc[w] \in {"written", "chained"}
    \/ pc[w] = "read" /\ cur[w] # NoRow

(* A row that is held stays as it was read, and nobody else holds it. *)
LockInv ==
    /\ \A w \in Worker : Holding(w) => stored[req[w].id] = cur[w]
    /\ \A v, w \in Worker : Holding(v) /\ Holding(w) /\ req[v].id = req[w].id => v = w
    /\ \A w \in Worker : pc[w] \in {"read", "written", "chained"} => Applies(req[w], cur[w])

(* A number drawn and not committed yet is nobody else's and above every
   committed one of its policy. *)
NumberInv ==
    /\ DOMAIN chain \subseteq 1..nextSeq - 1
    /\ \A w \in Worker : pc[w] = "chained" =>
        /\ seq[w] \in 1..nextSeq - 1
        /\ seq[w] \notin DOMAIN chain
        /\ \A s \in DOMAIN chain : chain[s].id = req[w].id => s < seq[w]
    /\ \A v, w \in Worker : pc[v] = "chained" /\ pc[w] = "chained" /\ seq[v] = seq[w] => v = w
    /\ \A w \in Worker : pc[w] \in Answering => seq[w] \in DOMAIN chain

WriteInv == WriteTypes /\ LockInv /\ NumberInv /\ ChainMatchesTable

(* A step of the requests that neither takes a row nor gives one back
   changed. *)
Quiet ==
    /\ UNCHANGED <<stored, chain, nextSeq, edits>>
    /\ \A w \in Worker :
        \/ pc'[w] \in {"idle", "called", "begun"}
        \/ /\ pc'[w] = pc[w] \/ (pc[w] \in Answering /\ pc'[w] \in Answering)
           /\ req'[w] = req[w] /\ cur'[w] = cur[w] /\ seq'[w] = seq[w]

(* Such a step keeps the invariant. *)
LEMMA QuietStep == WriteInv /\ WriteTypes' /\ Quiet => WriteInv'
<1> SUFFICES ASSUME WriteInv, WriteTypes', Quiet PROVE WriteInv'
    OBVIOUS
<1>1. ASSUME NEW w \in Worker, pc'[w] \in {"read", "written", "chained"}
      PROVE  pc'[w] = pc[w] /\ req'[w] = req[w] /\ cur'[w] = cur[w] /\ seq'[w] = seq[w]
    BY <1>1 DEF Quiet, Answering
<1>2. ASSUME NEW w \in Worker, Holding(w)' PROVE Holding(w)
    BY <1>1, <1>2 DEF Holding
<1>3. LockInv'
    BY <1>1, <1>2 DEF Holding, LockInv, Quiet, Applies, WriteInv
<1>4. ASSUME NEW w \in Worker, pc'[w] \in Answering PROVE pc[w] \in Answering /\ seq'[w] = seq[w]
    BY <1>4 DEF Quiet, Answering
<1>5. NumberInv'
    BY <1>1, <1>4 DEF NumberInv, Quiet, WriteInv
<1>6. ChainMatchesTable'
    BY DEF ChainMatchesTable, Quiet, WriteInv
<1> QED BY <1>3, <1>5, <1>6 DEF WriteInv

(* Ending requests is such a step. *)
LEMMA FinishStep ==
    ASSUME WriteInv, NEW ws \in SUBSET Worker, Finish(ws),
           UNCHANGED <<stored, chain, nextSeq, edits>>
    PROVE  WriteInv'
<1>1. WriteTypes'
    BY DEF WriteInv, WriteTypes, Finish, StoredRow
<1>2. Quiet
    BY DEF Quiet, Finish, WriteInv, WriteTypes
<1> QED BY <1>1, <1>2, QuietStep

(* A request arrives. *)
LEMMA CallStep == ASSUME WriteInv, NEW w \in Worker, Call(w) PROVE WriteInv'
<1>1. PICK q \in Accepted(w) : req' = [req EXCEPT ![w] = q]
    BY Zenon DEF Call
<1>2. \A p \in Policy : stored[p] \in StoredRow
    BY DEF WriteInv, WriteTypes
<1>3. q \in Requests
    <2> DEFINE texts == {t \in Text : <<Home[w], t>> \notin Collides}
               tags(p) == {AnyTag} \cup ({stored[p]} \ {NoRow})
               Updates == {[kind : {"update"}, id : {p}, text : texts, match : tags(p)] : p \in Policy}
               Deletes == {[kind : {"delete"}, id : {p}, text : {NoText}, match : tags(p)] : p \in Policy}
    <2>1. q \in [kind : {"create"}, id : Policy, text : texts, match : {AnyTag}]
          \/ q \in UNION Updates \/ q \in UNION Deletes
        <3>1. Accepted(w) = [kind : {"create"}, id : Policy, text : texts, match : {AnyTag}]
                            \cup (UNION Updates) \cup (UNION Deletes)
            BY Zenon DEF Accepted
        <3> HIDE DEF texts, Updates, Deletes
        <3> QED BY <3>1
    <2>2. CASE q \in [kind : {"create"}, id : Policy, text : texts, match : {AnyTag}]
        BY <2>2 DEF Requests
    <2>3. CASE q \in UNION Updates
        <3>1. PICK p \in Policy : q \in [kind : {"update"}, id : {p}, text : texts, match : tags(p)]
            BY <2>3
        <3> QED BY <1>2, <3>1 DEF Requests
    <2>4. CASE q \in UNION Deletes
        <3>1. PICK p \in Policy : q \in [kind : {"delete"}, id : {p}, text : {NoText}, match : tags(p)]
            BY <2>4
        <3> QED BY <1>2, <3>1 DEF Requests
    <2> QED BY <2>1, <2>2, <2>3, <2>4
<1>4. WriteTypes'
    BY <1>1, <1>3 DEF WriteInv, WriteTypes, Call
<1>5. Quiet
    BY <1>1 DEF Quiet, Call, WriteInv, WriteTypes
<1> QED BY <1>4, <1>5, QuietStep

(* auditMu is taken. *)
LEMMA BeginStep == ASSUME WriteInv, NEW w \in Worker, Begin(w) PROVE WriteInv'
<1>1. WriteTypes'
    BY DEF WriteInv, WriteTypes, Begin, InTx
<1>2. Quiet
    BY DEF Quiet, Begin, WriteInv, WriteTypes
<1> QED BY <1>1, <1>2, QuietStep

(* SELECT ... FOR UPDATE. *)
LEMMA ReadRowStep == ASSUME WriteInv, NEW w \in Worker, ReadRow(w) PROVE WriteInv'
<1> DEFINE p == req[w].id
<1>0. p \in Policy /\ stored[p] \in StoredRow
    BY DEF WriteInv, WriteTypes, ReadRow, Requests
<1>1. WriteTypes'
    BY <1>0 DEF WriteInv, WriteTypes, ReadRow, InTx
<1>2. pc' = [pc EXCEPT ![w] = "read"] /\ cur' = [cur EXCEPT ![w] = stored[p]]
      /\ UNCHANGED <<stored, chain, nextSeq, req, seq, edits>>
    BY DEF ReadRow
<1>3. pc \in [Worker -> {"idle", "called"} \cup InTx \cup Answering] /\ cur \in [Worker -> StoredRow]
    BY DEF WriteInv, WriteTypes
<1>4. ASSUME NEW v \in Worker, v # w
      PROVE  pc'[v] = pc[v] /\ cur'[v] = cur[v] /\ (Holding(v)' <=> Holding(v))
    BY <1>2, <1>3, <1>4 DEF Holding
<1>5. Holding(w)' => stored[p] # NoRow /\ cur'[w] = stored[p]
    BY <1>2, <1>3 DEF Holding
<1>6. ASSUME NEW v \in Worker, v # w, Holding(v), req[v].id = p PROVE stored[p] = NoRow
    <2>1. stored[p] = cur[v]
        BY <1>6 DEF WriteInv, LockInv
    <2>2. cur[v] # NoRow => RowLocked(p, w)
        BY <1>6 DEF RowLocked, Holding
    <2> QED BY <2>1, <2>2 DEF ReadRow
<1>7. LockInv'
    <2>1. \A v \in Worker : Holding(v)' => stored'[req'[v].id] = cur'[v]
        BY <1>2, <1>4, <1>5 DEF WriteInv, LockInv
    <2>2. \A u, v \in Worker : Holding(u)' /\ Holding(v)' /\ req'[u].id = req'[v].id => u = v
        BY <1>2, <1>4, <1>5, <1>6 DEF WriteInv, LockInv
    <2>3. Applies(req'[w], cur'[w])
        BY <1>2, <1>3 DEF ReadRow
    <2>4. \A v \in Worker : pc'[v] \in {"read", "written", "chained"} => Applies(req'[v], cur'[v])
        BY <1>2, <1>4, <2>3 DEF WriteInv, LockInv
    <2> QED BY <2>1, <2>2, <2>4 DEF LockInv, Applies
<1>8. NumberInv'
    BY <1>2, <1>3, <1>4 DEF WriteInv, NumberInv, Answering
<1>9. ChainMatchesTable'
    BY <1>2 DEF WriteInv, ChainMatchesTable
<1> QED BY <1>1, <1>7, <1>8, <1>9 DEF WriteInv

(* The INSERT, UPDATE or DELETE. *)
LEMMA WriteStep == ASSUME WriteInv, NEW w \in Worker, Write(w) PROVE WriteInv'
<1> DEFINE p == req[w].id
<1>1. WriteTypes'
    BY DEF WriteInv, WriteTypes, Write, InTx
<1>2. pc[w] = "read" /\ pc' = [pc EXCEPT ![w] = "written"]
      /\ UNCHANGED <<stored, chain, nextSeq, req, cur, seq, edits>>
    BY DEF Write
<1>3. pc \in [Worker -> {"idle", "called"} \cup InTx \cup Answering]
    BY DEF WriteInv, WriteTypes
<1>4. ASSUME NEW v \in Worker, v # w PROVE pc'[v] = pc[v] /\ (Holding(v)' <=> Holding(v))
    BY <1>2, <1>3, <1>4 DEF Holding
<1>5. stored[p] = cur[w]
    BY <1>2 DEF Write, WriteInv, LockInv, Holding
<1>6. ASSUME NEW v \in Worker, v # w, Holding(v), req[v].id = p PROVE FALSE
    <2>1. CASE cur[w] # NoRow
        BY <1>2, <1>6, <2>1 DEF WriteInv, LockInv, Holding
    <2>2. CASE cur[w] = NoRow
        <3>1. pc[v] \notin {"written", "chained"}
            BY <1>6, <2>2 DEF Write, InsertWaits
        <3>2. cur[v] # NoRow /\ stored[p] = cur[v]
            BY <1>6, <3>1 DEF Holding, WriteInv, LockInv
        <3> QED BY <3>2, <1>5, <2>2
    <2> QED BY <2>1, <2>2
<1>7. LockInv'
    <2>1. \A v \in Worker : Holding(v)' => stored'[req'[v].id] = cur'[v]
        BY <1>2, <1>4, <1>5 DEF WriteInv, LockInv
    <2>2. \A u, v \in Worker : Holding(u)' /\ Holding(v)' /\ req'[u].id = req'[v].id => u = v
        BY <1>2, <1>4, <1>6 DEF WriteInv, LockInv
    <2>3. \A v \in Worker : pc'[v] \in {"read", "written", "chained"} => Applies(req'[v], cur'[v])
        BY <1>2, <1>4 DEF WriteInv, LockInv
    <2> QED BY <2>1, <2>2, <2>3 DEF LockInv, Applies
<1>8. NumberInv'
    BY <1>2, <1>3, <1>4 DEF WriteInv, NumberInv, Answering
<1>9. ChainMatchesTable'
    BY <1>2 DEF WriteInv, ChainMatchesTable
<1> QED BY <1>1, <1>7, <1>8, <1>9 DEF WriteInv

(* The audit row draws its number. *)
LEMMA AppendStep == ASSUME WriteInv, NEW w \in Worker, Append(w) PROVE WriteInv'
<1>1. WriteTypes'
    BY DEF WriteInv, WriteTypes, Append, InTx
<1>2. pc[w] = "written" /\ pc' = [pc EXCEPT ![w] = "chained"] /\ seq' = [seq EXCEPT ![w] = nextSeq]
      /\ nextSeq' = nextSeq + 1 /\ UNCHANGED <<stored, chain, req, cur, edits>>
    BY DEF Append
<1>3. pc \in [Worker -> {"idle", "called"} \cup InTx \cup Answering] /\ seq \in [Worker -> Nat]
      /\ nextSeq \in Nat \ {0}
    BY DEF WriteInv, WriteTypes
<1>4. ASSUME NEW v \in Worker, v # w PROVE pc'[v] = pc[v] /\ seq'[v] = seq[v]
    BY <1>2, <1>3, <1>4
<1>5. \A v \in Worker : Holding(v)' <=> Holding(v)
    BY <1>2, <1>3, <1>4 DEF Holding
<1>6. LockInv'
    <2>1. \A v \in Worker : pc'[v] \in {"read", "written", "chained"} => pc[v] \in {"read", "written", "chained"}
        BY <1>2, <1>3, <1>4
    <2> QED BY <1>2, <1>5, <2>1 DEF WriteInv, LockInv, Applies
<1>7. pc'[w] = "chained" /\ seq'[w] = nextSeq
    BY <1>2, <1>3
<1>8. NumberInv'
    <2>1. DOMAIN chain \subseteq 1..nextSeq - 1 /\ nextSeq - 1 \in Nat
        BY <1>3 DEF WriteInv, NumberInv
    <2>2. DOMAIN chain' \subseteq 1..nextSeq' - 1
        BY <1>2, <1>3, <2>1
    <2>3. ASSUME NEW v \in Worker, pc'[v] = "chained"
          PROVE  /\ seq'[v] \in 1..nextSeq' - 1
                 /\ seq'[v] \notin DOMAIN chain
                 /\ \A s \in DOMAIN chain : chain[s].id = req'[v].id => s < seq'[v]
        <3>1. CASE v = w
            BY <1>2, <1>3, <1>7, <2>1, <3>1
        <3>2. CASE v # w
            BY <1>2, <1>3, <1>4, <2>3, <3>2 DEF WriteInv, NumberInv
        <3> QED BY <3>1, <3>2
    <2>4. \A u, v \in Worker : pc'[u] = "chained" /\ pc'[v] = "chained" /\ seq'[u] = seq'[v] => u = v
        <3>1. \A v \in Worker : v # w /\ pc[v] = "chained" => seq[v] # nextSeq
            BY <1>3 DEF WriteInv, NumberInv
        <3> QED BY <1>4, <1>7, <3>1 DEF WriteInv, NumberInv
    <2>5. \A v \in Worker : pc'[v] \in Answering => seq'[v] \in DOMAIN chain
        BY <1>4, <1>7 DEF WriteInv, NumberInv, Answering
    <2> QED BY <1>2, <2>2, <2>3, <2>4, <2>5 DEF NumberInv
<1>9. ChainMatchesTable'
    BY <1>2 DEF WriteInv, ChainMatchesTable
<1> QED BY <1>1, <1>6, <1>8, <1>9 DEF WriteInv

(* A commit makes its event what the chain records of its policy. *)
LEMMA CommitRecorded ==
    ASSUME WriteInv, NEW w \in Worker, CommitChange(w)
    PROVE  \A q \in Policy : Recorded(chain')[q] = IF q = req[w].id THEN req[w].text ELSE Recorded(chain)[q]
<1> DEFINE e == Event(w)  n == nextSeq - 1  s0 == seq[w]
<1>1. pc[w] = "chained"
      /\ chain' = [s \in DOMAIN chain \cup {s0} |-> IF s = s0 THEN e ELSE chain[s]]
    BY DEF CommitChange
<1>2. e \in Events /\ e.id = req[w].id /\ e.text = req[w].text
    BY <1>1 DEF WriteInv, WriteTypes, Requests, Event, Events
<1>3. s0 \in 1..n /\ s0 \notin DOMAIN chain /\ DOMAIN chain \subseteq 1..n
      /\ \A s \in DOMAIN chain : chain[s].id = e.id => s < s0
    BY <1>1, <1>2 DEF WriteInv, NumberInv
<1>4. n \in Nat
    BY DEF WriteInv, WriteTypes
<1> HIDE DEF e, n, s0
<1>5. DOMAIN chain' = DOMAIN chain \cup {s0} /\ chain'[s0] = e
      /\ \A s \in DOMAIN chain : chain'[s] = chain[s]
    BY <1>1, <1>3
<1>6. \A q \in Policy : Recorded(chain')[q] = IF q = e.id THEN e.text ELSE Recorded(chain)[q]
    <2>1. Extended(chain, chain', s0, e, n)
        BY <1>2, <1>3, <1>4, <1>5 DEF Extended
    <2> QED BY <2>1, RecordedGrows
<1> QED BY <1>2, <1>6

(* COMMIT: the row and its chain row become visible together, and the
   request goes on or, its answer lost, ends. *)
LEMMA CommitStep ==
    ASSUME WriteInv, NEW w \in Worker, CommitChange(w), UNCHANGED <<nextSeq, edits>>,
           WriteTypes',
           pc'[w] \in {"committed", "idle"}, pc'[w] = "committed" => seq'[w] = seq[w],
           \A v \in Worker \ {w} :
               pc'[v] = pc[v] /\ req'[v] = req[v] /\ cur'[v] = cur[v] /\ seq'[v] = seq[v]
    PROVE  WriteInv'
<1> DEFINE p == req[w].id  e == Event(w)  s0 == seq[w]
<1>1. pc[w] = "chained"
      /\ stored' = [stored EXCEPT ![p] = Written(w)]
      /\ chain' = [s \in DOMAIN chain \cup {s0} |-> IF s = s0 THEN e ELSE chain[s]]
    BY DEF CommitChange
<1>2. p \in Policy /\ req[w] \in Requests /\ e \in Events /\ e.id = p /\ e.text = req[w].text
    BY <1>1 DEF WriteInv, WriteTypes, Requests, Event, Events
<1>3. s0 \in 1..nextSeq - 1 /\ s0 \notin DOMAIN chain /\ DOMAIN chain \subseteq 1..nextSeq - 1
      /\ \A s \in DOMAIN chain : chain[s].id = p => s < s0
    BY <1>1 DEF WriteInv, NumberInv
<1>4. nextSeq - 1 \in Nat /\ stored \in [Policy -> StoredRow]
    BY DEF WriteInv, WriteTypes
<1>5. \A v \in Worker : Holding(v)' => v # w /\ Holding(v)
    BY DEF Holding
<1>6. \A v \in Worker : v # w /\ Holding(v) => req[v].id # p
    BY <1>1 DEF WriteInv, LockInv, Holding
<1>7. LockInv'
    <2>1. ASSUME NEW v \in Worker, Holding(v)' PROVE stored'[req'[v].id] = cur'[v]
        <3>1. v # w /\ Holding(v) /\ req[v].id # p
            BY <1>5, <1>6, <2>1
        <3>2. stored[req[v].id] = cur[v]
            BY <3>1 DEF WriteInv, LockInv
        <3>3. req[v].id \in Policy
            BY <3>1 DEF WriteInv, WriteTypes, Holding, Requests
        <3>4. stored'[req[v].id] = stored[req[v].id]
            BY <1>1, <1>2, <1>4, <3>1, <3>3
        <3> QED BY <3>1, <3>2, <3>4
    <2>2. \A u, v \in Worker : Holding(u)' /\ Holding(v)' /\ req'[u].id = req'[v].id => u = v
        BY <1>5 DEF WriteInv, LockInv
    <2>3. \A v \in Worker : pc'[v] \in {"read", "written", "chained"} => Applies(req'[v], cur'[v])
        BY DEF WriteInv, LockInv
    <2> QED BY <2>1, <2>2, <2>3 DEF LockInv, Applies
<1>8. NumberInv'
    <2>1. DOMAIN chain' = DOMAIN chain \cup {s0}
        BY <1>1
    <2>2. \A s \in DOMAIN chain : chain'[s] = chain[s]
        BY <1>1, <1>3
    <2>3. chain'[s0].id = p
        BY <1>1, <1>2
    <2>4. ASSUME NEW v \in Worker, pc'[v] = "chained"
          PROVE  /\ seq'[v] \in 1..nextSeq' - 1
                 /\ seq'[v] \notin DOMAIN chain'
                 /\ \A s \in DOMAIN chain' : chain'[s].id = req'[v].id => s < seq'[v]
        <3>1. v # w /\ pc[v] = "chained" /\ seq'[v] = seq[v] /\ req'[v] = req[v]
            BY <2>4
        <3>2. seq[v] # s0 /\ req[v].id # p
            BY <1>1, <1>6, <3>1 DEF WriteInv, NumberInv, Holding
        <3> QED BY <2>1, <2>2, <2>3, <3>1, <3>2 DEF WriteInv, NumberInv
    <2>5. \A u, v \in Worker : pc'[u] = "chained" /\ pc'[v] = "chained" /\ seq'[u] = seq'[v] => u = v
        BY DEF WriteInv, NumberInv
    <2>6. \A v \in Worker : pc'[v] \in Answering => seq'[v] \in DOMAIN chain'
        BY <2>1 DEF WriteInv, NumberInv, Answering
    <2>7. DOMAIN chain' \subseteq 1..nextSeq' - 1
        BY <2>1, <1>3
    <2> QED BY <2>4, <2>5, <2>6, <2>7 DEF NumberInv
<1>9. ChainMatchesTable'
    <2> SUFFICES ASSUME edits = 0, NEW q \in Policy
                 PROVE  stored'[q].text = IF Recorded(chain')[q] = Unrecorded THEN NoText
                                          ELSE Recorded(chain')[q]
        BY DEF ChainMatchesTable, Matches
    <2>1. Recorded(chain')[q] = IF q = p THEN e.text ELSE Recorded(chain)[q]
        BY <1>2, CommitRecorded
    <2>2. Recorded(chain) \in [Policy -> Text \cup {NoText, Unrecorded}]
        BY <1>3, <1>4, RecordedType DEF WriteInv, WriteTypes
    <2>3. CASE q = p
        <3>1. Recorded(chain')[q] = req[w].text
            BY <1>2, <2>1, <2>2, <2>3
        <3>2. req[w].text # Unrecorded
            BY <1>2 DEF Requests
        <3>3. Written(w).text = req[w].text
            BY <1>2 DEF Written, Requests, NoRow
        <3>4. stored'[q] = Written(w)
            BY <1>1, <1>2, <1>4, <2>3
        <3> QED BY <3>1, <3>2, <3>3, <3>4
    <2>4. CASE q # p
        <3>1. Recorded(chain')[q] = Recorded(chain)[q]
            BY <1>2, <2>1, <2>2, <2>4
        <3>2. stored'[q] = stored[q]
            BY <1>1, <1>2, <1>4, <2>4
        <3>3. stored[q].text = IF Recorded(chain)[q] = Unrecorded THEN NoText ELSE Recorded(chain)[q]
            BY DEF WriteInv, ChainMatchesTable, Matches
        <3> QED BY <3>1, <3>2, <3>3
    <2> QED BY <2>3, <2>4
<1> QED BY <1>7, <1>8, <1>9 DEF WriteInv

(* The types after a commit. *)
LEMMA CommitTypes ==
    ASSUME WriteInv, NEW w \in Worker, CommitChange(w)
    PROVE  /\ stored' \in [Policy -> StoredRow]
           /\ chain' \in [DOMAIN chain' -> Events]
<1>1. pc[w] = "chained" /\ req[w] \in Requests /\ cur[w] \in StoredRow
    BY DEF CommitChange, WriteInv, WriteTypes
<1>2. Written(w) \in StoredRow
    <2>1. cur[w].version \in Nat
        BY <1>1 DEF StoredRow, NoRow
    <2>2. CASE req[w].kind = "delete"
        BY <2>2 DEF Written, StoredRow
    <2>3. CASE req[w].kind # "delete"
        <3>1. req[w].text \in Text
            BY <1>1, <2>3 DEF Requests
        <3> QED BY <2>1, <2>3, <3>1 DEF Written, StoredRow
    <2> QED BY <2>2, <2>3
<1>3. Event(w) \in Events
    BY <1>1 DEF Event, Events, Requests
<1>4. stored' \in [Policy -> StoredRow]
    BY Zenon, <1>2 DEF CommitChange, WriteInv, WriteTypes
<1>5. chain' \in [DOMAIN chain' -> Events]
    BY <1>3 DEF CommitChange, WriteInv, WriteTypes
<1> QED BY <1>4, <1>5

(* A row changed behind the API: the chain no longer has to match. *)
LEMMA EditStep == ASSUME WriteInv, EditRow PROVE WriteInv'
<1>1. PICK p \in Policy, t \in Text \cup {NoText} :
        /\ ~RowLocked(p, NoWorker) /\ ~InsertWaits(p, NoWorker)
        /\ stored' = [stored EXCEPT ![p] = IF t = NoText THEN NoRow ELSE [text |-> t, version |-> 1]]
    BY Zenon DEF EditRow
<1>2. edits' = edits + 1 /\ UNCHANGED <<chain, nextSeq, pc, req, cur, seq>>
    BY DEF EditRow, work
<1>3. (IF t = NoText THEN NoRow ELSE [text |-> t, version |-> 1]) \in StoredRow
    BY DEF StoredRow
<1>4. WriteTypes'
    BY <1>1, <1>2, <1>3 DEF WriteInv, WriteTypes
<1>5. \A w \in Worker : Holding(w) => req[w].id # p
    BY <1>1 DEF Holding, RowLocked, InsertWaits
<1>6. \A w \in Worker : Holding(w)' <=> Holding(w)
    BY <1>2 DEF Holding
<1>7. \A w \in Worker : Holding(w) => stored'[req[w].id] = stored[req[w].id]
    <2>1. \A w \in Worker : Holding(w) => req[w].id \in Policy
        BY DEF WriteInv, WriteTypes, Holding, Requests
    <2> QED BY <1>1, <1>5, <2>1 DEF WriteInv, WriteTypes
<1>8. LockInv'
    BY <1>2, <1>6, <1>7 DEF WriteInv, LockInv, Applies
<1>9. NumberInv'
    BY <1>2 DEF WriteInv, NumberInv
<1>10. edits' # 0
    BY <1>2 DEF WriteInv, WriteTypes
<1> QED BY <1>4, <1>8, <1>9, <1>10 DEF WriteInv, ChainMatchesTable

(* Every step of a request up to its answer keeps the invariant. *)
LEMMA WriteInvStep ==
    ASSUME WriteInv, NEW w \in Worker, Call(w) \/ Change(w) \/ WriteFails(w)
    PROVE  WriteInv'
<1>1. CASE Refused(w) \/ Duplicate(w) \/ Rollback(w)
    <2>1. Finish({w}) /\ UNCHANGED <<stored, chain, nextSeq, edits>>
        BY <1>1 DEF Refused, Duplicate, Rollback
    <2> QED BY <2>1, FinishStep
<1>2. CASE Commit(w)
    <2>1. CommitChange(w) /\ pc' = [pc EXCEPT ![w] = "committed"] /\ UNCHANGED <<nextSeq, req, cur, seq, edits>>
        BY <1>2 DEF Commit
    <2>2. pc \in [Worker -> {"idle", "called"} \cup InTx \cup Answering] /\ pc[w] = "chained"
        BY <2>1 DEF WriteInv, WriteTypes, CommitChange
    <2>3. WriteTypes'
        BY <2>1, <2>2, CommitTypes DEF WriteInv, WriteTypes, Answering
    <2> QED BY <2>1, <2>2, <2>3, CommitStep
<1>3. CASE CommitReplyLost(w)
    <2>1. CommitChange(w) /\ Finish({w}) /\ UNCHANGED <<nextSeq, edits>>
        BY <1>3 DEF CommitReplyLost
    <2>2. WriteTypes'
        BY <2>1, CommitTypes DEF WriteInv, WriteTypes, Finish, StoredRow
    <2>3. pc'[w] = "idle"
          /\ \A v \in Worker \ {w} :
               pc'[v] = pc[v] /\ req'[v] = req[v] /\ cur'[v] = cur[v] /\ seq'[v] = seq[v]
        BY <2>1 DEF Finish
    <2> QED BY <2>1, <2>2, <2>3, CommitStep
<1> QED BY <1>1, <1>2, <1>3, CallStep, BeginStep, ReadRowStep, WriteStep, AppendStep
        DEF Change, WriteFails

(* What a write step leaves alone: rows are only added to the chain, and a
   request that waits for its load stays where it is. *)
LEMMA WriteEffect ==
    ASSUME WriteInv, NEW w \in Worker, Call(w) \/ Change(w) \/ WriteFails(w)
    PROVE  /\ DOMAIN chain \subseteq DOMAIN chain'
           /\ \A s \in DOMAIN chain : chain'[s] = chain[s]
           /\ \A v \in Worker : pc'[v] \in {"stale", "refreshing"} \/ pc[v] = "refreshing"
                                    => pc'[v] = pc[v] /\ seq'[v] = seq[v]
<1>1. WriteTypes /\ NumberInv
    BY DEF WriteInv
<1>2. CASE UNCHANGED chain
    <2>1. pc[w] \in {"idle", "called"} \cup InTx /\ pc'[w] \in {"idle", "called"} \cup InTx
          /\ \A v \in Worker \ {w} : pc'[v] = pc[v] /\ seq'[v] = seq[v]
        <3>1. CASE Refused(w) \/ Duplicate(w) \/ Rollback(w)
            BY Zenon, <1>1, <3>1 DEF Refused, Duplicate, Rollback, Finish, InTx
        <3>2. CASE Call(w) \/ Begin(w) \/ ReadRow(w) \/ Write(w) \/ Append(w)
            BY <1>1, <3>2 DEF Call, Begin, ReadRow, Write, Append, InTx, WriteTypes
        <3>3. CASE Commit(w) \/ CommitReplyLost(w)
            <4>1. pc[w] = "chained" /\ seq[w] \in DOMAIN chain
                BY <1>2, <3>3 DEF Commit, CommitReplyLost, CommitChange
            <4> QED BY <1>1, <4>1 DEF NumberInv
        <3> QED BY <3>1, <3>2, <3>3 DEF Change, WriteFails
    <2> QED BY <1>2, <2>1 DEF InTx
<1>3. CASE ~UNCHANGED chain
    <2>1. Commit(w) \/ CommitReplyLost(w)
        BY Zenon, <1>3 DEF Call, Change, WriteFails, Begin, ReadRow, Refused, Write, Duplicate, Append, Rollback
    <2>2. CommitChange(w)
        BY <2>1 DEF Commit, CommitReplyLost
    <2>3. pc[w] = "chained" /\ seq[w] \notin DOMAIN chain
        BY <1>1, <2>2 DEF CommitChange, NumberInv
    <2>4. DOMAIN chain \subseteq DOMAIN chain' /\ \A s \in DOMAIN chain : chain'[s] = chain[s]
        BY <2>2, <2>3 DEF CommitChange
    <2>5. pc'[w] \in {"committed", "idle"} /\ \A v \in Worker \ {w} : pc'[v] = pc[v] /\ seq'[v] = seq[v]
        BY <1>1, <2>1 DEF Commit, CommitReplyLost, Finish, WriteTypes
    <2> QED BY <2>3, <2>4, <2>5
<1> QED BY <1>2, <1>3

(* Only a commit changes the table. *)
LEMMA OnlyCommitsWrite ==
    ASSUME NEW w \in Worker, Call(w) \/ Change(w) \/ WriteFails(w), stored' # stored
    PROVE  CommitChange(w)
BY Zenon DEF Call, Change, WriteFails, Begin, ReadRow, Refused, Write, Duplicate, Append, Rollback, Commit,
       CommitReplyLost

(* An edit behind the API is counted. *)
LEMMA EditCounts == WriteTypes /\ EditRow => edits' # edits
<1>1. WriteTypes => edits \in Nat
    BY DEF WriteTypes
<1>2. EditRow => edits' = edits + 1
    BY DEF EditRow
<1> QED BY <1>1, <1>2

(* The first states satisfy it. *)
LEMMA WriteInvInit == WriteInit => WriteInv
<1> SUFFICES ASSUME WriteInit PROVE WriteInv
    OBVIOUS
<1>1. DOMAIN chain = {}
    BY DEF WriteInit
<1>2. WriteTypes
    BY <1>1 DEF WriteInit, WriteTypes, StoredRow
<1>3. LockInv /\ NumberInv
    BY <1>1 DEF WriteInit, LockInv, Holding, NumberInv, Answering
<1>4. \A p \in Policy : Recorded(chain)[p] = Unrecorded
    BY <1>1 DEF Recorded
<1>5. ChainMatchesTable
    BY <1>4 DEF ChainMatchesTable, Matches, WriteInit, NoRow
<1> QED BY <1>2, <1>3, <1>5 DEF WriteInv

(* A step that changes none of its variables keeps it. *)
LEMMA WriteInvStutter ==
    WriteInv /\ UNCHANGED <<stored, chain, nextSeq, pc, req, cur, seq, edits>> => WriteInv'
BY QuietStep DEF WriteInv, WriteTypes, Quiet

(* ChangePolicy: unless a row was edited behind the API, the newest chain row
   of each policy records the text in the table, whatever the handlers do
   after their writes. *)
THEOREM WritesKeepChain == WriteSpec => []ChainMatchesTable
<1>1. WriteInv /\ [WriteNext]_writeVars => WriteInv'
    <2> SUFFICES ASSUME WriteInv, [WriteNext]_writeVars PROVE WriteInv'
        OBVIOUS
    <2>1. ASSUME NEW w \in Worker, Answer(w) PROVE WriteInv'
        BY <2>1, FinishStep DEF Answer
    <2>2. ASSUME NEW r \in Replica, CrashWrites(r) PROVE WriteInv'
        <3>1. Finish({w \in Worker : Home[w] = r}) /\ UNCHANGED <<stored, chain, nextSeq, edits>>
            BY <2>2 DEF CrashWrites
        <3> QED BY <3>1, FinishStep
    <2>3. CASE UNCHANGED writeVars
        BY <2>3, WriteInvStutter DEF writeVars, work
    <2> QED BY <2>1, <2>2, <2>3, WriteInvStep, EditStep DEF WriteNext
<1>2. WriteInv => ChainMatchesTable
    BY DEF WriteInv
<1> QED BY WriteInvInit, <1>1, <1>2, PTL DEF WriteSpec

=============================================================================
