--------------------------- MODULE LocalPDPProofs ---------------------------
(* What the local PDP promises of its decisions, for any number of them and   *)
(* of faults, any buffer, batch and limits on drops.                          *)
EXTENDS LocalPDP, Integers, FiniteSetTheorems, TLAPS

Revisions == {Revision[d] : d \in Decision} \cup {NoRevision}

Rows ==
    [kind : {"decision", "dropped", "conflict"}, id : Decision \cup Nat, rev : Revisions,
     lost : Seq(Decision)]

(* A decision's row is a function of the decision, and only loss reports have
   other ids. *)
GoodRows ==
    {r \in Rows :
        /\ r.kind = "decision" => r.id \in Decision /\ r.rev = Revision[r.id] /\ r.lost = <<>>
        /\ r.kind # "decision" => r.id \in Nat}

Requests == [rows : Seq(GoodRows), at : Nat, live : BOOLEAN]

PDPTypes ==
    /\ chain \in Seq(GoodRows) /\ posts \subseteq Requests
    /\ pending \in Seq(Decision) /\ spool \in Seq(Decision \cup {Garbage}) /\ torn \in BOOLEAN
    /\ dropped \in Seq(Decision) /\ lossID \in Nat /\ nextLoss \in Nat /\ batchCap \in Nat
    /\ req \in [Decision -> ReqState] /\ unrepaired \in Nat

(* A handler has what it has appended in the chain; the one the agent waits
   for works on the head of the queue. *)
PostInv(p) ==
    /\ 1 <= Len(p.rows) /\ p.at <= Len(p.rows)
    /\ \A i \in 1..Len(p.rows) : p.rows[i].kind = p.rows[1].kind /\ p.rows[i].kind # "conflict"
    /\ \A i \in 1..p.at : p.rows[i].kind = "decision" => p.rows[i].id \in Recorded
    /\ p.live => flush = "wait"
    /\ p.live /\ p.rows[1].kind = "decision" =>
         Len(p.rows) <= Len(pending) /\ \A i \in 1..Len(p.rows) : p.rows[i].id = pending[i]

PostsInv ==
    /\ \A p \in posts : PostInv(p)
    /\ \A p, q \in posts : p.live /\ q.live => p = q
    /\ run = "down" => flush = "idle"

OnceInv == \A i, j \in DecisionRows : chain[i].id = chain[j].id => i = j

(* Only the holder of spoolMu has written a line it has not queued, and no
   request survives its process. *)
LockInv ==
    \A d \in Decision :
        /\ req[d] = "written" => Spooling /\ spoolMu = d
        /\ run = "down" => req[d] \notin {"reserved", "written"}

(* What is torn is not the line of an answered decision. *)
TornInv ==
    torn => spool # <<>> /\ (spool[Len(spool)] = Garbage \/ req[spool[Len(spool)]] = "failed")

Settled == Recorded \cup everDropped

(* While the agent runs, every answered line of the spool is still queued or
   is settled. *)
QueueInv ==
    run # "down" /\ Spooling =>
        \A d \in Answered : d \in Range(spool) => d \in Range(pending) \cup Settled

(* Answered, or about to be, and in no safe place. *)
Missing ==
    {d \in Decision : req[d] \in {"answered", "written"}} \ (Range(spool) \cup Settled)

(* Leftovers that the next line of a running agent would merge with. *)
Risk == IF torn /\ run # "down" THEN 1 ELSE 0

MissingInv == Spooling => Cardinality(Missing) + Risk <= unrepaired

SafeInv == LockInv /\ TornInv /\ QueueInv /\ MissingInv

PDPInv == PDPTypes /\ PostsInv /\ OnceInv /\ SafeInv

-----------------------------------------------------------------------------
(* Sequences. *)

LEMMA AppendFacts ==
    ASSUME NEW S, NEW s \in Seq(S), NEW x \in S
    PROVE  /\ Append(s, x) \in Seq(S) /\ Len(Append(s, x)) = Len(s) + 1
           /\ \A i \in 1..Len(s) : Append(s, x)[i] = s[i]
           /\ Append(s, x)[Len(s) + 1] = x
           /\ Range(Append(s, x)) = Range(s) \cup {x}
<1> DEFINE t == Append(s, x)
<1>1. t \in Seq(S)
    OBVIOUS
<1>2. Len(t) = Len(s) + 1
    OBVIOUS
<1>3. \A i \in 1..Len(s) : t[i] = s[i]
    OBVIOUS
<1>4. t[Len(s) + 1] = x
    OBVIOUS
<1>5. DOMAIN s = 1..Len(s) /\ DOMAIN t = 1..(Len(s) + 1) /\ Len(s) \in Nat
    OBVIOUS
<1> HIDE DEF t
<1>6. Range(t) = Range(s) \cup {x}
    <2>1. \A i \in 1..(Len(s) + 1) : i \in 1..Len(s) \/ i = Len(s) + 1
        BY <1>5
    <2>2. \A i \in 1..Len(s) : i \in 1..(Len(s) + 1)
        BY <1>5
    <2>3. Len(s) + 1 \in 1..(Len(s) + 1)
        BY <1>5
    <2> QED BY <1>3, <1>4, <1>5, <2>1, <2>2, <2>3 DEF Range
<1> QED BY <1>1, <1>2, <1>3, <1>4, <1>6 DEF t

LEMMA SeqFacts ==
    ASSUME NEW S, NEW s \in Seq(S)
    PROVE  /\ Len(s) \in Nat /\ DOMAIN s = 1..Len(s) /\ Range(s) \subseteq S
           /\ \A i \in 1..Len(s) : s[i] \in S /\ s[i] \in Range(s)
           /\ (s # <<>> => Len(s) \in 1..Len(s))
<1>1. Len(s) \in Nat /\ DOMAIN s = 1..Len(s)
    OBVIOUS
<1>2. \A i \in 1..Len(s) : s[i] \in S
    OBVIOUS
<1>3. s # <<>> => Len(s) \in 1..Len(s)
    OBVIOUS
<1> QED BY <1>1, <1>2, <1>3 DEF Range

LEMMA DropFacts ==
    ASSUME NEW S, NEW s \in Seq(S), NEW n \in 0..Len(s)
    PROVE  /\ Drop(s, n) \in Seq(S)
           /\ \A x \in Range(s) : x \in Range(Drop(s, n)) \/ \E i \in 1..n : x = s[i]
<1> DEFINE t == Drop(s, n)
<1>1. t \in Seq(S)
    BY DEF Drop
<1>2. Len(t) = Len(s) - n
    BY DEF Drop
<1>3. \A i \in 1..(Len(s) - n) : t[i] = s[i + n]
    BY DEF Drop
<1>4. DOMAIN s = 1..Len(s) /\ DOMAIN t = 1..(Len(s) - n) /\ Len(s) \in Nat
    BY <1>1, <1>2
<1> HIDE DEF t
<1>5. ASSUME NEW i \in 1..Len(s) PROVE s[i] \in Range(t) \/ \E j \in 1..n : s[i] = s[j]
    <2>1. CASE i \in 1..n
        BY <2>1
    <2>2. CASE i \notin 1..n
        <3>1. i - n \in 1..(Len(s) - n) /\ (i - n) + n = i
            BY <1>4, <2>2
        <3>2. t[i - n] = s[i]
            BY SMTT(20), <1>3, <3>1
        <3> QED BY <1>4, <3>1, <3>2 DEF Range
    <2> QED BY <2>1, <2>2
<1> QED BY Zenon, <1>1, <1>4, <1>5 DEF Range, t

LEMMA MarkFacts ==
    ASSUME NEW S, NEW s \in Seq(S), NEW g \in S, s # <<>>, NEW t, t = [s EXCEPT ![Len(s)] = g]
    PROVE  /\ t \in Seq(S) /\ t # <<>> /\ t[Len(t)] = g
           /\ Range(s) \subseteq Range(t) \cup {s[Len(s)]}
           /\ Range(t) \subseteq Range(s) \cup {g}
<1>1. Len(s) \in Nat /\ Len(s) # 0 /\ DOMAIN s = 1..Len(s)
    OBVIOUS
<1>2. t \in Seq(S)
    OBVIOUS
<1>3. DOMAIN t = 1..Len(s)
    BY <1>1
<1>4. Len(t) = Len(s)
    OBVIOUS
<1>5. t[Len(s)] = g
    BY SMTT(20), <1>1
<1>6. \A i \in 1..Len(s) : i # Len(s) => t[i] = s[i]
    BY Zenon, <1>1
<1>7. t # <<>>
    BY <1>1, <1>2, <1>4
<1> QED BY Zenon, <1>1, <1>2, <1>3, <1>4, <1>5, <1>6, <1>7 DEF Range

LEMMA LastIndex ==
    ASSUME NEW n \in Nat, n # 0
    PROVE  /\ \A i \in 1..n : i \in 1..(n - 1) \/ i = n
           /\ \A i \in 1..(n - 1) : i \in 1..n
OBVIOUS

LEMMA FrontFacts ==
    ASSUME NEW S, NEW s \in Seq(S), s # <<>>, NEW t, t = SubSeq(s, 1, Len(s) - 1)
    PROVE  /\ t \in Seq(S) /\ Range(t) \subseteq Range(s)
           /\ Range(s) \subseteq Range(t) \cup {s[Len(s)]}
           /\ \A i \in 1..Len(t) : t[i] = s[i] /\ i \in 1..(Len(s) - 1)
<1>1. Len(s) \in Nat /\ Len(s) # 0 /\ DOMAIN s = 1..Len(s)
    OBVIOUS
<1>2. t \in Seq(S)
    BY <1>1
<1>3. Len(t) = Len(s) - 1
    BY <1>1
<1>4. \A i \in 1..(Len(s) - 1) : t[i] = s[i]
    BY <1>1
<1>5. DOMAIN t = 1..(Len(s) - 1)
    BY SMTT(20), <1>2, <1>3
<1>6. /\ \A i \in 1..Len(s) : i \in 1..(Len(s) - 1) \/ i = Len(s)
      /\ \A i \in 1..(Len(s) - 1) : i \in 1..Len(s)
    BY Zenon, <1>1, LastIndex
<1>8. Range(t) \subseteq Range(s) /\ Range(s) \subseteq Range(t) \cup {s[Len(s)]}
    BY Zenon, <1>1, <1>4, <1>5, <1>6 DEF Range
<1>9. \A i \in 1..Len(t) : t[i] = s[i] /\ i \in 1..(Len(s) - 1)
    BY <1>3, <1>4
<1> QED BY <1>2, <1>8, <1>9

-----------------------------------------------------------------------------
(* The control plane's rows. *)

LEMMA RecordedMember ==
    \A x : x \in Recorded <=> \E i \in 1..Len(chain) : chain[i].kind = "decision" /\ chain[i].id = x
BY DEF Recorded

(* AppendAuditOnce of a row a handler may have: it never leaves a conflict for
   a decision, because its row would be the same. *)
LEMMA AppendOnceKeeps ==
    ASSUME chain \in Seq(GoodRows), OnceInv, NEW row \in GoodRows, row.kind # "conflict",
           chain' = AppendAuditOnce(row)
    PROVE  /\ chain' \in Seq(GoodRows) /\ OnceInv' /\ Recorded \subseteq Recorded'
           /\ row.kind = "decision" => row.id \in Recorded'
<1> DEFINE seen == {i \in 1..Len(chain) : chain[i].kind = row.kind /\ chain[i].id = row.id}
<1>0. \A i \in 1..Len(chain) : chain[i] \in GoodRows
    BY SeqFacts
<1>1. ASSUME NEW r \in GoodRows, chain' = Append(chain, r)
      PROVE  /\ chain' \in Seq(GoodRows) /\ Len(chain') = Len(chain) + 1 /\ Len(chain) \in Nat
             /\ \A i \in 1..Len(chain) : chain'[i] = chain[i]
             /\ chain'[Len(chain) + 1] = r
             /\ \A i \in 1..Len(chain') : i \in 1..Len(chain) \/ i = Len(chain) + 1
             /\ \A i \in 1..Len(chain) : i \in 1..Len(chain')
             /\ Len(chain) + 1 \in 1..Len(chain')
    <2>1. /\ chain' \in Seq(GoodRows) /\ Len(chain') = Len(chain) + 1
          /\ \A i \in 1..Len(chain) : chain'[i] = chain[i]
          /\ chain'[Len(chain) + 1] = r
        <3>1. /\ Append(chain, r) \in Seq(GoodRows) /\ Len(Append(chain, r)) = Len(chain) + 1
              /\ \A i \in 1..Len(chain) : Append(chain, r)[i] = chain[i]
              /\ Append(chain, r)[Len(chain) + 1] = r
            BY <1>1, AppendFacts
        <3> QED BY Zenon, <1>1, <3>1
    <2>2. Len(chain) \in Nat
        BY SeqFacts
    <2> QED BY <2>1, <2>2
<1>2. CASE seen = {}
    <2>1. chain' = Append(chain, row)
        BY <1>2 DEF AppendAuditOnce
    <2>2. \A i \in 1..Len(chain) : ~(chain[i].kind = row.kind /\ chain[i].id = row.id)
        BY <1>2
    <2>3. Recorded \subseteq Recorded' /\ (row.kind = "decision" => row.id \in Recorded')
        BY <1>1, <2>1 DEF Recorded
    <2>4. OnceInv'
        BY Zenon, <1>1, <2>1, <2>2 DEF OnceInv, DecisionRows
    <2> QED BY Zenon, <1>1, <2>1, <2>3, <2>4
<1>3. ASSUME seen # {}, row.kind = "decision" PROVE UNCHANGED chain /\ row.id \in Recorded
    <2>1. PICK i \in 1..Len(chain) : chain[i].kind = "decision" /\ chain[i].id = row.id
        BY <1>3
    <2>2. chain[i] = row
        <3>1. chain[i] \in Rows /\ row \in Rows
            BY <1>0, <2>1 DEF GoodRows
        <3>2. chain[i].rev = row.rev /\ chain[i].lost = row.lost
            BY <1>0, <1>3, <2>1 DEF GoodRows
        <3> QED BY <1>3, <2>1, <3>1, <3>2 DEF Rows
    <2> QED BY <1>3, <2>1, <2>2 DEF AppendAuditOnce, Recorded
<1>4. ASSUME seen # {}, row.kind # "decision" PROVE /\ chain' \in Seq(GoodRows) /\ OnceInv'
                                                   /\ Recorded \subseteq Recorded'
    <2> DEFINE r == [row EXCEPT !.kind = "conflict"]
    <2>1. r \in GoodRows /\ r.kind = "conflict"
        BY Zenon, <1>4 DEF GoodRows, Rows
    <2>2. chain' = chain \/ chain' = Append(chain, r)
        BY Zenon, <1>4 DEF AppendAuditOnce
    <2> HIDE DEF r
    <2>3. CASE chain' = chain
        BY <2>3 DEF OnceInv, DecisionRows, Recorded
    <2>4. CASE chain' = Append(chain, r)
        <3>1. Recorded \subseteq Recorded'
            BY Zenon, <1>1, <2>1, <2>4 DEF Recorded
        <3>2. OnceInv'
            BY Zenon, <1>1, <2>1, <2>4 DEF OnceInv, DecisionRows
        <3> QED BY <1>1, <2>1, <2>4, <3>1, <3>2
    <2> QED BY <2>2, <2>3, <2>4
<1>5. CASE seen # {} /\ row.kind = "decision"
    BY <1>3, <1>5 DEF OnceInv, DecisionRows, Recorded
<1> QED BY <1>2, <1>4, <1>5

-----------------------------------------------------------------------------
(* A batch. *)

LEMMA GreatestExists ==
    ASSUME NEW n \in Nat, NEW S, S \subseteq 0..n, S # {}
    PROVE  \E x \in S : \A y \in S : y <= x
<1> DEFINE D == {n - s : s \in S}
<1>1. D \subseteq Nat
    OBVIOUS
<1>2. D # {}
    <2>1. PICK s \in S : TRUE
        BY Zenon
    <2>2. n - s \in D
        OBVIOUS
    <2> QED BY <2>2
<1> HIDE DEF D
<1>3. PICK m \in D : \A y \in D : ~ (<<y, m>> \in OpToRel(<, Nat))
    BY Zenon, <1>1, <1>2, NatLessThanWellFounded, WFMin
<1>4. PICK x \in S : m = n - x
    BY DEF D
<1>5. ASSUME NEW y \in S PROVE y <= x
    <2>1. n - y \in D
        BY DEF D
    <2>2. ~ (<<n - y, m>> \in OpToRel(<, Nat))
        BY Zenon, <1>3, <2>1
    <2>3. ~ (n - y < m)
        BY Zenon, <1>1, <1>3, <2>1, <2>2 DEF OpToRel
    <2>4. x \in Int /\ y \in Int
        OBVIOUS
    <2> QED BY <1>4, <2>3, <2>4
<1> QED BY <1>5

LEMMA BatchFacts ==
    ASSUME PDPTypes, pending # <<>>
    PROVE  /\ BatchLen \in 1..Len(pending)
           /\ \A i \in 1..BatchLen : Revision[pending[i]] = Revision[pending[1]]
<1> DEFINE limit == IF batchCap > 0 THEN batchCap ELSE MaxBatch
           fits(n) == n <= limit /\ \A i \in 1..n : Revision[pending[i]] = Revision[pending[1]]
           S == {n \in 0..Len(pending) : fits(n)}
<1>1. Len(pending) \in Nat /\ Len(pending) >= 1
    BY DEF PDPTypes
<1>2. limit \in Nat /\ limit >= 1
    BY PDPAssumption DEF PDPTypes
<1>3. 1 \in S
    <2>1. \A i \in 1..1 : i = 1
        OBVIOUS
    <2>2. fits(1)
        BY <1>2, <2>1
    <2> QED BY <1>1, <2>2
<1>4. S \subseteq 0..Len(pending)
    OBVIOUS
<1> HIDE DEF S
<1>5. PICK x \in S : \A y \in S : y <= x
    BY Zenon, <1>1, <1>3, <1>4, GreatestExists
<1>6. \E n \in 0..Len(pending) : fits(n) /\ \A m \in 0..Len(pending) : fits(m) => m <= n
    BY <1>5 DEF S
<1>7. BatchLen = CHOOSE n \in 0..Len(pending) : fits(n) /\ \A m \in 0..Len(pending) : fits(m) => m <= n
    BY Zenon DEF BatchLen
<1>8. /\ BatchLen \in 0..Len(pending) /\ fits(BatchLen)
      /\ \A m \in 0..Len(pending) : fits(m) => m <= BatchLen
    BY Zenon, <1>6, <1>7
<1>9. BatchLen >= 1
    BY <1>3, <1>8 DEF S
<1> QED BY <1>1, <1>8, <1>9

-----------------------------------------------------------------------------
(* The handlers. *)

LEMMA NobodyWaits ==
    ASSUME PostsInv, flush # "wait"
    PROVE  \A p \in posts : ~p.live
BY DEF PostsInv, PostInv

(* Handlers end or lose their client. *)
LEMMA PostsQuiet ==
    ASSUME PostsInv, Recorded \subseteq Recorded', run' = "down" => flush' = "idle",
           \A q \in posts' : ~q.live /\ \E p \in posts : q.rows = p.rows /\ q.at = p.at
    PROVE  PostsInv'
<1>1. ASSUME NEW q \in posts' PROVE PostInv(q)'
    <2>1. PICK p \in posts : q.rows = p.rows /\ q.at = p.at
        BY <1>1
    <2>2. PostInv(p) /\ ~q.live
        BY <1>1 DEF PostsInv
    <2> QED BY <2>1, <2>2 DEF PostInv
<1> QED BY <1>1 DEF PostsInv

(* The queue grows at its end. *)
LEMMA PostsStay ==
    ASSUME PDPTypes, PostsInv, UNCHANGED <<chain, posts, flush>>, run' = "down" => run = "down",
           Len(pending) <= Len(pending'), Len(pending') \in Nat,
           \A i \in 1..Len(pending) : pending'[i] = pending[i]
    PROVE  PostsInv'
<1>1. ASSUME NEW p \in posts, p.live, p.rows[1].kind = "decision"
      PROVE  Len(p.rows) <= Len(pending') /\ \A i \in 1..Len(p.rows) : p.rows[i].id = pending'[i]
    <2>1. Len(p.rows) <= Len(pending) /\ \A i \in 1..Len(p.rows) : p.rows[i].id = pending[i]
        BY <1>1 DEF PostsInv, PostInv
    <2>2. Len(p.rows) \in Nat /\ Len(pending) \in Nat
        BY <1>1 DEF PDPTypes, Requests
    <2> QED BY <2>1, <2>2
<1>2. Recorded' = Recorded
    BY Zenon DEF Recorded
<1>3. ASSUME NEW p \in posts PROVE PostInv(p)'
    BY Zenon, <1>1, <1>2, <1>3 DEF PostsInv, PostInv
<1> QED BY <1>3 DEF PostsInv

LEMMA AppendNextPosts ==
    ASSUME PDPTypes, PostsInv, OnceInv, NEW p \in posts, AppendNext(p),
           UNCHANGED <<pending, flush, run>>
    PROVE  /\ chain' \in Seq(GoodRows) /\ posts' \subseteq Requests
           /\ OnceInv' /\ PostsInv' /\ Recorded \subseteq Recorded'
<1> DEFINE q == [p EXCEPT !.at = @ + 1]
           row == p.rows[p.at + 1]
<1>1. /\ p \in Requests /\ p.rows \in Seq(GoodRows) /\ p.at \in Nat /\ p.at < Len(p.rows)
      /\ Len(p.rows) \in Nat
    BY DEF PDPTypes, Requests, AppendNext
<1>2. /\ q \in Requests /\ q.rows = p.rows /\ q.live = p.live /\ q.at = p.at + 1
      /\ posts' = (posts \ {p}) \cup {q}
    BY <1>1 DEF Requests, AppendNext
<1>3. p.at + 1 \in 1..Len(p.rows) /\ PostInv(p)
    BY <1>1 DEF PostsInv
<1>4. row \in GoodRows /\ row.kind # "conflict" /\ chain' = AppendAuditOnce(row)
    BY <1>1, <1>3 DEF PostInv, AppendNext
<1> HIDE DEF q, row
<1>5. /\ chain' \in Seq(GoodRows) /\ OnceInv' /\ Recorded \subseteq Recorded'
      /\ row.kind = "decision" => row.id \in Recorded'
    BY <1>4, AppendOnceKeeps DEF PDPTypes
<1>6. ASSUME NEW r \in posts PROVE PostInv(r)'
    BY Zenon, <1>5, <1>6 DEF PostsInv, PostInv
<1>7. PostInv(q)'
    <2>1. \A i \in 1..q.at : i \in 1..p.at \/ i = p.at + 1
        BY <1>1, <1>2
    <2>2. \A i \in 1..q.at : q.rows[i].kind = "decision" => q.rows[i].id \in Recorded'
        BY Zenon, <1>2, <1>3, <1>5, <2>1 DEF PostInv, row
    <2>3. q.at <= Len(q.rows)
        BY <1>1, <1>2
    <2> QED BY Zenon, <1>2, <1>3, <2>2, <2>3 DEF PostInv
<1>8. PostsInv'
    BY Zenon, <1>2, <1>6, <1>7 DEF PostsInv
<1> QED BY Zenon, <1>2, <1>5, <1>8 DEF PDPTypes

LEMMA SendPosts ==
    ASSUME PDPTypes, PostsInv, Send
    PROVE  posts' \subseteq Requests /\ PostsInv'
<1> DEFINE rev == IF pending = <<>> THEN NoRevision ELSE Revision[pending[1]]
<1>a. PICK rows : rows = IF dropped # <<>> THEN <<DroppedRow(lossID, dropped, rev)>>
                         ELSE [i \in 1..BatchLen |-> DecisionRow(pending[i], rev)]
    BY Zenon
<1>b. PICK q : q = Post(rows)
    BY Zenon
<1>1. posts' = posts \cup {q} /\ flush' = "wait" /\ flush = "send"
      /\ UNCHANGED <<chain, pending, run>>
    BY Zenon, <1>a, <1>b DEF Send, procVars, queueVars
<1>2. rev \in Revisions
    BY DEF PDPTypes, Revisions
<1>3. q.rows = rows /\ q.at = 0 /\ q.live
    BY <1>b DEF Post
<1>4. ASSUME dropped # <<>> PROVE q \in Requests /\ PostInv(q)'
    <2> DEFINE r == DroppedRow(lossID, dropped, rev)
    <2>1. r \in GoodRows /\ r.kind = "dropped"
        BY Zenon, <1>2 DEF DroppedRow, GoodRows, Rows, PDPTypes
    <2>2. rows = <<r>>
        BY Zenon, <1>4, <1>a
    <2> HIDE DEF r
    <2>3. rows \in Seq(GoodRows) /\ Len(rows) = 1 /\ rows[1] = r
        BY <2>1, <2>2
    <2>4. PostInv(q)'
        BY <1>1, <1>3, <2>1, <2>3 DEF PostInv
    <2>5. q \in Requests
        BY Zenon, <1>b, <2>3 DEF Post, Requests
    <2> QED BY Zenon, <2>4, <2>5
<1>5. ASSUME dropped = <<>> PROVE q \in Requests /\ PostInv(q)'
    <2>1. pending # <<>>
        BY <1>5 DEF Send
    <2>2. /\ BatchLen \in 1..Len(pending)
          /\ \A i \in 1..BatchLen : Revision[pending[i]] = Revision[pending[1]]
        BY <2>1, BatchFacts
    <2>3. Len(pending) \in Nat /\ \A i \in 1..Len(pending) : pending[i] \in Decision
        BY DEF PDPTypes
    <2>4. rows = [i \in 1..BatchLen |-> DecisionRow(pending[i], rev)]
        BY Zenon, <1>5, <1>a
    <2>5. rev = Revision[pending[1]]
        BY <2>1
    <2> HIDE DEF rev
    <2>6. \A i \in 1..BatchLen : i \in 1..Len(pending)
        BY <2>2, <2>3
    <2>7. ASSUME NEW i \in 1..BatchLen
          PROVE  DecisionRow(pending[i], rev) \in GoodRows
        <3>1. pending[i] \in Decision /\ rev = Revision[pending[i]]
            BY Zenon, <2>2, <2>3, <2>5, <2>6
        <3> QED BY <1>2, <3>1 DEF DecisionRow, GoodRows, Rows
    <2>8. \A i \in 1..BatchLen : DecisionRow(pending[i], rev).kind = "decision"
                                 /\ DecisionRow(pending[i], rev).id = pending[i]
        BY Zenon DEF DecisionRow
    <2>9. rows \in Seq(GoodRows) /\ Len(rows) = BatchLen
        BY <2>2, <2>4, <2>7
    <2>10. \A i \in 1..BatchLen : rows[i].kind = "decision" /\ rows[i].id = pending[i]
        BY Zenon, <2>4, <2>8
    <2>11. 1 \in 1..BatchLen /\ 0 <= BatchLen /\ 1 <= BatchLen /\ BatchLen <= Len(pending) /\ 1..0 = {}
        BY <2>2, <2>3
    <2>12. q \in Requests
        BY Zenon, <1>b, <2>9 DEF Post, Requests
    <2>13. PostInv(q)'
        BY Zenon, <1>1, <1>3, <2>9, <2>10, <2>11 DEF PostInv
    <2> QED BY Zenon, <2>12, <2>13
<1>6. q \in Requests /\ PostInv(q)'
    BY Zenon, <1>4, <1>5
<1>7. ASSUME NEW p \in posts PROVE ~p.live /\ PostInv(p)'
    <2>1. ~p.live /\ PostInv(p)
        BY <1>1, <1>7, NobodyWaits DEF PostsInv
    <2> QED BY Zenon, <1>1, <2>1 DEF PostInv, Recorded
<1>8. run' # "down"
    BY <1>1 DEF PostsInv
<1> QED BY Zenon, <1>1, <1>6, <1>7, <1>8 DEF PostsInv, PDPTypes

-----------------------------------------------------------------------------
(* The queue and the spool. *)

LEMMA Fewer ==
    ASSUME NEW S \in SUBSET Decision, NEW T \in SUBSET Decision, S \subseteq T
    PROVE  Cardinality(S) \in Nat /\ Cardinality(T) \in Nat /\ Cardinality(S) <= Cardinality(T)
<1>1. IsFiniteSet(T)
    BY Zenon, FS_Subset, PDPAssumption
<1> QED BY <1>1, FS_Subset, FS_CardinalityType

LEMMA OneMore ==
    ASSUME NEW S \in SUBSET Decision, NEW T \in SUBSET Decision, NEW d \in Decision, S \subseteq T \cup {d}
    PROVE  Cardinality(S) \in Nat /\ Cardinality(T) \in Nat /\ Cardinality(S) <= Cardinality(T) + 1
<1>1. IsFiniteSet(T)
    BY Zenon, FS_Subset, PDPAssumption
<1>2. Cardinality(T \cup {d}) <= Cardinality(T) + 1 /\ Cardinality(T) \in Nat
    BY <1>1, FS_AddElement, FS_CardinalityType
<1>3. Cardinality(S) <= Cardinality(T \cup {d}) /\ Cardinality(S) \in Nat /\ Cardinality(T \cup {d}) \in Nat
    <2>1. T \cup {d} \in SUBSET Decision
        OBVIOUS
    <2> QED BY Zenon, <2>1, Fewer
<1> QED BY <1>2, <1>3

LEMMA RiskNat == Risk \in {0, 1} /\ Risk' \in {0, 1}
BY DEF Risk

LEMMA MissingShrinks ==
    ASSUME PDPTypes, MissingInv, Spooling => Missing' \subseteq Missing, Risk' <= Risk,
           unrepaired' = unrepaired
    PROVE  MissingInv'
<1> SUFFICES ASSUME Spooling PROVE Cardinality(Missing') + Risk' <= unrepaired'
    BY DEF MissingInv
<1>1. Missing \in SUBSET Decision /\ Missing' \in SUBSET Decision
    BY DEF Missing
<1>2. /\ Cardinality(Missing) \in Nat /\ Cardinality(Missing') \in Nat
      /\ Cardinality(Missing') <= Cardinality(Missing)
    BY Zenon, <1>1, Fewer
<1>3. Cardinality(Missing) + Risk <= unrepaired
    BY Zenon DEF MissingInv
<1> QED BY <1>2, <1>3, RiskNat DEF PDPTypes

(* Steps that settle decisions, or leave requests, queue and spool alone. *)
LEMMA SafeKeep ==
    ASSUME PDPTypes, SafeInv, UNCHANGED <<req, spool, torn, unrepaired, spoolMu>>,
           run' = "down" <=> run = "down", Settled \subseteq Settled',
           Range(pending) \subseteq Range(pending') \cup Settled'
    PROVE  SafeInv'
<1>1. LockInv'
    BY DEF SafeInv, LockInv
<1>2. TornInv'
    BY DEF SafeInv, TornInv
<1>3. QueueInv'
    <2>1. Answered' = Answered /\ spool' = spool
        BY DEF Answered
    <2> QED BY <2>1 DEF SafeInv, QueueInv
<1>4. Missing' \subseteq Missing
    BY DEF Missing
<1>5. Risk' <= Risk
    BY DEF Risk
<1>6. MissingInv'
    BY Zenon, <1>4, <1>5, MissingShrinks DEF SafeInv
<1> QED BY Zenon, <1>1, <1>2, <1>3, <1>6 DEF SafeInv

(* One request moves on, and only it. *)
LEMMA ReqStep ==
    ASSUME PDPTypes, NEW d \in Decision, NEW v \in ReqState, req' = [req EXCEPT ![d] = v]
    PROVE  /\ req' \in [Decision -> ReqState] /\ req'[d] = v
           /\ \A x \in Decision : x # d => req'[x] = req[x]
BY DEF PDPTypes

(* A request that ends, or begins, with no line of its own in the spool: it
   was neither answered nor written. *)
LEMMA SafeRequest ==
    ASSUME PDPTypes, SafeInv, NEW d \in Decision, req[d] \in {"new", "reserved"},
           NEW v \in {"reserved", "failed"}, req' = [req EXCEPT ![d] = v],
           v = "reserved" => req[d] = "new" /\ run # "down",
           UNCHANGED <<spool, torn, unrepaired, spoolMu, run, pending, chain, everDropped>>
    PROVE  SafeInv'
<1>1. /\ req'[d] = v /\ \A x \in Decision : x # d => req'[x] = req[x]
    BY Zenon, ReqStep DEF ReqState
<1>2. LockInv'
    BY Zenon, <1>1 DEF SafeInv, LockInv
<1>3. TornInv'
    <2>1. req[spool[Len(spool)]] = "failed" => spool[Len(spool)] # d
        BY Zenon
    <2> QED BY <1>1, <2>1, SeqFacts DEF SafeInv, TornInv, PDPTypes
<1>4. Settled' = Settled
    BY DEF Settled, Recorded
<1>5. \A x \in Decision : req'[x] \in {"answered", "written"} => req'[x] = req[x]
    BY Zenon, <1>1
<1>6. QueueInv'
    BY Zenon, <1>4, <1>5 DEF SafeInv, QueueInv, Answered
<1>7. Missing' \subseteq Missing
    BY Zenon, <1>4, <1>5 DEF Missing
<1>8. Risk' <= Risk
    BY DEF Risk
<1>9. MissingInv'
    BY Zenon, <1>7, <1>8, MissingShrinks DEF SafeInv
<1> QED BY Zenon, <1>2, <1>3, <1>6, <1>9 DEF SafeInv

(* The file after a write.  Only leftovers are overwritten, never the line of
   a decision that was answered. *)
LEMMA WithLineFacts ==
    ASSUME PDPTypes, TornInv, NEW line \in Decision \cup {Garbage}, NEW w, w = WithLine(line)
    PROVE  /\ w \in Seq(Decision \cup {Garbage}) /\ w # <<>> /\ w[Len(w)] \in {line, Garbage}
           /\ Range(w) \subseteq Range(spool) \cup {line, Garbage}
           /\ \A x \in Decision : x \in Range(spool) /\ req[x] # "failed" => x \in Range(w)
           /\ ~torn => line \in Range(w)
<1>1. spool \in Seq(Decision \cup {Garbage}) /\ Garbage \notin Decision
    BY Zenon, PDPAssumption DEF PDPTypes
<1>2. CASE torn
    <2>1. spool # <<>> /\ (spool[Len(spool)] = Garbage \/ req[spool[Len(spool)]] = "failed")
        BY <1>2 DEF TornInv
    <2>2. w = [spool EXCEPT ![Len(spool)] = Garbage]
        BY <1>2 DEF WithLine
    <2>3. /\ w \in Seq(Decision \cup {Garbage}) /\ w # <<>> /\ w[Len(w)] = Garbage
          /\ Range(spool) \subseteq Range(w) \cup {spool[Len(spool)]}
          /\ Range(w) \subseteq Range(spool) \cup {Garbage}
        <3>1. Garbage \in Decision \cup {Garbage}
            OBVIOUS
        <3> QED BY Zenon, <1>1, <2>1, <2>2, <3>1, MarkFacts
    <2> QED BY Zenon, <1>1, <1>2, <2>1, <2>3
<1>3. CASE ~torn
    <2>1. w = Append(spool, line)
        BY Zenon, <1>3 DEF WithLine
    <2>2. /\ w \in Seq(Decision \cup {Garbage}) /\ Len(w) = Len(spool) + 1
          /\ w[Len(spool) + 1] = line /\ Range(w) = Range(spool) \cup {line}
        BY <1>1, <2>1, AppendFacts
    <2>3. w # <<>>
        BY <1>1, <2>2
    <2> QED BY Zenon, <1>3, <2>2, <2>3
<1> QED BY Zenon, <1>2, <1>3

(* What is pending replaces the file while nobody holds spoolMu. *)
LEMMA SafeRewrite ==
    ASSUME PDPTypes, SafeInv, run # "down", spoolMu = "free",
           UNCHANGED <<run, spoolMu, pending, chain, everDropped, unrepaired>>,
           spool' = pending, torn' = FALSE,
           \A x \in Decision : req'[x] = req[x] \/ req'[x] = "failed"
    PROVE  SafeInv'
<1>1. \A x \in Decision : req[x] # "written" /\ req'[x] # "written"
    BY Zenon, PDPAssumption DEF SafeInv, LockInv
<1>2. LockInv' /\ TornInv'
    BY Zenon, <1>1 DEF LockInv, TornInv
<1>3. Settled' = Settled
    BY DEF Settled, Recorded
<1>4. QueueInv'
    BY DEF QueueInv
<1>5. Spooling => Missing' \subseteq Missing
    <2>1. ASSUME Spooling, NEW x \in Missing' PROVE x \in Missing
        <3>1. x \in Decision /\ req'[x] \in {"answered", "written"} /\ x \notin Range(pending) \cup Settled
            BY Zenon, <1>3, <2>1 DEF Missing
        <3>2. req[x] = "answered"
            BY Zenon, <1>1, <3>1
        <3>3. x \notin Range(spool)
            BY Zenon, <2>1, <3>1, <3>2 DEF SafeInv, QueueInv, Answered
        <3> QED BY Zenon, <3>1, <3>2, <3>3 DEF Missing
    <2> QED BY Zenon, <2>1
<1>6. Risk' <= Risk
    BY DEF Risk
<1>7. MissingInv'
    BY Zenon, <1>5, <1>6, MissingShrinks DEF SafeInv
<1> QED BY Zenon, <1>2, <1>4, <1>7 DEF SafeInv

LEMMA SafeSpool ==
    ASSUME PDPTypes, SafeInv, NEW d \in Decision, SpoolDecision(d)
    PROVE  SafeInv'
<1>1. /\ Spooling /\ req[d] = "reserved" /\ spoolMu = "free" /\ run # "down"
      /\ torn' = FALSE /\ spoolMu' = d /\ spool' = WithLine(d)
      /\ UNCHANGED <<run, pending, chain, everDropped, unrepaired>>
    BY DEF SpoolDecision, SafeInv, LockInv, recorderVars, procVars, lossVars, faultVars
<1>2. /\ req'[d] = "written" /\ \A x \in Decision : x # d => req'[x] = req[x]
    BY Zenon, ReqStep DEF SpoolDecision, ReqState
<1>3. \A x \in Decision : req[x] # "written"
    BY Zenon, <1>1, PDPAssumption DEF SafeInv, LockInv
<1>4. /\ Range(spool') \subseteq Range(spool) \cup {d, Garbage}
      /\ \A x \in Decision : x \in Range(spool) /\ req[x] # "failed" => x \in Range(spool')
      /\ ~torn => d \in Range(spool')
    BY Zenon, <1>1, WithLineFacts DEF SafeInv
<1>5. LockInv' /\ TornInv'
    BY Zenon, <1>1, <1>2, <1>3 DEF LockInv, TornInv
<1>6. Settled' = Settled
    BY Zenon, <1>1 DEF Settled, Recorded
<1>7. QueueInv'
    <2>1. ASSUME NEW x \in Decision, req'[x] = "answered", x \in Range(spool')
          PROVE  x \in Range(pending) \cup Settled
        BY Zenon, <1>1, <1>2, <1>4, <2>1, PDPAssumption DEF SafeInv, QueueInv, Answered
    <2> QED BY Zenon, <1>1, <1>6, <2>1 DEF QueueInv, Answered
<1>8. Missing' \subseteq Missing \cup {d} /\ (~torn => Missing' \subseteq Missing)
    BY Zenon, <1>2, <1>4, <1>6 DEF Missing
<1>9. MissingInv'
    <2>1. CASE ~torn
        <3>1. Risk' <= Risk
            BY <1>1 DEF Risk
        <3> QED BY Zenon, <1>1, <1>8, <2>1, <3>1, MissingShrinks DEF SafeInv
    <2>2. CASE torn
        <3>1. Risk' = 0 /\ Risk = 1
            BY Zenon, <1>1, <2>2 DEF Risk
        <3>2. Missing \in SUBSET Decision /\ Missing' \in SUBSET Decision
            BY DEF Missing
        <3>3. /\ Cardinality(Missing) \in Nat /\ Cardinality(Missing') \in Nat
              /\ Cardinality(Missing') <= Cardinality(Missing) + 1
            BY Zenon, <1>8, <3>2, OneMore
        <3> QED BY <1>1, <3>1, <3>3 DEF SafeInv, MissingInv, PDPTypes
    <2> QED BY Zenon, <2>1, <2>2
<1> QED BY Zenon, <1>5, <1>7, <1>9 DEF SafeInv

LEMMA SafeEnqueue ==
    ASSUME PDPTypes, SafeInv, NEW d \in Decision, Enqueue(d)
    PROVE  SafeInv'
<1>1. /\ req[d] = (IF Spooling THEN "written" ELSE "reserved") /\ spoolMu' = "free"
      /\ UNCHANGED <<run, spool, torn, chain, everDropped, unrepaired>>
    BY DEF Enqueue, recorderVars, procVars, lossVars, faultVars
<1>2. /\ req'[d] = "answered" /\ \A x \in Decision : x # d => req'[x] = req[x]
    BY Zenon, ReqStep DEF Enqueue, ReqState
<1>3. Range(pending') = Range(pending) \cup {d}
    <2>1. pending' = Append(pending, d) /\ pending \in Seq(Decision)
        BY DEF Enqueue, PDPTypes
    <2> QED BY <2>1, AppendFacts
<1>4. LockInv'
    BY Zenon, <1>1, <1>2 DEF SafeInv, LockInv
<1>5. TornInv'
    <2>1. spool \in Seq(Decision \cup {Garbage})
        BY DEF PDPTypes
    <2>2. spool # <<>> => spool[Len(spool)] \in Decision \cup {Garbage}
        BY Zenon, <2>1, SeqFacts
    <2> QED BY Zenon, <1>1, <1>2, <2>2 DEF SafeInv, TornInv
<1>6. Settled' = Settled
    BY Zenon, <1>1 DEF Settled, Recorded
<1>7. QueueInv'
    BY Zenon, <1>1, <1>2, <1>3, <1>6 DEF SafeInv, QueueInv, Answered
<1>8. Spooling => Missing' \subseteq Missing
    BY Zenon, <1>1, <1>2, <1>6 DEF Missing
<1>9. Risk' <= Risk
    BY <1>1 DEF Risk
<1>10. MissingInv'
    BY Zenon, <1>1, <1>8, <1>9, MissingShrinks DEF SafeInv
<1> QED BY Zenon, <1>4, <1>5, <1>7, <1>10 DEF SafeInv

LEMMA SafeUnrepaired ==
    ASSUME PDPTypes, SafeInv, NEW d \in Decision, WriteUnrepaired(d)
    PROVE  SafeInv'
<1>1. /\ Spooling /\ req[d] = "reserved" /\ run # "down" /\ unrepaired' = unrepaired + 1
      /\ UNCHANGED <<run, pending, chain, everDropped, spoolMu>>
    BY DEF WriteUnrepaired, Refuse, SafeInv, LockInv, recorderVars, procVars, lossVars
<1>2. /\ req'[d] = "failed" /\ \A x \in Decision : x # d => req'[x] = req[x]
    BY Zenon, ReqStep DEF WriteUnrepaired, Refuse, ReqState
<1>3. PICK line \in {d, Garbage} : spool' = WithLine(line)
    BY DEF WriteUnrepaired
<1>4. /\ spool' # <<>> /\ spool'[Len(spool')] \in {d, Garbage}
      /\ Range(spool') \subseteq Range(spool) \cup {d, Garbage}
      /\ \A x \in Decision : x \in Range(spool) /\ req[x] # "failed" => x \in Range(spool')
    BY Zenon, <1>3, WithLineFacts DEF SafeInv
<1>5. LockInv' /\ TornInv'
    BY Zenon, <1>1, <1>2, <1>4 DEF SafeInv, LockInv, TornInv
<1>6. Settled' = Settled
    BY Zenon, <1>1 DEF Settled, Recorded
<1>7. QueueInv'
    <2>1. ASSUME NEW x \in Decision, req'[x] = "answered", x \in Range(spool')
          PROVE  x \in Range(pending) \cup Settled
        BY Zenon, <1>1, <1>2, <1>4, <2>1, PDPAssumption DEF SafeInv, QueueInv, Answered
    <2> QED BY Zenon, <1>1, <1>6, <2>1 DEF QueueInv, Answered
<1>8. Missing' \subseteq Missing
    BY Zenon, <1>2, <1>4, <1>6 DEF Missing
<1>9. MissingInv'
    <2>1. Missing \in SUBSET Decision /\ Missing' \in SUBSET Decision
        BY DEF Missing
    <2>2. /\ Cardinality(Missing) \in Nat /\ Cardinality(Missing') \in Nat
          /\ Cardinality(Missing') <= Cardinality(Missing)
        BY Zenon, <1>8, <2>1, Fewer
    <2> QED BY <1>1, <2>2, RiskNat DEF SafeInv, MissingInv, PDPTypes
<1> QED BY Zenon, <1>5, <1>7, <1>9 DEF SafeInv

LEMMA SafeCrash ==
    ASSUME PDPTypes, SafeInv, Crash
    PROVE  SafeInv'
<1>1. /\ run' = "down" /\ UNCHANGED <<chain, everDropped, unrepaired>>
      /\ req' = [d \in Decision |-> IF req[d] \in {"reserved", "written"} THEN "failed" ELSE req[d]]
    BY DEF Crash, Fault, ResetMemory, GiveUp
<1>2. \A x \in Decision : /\ req[x] \notin {"reserved", "written"} => req'[x] = req[x]
                          /\ req[x] \in {"reserved", "written"} => req'[x] = "failed"
    BY Zenon, <1>1
<1>3. (spool' = spool /\ torn' = torn) \/ spool' = WithLine(Garbage)
    BY DEF Crash
<1>4. \A x \in Decision : x \in Range(spool) /\ req[x] # "failed" => x \in Range(spool')
    <2>1. CASE spool' = spool
        BY Zenon, <2>1
    <2>2. CASE spool' = WithLine(Garbage)
        BY Zenon, <2>2, WithLineFacts DEF SafeInv
    <2> QED BY Zenon, <1>3, <2>1, <2>2
<1>5. LockInv'
    BY Zenon, <1>1, <1>2 DEF LockInv
<1>6. TornInv'
    <2>1. CASE spool' = spool /\ torn' = torn
        <3>1. spool \in Seq(Decision \cup {Garbage})
            BY DEF PDPTypes
        <3>2. spool # <<>> => spool[Len(spool)] \in Decision \cup {Garbage}
            BY <3>1, SeqFacts
        <3> QED BY Zenon, <1>2, <2>1, <3>2 DEF SafeInv, TornInv
    <2>2. CASE spool' = WithLine(Garbage)
        <3>1. spool' # <<>> /\ spool'[Len(spool')] = Garbage
            BY Zenon, <2>2, WithLineFacts DEF SafeInv
        <3> QED BY Zenon, <3>1 DEF TornInv
    <2> QED BY Zenon, <1>3, <2>1, <2>2
<1>7. QueueInv'
    BY Zenon, <1>1 DEF QueueInv
<1>8. Settled' = Settled
    BY Zenon, <1>1 DEF Settled, Recorded
<1>9. Missing' \subseteq Missing
    BY Zenon, <1>2, <1>4, <1>8 DEF Missing
<1>10. Risk' <= Risk
    BY <1>1 DEF Risk
<1>11. MissingInv'
    BY Zenon, <1>1, <1>9, <1>10, MissingShrinks DEF SafeInv
<1> QED BY Zenon, <1>5, <1>6, <1>7, <1>11 DEF SafeInv

(* The lines that can be read are all that the spool had of decisions. *)
LEMMA RestartReads ==
    ASSUME PDPTypes, Restart
    PROVE  /\ spool' \in Seq(Decision) /\ pending' = spool'
           /\ \A x \in Decision : x \in Range(spool) => x \in Range(spool')
<1> DEFINE cut == spool # <<>> /\ spool[Len(spool)] = Garbage
<1>1. /\ spool' = (IF cut THEN SubSeq(spool, 1, Len(spool) - 1) ELSE spool) /\ pending' = spool'
      /\ \A i \in 1..Len(spool) - 1 : spool[i] # Garbage
    BY Zenon DEF Restart
<1>2. spool \in Seq(Decision \cup {Garbage}) /\ Garbage \notin Decision
    BY Zenon, PDPAssumption DEF PDPTypes
<1>3. CASE cut
    <2>1. /\ spool' \in Seq(Decision \cup {Garbage})
          /\ Range(spool) \subseteq Range(spool') \cup {spool[Len(spool)]}
          /\ \A i \in 1..Len(spool') : spool'[i] = spool[i] /\ i \in 1..(Len(spool) - 1)
        <3>1. spool # <<>> /\ spool' = SubSeq(spool, 1, Len(spool) - 1)
            BY <1>1, <1>3
        <3>2. PICK S : S = Decision \cup {Garbage}
            BY Zenon
        <3>3. spool \in Seq(S)
            BY <1>2, <3>2
        <3>4. /\ spool' \in Seq(S)
              /\ Range(spool) \subseteq Range(spool') \cup {spool[Len(spool)]}
              /\ \A i \in 1..Len(spool') : spool'[i] = spool[i] /\ i \in 1..(Len(spool) - 1)
            BY Zenon, <3>1, <3>3, FrontFacts
        <3> QED BY Zenon, <3>2, <3>4
    <2>2. \A i \in 1..Len(spool') : spool'[i] \in Decision
        BY <1>1, <2>1
    <2>3. spool' \in Seq(Decision)
        BY <2>1, <2>2
    <2> QED BY Zenon, <1>1, <1>2, <1>3, <2>1, <2>3
<1>4. CASE ~cut
    <2>1. spool' = spool
        BY Zenon, <1>1, <1>4
    <2>2. \A i \in 1..Len(spool) : spool[i] # Garbage
        <3>1. Len(spool) \in Nat
            BY <1>2
        <3>2. CASE spool = <<>>
            BY <3>2
        <3>3. CASE spool # <<>>
            <4>1. Len(spool) # 0
                BY <1>2, <3>3
            <4>2. \A i \in 1..Len(spool) : i \in 1..(Len(spool) - 1) \/ i = Len(spool)
                BY Zenon, <3>1, <4>1, LastIndex
            <4> QED BY Zenon, <1>1, <1>4, <3>3, <4>2
        <3> QED BY Zenon, <3>2, <3>3
    <2>3. \A i \in 1..Len(spool) : spool[i] \in Decision
        BY <1>2, <2>2
    <2>4. spool \in Seq(Decision)
        BY <1>2, <2>3
    <2> QED BY <1>1, <2>1, <2>4
<1> QED BY Zenon, <1>3, <1>4

LEMMA SafeRestart ==
    ASSUME PDPTypes, SafeInv, Restart
    PROVE  SafeInv'
<1>1. /\ run = "down" /\ torn' = FALSE
      /\ UNCHANGED <<req, spoolMu, chain, everDropped, unrepaired>>
    BY DEF Restart, recorderVars, lossVars, faultVars
<1>2. pending' = spool' /\ \A x \in Decision : x \in Range(spool) => x \in Range(spool')
    BY Zenon, RestartReads
<1>3. run' = "up"
    BY Zenon DEF Restart
<1>4. LockInv' /\ TornInv'
    BY Zenon, <1>1, <1>3 DEF SafeInv, LockInv, TornInv
<1>5. QueueInv'
    BY Zenon, <1>2 DEF QueueInv
<1>6. Missing' \subseteq Missing
    BY Zenon, <1>1, <1>2 DEF Missing, Settled, Recorded
<1>7. Risk' <= Risk
    BY <1>1 DEF Risk
<1>8. MissingInv'
    BY Zenon, <1>1, <1>6, <1>7, MissingShrinks DEF SafeInv
<1> QED BY Zenon, <1>4, <1>5, <1>8 DEF SafeInv

LEMMA SafeExit ==
    ASSUME PDPTypes, SafeInv, Exit
    PROVE  SafeInv'
<1> DEFINE busy == {d \in Decision : req[d] \in {"reserved", "written"}}
<1>1. /\ Cardinality(busy) = 0 /\ run' = "down"
      /\ UNCHANGED <<req, spool, torn, spoolMu, chain, everDropped, unrepaired>>
    BY Zenon DEF Exit, reserved, ResetMemory, recorderVars, faultVars
<1>2. busy = {}
    <2>1. busy \in SUBSET Decision
        OBVIOUS
    <2>2. IsFiniteSet(busy)
        BY Zenon, <2>1, FS_Subset, PDPAssumption
    <2> QED BY Zenon, <1>1, <2>2, FS_EmptySet
<1>3. LockInv' /\ TornInv'
    BY Zenon, <1>1, <1>2 DEF SafeInv, LockInv, TornInv
<1>4. QueueInv'
    BY Zenon, <1>1 DEF QueueInv
<1>5. Missing' \subseteq Missing
    BY Zenon, <1>1 DEF Missing, Settled, Recorded
<1>6. Risk' <= Risk
    BY <1>1 DEF Risk
<1>7. MissingInv'
    BY Zenon, <1>1, <1>5, <1>6, MissingShrinks DEF SafeInv
<1> QED BY <1>3, <1>4, <1>7 DEF SafeInv

-----------------------------------------------------------------------------
(* The actions of requests. *)

LEMMA RequestSteps ==
    ASSUME PDPInv, NEW d \in Decision, Reserve(d) \/ SpoolClosed(d)
    PROVE  PDPInv'
<1>1. UNCHANGED <<chain, posts, pending, spool, torn, dropped, lossID, nextLoss, batchCap, unrepaired,
                  run, flush, everDropped, spoolMu>>
    BY Zenon DEF Reserve, SpoolClosed, Refuse, recorderVars, procVars, queueVars, lossVars, flushVars, faultVars
<1>2. PICK v \in {"reserved", "failed"} :
         /\ req' = [req EXCEPT ![d] = v] /\ req[d] \in {"new", "reserved"}
         /\ v = "reserved" => req[d] = "new" /\ run # "down"
    BY Zenon DEF Reserve, SpoolClosed, Refuse
<1>3. PDPTypes'
    BY Zenon, <1>1, <1>2, ReqStep DEF PDPInv, PDPTypes, ReqState
<1>4. OnceInv'
    BY Zenon, <1>1 DEF PDPInv, OnceInv, DecisionRows
<1>5. PostsInv'
    BY <1>1, PostsStay DEF PDPInv, PDPTypes
<1>6. SafeInv'
    BY Zenon, <1>1, <1>2, SafeRequest DEF PDPInv
<1> QED BY Zenon, <1>3, <1>4, <1>5, <1>6 DEF PDPInv

LEMMA SpoolSteps ==
    ASSUME PDPInv, NEW d \in Decision, SpoolDecision(d) \/ WriteUnrepaired(d)
    PROVE  PDPInv'
<1>1. UNCHANGED <<chain, posts, pending, dropped, lossID, nextLoss, batchCap, run, flush>>
    BY Zenon DEF SpoolDecision, WriteUnrepaired, Refuse, recorderVars, procVars, lossVars, flushVars
<1>2. PICK v \in ReqState : req' = [req EXCEPT ![d] = v]
    BY Zenon DEF SpoolDecision, WriteUnrepaired, Refuse, ReqState
<1>3. PICK line \in Decision \cup {Garbage} : spool' = WithLine(line)
    BY Zenon DEF SpoolDecision, WriteUnrepaired
<1>4. spool' \in Seq(Decision \cup {Garbage})
    BY Zenon, <1>3, WithLineFacts DEF PDPInv, SafeInv
<1>5. torn' \in BOOLEAN /\ unrepaired' \in Nat
    <2>1. torn' \in BOOLEAN
        BY Zenon DEF SpoolDecision, WriteUnrepaired
    <2>2. unrepaired' = unrepaired \/ unrepaired' = unrepaired + 1
        BY Zenon DEF SpoolDecision, WriteUnrepaired, faultVars
    <2> QED BY <2>1, <2>2 DEF PDPInv, PDPTypes
<1>6. PDPTypes'
    BY Zenon, <1>1, <1>2, <1>4, <1>5, ReqStep DEF PDPInv, PDPTypes
<1>7. OnceInv'
    BY Zenon, <1>1 DEF PDPInv, OnceInv, DecisionRows
<1>8. PostsInv'
    BY <1>1, PostsStay DEF PDPInv, PDPTypes
<1>9. SafeInv'
    BY Zenon, SafeSpool, SafeUnrepaired DEF PDPInv
<1> QED BY Zenon, <1>6, <1>7, <1>8, <1>9 DEF PDPInv

LEMMA EnqueueStep ==
    ASSUME PDPInv, NEW d \in Decision, Enqueue(d)
    PROVE  PDPInv'
<1>1. UNCHANGED <<chain, posts, spool, torn, dropped, lossID, nextLoss, batchCap, unrepaired, run, flush>>
    BY Zenon DEF Enqueue, recorderVars, procVars, lossVars, flushVars, faultVars
<1>2. pending \in Seq(Decision) /\ pending' = Append(pending, d)
    BY Zenon DEF Enqueue, PDPInv, PDPTypes
<1>3. /\ pending' \in Seq(Decision) /\ Len(pending') = Len(pending) + 1
      /\ \A i \in 1..Len(pending) : pending'[i] = pending[i]
    BY SMTT(20), <1>2, AppendFacts
<1>4. PDPTypes'
    BY Zenon, <1>1, <1>3, ReqStep DEF PDPInv, PDPTypes, Enqueue, ReqState
<1>5. OnceInv'
    BY Zenon, <1>1 DEF PDPInv, OnceInv, DecisionRows
<1>6. Len(pending') \in Nat /\ Len(pending) <= Len(pending')
    BY <1>2, <1>3, SeqFacts
<1>7. PostsInv'
    BY Zenon, <1>1, <1>3, <1>6, PostsStay DEF PDPInv
<1>8. SafeInv'
    BY Zenon, SafeEnqueue DEF PDPInv
<1> QED BY Zenon, <1>4, <1>5, <1>7, <1>8 DEF PDPInv

LEMMA FailsStep ==
    ASSUME PDPInv, NEW d \in Decision, EvaluateFails(d)
    PROVE  PDPInv'
<1>1. /\ req[d] = "reserved" /\ req' = [req EXCEPT ![d] = "failed"]
      /\ UNCHANGED <<chain, posts, pending, dropped, lossID, nextLoss, batchCap, unrepaired, run, flush,
                     everDropped, spoolMu>>
    BY Zenon DEF EvaluateFails, Fault, Refuse, recorderVars, procVars, lossVars, flushVars
<1>2. \/ UNCHANGED <<spool, torn>>
      \/ Spooling /\ spoolMu = "free" /\ spool' = pending /\ torn' = FALSE
    BY DEF EvaluateFails
<1>3. spool' \in Seq(Decision \cup {Garbage}) /\ torn' \in BOOLEAN
    <2>1. pending \in Seq(Decision \cup {Garbage})
        BY DEF PDPInv, PDPTypes
    <2> QED BY Zenon, <1>2, <2>1 DEF PDPInv, PDPTypes
<1>4. PDPTypes'
    BY Zenon, <1>1, <1>3, ReqStep DEF PDPInv, PDPTypes, ReqState
<1>5. OnceInv'
    BY Zenon, <1>1 DEF PDPInv, OnceInv, DecisionRows
<1>6. PostsInv'
    BY <1>1, PostsStay DEF PDPInv, PDPTypes
<1>7. SafeInv'
    <2>1. CASE UNCHANGED <<spool, torn>>
        BY Zenon, <1>1, <2>1, SafeRequest DEF PDPInv
    <2>2. CASE Spooling /\ spoolMu = "free" /\ spool' = pending /\ torn' = FALSE
        <3>1. run # "down"
            BY Zenon, <1>1 DEF PDPInv, SafeInv, LockInv
        <3>2. \A x \in Decision : req'[x] = req[x] \/ req'[x] = "failed"
            BY Zenon, <1>1, ReqStep DEF PDPInv, ReqState
        <3> QED BY Zenon, <1>1, <2>2, <3>1, <3>2, SafeRewrite DEF PDPInv
    <2> QED BY Zenon, <1>2, <2>1, <2>2
<1> QED BY <1>4, <1>5, <1>6, <1>7 DEF PDPInv

-----------------------------------------------------------------------------
(* The actions of Flush and of the handlers. *)

(* The agent has its answer, or gave up on it: nobody waits any more. *)
LEMMA AnswerPosts ==
    ASSUME PDPInv, NEW p \in posts, p.live, UNCHANGED <<chain, run>>,
           \A q \in posts' : q \in posts \ {p} \/ (q = [p EXCEPT !.live = FALSE])
    PROVE  posts' \subseteq Requests /\ OnceInv' /\ PostsInv' /\ run # "down" /\ Recorded' = Recorded
<1>1. flush = "wait" /\ run # "down"
    BY DEF PDPInv, PostsInv, PostInv
<1>2. p \in Requests
    BY DEF PDPInv, PDPTypes
<1>3. PICK z : z = [p EXCEPT !.live = FALSE]
    BY Zenon
<1>4. z \in Requests /\ z.rows = p.rows /\ z.at = p.at /\ ~z.live
    BY Zenon, <1>2, <1>3 DEF Requests
<1>5. Recorded' = Recorded /\ OnceInv'
    BY DEF Recorded, PDPInv, OnceInv, DecisionRows
<1>6. ASSUME NEW q \in posts'
      PROVE  q \in Requests /\ ~q.live /\ \E r \in posts : q.rows = r.rows /\ q.at = r.at
    <2>1. q \in posts \ {p} \/ q = z
        BY Zenon, <1>3, <1>6
    <2>2. CASE q \in posts \ {p}
        BY <2>2 DEF PDPInv, PDPTypes, PostsInv
    <2>3. CASE q = z
        BY <1>4, <2>3
    <2> QED BY Zenon, <2>1, <2>2, <2>3
<1>7. PostsInv'
    BY Zenon, <1>1, <1>5, <1>6, PostsQuiet DEF PDPInv
<1> QED BY Zenon, <1>1, <1>5, <1>6, <1>7

LEMMA DecisionsFacts ==
    ASSUME PDPInv, NEW p \in posts
    PROVE  /\ Decisions(p) \in Nat
           /\ p.live => Decisions(p) <= Len(pending) /\ Len(pending) \in Nat
           /\ RecordedBy(p) \in Nat /\ RecordedBy(p) <= p.at /\ p.at \in Nat /\ Len(p.rows) \in Nat
<1>1. p \in Requests /\ PostInv(p) /\ Len(pending) \in Nat
    BY DEF PDPInv, PDPTypes, PostsInv
<1>2. Len(p.rows) \in Nat /\ p.at \in Nat
    BY <1>1 DEF Requests
<1> QED BY <1>1, <1>2 DEF Decisions, RecordedBy, PostInv

(* Only recorded decisions leave the queue as such. *)
LEMMA RemoveRecorded ==
    ASSUME PDPInv, NEW p \in posts, p.live, NEW n \in Nat, n <= Decisions(p), n <= p.at, Remove(n)
    PROVE  pending' \in Seq(Decision) /\ Range(pending) \subseteq Range(pending') \cup Recorded
<1>1. pending \in Seq(Decision) /\ pending' = Drop(pending, n)
    BY Zenon DEF PDPInv, PDPTypes, Remove
<1>2. n \in 0..Len(pending)
    BY DecisionsFacts
<1>3. /\ pending' \in Seq(Decision)
      /\ \A x \in Range(pending) : x \in Range(pending') \/ \E i \in 1..n : x = pending[i]
    BY Zenon, <1>1, <1>2, DropFacts
<1>4. ASSUME NEW i \in 1..n PROVE pending[i] \in Recorded
    <2>1. p.rows[1].kind = "decision" /\ n <= Len(p.rows) /\ Len(p.rows) \in Nat /\ p.at \in Nat
        BY <1>4, DecisionsFacts DEF Decisions
    <2>2. i \in 1..p.at /\ i \in 1..Len(p.rows)
        BY <2>1
    <2> QED BY Zenon, <2>1, <2>2 DEF PDPInv, PostsInv, PostInv
<1> QED BY Zenon, <1>3, <1>4

LEMMA AnswerSafe ==
    ASSUME PDPInv, UNCHANGED <<req, spool, torn, unrepaired, spoolMu, run>>, Recorded \subseteq Recorded',
           everDropped \subseteq everDropped',
           Range(pending) \subseteq Range(pending') \cup Recorded' \cup everDropped'
    PROVE  SafeInv'
<1>1. Settled \subseteq Settled'
    BY Zenon DEF Settled
<1>2. Range(pending) \subseteq Range(pending') \cup Settled'
    BY Zenon DEF Settled
<1> QED BY Zenon, <1>1, <1>2, SafeKeep DEF PDPInv

LEMMA ShippedStep ==
    ASSUME PDPInv, NEW p \in posts, Shipped(p) \/ ShipFails(p)
    PROVE  PDPInv'
<1>1. /\ p.live /\ posts' = posts \ {p}
      /\ UNCHANGED <<chain, run, req, spool, torn, spoolMu, nextLoss, unrepaired, everDropped>>
    BY DEF Shipped, ShipFails, Fault, Answer, Remove, procVars, lossVars, faultVars
<1>2. posts' \subseteq Requests /\ OnceInv' /\ PostsInv' /\ run # "down" /\ Recorded' = Recorded
    BY Zenon, <1>1, AnswerPosts
<1>3. PICK n \in Nat : n <= Decisions(p) /\ n <= p.at /\ Remove(n)
    <2>1. CASE Shipped(p)
        <3>1. Decisions(p) <= p.at
            BY <2>1, DecisionsFacts DEF Shipped, Succeeds, Decisions
        <3> QED BY SMTT(20), <2>1, <3>1, DecisionsFacts DEF Shipped
    <2>2. CASE ShipFails(p)
        BY <2>2, DecisionsFacts DEF ShipFails
    <2> QED BY Zenon, <2>1, <2>2
<1>4. pending' \in Seq(Decision) /\ Range(pending) \subseteq Range(pending') \cup Recorded
    BY Zenon, <1>1, <1>3, RemoveRecorded
<1>5. dropped' \in Seq(Decision) /\ lossID' \in Nat /\ batchCap' \in Nat
    <2>1. (dropped' = dropped /\ lossID' = lossID) \/ (dropped' = <<>> /\ lossID' = 0)
        BY Zenon DEF Shipped, ShipFails, lossVars
    <2>2. batchCap' = batchCap \/ batchCap' = 0
        BY DEF Shipped, ShipFails, lossVars
    <2>3. <<>> \in Seq(Decision)
        OBVIOUS
    <2>4. dropped \in Seq(Decision) /\ lossID \in Nat /\ batchCap \in Nat
        BY DEF PDPInv, PDPTypes
    <2>5. dropped' \in Seq(Decision) /\ lossID' \in Nat
        <3>1. 0 \in Nat
            OBVIOUS
        <3> QED BY Zenon, <2>1, <2>3, <2>4, <3>1
    <2>6. batchCap' \in Nat
        BY <2>2, <2>4
    <2> QED BY Zenon, <2>5, <2>6
<1>6. PDPTypes'
    BY Zenon, <1>1, <1>2, <1>4, <1>5 DEF PDPInv, PDPTypes
<1>7. SafeInv'
    BY Zenon, <1>1, <1>2, <1>4, AnswerSafe
<1> QED BY Zenon, <1>2, <1>6, <1>7 DEF PDPInv

LEMMA KeptStep ==
    ASSUME PDPInv, NEW p \in posts, Halve(p) \/ RefuseToDrop(p) \/ NoAnswer(p)
    PROVE  PDPInv'
<1>1. /\ p.live
      /\ UNCHANGED <<chain, run, req, pending, spool, torn, spoolMu, dropped, lossID, nextLoss, everDropped>>
    BY DEF Halve, RefuseToDrop, NoAnswer, Answer, procVars, queueVars, lossVars
<1>2. unrepaired' = unrepaired
    BY DEF Halve, RefuseToDrop, NoAnswer, Fault, faultVars
<1>3. \A q \in posts' : q \in posts \ {p} \/ (q = [p EXCEPT !.live = FALSE])
    BY Zenon DEF Halve, RefuseToDrop, NoAnswer, Answer
<1>4. posts' \subseteq Requests /\ OnceInv' /\ PostsInv' /\ run # "down" /\ Recorded' = Recorded
    BY Zenon, <1>1, <1>3, AnswerPosts
<1>5. batchCap' \in Nat
    <2>1. batchCap' = batchCap \/ batchCap' = (Decisions(p) + 1) \div 2
        BY Zenon DEF Halve, RefuseToDrop, NoAnswer, lossVars
    <2> QED BY <2>1, DecisionsFacts DEF PDPInv, PDPTypes
<1>6. PDPTypes'
    BY Zenon, <1>1, <1>2, <1>4, <1>5 DEF PDPInv, PDPTypes
<1>7. SafeInv'
    BY Zenon, <1>1, <1>2, <1>4, AnswerSafe
<1> QED BY Zenon, <1>4, <1>6, <1>7 DEF PDPInv

LEMMA DropStep ==
    ASSUME PDPInv, NEW p \in posts, DropRejected(p)
    PROVE  PDPInv'
<1>1. /\ p.live /\ posts' = posts \ {p} /\ Decisions(p) = 1
      /\ dropped' = Append(dropped, pending[1]) /\ batchCap' = 0
      /\ everDropped' = everDropped \cup {pending[1]} /\ pending' = Drop(pending, 1)
      /\ UNCHANGED <<chain, run, req, spool, torn, spoolMu, unrepaired>>
    BY DEF DropRejected, Answer, Remove, procVars, faultVars
<1>2. posts' \subseteq Requests /\ OnceInv' /\ PostsInv' /\ run # "down" /\ Recorded' = Recorded
    BY Zenon, <1>1, AnswerPosts
<1>3. pending \in Seq(Decision) /\ dropped \in Seq(Decision) /\ 1 \in 1..Len(pending) /\ 1 \in 0..Len(pending)
    BY <1>1, DecisionsFacts DEF PDPInv, PDPTypes
<1>4. pending[1] \in Decision
    BY Zenon, <1>3, SeqFacts
<1>5. dropped' \in Seq(Decision)
    BY Zenon, <1>1, <1>3, <1>4, AppendFacts
<1>6. /\ pending' \in Seq(Decision)
      /\ \A x \in Range(pending) : x \in Range(pending') \/ \E i \in 1..1 : x = pending[i]
    BY <1>1, <1>3, DropFacts
<1>7. Range(pending) \subseteq Range(pending') \cup {pending[1]}
    <2>1. \A i \in 1..1 : i = 1
        OBVIOUS
    <2> QED BY Zenon, <1>6, <2>1
<1>8. lossID' \in Nat /\ nextLoss' \in Nat
    BY DEF DropRejected, PDPInv, PDPTypes
<1>9. PDPTypes'
    BY Zenon, <1>1, <1>2, <1>5, <1>6, <1>8 DEF PDPInv, PDPTypes
<1>10. SafeInv'
    BY Zenon, <1>1, <1>2, <1>7, AnswerSafe
<1> QED BY Zenon, <1>2, <1>9, <1>10 DEF PDPInv

LEMMA ServerStep ==
    ASSUME PDPInv, NEW p \in posts, Server(p)
    PROVE  PDPInv'
<1>1. UNCHANGED <<run, req, pending, spool, torn, spoolMu, dropped, lossID, nextLoss, batchCap,
                  everDropped, flush, unrepaired>>
    BY Zenon DEF Server, procVars, queueVars, lossVars, flushVars, faultVars
<1>2. chain' \in Seq(GoodRows) /\ posts' \subseteq Requests /\ OnceInv' /\ PostsInv'
      /\ Recorded \subseteq Recorded'
    <2>1. CASE AppendNext(p)
        BY Zenon, <1>1, <2>1, AppendNextPosts DEF PDPInv
    <2>2. CASE Abandon(p)
        <3>1. posts' \subseteq posts /\ chain' = chain
            BY Zenon, <2>2 DEF Abandon, Answer
        <3>2. OnceInv' /\ Recorded' = Recorded
            BY Zenon, <3>1 DEF PDPInv, OnceInv, DecisionRows, Recorded
        <3>3. ASSUME NEW q \in posts PROVE PostInv(q)'
            BY Zenon, <1>1, <3>2, <3>3 DEF PDPInv, PostsInv, PostInv
        <3>4. PostsInv'
            BY Zenon, <1>1, <3>1, <3>3 DEF PDPInv, PostsInv
        <3> QED BY Zenon, <3>1, <3>2, <3>4 DEF PDPInv, PDPTypes
    <2> QED BY Zenon, <2>1, <2>2 DEF Server
<1>3. PDPTypes'
    BY Zenon, <1>1, <1>2 DEF PDPInv, PDPTypes
<1>4. SafeInv'
    BY Zenon, <1>1, <1>2, AnswerSafe
<1> QED BY Zenon, <1>2, <1>3, <1>4 DEF PDPInv

LEMMA SendStep ==
    ASSUME PDPInv, Send
    PROVE  PDPInv'
<1>1. UNCHANGED <<chain, run, req, pending, spool, torn, spoolMu, dropped, lossID, nextLoss, batchCap,
                  everDropped, unrepaired>>
    BY DEF Send, procVars, queueVars, lossVars, faultVars
<1>2. posts' \subseteq Requests /\ PostsInv'
    BY Zenon, SendPosts DEF PDPInv
<1>3. OnceInv' /\ Recorded' = Recorded
    BY Zenon, <1>1 DEF PDPInv, OnceInv, DecisionRows, Recorded
<1>4. PDPTypes'
    BY Zenon, <1>1, <1>2 DEF PDPInv, PDPTypes
<1>5. SafeInv'
    BY Zenon, <1>1, <1>3, AnswerSafe
<1> QED BY Zenon, <1>2, <1>3, <1>4, <1>5 DEF PDPInv

LEMMA FlushSteps ==
    ASSUME PDPInv, StartFlush \/ NothingToSend
    PROVE  PDPInv'
<1>1. UNCHANGED <<chain, posts, run, req, pending, spool, torn, spoolMu, dropped, lossID, nextLoss,
                  batchCap, everDropped, unrepaired>>
    BY Zenon DEF StartFlush, NothingToSend, recorderVars, procVars, queueVars, lossVars, faultVars
<1>2. flush # "wait" /\ run # "down"
    BY SMTT(20) DEF StartFlush, NothingToSend, PDPInv, PostsInv
<1>3. OnceInv' /\ Recorded' = Recorded
    BY Zenon, <1>1 DEF PDPInv, OnceInv, DecisionRows, Recorded
<1>4. PostsInv'
    BY Zenon, <1>1, <1>2, <1>3, NobodyWaits, PostsQuiet DEF PDPInv
<1>5. PDPTypes'
    BY Zenon, <1>1 DEF PDPInv, PDPTypes
<1>6. SafeInv'
    BY Zenon, <1>1, <1>3, AnswerSafe
<1> QED BY Zenon, <1>3, <1>4, <1>5, <1>6 DEF PDPInv

LEMMA RewriteSteps ==
    ASSUME PDPInv, RewriteSpool \/ RewriteFails
    PROVE  PDPInv'
<1>1. /\ spoolMu = "free" /\ flush = "rewrite"
      /\ UNCHANGED <<chain, posts, run, req, pending, spoolMu, dropped, lossID, nextLoss, batchCap,
                     everDropped>>
    BY Zenon DEF RewriteSpool, RewriteFails, recorderVars, procVars, lossVars
<1>2. unrepaired' = unrepaired
    BY Zenon DEF RewriteSpool, RewriteFails, Fault, faultVars
<1>3. UNCHANGED <<spool, torn>> \/ (spool' = pending /\ torn' = FALSE)
    BY Zenon DEF RewriteSpool, RewriteFails
<1>4. run # "down"
    BY Zenon, <1>1 DEF PDPInv, PostsInv
<1>5. OnceInv' /\ Recorded' = Recorded
    BY Zenon, <1>1 DEF PDPInv, OnceInv, DecisionRows, Recorded
<1>6. PostsInv'
    <2>1. \A p \in posts : ~p.live
        BY Zenon, <1>1, NobodyWaits DEF PDPInv
    <2> QED BY Zenon, <1>1, <1>4, <1>5, <2>1, PostsQuiet DEF PDPInv
<1>7. PDPTypes'
    <2>1. pending \in Seq(Decision \cup {Garbage})
        BY DEF PDPInv, PDPTypes
    <2> QED BY Zenon, <1>1, <1>2, <1>3, <2>1 DEF PDPInv, PDPTypes
<1>8. SafeInv'
    <2>1. CASE UNCHANGED <<spool, torn>>
        BY Zenon, <1>1, <1>2, <1>5, <2>1, AnswerSafe
    <2>2. CASE spool' = pending /\ torn' = FALSE
        BY Zenon, <1>1, <1>2, <1>4, <2>2, SafeRewrite DEF PDPInv
    <2> QED BY Zenon, <1>3, <2>1, <2>2
<1> QED BY <1>5, <1>6, <1>7, <1>8 DEF PDPInv

-----------------------------------------------------------------------------
(* The process. *)

LEMMA QuietSteps ==
    ASSUME PDPInv, HourPasses \/ Shutdown \/ StopListening \/ UNCHANGED vars
    PROVE  PDPInv'
<1>1. UNCHANGED <<chain, posts, req, pending, spool, torn, spoolMu, dropped, lossID, nextLoss, batchCap,
                  everDropped, flush, unrepaired>>
    BY Zenon DEF HourPasses, Shutdown, StopListening, Fault, vars, recorderVars, procVars, queueVars, lossVars,
           flushVars, faultVars
<1>2. run' = "down" <=> run = "down"
    BY SMTT(20) DEF HourPasses, Shutdown, StopListening, vars, procVars
<1>3. OnceInv' /\ Recorded' = Recorded
    BY Zenon, <1>1 DEF PDPInv, OnceInv, DecisionRows, Recorded
<1>4. PostsInv'
    BY <1>1, <1>2, PostsStay DEF PDPInv, PDPTypes
<1>5. PDPTypes'
    BY Zenon, <1>1 DEF PDPInv, PDPTypes
<1>6. Settled' = Settled
    BY Zenon, <1>1, <1>3 DEF Settled
<1>7. SafeInv'
    BY Zenon, <1>1, <1>2, <1>6, SafeKeep DEF PDPInv
<1> QED BY Zenon, <1>3, <1>4, <1>5, <1>7 DEF PDPInv

LEMMA CrashStep ==
    ASSUME PDPInv, Crash
    PROVE  PDPInv'
<1>1. /\ posts' = {[p EXCEPT !.live = FALSE] : p \in posts} /\ flush' = "idle"
      /\ pending' = <<>> /\ dropped' = <<>> /\ lossID' = 0 /\ batchCap' = 0
      /\ UNCHANGED <<chain, nextLoss, unrepaired>>
    BY Zenon DEF Crash, Detach, ResetMemory, Fault
<1>2. req' = [d \in Decision |-> IF req[d] \in {"reserved", "written"} THEN "failed" ELSE req[d]]
    BY Zenon DEF Crash, GiveUp
<1>3. (spool' = spool /\ torn' = torn) \/ (spool' = WithLine(Garbage) /\ torn' = TRUE)
    BY DEF Crash
<1>4. spool' \in Seq(Decision \cup {Garbage}) /\ torn' \in BOOLEAN
    <2>1. CASE spool' = spool /\ torn' = torn
        BY Zenon, <2>1 DEF PDPInv, PDPTypes
    <2>2. CASE spool' = WithLine(Garbage) /\ torn' = TRUE
        BY Zenon, <2>2, WithLineFacts DEF PDPInv, SafeInv
    <2> QED BY Zenon, <1>3, <2>1, <2>2
<1>5. ASSUME NEW q \in posts'
      PROVE  q \in Requests /\ ~q.live /\ \E p \in posts : q.rows = p.rows /\ q.at = p.at
    <2>1. PICK p \in posts : q = [p EXCEPT !.live = FALSE]
        BY Zenon, <1>1, <1>5
    <2>2. p \in Requests
        BY DEF PDPInv, PDPTypes
    <2>3. q \in Requests /\ ~q.live /\ q.rows = p.rows /\ q.at = p.at
        BY Zenon, <2>1, <2>2 DEF Requests
    <2> QED BY <2>3
<1>6. OnceInv' /\ Recorded' = Recorded
    BY <1>1 DEF PDPInv, OnceInv, DecisionRows, Recorded
<1>7. PostsInv'
    BY Zenon, <1>1, <1>5, <1>6, PostsQuiet DEF PDPInv
<1>8. req' \in [Decision -> ReqState]
    BY Zenon, <1>2 DEF PDPInv, PDPTypes, ReqState
<1>9. <<>> \in Seq(Decision)
    OBVIOUS
<1>10. pending' \in Seq(Decision) /\ dropped' \in Seq(Decision)
    BY Zenon, <1>1, <1>9
<1>11. PDPTypes'
    BY Zenon, <1>1, <1>4, <1>5, <1>8, <1>10 DEF PDPInv, PDPTypes
<1>12. SafeInv'
    BY Zenon, SafeCrash DEF PDPInv
<1> QED BY Zenon, <1>6, <1>7, <1>11, <1>12 DEF PDPInv

LEMMA RestartStep ==
    ASSUME PDPInv, Restart
    PROVE  PDPInv'
<1>1. /\ run = "down" /\ torn' = FALSE
      /\ UNCHANGED <<chain, posts, req, dropped, lossID, nextLoss, batchCap, flush, unrepaired>>
    BY Zenon DEF Restart, recorderVars, lossVars, flushVars, faultVars
<1>2. spool' \in Seq(Decision) /\ pending' = spool'
    BY Zenon, RestartReads DEF PDPInv
<1>3. spool' \in Seq(Decision \cup {Garbage})
    BY <1>2
<1>4. OnceInv' /\ Recorded' = Recorded
    BY Zenon, <1>1 DEF PDPInv, OnceInv, DecisionRows, Recorded
<1>5. flush = "idle"
    BY Zenon, <1>1 DEF PDPInv, PostsInv
<1>6. PostsInv'
    BY Zenon, <1>1, <1>4, <1>5, NobodyWaits, PostsQuiet DEF PDPInv
<1>7. PDPTypes'
    BY Zenon, <1>1, <1>2, <1>3 DEF PDPInv, PDPTypes
<1>8. SafeInv'
    BY SafeRestart DEF PDPInv
<1> QED BY <1>4, <1>6, <1>7, <1>8 DEF PDPInv

LEMMA ExitStep ==
    ASSUME PDPInv, Exit
    PROVE  PDPInv'
<1>1. /\ flush = "done" /\ flush' = "idle"
      /\ pending' = <<>> /\ dropped' = <<>> /\ lossID' = 0 /\ batchCap' = 0
      /\ UNCHANGED <<chain, posts, req, spool, torn, nextLoss, unrepaired>>
    BY Zenon DEF Exit, ResetMemory, recorderVars, faultVars
<1>2. OnceInv' /\ Recorded' = Recorded
    BY Zenon, <1>1 DEF PDPInv, OnceInv, DecisionRows, Recorded
<1>3. PostsInv'
    BY Zenon, <1>1, <1>2, NobodyWaits, PostsQuiet DEF PDPInv
<1>4. <<>> \in Seq(Decision)
    OBVIOUS
<1>5. pending' \in Seq(Decision) /\ dropped' \in Seq(Decision)
    BY Zenon, <1>1, <1>4
<1>6. PDPTypes'
    BY Zenon, <1>1, <1>5 DEF PDPInv, PDPTypes
<1>7. SafeInv'
    BY SafeExit DEF PDPInv
<1> QED BY <1>2, <1>3, <1>6, <1>7 DEF PDPInv

-----------------------------------------------------------------------------
LEMMA InitPDPInv == Init => PDPInv
<1> SUFFICES ASSUME Init PROVE PDPInv
    BY Zenon
<1>1. /\ chain = <<>> /\ posts = {} /\ run = "up" /\ req = [d \in Decision |-> "new"]
      /\ pending = <<>> /\ spool = <<>> /\ torn = FALSE /\ dropped = <<>> /\ lossID = 0
      /\ nextLoss = 0 /\ batchCap = 0 /\ unrepaired = 0
    BY DEF Init, RecorderInit
<1>2. \A S : <<>> \in Seq(S)
    OBVIOUS
<1>3. /\ chain \in Seq(GoodRows) /\ pending \in Seq(Decision) /\ dropped \in Seq(Decision)
      /\ spool \in Seq(Decision \cup {Garbage})
    BY Zenon, <1>1, <1>2
<1>4. PDPTypes
    BY Zenon, <1>1, <1>3 DEF PDPTypes, ReqState
<1>5. PostsInv
    BY Zenon, <1>1 DEF PostsInv
<1>6. OnceInv
    BY <1>1 DEF OnceInv, DecisionRows
<1>7. \A d \in Decision : req[d] = "new"
    BY Zenon, <1>1
<1>8. LockInv /\ TornInv /\ QueueInv
    BY Zenon, <1>1, <1>7 DEF LockInv, TornInv, QueueInv, Answered
<1>9. MissingInv
    <2>1. Missing = {}
        BY Zenon, <1>7 DEF Missing
    <2>2. Cardinality(Missing) = 0 /\ Risk = 0
        BY Zenon, <1>1, <2>1, FS_EmptySet DEF Risk
    <2> QED BY <1>1, <2>2 DEF MissingInv
<1> QED BY Zenon, <1>4, <1>5, <1>6, <1>8, <1>9 DEF PDPInv, SafeInv

LEMMA NextPDPInv ==
    ASSUME PDPInv, [Next]_vars
    PROVE  PDPInv'
<1>1. CASE \E d \in Decision : Reserve(d) \/ SpoolDecision(d) \/ Enqueue(d)
                               \/ SpoolClosed(d) \/ EvaluateFails(d) \/ WriteUnrepaired(d)
    BY Zenon, <1>1, RequestSteps, SpoolSteps, EnqueueStep, FailsStep
<1>2. CASE Flushing \/ RewriteFails
    BY Zenon, <1>2, FlushSteps, SendStep, RewriteSteps DEF Flushing
<1>3. CASE HourPasses \/ Shutdown \/ StopListening \/ UNCHANGED vars
    BY Zenon, <1>3, QuietSteps
<1>4. CASE Serve \/ \E p \in posts : ShipFails(p) \/ NoAnswer(p)
    BY Zenon, <1>4, ServerStep, ShippedStep, KeptStep, DropStep DEF Serve, Handle
<1>5. CASE Crash \/ Restart \/ Exit
    BY Zenon, <1>5, CrashStep, RestartStep, ExitStep
<1> QED BY Zenon, <1>1, <1>2, <1>3, <1>4, <1>5 DEF Next

(* What Evaluate, Flush, the spool and the handlers keep between them is
   inductive: types, handlers that work on the head of the queue, one row per
   decision, and the account of missing decisions and torn lines. *)
THEOREM PDPInvHolds == Spec => []PDPInv
<1> QED BY InitPDPInv, NextPDPInv, PTL DEF Spec

(* Every answered decision is recorded, dropped on purpose or in the spool,
   except for at most one per spool write that failed and could not be undone:
   crashes, torn lines, rewrites, lost answers and replays lose nothing. *)
THEOREM LossBoundHolds == Spec => []LossBound
<1>1. ASSUME PDPInv PROVE LossBound
    <2> SUFFICES ASSUME Spooling
                 PROVE  Cardinality(Answered \ (Range(spool) \cup Recorded \cup everDropped)) <= unrepaired
        BY Zenon DEF LossBound
    <2> DEFINE lost == Answered \ (Range(spool) \cup Recorded \cup everDropped)
    <2>1. lost \in SUBSET Decision /\ Missing \in SUBSET Decision /\ lost \subseteq Missing
        BY Zenon DEF Answered, Missing, Settled
    <2>2. Cardinality(lost) \in Nat /\ Cardinality(Missing) \in Nat /\ Cardinality(lost) <= Cardinality(Missing)
        BY Zenon, <2>1, Fewer
    <2>3. Cardinality(Missing) + Risk <= unrepaired /\ unrepaired \in Nat
        BY Zenon, <1>1 DEF PDPInv, SafeInv, MissingInv, PDPTypes
    <2> HIDE DEF lost
    <2>4. Cardinality(lost) <= unrepaired
        BY SMTT(20), <2>2, <2>3, RiskNat
    <2> QED BY Zenon, <2>4 DEF lost
<1> QED BY <1>1, PDPInvHolds, PTL

(* Whatever handlers still work on old batches and whatever a restarted agent
   replays, a decision has one row, and no conflict row. *)
THEOREM DecisionRecordedOnce == Spec => []RecordedOnce
<1>1. ASSUME PDPInv PROVE RecordedOnce
    <2>1. chain \in Seq(GoodRows)
        BY Zenon, <1>1 DEF PDPInv, PDPTypes
    <2>2. ASSUME NEW i \in 1..Len(chain), chain[i].kind = "conflict" PROVE chain[i].id \notin Decision
        <3>1. chain[i] \in GoodRows
            BY Zenon, <2>1, SeqFacts
        <3> QED BY Zenon, <2>2, <3>1, PDPAssumption DEF GoodRows
    <2> QED BY Zenon, <1>1, <2>2 DEF RecordedOnce, PDPInv, OnceInv
<1> QED BY <1>1, PDPInvHolds, PTL

(* A batch has one revision for all its decisions, and it is the one each of
   them was made with. *)
THEOREM OwnRevisionHolds == Spec => []RecordedWithOwnRevision
<1>1. ASSUME PDPInv PROVE RecordedWithOwnRevision
    <2>1. chain \in Seq(GoodRows)
        BY <1>1 DEF PDPInv, PDPTypes
    <2>2. \A i \in 1..Len(chain) : chain[i] \in GoodRows
        BY Zenon, <2>1, SeqFacts
    <2> QED BY Zenon, <2>2 DEF RecordedWithOwnRevision, DecisionRows, GoodRows
<1> QED BY <1>1, PDPInvHolds, PTL
=============================================================================
