---------------------------- MODULE PolicyLoading ----------------------------
(***************************************************************************)
(* Loading the stored policies into every replica's engine (api/domains.go *)
(* RefreshDirectory, api/policies.go loadStoredPolicies, storage/          *)
(* policies.go PolicySet), next to the writes of StoredPolicies.  A load   *)
(* reads the digests the chain records, the table, and the digests again,  *)
(* and enforces the table only when it agrees with the chain.              *)
(***************************************************************************)
EXTENDS StoredPolicies

CONSTANT Rounds    \* how often PolicySet tries to read one state (3)

ASSUME ActorAssumption ==
    Replica \cap (Worker \cup {NoWorker}) = {} /\ Rounds \in Nat \ {0}

(* Who loads: a request after its write, or the sync goroutine of a replica,
   which stands for the load before serving too. *)
Actor == Worker \cup Replica
At(x) == IF x \in Replica THEN x ELSE Home[x]

VARIABLES
    serving,  \* serving[r]: the load before serving is done
    engine,   \* engine[r]: the stored set in force
    broken,   \* broken[r]: evaluation fails closed
    by,       \* by[r]: who holds refreshMu
    load,     \* load[x]: the step its load is at
    before,   \* before[x]: the digests it read last
    items,    \* items[x]: the table as it listed it
    left,     \* left[x]: rounds of PolicySet left
    read,     \* history, read[x]: chain rows behind the digests read last
    seen,     \* history, seen[r]: chain rows behind the set in force
    acked     \* history, acked[r]: chain rows r answered for

reading == <<by, load, before, items, left, read>>
inForce == <<serving, engine, broken, seen>>
loadVars == <<reading, inForce, acked>>
vars == <<writeVars, loadVars>>

Empty == [p \in Policy |-> NoText]

LoadTypeOK ==
    /\ WriteTypeOK
    /\ serving \in [Replica -> BOOLEAN] /\ broken \in [Replica -> BOOLEAN]
    /\ engine \in [Replica -> [Policy -> Text \cup {NoText}]]
    /\ by \in [Replica -> Actor \cup {NoWorker}]
    /\ load \in [Actor -> {"idle", "start", "digests", "listed", "agreed"}]
    /\ before \in [Actor -> [Policy -> Text \cup {NoText, Unrecorded}]]
    /\ items \in [Actor -> [Policy -> Text \cup {NoText}]]
    /\ left \in [Actor -> 0..Rounds]
    /\ read \in [Actor -> SUBSET (1..MaxSeq)]
    /\ seen \in [Replica -> SUBSET (1..MaxSeq)]
    /\ acked \in [Replica -> SUBSET (1..MaxSeq)]

Init ==
    /\ WriteInit
    /\ serving = [r \in Replica |-> FALSE] /\ broken = [r \in Replica |-> FALSE]
    /\ engine = [r \in Replica |-> Empty]
    /\ by = [r \in Replica |-> NoWorker] /\ load = [x \in Actor |-> "idle"]
    /\ before = [x \in Actor |-> Empty] /\ items = [x \in Actor |-> Empty]
    /\ left = [x \in Actor |-> 0] /\ read = [x \in Actor |-> {}]
    /\ seen = [r \in Replica |-> {}] /\ acked = [r \in Replica |-> {}]

(* Mutant: refreshMu does not keep two loads apart. *)
StartLoadUnlocked(x) ==
    /\ load[x] = "idle"
    /\ x \in Worker => pc[x] = "committed"
    /\ pc' = [w \in Worker |-> IF w = x THEN "refreshing" ELSE pc[w]]
    /\ by' = [by EXCEPT ![At(x)] = x]
    /\ load' = [load EXCEPT ![x] = "start"]
    /\ left' = [left EXCEPT ![x] = Rounds]
    /\ UNCHANGED <<stored, chain, nextSeq, mu, req, cur, seq, faults, edits, before, items, read, inForce, acked>>

(* RefreshDirectory takes refreshMu. *)
StartLoad(x) ==
    /\ by[At(x)] = NoWorker
    /\ x \in Worker => pc[x] = "committed"
    /\ pc' = [w \in Worker |-> IF w = x THEN "refreshing" ELSE pc[w]]
    /\ by' = [by EXCEPT ![At(x)] = x]
    /\ load' = [load EXCEPT ![x] = "start"]
    /\ left' = [left EXCEPT ![x] = Rounds]
    /\ UNCHANGED <<stored, chain, nextSeq, mu, req, cur, seq, faults, edits, before, items, read, inForce, acked>>

(* PolicySet's first read of the digests. *)
ReadDigests(x) ==
    /\ load[x] = "start"
    /\ before' = [before EXCEPT ![x] = Recorded(chain)]
    /\ read' = [read EXCEPT ![x] = DOMAIN chain]
    /\ load' = [load EXCEPT ![x] = "digests"]
    /\ UNCHANGED <<writeVars, by, items, left, inForce, acked>>

ListPolicies(x) ==
    /\ load[x] = "digests"
    /\ items' = [items EXCEPT ![x] = [p \in Policy |-> stored[p].text]]
    /\ load' = [load EXCEPT ![x] = "listed"]
    /\ UNCHANGED <<writeVars, by, before, left, read, inForce, acked>>

(* The second read: equal digests end PolicySet, others start another round. *)
Agree(x) ==
    /\ load[x] = "listed" /\ before[x] = Recorded(chain)
    /\ read' = [read EXCEPT ![x] = DOMAIN chain]
    /\ load' = [load EXCEPT ![x] = "agreed"]
    /\ UNCHANGED <<writeVars, by, before, items, left, inForce, acked>>

AnotherRound(x) ==
    /\ load[x] = "listed" /\ before[x] # Recorded(chain) /\ left[x] > 1
    /\ before' = [before EXCEPT ![x] = Recorded(chain)]
    /\ read' = [read EXCEPT ![x] = DOMAIN chain]
    /\ load' = [load EXCEPT ![x] = "digests"]
    /\ left' = [left EXCEPT ![x] = left[x] - 1]
    /\ UNCHANGED <<writeVars, by, items, inForce, acked>>

(* The loads of xs are over and replica r's refreshMu is free. *)
EndLoads(r, xs) ==
    /\ by' = [by EXCEPT ![r] = NoWorker]
    /\ load' = [x \in Actor |-> IF x \in xs THEN "idle" ELSE load[x]]
    /\ before' = [x \in Actor |-> IF x \in xs THEN Empty ELSE before[x]]
    /\ items' = [x \in Actor |-> IF x \in xs THEN Empty ELSE items[x]]
    /\ left' = [x \in Actor |-> IF x \in xs THEN 0 ELSE left[x]]
    /\ read' = [x \in Actor |-> IF x \in xs THEN {} ELSE read[x]]

(* The handler of w answers that its write is done. *)
Acknowledge(w) ==
    /\ acked' = [acked EXCEPT ![Home[w]] = acked[Home[w]] \cup {seq[w]}]
    /\ Finish({w})

(* A load that worked; a request it ran for is answered. *)
LoadDone(x) ==
    /\ EndLoads(At(x), {x})
    /\ IF x \in Replica THEN UNCHANGED <<work, acked>> ELSE Acknowledge(x)

(* A load that failed; a request it ran for still has to say so. *)
LoadFailed(x) ==
    /\ EndLoads(At(x), {x})
    /\ pc' = [w \in Worker |-> IF w = x THEN "stale" ELSE pc[w]]
    /\ UNCHANGED <<req, cur, seq, acked>>

(* SetStoredPolicies parses the set next to the replica's files. *)
Loads(r, set) == \A p \in Policy : <<r, set[p]>> \notin Collides

(* Mutant: the set is not compared with the chain. *)
EnforceableUnmatched(x) == Loads(At(x), items[x])

Enforceable(x) == Matches(items[x], before[x]) /\ Loads(At(x), items[x])

(* Mutant: the engine gets the digests instead of the texts. *)
LoadDigests(x) ==
    /\ load[x] = "agreed" /\ Enforceable(x)
    /\ engine' = [engine EXCEPT ![At(x)] = before[x]]
    /\ seen' = [seen EXCEPT ![At(x)] = read[x]]
    /\ broken' = [broken EXCEPT ![At(x)] = FALSE]
    /\ serving' = [serving EXCEPT ![At(x)] = TRUE]
    /\ LoadDone(x)
    /\ UNCHANGED <<stored, chain, nextSeq, mu, faults, edits>>

(* Mutant: a load does not clear broken. *)
LoadKeepsBroken(x) ==
    /\ load[x] = "agreed" /\ Enforceable(x)
    /\ engine' = [engine EXCEPT ![At(x)] = items[x]]
    /\ seen' = [seen EXCEPT ![At(x)] = read[x]]
    /\ serving' = [serving EXCEPT ![At(x)] = TRUE]
    /\ LoadDone(x)
    /\ UNCHANGED <<stored, chain, nextSeq, mu, faults, edits, broken>>

Load(x) ==
    /\ load[x] = "agreed" /\ Enforceable(x)
    /\ engine' = [engine EXCEPT ![At(x)] = items[x]]
    /\ seen' = [seen EXCEPT ![At(x)] = read[x]]
    /\ broken' = [broken EXCEPT ![At(x)] = FALSE]
    /\ serving' = [serving EXCEPT ![At(x)] = TRUE]
    /\ LoadDone(x)
    /\ UNCHANGED <<stored, chain, nextSeq, mu, faults, edits>>

(* ErrStoredPolicySet: the last set stays in force, evaluation fails closed,
   and a starting server serves all the same. *)
LoadRefused(x) ==
    /\ load[x] = "agreed" /\ ~Enforceable(x)
    /\ broken' = [broken EXCEPT ![At(x)] = TRUE]
    /\ serving' = [serving EXCEPT ![At(x)] = TRUE]
    /\ LoadFailed(x)
    /\ UNCHANGED <<stored, chain, nextSeq, mu, faults, edits, engine, seen>>

(* The digests differed in every round. *)
KeptChanging(x) ==
    /\ load[x] = "listed" /\ before[x] # Recorded(chain) /\ left[x] = 1
    /\ LoadFailed(x)
    /\ UNCHANGED <<stored, chain, nextSeq, mu, faults, edits, inForce>>

(* A query failed, or the client went away.  A starting server exits and is
   started again. *)
QueryFails(x) ==
    /\ load[x] \in {"start", "digests", "listed"}
    /\ Fault
    /\ LoadFailed(x)
    /\ UNCHANGED <<stored, chain, nextSeq, mu, edits, inForce>>

(* Mutant: refreshAfterWrite ignores the failed reload. *)
MarkNothing(w) ==
    /\ pc[w] = "stale"
    /\ Acknowledge(w)
    /\ UNCHANGED <<stored, chain, nextSeq, mu, faults, edits, reading, inForce>>

(* refreshAfterWrite after a failed reload, no longer under refreshMu.  The
   write is answered as done. *)
MarkBroken(w) ==
    /\ pc[w] = "stale"
    /\ broken' = [broken EXCEPT ![Home[w]] = TRUE]
    /\ Acknowledge(w)
    /\ UNCHANGED <<stored, chain, nextSeq, mu, faults, edits, reading, serving, engine, seen>>

(* The process dies and starts over with an engine to be loaded. *)
Crash(r) ==
    /\ CrashWrites(r)
    /\ EndLoads(r, {x \in Actor : At(x) = r})
    /\ serving' = [serving EXCEPT ![r] = FALSE] /\ broken' = [broken EXCEPT ![r] = FALSE]
    /\ engine' = [engine EXCEPT ![r] = Empty] /\ seen' = [seen EXCEPT ![r] = {}]
    /\ UNCHANGED acked

Reload(x) ==
    ReadDigests(x) \/ ListPolicies(x) \/ Agree(x) \/ AnotherRound(x) \/ Load(x) \/ LoadRefused(x) \/ KeptChanging(x)

Next ==
    \/ \E w \in Worker :
        \/ serving[Home[w]] /\ Call(w) /\ UNCHANGED loadVars
        \/ (Change(w) \/ WriteFails(w)) /\ UNCHANGED loadVars
        \/ MarkBroken(w)
    \/ \E x \in Actor : StartLoad(x) \/ Reload(x) \/ QueryFails(x)
    \/ \E r \in Replica : Crash(r)
    \/ EditRow /\ UNCHANGED loadVars

(* Requests and loads go on once started; the ticker and the fairness of
   Go's mutex start the sync's load and a request's load in the end. *)
Spec ==
    /\ Init /\ [][Next]_vars
    /\ \A w \in Worker :
        /\ SF_vars(Change(w) /\ UNCHANGED loadVars)
        /\ WF_vars(MarkBroken(w))
    /\ \A x \in Actor : SF_vars(StartLoad(x)) /\ WF_vars(Reload(x))

-----------------------------------------------------------------------------
(* A replica enforces exactly what the chain recorded when it was loaded,
   whatever was committed or edited between its three reads. *)
EnforcedWasRecorded ==
    \A r \in Replica : serving[r] =>
        Matches(engine[r], Recorded([s \in seen[r] |-> chain[s]]))

(* A write a replica has answered is in force there, or that replica fails
   closed: a load that read older state never hides it. *)
AckedWriteEnforced ==
    \A r \in Replica : serving[r] => acked[r] \subseteq seen[r] \/ broken[r]

(* A replica never goes back to an older set while it runs. *)
EnforcedMovesForward ==
    [][\A r \in Replica : serving[r] /\ serving'[r] => seen[r] \subseteq seen'[r]]_vars

(* Once writes and faults stop, every replica serves the newest set, unless
   the table was changed behind the API. *)
Converges ==
    <>[](edits = 0 => \A r \in Replica : serving[r] /\ ~broken[r] /\ seen[r] = DOMAIN chain)

(* PolicySet's comment: "equal digests on both sides mean the policies were
   read from that same state". *)
ReadFromOneState ==
    \A x \in Actor : load[x] = "agreed" /\ edits = 0 => Matches(items[x], before[x])
=============================================================================
