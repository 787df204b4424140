-------------------------- MODULE DecisionRecorder --------------------------
(***************************************************************************)
(* POST /v1/audit/decisions on the control plane (internal/server/api/     *)
(* bundle.go, recordDecisions): a batch of decisions a node agent made, or *)
(* a report of decisions it had to drop, is validated as a whole and then  *)
(* appended row by row through AppendAuditOnce, keyed by decision id or    *)
(* loss id.  A handler whose client gave up keeps running for a while, so  *)
(* the same rows may be in several handlers at once.                       *)
(***************************************************************************)
EXTENDS Naturals, Sequences, FiniteSets

CONSTANTS
    Decision,  \* decision ids
    Revision,  \* Revision[d]: the bundle revision d was decided with
    NoRevision \* bundle_revision of a report sent with nothing pending

VARIABLES
    bad,    \* decisions the control plane's validation rejects
    chain,  \* audit rows, in order
    posts   \* running handlers

recorderVars == <<bad, chain, posts>>

DecisionRow(d, rev) == [kind |-> "decision", id |-> d, rev |-> rev, lost |-> <<>>]
DroppedRow(id, ids, rev) == [kind |-> "dropped", id |-> id, rev |-> rev, lost |-> ids]

(* A request being handled: the rows it asks for, how many of them are
   appended, and whether the agent still waits for the answer. *)
Post(rows) == [rows |-> rows, at |-> 0, live |-> TRUE]

RecorderInit ==
    /\ bad \in SUBSET Decision
    /\ chain = <<>>
    /\ posts = {}

(* Mutant: the key is not looked up. *)
AppendAlways(row) == Append(chain, row)

(* AppendAuditOnce: the same row again adds nothing, another row under a
   key already used leaves a conflict row. *)
AppendAuditOnce(row) ==
    LET seen == {i \in 1..Len(chain) : chain[i].kind = row.kind /\ chain[i].id = row.id}
    IN  IF seen = {} THEN Append(chain, row)
        ELSE IF \E i \in seen : chain[i] = row THEN chain
        ELSE Append(chain, [row EXCEPT !.kind = "conflict"])

(* Everything is validated before anything is appended. *)
Valid(p) == \A i \in 1..Len(p.rows) : p.rows[i].kind = "decision" => p.rows[i].id \notin bad

(* What a failed answer reports as recorded. *)
RecordedBy(p) == IF p.rows[1].kind = "decision" THEN p.at ELSE 0

AppendNext(p) ==
    /\ Valid(p) /\ p.at < Len(p.rows)
    /\ chain' = AppendAuditOnce(p.rows[p.at + 1])
    /\ posts' = (posts \ {p}) \cup {[p EXCEPT !.at = @ + 1]}
    /\ UNCHANGED bad

(* The handler answers and is gone. *)
Answer(p) ==
    /\ posts' = posts \ {p}
    /\ UNCHANGED <<bad, chain>>

Rejects(p) == ~Valid(p)
Succeeds(p) == Valid(p) /\ p.at = Len(p.rows)

(* A handler nobody waits for ends where its cancelled context or a server
   restart stops it. *)
Abandon(p) ==
    /\ ~p.live
    /\ Answer(p)

Recorded == {chain[i].id : i \in {j \in 1..Len(chain) : chain[j].kind = "decision"}}
Reported == UNION {{chain[i].lost[j] : j \in 1..Len(chain[i].lost)} :
                       i \in {k \in 1..Len(chain) : chain[k].kind = "dropped"}}
=============================================================================
