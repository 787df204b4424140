--------------------------- MODULE LeaderElection ---------------------------
(***************************************************************************)
(* Postgres advisory-lock leader election (internal/server/storage/        *)
(* leader.go).  Each replica runs one election goroutine that tries a      *)
(* session-scoped lock on a ticker, pings the session while it holds the   *)
(* lock, and publishes the outcome in the atomic flag isLeader, which      *)
(* every write path reads through IsLeader.  Postgres drops the lock when  *)
(* the session ends, which the replica learns only at its next ping.       *)
(***************************************************************************)
EXTENDS Naturals, FiniteSets

CONSTANTS
    Replica,          \* the omega server processes sharing one database
    NoReplica,        \* the lock is free
    Zombie,           \* the lock belongs to a session whose client is gone
    ElectionEnabled,  \* StartLeaderElection was called (FALSE: SQLite, or one Postgres replica)
    MaxFaults         \* how many sessions, replies and processes may fail in one behaviour

ASSUME ElectionAssumption ==
    /\ NoReplica \notin Replica
    /\ Zombie \notin Replica
    /\ NoReplica # Zombie
    /\ ElectionEnabled \in BOOLEAN
    /\ MaxFaults \in Nat

VARIABLES
    up,        \* up[r]: the process runs
    lock,      \* which session holds the advisory lock, as Postgres sees it
    held,      \* held[r]: the election goroutine's dedicated connection
    isLeader,  \* isLeader[r]: the atomic flag
    faults     \* faults so far

electionVars == <<up, lock, held, isLeader, faults>>

HeldState == {"none", "open", "lost", "released"}

ElectionTypeOK ==
    /\ up \in [Replica -> BOOLEAN]
    /\ lock \in Replica \cup {NoReplica, Zombie}
    /\ held \in [Replica -> HeldState]
    /\ isLeader \in [Replica -> BOOLEAN]
    /\ faults \in 0..MaxFaults

IsLeader(r) == ElectionEnabled => isLeader[r]

ElectionInit ==
    /\ up = [r \in Replica |-> TRUE]
    /\ lock = NoReplica
    /\ held = [r \in Replica |-> "none"]
    /\ isLeader = [r \in Replica |-> FALSE]
    /\ faults = 0

Fault ==
    /\ faults < MaxFaults
    /\ faults' = faults + 1

(* Mutant: the flag is not set. *)
AcquireSilent(r) ==
    /\ ElectionEnabled /\ up[r] /\ held[r] = "none" /\ lock = NoReplica
    /\ lock' = r
    /\ held' = [held EXCEPT ![r] = "open"]
    /\ UNCHANGED <<up, isLeader, faults>>

(* A tick without the lock: pg_try_advisory_lock answers true. *)
Acquire(r) ==
    /\ ElectionEnabled /\ up[r] /\ held[r] = "none" /\ lock = NoReplica
    /\ lock' = r
    /\ held' = [held EXCEPT ![r] = "open"]
    /\ isLeader' = [isLeader EXCEPT ![r] = TRUE]
    /\ UNCHANGED <<up, faults>>

(* The lock was granted but the query failed: the connection is closed, and
   Postgres keeps the lock until it notices. *)
AcquireReplyLost(r) ==
    /\ ElectionEnabled /\ up[r] /\ held[r] = "none" /\ lock = NoReplica
    /\ Fault
    /\ lock' = Zombie
    /\ UNCHANGED <<up, held, isLeader>>

(* Postgres ends the session (restart, termination, connection reset). *)
SessionLost(r) ==
    /\ held[r] = "open"
    /\ Fault
    /\ held' = [held EXCEPT ![r] = "lost"]
    /\ lock' = NoReplica
    /\ UNCHANGED <<up, isLeader>>

(* A ping that answers leaves everything as it was. *)
Ping(r) ==
    /\ held[r] = "open"
    /\ UNCHANGED electionVars

(* A ping failed on a session Postgres already dropped: the unlock fails
   and the connection is closed.  The flag is still set. *)
ReleaseLost(r) ==
    /\ held[r] = "lost"
    /\ held' = [held EXCEPT ![r] = "released"]
    /\ UNCHANGED <<up, lock, isLeader, faults>>

(* Mutant: the connection goes back to the pool without pg_advisory_unlock. *)
ReleaseNoUnlock(r) ==
    /\ held[r] = "open"
    /\ Fault
    /\ held' = [held EXCEPT ![r] = "released"]
    /\ UNCHANGED <<up, lock, isLeader>>

(* release() on a live session, after a failed ping or a cancelled context:
   the unlock reaches Postgres, or it fails too and the session lingers.
   Either way the flag is cleared only afterwards. *)
ReleaseOpen(r) ==
    /\ held[r] = "open"
    /\ Fault
    /\ lock' \in {NoReplica, Zombie}
    /\ held' = [held EXCEPT ![r] = "released"]
    /\ UNCHANGED <<up, isLeader>>

(* Mutant: the flag stays set. *)
ClearFlagForgotten(r) ==
    /\ held[r] = "released"
    /\ held' = [held EXCEPT ![r] = "none"]
    /\ UNCHANGED <<up, lock, isLeader, faults>>

(* The last statement of release(). *)
ClearFlag(r) ==
    /\ held[r] = "released"
    /\ held' = [held EXCEPT ![r] = "none"]
    /\ isLeader' = [isLeader EXCEPT ![r] = FALSE]
    /\ UNCHANGED <<up, lock, faults>>

(* Postgres notices that a session's client is gone. *)
ReapSession ==
    /\ lock = Zombie
    /\ lock' = NoReplica
    /\ UNCHANGED <<up, held, isLeader, faults>>

Crash(r) ==
    /\ up[r]
    /\ Fault
    /\ up' = [up EXCEPT ![r] = FALSE]
    /\ lock' \in IF lock = r THEN {NoReplica, Zombie} ELSE {lock}
    /\ held' = [held EXCEPT ![r] = "none"]
    /\ isLeader' = [isLeader EXCEPT ![r] = FALSE]

(* StartLeaderElection in a fresh process: enabled, and not the leader. *)
Restart(r) ==
    /\ ~up[r]
    /\ up' = [up EXCEPT ![r] = TRUE]
    /\ UNCHANGED <<lock, held, isLeader, faults>>

(* What the election goroutines and Postgres do; Crash and Restart are left
   to the composing module, since a process takes more down with it. *)
ElectionStep ==
    \/ ReapSession
    \/ \E r \in Replica :
        \/ Acquire(r) \/ AcquireReplyLost(r) \/ Ping(r)
        \/ SessionLost(r) \/ ReleaseLost(r) \/ ReleaseOpen(r) \/ ClearFlag(r)

-----------------------------------------------------------------------------
(* The lock and the connections agree: the replica whose session is live is
   the one Postgres granted the lock to, so two live sessions never hold it. *)
LockMatchesSession == \A r \in Replica : (lock = r) <=> (held[r] = "open")

(* A set flag always belongs to a goroutine that still has a connection to
   ping or release: no replica keeps leading with nothing left to tell it
   to stop. *)
LeaderIsWatched == \A r \in Replica : isLeader[r] <=> (held[r] # "none")

(* A replica that lost its session stops calling itself the leader. *)
StaleLeaderStepsDown ==
    \A r \in Replica : (isLeader[r] /\ lock # r) ~> ~isLeader[r]

(* "another replica will pick it up on its next poll": whatever happened to
   the sessions, some replica leads again. *)
SomeReplicaLeads == []<>(\E r \in Replica : isLeader[r] /\ lock = r)

=============================================================================
