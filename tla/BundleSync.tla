---------------------------- MODULE BundleSync ----------------------------
(***************************************************************************)
(* How policy reaches a node: the replicas of the control plane serve their   *)
(* policy set as a bundle (internal/server/api/bundle.go), and the local PDP  *)
(* of an agent polls for it (Sync in internal/agent/localpdp/localpdp.go).    *)
(*                                                                         *)
(* A bundle is its revision and the time its server stamped on it; servers    *)
(* have clocks of their own. With a bundle key (`signed`) an answer may also  *)
(* be one that was given earlier, which the agent refuses by its stamp: the   *)
(* newest stamp is a mark that is kept next to the spool. LocalPDP has what   *)
(* becomes of the decisions. Without a bundle key the servers do not sign.    *)
(***************************************************************************)
EXTENDS Integers, FiniteSets

CONSTANTS Servers,       \* replicas of the control plane
          Offset,        \* how far the clock of each is ahead of the agent's
          Ahead,         \* no clock is further ahead
          Never,         \* the zero time, before any other
          maxClockSkew, MaxAge,
          Timeout,       \* how long an answer may be under way
          MaxNow,        \* the last instant
          MaxRev,        \* revisions of the policy set
          MaxSyncFaults  \* failed polls, failed writes and crashes

ASSUME SyncAssumption ==
  /\ Offset \in [Servers -> Int] /\ Ahead \in Nat /\ \A s \in Servers : Offset[s] <= Ahead
  /\ maxClockSkew \in Nat /\ MaxAge \in Nat \ {0} /\ Timeout \in Nat
  /\ Never \in Int /\ Never < -(MaxAge + maxClockSkew)
  /\ MaxNow \in Nat \ {0} /\ MaxRev \in Nat \ {0} /\ MaxSyncFaults \in Nat

VARIABLES
  mode,     \* the agent's settings: a bundle key, a spool
  now,      \* the agent's clock
  serves,   \* the revision each server has loaded
  last,     \* when a server last served each revision
  kept,     \* an answer that may come back once more
  reply,    \* the answer under way
  pdp,      \* the running PDP: revision, issuedAt, synced, mark to save
  mark,     \* the file next to the spool
  top,      \* the newest mark of any run of the agent
  missed,   \* a run started without the newest mark
  syncFaults

settings == <<mode, serves, last>>
syncvars == <<settings, now, kept, reply, pdp, mark, top, missed, syncFaults>>

Answer(kind, rev, at) == [kind |-> kind, rev |-> rev, at |-> at, due |-> now + Timeout]

None == [kind |-> "none", rev |-> 0, at |-> Never, due |-> 0]

\* A PDP as New returns it, with the mark that RestoreSpool found.
New(up, issuedAt) ==
  [up |-> up, rev |-> 0, at |-> Never, issuedAt |-> issuedAt, synced |-> Never, save |-> FALSE]

Down == New(FALSE, Never)

SyncInit ==
  /\ mode \in [signed : BOOLEAN, spool : BOOLEAN]
  /\ now = 0
  /\ serves = [s \in Servers |-> 1]
  /\ last = [v \in 1..MaxRev |-> 0]
  /\ kept = None /\ reply = None
  /\ pdp = New(TRUE, Never)
  /\ mark = Never /\ top = Never /\ missed = FALSE /\ syncFaults = 0

SyncFault == syncFaults < MaxSyncFaults /\ syncFaults' = syncFaults + 1

-----------------------------------------------------------------------------
(* The control plane.                                                        *)

\* A server reloads its policies: SIGHUP, or the next stored set.
LoadSources(s) ==
  /\ serves[s] < MaxRev
  /\ serves' = [serves EXCEPT ![s] = @ + 1]
  /\ last' = [last EXCEPT ![serves[s] + 1] = now]
  /\ UNCHANGED <<mode, now, kept, reply, pdp, mark, top, missed, syncFaults>>

\* SignBundle: the revision and the server's own time.
SignBundle(s) == Answer("bundle", serves[s], now + Offset[s])

\* getPolicyBundle: 304 to an agent that named the revision it has, which it
\* does only without a bundle key.
getPolicyBundle(s) ==
  /\ pdp.up /\ reply = None /\ ~pdp.save
  /\ reply' = IF ~mode.signed /\ pdp.rev = serves[s]
              THEN Answer("304", pdp.rev, Never) ELSE SignBundle(s)
  /\ \/ mode.signed /\ kept' = SignBundle(s)
     \/ UNCHANGED kept
  /\ UNCHANGED <<settings, now, pdp, mark, top, missed, syncFaults>>

\* What comes back is an answer of an earlier poll, or an unsigned 304.
EarlierAnswer ==
  /\ mode.signed /\ pdp.up /\ reply = None /\ ~pdp.save
  /\ \/ kept # None /\ reply' = Answer("bundle", kept.rev, kept.at)
     \/ reply' = Answer("304", pdp.rev, Never)
  /\ UNCHANGED <<settings, now, kept, pdp, mark, top, missed, syncFaults>>

-----------------------------------------------------------------------------
(* The agent.                                                                *)

\* Mutant of Acceptable: a bundle of any age is taken.
AcceptableAtAnyAge(at) ==
  /\ at >= pdp.issuedAt - maxClockSkew
  /\ at - now <= maxClockSkew

\* Mutant of Acceptable: no look at the mark.
AcceptableUnmarked(at) ==
  /\ now - at <= MaxAge
  /\ at - now <= maxClockSkew

\* The checks on a signed bundle: not older than the mark, not too old, not
\* from the future.
Acceptable(at) ==
  /\ at >= pdp.issuedAt - maxClockSkew
  /\ now - at <= MaxAge
  /\ at - now <= maxClockSkew

\* Mutant of Mark: the stamp as it came, from however fast a clock.
MarkStamp(at) == at

\* The mark of a bundle is never later than now.
Mark(at) == IF at > now THEN now ELSE at

\* Sync with an answer in hand: 304, a bundle that is refused, or LoadBundle,
\* which swaps the policy set in one step.
Sync ==
  /\ reply.kind # "none"
  /\ reply' = None
  /\ \/ /\ reply.kind = "304"
        /\ pdp' = IF mode.signed THEN pdp ELSE [pdp EXCEPT !.synced = now]
        /\ UNCHANGED top
     \/ /\ reply.kind = "bundle" /\ mode.signed /\ ~Acceptable(reply.at)
        /\ UNCHANGED <<pdp, top>>
     \/ /\ reply.kind = "bundle" /\ (mode.signed => Acceptable(reply.at))
        /\ LET stamp    == IF mode.signed THEN reply.at ELSE Never
               advanced == Mark(stamp) > pdp.issuedAt
           IN  /\ pdp' = [up |-> TRUE, rev |-> reply.rev, at |-> stamp, synced |-> now,
                          issuedAt |-> IF advanced THEN Mark(stamp) ELSE pdp.issuedAt,
                          save |-> advanced]
               /\ top' = IF Mark(stamp) > top THEN Mark(stamp) ELSE top
  /\ UNCHANGED <<settings, now, kept, mark, missed, syncFaults>>

\* The poll times out, or what came back is an error, unreadable, for another
\* trust domain or not of its revision.
SyncFails ==
  /\ reply # None /\ SyncFault
  /\ reply' = None
  /\ UNCHANGED <<settings, now, kept, pdp, mark, top, missed>>

\* saveIssuedAt, after mu is released: a temporary file and a rename, so it is
\* done or not done; a failure is logged.
saveIssuedAt ==
  /\ pdp.save
  /\ pdp' = [pdp EXCEPT !.save = FALSE]
  /\ \/ mark' = (IF mode.spool THEN pdp.issuedAt ELSE mark) /\ UNCHANGED syncFaults
     \/ mode.spool /\ SyncFault /\ UNCHANGED mark
  /\ UNCHANGED <<settings, now, kept, reply, top, missed>>

AgentCrash ==
  /\ pdp.up /\ SyncFault
  /\ pdp' = Down /\ reply' = None
  /\ UNCHANGED <<settings, now, kept, mark, top, missed>>

\* New, then RestoreSpool with loadIssuedAt: no mark is a mark of zero, and so
\* is one that cannot be parsed.
RestoreSpool ==
  /\ ~pdp.up
  /\ \/ pdp' = New(TRUE, mark) /\ UNCHANGED syncFaults
     \/ pdp' = New(TRUE, Never) /\ SyncFault
  /\ missed' = (missed \/ pdp'.issuedAt # top)
  /\ UNCHANGED <<settings, now, kept, reply, mark, top>>

\* evaluate decides only while the last sync is recent.
Decides == pdp.up /\ pdp.synced # Never /\ now - pdp.synced <= MaxAge

\* Time passes; an answer is not under way for longer than the client waits.
SyncTick ==
  /\ now < MaxNow
  /\ reply # None => now < reply.due
  /\ now' = now + 1
  /\ last' = [v \in 1..MaxRev |-> IF \E s \in Servers : serves[s] = v THEN now + 1 ELSE last[v]]
  /\ UNCHANGED <<mode, serves, kept, reply, pdp, mark, top, missed, syncFaults>>

SyncNext ==
  \/ \E s \in Servers : LoadSources(s) \/ getPolicyBundle(s)
  \/ EarlierAnswer \/ Sync \/ SyncFails \/ saveIssuedAt
  \/ AgentCrash \/ RestoreSpool \/ SyncTick

SyncSpec == SyncInit /\ [][SyncNext]_syncvars

-----------------------------------------------------------------------------
(* Properties.                                                               *)

\* How long after its last server dropped it a policy may still decide. A
\* signed bundle may be MaxAge old, by its server's clock, when it arrives.
Latency == IF mode.signed THEN 2 * MaxAge + Ahead ELSE MaxAge + Timeout

(* A policy that no server serves any more stops deciding at every node       *)
(* within Latency, whatever polls fail, are late or get an earlier answer and *)
(* however often the agent restarts.                                          *)
DecidesFresh == Decides => now - last[pdp.rev] <= Latency

(* With a bundle key, no run of the agent goes back to a bundle stamped more  *)
(* than the skew before the newest it or an earlier run had loaded, as long   *)
(* as each run began with the newest mark: one that died before it was saved, *)
(* or could not save it, is the only way to lose it.                          *)
NoRollback == mode.signed /\ pdp.rev # 0 /\ ~missed => pdp.at + maxClockSkew >= top

(* The agent never shuts itself out: whatever it has loaded, from however     *)
(* wrong a clock, a bundle stamped now by a server whose clock is within the  *)
(* skew is accepted.                                                          *)
CurrentAccepted ==
  pdp.up => \A s \in Servers :
    /\ Offset[s] <= maxClockSkew
    /\ -Offset[s] <= maxClockSkew /\ -Offset[s] <= MaxAge
    => Acceptable(now + Offset[s])
=============================================================================
