----------------------------- MODULE SingleUse ----------------------------
(***************************************************************************)
(* DPoP proofs (verifyDPoPProof): a proof is accepted while its iat is       *)
(* within the window of the clock, on either side, and only once. Time is    *)
(* counted in ticks; a request reads the clock and takes the cache's lock     *)
(* within one tick.                                                         *)
(***************************************************************************)
EXTENDS ReplayCache

CONSTANTS Proofs,    \* proofs: key thumbprint jkt, jti and iat
          Window,    \* dpopProofWindow
          MaxTime

ASSUME SingleUseAssumption ==
  /\ Window \in Nat \ {0} /\ MaxTime \in Nat /\ MaxEntries \in Nat
  /\ Proofs \subseteq [jkt : Owners, jti : Nat, iat : Int]

VARIABLES now,
          dpop,      \* dpopReplay
          accepted,  \* when each proof was accepted, by the running process
          reused     \* a proof was accepted twice

dpopVars == <<now, dpop, accepted, reused>>

SingleUseInit ==
  /\ now = 0
  /\ dpop = newReplayCache(2 * Window)
  /\ accepted = [p \in {} |-> 0]
  /\ reused = FALSE

Entry(p) == <<p.jkt, p.jti>>

InWindow(p, t) == t - p.iat <= Window /\ p.iat - t <= Window

\* A proof that gets as far as the cache.
Presents(p) == p \in Proofs /\ InWindow(p, now)

Accepts(p) == Presents(p) /\ Verdict(dpop, Entry(p), now, 0) = "first"

\* The cache's part of a request; a proof out of the window never reaches it.
Remember(p) ==
  /\ dpop' = firstUseBy(dpop, Entry(p), now, 0)
  /\ IF Accepts(p)
     THEN /\ accepted' = [q \in DOMAIN accepted \cup {p} |-> IF q = p THEN now ELSE accepted[q]]
          /\ reused' = (reused \/ p \in DOMAIN accepted)
     ELSE UNCHANGED <<accepted, reused>>

verifyDPoPProof(p) == Presents(p) /\ Remember(p) /\ UNCHANGED now

Tick == now < MaxTime /\ now' = now + 1 /\ UNCHANGED <<dpop, accepted, reused>>

\* A restart, or a new leader: its cache is empty.
Restart ==
  /\ dpop' = newReplayCache(2 * Window)
  /\ accepted' = [p \in {} |-> 0]
  /\ UNCHANGED <<now, reused>>

SingleUseNext == (\E p \in Proofs : verifyDPoPProof(p)) \/ Tick \/ Restart

SingleUseSpec == SingleUseInit /\ [][SingleUseNext]_dpopVars

(* No process accepts the same proof twice, however its uses fall around the  *)
(* rotations of the two generations and the ends of the window.               *)
ProofUsedOnce == ~reused
=============================================================================
