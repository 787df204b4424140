---------------------------- MODULE UpstreamFeed --------------------------
(***************************************************************************)
(* The served bundle of a server that follows an upstream trust domain over  *)
(* its Workload API (internal/server/identity/upstream_watch.go and          *)
(* upstream_source.go): two watches update the two halves of the material,   *)
(* a channel of capacity 1 wakes the loop, the loop reloads the source. In    *)
(* the other deployments any trust source is behind the same numbering.      *)
(***************************************************************************)
EXTENDS TrustBundle

CONSTANTS MaxUpstream,  \* rotations of a half upstream
          NoAnchor,     \* X.509 bundles that are malformed or hold no CA
          NoKey         \* JWT bundles that are malformed or hold no usable key

ASSUME FeedAssumption ==
  /\ MaxUpstream \in Nat
  /\ \A m \in Materials : m[1] \notin NoAnchor /\ m[2] \notin NoKey

VARIABLES kind,     \* "feed", or another source
          up,       \* what the upstream publishes
          w,        \* the halves the watches have received
          updated,  \* the channel has an element
          loop      \* Run: its step, and the halves it has copied

feed == <<kind, up, w, updated, loop>>
fvars == <<vars, feed>>

Step(at, got) == [at |-> at, got |-> got]
Waiting == Step("wait", Off)

FeedInit ==
  /\ Init
  /\ kind \in {"feed", "any"}
  /\ up = <<1, 1>> /\ w = Off /\ updated = FALSE /\ loop = Waiting

Following == kind = "feed" /\ src.trusted # Off

validateCABundle(pem) == pem \notin NoAnchor

parseUpstreamJWKS(jwks) == jwks \notin NoKey

\* newUpstreamTrust refuses both halves when either is not usable.
newUpstreamTrust(m) == validateCABundle(m[1]) /\ parseUpstreamJWKS(m[2])

\* The upstream rotates its CAs or its JWT keys.
UpstreamRotates ==
  /\ kind = "feed"
  /\ up[1] + up[2] < 2 + MaxUpstream
  /\ \E h \in {1, 2} : up' = [up EXCEPT ![h] = @ + 1]
  /\ UNCHANGED <<vars, kind, w, updated, loop>>

\* DialUpstreamWorkloadAPI reads both halves, each of which leaves a signal
\* behind, and the source starts from them; Run follows.
DialUpstreamWorkloadAPI ==
  /\ kind = "feed" /\ src.trusted = Off
  /\ newUpstreamTrust(up)
  /\ src' = Source(up, 1) /\ newest' = up /\ Numbers
  /\ w' = up /\ updated' = TRUE /\ loop' = Waiting
  /\ UNCHANGED <<d, stored, io, peer, faults, crashes, lost, kind, up>>

\* Mutant of Deliver: an unbuffered channel, whose signal is lost on a busy loop.
DeliverDropped(h) ==
  /\ Following /\ w[h] # up[h]
  /\ w' = [w EXCEPT ![h] = up[h]]
  /\ updated' = (updated \/ loop = Waiting)
  /\ UNCHANGED <<vars, kind, up, loop>>

\* A watch delivers what is current now: one half is stored under mu, then
\* the loop is signalled, which does nothing when a signal is pending.
Deliver(h) ==
  /\ Following /\ w[h] # up[h]
  /\ w' = [w EXCEPT ![h] = up[h]]
  /\ updated' = TRUE
  /\ UNCHANGED <<vars, kind, up, loop>>

\* Run takes the signal ...
Run ==
  /\ Following /\ loop.at = "wait" /\ updated
  /\ updated' = FALSE /\ loop' = Step("woken", Off)
  /\ UNCHANGED <<vars, kind, up, w>>

\* ... copies the halves that are current by then, under mu ...
Material ==
  /\ Following /\ loop.at = "woken"
  /\ loop' = Step("reload", w)
  /\ UNCHANGED <<vars, kind, up, w, updated>>

\* ... and reloads the source: material that is refused or is what it had
\* changes nothing, other material is stored first and counted next.
ReloadSource ==
  /\ Following
  /\ \/ /\ loop.at = "reload" /\ newUpstreamTrust(loop.got) /\ loop.got # src.trusted
        /\ src' = Source(loop.got, src.seq) /\ newest' = loop.got
        /\ loop' = Step("count", Off)
     \/ /\ loop.at = "reload" /\ (~newUpstreamTrust(loop.got) \/ loop.got = src.trusted)
        /\ loop' = Waiting /\ UNCHANGED <<src, newest>>
     \/ /\ loop.at = "count"
        /\ src' = Source(src.trusted, src.seq + 1) /\ loop' = Waiting /\ UNCHANGED newest
  /\ UNCHANGED <<d, stored, caller, io, peer, faults, crashes, lost, kind, up, w, updated>>

Feeding == DialUpstreamWorkloadAPI \/ Deliver(1) \/ Deliver(2) \/ Run \/ Material \/ ReloadSource

FeedNext ==
  \/ (Numbering \/ Crash) /\ UNCHANGED feed
  \/ kind = "any" /\ (Start \/ Reload) /\ UNCHANGED feed
  \/ UpstreamRotates \/ Feeding

\* The watches are retried for ever and the loop never ends.
FeedFairness ==
  /\ WF_fvars(DialUpstreamWorkloadAPI) /\ WF_fvars(Deliver(1)) /\ WF_fvars(Deliver(2))
  /\ WF_fvars(Run) /\ WF_fvars(Material) /\ WF_fvars(ReloadSource)

FeedSpec == FeedInit /\ [][FeedNext]_fvars /\ FeedFairness

(***************************************************************************)
(* Properties.                                                              *)
(***************************************************************************)

\* What the upstream publishes last is installed, whatever signals were
\* dropped and however the two watches interleave, unless omega cannot use it.
FollowsUpstream ==
  kind = "feed" => []<>(src.trusted = up \/ ~newUpstreamTrust(up))
=============================================================================
