---------------------------- MODULE UpstreamCA ----------------------------
(***************************************************************************)
(* The external-issuer backends (vault_pki.go, step_ca.go, aws_pca.go,       *)
(* gcp_cas.go): each replica caches the bundle its overlap serves, refreshes *)
(* it from the issuer once the TTL lapses, reads and (the leader) writes the *)
(* shared upstream_cas rows, and hands out leaves the issuer signed.  The    *)
(* issuer is external: it publishes any CAs, signs with one of them, and     *)
(* changes both as it likes.                                                 *)
(*                                                                           *)
(* Everything that changes an overlap runs under refreshMu, so an operation  *)
(* of a replica is a sequence of steps named by work[r].pc: what was fetched *)
(* is merged at "fetched", stored and cached at "save".  gcp-cas has no      *)
(* overlap: it caches what it fetched.                                       *)
(***************************************************************************)
EXTENDS CAOverlap

CONSTANTS Replicas,
          Deployments,  \* pairs of the replicas there are and their --ca-backend
          BundleTTL,    \* how long a fetched bundle is cached
          Backoff,      \* how long one is after a failed fetch
          Validity,     \* the lifetime of a leaf
          MaxTime,
          MaxEvents,    \* issuer changes, faults, crashes and distrust lists in a run
          Nobody

ASSUME UpstreamAssumption ==
  /\ {BundleTTL, Backoff, Validity, MaxTime, MaxEvents} \subseteq Nat
  /\ Nobody \notin Replicas

VARIABLES now, issuer, leader,
          fleet, backend,   \* the deployment
          store,     \* the upstream_cas rows
          o,         \* the overlaps
          cache,     \* bundle, when it lapses, the issuing CA (aws-pca), retryAfter (gcp-cas)
          work,      \* the operation that holds refreshMu
          leaf,      \* the IssueSVID in progress
          valid,     \* until when a leaf of each CA, handed out by a replica since its start, is valid
          capped,    \* the CAs whose grace a replica cut to a row of before its start
          held,      \* when a running replica last had each CA from the issuer
          events

config == <<fleet, backend>>
vars == <<now, issuer, config, leader, store, o, cache, work, leaf, valid, capped,
          held, events>>

Idle == [pc |-> "idle", next |-> {}, sign |-> Nobody, ttl |-> 0, out |-> {}, asked |-> FALSE]
Down == [Idle EXCEPT !.pc = "down"]
NoCache == [bundle |-> {}, exp |-> 0, issuing |-> Nobody, retry |-> 0]
NoLeaf == [pc |-> "none", ca |-> Nobody, exp |-> 0]

Init ==
  /\ now = 1 /\ \E dep \in Deployments : fleet = dep[1] /\ backend = dep[2]
  /\ issuer \in {[pub |-> {c}, sign |-> c] : c \in CAs}
  /\ leader = Nobody /\ store = None
  /\ o = [r \in Replicas |-> newCAOverlap]
  /\ cache = [r \in Replicas |-> NoCache]
  /\ work = [r \in Replicas |-> Down]
  /\ leaf = [r \in Replicas |-> NoLeaf]
  /\ valid = [r \in Replicas |-> [c \in CAs |-> 0]]
  /\ capped = [r \in Replicas |-> {}]
  /\ held = [c \in CAs |-> 0]
  /\ events = 0

Event == events < MaxEvents /\ events' = events + 1
At(r, pc) == work[r].pc = pc
To(r, w) == work' = [work EXCEPT ![r] = w]
Overlaps == backend # "gcp-cas"
Up(r) == work[r].pc \in {"idle", "fetched", "save"}
Stores(r) == work[r].pc \in {"save", "attached"}
Leads(r) == leader = r \/ fleet = {r}

\* Every running replica has its current CAs in hand at time t.
Seen(ovl, w, t) ==
  [c \in CAs |-> IF \E r \in Replicas : w[r].pc # "down" /\ c \in ovl[r].current
                 THEN t ELSE held[c]]

(***************************************************************************)
(* Start: the constructor's first fetch, the distrust list, UseCAStore.      *)
(***************************************************************************)

\* --upstream-ca-distrust: the list is empty or names one CA.
Lists == {{}} \cup {{c} : c \in CAs}

UseCAStore(ovl) == attachStore(ovl, store, now)

\* The CAs an operator's list disowns: their leaves are no longer vouched for.
Disown(r, list) ==
  /\ valid' = [valid EXCEPT ![r] = [c \in CAs |-> IF c \in list THEN 0 ELSE @[c]]]
  /\ leaf' = [leaf EXCEPT ![r].exp = IF leaf[r].ca \in list THEN 0 ELSE @]

\* The first fetch of a constructor, then what the server does before it serves.
Boot(r) ==
  /\ r \in fleet /\ At(r, "down")
  /\ \E list \in IF Overlaps THEN Lists ELSE {{}} :
       /\ IF list = {} THEN UNCHANGED events ELSE Event
       /\ LET first == update(newCAOverlap, FALSE, None, issuer.pub, now)
          IN  o' = [o EXCEPT ![r] = IF Overlaps THEN UseCAStore(distrust(first, list, now)) ELSE @]
  /\ cache' = [cache EXCEPT ![r] = [bundle |-> issuer.pub, exp |-> now + BundleTTL,
                                    issuing |-> issuer.sign, retry |-> 0]]
  /\ To(r, IF Overlaps THEN [Idle EXCEPT !.pc = "attached", !.out = Served(o'[r])] ELSE Idle)
  /\ held' = Seen(o', work', now)
  /\ UNCHANGED <<now, issuer, config, leader, store, leaf, valid, capped>>

newVaultPKIAuthority(r) == backend = "vault-pki" /\ Boot(r)
newStepCAAuthority(r) == backend = "step-ca" /\ Boot(r)
newAWSPCAAuthority(r) == backend = "aws-pca" /\ Boot(r)
newGCPCASAuthority(r) == backend = "gcp-cas" /\ Boot(r)

New(r) ==
  \/ newVaultPKIAuthority(r) \/ newStepCAAuthority(r)
  \/ newAWSPCAAuthority(r) \/ newGCPCASAuthority(r)

Gone(r) ==
  /\ To(r, Down)
  /\ o' = [o EXCEPT ![r] = newCAOverlap]
  /\ cache' = [cache EXCEPT ![r] = NoCache]
  /\ leaf' = [leaf EXCEPT ![r] = NoLeaf]
  /\ valid' = [valid EXCEPT ![r] = [c \in CAs |-> 0]]
  /\ capped' = [capped EXCEPT ![r] = {}]
  /\ leader' = IF leader = r THEN Nobody ELSE leader

(***************************************************************************)
(* refreshBundle, for a lapsed cache (BundlePEM) or, asked, for a leaf the   *)
(* cached CAs do not explain (checkIssued of aws-pca, verifyLeaf of gcp-cas).*)
(***************************************************************************)

Due(r, asked) ==
  /\ At(r, "idle")
  /\ IF asked THEN leaf[r].pc = "retry" ELSE now >= cache[r].exp
  /\ Overlaps \/ now >= cache[r].retry

Fetch(r, asked) ==
  /\ Due(r, asked)
  /\ To(r, [Idle EXCEPT !.pc = IF Overlaps THEN "fetched" ELSE "save",
                        !.next = issuer.pub, !.sign = issuer.sign,
                        !.out = issuer.pub, !.ttl = BundleTTL, !.asked = asked])
  /\ UNCHANGED <<now, issuer, config, leader, store, o, cache, leaf, valid, held, events, capped>>

\* vault-pki and step-ca refresh only a lapsed bundle.
vaultRefreshBundle(r) == backend = "vault-pki" /\ Fetch(r, FALSE)
stepRefreshBundle(r) == backend = "step-ca" /\ Fetch(r, FALSE)
awsRefreshBundle(r, asked) == backend = "aws-pca" /\ Fetch(r, asked)
gcpRefreshBundle(r, asked) == backend = "gcp-cas" /\ Fetch(r, asked)

merge(r, have) ==
  /\ At(r, "fetched")
  /\ o' = [o EXCEPT ![r] = update(@, have, store, work[r].next, now)]
  /\ To(r, [work[r] EXCEPT !.pc = "save", !.out = Served(o'[r])])
  /\ held' = Seen(o', work', now)
  /\ capped' = [capped EXCEPT ![r] = @ \cup (DOMAIN o[r].cap \ work[r].next)]
  /\ UNCHANGED <<now, issuer, config, leader, store, cache, leaf, valid>>

loadStored(r) == merge(r, TRUE) /\ UNCHANGED events
loadStoredFails(r) == merge(r, FALSE) /\ Event

\* BundlePEM after a failed refresh: the last fetch is served again, without
\* the kept CAs whose time is up, and the next attempt is held back.
ServeStale(r) ==
  /\ Due(r, FALSE) /\ Event
  /\ o' = [o EXCEPT ![r] = serveLocked(@, now)]
  /\ To(r, [Idle EXCEPT !.pc = "save", !.out = Served(o'[r]), !.sign = cache[r].issuing,
                        !.ttl = Min({BundleTTL, Backoff})])
  /\ UNCHANGED <<now, issuer, config, leader, store, cache, leaf, valid, held, capped>>

vaultBundlePEM(r) == backend = "vault-pki" /\ (vaultRefreshBundle(r) \/ ServeStale(r))
stepBundlePEM(r) == backend = "step-ca" /\ (stepRefreshBundle(r) \/ ServeStale(r))
awsBundlePEM(r) == backend = "aws-pca" /\ (awsRefreshBundle(r, FALSE) \/ ServeStale(r))

\* gcp-cas holds back every refresh after a failed one.
refreshLocked(r, asked) ==
  /\ Due(r, asked) /\ Event
  /\ cache' = [cache EXCEPT ![r] = [@ EXCEPT !.retry = now + Backoff, !.exp = now + Backoff]]
  /\ leaf' = IF asked THEN [leaf EXCEPT ![r] = NoLeaf] ELSE leaf
  /\ UNCHANGED <<now, issuer, config, leader, store, o, work, valid, held, capped>>

gcpBundlePEM(r) == backend = "gcp-cas" /\ (gcpRefreshBundle(r, FALSE) \/ refreshLocked(r, FALSE))

Distrust(r) ==
  /\ At(r, "idle") /\ Event
  /\ \E list \in Lists \ {o[r].distrusted} :
       /\ o' = [o EXCEPT ![r] = distrust(@, list, now)]
       /\ Disown(r, list \cup o[r].distrusted)
       /\ IF list \cap DOMAIN o[r].retired = {}
          THEN UNCHANGED work
          ELSE To(r, [Idle EXCEPT !.pc = "save", !.out = Served(o'[r]), !.sign = cache[r].issuing])
  /\ UNCHANGED <<now, issuer, config, leader, store, cache, held, capped>>

vaultDistrustCAs(r) == backend = "vault-pki" /\ Distrust(r)
stepDistrustCAs(r) == backend = "step-ca" /\ Distrust(r)
awsDistrustCAs(r) == backend = "aws-pca" /\ Distrust(r)

DistrustCAs(r) == vaultDistrustCAs(r) \/ stepDistrustCAs(r) \/ awsDistrustCAs(r)

(***************************************************************************)
(* unlock's save, which the store refuses on a follower, and the cached      *)
(* bundle.  Distrust and UseCAStore replace the bundle and leave its expiry. *)
(***************************************************************************)

Install(r) ==
  LET w == work[r]
  IN  /\ cache' = [cache EXCEPT ![r] =
           [@ EXCEPT !.bundle = w.out,
                     !.exp = IF w.ttl = 0 THEN @ ELSE now + w.ttl,
                     !.issuing = IF w.sign = Nobody THEN @ ELSE w.sign]]
      /\ leaf' = [leaf EXCEPT ![r] = CASE ~w.asked -> @
                                       [] w.asked /\ Overlaps -> [@ EXCEPT !.pc = "again"]
                                       [] OTHER -> IF @.ca \in w.out
                                                   THEN [@ EXCEPT !.pc = "checked"] ELSE NoLeaf]
      /\ To(r, Idle)
      /\ UNCHANGED <<now, issuer, config, leader, valid, held, capped>>

save(r) ==
  /\ Stores(r)
  /\ IF o[r].dirty /\ Leads(r)
     THEN /\ store' = snapshotLocked(o[r], now)
          /\ o' = [o EXCEPT ![r].dirty = FALSE]
     ELSE UNCHANGED <<store, o>>
  /\ Install(r) /\ UNCHANGED events

saveFails(r) ==
  /\ Stores(r) /\ o[r].dirty /\ Leads(r) /\ Event
  /\ Install(r) /\ UNCHANGED <<store, o>>

(***************************************************************************)
(* IssueSVID: the issuer signs, then the backend checks the leaf.            *)
(***************************************************************************)

LeafTo(r, pc) == leaf' = [leaf EXCEPT ![r].pc = pc]
Refuse(r) == leaf' = [leaf EXCEPT ![r] = NoLeaf]
LeafStep == UNCHANGED <<now, issuer, config, leader, store, o, cache, work, held, events, capped>>

\* A leaf is checked against its own replica's cache, so leaves are followed
\* where there is one replica, one at a time.
Sign(r) ==
  /\ Up(r) /\ fleet = {r} /\ leaf[r] = NoLeaf
  /\ leaf' = [leaf EXCEPT ![r] = [pc |-> "signed", ca |-> issuer.sign, exp |-> now + Validity]]
  /\ UNCHANGED valid /\ LeafStep

Hand(r) ==
  /\ valid' = [valid EXCEPT ![r][leaf[r].ca] = Max({@, leaf[r].exp})]
  /\ Refuse(r)

\* vault-pki and step-ca: against the bundle, refreshed first if it lapsed.
checkUpstreamLeaf(r) ==
  /\ leaf[r].pc = "signed" /\ now < cache[r].exp
  /\ IF leaf[r].ca \in cache[r].bundle THEN Hand(r) ELSE Refuse(r) /\ UNCHANGED valid
  /\ LeafStep

\* aws-pca: against the issuing CA, with one refresh; then cachedBundle.
checkIssued(r) ==
  /\ CASE leaf[r].pc = "signed" ->
            LeafTo(r, IF leaf[r].ca = cache[r].issuing THEN "checked" ELSE "retry")
              /\ UNCHANGED valid
       [] leaf[r].pc = "again" ->
            (IF leaf[r].ca = cache[r].issuing THEN LeafTo(r, "checked") ELSE Refuse(r))
              /\ UNCHANGED valid
       [] leaf[r].pc = "checked" -> Hand(r)
       [] OTHER -> FALSE
  /\ LeafStep

checkIssuedFails(r) ==
  /\ Due(r, TRUE) /\ Event
  /\ Refuse(r)
  /\ UNCHANGED <<now, issuer, config, leader, store, o, cache, work, valid, held, capped>>

\* gcp-cas: against the bundle, with one refresh unless it is held back.
verifyLeaf(r) ==
  /\ CASE leaf[r].pc = "signed" /\ now < cache[r].exp ->
            IF leaf[r].ca \in cache[r].bundle THEN Hand(r) ELSE LeafTo(r, "retry") /\ UNCHANGED valid
       [] leaf[r].pc = "checked" -> Hand(r)
       [] leaf[r].pc = "retry" /\ now < cache[r].retry -> Refuse(r) /\ UNCHANGED valid
       [] OTHER -> FALSE
  /\ LeafStep

vaultIssueSVID(r) == backend = "vault-pki" /\ (Sign(r) \/ checkUpstreamLeaf(r))
stepIssueSVID(r) == backend = "step-ca" /\ (Sign(r) \/ checkUpstreamLeaf(r))
awsIssueSVID(r) ==
  /\ backend = "aws-pca"
  /\ Sign(r) \/ checkIssued(r) \/ awsRefreshBundle(r, TRUE) \/ checkIssuedFails(r)
gcpIssueSVID(r) ==
  /\ backend = "gcp-cas"
  /\ Sign(r) \/ verifyLeaf(r) \/ gcpRefreshBundle(r, TRUE) \/ refreshLocked(r, TRUE)

IssueSVID(r) == vaultIssueSVID(r) \/ stepIssueSVID(r) \/ awsIssueSVID(r) \/ gcpIssueSVID(r)

(***************************************************************************)
(* Time, the issuer, the election and crashes.                               *)
(***************************************************************************)

\* The calls an operation makes time out in seconds; a tick stands for
\* minutes, and none passes within an operation.
Tick ==
  /\ now < MaxTime /\ now' = now + 1
  /\ \A r \in Replicas : work[r].pc \in {"idle", "down"} /\ leaf[r] = NoLeaf
  /\ held' = Seen(o, work, now')
  /\ UNCHANGED <<issuer, config, leader, store, o, cache, work, leaf, valid, events, capped>>

IssuerChanges ==
  /\ \E pub \in SUBSET CAs \ {{}} : \E sign \in pub :
       issuer' = [pub |-> pub, sign |-> sign] /\ issuer' # issuer
  /\ Event
  /\ UNCHANGED <<now, config, leader, store, o, cache, work, leaf, valid, held, capped>>

Elect(r) ==
  /\ fleet # {r} /\ leader = Nobody /\ Up(r) /\ leader' = r
  /\ UNCHANGED <<now, issuer, config, store, o, cache, work, leaf, valid, held, events, capped>>

Crash(r) ==
  /\ ~At(r, "down") /\ Event
  /\ Gone(r)
  /\ UNCHANGED <<now, issuer, config, store, held>>

BundlePEM(r) ==
  \/ vaultBundlePEM(r) \/ stepBundlePEM(r) \/ awsBundlePEM(r) \/ gcpBundlePEM(r)
  \/ loadStored(r) \/ loadStoredFails(r)
  \/ save(r) \/ saveFails(r)

\* The bound on time ends a run.
Over == now = MaxTime /\ UNCHANGED vars

Next ==
  \/ Tick \/ IssuerChanges \/ Over
  \/ \E r \in Replicas :
       \/ New(r)
       \/ BundlePEM(r) \/ DistrustCAs(r) \/ IssueSVID(r)
       \/ Elect(r) \/ Crash(r)

Spec == Init /\ [][Next]_vars

(***************************************************************************)
(* Properties                                                                *)
(***************************************************************************)

\* The values the variables take.
UpstreamTypeOK ==
  /\ now \in 1..MaxTime /\ config \in Deployments /\ leader \in Replicas \cup {Nobody}
  /\ issuer.sign \in issuer.pub /\ issuer.pub \subseteq CAs
  /\ DOMAIN store \subseteq CAs
  /\ \A r \in Replicas :
       /\ o[r].current \subseteq CAs /\ o[r].distrusted \subseteq CAs
       /\ DOMAIN o[r].retired \subseteq CAs /\ o[r].current \cap DOMAIN o[r].retired = {}
       /\ cache[r].bundle \subseteq CAs
       /\ work[r].pc \in {"down", "attached", "idle", "fetched", "save"}
       /\ leaf[r].pc \in {"none", "signed", "retry", "again", "checked"}

\* Trust in a CA the issuer withdrew ends: no replica keeps it past the grace
\* counted from when any running replica last had it from the issuer, nor past
\* its own expiry, whatever was restored from rows, kept by other replicas or
\* kept again after a restart (ca_overlap.go, restoreCap and keptAt); and a
\* cached bundle has it at most one BundleTTL longer, the issuer unreachable or
\* not (BundlePEM re-serves the overlap, not the cached bytes).
TrustEnds ==
  \A r \in Replicas :
    /\ \A c \in DOMAIN o[r].retired :
         o[r].retired[c].until <= Min({held[c] + Grace, NotAfter[c]})
    /\ At(r, "idle") /\ Overlaps /\ now < cache[r].exp =>
         \A c \in cache[r].bundle \ o[r].current :
           c \in DOMAIN o[r].retired /\ now < o[r].retired[c].until + BundleTTL

\* Once DistrustCAs has returned, the bundle a replica serves has a distrusted
\* CA only while the issuer publishes it, and no refresh in flight, restored
\* row or other replica's row brings it back.
DistrustHolds ==
  \A r \in Replicas :
    At(r, "idle") => cache[r].bundle \cap o[r].distrusted \subseteq o[r].current

\* The kept-CA events handed to the audit hook explain the kept set: replaying
\* them gives the CAs that are kept, whichever path kept or dropped them.
EventsExplainKept ==
  \A r \in Replicas : o[r].told = DOMAIN o[r].retired

\* A leaf a replica handed out verifies against the bundle the replica serves
\* for as long as the leaf is valid, if the CA is not distrusted or expired:
\* this is what the grace is for.
LeafTrusted(r, c) ==
  Overlaps /\ now < Min({valid[r][c], NotAfter[c]}) /\ c \notin o[r].distrusted
    => c \in cache[r].bundle

\* So it is across the issuer's rotations, failed refreshes and store reads and
\* writes, except for a CA the issuer withdrew before the first refresh after a
\* start, whose grace the row stored before the start cuts short.
LiveLeafTrusted ==
  \A r \in Replicas : \A c \in CAs \ capped[r] : LeafTrusted(r, c)

\* "with --upstream-ca-grace set, Omega keeps a CA they stop publishing in its
\* served bundle for that long" (docs/adr/0019): no exception.
GraceAfterRestart ==
  \A r \in Replicas : \A c \in CAs : LeafTrusted(r, c)
=============================================================================
