------------------------- MODULE TrustDistribution ------------------------
(***************************************************************************)
(* How trust reaches those who verify: the control plane's CA state, the      *)
(* registry it serves to agents (internal/server/federation), a peer control  *)
(* plane that polls it, and the agents' Workload API                          *)
(* (internal/agent/workloadapi) with its SVID and JWKS caches.                *)
(*                                                                         *)
(* A bundle is the sequence of CAs the server trusts, the signing one first   *)
(* (newCAState); `ver` counts the reloads, and everything read from the        *)
(* server carries the count it was read at. The operator rotates as           *)
(* docs/ca-rotation.md says: the next step waits for every reader.            *)
(***************************************************************************)
EXTENDS Naturals, Sequences, FiniteSets

CONSTANTS Agents,      \* agents, each with one workload
          MaxCA,       \* CAs ever made
          MaxCerts,    \* X.509-SVIDs ever issued
          MaxFaults,   \* requests that fail
          Deployments, \* which readers a deployment has: "peer" and kinds of calls
          Nothing      \* nothing cached, held or received

ASSUME DistributionAssumption ==
  /\ MaxCA \in Nat \ {0} /\ MaxCerts \in Nat \ {0} /\ MaxFaults \in Nat
  /\ Deployments \subseteq SUBSET {"peer", "x509", "bundles", "jwt", "jwks"}
  /\ Nothing \notin [trusted : Seq(Nat), ver : Nat]

VARIABLES
  uses,    \* the readers of this deployment
  ca,      \* the CAs of the authority, the signing one first
  made,    \* CAs made so far
  ver,     \* reloads so far
  own,     \* the registry's ownBundle
  tdf,     \* whether the server has /v1/spiffe-bundle
  poll,    \* the peer's fetch: its step and the response read
  peer,    \* the peer's copy of the bundle
  cache,   \* per agent: the cached X.509-SVID
  jwks,    \* per agent: the cached JWKS, while it is fresh
  call,    \* per agent and kind of call: its step and what it has read
  held,    \* per agent: the X.509-SVID its workload presents
  trusts,  \* per agent: the CAs its workload verifies peers against
  certs,   \* X.509-SVIDs issued so far
  aged,    \* X.509-SVIDs past the middle of their validity
  svids,   \* X.509-SVIDs that are still valid
  tokens,  \* signers of the JWT-SVIDs that are still valid
  faults

server == <<uses, ca, made, ver, own, tdf>>
fetch  == <<poll, peer>>
agent  == <<cache, jwks, call, held, trusts>>
creds  == <<certs, aged, svids, tokens>>
vars   == <<server, fetch, agent, creds, faults>>

Kinds == {"x509", "jwt", "jwks"}

Bundle == [trusted |-> ca, ver |-> ver]

Trusted(b) == {b.trusted[i] : i \in 1..Len(b.trusted)}

At(pc, with) == [pc |-> pc, with |-> with]

Idle == At("idle", Nothing)

Init ==
  /\ uses \in Deployments
  /\ ca = <<1>> /\ made = 1 /\ ver = 0
  /\ own = [trusted |-> <<1>>, ver |-> 0]
  /\ tdf \in BOOLEAN
  /\ poll = Idle /\ peer = Nothing
  /\ cache = [a \in Agents |-> Nothing]
  /\ jwks = [a \in Agents |-> Nothing]
  /\ call = [a \in Agents |-> [k \in Kinds |-> Idle]]
  /\ held = [a \in Agents |-> Nothing]
  /\ trusts = [a \in Agents |-> Nothing]
  /\ certs = 0 /\ aged = {} /\ svids = {} /\ tokens = {}
  /\ faults = 0

Fault == faults < MaxFaults /\ faults' = faults + 1

-----------------------------------------------------------------------------
(* The operator and the control plane.                                       *)

\* Everything that was read, or is being read, is of the last reload.
Read(x) == IF x = Nothing THEN TRUE ELSE x.ver = ver

Settled ==
  /\ own.ver = ver
  /\ Read(peer) /\ Read(poll.with)
  /\ \A a \in Agents :
       /\ Read(held[a]) /\ Read(trusts[a]) /\ Read(cache[a]) /\ Read(jwks[a])
       /\ \A k \in Kinds : Read(call[a][k].with)

\* Nothing that is still valid was signed by c.
Expired(c) == c \notin tokens /\ \A x \in svids : x.ca # c

\* prepare, activate or retire, and the SIGHUP that makes the server reload:
\* the new CA is trusted second, then it signs, then the old one goes.
ReloadCA ==
  /\ Settled
  /\ \/ Len(ca) = 1 /\ made < MaxCA
        /\ ca' = Append(ca, made + 1) /\ made' = made + 1
     \/ Len(ca) = 2 /\ ca[1] < ca[2]
        /\ ca' = <<ca[2], ca[1]>> /\ UNCHANGED made
     \/ Len(ca) = 2 /\ ca[1] > ca[2] /\ Expired(ca[2])
        /\ ca' = <<ca[1]>> /\ UNCHANGED made
  /\ ver' = ver + 1
  /\ UNCHANGED <<uses, own, tdf, fetch, agent, creds, faults>>

\* The rest of the SIGHUP branch: the registry's snapshot follows.
SetOwnBundle ==
  /\ own.ver # ver
  /\ own' = Bundle
  /\ UNCHANGED <<uses, ca, made, ver, tdf, fetch, agent, creds, faults>>

-----------------------------------------------------------------------------
(* The peer's registry.                                                      *)

\* fetchTDF: the whole document, or, from a server without the endpoint, the
\* turn to the PEM endpoint.
fetchTDF ==
  /\ "peer" \in uses /\ poll.pc = "idle"
  /\ poll' = IF tdf THEN At("read", Bundle) ELSE At("pem", Nothing)
  /\ UNCHANGED <<server, peer, agent, creds, faults>>

\* Mutant of fetchPEM: only the first certificate of the answer is kept.
fetchPEMFirst ==
  /\ poll.pc = "pem"
  /\ poll' = At("read", [Bundle EXCEPT !.trusted = <<ca[1]>>])
  /\ UNCHANGED <<server, peer, agent, creds, faults>>

\* fetchPEM: /v1/bundle, every certificate of it.
fetchPEM ==
  /\ poll.pc = "pem"
  /\ poll' = At("read", Bundle)
  /\ UNCHANGED <<server, peer, agent, creds, faults>>

\* Mutant of fetchPeer: an error ends the peer's loop.
fetchPeerStops ==
  /\ poll.pc # "idle"
  /\ Fault
  /\ poll' = At("stopped", Nothing)
  /\ UNCHANGED <<server, peer, agent, creds>>

\* fetchPeer fails: refreshOne returns and the copy stays as it is.
fetchPeer ==
  /\ poll.pc # "idle"
  /\ Fault
  /\ poll' = Idle
  /\ UNCHANGED <<server, peer, agent, creds>>

\* refreshOne stores what fetchPeer read.
refreshOne ==
  /\ poll.pc = "read"
  /\ peer' = poll.with
  /\ poll' = Idle
  /\ UNCHANGED <<server, agent, creds, faults>>

\* runPeer: the loop polls for ever, whatever the last attempt did.
runPeer == fetchTDF \/ fetchPEM \/ refreshOne

-----------------------------------------------------------------------------
(* The Workload API of an agent.                                             *)

Go(a, k, pc, with) == call' = [call EXCEPT ![a][k] = At(pc, with)]

stale(e) == IF e = Nothing THEN TRUE ELSE e.cert \in aged

\* Only the first certificate of a bundle is decoded.
pemToDER(b) == [cas |-> {b.trusted[1]}, ver |-> b.ver]

\* issueSVID: the authority signs with its first CA and answers with the
\* bundle of the same state.
issueSVID(a, k) ==
  /\ call[a][k].pc = "ask"
  /\ certs < MaxCerts
  /\ certs' = certs + 1
  /\ svids' = svids \cup {[cert |-> certs + 1, ca |-> ca[1]]}
  /\ Go(a, k, "issued",
        [cert |-> certs + 1, ca |-> ca[1], bundle |-> pemToDER(Bundle).cas, ver |-> ver])
  /\ UNCHANGED <<server, fetch, cache, jwks, held, trusts, aged, tokens, faults>>

\* FetchX509SVID sends the entry: the workload presents it and trusts its bundle.
Send(a, e) ==
  /\ held' = [held EXCEPT ![a] = e]
  /\ trusts' = [trusts EXCEPT ![a] = [cas |-> e.bundle, ver |-> e.ver]]

\* The first half of getOrRefresh, for a stream that opens or whose SVID is
\* due: a fresh cached entry is sent, anything else is asked for.
FetchX509SVID(a) ==
  /\ "x509" \in uses /\ call[a]["x509"].pc = "idle"
  /\ stale(held[a])
  /\ IF stale(cache[a])
     THEN Go(a, "x509", "ask", Nothing) /\ UNCHANGED <<held, trusts>>
     ELSE Send(a, cache[a]) /\ UNCHANGED call
  /\ UNCHANGED <<server, fetch, cache, jwks, creds, faults>>

\* FetchJWTSVID up to its own request: the SVID the token will be bound to.
FetchJWTSVID(a) ==
  /\ "jwt" \in uses /\ call[a]["jwt"].pc = "idle"
  /\ IF stale(cache[a])
     THEN Go(a, "jwt", "ask", Nothing)
     ELSE Go(a, "jwt", "bind", cache[a])
  /\ UNCHANGED <<server, fetch, cache, jwks, held, trusts, creds, faults>>

\* The second half of getOrRefresh: the last writer's entry stays cached, and
\* each caller goes on with its own.
getOrRefresh(a, k) ==
  /\ call[a][k].pc = "issued"
  /\ cache' = [cache EXCEPT ![a] = call[a][k].with]
  /\ IF k = "x509"
     THEN Send(a, call[a][k].with) /\ Go(a, k, "idle", Nothing)
     ELSE Go(a, k, "bind", call[a][k].with) /\ UNCHANGED <<held, trusts>>
  /\ UNCHANGED <<server, fetch, jwks, creds, faults>>

\* issueJWTSVID: a token of the signing CA, bound to the entry's certificate.
issueJWTSVID(a) ==
  /\ call[a]["jwt"].pc = "bind"
  /\ tokens' = tokens \cup {ca[1]}
  /\ Go(a, "jwt", "idle", Nothing)
  /\ UNCHANGED <<server, fetch, cache, jwks, held, trusts, certs, aged, svids, faults>>

\* The registry's snapshot, and the live bundle of a server without a registry.
fetchFederationBundles == pemToDER(own)
fetchBundle == pemToDER(Bundle)

FetchX509Bundles(a) ==
  /\ "bundles" \in uses
  /\ \E b \in {fetchFederationBundles, fetchBundle} : trusts' = [trusts EXCEPT ![a] = b]
  /\ UNCHANGED <<server, fetch, cache, jwks, call, held, creds, faults>>

\* Mutant of fetchJWTBundle: a JWKS of the signing key alone.
fetchJWTBundleActive(a) ==
  /\ "jwks" \in uses /\ call[a]["jwks"].pc = "idle"
  /\ jwks[a] = Nothing
  /\ Go(a, "jwks", "read", [Bundle EXCEPT !.trusted = <<ca[1]>>])
  /\ UNCHANGED <<server, fetch, cache, jwks, held, trusts, creds, faults>>

\* cachedJWKS on a miss: the JWKS names every CA of the bundle ...
fetchJWTBundle(a) ==
  /\ "jwks" \in uses /\ call[a]["jwks"].pc = "idle"
  /\ jwks[a] = Nothing
  /\ Go(a, "jwks", "read", Bundle)
  /\ UNCHANGED <<server, fetch, cache, jwks, held, trusts, creds, faults>>

\* ... and is cached from the time it is stored.
cachedJWKS(a) ==
  /\ call[a]["jwks"].pc = "read"
  /\ jwks' = [jwks EXCEPT ![a] = call[a]["jwks"].with]
  /\ Go(a, "jwks", "idle", Nothing)
  /\ UNCHANGED <<server, fetch, cache, held, trusts, creds, faults>>

\* validateAgainstJWKS: whether agent a, asked now, accepts the token.
validateAgainstJWKS(a, t) ==
  t \in Trusted(IF jwks[a] = Nothing THEN Bundle ELSE jwks[a])

\* The control plane cannot be reached or refuses: the call ends in an error.
CallFails(a, k) ==
  /\ call[a][k].pc # "idle"
  /\ Fault
  /\ Go(a, k, "idle", Nothing)
  /\ UNCHANGED <<server, fetch, cache, jwks, held, trusts, creds>>

-----------------------------------------------------------------------------
(* Time.                                                                     *)

\* An X.509-SVID passes its middle, a JWKS its minute, a credential its end.
refreshAt(c) ==
  /\ c \in 1..certs \ aged
  /\ aged' = aged \cup {c}
  /\ UNCHANGED <<server, fetch, agent, certs, svids, tokens, faults>>

Lapse(a) ==
  /\ jwks[a] # Nothing
  /\ jwks' = [jwks EXCEPT ![a] = Nothing]
  /\ UNCHANGED <<server, fetch, cache, call, held, trusts, creds, faults>>

Expire ==
  /\ \/ \E x \in svids : x.cert \in aged /\ svids' = svids \ {x} /\ UNCHANGED tokens
     \/ \E t \in tokens : tokens' = tokens \ {t} /\ UNCHANGED svids
  /\ UNCHANGED <<server, fetch, agent, certs, aged, faults>>

Serve(a) ==
  \/ \E k \in {"x509", "jwt"} : issueSVID(a, k) \/ getOrRefresh(a, k)
  \/ FetchX509SVID(a) \/ FetchJWTSVID(a) \/ issueJWTSVID(a)
  \/ FetchX509Bundles(a)
  \/ fetchJWTBundle(a) \/ cachedJWKS(a)

Next ==
  \/ ReloadCA \/ SetOwnBundle
  \/ runPeer \/ fetchPeer
  \/ \E a \in Agents :
       Serve(a) \/ Lapse(a) \/ \E k \in Kinds : CallFails(a, k)
  \/ \E c \in 1..certs : refreshAt(c)
  \/ Expire

Spec == Init /\ [][Next]_vars

\* The registry's loop and the SIGHUP branch keep running.
FairSpec == Spec /\ WF_vars(runPeer) /\ WF_vars(SetOwnBundle)
-----------------------------------------------------------------------------
(* Properties.                                                               *)

Bundles == [trusted : Seq(1..MaxCA), ver : 0..3 * MaxCA]

SVIDs == [cert : 1..MaxCerts, ca : 1..MaxCA, bundle : SUBSET (1..MaxCA), ver : 0..3 * MaxCA]

DistributionTypeOK ==
  /\ ca \in Seq(1..made) /\ made \in 1..MaxCA /\ ver \in 0..3 * MaxCA
  /\ own \in Bundles /\ peer \in Bundles \cup {Nothing}
  /\ cache \in [Agents -> SVIDs \cup {Nothing}]
  /\ held \in [Agents -> SVIDs \cup {Nothing}]
  /\ jwks \in [Agents -> Bundles \cup {Nothing}]
  /\ certs \in 0..MaxCerts /\ aged \subseteq 1..certs
  /\ faults \in 0..MaxFaults

(* A JWT-SVID that is still valid verifies at every agent, through its JWKS   *)
(* cache and for a caller that is still waiting for the JWKS, at every step   *)
(* of a rotation done as documented: keys are published before they sign, and *)
(* a cached set never lacks the key of a live token.                          *)
TokensVerify ==
  \A t \in tokens, a \in Agents :
    /\ validateAgainstJWKS(a, t)
    /\ call[a]["jwks"].pc = "read" => t \in Trusted(call[a]["jwks"].with)

(* The peer's copy of the bundle, however it was fetched, has the signer of   *)
(* every X.509-SVID that is still valid.                                      *)
PeerTrusts == peer # Nothing => \A x \in svids : x.ca \in Trusted(peer)

(* A workload that refreshed its bundle between the steps trusts the signer   *)
(* of every X.509-SVID that is still valid: what docs/ca-rotation.md promises *)
(* of rotation. The agent hands on only the first certificate of a bundle.    *)
WorkloadTrusts ==
  \A a \in Agents :
    trusts[a] # Nothing /\ trusts[a].ver = ver => \A x \in svids : x.ca \in trusts[a].cas

(* A JWT-SVID is bound to the X.509-SVID the workload presents, as            *)
(* FetchJWTSVID says, unless the workload has none or is about to get another.*)
TokenBoundToHeld ==
  [][\A a \in Agents :
       issueJWTSVID(a) /\ call[a]["x509"].pc = "idle" /\ ~stale(held[a])
       => call[a]["jwt"].with.cert = held[a].cert]_vars

(* Whatever polls fail, the peer's copy catches up with the last reload.      *)
PeerCatchesUp == "peer" \in uses => []<>(peer # Nothing /\ peer.ver = ver)
=============================================================================
