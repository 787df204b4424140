---------------------------- MODULE TokenService --------------------------
(***************************************************************************)
(* The token endpoints of internal/server/api: POST /v1/svid/jwt,            *)
(* /v1/token/exchange, /v1/oidc/exchange and /oauth2/token (ID-JAG), with     *)
(* the DPoP and client-assertion replay caches and the identity provider's    *)
(* cached key set (internal/server/oidc/registry.go). Audiences, scopes and   *)
(* the wording of requests are left out; a tick is half a minute.             *)
(***************************************************************************)
EXTENDS SingleUse, Sequences, SequencesExt

CONSTANTS User, Upstream,    \* the rendered user, and its name at the provider
          Unbound,           \* a token without cnf
          Leeway,            \* clock leeway of token validation (30 s)
          DefaultTTL, MaxTTL,   \* defaultJWTTTL, maxJWTTTL
          MaxAssertionTTL,   \* --id-jag-max-assertion-ttl
          Quota,             \* maxAssertionsPerClient
          Cooldown,          \* jwksRefreshCooldown (30 s)
          Services,          \* deployments: the endpoints and bindings their clients
                             \* use, how many requests wait for the provider at
                             \* once, and how many tokens are issued
          TTLs, Lives,       \* requested TTLs, remaining lives of provider tokens
          MaxEvents

ASSUME TokenAssumption ==
  /\ {Leeway, DefaultTTL, MaxTTL, MaxAssertionTTL, Quota, Cooldown, MaxEvents} \subseteq Nat
  /\ TTLs \subseteq Nat /\ Lives \subseteq Nat
  /\ DefaultTTL \in 1 .. MaxTTL /\ Cooldown > 0 /\ Services # {}
  /\ Leeway < 2   \* less than the minute AssertionRetention adds

VARIABLES offers,     \* this deployment, one of Services
          issued,     \* tokens the clients hold
          audit,      \* grants on the audit chain
          assertions, \* clientAssertionReplay
          spent, respent,   \* assertions accepted, and one accepted twice
          idp,        \* the provider's published keys, and the newest
          jwks, lastRefresh,  \* idpClient
          call,       \* requests in flight that wait for the provider
          events

grants == <<issued, audit>>
clients == <<assertions, spent, respent>>
keys == <<jwks, lastRefresh>>
vars == <<dpopVars, offers, grants, clients, idp, keys, call, events>>

Resting == [pc |-> "done", kind |-> "none", kid |-> 0, exp |-> 0, jkt |-> Unbound,
            client |-> User, fetched |-> {}]

Never == 0 - Cooldown

\* Mutant of AssertionRetention: the leeway of validation is not covered.
AssertionRetentionBare == MaxAssertionTTL

AssertionRetention == MaxAssertionTTL + 2   \* plus one minute

Init ==
  /\ SingleUseInit
  /\ issued = {} /\ audit = {}
  /\ assertions = newReplayCache(AssertionRetention) /\ spent = {} /\ respent = FALSE
  /\ idp = [keys |-> {1}, newest |-> 1]
  /\ jwks = {} /\ lastRefresh = Never
  /\ offers \in Services
  /\ call = [q \in 1 .. offers.width |-> Resting]
  /\ events = 0

Calls == DOMAIN call

Event == events < MaxEvents /\ events' = events + 1

-----------------------------------------------------------------------------
(* Issuing (identity/jwt.go) *)

ttlOf(ttl) == IF ttl <= 0 THEN DefaultTTL ELSE IF ttl > MaxTTL THEN MaxTTL ELSE ttl

\* `until` is the end of the authority the token was derived from, `held` whether
\* that authority was bound to a key; neither is part of the token.
IssueJWTSVID(sub, act, ttl, cnf, via, until, held) ==
  [sub |-> sub, act |-> act, iat |-> now, exp |-> now + ttlOf(ttl), cnf |-> cnf,
   jti |-> Cardinality(issued), via |-> via, until |-> until, held |-> held]

\* ParseJWTSVIDClaims, and the provider's tokens.
Live(exp) == now <= exp + Leeway

\* Mutant of Capped: the leeway counts as remaining life.
CappedWithLeeway(ttl, exp) ==
  IF ttl <= 0 \/ ttl > exp + Leeway - now THEN exp + Leeway - now ELSE ttl

\* The cap at the remaining life of what is delegated.
Capped(ttl, exp) == IF ttl <= 0 \/ ttl > exp - now THEN exp - now ELSE ttl

\* s.audit logs a failed append and goes on; the token is answered either way.
Answer(t) ==
  /\ issued' = issued \cup {t}
  /\ \/ audit' = audit \cup {t} /\ UNCHANGED events
     \/ Event /\ UNCHANGED audit

MayIssue == Cardinality(issued) < offers.tokens

\* authenticate: under --require-auth the caller is whoever its verified client
\* certificate names, and a call without one is refused.
authenticate(caller) == caller \in Owners

\* A caller may only renew its own identity.
authorizeIssuance(caller, requested) == authenticate(caller) /\ caller = requested

\* BindCertThumbprint is the only binding a client can ask for here.
issueJWTSVID(caller, p, cnf, ttl) ==
  /\ "svid" \in offers.uses /\ MayIssue
  /\ authorizeIssuance(caller, p)
  /\ Answer(IssueJWTSVID(p, <<>>, ttl, cnf, "svid", now + ttlOf(ttl), cnf # Unbound))
  /\ UNCHANGED <<dpopVars, offers, clients, idp, keys, call>>

-----------------------------------------------------------------------------
(* Token exchange *)

\* checkPresentedBinding: the proof's key, or the connection's certificate.
checkPresentedBinding(t, jkt, cert) ==
  t.cnf \in {Unbound, <<"jkt", jkt>>, <<"x5t", cert>>}

KeyBound(t) == t.cnf # Unbound /\ t.cnf \in {"jkt"} \X Owners

\* dpopProofOnce: both tokens share one verification, made for the first that needs it.
NeedsProof(subject, actor, cert) ==
  KeyBound(subject) \/ (checkPresentedBinding(subject, Unbound, cert) /\ KeyBound(actor))

\* The chain, root first: flattenActChain of the act claim, then the requester.
flattenActChain(act) == Reverse(act)
Chain(t) == Append(flattenActChain(t.act), t.sub)

ExchangeCnf(subject, actor) ==
  IF actor.cnf = Unbound /\ actor.sub = subject.sub THEN subject.cnf ELSE actor.cnf

Exchanged(subject, actor, ttl) ==
  IssueJWTSVID(actor.sub, <<subject.sub>> \o subject.act, Capped(ttl, subject.exp),
               ExchangeCnf(subject, actor), "exchange", subject.until, subject.held)

Grants(subject, actor, jkt, cert, permit) ==
  /\ checkPresentedBinding(subject, jkt, cert) /\ checkPresentedBinding(actor, jkt, cert)
  /\ permit /\ subject.exp > now

\* A proof that is verified is used up, whether or not the request is granted.
tokenExchange(subject, actor, p, cert, ttl, permit) ==
  LET needs == NeedsProof(subject, actor, cert)
      jkt   == IF needs /\ Accepts(p) THEN p.jkt ELSE Unbound
  IN  /\ "exchange" \in offers.uses /\ MayIssue
      /\ Live(subject.exp) /\ Live(actor.exp)
      /\ IF needs /\ Presents(p) THEN Remember(p) ELSE UNCHANGED <<dpop, accepted, reused>>
      /\ IF Grants(subject, actor, jkt, cert, permit)
         THEN Answer(Exchanged(subject, actor, ttl))
         ELSE UNCHANGED <<grants, events>>
      /\ UNCHANGED <<now, offers, clients, idp, keys, call>>

-----------------------------------------------------------------------------
(* The provider's keys (oidc/registry.go) *)

At(q, pc) == call[q].pc = pc
To(q, pc) == call' = [call EXCEPT ![q].pc = pc]

\* Mutant of validate: a key that is not cached is refused without a refresh.
validateCached(q) ==
  /\ At(q, "validate")
  /\ To(q, IF call[q].kid \in jwks THEN "grant" ELSE "verify")
  /\ UNCHANGED <<dpopVars, offers, grants, clients, idp, keys, events>>

\* One snapshot serves both the lookup of the kid and the verification.
\* refreshJWKS is skipped during the cooldown, and the old set is read again.
validate(q) ==
  /\ At(q, "validate")
  /\ \/ call[q].kid \in jwks /\ To(q, "grant")
     \/ call[q].kid \notin jwks /\ now - lastRefresh < Cooldown /\ To(q, "verify")
     \/ call[q].kid \notin jwks /\ now - lastRefresh >= Cooldown /\ To(q, "fetch")
  /\ UNCHANGED <<dpopVars, offers, grants, clients, idp, keys, events>>

\* The request runs without the lock; discovery and the fetch may fail.
FetchJWKS(q) ==
  /\ At(q, "fetch")
  /\ \/ call' = [call EXCEPT ![q].pc = "store", ![q].fetched = idp.keys] /\ UNCHANGED events
     \/ Event /\ To(q, "refused")
  /\ UNCHANGED <<dpopVars, offers, grants, clients, idp, keys>>

refreshJWKS(q) ==
  /\ At(q, "store")
  /\ jwks' = call[q].fetched /\ lastRefresh' = now
  /\ call' = [call EXCEPT ![q].pc = "verify", ![q].fetched = {}]
  /\ UNCHANGED <<dpopVars, offers, grants, clients, idp, events>>

jwksSnapshot(q) ==
  /\ At(q, "verify")
  /\ To(q, IF call[q].kid \in jwks THEN "grant" ELSE "refused")
  /\ UNCHANGED <<dpopVars, offers, grants, clients, idp, keys, events>>

-----------------------------------------------------------------------------
(* POST /v1/oidc/exchange *)

\* A provider signs with one of the keys it publishes.
Begin(q, kind, exp, jkt, client) ==
  /\ At(q, "done") /\ kind \in offers.uses /\ MayIssue
  /\ \E kid \in idp.keys :
       call' = [call EXCEPT ![q] = [pc |-> "validate", kind |-> kind, kid |-> kid, exp |-> exp,
                                    jkt |-> jkt, client |-> client, fetched |-> {}]]

BeginOIDC(q, exp) ==
  /\ Begin(q, "oidc", exp, Unbound, User)
  /\ UNCHANGED <<dpopVars, offers, grants, clients, idp, keys, events>>

exchangeOIDC(q, ttl) ==
  LET c == call[q]
  IN  /\ At(q, "grant") /\ c.kind = "oidc" /\ MayIssue
      /\ IF c.exp > now
         THEN Answer(IssueJWTSVID(User, <<Upstream>>, Capped(ttl, c.exp), Unbound, "oidc", c.exp, FALSE))
         ELSE UNCHANGED <<grants, events>>
      /\ call' = [call EXCEPT ![q] = Resting]
      /\ UNCHANGED <<dpopVars, offers, clients, idp, keys>>

-----------------------------------------------------------------------------
(* POST /oauth2/token *)

\* A client assertion is the client's own token: no act, no cnf, a short life.
Assertion(t) == t.act = <<>> /\ t.cnf = Unbound /\ t.exp - t.iat <= MaxAssertionTTL /\ Live(t.exp)

AssertionVerdict(t) == Verdict(assertions, <<t.sub, t.jti>>, now, Quota)

\* A verified client certificate, or a single-use assertion.
authenticateCert(q, client, exp, jkt) ==
  /\ Begin(q, "idjag", exp, jkt, client)
  /\ UNCHANGED <<dpopVars, offers, grants, clients, idp, keys, events>>

authenticateAssertion(q, t, exp, jkt) ==
  /\ At(q, "done") /\ "idjag" \in offers.uses /\ Assertion(t)
  /\ assertions' = firstUseBy(assertions, <<t.sub, t.jti>>, now, Quota)
  /\ IF AssertionVerdict(t) = "first"
     THEN /\ Begin(q, "idjag", exp, jkt, t.sub)
          /\ spent' = spent \cup {t} /\ respent' = (respent \/ t \in spent)
     ELSE UNCHANGED <<call, spent, respent>>
  /\ UNCHANGED <<dpopVars, offers, grants, idp, keys, events>>

\* Any proof sent is verified; a bound assertion needs one for its key. The
\* token is released only once its grant is on the audit chain.
oauthToken(q, p, sends, permit) ==
  LET c     == call[q]
      jkt   == IF sends /\ Accepts(p) THEN <<"jkt", p.jkt>> ELSE Unbound
      bound == IF sends THEN jkt # Unbound /\ c.jkt \in {Unbound, jkt} ELSE c.jkt = Unbound
      t     == IssueJWTSVID(c.client, <<User>>, c.exp - now, jkt, "idjag", c.exp, jkt # Unbound)
  IN  /\ At(q, "grant") /\ c.kind = "idjag" /\ MayIssue /\ Live(c.exp)
      /\ IF sends /\ Presents(p) THEN Remember(p) ELSE UNCHANGED <<dpop, accepted, reused>>
      /\ IF bound /\ permit /\ c.exp > now
         THEN \/ audit' = audit \cup {t} /\ issued' = issued \cup {t} /\ UNCHANGED events
              \/ Event /\ UNCHANGED grants
         ELSE UNCHANGED <<grants, events>>
      /\ call' = [call EXCEPT ![q] = Resting]
      /\ UNCHANGED <<now, offers, clients, idp, keys>>

\* An expired assertion or a refused one answers and audits a deny.
Refuse(q) ==
  /\ \/ At(q, "refused")
     \/ At(q, "grant") /\ (~Live(call[q].exp) \/ ~MayIssue)
  /\ call' = [call EXCEPT ![q] = Resting]
  /\ UNCHANGED <<dpopVars, offers, grants, clients, idp, keys, events>>

-----------------------------------------------------------------------------
(* The surroundings *)

IdPRotates ==
  /\ Event
  /\ \E old \in SUBSET idp.keys :
       idp' = [keys |-> old \cup {idp.newest + 1}, newest |-> idp.newest + 1]
  /\ UNCHANGED <<dpopVars, offers, grants, clients, keys, call>>

\* A request takes less than a tick.
Passes ==
  /\ \A q \in Calls : At(q, "done")
  /\ Tick
  /\ UNCHANGED <<offers, grants, clients, idp, keys, call, events>>

Restarts ==
  /\ Event /\ Restart
  /\ assertions' = newReplayCache(AssertionRetention) /\ spent' = {} /\ UNCHANGED respent
  /\ jwks' = {} /\ lastRefresh' = Never
  /\ call' = [q \in Calls |-> Resting]
  /\ UNCHANGED <<offers, grants, idp>>

Over == now = MaxTime /\ UNCHANGED vars

Expiries == {now + n : n \in Lives}
Certs == {Unbound} \cup {c \in {"x5t"} \X Owners : "x5t" \in offers.uses}
Keyed == {Unbound} \cup {k \in {<<"jkt", p.jkt>> : p \in Proofs} : "dpop" \in offers.uses}

Next ==
  \/ \E caller \in Owners \cup {Unbound}, p \in Owners, ttl \in TTLs, cnf \in Certs :
       issueJWTSVID(caller, p, cnf, ttl)
  \/ \E s, a \in issued, p \in Proofs, cert \in Owners, ttl \in TTLs, permit \in BOOLEAN :
       tokenExchange(s, a, p, cert, ttl, permit)
  \/ \E q \in Calls :
       \/ validate(q) \/ FetchJWKS(q) \/ refreshJWKS(q) \/ jwksSnapshot(q) \/ Refuse(q)
       \/ \E e \in Expiries : BeginOIDC(q, e)
       \/ \E ttl \in TTLs : exchangeOIDC(q, ttl)
       \/ \E e \in Expiries, c \in Owners, jkt \in Keyed : authenticateCert(q, c, e, jkt)
       \/ \E e \in Expiries, t \in issued, jkt \in Keyed : authenticateAssertion(q, t, e, jkt)
       \/ \E p \in Proofs, sends \in {FALSE, "dpop" \in offers.uses}, permit \in BOOLEAN :
            oauthToken(q, p, sends, permit)
  \/ IdPRotates \/ Passes \/ Restarts \/ Over

Spec == Init /\ [][Next]_vars

-----------------------------------------------------------------------------
(* The server's state stays in its types. *)
TokenTypeOK ==
  /\ now \in 0 .. MaxTime
  /\ \A t \in issued : t.cnf \in {Unbound} \cup ({"jkt", "x5t"} \X Owners) /\ t.exp > t.iat
  /\ jwks \subseteq 1 .. idp.newest /\ idp.keys \subseteq 1 .. idp.newest
  /\ \A q \in Calls : call[q].pc \in {"done", "validate", "fetch", "store", "verify", "grant", "refused"}

(* A delegated token never outlives the authority it comes from, however many   *)
(* exchanges lie between them and although validation grants an expired token   *)
(* half a minute's leeway.                                                      *)
NeverOutlives == \A t \in issued : t.exp <= t.until

(* Exchanging a bound token with oneself any number of times never yields an    *)
(* unbound one ("a key holder cannot unbind a token by exchanging it with       *)
(* itself").                                                                    *)
BindingKept ==
  \A t \in issued :
    t.held /\ (\A i \in 1 .. Len(Chain(t)) - (IF t.via = "idjag" THEN 1 ELSE 0) :
                 Chain(t)[i] = t.sub)
      => t.cnf # Unbound

(* No process accepts the same client assertion twice, with the provider's and   *)
(* the clients' requests in flight at every rotation of the cache.               *)
AssertionUsedOnce == ~respent

(* The per-client counters are exactly the entries the two generations hold, so  *)
(* no client is held to a quota it has not used and none exceeds it.             *)
QuotaExact ==
  \A o \in Owners :
    LET n == assertions.curOwner[o] + assertions.prevOwner[o]
    IN  /\ n = Cardinality({e \in assertions.cur : e[1] = o})
               + Cardinality({e \in assertions.prev : e[1] = o})
        /\ n <= Quota

(* Every ID-JAG token a client holds is on the audit chain: the token is         *)
(* released only once its grant is recorded.                                     *)
GrantsRecorded == \A t \in issued : t.via = "idjag" => t \in audit

(* A token signed with a key the provider publishes is refused as unknown only   *)
(* while a refresh no older than the cooldown is in the cache, even when         *)
(* concurrent fetches overwrite one another's answers.                           *)
RefusalExplained ==
  [][\A q \in Calls :
       At(q, "verify") /\ call'[q].pc = "refused" /\ call[q].kid \in idp.keys
         => now - lastRefresh < Cooldown]_vars
=============================================================================
