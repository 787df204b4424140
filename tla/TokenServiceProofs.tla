------------------------- MODULE TokenServiceProofs -------------------------
(***************************************************************************)
(* Proofs about the token endpoints, for every window, cache, lifetime,    *)
(* leeway and set of clients and proofs: proofs and assertions are used    *)
(* once, tokens do not outlive their origin, refusals have a reason.       *)
(***************************************************************************)
EXTENDS TokenService, TLAPS

CacheTypes ==
  /\ now \in Nat
  /\ dpop \in [cur : SUBSET (Owners \X Nat), prev : SUBSET (Owners \X Nat), rotated : Int,
               retention : {2 * Window}, curOwner : [Owners -> Int], prevOwner : [Owners -> Int]]
  /\ DOMAIN accepted \subseteq Proofs
  /\ \A p \in DOMAIN accepted : accepted[p] \in Int

\* An accepted proof that could still be presented is in the young generation,
\* recorded within a retention of its start, or in the old one, recorded before
\* the young one's start: either way the rotation that forgets it comes later
\* than its window.
Covered(p) ==
  \/ now > p.iat + Window
  \/ /\ Entry(p) \in dpop.cur
     /\ accepted[p] < dpop.rotated + 2 * Window
  \/ /\ Entry(p) \in dpop.prev
     /\ accepted[p] < dpop.rotated

Remembered ==
  \A p \in DOMAIN accepted : accepted[p] >= p.iat - Window /\ Covered(p)

SingleUseInv ==
  /\ CacheTypes
  /\ dpop.rotated <= now
  /\ Remembered
  /\ ~reused

\* The start of a process satisfies the invariant: nothing was accepted yet.
LEMMA EmptyCache ==
  ASSUME now \in Nat, dpop = newReplayCache(2 * Window), accepted = [p \in {} |-> 0], ~reused
  PROVE  SingleUseInv
<1>1. Window \in Nat /\ Window # 0
  BY SingleUseAssumption
<1>2. dpop = [cur |-> {}, prev |-> {}, rotated |-> 0 - 2 * Window, retention |-> 2 * Window,
              curOwner |-> [o \in Owners |-> 0], prevOwner |-> [o \in Owners |-> 0]]
  BY DEF newReplayCache
<1>3. DOMAIN accepted = {}
  OBVIOUS
<1>4. CacheTypes
  BY <1>1, <1>2, <1>3 DEF CacheTypes
<1>5. dpop.rotated <= now
  BY <1>1, <1>2
<1>6. QED
  BY <1>3, <1>4, <1>5 DEF SingleUseInv, Remembered

\* What a rotation that is due keeps: the young generation, as the old one.
LEMMA RotatedFacts ==
  ASSUME SingleUseInv
  PROVE  LET r == Rotated(dpop, now)
         IN  /\ r \in [cur : SUBSET (Owners \X Nat), prev : SUBSET (Owners \X Nat), rotated : Int,
                       retention : {2 * Window}, curOwner : [Owners -> Int],
                       prevOwner : [Owners -> Int]]
             /\ r.rotated <= now
             /\ now < r.rotated + 2 * Window
             /\ \A p \in DOMAIN accepted :
                  \/ now > p.iat + Window
                  \/ Entry(p) \in r.cur /\ accepted[p] < r.rotated + 2 * Window
                  \/ Entry(p) \in r.prev /\ accepted[p] < r.rotated
<1> DEFINE r == Rotated(dpop, now)
<1>1. Window \in Nat /\ Window # 0 /\ \A p \in Proofs : p.iat \in Int
  BY SingleUseAssumption
<1>2. CASE now - dpop.rotated >= dpop.retention
  <2>1. r = [cur |-> {}, prev |-> dpop.cur, rotated |-> now, retention |-> dpop.retention,
            curOwner |-> [o \in Owners |-> 0], prevOwner |-> dpop.curOwner]
    BY <1>2 DEF Rotated
  <2>2. r \in [cur : SUBSET (Owners \X Nat), prev : SUBSET (Owners \X Nat), rotated : Int,
               retention : {2 * Window}, curOwner : [Owners -> Int], prevOwner : [Owners -> Int]]
    BY <2>1 DEF SingleUseInv, CacheTypes
  <2>3. r.rotated = now /\ r.prev = dpop.cur
    BY <2>1 DEF SingleUseInv, CacheTypes
  <2>4. ASSUME NEW p \in DOMAIN accepted, ~(now > p.iat + Window)
        PROVE  Entry(p) \in r.prev /\ accepted[p] < r.rotated
    <3>1. accepted[p] >= p.iat - Window /\ Covered(p) /\ p.iat \in Int /\ accepted[p] \in Int
      BY <1>1 DEF SingleUseInv, Remembered, CacheTypes
    <3>2. dpop.retention = 2 * Window /\ dpop.rotated \in Int /\ now \in Nat
      BY DEF SingleUseInv, CacheTypes
    <3>3. ~(accepted[p] < dpop.rotated)
      BY <1>1, <1>2, <2>4, <3>1, <3>2
    <3>4. Entry(p) \in dpop.cur /\ accepted[p] < dpop.rotated + 2 * Window
      BY <2>4, <3>1, <3>3 DEF Covered
    <3>5. QED
      BY <1>1, <1>2, <2>3, <3>1, <3>2, <3>4
  <2>5. QED
    BY <1>1, <2>2, <2>3, <2>4 DEF SingleUseInv, CacheTypes
<1>3. CASE ~(now - dpop.rotated >= dpop.retention)
  <2>1. r = dpop
    BY <1>3 DEF Rotated
  <2>2. now < dpop.rotated + 2 * Window
    BY <1>1, <1>3 DEF SingleUseInv, CacheTypes
  <2>3. QED
    BY <2>1, <2>2 DEF SingleUseInv, CacheTypes, Remembered, Covered
<1>4. QED
  BY <1>2, <1>3

\* Presenting a proof keeps the invariant: one that was accepted before and is
\* still in its window is found in one of the two generations.
LEMMA PresentKeeps ==
  ASSUME SingleUseInv, NEW p \in Proofs, verifyDPoPProof(p)
  PROVE  SingleUseInv'
<1> DEFINE r == Rotated(dpop, now)
<1> DEFINE c == firstUseBy(dpop, Entry(p), now, 0)
<1>1. Window \in Nat /\ Window # 0 /\ p.jkt \in Owners /\ p.jti \in Nat /\ p.iat \in Int
      /\ \A q \in Proofs : q.iat \in Int
  BY SingleUseAssumption
<1>2. /\ r \in [cur : SUBSET (Owners \X Nat), prev : SUBSET (Owners \X Nat), rotated : Int,
                retention : {2 * Window}, curOwner : [Owners -> Int], prevOwner : [Owners -> Int]]
      /\ r.rotated <= now
      /\ now < r.rotated + 2 * Window
      /\ \A q \in DOMAIN accepted :
           \/ now > q.iat + Window
           \/ Entry(q) \in r.cur /\ accepted[q] < r.rotated + 2 * Window
           \/ Entry(q) \in r.prev /\ accepted[q] < r.rotated
  BY RotatedFacts
<1>3. now' = now /\ dpop' = c /\ InWindow(p, now) /\ now \in Nat
  BY DEF verifyDPoPProof, Remember, Presents, SingleUseInv, CacheTypes
<1>4. CASE ~Accepts(p)
  <2>1. Verdict(dpop, Entry(p), now, 0) # "first"
    BY <1>3, <1>4 DEF Accepts, Presents
  <2>2. c = r /\ UNCHANGED <<accepted, reused>>
    BY <1>4, <2>1 DEF firstUseBy, verifyDPoPProof, Remember
  <2>3. QED
    BY <1>2, <1>3, <2>2 DEF SingleUseInv, CacheTypes, Remembered, Covered, Entry
<1>5. CASE Accepts(p)
  <2>1. Verdict(dpop, Entry(p), now, 0) = "first"
    BY <1>5 DEF Accepts
  <2>2. c = [cur |-> r.cur \cup {Entry(p)}, prev |-> r.prev, rotated |-> r.rotated,
            retention |-> r.retention, prevOwner |-> r.prevOwner, curOwner |-> r.curOwner]
    BY <2>1 DEF firstUseBy
  <2>3. Entry(p) \notin r.cur \cup r.prev
    BY <2>1 DEF Verdict
  <2>4. p \notin DOMAIN accepted
    BY <1>1, <1>2, <1>3, <2>3 DEF InWindow
  <2>5. accepted' = [q \in DOMAIN accepted \cup {p} |-> IF q = p THEN now ELSE accepted[q]]
        /\ ~reused'
    BY Zenon, <1>5, <2>4 DEF verifyDPoPProof, Remember, SingleUseInv
  <2>6. /\ c \in [cur : SUBSET (Owners \X Nat), prev : SUBSET (Owners \X Nat), rotated : Int,
                  retention : {2 * Window}, curOwner : [Owners -> Int], prevOwner : [Owners -> Int]]
        /\ c.cur = r.cur \cup {Entry(p)} /\ c.prev = r.prev /\ c.rotated = r.rotated
    <3>1. Entry(p) \in Owners \X Nat
      BY <1>1 DEF Entry
    <3>2. QED
      BY <1>2, <2>2, <3>1
  <2>7. CacheTypes' /\ (dpop.rotated <= now)'
    BY <1>2, <1>3, <2>5, <2>6 DEF CacheTypes, SingleUseInv
  <2>8. ASSUME NEW q \in DOMAIN accepted'
        PROVE  accepted'[q] >= q.iat - Window /\ Covered(q)'
    <3>1. CASE q = p
      <4>1. accepted'[q] = now /\ Entry(q) \in c.cur
        BY <2>5, <2>6, <3>1
      <4>2. now >= q.iat - Window
        BY <1>1, <1>3, <3>1 DEF InWindow
      <4>3. QED
        BY <1>1, <1>2, <1>3, <2>6, <4>1, <4>2 DEF Covered, Entry
    <3>2. CASE q # p
      <4>1. q \in DOMAIN accepted /\ accepted'[q] = accepted[q]
        BY <2>5, <3>2
      <4>2. accepted[q] >= q.iat - Window
        BY <4>1 DEF SingleUseInv, Remembered
      <4>3. QED
        BY <1>2, <1>3, <2>6, <4>1, <4>2 DEF Covered, Entry
    <3>3. QED
      BY <3>1, <3>2
  <2>9. Remembered'
    BY <2>8 DEF Remembered
  <2>10. QED
    BY <2>5, <2>7, <2>9 DEF SingleUseInv
<1>6. QED
  BY <1>4, <1>5

(* Every process accepts a proof at most once, whatever the window, the size   *)
(* of the cache, the proofs presented and the instants they are presented at.  *)
THEOREM ProofUsedOnceHolds == SingleUseSpec => []ProofUsedOnce
<1>1. SingleUseInit => SingleUseInv
  BY EmptyCache DEF SingleUseInit
<1>2. SingleUseInv /\ [SingleUseNext]_dpopVars => SingleUseInv'
  <2> SUFFICES ASSUME SingleUseInv, [SingleUseNext]_dpopVars PROVE SingleUseInv'
    OBVIOUS
  <2>1. CASE \E p \in Proofs : verifyDPoPProof(p)
    BY <2>1, PresentKeeps
  <2>2. CASE Tick
    <3>1. now' = now + 1 /\ UNCHANGED <<dpop, accepted, reused>> /\ now \in Nat
          /\ \A p \in Proofs : p.iat \in Int
      BY <2>2, SingleUseAssumption DEF Tick, SingleUseInv, CacheTypes
    <3>2. Window \in Nat /\ dpop.rotated \in Int
      BY SingleUseAssumption DEF SingleUseInv, CacheTypes
    <3>3. CacheTypes' /\ (dpop.rotated <= now)'
      BY <3>1, <3>2 DEF SingleUseInv, CacheTypes
    <3>4. ASSUME NEW p \in DOMAIN accepted
          PROVE  (accepted[p] >= p.iat - Window /\ Covered(p))'
      BY <3>1, <3>2 DEF SingleUseInv, CacheTypes, Remembered, Covered, Entry
    <3>5. QED
      BY <3>1, <3>3, <3>4 DEF SingleUseInv, Remembered
  <2>3. CASE Restart
    <3>1. /\ (now \in Nat)' /\ (dpop = newReplayCache(2 * Window))'
          /\ (accepted = [p \in {} |-> 0])' /\ (~reused)'
      BY <2>3 DEF Restart, SingleUseInv, CacheTypes, newReplayCache
    <3>2. QED
      BY <3>1, EmptyCache, SingleUseAssumption DEF SingleUseInv, CacheTypes, Remembered, newReplayCache
  <2>4. CASE UNCHANGED dpopVars
    BY <2>4 DEF dpopVars, SingleUseInv, CacheTypes, Remembered, Covered, Entry
  <2>5. QED
    BY <2>1, <2>2, <2>3, <2>4 DEF SingleUseNext
<1>3. SingleUseInv => ProofUsedOnce
  BY DEF SingleUseInv, ProofUsedOnce
<1>4. QED
  BY <1>1, <1>2, <1>3, PTL DEF SingleUseSpec

-----------------------------------------------------------------------------
(* The token endpoints.                                                      *)

\* A token in a client's hands, and what its issuer knows of it.
GoodToken(t) ==
  /\ t.iat \in Nat /\ t.iat <= now
  /\ t.exp \in Int /\ t.until \in Int /\ t.exp <= t.until

IssuedInv == now \in Nat /\ \A t \in issued : GoodToken(t)

Request(c) ==
  c = [pc |-> c.pc, kind |-> c.kind, kid |-> c.kid, exp |-> c.exp, jkt |-> c.jkt,
       client |-> c.client, fetched |-> c.fetched]

CallsInv ==
  /\ call = [q \in 1 .. offers.width |-> call[q]]
  /\ \A q \in 1 .. offers.width : Request(call[q]) /\ call[q].exp \in Int

\* No tick falls into a request, so what a call found of the last refresh holds
\* until it looks at the keys again.
RefreshInv ==
  /\ lastRefresh \in Int
  /\ \A q \in 1 .. offers.width : At(q, "verify") => now - lastRefresh < Cooldown

\* The generation a spent assertion is in is not forgotten while it is valid.
SpentInv ==
  /\ assertions.rotated \in Int /\ assertions.rotated <= now
  /\ assertions.retention = AssertionRetention
  /\ spent \subseteq issued
  /\ \A t \in spent :
       /\ t.exp - t.iat <= MaxAssertionTTL
       /\ \/ ~Live(t.exp)
          \/ <<t.sub, t.jti>> \in assertions.cur
          \/ <<t.sub, t.jti>> \in assertions.prev /\ t.iat <= assertions.rotated
  /\ ~respent

LEMMA TTLFacts ==
  /\ \A ttl \in Int : ttlOf(ttl) \in Nat \ {0} /\ (ttl > 0 => ttlOf(ttl) <= ttl)
  /\ TTLs \subseteq Int
<1>1. /\ DefaultTTL \in Nat /\ MaxTTL \in Nat /\ DefaultTTL > 0 /\ DefaultTTL <= MaxTTL
      /\ TTLs \subseteq Nat
  BY TokenAssumption
<1> QED BY <1>1 DEF ttlOf

LEMMA CappedFacts ==
  ASSUME NEW ttl \in Int, NEW exp \in Int, now \in Nat, exp > now
  PROVE  Capped(ttl, exp) \in Int /\ Capped(ttl, exp) > 0 /\ now + Capped(ttl, exp) <= exp
BY DEF Capped

\* What IssueJWTSVID makes is good when it ends no later than what it is from.
LEMMA IssueGood ==
  ASSUME now \in Nat, NEW sub, NEW act, NEW ttl \in Int, NEW cnf, NEW via, NEW until \in Int,
         NEW held, ttl > 0, now + ttl <= until
  PROVE  GoodToken(IssueJWTSVID(sub, act, ttl, cnf, via, until, held))
<1>1. ttlOf(ttl) \in Nat /\ ttlOf(ttl) <= ttl
  BY TTLFacts
<1> QED BY <1>1 DEF IssueJWTSVID, GoodToken

\* The tokens a step adds.
Adds(t) == issued' = issued \cup {t} /\ GoodToken(t)

LEMMA IssuedStays ==
  ASSUME IssuedInv, now' \in Nat, now' >= now, issued' = issued \/ \E t : Adds(t)
  PROVE  IssuedInv'
<1>1. \A t : GoodToken(t) => GoodToken(t)'
  BY DEF GoodToken, IssuedInv
<1> QED BY <1>1 DEF IssuedInv, Adds, GoodToken

LEMMA RestingRequest == Request(Resting) /\ Resting.exp = 0 /\ Resting.pc = "done"
BY DEF Request, Resting

LEMMA CallsDomain == CallsInv => Calls = 1 .. offers.width
BY DEF CallsInv, Calls

\* One request moves on.
LEMMA CallStays ==
  ASSUME CallsInv, UNCHANGED offers, NEW q \in Calls,
         NEW c, call' = [call EXCEPT ![q] = c], Request(c), c.exp \in Int
  PROVE  /\ CallsInv' /\ call'[q] = c
         /\ \A r \in 1 .. offers.width : r # q => call'[r] = call[r]
<1>1. q \in 1 .. offers.width
  BY CallsDomain
<1>2. call' = [r \in 1 .. offers.width |-> IF r = q THEN c ELSE call[r]]
  BY Zenon, <1>1 DEF CallsInv
<1>3. CallsInv'
  BY Zenon, <1>2 DEF CallsInv, Request
<1> QED BY <1>1, <1>2, <1>3

\* ... when only its place changes.
LEMMA ToStays ==
  ASSUME CallsInv, UNCHANGED offers, NEW q \in Calls, NEW pc, To(q, pc)
  PROVE  /\ CallsInv' /\ call'[q].pc = pc /\ call'[q].exp = call[q].exp
         /\ \A r \in 1 .. offers.width : r # q => call'[r] = call[r]
<1> DEFINE c == [call[q] EXCEPT !.pc = pc]
<1>1. Request(call[q]) /\ call[q].exp \in Int
  BY Zenon, CallsDomain DEF CallsInv
<1>2. Request(c) /\ c.exp = call[q].exp /\ c.pc = pc
  BY <1>1 DEF Request
<1>3. call' = [call EXCEPT ![q] = c]
  BY DEF To
<1> HIDE DEF c
<1> QED BY Zenon, <1>1, <1>2, <1>3, CallStays

\* What each action does to the tokens, the requests and the refresh.
LEMMA IssueStep ==
  ASSUME IssuedInv, NEW caller, NEW p, NEW cnf, NEW ttl \in TTLs, issueJWTSVID(caller, p, cnf, ttl)
  PROVE  \E t : Adds(t)
<1> DEFINE t == IssueJWTSVID(p, <<>>, ttl, cnf, "svid", now + ttlOf(ttl), cnf # Unbound)
<1>1. ttlOf(ttl) \in Nat
  BY TTLFacts
<1>2. GoodToken(t)
  BY <1>1 DEF IssueJWTSVID, GoodToken, IssuedInv
<1>3. issued' = issued \cup {t}
  BY DEF issueJWTSVID, Answer
<1> HIDE DEF t
<1> QED BY <1>2, <1>3 DEF Adds

LEMMA ExchangeStep ==
  ASSUME IssuedInv, NEW s \in issued, NEW a \in issued, NEW p, NEW cert, NEW ttl \in TTLs,
         NEW permit, tokenExchange(s, a, p, cert, ttl, permit)
  PROVE  issued' = issued \/ \E t : Adds(t)
<1> DEFINE jkt == IF NeedsProof(s, a, cert) /\ Accepts(p) THEN p.jkt ELSE Unbound
<1> DEFINE t == Exchanged(s, a, ttl)
<1>1. CASE Grants(s, a, jkt, cert, permit)
  <2>1. issued' = issued \cup {t}
    BY <1>1 DEF tokenExchange, Answer
  <2>2. /\ s.exp \in Int /\ s.until \in Int /\ s.exp <= s.until /\ now \in Nat
        /\ s.exp > now /\ ttl \in Int
    BY <1>1, TTLFacts DEF Grants, IssuedInv, GoodToken
  <2> DEFINE cap == Capped(ttl, s.exp)
  <2>3. cap \in Int /\ cap > 0 /\ now + cap <= s.exp
    BY <2>2, CappedFacts
  <2> HIDE DEF cap
  <2>4. now + cap <= s.until
    BY <2>2, <2>3
  <2>5. GoodToken(t)
    BY Zenon, <2>2, <2>3, <2>4, IssueGood DEF Exchanged, cap
  <2> HIDE DEF t
  <2> QED BY <2>1, <2>5 DEF Adds
<1>2. CASE ~Grants(s, a, jkt, cert, permit)
  BY <1>2 DEF tokenExchange, grants
<1> QED BY <1>1, <1>2

LEMMA OIDCStep ==
  ASSUME IssuedInv, CallsInv, NEW q \in Calls, NEW ttl \in TTLs, exchangeOIDC(q, ttl)
  PROVE  issued' = issued \/ \E t : Adds(t)
<1> DEFINE c == call[q]
<1> DEFINE t == IssueJWTSVID(User, <<Upstream>>, Capped(ttl, c.exp), Unbound, "oidc", c.exp, FALSE)
<1>1. CASE c.exp > now
  <2>1. issued' = issued \cup {t}
    BY Zenon, <1>1 DEF exchangeOIDC, Answer
  <2>2. c.exp \in Int /\ now \in Nat /\ ttl \in Int
    BY Zenon, TTLFacts, CallsDomain DEF IssuedInv, CallsInv
  <2>3. Capped(ttl, c.exp) \in Int /\ Capped(ttl, c.exp) > 0 /\ now + Capped(ttl, c.exp) <= c.exp
    BY Zenon, <1>1, <2>2, CappedFacts
  <2>4. GoodToken(t)
    BY Zenon, <2>2, <2>3, IssueGood
  <2> HIDE DEF t
  <2> QED BY <2>1, <2>4 DEF Adds
<1>2. CASE ~(c.exp > now)
  BY Zenon, <1>2 DEF exchangeOIDC, grants
<1> QED BY <1>1, <1>2

LEMMA OAuthStep ==
  ASSUME IssuedInv, CallsInv, NEW q \in Calls, NEW p, NEW sends, NEW permit,
         oauthToken(q, p, sends, permit)
  PROVE  issued' = issued \/ \E t : Adds(t)
<1> DEFINE c == call[q]
<1> DEFINE jkt == IF sends /\ Accepts(p) THEN <<"jkt", p.jkt>> ELSE Unbound
<1> DEFINE t == IssueJWTSVID(c.client, <<User>>, c.exp - now, jkt, "idjag", c.exp, jkt # Unbound)
<1>1. issued' = issued \/ (issued' = issued \cup {t} /\ c.exp > now)
  BY DEF oauthToken, grants
<1>2. c.exp \in Int /\ now \in Nat
  BY Zenon, CallsDomain DEF IssuedInv, CallsInv
<1>3. ASSUME c.exp > now PROVE GoodToken(t)
  <2>1. c.exp - now \in Int /\ c.exp - now > 0 /\ now + (c.exp - now) <= c.exp
    BY <1>2, <1>3
  <2> HIDE DEF c, jkt
  <2> QED BY Zenon, <1>2, <2>1, IssueGood
<1> HIDE DEF t
<1> QED BY <1>1, <1>3 DEF Adds

LEMMA RefreshStays ==
  ASSUME RefreshInv, UNCHANGED <<now, lastRefresh, offers>>, NEW q,
         \A r \in 1 .. offers.width : r # q => call'[r] = call[r],
         call'[q].pc = "verify" => now - lastRefresh < Cooldown
  PROVE  RefreshInv'
BY DEF RefreshInv, At

FlightInv == CallsInv /\ RefreshInv

LEMMA ToFlight ==
  ASSUME FlightInv, UNCHANGED <<now, lastRefresh, offers>>, NEW q \in Calls, NEW pc, To(q, pc),
         pc = "verify" => now - lastRefresh < Cooldown
  PROVE  FlightInv'
<1>1. /\ CallsInv' /\ call'[q].pc = pc
      /\ \A r \in 1 .. offers.width : r # q => call'[r] = call[r]
  BY ToStays DEF FlightInv
<1> QED BY <1>1, RefreshStays DEF FlightInv

LEMMA SetFlight ==
  ASSUME FlightInv, UNCHANGED <<now, lastRefresh, offers>>, NEW q \in Calls,
         NEW c, call' = [call EXCEPT ![q] = c], Request(c), c.exp \in Int, c.pc # "verify"
  PROVE  FlightInv'
<1>1. /\ CallsInv' /\ call'[q] = c
      /\ \A r \in 1 .. offers.width : r # q => call'[r] = call[r]
  BY Zenon, CallStays DEF FlightInv
<1> QED BY <1>1, RefreshStays DEF FlightInv

LEMMA RestFlight ==
  ASSUME FlightInv, UNCHANGED <<now, lastRefresh, offers>>, NEW q \in Calls,
         call' = [call EXCEPT ![q] = Resting]
  PROVE  FlightInv'
<1>1. Request(Resting) /\ Resting.exp \in Int /\ Resting.pc # "verify"
  BY RestingRequest
<1> QED BY Zenon, <1>1, SetFlight

LEMMA BeginFlight ==
  ASSUME FlightInv, now \in Nat, UNCHANGED <<now, lastRefresh, offers>>, NEW q \in Calls,
         NEW kind, NEW e \in Expiries, NEW jkt, NEW client, Begin(q, kind, e, jkt, client)
  PROVE  FlightInv'
<1>1. PICK kid \in idp.keys :
        call' = [call EXCEPT ![q] = [pc |-> "validate", kind |-> kind, kid |-> kid, exp |-> e,
                                     jkt |-> jkt, client |-> client, fetched |-> {}]]
  BY Zenon DEF Begin
<1> DEFINE c == [pc |-> "validate", kind |-> kind, kid |-> kid, exp |-> e, jkt |-> jkt,
                 client |-> client, fetched |-> {}]
<1>2. e \in Int
  BY TokenAssumption DEF Expiries
<1>3. Request(c) /\ c.exp \in Int /\ c.pc # "verify"
  BY <1>2 DEF Request
<1>4. call' = [call EXCEPT ![q] = c]
  BY <1>1
<1> HIDE DEF c
<1> QED BY Zenon, <1>3, <1>4, SetFlight

\* Two fields of a request change.
LEMMA FetchedCall ==
  ASSUME NEW q, Request(call[q]), NEW pc, NEW f,
         call' = [call EXCEPT ![q].pc = pc, ![q].fetched = f]
  PROVE  \E d : Request(d) /\ d.exp = call[q].exp /\ d.pc = pc /\ call' = [call EXCEPT ![q] = d]
<1>1. PICK c : c = call[q]
  OBVIOUS
<1>2. PICK b : b = [c EXCEPT !.pc = pc]
  BY Zenon
<1>0. PICK d : d = [b EXCEPT !.fetched = f]
  BY Zenon
<1>3. call' = [call EXCEPT ![q] = d]
  BY Zenon, <1>0, <1>1, <1>2
<1>4. Request(c)
  BY <1>1
<1>5. Request(b) /\ b.exp = c.exp /\ b.pc = pc
  BY <1>2, <1>4 DEF Request
<1>6. Request(d) /\ d.exp = b.exp /\ d.pc = b.pc
  BY <1>0, <1>5 DEF Request
<1> QED BY Zenon, <1>1, <1>3, <1>5, <1>6

\* A request that waits for the provider's keys.
LEMMA KeysFlight ==
  ASSUME FlightInv, now \in Nat, NEW q \in Calls,
         validate(q) \/ FetchJWKS(q) \/ refreshJWKS(q) \/ jwksSnapshot(q) \/ Refuse(q)
  PROVE  FlightInv'
<1>1. UNCHANGED <<now, offers>>
  BY DEF validate, FetchJWKS, refreshJWKS, jwksSnapshot, Refuse, dpopVars
<1>2. CASE validate(q)
  <2>1. UNCHANGED lastRefresh /\ \E pc : To(q, pc) /\ (pc = "verify" => now - lastRefresh < Cooldown)
    BY <1>2 DEF validate, keys
  <2> QED BY <1>1, <2>1, ToFlight
<1>3. CASE jwksSnapshot(q)
  <2>1. UNCHANGED lastRefresh /\ \E pc : To(q, pc) /\ pc # "verify"
    BY <1>3 DEF jwksSnapshot, keys
  <2> QED BY <1>1, <2>1, ToFlight
<1>4. CASE Refuse(q)
  <2>1. UNCHANGED lastRefresh /\ call' = [call EXCEPT ![q] = Resting]
    BY <1>4 DEF Refuse, keys
  <2> QED BY Zenon, <1>1, <2>1, RestFlight
<1>0. Request(call[q]) /\ call[q].exp \in Int
  BY Zenon, CallsDomain DEF FlightInv, CallsInv
<1>5. CASE FetchJWKS(q)
  <2>1. UNCHANGED lastRefresh
    BY <1>5 DEF FetchJWKS, keys
  <2>2. CASE To(q, "refused")
    BY <1>1, <2>1, <2>2, ToFlight
  <2>3. CASE call' = [call EXCEPT ![q].pc = "store", ![q].fetched = idp.keys]
    <3>1. PICK c : Request(c) /\ c.exp = call[q].exp /\ c.pc = "store" /\ call' = [call EXCEPT ![q] = c]
      BY Zenon, <1>0, <2>3, FetchedCall
    <3> QED BY Zenon, <1>0, <1>1, <2>1, <3>1, SetFlight
  <2> QED BY <1>5, <2>2, <2>3 DEF FetchJWKS
<1>6. CASE refreshJWKS(q)
  <2>1. call' = [call EXCEPT ![q].pc = "verify", ![q].fetched = {}] /\ lastRefresh' = now
    BY <1>6 DEF refreshJWKS
  <2>2. PICK c : Request(c) /\ c.exp = call[q].exp /\ call' = [call EXCEPT ![q] = c]
    BY Zenon, <1>0, <2>1, FetchedCall
  <2>3. CallsInv'
    BY Zenon, <1>0, <1>1, <2>2, CallStays DEF FlightInv
  <2>4. now - now < Cooldown
    BY TokenAssumption
  <2>5. RefreshInv'
    BY <1>1, <2>1, <2>4 DEF RefreshInv
  <2> QED BY <2>3, <2>5 DEF FlightInv
<1> QED BY SMTT(20), <1>2, <1>3, <1>4, <1>5, <1>6

\* Who a step comes from: the requests, and the surroundings.
AtCall(q) ==
  \/ validate(q) \/ FetchJWKS(q) \/ refreshJWKS(q) \/ jwksSnapshot(q) \/ Refuse(q)
  \/ \E e \in Expiries : BeginOIDC(q, e)
  \/ \E ttl \in TTLs : exchangeOIDC(q, ttl)
  \/ \E e \in Expiries, c \in Owners, jkt \in Keyed : authenticateCert(q, c, e, jkt)
  \/ \E e \in Expiries, t \in issued, jkt \in Keyed : authenticateAssertion(q, t, e, jkt)
  \/ \E p \in Proofs, sends \in {FALSE, "dpop" \in offers.uses}, permit \in BOOLEAN :
       oauthToken(q, p, sends, permit)

LEMMA CallFlight ==
  ASSUME FlightInv, now \in Nat, NEW q \in Calls, AtCall(q)
  PROVE  FlightInv'
<1>1. CASE \E e \in Expiries : BeginOIDC(q, e)
  <2>1. PICK e \in Expiries : BeginOIDC(q, e)
    BY <1>1
  <2>2. UNCHANGED <<now, lastRefresh, offers>> /\ Begin(q, "oidc", e, Unbound, User)
    BY <2>1 DEF BeginOIDC, dpopVars, keys
  <2> QED BY <2>2, BeginFlight
<1>2. CASE \E ttl \in TTLs : exchangeOIDC(q, ttl)
  <2>1. UNCHANGED <<now, lastRefresh, offers>> /\ call' = [call EXCEPT ![q] = Resting]
    BY <1>2 DEF exchangeOIDC, dpopVars, keys
  <2> QED BY Zenon, <2>1, RestFlight
<1>3. CASE \E e \in Expiries, c \in Owners, jkt \in Keyed : authenticateCert(q, c, e, jkt)
  <2>1. PICK e \in Expiries, c \in Owners, jkt \in Keyed : authenticateCert(q, c, e, jkt)
    BY <1>3
  <2>2. UNCHANGED <<now, lastRefresh, offers>> /\ Begin(q, "idjag", e, jkt, c)
    BY <2>1 DEF authenticateCert, dpopVars, keys
  <2> QED BY <2>2, BeginFlight
<1>4. CASE \E e \in Expiries, t \in issued, jkt \in Keyed : authenticateAssertion(q, t, e, jkt)
  <2>1. PICK e \in Expiries, t \in issued, jkt \in Keyed : authenticateAssertion(q, t, e, jkt)
    BY SMTT(20), <1>4
  <2>2. /\ UNCHANGED <<now, lastRefresh, offers>>
        /\ Begin(q, "idjag", e, jkt, t.sub) \/ UNCHANGED call
    BY <2>1 DEF authenticateAssertion, dpopVars, keys
  <2>3. CASE UNCHANGED call
    BY Zenon, <2>2, <2>3 DEF FlightInv, CallsInv, RefreshInv, At, Request
  <2> QED BY <2>2, <2>3, BeginFlight
<1>5. CASE \E p \in Proofs, sends \in {FALSE, "dpop" \in offers.uses}, permit \in BOOLEAN :
             oauthToken(q, p, sends, permit)
  <2>1. UNCHANGED <<now, lastRefresh, offers>> /\ call' = [call EXCEPT ![q] = Resting]
    BY Zenon, <1>5 DEF oauthToken, keys
  <2> QED BY Zenon, <2>1, RestFlight
<1> QED BY Zenon, <1>1, <1>2, <1>3, <1>4, <1>5, KeysFlight DEF AtCall

LEMMA CallIssues ==
  ASSUME IssuedInv, CallsInv, NEW q \in Calls, AtCall(q)
  PROVE  now' = now /\ (issued' = issued \/ \E t : Adds(t))
<1>1. CASE \E ttl \in TTLs : exchangeOIDC(q, ttl)
  <2>1. UNCHANGED now
    BY <1>1 DEF exchangeOIDC, dpopVars
  <2> QED BY <1>1, <2>1, OIDCStep
<1>2. CASE \E p \in Proofs, sends \in {FALSE, "dpop" \in offers.uses}, permit \in BOOLEAN :
             oauthToken(q, p, sends, permit)
  <2>1. UNCHANGED now
    BY <1>2 DEF oauthToken
  <2> QED BY SMTT(20), <1>2, <2>1, OAuthStep
<1>3. ASSUME ~\E ttl \in TTLs : exchangeOIDC(q, ttl),
             ~\E p \in Proofs, sends \in {FALSE, "dpop" \in offers.uses}, permit \in BOOLEAN :
                oauthToken(q, p, sends, permit)
      PROVE  UNCHANGED <<now, issued>>
  BY Zenon, <1>3 DEF AtCall, validate, FetchJWKS, refreshJWKS, jwksSnapshot, Refuse, BeginOIDC,
              authenticateCert, authenticateAssertion, dpopVars, grants
<1> QED BY Zenon, <1>1, <1>2, <1>3

\* A rotation that is due keeps every spent assertion that is still valid.
LEMMA AssertionsRotate ==
  ASSUME IssuedInv, SpentInv
  PROVE  LET r == Rotated(assertions, now)
         IN  /\ r.rotated \in Int /\ r.rotated <= now /\ r.retention = AssertionRetention
             /\ \A t \in spent :
                  \/ ~Live(t.exp)
                  \/ <<t.sub, t.jti>> \in r.cur
                  \/ <<t.sub, t.jti>> \in r.prev /\ t.iat <= r.rotated
<1>1. /\ now \in Nat /\ Leeway \in Nat /\ Leeway < 2 /\ MaxAssertionTTL \in Nat
      /\ \A t \in spent : t.iat \in Nat /\ t.iat <= now /\ t.exp \in Int
  BY TokenAssumption DEF IssuedInv, SpentInv, GoodToken
<1>2. CASE ~(now - assertions.rotated >= assertions.retention)
  BY <1>2 DEF Rotated, SpentInv
<1>3. CASE now - assertions.rotated >= assertions.retention
  <2> DEFINE r == Rotated(assertions, now)
  <2>1. /\ r.rotated = now /\ r.retention = AssertionRetention /\ r.prev = assertions.cur
    BY <1>3 DEF Rotated, SpentInv
  <2> HIDE DEF r
  <2>2. ASSUME NEW t \in spent
        PROVE  ~Live(t.exp) \/ (<<t.sub, t.jti>> \in r.prev /\ t.iat <= r.rotated)
    <3>1. CASE <<t.sub, t.jti>> \in assertions.cur
      BY SMTT(20), <1>1, <2>1, <2>2, <3>1
    <3>2. CASE t.iat <= assertions.rotated
      BY SMTT(20), <1>1, <1>3, <2>2, <3>2 DEF SpentInv, Live, AssertionRetention
    <3> QED BY <2>2, <3>1, <3>2 DEF SpentInv
  <2> QED BY <1>1, <2>1, <2>2 DEF r
<1> QED BY <1>2, <1>3

LEMMA SpentStays ==
  ASSUME SpentInv, UNCHANGED <<clients, now>>, issued \subseteq issued'
  PROVE  SpentInv'
BY DEF SpentInv, clients, Live

LEMMA AssertionSpent ==
  ASSUME IssuedInv, SpentInv, NEW q, NEW t \in issued, NEW e, NEW jkt,
         authenticateAssertion(q, t, e, jkt)
  PROVE  SpentInv'
<1> DEFINE r == Rotated(assertions, now)
<1>1. /\ r.rotated \in Int /\ r.rotated <= now /\ r.retention = AssertionRetention
      /\ \A u \in spent :
           \/ ~Live(u.exp)
           \/ <<u.sub, u.jti>> \in r.cur
           \/ <<u.sub, u.jti>> \in r.prev /\ u.iat <= r.rotated
  BY SMTT(20), AssertionsRotate
<1>2. UNCHANGED <<now, issued>>
  BY DEF authenticateAssertion, dpopVars, grants
<1>3. CASE AssertionVerdict(t) # "first"
  <2>1. assertions' = r /\ UNCHANGED <<spent, respent>>
    BY <1>3 DEF authenticateAssertion, AssertionVerdict, firstUseBy
  <2> HIDE DEF r
  <2> QED BY <1>1, <1>2, <2>1 DEF SpentInv, Live
<1>4. CASE AssertionVerdict(t) = "first"
  <2>1. /\ assertions'.cur = r.cur \cup {<<t.sub, t.jti>>} /\ assertions'.prev = r.prev
        /\ assertions'.rotated = r.rotated /\ assertions'.retention = r.retention
    <3>1. assertions' = firstUseBy(assertions, <<t.sub, t.jti>>, now, Quota)
      BY DEF authenticateAssertion
    <3> QED BY <1>4, <3>1 DEF firstUseBy, AssertionVerdict
  <2>2. <<t.sub, t.jti>> \notin r.cur \cup r.prev
    BY <1>4 DEF AssertionVerdict, Verdict
  <2>3. Live(t.exp) /\ t.exp - t.iat <= MaxAssertionTTL
    BY DEF authenticateAssertion, Assertion
  <2> HIDE DEF r
  <2>4. t \notin spent
    BY SMTT(20), <1>1, <2>2, <2>3
  <2>5. spent' = spent \cup {t} /\ respent' = (respent \/ t \in spent)
    BY <1>4 DEF authenticateAssertion
  <2> QED BY Zenon, <1>1, <1>2, <2>1, <2>3, <2>4, <2>5 DEF SpentInv, Live
<1> QED BY <1>3, <1>4

LEMMA CallSpends ==
  ASSUME IssuedInv, CallsInv, SpentInv, NEW q \in Calls, AtCall(q)
  PROVE  SpentInv'
<1>1. CASE \E e \in Expiries, t \in issued, jkt \in Keyed : authenticateAssertion(q, t, e, jkt)
  BY <1>1, AssertionSpent
<1>2. ASSUME ~\E e \in Expiries, t \in issued, jkt \in Keyed : authenticateAssertion(q, t, e, jkt)
      PROVE  UNCHANGED clients
  BY Zenon, <1>2 DEF AtCall, validate, FetchJWKS, refreshJWKS, jwksSnapshot, Refuse, BeginOIDC,
              authenticateCert, exchangeOIDC, oauthToken
<1>3. now' = now /\ issued \subseteq issued'
  BY CallIssues DEF Adds
<1> QED BY <1>1, <1>2, <1>3, SpentStays

TokenInv == IssuedInv /\ FlightInv /\ SpentInv

LEMMA TokenInit == Init => TokenInv
<1> SUFFICES ASSUME Init PROVE TokenInv
  OBVIOUS
<1>1. IssuedInv
  BY DEF Init, SingleUseInit, IssuedInv
<1>2. CallsInv
  BY RestingRequest DEF Init, CallsInv
<1>3. \A q \in 1 .. offers.width : ~At(q, "verify")
  BY RestingRequest DEF Init, At
<1>4. lastRefresh \in Int
  BY TokenAssumption DEF Init, Never
<1>5. SpentInv
  <2>1. now = 0 /\ spent = {} /\ ~respent /\ assertions = newReplayCache(AssertionRetention)
    BY DEF Init, SingleUseInit
  <2>2. AssertionRetention \in Nat
    BY SMTT(20), TokenAssumption DEF AssertionRetention
  <2> QED BY SMTT(20), <2>1, <2>2 DEF SpentInv, newReplayCache
<1> QED BY SMTT(20), <1>1, <1>2, <1>3, <1>4, <1>5 DEF TokenInv, FlightInv, RefreshInv

LEMMA FlightStays ==
  ASSUME FlightInv, UNCHANGED <<now, offers, keys, call>>
  PROVE  FlightInv'
BY SMTT(20) DEF FlightInv, CallsInv, RefreshInv, At, Request, keys

LEMMA RestartsInv == ASSUME TokenInv, Restarts PROVE TokenInv'
<1>1. /\ UNCHANGED <<now, offers, issued>> /\ spent' = {} /\ UNCHANGED respent
      /\ assertions' = newReplayCache(AssertionRetention) /\ lastRefresh' = Never
      /\ call' = [q \in Calls |-> Resting]
  BY DEF Restarts, Restart, grants
<1>2. IssuedInv'
  BY <1>1 DEF TokenInv, IssuedInv, GoodToken
<1>3. Calls = 1 .. offers.width
  BY CallsDomain DEF TokenInv, FlightInv
<1>4. CallsInv'
  BY SMTT(20), <1>1, <1>3, RestingRequest DEF CallsInv, Request
<1>5. RefreshInv'
  BY SMTT(20), <1>1, <1>3, RestingRequest, TokenAssumption DEF RefreshInv, At, Never
<1>6. AssertionRetention \in Nat
  BY SMTT(20), TokenAssumption DEF AssertionRetention
<1>7. SpentInv'
  BY <1>1, <1>6 DEF TokenInv, IssuedInv, SpentInv, newReplayCache
<1> QED BY <1>2, <1>4, <1>5, <1>7 DEF TokenInv, FlightInv

LEMMA PassesInv == ASSUME TokenInv, Passes PROVE TokenInv'
<1>1. /\ now' = now + 1 /\ now \in Nat /\ UNCHANGED <<issued, offers, call, lastRefresh, clients>>
      /\ \A q \in Calls : At(q, "done")
  BY DEF Passes, Tick, grants, keys, TokenInv, IssuedInv
<1>2. IssuedInv'
  BY <1>1, IssuedStays DEF TokenInv
<1>3. Calls = 1 .. offers.width
  BY CallsDomain DEF TokenInv, FlightInv
<1>4. FlightInv'
  BY Zenon, <1>1, <1>3 DEF TokenInv, FlightInv, CallsInv, RefreshInv, At, Request
<1>5. \A t \in spent : t.exp \in Int
  BY DEF TokenInv, IssuedInv, SpentInv, GoodToken
<1>6. \A t \in spent : ~Live(t.exp) => ~Live(t.exp)'
  BY SMTT(20), <1>1, <1>5, TokenAssumption DEF Live
<1>7. SpentInv'
  BY <1>1, <1>6 DEF TokenInv, SpentInv, clients
<1> QED BY <1>2, <1>4, <1>7 DEF TokenInv

LEMMA TokenStep == TokenInv /\ [Next]_vars => TokenInv'
<1> SUFFICES ASSUME TokenInv, [Next]_vars PROVE TokenInv'
  OBVIOUS
<1>0. IssuedInv /\ FlightInv /\ CallsInv /\ SpentInv /\ now \in Nat
  BY DEF TokenInv, FlightInv, IssuedInv
<1>1. ASSUME UNCHANGED <<now, offers, clients, keys, call>>, issued' = issued \/ \E t : Adds(t)
      PROVE  TokenInv'
  <2>1. IssuedInv' /\ issued \subseteq issued'
    BY <1>0, <1>1, IssuedStays DEF Adds
  <2> QED BY SMTT(20), <1>0, <1>1, <2>1, FlightStays, SpentStays DEF TokenInv
<1>2. ASSUME NEW caller, NEW p, NEW ttl \in TTLs, NEW cnf, issueJWTSVID(caller, p, cnf, ttl)
      PROVE  TokenInv'
  <2>1. UNCHANGED <<now, offers, clients, keys, call>>
    BY <1>2 DEF issueJWTSVID, dpopVars
  <2> QED BY SMTT(20), <1>0, <1>1, <1>2, <2>1, IssueStep
<1>3. ASSUME NEW s \in issued, NEW a \in issued, NEW p, NEW cert, NEW ttl \in TTLs, NEW permit,
             tokenExchange(s, a, p, cert, ttl, permit)
      PROVE  TokenInv'
  <2>1. UNCHANGED <<now, offers, clients, keys, call>>
    BY <1>3 DEF tokenExchange
  <2> QED BY SMTT(20), <1>0, <1>1, <1>3, <2>1, ExchangeStep
<1>4. ASSUME NEW q \in Calls, AtCall(q) PROVE TokenInv'
  <2>1. IssuedInv'
    BY <1>0, <1>4, CallIssues, IssuedStays
  <2> QED BY SMTT(20), <1>0, <1>4, <2>1, CallFlight, CallSpends DEF TokenInv
<1>5. CASE IdPRotates
  <2>1. UNCHANGED <<now, offers, clients, keys, call, issued>>
    BY <1>5 DEF IdPRotates, dpopVars, grants
  <2> QED BY <1>1, <2>1
<1>6. CASE Over \/ UNCHANGED vars
  <2>1. UNCHANGED <<now, offers, clients, keys, call, issued>>
    BY <1>6 DEF Over, vars, dpopVars, grants
  <2> QED BY <1>1, <2>1
<1> QED BY Zenon, <1>2, <1>3, <1>4, <1>5, <1>6, PassesInv, RestartsInv DEF Next, AtCall

LEMMA TokenInvHolds == Spec => []TokenInv
BY TokenInit, TokenStep, PTL DEF Spec

(* Whatever the endpoints do with a proof is what SingleUse allows: the token  *)
(* service implements the specification of single-use proofs.                 *)
THEOREM ServiceImplementsSingleUse == Spec => SingleUseSpec
<1>1. Init => SingleUseInit
  BY DEF Init
<1>2. [Next]_vars => [SingleUseNext]_dpopVars
  <2> SUFFICES ASSUME [Next]_vars PROVE [SingleUseNext]_dpopVars
    OBVIOUS
  <2>1. ASSUME NEW p \in Proofs, UNCHANGED now,
               (Presents(p) /\ Remember(p)) \/ UNCHANGED <<dpop, accepted, reused>>
        PROVE  [SingleUseNext]_dpopVars
    BY SMTT(20), <2>1 DEF SingleUseNext, verifyDPoPProof, dpopVars
  <2>2. ASSUME NEW s \in issued, NEW a \in issued, NEW p \in Proofs, NEW cert, NEW ttl, NEW permit,
               tokenExchange(s, a, p, cert, ttl, permit)
        PROVE  [SingleUseNext]_dpopVars
    BY SMTT(20), <2>1, <2>2 DEF tokenExchange
  <2>3. ASSUME NEW q, NEW p \in Proofs, NEW sends, NEW permit, oauthToken(q, p, sends, permit)
        PROVE  [SingleUseNext]_dpopVars
    BY <2>1, <2>3 DEF oauthToken
  <2>4. ASSUME NEW q \in Calls, AtCall(q) PROVE [SingleUseNext]_dpopVars
    <3>1. ASSUME ~\E p \in Proofs, sends \in {FALSE, "dpop" \in offers.uses}, permit \in BOOLEAN :
                     oauthToken(q, p, sends, permit)
          PROVE  UNCHANGED dpopVars
      BY Zenon, <2>4, <3>1 DEF AtCall, validate, FetchJWKS, refreshJWKS, jwksSnapshot, Refuse, BeginOIDC,
                        authenticateCert, exchangeOIDC, authenticateAssertion
    <3> QED BY Zenon, <2>3, <3>1
  <2>5. CASE \E caller \in Owners \cup {Unbound}, p \in Owners, ttl \in TTLs, cnf \in Certs :
               issueJWTSVID(caller, p, cnf, ttl)
    BY <2>5 DEF issueJWTSVID
  <2>6. CASE IdPRotates \/ Over \/ UNCHANGED vars
    BY <2>6 DEF IdPRotates, Over, vars
  <2>7. CASE Passes
    BY <2>7 DEF Passes, SingleUseNext
  <2>8. CASE Restarts
    BY <2>8 DEF Restarts, SingleUseNext
  <2> QED BY Zenon, <2>2, <2>4, <2>5, <2>6, <2>7, <2>8 DEF Next, AtCall
<1> QED BY <1>1, <1>2, PTL DEF Spec, SingleUseSpec

(* No process of the token service accepts a DPoP proof twice, at whichever    *)
(* endpoints it is presented.                                                  *)
THEOREM ServiceUsesProofsOnce == Spec => []ProofUsedOnce
BY ServiceImplementsSingleUse, ProofUsedOnceHolds, PTL

(* No token outlives the authority it was derived from, through any number of  *)
(* exchanges and whatever the leeway of validation.                            *)
THEOREM NeverOutlivesHolds == Spec => []NeverOutlives
<1>1. TokenInv => NeverOutlives
  BY DEF TokenInv, IssuedInv, GoodToken, NeverOutlives
<1> QED BY <1>1, TokenInvHolds, PTL

(* No process accepts a client assertion twice, for any retention that covers  *)
(* the leeway of validation and any quota.                                     *)
THEOREM AssertionUsedOnceHolds == Spec => []AssertionUsedOnce
<1>1. TokenInv => AssertionUsedOnce
  BY DEF TokenInv, SpentInv, AssertionUsedOnce
<1> QED BY <1>1, TokenInvHolds, PTL

(* A token signed with a published key is refused as unknown only within the   *)
(* cooldown of a refresh, for any number of requests in flight.                *)
THEOREM RefusalExplainedHolds == Spec => RefusalExplained
<1>1. TokenInv /\ [Next]_vars =>
        [\A q \in Calls :
           At(q, "verify") /\ call'[q].pc = "refused" /\ call[q].kid \in idp.keys
             => now - lastRefresh < Cooldown]_vars
  BY CallsDomain DEF TokenInv, FlightInv, RefreshInv
<1> QED BY <1>1, TokenInvHolds, PTL DEF Spec, RefusalExplained
=============================================================================
