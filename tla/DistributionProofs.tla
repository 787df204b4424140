------------------------- MODULE DistributionProofs -------------------------
(* What reaches the nodes: policy, by what Sync guarantees for any servers,   *)
(* clocks, ages and numbers of faults; and trust, under a rotation done as    *)
(* documented, for any agents and any number of CAs, SVIDs and failed calls.  *)
EXTENDS TrustDistribution, BundleSync, TLAPS

-----------------------------------------------------------------------------
(* Trust.                                                                    *)

Copies == [trusted : Seq(Nat), ver : Nat]

\* The CAs of a bundle, and the signers of what is still valid.
Names(s) == {s[i] : i \in 1..Len(s)}
Signers == tokens \cup {x.ca : x \in svids}

\* A copy of the bundle knows every signer, those of this moment included, and
\* a copy of the last reload is the whole bundle.
Covers(b) ==
  /\ b \in Copies
  /\ Signers \cup {ca[1]} \subseteq Names(b.trusted)
  /\ b.ver = ver => b.trusted = ca

TrustInv ==
  /\ ca \in Seq(Nat) /\ Len(ca) \in {1, 2} /\ made \in Nat /\ ver \in Nat
  /\ Signers \subseteq Names(ca)
  /\ poll.pc = "read" => Covers(poll.with)
  /\ peer # Nothing => Covers(peer)
  /\ jwks = [a \in Agents |-> jwks[a]]
  /\ call = [a \in Agents |-> [k \in Kinds |-> call[a][k]]]
  /\ \A a \in Agents :
       /\ jwks[a] # Nothing => Covers(jwks[a])
       /\ call[a]["jwks"].pc = "read" => Covers(call[a]["jwks"].with)

LEMMA NamesAt ==
  ASSUME NEW s \in Seq(Nat), NEW i \in 1..Len(s)
  PROVE  s[i] \in Names(s) /\ s[i] \in Nat
<1>1. s[i] \in Names(s)
  BY DEF Names
<1>2. s[i] \in Nat
  OBVIOUS
<1> QED BY <1>1, <1>2

LEMMA AppendAt ==
  ASSUME NEW s \in Seq(Nat), NEW x \in Nat
  PROVE  /\ Append(s, x) \in Seq(Nat) /\ Len(Append(s, x)) = Len(s) + 1
         /\ \A i \in 1..Len(s) : Append(s, x)[i] = s[i]
<1>1. Append(s, x) \in Seq(Nat)
  OBVIOUS
<1>2. Len(Append(s, x)) = Len(s) + 1
  OBVIOUS
<1>3. ASSUME NEW i \in 1..Len(s) PROVE Append(s, x)[i] = s[i]
  BY <1>3
<1> QED BY <1>1, <1>2, <1>3

\* The two ways a rotation goes on from two CAs.
LEMMA TwoAt ==
  ASSUME NEW s \in Seq(Nat), Len(s) = 2
  PROVE  /\ s[2] \in Names(s)
         /\ <<s[2], s[1]>> \in Seq(Nat) /\ Len(<<s[2], s[1]>>) = 2 /\ <<s[2], s[1]>>[1] = s[2]
         /\ <<s[1]>> \in Seq(Nat) /\ Len(<<s[1]>>) = 1 /\ <<s[1]>>[1] = s[1]
<1>1. 1 \in 1..Len(s) /\ 2 \in 1..Len(s)
  OBVIOUS
<1>2. s[1] \in Nat /\ s[2] \in Nat /\ s[2] \in Names(s)
  BY Zenon, <1>1, NamesAt
<1> QED BY <1>2

\* The bundle as it is served now.
LEMMA ServedCovers == TrustInv => Covers(Bundle) /\ Bundle # Nothing
<1> SUFFICES ASSUME TrustInv PROVE Covers(Bundle) /\ Bundle # Nothing
  OBVIOUS
<1>1. Bundle \in Copies /\ Bundle.trusted = ca /\ Bundle.ver = ver
  BY DEF Bundle, Copies, TrustInv
<1>2. ca[1] \in Names(ca)
  BY DEF Names, TrustInv
<1> QED BY <1>1, <1>2, DistributionAssumption DEF Covers, TrustInv, Copies

\* A step that adds no signer but the CA in use keeps every copy good.
LEMMA CoversStays ==
  ASSUME NEW b, Covers(b), UNCHANGED <<ca, ver>>, Signers' \subseteq Signers \cup {ca[1]}
  PROVE  Covers(b)'
BY DEF Covers

\* Such a step keeps the invariant when the copies are old ones or the bundle.
LEMMA CopyStep ==
  ASSUME TrustInv, UNCHANGED <<ca, made, ver>>, Signers' \subseteq Signers \cup {ca[1]},
         poll'.pc = "read" => poll' = poll \/ poll'.with = Bundle,
         peer' = peer \/ (poll.pc = "read" /\ peer' = poll.with),
         jwks' = [a \in Agents |-> jwks'[a]],
         call' = [a \in Agents |-> [k \in Kinds |-> call'[a][k]]],
         \A a \in Agents :
           /\ jwks'[a] \in {jwks[a], Nothing}
              \/ (call[a]["jwks"].pc = "read" /\ jwks'[a] = call[a]["jwks"].with)
           /\ call'[a]["jwks"].pc = "read" =>
                call'[a]["jwks"] = call[a]["jwks"] \/ call'[a]["jwks"].with = Bundle
  PROVE  TrustInv'
<1>1. ca[1] \in Names(ca)
  BY DEF Names, TrustInv
<1>2. (Signers \subseteq Names(ca))'
  BY <1>1 DEF TrustInv, Names
<1>3. Covers(Bundle)'
  <2>1. Covers(Bundle)
    BY ServedCovers
  <2> QED BY <2>1 DEF Covers, Bundle
<1>4. \A b : Covers(b) => Covers(b)'
  BY CoversStays
<1>5. Bundle' = Bundle
  BY DEF Bundle
<1>6. (poll.pc = "read" => Covers(poll.with))'
  BY Zenon, <1>3, <1>4, <1>5 DEF TrustInv, Covers
<1>7. (peer # Nothing => Covers(peer))'
  BY Zenon, <1>4 DEF TrustInv, Covers
<1>8. ASSUME NEW a \in Agents
      PROVE  (jwks[a] # Nothing => Covers(jwks[a]))'
  <2>1. jwks'[a] # Nothing => Covers(jwks'[a])
    BY <1>8 DEF TrustInv
  <2> QED BY <2>1, <1>4 DEF Covers
<1>9. ASSUME NEW a \in Agents
      PROVE  (call[a]["jwks"].pc = "read" => Covers(call[a]["jwks"].with))'
  <2>1. call'[a]["jwks"].pc = "read" => Covers(call'[a]["jwks"].with)
    BY <1>9, ServedCovers DEF TrustInv
  <2> QED BY <2>1, <1>4 DEF Covers
<1> QED BY <1>2, <1>6, <1>7, <1>8, <1>9 DEF TrustInv

\* One call of one agent moves on; the others stay.
LEMMA GoStep ==
  ASSUME TrustInv, NEW b \in Agents, NEW k \in Kinds, NEW pc, NEW with, Go(b, k, pc, with)
  PROVE  /\ call' = [a \in Agents |-> [j \in Kinds |-> call'[a][j]]]
         /\ call'[b][k] = At(pc, with)
         /\ \A a \in Agents, j \in Kinds : <<a, j>> # <<b, k>> => call'[a][j] = call[a][j]
BY Zenon DEF TrustInv, Go

\* A call that does not end with a JWKS in hand keeps what was read.
LEMMA GoKeepsJWKS ==
  ASSUME TrustInv, NEW b \in Agents, NEW k \in Kinds, NEW pc, NEW with, Go(b, k, pc, with),
         k = "jwks" => pc # "read"
  PROVE  /\ call' = [a \in Agents |-> [j \in Kinds |-> call'[a][j]]]
         /\ \A a \in Agents :
              call'[a]["jwks"].pc = "read" => call'[a]["jwks"] = call[a]["jwks"]
<1>1. ASSUME NEW a \in Agents, call'[a]["jwks"].pc = "read"
      PROVE  call'[a]["jwks"] = call[a]["jwks"]
  <2>1. "jwks" \in Kinds
    BY DEF Kinds
  <2>2. CASE a = b /\ k = "jwks"
    <3>1. call'[b][k] = At(pc, with)
      BY GoStep
    <3>2. At(pc, with).pc = pc
      BY DEF At
    <3> QED BY <1>1, <2>2, <3>1, <3>2
  <2> QED BY <2>1, <2>2, <1>1, GoStep
<1> QED BY <1>1, GoStep

\* The operator's step. Whatever was read is of the last reload, so it is the
\* whole bundle, and the new signer is in it; afterwards it is an older one.
LEMMA ReloadTrust == TrustInv /\ ReloadCA => TrustInv'
<1> SUFFICES ASSUME TrustInv, ReloadCA PROVE TrustInv'
  OBVIOUS
<1>1. /\ ca' \in Seq(Nat) /\ Len(ca') \in {1, 2} /\ made' \in Nat /\ ver' = ver + 1
      /\ ca'[1] \in Names(ca) /\ UNCHANGED Signers
      /\ UNCHANGED <<poll, peer, jwks, call>>
  <2>1. UNCHANGED Signers /\ UNCHANGED <<poll, peer, jwks, call>> /\ ver' = ver + 1
    BY DEF ReloadCA, fetch, agent, creds, Signers
  <2>2. ca[1] \in Names(ca) /\ ca[1] \in Nat
    BY NamesAt DEF TrustInv
  <2>3. CASE Len(ca) = 1 /\ ca' = Append(ca, made + 1) /\ made' = made + 1
    <3>1. ca' \in Seq(Nat) /\ Len(ca') = 2 /\ ca'[1] = ca[1]
      <4>1. ca \in Seq(Nat) /\ made + 1 \in Nat
        BY DEF TrustInv
      <4>2. /\ Append(ca, made + 1) \in Seq(Nat) /\ Len(Append(ca, made + 1)) = Len(ca) + 1
            /\ \A i \in 1..Len(ca) : Append(ca, made + 1)[i] = ca[i]
        BY <4>1, AppendAt, Zenon
      <4> DEFINE next == Append(ca, made + 1)
      <4>3. next \in Seq(Nat) /\ Len(next) = Len(ca) + 1 /\ \A i \in 1..Len(ca) : next[i] = ca[i]
        BY <4>2
      <4>4. ca' = next /\ Len(ca) = 1
        BY <2>3
      <4> HIDE DEF next
      <4> QED BY <4>3, <4>4
    <3> QED BY <2>1, <2>2, <2>3, <3>1 DEF TrustInv
  <2>4. CASE Len(ca) = 2
    <3>1. ca \in Seq(Nat) /\ made \in Nat
      BY DEF TrustInv
    <3>2. CASE ca' = <<ca[2], ca[1]>> /\ UNCHANGED made
      BY <2>1, <2>4, <3>1, <3>2, TwoAt
    <3>3. CASE ca' = <<ca[1]>> /\ UNCHANGED made
      BY <2>1, <2>2, <2>4, <3>1, <3>3, TwoAt
    <3> QED BY <2>4, <3>2, <3>3 DEF ReloadCA
  <2> QED BY <2>3, <2>4 DEF ReloadCA
<1>2. Signers \subseteq Names(ca')
  <2>1. Len(ca) = 1 /\ ca' = Append(ca, made + 1) => Names(ca) \subseteq Names(ca')
    BY DEF TrustInv, Names
  <2>2. Len(ca) = 2 /\ ca' = <<ca[2], ca[1]>> => Names(ca) \subseteq Names(ca')
    BY DEF TrustInv, Names
  <2>3. Len(ca) = 2 /\ ca' = <<ca[1]>> => Names(ca) \subseteq Names(ca') \cup {ca[2]}
    BY DEF TrustInv, Names
  <2>4. Expired(ca[2]) => ca[2] \notin Signers
    BY DEF Expired, Signers
  <2> QED BY <2>1, <2>2, <2>3, <2>4 DEF ReloadCA, TrustInv
<1>3. ASSUME NEW b, Covers(b), Read(b) PROVE Covers(b)'
  <2>1. b.trusted = ca /\ b.ver = ver /\ b \in Copies
    BY <1>3, DistributionAssumption DEF Covers, Read, Copies
  <2>2. Signers \cup {ca'[1]} \subseteq Names(b.trusted)
    BY <2>1, <1>1 DEF TrustInv
  <2> QED BY <2>1, <2>2, <1>1 DEF Covers, TrustInv
<1>4. (poll.pc = "read" => Covers(poll.with))'
  BY Zenon, <1>1, <1>3 DEF TrustInv, ReloadCA, Settled, Covers
<1>5. (peer # Nothing => Covers(peer))'
  BY Zenon, <1>1, <1>3 DEF TrustInv, ReloadCA, Settled, Covers
<1>6. ASSUME NEW a \in Agents
      PROVE  (/\ jwks[a] # Nothing => Covers(jwks[a])
              /\ call[a]["jwks"].pc = "read" => Covers(call[a]["jwks"].with))'
  <2>1. Read(jwks[a]) /\ Read(call[a]["jwks"].with)
    BY <1>6 DEF ReloadCA, Settled, Kinds
  <2>2. /\ jwks'[a] # Nothing => Covers(jwks'[a]) /\ Read(jwks'[a])
        /\ call'[a]["jwks"].pc = "read" =>
             Covers(call'[a]["jwks"].with) /\ Read(call'[a]["jwks"].with)
    BY <1>1, <1>6, <2>1 DEF TrustInv
  <2> QED BY <2>2, <1>3 DEF Covers
<1> QED BY <1>1, <1>2, <1>4, <1>5, <1>6 DEF TrustInv

LEMMA TrustStep == TrustInv /\ [Next]_vars => TrustInv'
<1> SUFFICES ASSUME TrustInv, [Next]_vars PROVE TrustInv'
  OBVIOUS
<1>0. \A k \in {"x509", "jwt"} : k \in Kinds /\ k # "jwks"
  BY DEF Kinds
<1>1. CASE ReloadCA
  BY <1>1, ReloadTrust
<1>2. CASE UNCHANGED <<ca, made, ver, poll, peer, jwks, call>> /\ Signers' \subseteq Signers
  <2>1. TrustInv => jwks = [a \in Agents |-> jwks[a]]
    BY DEF TrustInv
  <2>2. TrustInv => call = [a \in Agents |-> [k \in Kinds |-> call[a][k]]]
    BY DEF TrustInv
  <2> QED BY <1>2, <2>1, <2>2, CopyStep
<1>3. CASE SetOwnBundle \/ \E c \in 1..certs : refreshAt(c)
  BY <1>2, <1>3 DEF SetOwnBundle, refreshAt, server, fetch, agent, creds, Signers
<1>4. CASE Expire
  <2>1. Signers' \subseteq Signers
    BY <1>4 DEF Expire, Signers
  <2> QED BY <2>1, <1>2, <1>4 DEF Expire, server, fetch, agent
<1>5. CASE runPeer \/ fetchPeer
  <2>1. UNCHANGED <<ca, made, ver, jwks, call>> /\ UNCHANGED Signers
    BY <1>5 DEF runPeer, fetchTDF, fetchPEM, refreshOne, fetchPeer, server, agent, creds, Signers
  <2>2. poll'.pc = "read" => poll'.with = Bundle
    BY <1>5 DEF runPeer, fetchTDF, fetchPEM, refreshOne, fetchPeer, At, Idle
  <2>3. peer' = peer \/ (poll.pc = "read" /\ peer' = poll.with)
    BY <1>5 DEF runPeer, fetchTDF, fetchPEM, refreshOne, fetchPeer
  <2>4. jwks = [a \in Agents |-> jwks[a]] /\ call = [a \in Agents |-> [k \in Kinds |-> call[a][k]]]
    BY DEF TrustInv
  <2> QED BY <2>1, <2>2, <2>3, <2>4, CopyStep
<1>6. ASSUME NEW b \in Agents, NEW k \in Kinds, NEW pc, NEW with, Go(b, k, pc, with),
             k = "jwks" => pc # "read",
             UNCHANGED <<ca, made, ver, poll, peer>>, Signers' \subseteq Signers \cup {ca[1]},
             \/ UNCHANGED jwks
             \/ /\ call[b]["jwks"].pc = "read"
                /\ jwks' = [jwks EXCEPT ![b] = call[b]["jwks"].with]
      PROVE  TrustInv'
  <2>1. /\ call' = [a \in Agents |-> [j \in Kinds |-> call'[a][j]]]
        /\ \A a \in Agents :
             call'[a]["jwks"].pc = "read" => call'[a]["jwks"] = call[a]["jwks"]
    BY <1>6, GoKeepsJWKS
  <2>2. /\ jwks' = [a \in Agents |-> jwks'[a]]
        /\ \A a \in Agents :
             \/ jwks'[a] \in {jwks[a], Nothing}
             \/ call[a]["jwks"].pc = "read" /\ jwks'[a] = call[a]["jwks"].with
    BY <1>6 DEF TrustInv
  <2> QED BY <1>6, <2>1, <2>2, CopyStep
<1>7. ASSUME NEW a \in Agents, NEW k \in {"x509", "jwt"}, issueSVID(a, k) PROVE TrustInv'
  <2>1. \E pc, with : Go(a, k, pc, with)
    BY <1>7 DEF issueSVID
  <2>2. Signers' \subseteq Signers \cup {ca[1]}
    BY <1>7 DEF issueSVID, Signers
  <2>3. UNCHANGED <<ca, made, ver, poll, peer, jwks>>
    BY <1>7 DEF issueSVID, server, fetch
  <2> QED BY <1>0, <1>6, <1>7, <2>1, <2>2, <2>3
<1>8. ASSUME NEW a \in Agents, NEW k \in {"x509", "jwt"}, getOrRefresh(a, k) PROVE TrustInv'
  <2>1. \E pc, with : Go(a, k, pc, with)
    BY <1>8 DEF getOrRefresh
  <2>2. UNCHANGED <<ca, made, ver, poll, peer, jwks>> /\ UNCHANGED Signers
    BY <1>8 DEF getOrRefresh, server, fetch, creds, Signers
  <2> QED BY <1>0, <1>6, <1>8, <2>1, <2>2
<1>9. ASSUME NEW a \in Agents, FetchX509SVID(a) PROVE TrustInv'
  <2>1. Go(a, "x509", "ask", Nothing) \/ UNCHANGED call
    BY <1>9 DEF FetchX509SVID
  <2>2. UNCHANGED <<ca, made, ver, poll, peer, jwks>> /\ UNCHANGED Signers
    BY <1>9 DEF FetchX509SVID, server, fetch, creds, Signers
  <2> QED BY <1>0, <1>2, <1>6, <1>9, <2>1, <2>2
<1>10. ASSUME NEW a \in Agents, FetchJWTSVID(a) \/ issueJWTSVID(a) PROVE TrustInv'
  <2>1. \E pc, with : Go(a, "jwt", pc, with)
    BY <1>10 DEF FetchJWTSVID, issueJWTSVID
  <2>2. Signers' \subseteq Signers \cup {ca[1]}
    BY <1>10 DEF FetchJWTSVID, issueJWTSVID, creds, Signers
  <2>3. UNCHANGED <<ca, made, ver, poll, peer, jwks>>
    BY <1>10 DEF FetchJWTSVID, issueJWTSVID, server, fetch
  <2> QED BY <1>0, <1>6, <1>10, <2>1, <2>2, <2>3
<1>11. ASSUME NEW a \in Agents, FetchX509Bundles(a) PROVE TrustInv'
  BY <1>2, <1>11 DEF FetchX509Bundles, server, fetch, creds, Signers
<1>12. ASSUME NEW a \in Agents, fetchJWTBundle(a) PROVE TrustInv'
  <2>1. /\ Go(a, "jwks", "read", Bundle) /\ UNCHANGED Signers
        /\ UNCHANGED <<ca, made, ver, poll, peer, jwks>>
    BY <1>12 DEF fetchJWTBundle, server, fetch, creds, Signers
  <2>2. "jwks" \in Kinds
    BY DEF Kinds
  <2>3. /\ call' = [b \in Agents |-> [j \in Kinds |-> call'[b][j]]]
        /\ call'[a]["jwks"] = At("read", Bundle)
        /\ \A b \in Agents : b # a => call'[b]["jwks"] = call[b]["jwks"]
    BY <1>12, <2>1, <2>2, GoStep
  <2>4. At("read", Bundle).with = Bundle
    BY DEF At
  <2>5. jwks = [b \in Agents |-> jwks[b]]
    BY DEF TrustInv
  <2> QED BY <2>1, <2>3, <2>4, <2>5, CopyStep
<1>13. ASSUME NEW a \in Agents, cachedJWKS(a) PROVE TrustInv'
  <2>1. /\ Go(a, "jwks", "idle", Nothing) /\ UNCHANGED Signers
        /\ UNCHANGED <<ca, made, ver, poll, peer>>
    BY <1>13 DEF cachedJWKS, server, fetch, creds, Signers
  <2>2. call[a]["jwks"].pc = "read" /\ jwks' = [jwks EXCEPT ![a] = call[a]["jwks"].with]
    BY <1>13 DEF cachedJWKS
  <2>3. "jwks" \in Kinds
    BY DEF Kinds
  <2> QED BY Zenon, <1>6, <1>13, <2>1, <2>2, <2>3
<1>14. ASSUME NEW a \in Agents, Lapse(a) PROVE TrustInv'
  <2>1. UNCHANGED <<ca, made, ver, poll, peer, call>> /\ UNCHANGED Signers
    BY <1>14 DEF Lapse, server, fetch, creds, Signers
  <2>2. /\ jwks' = [b \in Agents |-> jwks'[b]]
        /\ \A b \in Agents : jwks'[b] \in {jwks[b], Nothing}
    BY Zenon, <1>14 DEF Lapse, TrustInv
  <2>3. call = [b \in Agents |-> [k \in Kinds |-> call[b][k]]]
    BY DEF TrustInv
  <2> QED BY <2>1, <2>2, <2>3, CopyStep
<1>15. ASSUME NEW a \in Agents, NEW k \in Kinds, CallFails(a, k) PROVE TrustInv'
  <2>1. /\ Go(a, k, "idle", Nothing) /\ UNCHANGED Signers
        /\ UNCHANGED <<ca, made, ver, poll, peer, jwks>>
    BY <1>15 DEF CallFails, server, fetch, creds, Signers
  <2> QED BY <1>6, <1>15, <2>1
<1>16. CASE UNCHANGED vars
  BY <1>2, <1>16 DEF vars, server, fetch, agent, creds, Signers
<1>17. ASSUME NEW a \in Agents, Serve(a) PROVE TrustInv'
  BY <1>7, <1>8, <1>9, <1>10, <1>11, <1>12, <1>13, <1>17 DEF Serve
<1> QED BY <1>1, <1>3, <1>4, <1>5, <1>14, <1>15, <1>16, <1>17 DEF Next

LEMMA TrustInit == Init => TrustInv
<1> SUFFICES ASSUME Init PROVE TrustInv
  OBVIOUS
<1>1. ca = <<1>> /\ made = 1 /\ ver = 0 /\ poll = Idle /\ peer = Nothing /\ Signers = {}
  BY DEF Init, Signers
<1>2. Idle.pc # "read"
  BY DEF Idle, At
<1>3. /\ jwks = [a \in Agents |-> Nothing]
      /\ call = [a \in Agents |-> [k \in Kinds |-> Idle]]
  BY DEF Init
<1>4. \A a \in Agents : jwks[a] = Nothing /\ call[a]["jwks"].pc # "read"
  BY <1>2, <1>3 DEF Kinds
<1>5. ca \in Seq(Nat) /\ Len(ca) = 1
  BY <1>1
<1> QED BY <1>1, <1>2, <1>3, <1>4, <1>5 DEF TrustInv

LEMMA TrustInvHolds == Spec => []TrustInv
BY TrustInit, TrustStep, PTL DEF Spec

(* Every valid JWT-SVID verifies at every agent, through its JWKS cache or    *)
(* with a JWKS that is being fetched, for any number of agents, CAs and       *)
(* failed calls.                                                              *)
THEOREM TokensVerifyHolds == Spec => []TokensVerify
<1>1. TrustInv => TokensVerify
  <2> SUFFICES ASSUME TrustInv, NEW t \in tokens, NEW a \in Agents
               PROVE  /\ validateAgainstJWKS(a, t)
                      /\ call[a]["jwks"].pc = "read" => t \in Trusted(call[a]["jwks"].with)
    BY DEF TokensVerify
  <2>1. \A b : Covers(b) => t \in Trusted(b)
    BY DEF Covers, Signers, Names, Trusted
  <2> QED BY <2>1, ServedCovers DEF TrustInv, validateAgainstJWKS
<1> QED BY <1>1, TrustInvHolds, PTL

(* The peer's copy of the bundle always has the signer of every valid         *)
(* X.509-SVID.                                                                *)
THEOREM PeerTrustsHolds == Spec => []PeerTrusts
<1>1. TrustInv => PeerTrusts
  BY Zenon DEF TrustInv, Covers, Signers, Names, Trusted, PeerTrusts
<1> QED BY <1>1, TrustInvHolds, PTL

-----------------------------------------------------------------------------
(* Policy.                                                                   *)

Modes == [signed : BOOLEAN, spool : BOOLEAN]

Answers == [kind : {"none", "304", "bundle"}, rev : 0..MaxRev, at : Int, due : Int]

PDPs ==
  [up : BOOLEAN, rev : 0..MaxRev, at : Int, issuedAt : Int, synced : Int, save : BOOLEAN]

SyncTypeOK ==
  /\ mode \in Modes /\ now \in Nat
  /\ serves \in [Servers -> 1..MaxRev] /\ last \in [1..MaxRev -> Nat]
  /\ kept \in Answers /\ reply \in Answers /\ pdp \in PDPs
  /\ mark \in Int /\ top \in Int /\ missed \in BOOLEAN /\ syncFaults \in Nat

\* The marks are not in the future, and a run that began with the newest mark
\* has the newest.
Marks ==
  /\ pdp.issuedAt <= now /\ mark <= now /\ top >= Never
  /\ pdp.up /\ ~missed => pdp.issuedAt = top
  /\ mode.signed /\ pdp.rev # 0 => pdp.at + maxClockSkew >= pdp.issuedAt
  /\ ~pdp.up => pdp.rev = 0
  /\ reply.kind # "none" => pdp.up

\* A revision is not stamped later than it was served, by the fastest clock.
Stamped(a) == last[a.rev] + Ahead >= a.at

\* What an answer says of its revision, and what the PDP knows of its own.
Served ==
  /\ \A s \in Servers : last[serves[s]] = now
  /\ \A v \in 1..MaxRev : last[v] <= now
  /\ kept # None => kept.kind = "bundle" /\ kept.rev # 0 /\ Stamped(kept)
  /\ reply.kind = "bundle" => reply.rev # 0
  /\ reply.kind # "none" => now <= reply.due
  /\ mode.signed /\ reply.kind = "bundle" => Stamped(reply)
  /\ ~mode.signed /\ reply.kind # "none" =>
       reply.rev # 0 /\ reply.due - last[reply.rev] <= Timeout
  /\ ~mode.signed /\ reply.kind = "304" => reply.rev = pdp.rev
  /\ pdp.synced # Never =>
       pdp.rev # 0 /\ pdp.synced - last[pdp.rev] <= Latency - MaxAge

SyncInv == SyncTypeOK /\ Marks /\ Served

-----------------------------------------------------------------------------

LEMMA SyncInitInv == SyncInit => SyncInv
<1> SUFFICES ASSUME SyncInit PROVE SyncInv
  OBVIOUS
<1>1. None \in Answers /\ New(TRUE, Never) \in PDPs
  BY SyncAssumption DEF Answers, PDPs, None, New
<1>2. SyncTypeOK
  <2>1. mode \in Modes
    BY DEF SyncInit, Modes
  <2>2. serves \in [Servers -> 1..MaxRev] /\ last \in [1..MaxRev -> Nat]
    BY SyncAssumption DEF SyncInit
  <2> QED
    BY Zenon, <1>1, <2>1, <2>2, SyncAssumption DEF SyncInit, SyncTypeOK
<1>3. Marks /\ Served
  BY SyncAssumption DEF SyncInit, Marks, Served, None, New, Latency
<1> QED
  BY <1>2, <1>3 DEF SyncInv

\* The part of Served that speaks of the past.
StillServed ==
  /\ kept # None => kept.kind = "bundle" /\ kept.rev # 0 /\ Stamped(kept)
  /\ mode.signed /\ reply.kind = "bundle" => Stamped(reply)
  /\ ~mode.signed /\ reply.kind # "none" =>
       reply.rev # 0 /\ reply.due - last[reply.rev] <= Timeout
  /\ pdp.synced # Never =>
       pdp.rev # 0 /\ pdp.synced - last[pdp.rev] <= Latency - MaxAge

\* It stays when revisions are served for longer.
LEMMA LastGrows ==
  ASSUME SyncInv, UNCHANGED <<mode, kept, reply, pdp>>,
         last' \in [1..MaxRev -> Nat], \A v \in 1..MaxRev : last[v] <= last'[v]
  PROVE  StillServed'
<1>1. /\ kept.rev \in 0..MaxRev /\ kept.at \in Int
      /\ reply.rev \in 0..MaxRev /\ reply.at \in Int /\ reply.due \in Int
      /\ pdp.rev \in 0..MaxRev /\ pdp.synced \in Int
      /\ last \in [1..MaxRev -> Nat]
  BY DEF SyncInv, SyncTypeOK, Answers, PDPs
<1>2. MaxRev \in Nat /\ Ahead \in Nat /\ Timeout \in Nat /\ MaxAge \in Nat
  BY SyncAssumption
<1>3. \A v \in 0..MaxRev : v # 0 =>
        last[v] \in Nat /\ last'[v] \in Nat /\ last[v] <= last'[v]
  BY <1>1, <1>2
<1>4. Latency \in Int /\ Latency' = Latency
  BY <1>2 DEF Latency
<1>5. ASSUME NEW v \in 0..MaxRev, NEW t \in Int, v # 0, last[v] + Ahead >= t
      PROVE  last'[v] + Ahead >= t
  <2>1. last[v] \in Nat /\ last'[v] \in Nat /\ last[v] <= last'[v]
    BY <1>3, <1>5
  <2> QED
    BY <1>2, <1>5, <2>1
<1>6. (kept # None => kept.kind = "bundle" /\ kept.rev # 0 /\ Stamped(kept))'
  <2> SUFFICES ASSUME kept # None
               PROVE  kept.kind = "bundle" /\ kept.rev # 0 /\ last'[kept.rev] + Ahead >= kept.at
    BY DEF Stamped, None
  <2>1. kept.kind = "bundle" /\ kept.rev # 0 /\ last[kept.rev] + Ahead >= kept.at
    BY DEF SyncInv, Served, Stamped
  <2> QED
    BY <1>1, <1>5, <2>1
<1>7. (mode.signed /\ reply.kind = "bundle" => Stamped(reply))'
  <2> SUFFICES ASSUME mode.signed, reply.kind = "bundle"
               PROVE  last'[reply.rev] + Ahead >= reply.at
    BY DEF Stamped
  <2>1. reply.rev # 0 /\ last[reply.rev] + Ahead >= reply.at
    BY DEF SyncInv, Served, Stamped
  <2> QED
    BY <1>1, <1>5, <2>1
<1>8. (~mode.signed /\ reply.kind # "none" =>
         reply.rev # 0 /\ reply.due - last[reply.rev] <= Timeout)'
  <2> SUFFICES ASSUME ~mode.signed, reply.kind # "none"
               PROVE  reply.rev # 0 /\ reply.due - last'[reply.rev] <= Timeout
    OBVIOUS
  <2>1. reply.rev # 0 /\ reply.due - last[reply.rev] <= Timeout
    BY DEF SyncInv, Served
  <2>2. last[reply.rev] \in Nat /\ last'[reply.rev] \in Nat /\ last[reply.rev] <= last'[reply.rev]
    BY <1>1, <1>3, <2>1
  <2> QED
    BY <1>1, <1>2, <2>1, <2>2
<1>9. (pdp.synced # Never => pdp.rev # 0 /\ pdp.synced - last[pdp.rev] <= Latency - MaxAge)'
  <2> SUFFICES ASSUME pdp.synced # Never
               PROVE  pdp.rev # 0 /\ pdp.synced - last'[pdp.rev] <= Latency - MaxAge
    BY <1>4
  <2>1. pdp.rev # 0 /\ pdp.synced - last[pdp.rev] <= Latency - MaxAge
    BY DEF SyncInv, Served
  <2>2. last[pdp.rev] \in Nat /\ last'[pdp.rev] \in Nat /\ last[pdp.rev] <= last'[pdp.rev]
    BY <1>1, <1>3, <2>1
  <2> QED
    BY <1>1, <1>2, <1>4, <2>1, <2>2
<1> QED
  BY <1>6, <1>7, <1>8, <1>9 DEF StillServed

\* A server loads its next revision: the revisions it leaves were served until
\* now.
LEMMA LoadSourcesInv ==
  ASSUME SyncInv, NEW s \in Servers, LoadSources(s) PROVE SyncInv'
<1> USE SyncAssumption DEF LoadSources, SyncInv
<1>1. SyncTypeOK'
  BY DEF SyncTypeOK
<1>2. \A v \in 1..MaxRev : last[v] <= last'[v] /\ last'[v] <= now
  BY DEF SyncTypeOK, Served
<1>3. Marks'
  BY DEF SyncTypeOK, Marks
<1>4. (\A x \in Servers : last[serves[x]] = now)'
  BY <1>2 DEF SyncTypeOK, Served
<1>5. StillServed'
  BY SMTT(20), <1>1, <1>2, LastGrows DEF SyncTypeOK
<1>6. Served'
  BY <1>2, <1>4, <1>5 DEF Served, StillServed
<1> QED
  BY <1>1, <1>3, <1>6

LEMMA getPolicyBundleInv ==
  ASSUME SyncInv, NEW s \in Servers, getPolicyBundle(s) PROVE SyncInv'
<1> USE SyncAssumption DEF getPolicyBundle, SyncInv, settings
<1>1. SignBundle(s) \in Answers /\ Answer("304", pdp.rev, Never) \in Answers
  <2>1. serves[s] \in 0..MaxRev /\ now + Offset[s] \in Int /\ now + Timeout \in Int
    BY DEF SyncTypeOK
  <2>2. pdp.rev \in 0..MaxRev
    BY DEF SyncTypeOK, PDPs
  <2> QED
    BY <2>1, <2>2 DEF SignBundle, Answer, Answers
<1>2. SyncTypeOK'
  BY <1>1 DEF SyncTypeOK
<1>3. Marks'
  BY DEF SyncTypeOK, Marks, None
<1>4. SignBundle(s).rev # 0 /\ Stamped(SignBundle(s)) /\ SignBundle(s).kind = "bundle"
        /\ SignBundle(s).due - last[SignBundle(s).rev] <= Timeout
        /\ SignBundle(s).due >= now
  BY DEF SyncTypeOK, Served, SignBundle, Answer, Stamped
<1>5. ~mode.signed /\ pdp.rev = serves[s] =>
        /\ pdp.rev # 0 /\ last[pdp.rev] = now
  BY DEF SyncTypeOK, Served
<1>6. (kept # None => kept.kind = "bundle" /\ kept.rev # 0 /\ Stamped(kept))'
  BY <1>4 DEF Served, Stamped
<1>7. (/\ reply.kind = "bundle" => reply.rev # 0
       /\ reply.kind # "none" => now <= reply.due
       /\ mode.signed /\ reply.kind = "bundle" => Stamped(reply)
       /\ ~mode.signed /\ reply.kind # "none" =>
            reply.rev # 0 /\ reply.due - last[reply.rev] <= Timeout
       /\ ~mode.signed /\ reply.kind = "304" => reply.rev = pdp.rev)'
  <2>1. CASE ~mode.signed /\ pdp.rev = serves[s]
    BY <2>1, <1>5 DEF SyncTypeOK, Answer, Stamped
  <2>2. CASE ~(~mode.signed /\ pdp.rev = serves[s])
    BY <2>2, <1>4 DEF Stamped
  <2> QED
    BY <2>1, <2>2
<1>8. Served'
  BY <1>6, <1>7 DEF Served, Latency
<1> QED
  BY <1>2, <1>3, <1>8

LEMMA EarlierAnswerInv == ASSUME SyncInv, EarlierAnswer PROVE SyncInv'
<1> USE SyncAssumption DEF EarlierAnswer, SyncInv, settings
<1>1. SyncTypeOK'
  <2>1. /\ kept.rev \in 0..MaxRev /\ kept.at \in Int /\ pdp.rev \in 0..MaxRev
        /\ now + Timeout \in Int
    BY DEF SyncTypeOK, Answers, PDPs
  <2>2. Answer("bundle", kept.rev, kept.at) \in Answers /\ Answer("304", pdp.rev, Never) \in Answers
    BY <2>1 DEF Answer, Answers
  <2> QED
    BY <2>2 DEF SyncTypeOK
<1>2. Marks'
  BY DEF SyncTypeOK, Marks, None
<1>3. (/\ now <= reply.due
       /\ reply.kind = "bundle" => kept # None /\ reply.rev = kept.rev /\ reply.at = kept.at)'
  BY DEF SyncTypeOK, Answer
<1>4. Served'
  BY <1>3 DEF Served, Stamped, Latency
<1> QED
  BY <1>1, <1>2, <1>4

\* A revision served at l at the latest, whose stamp is not too old at time t.
LEMMA AgeBound ==
  ASSUME NEW t \in Int, NEW l \in Int, NEW a \in Int, l + Ahead >= a, t - a <= MaxAge
  PROVE  t - l <= MaxAge + Ahead
BY SyncAssumption

\* Sync: the mark follows the stamp but not the future, and what is loaded was
\* served no longer ago than its checks, or the client's patience, allow.
LEMMA SyncStepInv == ASSUME SyncInv, Sync PROVE SyncInv'
<1> USE SyncAssumption DEF SyncInv
<1>1. /\ reply.rev \in 0..MaxRev /\ reply.at \in Int /\ reply.due \in Int
      /\ pdp.rev \in 0..MaxRev /\ pdp.at \in Int /\ pdp.issuedAt \in Int
      /\ pdp.synced \in Int /\ now \in Nat /\ top \in Int /\ mark \in Int
      /\ reply.kind \in {"none", "304", "bundle"} /\ last \in [1..MaxRev -> Nat]
  BY DEF SyncTypeOK, Answers, PDPs
<1>2. /\ reply' \in Answers /\ reply'.kind = "none"
      /\ UNCHANGED <<mode, serves, last, now, kept, mark, missed, syncFaults>>
  BY DEF Sync, settings, Answers, None
<1>3. CASE /\ mode.signed
           /\ reply.kind = "304" \/ (reply.kind = "bundle" /\ ~Acceptable(reply.at))
  <2>1. UNCHANGED <<pdp, top>>
    BY <1>3 DEF Sync
  <2>2. SyncTypeOK' /\ Marks'
    BY <1>2, <2>1 DEF SyncTypeOK, Marks
  <2>3. Served'
    BY <1>2, <2>1 DEF Served, Stamped, Latency
  <2> QED
    BY <2>2, <2>3
<1>4. CASE reply.kind = "304" /\ ~mode.signed
  <2>1. pdp' = [pdp EXCEPT !.synced = now] /\ UNCHANGED top
    BY <1>4 DEF Sync
  <2>2. /\ pdp' \in PDPs /\ pdp'.synced = now /\ pdp'.up = pdp.up /\ pdp'.rev = pdp.rev
        /\ pdp'.at = pdp.at /\ pdp'.issuedAt = pdp.issuedAt
    <3>1. pdp \in PDPs
      BY DEF SyncTypeOK
    <3>2. now \in Int /\ pdp' = [pdp EXCEPT !.synced = now]
      BY <1>1, <2>1
    <3>3. pdp' \in PDPs
      BY <3>1, <3>2 DEF PDPs
    <3> QED
      BY <3>1, <3>2, <3>3 DEF PDPs
  <2>3. SyncTypeOK' /\ Marks'
    BY <1>2, <2>1, <2>2 DEF SyncTypeOK, Marks
  <2>4. pdp.rev # 0 /\ now - last[pdp.rev] <= Timeout
    <3>1. reply.rev = pdp.rev /\ reply.rev # 0 /\ reply.due - last[reply.rev] <= Timeout /\ now <= reply.due
      BY <1>4 DEF Served
    <3>2. last[pdp.rev] \in Nat
      BY <1>1, <3>1 DEF SyncTypeOK
    <3> QED
      BY <1>1, <3>1, <3>2
  <2>5. (pdp.synced # Never => pdp.rev # 0 /\ pdp.synced - last[pdp.rev] <= Latency - MaxAge)'
    BY <1>2, <1>4, <2>2, <2>4 DEF Latency
  <2>6. Served'
    BY <1>2, <2>5 DEF Served, Stamped
  <2> QED
    BY <2>3, <2>6
<1>5. CASE reply.kind = "bundle" /\ (mode.signed => Acceptable(reply.at))
  <2> DEFINE stamp    == IF mode.signed THEN reply.at ELSE Never
             advanced == Mark(stamp) > pdp.issuedAt
  <2>1. /\ pdp' = [up |-> TRUE, rev |-> reply.rev, at |-> stamp, synced |-> now,
                   issuedAt |-> IF advanced THEN Mark(stamp) ELSE pdp.issuedAt,
                   save |-> advanced]
        /\ top' = IF Mark(stamp) > top THEN Mark(stamp) ELSE top
    BY <1>5 DEF Sync
  <2>2. stamp \in Int /\ Mark(stamp) \in Int /\ Mark(stamp) <= now /\ Mark(stamp) <= stamp
    BY <1>1 DEF Mark
  <2>3. SyncTypeOK'
    <3>1. pdp' \in PDPs
      BY <1>1, <2>1, <2>2 DEF PDPs
    <3>2. top' \in Int
      BY <1>1, <2>1, <2>2
    <3> QED
      BY <1>2, <3>1, <3>2 DEF SyncTypeOK
  <2>4. Marks'
    <3>1. pdp'.issuedAt <= now /\ mark <= now /\ top' >= Never
      BY <1>1, <2>1, <2>2 DEF Marks
    <3>2. ~missed => pdp'.issuedAt = top'
      BY <1>1, <1>5, <2>1, <2>2 DEF Marks
    <3>3. mode.signed => pdp'.at + maxClockSkew >= pdp'.issuedAt
      <4>1. mode.signed => stamp >= pdp.issuedAt - maxClockSkew
        BY <1>5 DEF Acceptable
      <4>2. pdp'.at = stamp /\ (pdp'.issuedAt = Mark(stamp) \/ pdp'.issuedAt = pdp.issuedAt)
        BY <2>1
      <4> QED
        BY <1>1, <2>2, <4>1, <4>2
    <3> QED
      BY <1>2, <2>1, <3>1, <3>2, <3>3 DEF Marks
  <2>5. reply.rev # 0 /\ last[reply.rev] \in Nat
    <3>1. reply.rev # 0
      BY <1>5 DEF Served
    <3> QED
      BY <1>1, <3>1
  <2>6. now - last[reply.rev] <= Latency - MaxAge
    <3>1. CASE mode.signed
      <4>1. last[reply.rev] + Ahead >= reply.at /\ now - reply.at <= MaxAge
        BY <1>5, <3>1 DEF Served, Stamped, Acceptable
      <4>2. Latency = 2 * MaxAge + Ahead
        BY <3>1 DEF Latency
      <4>3. now - last[reply.rev] <= MaxAge + Ahead
        BY <1>1, <2>5, <4>1, AgeBound
      <4>4. Latency - MaxAge = MaxAge + Ahead
        BY <4>2
      <4> QED
        BY <4>3, <4>4
    <3>2. CASE ~mode.signed
      <4>1. reply.due - last[reply.rev] <= Timeout /\ now <= reply.due
        BY <1>5, <3>2 DEF Served
      <4>2. Latency = MaxAge + Timeout
        BY <3>2 DEF Latency
      <4> QED
        BY <1>1, <2>5, <4>1, <4>2
    <3> QED
      BY <3>1, <3>2
  <2>7. Served'
    <3>1. (pdp.synced # Never => pdp.rev # 0 /\ pdp.synced - last[pdp.rev] <= Latency - MaxAge)'
      BY <1>2, <2>1, <2>5, <2>6 DEF Latency
    <3> QED
      BY <1>2, <3>1 DEF Served, Stamped
  <2> QED
    BY <2>3, <2>4, <2>7
<1>6. reply.kind # "none"
  BY DEF Sync
<1> QED
  BY <1>1, <1>3, <1>4, <1>5, <1>6

LEMMA SyncFailsInv == ASSUME SyncInv, SyncFails PROVE SyncInv'
<1> USE SyncAssumption DEF SyncInv, SyncFails, SyncFault, settings
<1>1. None \in Answers /\ None.kind = "none"
  BY DEF Answers, None
<1>2. SyncTypeOK' /\ Marks'
  BY <1>1 DEF SyncTypeOK, Marks
<1> QED
  BY <1>1, <1>2 DEF Served, Stamped, Latency

\* saveIssuedAt writes the mark of this run, which is not in the future.
LEMMA saveIssuedAtInv == ASSUME SyncInv, saveIssuedAt PROVE SyncInv'
<1> USE SyncAssumption DEF SyncInv
<1>1. /\ pdp' = [pdp EXCEPT !.save = FALSE] /\ syncFaults' \in Nat
      /\ UNCHANGED <<mode, serves, last, now, kept, reply, top, missed>>
      /\ mark' = mark \/ mark' = pdp.issuedAt
  <2>1. syncFaults' = syncFaults \/ syncFaults' = syncFaults + 1
    BY DEF saveIssuedAt, SyncFault
  <2>2. syncFaults' \in Nat
    BY <2>1 DEF SyncTypeOK
  <2> QED
    BY <2>2 DEF saveIssuedAt, settings
<1>2. pdp \in PDPs
  BY DEF SyncTypeOK
<1>3. /\ pdp' \in PDPs /\ pdp'.synced = pdp.synced /\ pdp'.up = pdp.up /\ pdp'.rev = pdp.rev
      /\ pdp'.at = pdp.at /\ pdp'.issuedAt = pdp.issuedAt /\ pdp.issuedAt \in Int
  BY Zenon, <1>1, <1>2 DEF PDPs
<1>4. SyncTypeOK' /\ Marks'
  BY SMTT(20), <1>1, <1>3 DEF SyncTypeOK, Marks
<1>5. Served'
  BY <1>1, <1>3 DEF Served, Stamped, Latency
<1> QED
  BY <1>4, <1>5

LEMMA AgentCrashInv == ASSUME SyncInv, AgentCrash PROVE SyncInv'
<1> USE SyncAssumption DEF SyncInv, AgentCrash, SyncFault, settings
<1>1. /\ None \in Answers /\ None.kind = "none"
      /\ Down \in PDPs /\ ~Down.up /\ Down.rev = 0 /\ Down.synced = Never /\ Down.issuedAt = Never
  BY DEF Answers, None, Down, New, PDPs
<1>2. SyncTypeOK' /\ Marks'
  BY <1>1 DEF SyncTypeOK, Marks
<1> QED
  BY <1>1, <1>2 DEF Served, Stamped, Latency

\* A run that begins with less than the newest mark is counted as one.
LEMMA RestoreSpoolInv == ASSUME SyncInv, RestoreSpool PROVE SyncInv'
<1> USE SyncAssumption DEF SyncInv
<1>1. \A t \in Int : /\ New(TRUE, t) \in PDPs /\ New(TRUE, t).rev = 0 /\ New(TRUE, t).synced = Never
                      /\ New(TRUE, t).issuedAt = t
  BY DEF New, PDPs
<1>2. /\ UNCHANGED <<mode, serves, last, now, kept, reply, mark, top>>
      /\ syncFaults' \in Nat /\ ~pdp.up
      /\ pdp' = New(TRUE, mark) \/ pdp' = New(TRUE, Never)
  <2>1. syncFaults' = syncFaults \/ syncFaults' = syncFaults + 1
    BY Zenon DEF RestoreSpool, SyncFault
  <2>2. pdp' = New(TRUE, mark) \/ pdp' = New(TRUE, Never)
    BY Zenon DEF RestoreSpool
  <2>3. UNCHANGED <<mode, serves, last, now, kept, reply, mark, top>> /\ ~pdp.up
    BY DEF RestoreSpool, settings
  <2>4. syncFaults' \in Nat
    BY <2>1 DEF SyncTypeOK
  <2> QED
    BY Zenon, <2>2, <2>3, <2>4
<1>3. missed' \in BOOLEAN /\ (~missed' => pdp'.issuedAt = top)
  BY Zenon DEF RestoreSpool
<1>4. PICK t \in Int : pdp' = New(TRUE, t) /\ t <= now
  <2>1. mark \in Int /\ mark <= now /\ Never \in Int /\ Never <= now
    BY DEF SyncTypeOK, Marks
  <2> QED
    BY Zenon, <1>2, <2>1
<1>5. SyncTypeOK' /\ Marks'
  BY Zenon, <1>1, <1>2, <1>4, <1>3 DEF SyncTypeOK, Marks
<1>6. Served'
  BY Zenon, <1>1, <1>2, <1>4 DEF Served, Stamped, Latency, Marks
<1> QED
  BY <1>5, <1>6

LEMMA SyncTickInv == ASSUME SyncInv, SyncTick PROVE SyncInv'
<1> USE SyncAssumption DEF SyncInv
<1>1. /\ now' = now + 1 /\ now \in Nat
      /\ UNCHANGED <<mode, serves, kept, reply, pdp, mark, top, missed, syncFaults>>
      /\ last' = [v \in 1..MaxRev |-> IF \E s \in Servers : serves[s] = v THEN now + 1 ELSE last[v]]
      /\ reply # None => now < reply.due
  BY DEF SyncTick, SyncTypeOK
<1>2. \A v \in 1..MaxRev : last[v] \in Nat /\ last[v] <= now
  BY DEF SyncTypeOK, Served
<1>3. /\ last' \in [1..MaxRev -> Nat]
      /\ \A v \in 1..MaxRev : last[v] <= last'[v] /\ last'[v] <= now'
  BY <1>1, <1>2
<1>4. \A s \in Servers : last'[serves'[s]] = now'
  BY <1>1 DEF SyncTypeOK
<1>5. SyncTypeOK' /\ Marks'
  BY <1>1, <1>3 DEF SyncTypeOK, Marks, PDPs
<1>6. StillServed'
  BY <1>1, <1>3, LastGrows
<1>7. (reply.kind # "none" => now <= reply.due)'
  BY <1>1 DEF SyncTypeOK, Answers, None
<1>8. Served'
  BY Zenon, <1>1, <1>3, <1>4, <1>6, <1>7 DEF Served, StillServed
<1> QED
  BY <1>5, <1>8

LEMMA SyncNextInv == ASSUME SyncInv, [SyncNext]_syncvars PROVE SyncInv'
<1>1. CASE SyncNext
  BY <1>1, LoadSourcesInv, getPolicyBundleInv, EarlierAnswerInv, SyncStepInv, SyncFailsInv,
     saveIssuedAtInv, AgentCrashInv, RestoreSpoolInv, SyncTickInv DEF SyncNext
<1>2. CASE UNCHANGED syncvars
  BY <1>2 DEF syncvars, settings, SyncInv, SyncTypeOK, Marks, Served, Stamped, Latency
<1> QED
  BY <1>1, <1>2

LEMMA SyncInvariant == SyncSpec => []SyncInv
<1>1. SyncInit => SyncInv
  BY SyncInitInv
<1>2. SyncInv /\ [SyncNext]_syncvars => SyncInv'
  BY SyncNextInv
<1> QED
  BY <1>1, <1>2, PTL DEF SyncSpec

(* No policy decides at a node for longer than Latency after its last server  *)
(* dropped it: with the checks of Sync, the freshness check of evaluate, and   *)
(* any number of failures and restarts.                                       *)
THEOREM DecidesFreshHolds == SyncSpec => []DecidesFresh
<1>1. SyncInv => DecidesFresh
  <2> SUFFICES ASSUME SyncInv, Decides PROVE now - last[pdp.rev] <= Latency
    BY DEF DecidesFresh
  <2>1. /\ pdp.rev \in 0..MaxRev /\ pdp.synced \in Int /\ now \in Nat
        /\ last \in [1..MaxRev -> Nat] /\ Latency \in Int /\ MaxAge \in Nat
    BY SyncAssumption DEF SyncInv, SyncTypeOK, PDPs, Latency
  <2>2. /\ pdp.rev # 0 /\ pdp.synced - last[pdp.rev] <= Latency - MaxAge
        /\ now - pdp.synced <= MaxAge
    BY DEF Decides, SyncInv, Served
  <2>3. last[pdp.rev] \in Nat
    BY <2>1, <2>2, SyncAssumption
  <2> QED
    BY <2>1, <2>2, <2>3
<1> QED
  BY <1>1, SyncInvariant, PTL

(* A run that began with the newest mark never loads a bundle stamped more     *)
(* than the skew before it: what saveIssuedAt and loadIssuedAt are for.        *)
THEOREM NoRollbackHolds == SyncSpec => []NoRollback
<1>1. SyncInv => NoRollback
  BY DEF SyncInv, Marks, NoRollback
<1> QED
  BY <1>1, SyncInvariant, PTL

(* No sequence of bundles, restarts and clocks makes Sync refuse a current     *)
(* bundle: the mark never passes the agent's own time.                        *)
THEOREM CurrentAcceptedHolds == SyncSpec => []CurrentAccepted
<1>1. SyncInv => CurrentAccepted
  <2>1. SyncInv => now \in Nat /\ pdp.issuedAt \in Int /\ pdp.issuedAt <= now
    BY DEF SyncInv, SyncTypeOK, PDPs, Marks
  <2> QED
    BY <2>1, SyncAssumption DEF CurrentAccepted, Acceptable
<1> QED
  BY <1>1, SyncInvariant, PTL
=============================================================================
