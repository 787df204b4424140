------------------------ MODULE TrustMaterialProofs -------------------------
(* What a peer is told of the CAs and how they are rotated: the number a peer  *)
(* sees never goes back, for any materials, faults and crashes, and rotation  *)
(* never costs the server its CA, for any number of CAs, commands and         *)
(* crashes.                                                                   *)
EXTENDS TrustBundle, CARotation, SequenceTheorems, TLAPS

-----------------------------------------------------------------------------
(* The document and its number.                                              *)

Places == {"idle", "src", "jwks", "pem", "next", "load", "save", "have", "keys"}

Seen == [pc : Places, src : Nat, jwks : Nat, pem : Nat, seq : Nat]

Durable == [seq : Nat, digest : Nat \X Nat, srcSeq : Nat, hold : BOOLEAN, resync : BOOLEAN]

NumberTypes ==
  /\ src \in [trusted : Nat \X Nat, seq : Nat]
  /\ d \in Durable
  /\ stored \in [seq : Nat, digest : Nat \X Nat]
  /\ caller \in [Callers -> Seen]
  /\ peer \in [seq : Nat, pem : Nat, jwks : Nat]
  /\ lost \in BOOLEAN

\* The number in hand of a request that will put it in a document.
Answering == caller["get"].pc \in {"save", "have", "keys"}

\* What the peer has is not above the number in use, or the stored one when
\* none is; a request begins only once a number is in use, and the number it
\* returns is between the peer's and the one in use.
Bounded ==
  /\ d.seq # 0 => peer.seq <= d.seq
  /\ d.seq = 0 => peer.seq <= stored.seq
  /\ caller["get"].pc # "idle" => d.seq # 0
  /\ Answering => peer.seq <= caller["get"].seq /\ caller["get"].seq <= d.seq

NumberInv == NumberTypes /\ (~lost => Bounded)

\* No number, no caller, no material.
LEMMA RestTypes == NoSeq \in Durable /\ Resting \in Seen /\ Off \in Nat \X Nat
BY BundleAssumption DEF NoSeq, Resting, Durable, Seen, Places

\* No number, no peer.
LEMMA NumberInitInv == Init => NumberInv
<1> SUFFICES ASSUME Init PROVE NumberInv
  OBVIOUS
<1>1. NumberTypes
  BY Zenon, RestTypes DEF Init, SourceInit, Source, NumberTypes
<1>2. Bounded
  BY DEF Init, Bounded, Answering, NoSeq, Resting, Callers
<1> QED
  BY <1>1, <1>2 DEF NumberInv

\* A caller comes back with the number in use.
LEMMA ReturnStep ==
  ASSUME NumberInv, NEW c \in Callers, NEW n \in Nat, Return(c, n)
  PROVE  /\ caller' \in [Callers -> Seen]
         /\ caller'[c].pc = "have" /\ caller'[c].seq = n
         /\ \A x \in Callers \ {c} : caller'[x] = caller[x]
BY Zenon DEF NumberInv, NumberTypes, Return, Seen, Places

\* A step that leaves the peer and the store alone, and lets the number only
\* grow, keeps the bounds when the request is not, or is now, at the number.
LEMMA NumberStep ==
  ASSUME NumberTypes, Bounded, NumberTypes', UNCHANGED <<peer, stored>>,
         d'.seq >= d.seq,
         d.seq = 0 /\ d'.seq # 0 => d'.seq >= stored.seq,
         \/ caller'["get"] = caller["get"]
         \/ ~Answering' /\ d'.seq # 0
         \/ /\ caller["get"].pc # "idle"
            /\ caller'["get"].seq = d'.seq
  PROVE  Bounded'
<1>1. /\ d.seq \in Nat /\ d'.seq \in Nat /\ peer.seq \in Nat /\ stored.seq \in Nat
      /\ caller["get"].seq \in Nat /\ caller'["get"].seq \in Nat
  BY DEF NumberTypes, Durable, Seen, Callers
<1>2. /\ d'.seq # 0 => peer'.seq <= d'.seq
      /\ d'.seq = 0 => peer'.seq <= stored'.seq
  BY <1>1 DEF Bounded
<1> QED
  BY <1>1, <1>2 DEF Bounded, Answering

\* Reading the material changes no number.
LEMMA materialDigestInv ==
  ASSUME NumberInv, NEW c \in Callers, materialDigest(c) PROVE NumberInv'
<1>1. caller[c] \in Seen /\ X509 \in Nat /\ JWKS \in Nat /\ src.seq \in Nat
  BY DEF NumberInv, NumberTypes, X509, JWKS
<1>2. PICK r \in Seen : r.pc \in {"jwks", "pem", "next"} /\ caller' = [caller EXCEPT ![c] = r]
  BY Zenon, <1>1 DEF materialDigest, At, Seen, Places
<1>3. NumberTypes'
  BY <1>2 DEF materialDigest, NumberInv, NumberTypes
<1>4. ASSUME ~lost PROVE Bounded'
  <2>1. caller[c].pc # "idle"
    BY DEF materialDigest, At
  <2>2. CASE c = "get"
    <3>1. d.seq # 0 /\ d' = d
      BY <1>4, <2>1, <2>2 DEF NumberInv, Bounded, materialDigest
    <3>2. ~Answering'
      BY <1>2, <2>2 DEF Answering, NumberInv, NumberTypes
    <3> QED
      BY <1>3, <1>4, <3>1, <3>2, NumberStep DEF NumberInv, materialDigest, NumberTypes, Durable
  <2>3. CASE c # "get"
    <3>1. caller'["get"] = caller["get"] /\ d' = d
      BY <1>2, <2>3 DEF materialDigest, NumberInv, NumberTypes, Callers
    <3> QED
      BY <1>3, <1>4, <3>1, NumberStep DEF NumberInv, materialDigest, NumberTypes, Durable
  <2> QED
    BY <2>2, <2>3
<1> QED
  BY <1>3, <1>4 DEF NumberInv, materialDigest

\* A caller returns the number in use, or goes to the store.
LEMMA nextInv == ASSUME NumberInv, NEW c \in Callers, next(c) PROVE NumberInv'
<1>1. caller[c] \in Seen /\ d.seq \in Nat /\ caller[c].pc = "next"
  BY DEF NumberInv, NumberTypes, Durable, next, At
<1>2. PICK r \in Seen : /\ r.pc = "load" \/ r.seq = d.seq
                        /\ r.pc \in {"load", "have"} /\ caller' = [caller EXCEPT ![c] = r]
  <2>1. CASE Return(c, d.seq)
    BY Zenon, <1>1, <2>1 DEF Return, Seen, Places
  <2>2. CASE To(c, "load")
    BY Zenon, <1>1, <2>2 DEF To, Seen, Places
  <2> QED
    BY <2>1, <2>2 DEF next
<1>3. NumberTypes' /\ d' = d
  BY <1>2 DEF next, NumberInv, NumberTypes
<1>4. ASSUME ~lost PROVE Bounded'
  <2>1. CASE c = "get"
    <3>1. d.seq # 0 /\ caller["get"].pc # "idle" /\ caller'["get"] = r
      BY <1>1, <1>2, <1>4, <2>1 DEF NumberInv, NumberTypes, Bounded
    <3>2. ~Answering' \/ caller'["get"].seq = d'.seq
      BY <1>2, <1>3, <3>1 DEF Answering
    <3> QED
      BY <1>1, <1>3, <1>4, <3>1, <3>2, NumberStep DEF NumberInv, next
  <2>2. CASE c # "get"
    <3>1. caller'["get"] = caller["get"]
      BY <1>2, <2>2 DEF NumberInv, NumberTypes, Callers
    <3> QED
      BY <1>1, <1>3, <1>4, <3>1, NumberStep DEF NumberInv, next
  <2> QED
    BY <2>1, <2>2
<1> QED
  BY <1>3, <1>4 DEF NumberInv, next

\* The number for other material is above the one in use, and not below the
\* stored one.
LEMMA NumberedGrows ==
  ASSUME NumberTypes, NEW m, NEW n \in Nat
  PROVE  Numbered(m, n) \in Nat /\ Numbered(m, n) >= d.seq /\ Numbered(m, n) >= stored.seq
<1>1. d.seq \in Nat /\ d.srcSeq \in Nat /\ stored.seq \in Nat
  BY DEF NumberTypes, Durable
<1> QED
  BY <1>1 DEF Numbered

\* The number in use only grows, and its caller has it in hand.
LEMMA numberInv == ASSUME NumberInv, NEW c \in Callers, number(c) PROVE NumberInv'
<1>1. /\ NumberTypes /\ caller[c] \in Seen /\ caller[c].pc = "load"
      /\ d \in Durable /\ stored.seq \in Nat /\ UNCHANGED <<src, stored, peer, lost>>
  BY DEF NumberInv, NumberTypes, number, At
<1>2. Digest(c) \in Nat \X Nat /\ caller[c].src \in Nat
  BY <1>1 DEF Digest, Seen
<1>3. PICK n \in Nat, r \in Seen :
        /\ n >= d.seq /\ (d.seq = 0 /\ n # 0 => n >= stored.seq)
        /\ d' \in Durable /\ d'.seq = n
        /\ caller' = [caller EXCEPT ![c] = r] /\ r.seq = n /\ r.pc \in {"have", "save"}
  <2>1. CASE Digest(c) = d.digest
    <3> DEFINE n == IF stored.digest = d.digest /\ stored.seq > d.seq THEN stored.seq ELSE d.seq
               r == [caller[c] EXCEPT !.pc = "have", !.seq = n]
    <3>1. n \in Nat /\ n >= d.seq /\ (d.seq = 0 /\ n # 0 => n >= stored.seq)
      BY <1>1 DEF Durable
    <3>2. d' = [d EXCEPT !.seq = n, !.resync = FALSE] /\ caller' = [caller EXCEPT ![c] = r]
      BY <2>1 DEF number, Return
    <3> HIDE DEF n
    <3>3. r \in Seen /\ r.seq = n /\ r.pc = "have"
      BY Zenon, <1>1, <3>1 DEF Seen, Places
    <3>4. d' \in Durable /\ d'.seq = n
      BY Zenon, <1>1, <3>1, <3>2 DEF Durable
    <3> HIDE DEF r
    <3> QED
      BY Zenon, <3>1, <3>2, <3>3, <3>4
  <2>2. CASE Digest(c) # d.digest
    <3> DEFINE n == Numbered(Digest(c), caller[c].src)
    <3>1. n \in Nat /\ n >= d.seq /\ n >= stored.seq
      BY <1>1, <1>2, NumberedGrows
    <3>2. d' = [d EXCEPT !.seq = n, !.digest = Digest(c), !.srcSeq = caller[c].src]
      BY <2>2 DEF number
    <3>3. \E pc \in {"have", "save"} :
            caller' = [caller EXCEPT ![c] = [caller[c] EXCEPT !.pc = pc, !.seq = n]]
      BY <2>2 DEF number, Return
    <3> HIDE DEF n
    <3>4. d' \in Durable /\ d'.seq = n
      BY Zenon, <1>1, <1>2, <3>1, <3>2 DEF Durable
    <3>5. PICK pc \in {"have", "save"} :
            caller' = [caller EXCEPT ![c] = [caller[c] EXCEPT !.pc = pc, !.seq = n]]
      BY Zenon, <3>3
    <3> DEFINE r == [caller[c] EXCEPT !.pc = pc, !.seq = n]
    <3>6. r \in Seen /\ r.seq = n /\ r.pc \in {"have", "save"}
      BY Zenon, <1>1, <3>1 DEF Seen, Places
    <3> HIDE DEF r
    <3>7. caller' = [caller EXCEPT ![c] = r]
      BY <3>5 DEF r
    <3> QED
      BY Zenon, <3>1, <3>4, <3>6, <3>7
  <2> QED
    BY <2>1, <2>2
<1>4. NumberTypes'
  BY <1>1, <1>3 DEF NumberTypes
<1>5. ASSUME ~lost PROVE Bounded'
  <2>1. CASE c = "get"
    <3>1. caller["get"].pc # "idle" /\ caller'["get"].seq = d'.seq
      BY <1>1, <1>3, <2>1 DEF NumberTypes
    <3> QED
      BY <1>1, <1>3, <1>4, <1>5, <3>1, NumberStep DEF NumberInv
  <2>2. CASE c # "get"
    <3>1. caller'["get"] = caller["get"]
      BY <1>1, <1>3, <2>2 DEF NumberTypes, Callers
    <3> QED
      BY <1>1, <1>3, <1>4, <1>5, <3>1, NumberStep DEF NumberInv
  <2> QED
    BY <2>1, <2>2
<1> QED
  BY <1>1, <1>4, <1>5 DEF NumberInv

\* The server stops: nothing is in use, and nobody is under way.
LEMMA StopStep ==
  ASSUME NumberInv, src' = Source(Off, 0), d' = NoSeq, caller' = [x \in Callers |-> Resting],
         UNCHANGED <<peer, stored>>, lost' \in BOOLEAN, ~lost' => ~lost /\ d.seq <= stored.seq
  PROVE  NumberInv'
<1>1. NumberTypes'
  BY RestTypes DEF NumberInv, NumberTypes, Source
<1>2. d.seq \in Nat /\ stored.seq \in Nat /\ peer.seq \in Nat
  BY DEF NumberInv, NumberTypes, Durable
<1>3. d'.seq = 0 /\ caller'["get"].pc = "idle"
  BY DEF NoSeq, Resting, Callers
<1>4. ASSUME ~lost' PROVE peer.seq <= stored.seq
  BY <1>2, <1>4 DEF NumberInv, Bounded
<1> QED
  BY <1>1, <1>3, <1>4 DEF NumberInv, Bounded, Answering

\* A failed read keeps the number, or ends the start.
LEMMA LoadFailsInv == ASSUME NumberInv, NEW c \in Callers, LoadFails(c) PROVE NumberInv'
<1>1. /\ NumberTypes /\ d \in Durable /\ d.seq \in Nat /\ stored.seq \in Nat
      /\ lost \in BOOLEAN /\ caller[c].pc = "load" /\ UNCHANGED <<stored, peer, lost>>
  BY DEF NumberInv, NumberTypes, Durable, LoadFails, At
<1>2. CASE d.seq = 0
  BY <1>1, <1>2, StopStep DEF LoadFails, SourceStop
<1>3. CASE d.seq # 0
  <2>1. d' = [d EXCEPT !.hold = TRUE] /\ Return(c, d.seq) /\ src' = src
    BY <1>3 DEF LoadFails
  <2>2. d' \in Durable /\ d'.seq = d.seq
    BY Zenon, <1>1, <2>1 DEF Durable
  <2>3. /\ caller' \in [Callers -> Seen] /\ caller'[c].seq = d.seq
        /\ \A x \in Callers \ {c} : caller'[x] = caller[x]
    BY <1>1, <2>1, ReturnStep
  <2>4. NumberTypes'
    BY <1>1, <2>1, <2>2, <2>3 DEF NumberTypes
  <2>5. \/ caller'["get"] = caller["get"]
        \/ caller["get"].pc # "idle" /\ caller'["get"].seq = d'.seq
    BY <1>1, <2>2, <2>3 DEF Callers
  <2> QED
    BY <1>1, <1>3, <2>2, <2>4, <2>5, NumberStep DEF NumberInv
<1> QED
  BY <1>2, <1>3

\* The stored number only grows.
LEMMA SaveBundleSequenceInv ==
  ASSUME NumberInv, NEW c \in Callers, SaveBundleSequence(c) PROVE NumberInv'
<1>1. /\ NumberTypes /\ d \in Durable /\ stored \in [seq : Nat, digest : Nat \X Nat]
      /\ caller[c] \in Seen /\ caller[c].pc = "save" /\ UNCHANGED <<src, peer, lost>>
  BY DEF NumberInv, NumberTypes, SaveBundleSequence, At
<1>2. caller[c].seq \in Nat /\ Digest(c) \in Nat \X Nat
  BY <1>1 DEF Seen, Digest
<1>3. stored' \in [seq : Nat, digest : Nat \X Nat] /\ stored'.seq >= stored.seq
  <2>1. \/ stored' = stored
        \/ stored.seq < caller[c].seq /\ stored' = [seq |-> caller[c].seq, digest |-> Digest(c)]
    BY DEF SaveBundleSequence
  <2> QED
    BY <1>1, <1>2, <2>1
<1>4. d' \in Durable /\ d'.seq = d.seq
  <2>1. \E b \in BOOLEAN : d' = [d EXCEPT !.resync = b]
    BY Zenon DEF SaveBundleSequence
  <2> QED
    BY <1>1, <2>1 DEF Durable
<1>5. /\ caller' \in [Callers -> Seen] /\ caller'[c].pc = "have" /\ caller'[c].seq = caller[c].seq
      /\ \A x \in Callers \ {c} : caller'[x] = caller[x]
  BY <1>2, ReturnStep DEF SaveBundleSequence
<1>6. NumberTypes'
  BY <1>1, <1>3, <1>4, <1>5 DEF NumberTypes
<1>7. ASSUME ~lost PROVE Bounded'
  <2>1. d.seq \in Nat /\ peer.seq \in Nat /\ stored.seq \in Nat /\ stored'.seq \in Nat
    BY <1>1, <1>3 DEF NumberTypes, Durable
  <2>2. \/ caller'["get"] = caller["get"]
        \/ /\ caller["get"].pc = "save" /\ caller'["get"].pc = "have"
           /\ caller'["get"].seq = caller["get"].seq
    BY <1>1, <1>5 DEF Callers
  <2>3. Bounded
    BY <1>7 DEF NumberInv
  <2> QED
    BY <1>1, <1>3, <1>4, <2>1, <2>2, <2>3 DEF Bounded, Answering
<1> QED
  BY <1>1, <1>6, <1>7 DEF NumberInv

\* A request is served only when a number is in use.
LEMMA getSPIFFEBundleInv == ASSUME NumberInv, getSPIFFEBundle PROVE NumberInv'
<1>1. NumberTypes /\ caller["get"] \in Seen /\ d.seq \in Nat /\ d.seq # 0
  BY DEF NumberInv, NumberTypes, Durable, Callers, getSPIFFEBundle, Serving
<1>2. UNCHANGED <<src, d, stored, peer, lost>>
  BY DEF getSPIFFEBundle
<1>3. caller' \in [Callers -> Seen] /\ caller'["get"].pc = "src"
  BY <1>1 DEF NumberTypes, getSPIFFEBundle, To, Seen, Places, Callers
<1>4. NumberTypes' /\ ~Answering'
  BY <1>1, <1>2, <1>3 DEF NumberTypes, Answering
<1> QED
  BY <1>1, <1>2, <1>4, NumberStep DEF NumberInv

\* The peer gets the number its request has in hand.
LEMMA BuildSPIFFEBundleInv == ASSUME NumberInv, BuildSPIFFEBundle PROVE NumberInv'
<1>1. /\ NumberTypes /\ caller["get"] \in Seen /\ caller["get"].seq \in Nat
      /\ X509 \in Nat /\ JWKS \in Nat /\ caller["get"].pem \in Nat
      /\ UNCHANGED <<src, d, stored, lost>>
  BY DEF NumberInv, NumberTypes, Seen, Callers, X509, JWKS, BuildSPIFFEBundle
<1>2. CASE At("get", "have")
  <2>1. caller' = [caller EXCEPT !["get"] = [caller["get"] EXCEPT !.pc = "keys", !.pem = X509]]
    BY <1>2 DEF BuildSPIFFEBundle, At
  <2>2. /\ caller' \in [Callers -> Seen] /\ caller'["get"].pc = "keys"
        /\ caller'["get"].seq = caller["get"].seq
    BY Zenon, <1>1, <2>1 DEF NumberTypes, Seen, Places, Callers
  <2>3. peer' = peer
    BY <1>2 DEF BuildSPIFFEBundle, At
  <2>4. NumberTypes'
    BY <1>1, <2>2, <2>3 DEF NumberTypes
  <2> QED
    BY <1>1, <1>2, <2>2, <2>3, <2>4 DEF NumberInv, Bounded, Answering, At
<1>3. CASE At("get", "keys")
  <2>1. /\ peer' = [seq |-> caller["get"].seq, pem |-> caller["get"].pem, jwks |-> JWKS]
        /\ caller' = [caller EXCEPT !["get"] = Resting]
    BY <1>3 DEF BuildSPIFFEBundle, At
  <2>2. peer' \in [seq : Nat, pem : Nat, jwks : Nat] /\ peer'.seq = caller["get"].seq
    BY <1>1, <2>1
  <2>3. caller' \in [Callers -> Seen] /\ caller'["get"].pc = "idle"
    BY <1>1, <2>1, RestTypes DEF NumberTypes, Resting, Callers
  <2>4. NumberTypes'
    BY <1>1, <2>2, <2>3 DEF NumberTypes
  <2>5. ASSUME ~lost PROVE Bounded'
    <3>1. caller["get"].seq <= d.seq /\ d.seq # 0
      BY <1>3, <2>5 DEF NumberInv, Bounded, Answering, At
    <3> QED
      BY <1>1, <2>2, <2>3, <3>1 DEF Bounded, Answering
  <2> QED
    BY <1>1, <2>4, <2>5 DEF NumberInv
<1> QED
  BY <1>2, <1>3 DEF BuildSPIFFEBundle

\* The end of a hold-off changes no number.
LEMMA HoldOffEndsInv == ASSUME NumberInv, HoldOffEnds PROVE NumberInv'
<1>1. d' \in Durable /\ d'.seq = d.seq /\ d.seq \in Nat
  BY Zenon DEF NumberInv, NumberTypes, Durable, HoldOffEnds
<1> QED
  BY <1>1 DEF NumberInv, NumberTypes, Bounded, Answering, HoldOffEnds

\* The reload loop rests.
LEMMA recordCAReloadInv == ASSUME NumberInv, recordCAReload PROVE NumberInv'
<1>1. caller' \in [Callers -> Seen] /\ caller'["get"] = caller["get"]
  BY RestTypes DEF NumberInv, NumberTypes, recordCAReload, Callers
<1> QED
  BY <1>1 DEF NumberInv, NumberTypes, Bounded, Answering, recordCAReload

\* A start and a reload change the material and set the main loop to work.
LEMMA MaterialStep ==
  ASSUME NumberInv, src' \in [trusted : Nat \X Nat, seq : Nat], Numbers,
         UNCHANGED <<d, stored, peer, lost>>
  PROVE  NumberInv'
<1>1. [Resting EXCEPT !.pc = "src"] \in Seen
  BY DEF Resting, Seen, Places
<1>2. caller' \in [Callers -> Seen] /\ caller'["get"] = caller["get"]
  BY <1>1 DEF NumberInv, NumberTypes, Numbers, Callers
<1> QED
  BY <1>2 DEF NumberInv, NumberTypes, Bounded, Answering

\* A start takes material.
LEMMA StartInv == ASSUME NumberInv, Start PROVE NumberInv'
<1>1. src' \in [trusted : Nat \X Nat, seq : Nat]
  BY BundleAssumption DEF Start, SourceStart, Source
<1> QED
  BY <1>1, MaterialStep DEF Start

\* A reload takes other material.
LEMMA ReloadInv == ASSUME NumberInv, Reload PROVE NumberInv'
<1>1. src.seq + 1 \in Nat
  BY DEF NumberInv, NumberTypes
<1>2. src' \in [trusted : Nat \X Nat, seq : Nat]
  BY <1>1, BundleAssumption DEF Reload, SourceReplace, Source
<1> QED
  BY <1>2, MaterialStep DEF Reload

\* A crash that loses no number leaves the stored one at or above it.
LEMMA CrashInv == ASSUME NumberInv, Crash PROVE NumberInv'
<1>1. d.seq \in Nat /\ stored.seq \in Nat /\ lost \in BOOLEAN
  BY DEF NumberInv, NumberTypes, Durable
<1>2. lost' = (lost \/ d.seq > stored.seq)
  BY DEF Crash
<1>3. d.seq > stored.seq \/ d.seq <= stored.seq
  BY <1>1
<1>4. lost' \in BOOLEAN /\ (~lost' => ~lost /\ d.seq <= stored.seq)
  BY <1>2, <1>3, Zenon
<1> QED
  BY <1>4, StopStep DEF Crash, SourceStop

\* The bounds are inductive: whichever caller numbers, and whatever the store
\* refuses, the number in use only grows while the server runs.
THEOREM NumberInvHolds == Spec => []NumberInv
<1>1. Init => NumberInv
  BY NumberInitInv
<1>2. NumberInv /\ [Next]_vars => NumberInv'
  <2> SUFFICES ASSUME NumberInv, [Next]_vars PROVE NumberInv'
    OBVIOUS
  <2>1. CASE Numbering
    BY <2>1, materialDigestInv, nextInv, numberInv, LoadFailsInv, SaveBundleSequenceInv,
       HoldOffEndsInv, recordCAReloadInv, getSPIFFEBundleInv, BuildSPIFFEBundleInv DEF Numbering
  <2>2. CASE Start \/ Reload \/ Crash
    BY <2>2, StartInv, ReloadInv, CrashInv
  <2>3. CASE UNCHANGED vars
    BY <2>3 DEF vars, svars, NumberInv, NumberTypes, Bounded, Answering
  <2> QED
    BY <2>1, <2>2, <2>3 DEF Next
<1> QED
  BY <1>1, <1>2, PTL DEF Spec

\* SequenceMovesForward for any material, faults and crashes: the document of
\* GET /v1/spiffe-bundle never has a lower spiffe_sequence than one a peer has,
\* unless a number in use was not stored when the server died.
THEOREM SequenceMovesForwardHolds == Spec => SequenceMovesForward
<1>1. NumberInv /\ [Next]_vars => [~lost => peer'.seq >= peer.seq]_vars
  <2> SUFFICES ASSUME NumberInv, Next, ~lost PROVE peer'.seq >= peer.seq
    OBVIOUS
  <2>1. peer.seq \in Nat
    BY DEF NumberInv, NumberTypes
  <2>2. CASE BuildSPIFFEBundle
    <3>1. caller["get"].seq \in Nat
      BY DEF NumberInv, NumberTypes, Seen, Callers
    <3>2. caller["get"].pc = "keys" => peer.seq <= caller["get"].seq
      BY DEF NumberInv, Bounded, Answering
    <3>3. peer' = peer \/ (caller["get"].pc = "keys" /\ peer'.seq = caller["get"].seq)
      BY <2>2 DEF BuildSPIFFEBundle, At
    <3> QED
      BY <2>1, <3>1, <3>2, <3>3
  <2>3. CASE ~BuildSPIFFEBundle
    <3>1. peer' = peer
      BY Zenon, <2>3 DEF Next, Numbering, materialDigest, next, number, LoadFails, SaveBundleSequence,
         HoldOffEnds, recordCAReload, getSPIFFEBundle, Start, Reload, Crash
    <3> QED
      BY <2>1, <3>1
  <2> QED
    BY <2>2, <2>3
<1> QED
  BY <1>1, NumberInvHolds, PTL DEF Spec, SequenceMovesForward

-----------------------------------------------------------------------------
(* Rotation.                                                                 *)

Ops == {"none", "prepare", "activate", "retire"}
Steps == {"idle", "repair", "go", "crt", "prev", "key", "since"}

Reads == {"none", "generate", "key", "crt", "mismatch", "next", "prev"}

Files == [key : Nat, crt : Nat, nkey : Nat, ncrt : Nat, prev : Nat, since : Nat, mtime : Nat]

Commands == [op : Ops, pc : Steps]

Servers == [up : BOOLEAN, starting : BOOLEAN, trusted : Seq(Nat), seq : Nat,
            rd : [at : Reads, key : Nat, extra : Seq(Nat)]]

\* The files that hold the active pair, the commands, and what they sign.
FileTypes ==
  /\ disk \in Files /\ cmd \in Commands /\ srv \in Servers
  /\ made \in Nat /\ now \in Nat /\ expiry \in [CAs -> Nat]

\* ca.key has its certificate under one of the two names it may have.
Paired == disk.key # 0 /\ (disk.crt = disk.key \/ disk.ncrt = disk.key)

\* Past its repair a command finds the pair in place.
InPlace == disk.crt # 0 /\ disk.crt = disk.key

\* What the running command relies on, at each of its steps.
CommandInv ==
  /\ cmd.pc \in {"idle", "repair"} \/ cmd.op # "none"
  /\ cmd.op = "none" => cmd.pc = "idle"
  /\ cmd.pc \in {"go", "prev", "key", "since"} => InPlace
  /\ cmd.op = "prepare" /\ cmd.pc = "crt" => InPlace /\ disk.nkey # 0
  /\ cmd.op = "activate" /\ cmd.pc \in {"prev", "key"} => disk.nkey # 0 /\ disk.ncrt = disk.nkey
  /\ cmd.op = "activate" /\ cmd.pc = "crt" => disk.crt # 0 /\ disk.key # 0 /\ disk.ncrt = disk.key

\* A server past the certificate, or that ever signed, has seen one.
ServerInv ==
  /\ srv.rd.at = "generate" => disk.key # 0
  /\ srv.rd.at \in {"mismatch", "next", "prev"} => disk.crt # 0
  /\ srv.up => disk.crt # 0
  /\ (\E c \in CAs : expiry[c] # 0) => disk.crt # 0

\* The certificate, once there, always has its key.
RotationInv == FileTypes /\ (disk.crt # 0 => Paired) /\ CommandInv /\ ServerInv

\* The active CA is found exactly where the pair is.
LEMMA ActivePaired ==
  ASSUME FileTypes
  PROVE  Active(disk) # 0 <=> disk.crt # 0 /\ Paired
BY DEF FileTypes, Files, Active, Paired

\* A command ends, or goes on to one of its steps.
LEMMA CommandTypes ==
  ASSUME FileTypes, Ends \/ \E pc \in Steps : Goes(pc)
  PROVE  cmd' \in Commands
BY DEF FileTypes, Commands, Ends, Goes, Idle, Ops, Steps

\* An empty directory, nothing running.
LEMMA RotationInitInv == RotationInit => RotationInv
<1> SUFFICES ASSUME RotationInit PROVE RotationInv
  OBVIOUS
<1>1. FileTypes
  BY RotationAssumption DEF RotationInit, FileTypes, Files, Commands, Servers, Idle, Down,
     NoRead, Ops, Steps, Reads
<1>2. CommandInv /\ ServerInv /\ disk.crt = 0
  BY DEF RotationInit, CommandInv, ServerInv, Idle, Down, NoRead, CAs
<1> QED
  BY <1>1, <1>2 DEF RotationInv

\* The steps of a command that leave the active pair alone.
LEMMA InvokeInv == ASSUME RotationInv, NEW op \in {"prepare", "activate", "retire"}, Invoke(op)
                   PROVE  RotationInv'
BY DEF RotationInv, FileTypes, Commands, Paired, InPlace, CommandInv, ServerInv, Invoke,
       Idle, Ops, Steps

\* The repair puts the pair in place, or ends the command.
LEMMA repairActivationInv == ASSUME RotationInv, repairActivation PROVE RotationInv'
<1>1. FileTypes'
  <2>1. Ends \/ Goes("go")
    BY DEF repairActivation
  <2>2. cmd' \in Commands
    BY <2>1, CommandTypes DEF RotationInv, Steps
  <2>3. disk' \in Files
    BY Zenon DEF RotationInv, FileTypes, Files, repairActivation
  <2> QED
    BY <2>2, <2>3 DEF RotationInv, FileTypes, repairActivation
<1>2. Active(disk) # 0 <=> disk.crt # 0 /\ Paired
  BY ActivePaired DEF RotationInv
<1>3. CASE disk.crt = 0
  <2>1. disk' = disk /\ cmd' = Idle
    BY <1>2, <1>3 DEF repairActivation, Ends
  <2> QED
    BY Zenon, <1>1, <1>3, <2>1 DEF RotationInv, FileTypes, Paired, InPlace, CommandInv, ServerInv,
       repairActivation, Idle
<1>4. CASE disk.crt # 0
  <2>1. Active(disk) # 0 /\ Paired
    BY <1>2, <1>4 DEF RotationInv
  <2>2. cmd' = [cmd EXCEPT !.pc = "go"] /\ disk'.key = disk.key /\ disk'.crt = disk.key
    BY <2>1 DEF repairActivation, Goes, RotationInv, FileTypes, Files, Paired
  <2>3. disk.key # 0 /\ cmd.op # "none"
    BY <2>1 DEF Paired, RotationInv, CommandInv, repairActivation
  <2>4. CommandInv' /\ (disk.crt # 0 => Paired)'
    BY <2>2, <2>3 DEF CommandInv, InPlace, Paired, RotationInv, FileTypes, Commands
  <2>5. ServerInv'
    BY <2>2, <2>3 DEF ServerInv, RotationInv, repairActivation
  <2> QED
    BY <1>1, <2>4, <2>5 DEF RotationInv
<1> QED
  BY <1>3, <1>4

\* PrepareCA writes only the next pair.
LEMMA PrepareCAInv == ASSUME RotationInv, PrepareCA PROVE RotationInv'
<1>1. FileTypes'
  <2>1. Ends \/ Goes("crt")
    BY DEF PrepareCA
  <2>2. cmd' \in Commands
    BY <2>1, CommandTypes DEF RotationInv, Steps
  <2>3. disk' \in Files /\ made' \in Nat
    BY DEF RotationInv, FileTypes, Files, PrepareCA
  <2> QED
    BY <2>2, <2>3 DEF RotationInv, FileTypes, PrepareCA
<1>2. disk'.key = disk.key /\ disk'.crt = disk.crt
  BY DEF PrepareCA, RotationInv, FileTypes, Files
<1>3. InPlace
  BY DEF PrepareCA, RotationInv, CommandInv
<1>4. cmd' = Idle \/ (cmd' = [cmd EXCEPT !.pc = "crt"] /\ disk'.nkey # 0)
  BY DEF PrepareCA, Ends, Goes, RotationInv, FileTypes, Files
<1>5. CommandInv'
  BY <1>2, <1>3, <1>4 DEF CommandInv, InPlace, Idle, PrepareCA, RotationInv, FileTypes, Commands
<1>6. ServerInv'
  BY <1>2 DEF ServerInv, PrepareCA, RotationInv
<1> QED
  BY <1>1, <1>2, <1>3, <1>5, <1>6 DEF RotationInv, Paired, InPlace

\* RetireCA removes only what is kept of the previous CA.
LEMMA RetireCAInv == ASSUME RotationInv, NEW f \in BOOLEAN, RetireCA(f) PROVE RotationInv'
<1>0. \/ disk' = disk
      \/ disk' = [disk EXCEPT !.prev = 0, !.mtime = 0]
      \/ disk' = [disk EXCEPT !.since = 0]
  BY DEF RetireCA
<1>1. FileTypes'
  <2>1. Ends \/ Goes("since")
    BY DEF RetireCA
  <2>2. cmd' \in Commands
    BY <2>1, CommandTypes DEF RotationInv, Steps
  <2>3. disk \in Files
    BY DEF RotationInv, FileTypes
  <2>4. [disk EXCEPT !.prev = 0, !.mtime = 0] \in Files
    BY Zenon, <2>3 DEF Files
  <2>5. [disk EXCEPT !.since = 0] \in Files
    BY <2>3 DEF Files
  <2> QED
    BY <1>0, <2>2, <2>3, <2>4, <2>5 DEF RotationInv, FileTypes, RetireCA
<1>2. disk'.key = disk.key /\ disk'.crt = disk.crt
  BY Zenon, <1>0 DEF RotationInv, FileTypes, Files
<1>3. InPlace
  BY DEF RetireCA, RotationInv, CommandInv
<1>4. cmd' = Idle \/ cmd' = [cmd EXCEPT !.pc = "since"]
  BY DEF RetireCA, Ends, Goes
<1>5. CommandInv'
  BY <1>2, <1>3, <1>4 DEF CommandInv, InPlace, Idle, RetireCA, RotationInv, FileTypes, Commands
<1>6. ServerInv'
  BY <1>2 DEF ServerInv, RetireCA, RotationInv
<1> QED
  BY <1>1, <1>2, <1>3, <1>5, <1>6 DEF RotationInv, Paired, InPlace

\* ActivateCA is the command that moves the pair, the key first: in between,
\* the certificate is the next one.
LEMMA ActivateCAInv == ASSUME RotationInv, ActivateCA PROVE RotationInv'
<1> DEFINE Kept == disk'.key = disk.key /\ disk'.crt = disk.crt
           Nexts == disk'.nkey = disk.nkey /\ disk'.ncrt = disk.ncrt
<1> USE DEF RotationInv, FileTypes, Files
<1>1. CASE cmd.pc = "go" /\ ~Activatable(disk)
  <2>1. disk' = disk /\ Ends
    BY <1>1 DEF ActivateCA
  <2>2. cmd' \in Commands /\ cmd' = Idle
    BY <2>1, CommandTypes DEF Ends
  <2>3. CommandInv' /\ ServerInv' /\ (disk.crt # 0 => Paired)'
    BY <2>1, <2>2 DEF CommandInv, ServerInv, Idle, Paired, InPlace, ActivateCA
  <2> QED
    BY <2>1, <2>2, <2>3 DEF ActivateCA
<1>2. CASE \/ cmd.pc = "go" /\ Activatable(disk)
           \/ cmd.pc = "prev"
  <2>1. InPlace /\ disk.nkey # 0 /\ disk.ncrt = disk.nkey
    BY <1>2 DEF CommandInv, Activatable, ActivateCA
  <2>2. \/ disk' = disk
        \/ disk' = [disk EXCEPT !.since = now]
        \/ disk' = [disk EXCEPT !.prev = disk.crt, !.mtime = now]
    BY <1>2 DEF ActivateCA
  <2>3. disk' \in Files /\ Kept /\ Nexts
    BY Zenon, <2>2
  <2>4. Goes("prev") \/ Goes("key")
    BY <1>2 DEF ActivateCA
  <2>5. cmd' \in Commands /\ cmd'.op = "activate" /\ cmd'.pc \in {"prev", "key"}
    BY <2>4, CommandTypes DEF Goes, Commands, Steps, ActivateCA
  <2>6. CommandInv' /\ (disk.crt # 0 => Paired)'
    BY <2>1, <2>3, <2>5 DEF CommandInv, Paired, InPlace
  <2>7. ServerInv'
    BY <2>3 DEF ServerInv, ActivateCA
  <2> QED
    BY <2>3, <2>5, <2>6, <2>7 DEF ActivateCA
<1>3. CASE cmd.pc = "key"
  <2>1. InPlace /\ disk.nkey # 0 /\ disk.ncrt = disk.nkey
    BY <1>3 DEF CommandInv, ActivateCA
  <2>2. disk' = [disk EXCEPT !.key = disk.nkey, !.nkey = 0] /\ Goes("crt")
    BY <1>3 DEF ActivateCA
  <2>3. /\ disk' \in Files /\ disk'.key = disk.nkey
        /\ disk'.crt = disk.crt /\ disk'.ncrt = disk.ncrt
    BY Zenon, <2>2
  <2>4. cmd' \in Commands /\ cmd'.op = "activate" /\ cmd'.pc = "crt"
    BY <2>2, CommandTypes DEF Goes, Commands, Steps, ActivateCA
  <2>5. CommandInv' /\ (disk.crt # 0 => Paired)'
    BY <2>1, <2>3, <2>4 DEF CommandInv, Paired, InPlace
  <2>6. ServerInv'
    BY <2>1, <2>3 DEF ServerInv, ActivateCA
  <2> QED
    BY <2>3, <2>4, <2>5, <2>6 DEF ActivateCA
<1>4. CASE cmd.pc = "crt"
  <2>1. disk.key # 0 /\ disk.ncrt = disk.key
    BY <1>4 DEF CommandInv, ActivateCA
  <2>2. disk' = [disk EXCEPT !.crt = disk.ncrt, !.ncrt = 0] /\ Ends
    BY <1>4 DEF ActivateCA
  <2>3. disk' \in Files /\ disk'.key = disk.key /\ disk'.crt = disk.key
    BY Zenon, <2>1, <2>2
  <2>4. cmd' \in Commands /\ cmd' = Idle
    BY <2>2, CommandTypes DEF Ends
  <2>5. CommandInv' /\ (disk.crt # 0 => Paired)'
    BY <2>1, <2>3, <2>4 DEF CommandInv, Paired, InPlace, Idle
  <2>6. ServerInv'
    BY <2>1, <2>3 DEF ServerInv, ActivateCA
  <2> QED
    BY <2>3, <2>4, <2>5, <2>6 DEF ActivateCA
<1> QED
  BY <1>1, <1>2, <1>3, <1>4 DEF ActivateCA

\* A start writes a key only where there is none.
LEMMA loadOrCreateDiskInv == ASSUME RotationInv, loadOrCreateDisk PROVE RotationInv'
<1>1. /\ srv' \in Servers /\ srv'.up = FALSE
      /\ srv'.rd.at = (IF disk.key = 0 THEN "generate" ELSE "key")
  <2> DEFINE at == IF disk.key = 0 THEN "generate" ELSE "key"
  <2>1. srv' = [up |-> FALSE, starting |-> TRUE, trusted |-> << >>, seq |-> 0,
                rd |-> [at |-> at, key |-> 0, extra |-> << >>]]
    BY Zenon DEF loadOrCreateDisk, Down, NoRead
  <2>2. at \in Reads
    BY DEF Reads
  <2> HIDE DEF at
  <2>3. srv' \in Servers /\ srv'.up = FALSE /\ srv'.rd.at = at
    BY <2>1, <2>2 DEF Servers
  <2> QED
    BY <2>3 DEF at
<1>2. CASE disk.key # 0
  <2>1. disk' = disk /\ made' = made
    BY <1>2 DEF loadOrCreateDisk
  <2> QED
    BY <1>1, <1>2, <2>1 DEF RotationInv, FileTypes, CommandInv, ServerInv, Paired, InPlace,
       loadOrCreateDisk
<1>3. CASE disk.key = 0
  <2>1. disk' = [disk EXCEPT !.key = made + 1] /\ made' = made + 1
    BY <1>3 DEF loadOrCreateDisk
  <2>2. disk' \in Files /\ made' \in Nat /\ disk'.key # 0 /\ disk'.crt = disk.crt
    BY <2>1 DEF RotationInv, FileTypes, Files
  <2>3. disk.crt = 0
    BY <1>3 DEF RotationInv, Paired
  <2>4. cmd.pc \in {"idle", "repair"} \/ cmd.op = "retire" \/ cmd.pc = "crt"
    BY <2>3 DEF RotationInv, FileTypes, Commands, Steps, CommandInv, InPlace
  <2>5. CommandInv'
    BY <2>2, <2>3, <2>4 DEF RotationInv, CommandInv, InPlace, loadOrCreateDisk
  <2>6. ServerInv'
    BY <1>1, <1>3, <2>2 DEF RotationInv, ServerInv, loadOrCreateDisk
  <2> QED
    BY <1>1, <2>2, <2>3, <2>5, <2>6 DEF RotationInv, FileTypes, loadOrCreateDisk
<1> QED
  BY <1>2, <1>3

\* The first certificate is of the key that is there.
LEMMA generateCAInv == ASSUME RotationInv, generateCA PROVE RotationInv'
<1>1. srv \in Servers /\ srv' \in Servers /\ srv'.up = srv.up /\ srv'.rd.at = "key"
  BY SMTT(20) DEF RotationInv, FileTypes, generateCA, Reading, Servers, Reads
<1>2. /\ disk' \in Files /\ disk'.key = disk.key /\ disk'.crt = disk.key
      /\ disk'.nkey = disk.nkey /\ disk'.ncrt = disk.ncrt /\ disk.key # 0
  BY DEF RotationInv, FileTypes, Files, generateCA, ServerInv
<1>3. CommandInv' /\ (disk.crt # 0 => Paired)'
  BY <1>2 DEF RotationInv, CommandInv, InPlace, Paired, generateCA
<1>4. ServerInv'
  BY <1>1, <1>2 DEF ServerInv
<1> QED
  BY <1>1, <1>2, <1>3, <1>4 DEF RotationInv, FileTypes, generateCA

\* A step of the server that writes no file keeps the invariant when it has
\* seen the certificate it goes on with.
LEMMA ServerStep ==
  ASSUME RotationInv, srv' \in Servers, UNCHANGED <<disk, cmd, expiry, made, now>>,
         srv'.rd.at # "generate",
         srv'.up \/ srv'.rd.at \in {"mismatch", "next", "prev"} => disk.crt # 0
  PROVE  RotationInv'
BY DEF RotationInv, FileTypes, CommandInv, ServerInv, Paired, InPlace

\* A failed read leaves a running server up.
LEMMA ReadFailsStep ==
  ASSUME RotationInv, ReadFails
  PROVE  /\ srv' \in Servers /\ srv'.rd.at = "none"
         /\ srv'.up => disk.crt # 0
<1>1. srv \in Servers /\ NoRead \in [at : Reads, key : Nat, extra : Seq(Nat)] /\ NoRead.at = "none"
  BY DEF RotationInv, FileTypes, NoRead, Reads
<1>2. CASE srv.starting
  BY <1>1, <1>2 DEF ReadFails, Down, Servers
<1>3. CASE ~srv.starting
  BY Zenon, <1>1, <1>3 DEF ReadFails, Servers, RotationInv, ServerInv
<1> QED
  BY <1>2, <1>3

\* A reload begins with the key.
LEMMA ReloadCAInv == ASSUME RotationInv, ReloadCA PROVE RotationInv'
<1>1. srv' \in Servers /\ srv'.up = srv.up /\ srv'.rd.at = "key"
  BY Zenon DEF RotationInv, FileTypes, ReloadCA, Reading, Servers, Reads
<1>2. srv.up => disk.crt # 0
  BY DEF RotationInv, ServerInv
<1> QED
  BY <1>1, <1>2, ServerStep DEF ReloadCA

\* Past the certificate, a read has seen one.
LEMMA readDiskStateInv == ASSUME RotationInv, readDiskState PROVE RotationInv'
<1>1. srv \in Servers /\ disk \in Files
  BY DEF RotationInv, FileTypes
<1>2. /\ srv.up \/ srv.rd.at \in {"mismatch", "next", "prev"} => disk.crt # 0
      /\ UNCHANGED <<disk, cmd, expiry, made, now>>
  BY DEF RotationInv, ServerInv, readDiskState
<1>3. CASE ReadFails
  BY <1>2, <1>3, ReadFailsStep, ServerStep
<1>4. CASE srv.rd.at = "key" /\ srv' = [srv EXCEPT !.rd.at = "crt", !.rd.key = disk.key]
  <2>1. srv' \in Servers /\ srv'.up = srv.up /\ srv'.rd.at = "crt"
    BY Zenon, <1>1, <1>4 DEF Servers, Reads, Files
  <2> QED
    BY <1>2, <2>1, ServerStep
<1>5. CASE disk.crt # 0 /\ \E at \in {"next", "mismatch", "prev"} : srv' = Reading(at)
  <2> PICK at \in {"next", "mismatch", "prev"} : srv' = Reading(at)
    BY <1>5
  <2>0. at \in Reads /\ at # "generate"
    BY DEF Reads
  <2>1. srv' \in Servers /\ srv'.rd.at # "generate"
    BY Zenon, <1>1, <2>0 DEF Servers, Reading
  <2> QED
    BY <1>2, <1>5, <2>1, ServerStep
<1>6. CASE /\ srv.rd.at = "next"
           /\ srv' = [srv EXCEPT !.rd.at = "prev",
                                 !.rd.extra = IF disk.ncrt = 0 THEN << >> ELSE <<disk.ncrt>>]
  <2> DEFINE extra == IF disk.ncrt = 0 THEN << >> ELSE <<disk.ncrt>>
  <2>1. extra \in Seq(Nat)
    BY <1>1 DEF Files
  <2> HIDE DEF extra
  <2>2. srv' = [srv EXCEPT !.rd.at = "prev", !.rd.extra = extra]
    BY <1>6 DEF extra
  <2>3. srv' \in Servers /\ srv'.rd.at = "prev"
    BY Zenon, <1>1, <2>1, <2>2 DEF Servers, Reads
  <2> QED
    BY <1>2, <1>6, <2>3, ServerStep
<1>7. CASE srv.rd.at = "prev" /\ \E t \in Seq(Nat) : Install(t)
  <2>1. NoRead \in [at : Reads, key : Nat, extra : Seq(Nat)] /\ NoRead.at = "none"
    BY DEF NoRead, Reads
  <2> PICK t \in Seq(Nat) : Install(t)
    BY <1>7
  <2> DEFINE seq == IF t = srv.trusted THEN srv.seq ELSE srv.seq + 1
  <2>2. srv' = [up |-> TRUE, starting |-> FALSE, trusted |-> t, seq |-> seq, rd |-> NoRead]
    BY Zenon, <1>1 DEF Install, Servers
  <2>3. seq \in Nat
    BY <1>1 DEF Servers
  <2> HIDE DEF seq
  <2>4. srv' \in Servers /\ srv'.rd.at = "none"
    BY <2>1, <2>2, <2>3 DEF Servers
  <2> QED
    BY <1>2, <1>7, <2>4, ServerStep
<1>8. srv.rd.at = "prev" => \E t \in Seq(Nat) : Install(t)
  <2> DEFINE t == <<srv.rd.key>> \o srv.rd.extra
                    \o (IF disk.prev = 0 THEN << >> ELSE <<disk.prev>>)
  <2>1. t \in Seq(Nat)
    BY <1>1 DEF Servers, Files
  <2>2. srv.rd.at = "prev" => Install(t)
    BY DEF readDiskState
  <2> QED
    BY Zenon, <2>1, <2>2
<1>9. \/ ReadFails
      \/ srv.rd.at = "key" /\ srv' = [srv EXCEPT !.rd.at = "crt", !.rd.key = disk.key]
      \/ disk.crt # 0 /\ \E at \in {"next", "mismatch", "prev"} : srv' = Reading(at)
      \/ /\ srv.rd.at = "next"
         /\ srv' = [srv EXCEPT !.rd.at = "prev",
                               !.rd.extra = IF disk.ncrt = 0 THEN << >> ELSE <<disk.ncrt>>]
      \/ srv.rd.at = "prev"
  BY <1>2 DEF readDiskState
<1> QED
  BY <1>3, <1>4, <1>5, <1>6, <1>7, <1>8, <1>9

\* Only a server that is up signs, so there is a certificate.
LEMMA IssueSVIDInv == ASSUME RotationInv, IssueSVID PROVE RotationInv'
<1>1. disk.crt # 0
  BY DEF RotationInv, ServerInv, IssueSVID
<1>2. expiry' \in [CAs -> Nat]
  <2>1. now + RetireAfter \in Nat
    BY RotationAssumption DEF RotationInv, FileTypes
  <2> QED
    BY Zenon, <2>1 DEF RotationInv, FileTypes, IssueSVID
<1> QED
  BY <1>1, <1>2 DEF RotationInv, FileTypes, CommandInv, ServerInv, Paired, InPlace, IssueSVID

\* Time changes no file.
LEMMA TickInv == ASSUME RotationInv, Tick PROVE RotationInv'
BY DEF RotationInv, FileTypes, CommandInv, ServerInv, Paired, InPlace, Tick

\* A killed command leaves what every step of it left.
LEMMA CommandDiesInv == ASSUME RotationInv, CommandDies PROVE RotationInv'
BY DEF RotationInv, FileTypes, Commands, Ops, Steps, Idle, CommandInv, ServerInv, Paired,
       InPlace, CommandDies

\* A server that dies relies on nothing.
LEMMA ServerDiesInv == ASSUME RotationInv, ServerDies PROVE RotationInv'
<1>1. Down \in Servers /\ Down.rd.at = "none" /\ ~Down.up
  BY DEF Down, NoRead, Servers, Reads
<1> QED
  BY <1>1, ServerStep DEF ServerDies

\* The strengthening is inductive: a command leaves the pair where the next
\* command, or a starting server, finds it, at each of its steps.
THEOREM RotationInvHolds == RotationSpec => []RotationInv
<1>1. RotationInit => RotationInv
  BY RotationInitInv
<1>2. RotationInv /\ [RotationNext]_rvars => RotationInv'
  <2> SUFFICES ASSUME RotationInv, [RotationNext]_rvars PROVE RotationInv'
    OBVIOUS
  <2>1. CASE \E op \in {"prepare", "activate", "retire"} : Invoke(op)
    BY <2>1, InvokeInv
  <2>2. CASE Command
    BY <2>2, repairActivationInv, PrepareCAInv, ActivateCAInv, RetireCAInv DEF Command
  <2>3. CASE Server
    BY <2>3, loadOrCreateDiskInv, generateCAInv, ReloadCAInv, readDiskStateInv DEF Server
  <2>4. CASE IssueSVID \/ Tick \/ CommandDies \/ ServerDies
    BY <2>4, IssueSVIDInv, TickInv, CommandDiesInv, ServerDiesInv
  <2>5. CASE UNCHANGED rvars
    BY <2>5 DEF rvars, RotationInv, FileTypes, CommandInv, ServerInv, Paired, InPlace
  <2> QED
    BY <2>1, <2>2, <2>3, <2>4, <2>5 DEF RotationNext
<1> QED
  BY <1>1, <1>2, PTL DEF RotationSpec

\* StartsAgain for every number of CAs, commands and crashes: once a server
\* has signed anything, a server that starts finds the active pair, under
\* whichever name repairActivation looks for it (rotation.go).
THEOREM StartsAgainHolds == RotationSpec => []StartsAgain
<1>1. RotationInv => StartsAgain
  BY ActivePaired DEF RotationInv, ServerInv, StartsAgain
<1> QED
  BY <1>1, RotationInvHolds, PTL

-----------------------------------------------------------------------------
(* The disk CA implements TrustSource.                                       *)

\* A file names a CA that was generated, or does not exist.
FileNumbers == 0..MaxCA

FilesInv ==
  /\ disk.key \in FileNumbers /\ disk.crt \in FileNumbers /\ disk.nkey \in FileNumbers
  /\ disk.ncrt \in FileNumbers /\ disk.prev \in FileNumbers /\ made \in FileNumbers

Extras == {<< >>} \cup {<<c>> : c \in CAs}

\* What was read so far is of CAs; a server that is not up has no material.
SourceInv ==
  /\ FilesInv
  /\ srv.rd.at \in {"crt", "mismatch", "next", "prev"} => srv.rd.key \in CAs
  /\ srv.rd.extra \in Extras
  /\ srv.starting => ~srv.up
  /\ ~srv.up => srv.trusted = << >> /\ srv.seq = 0
  /\ srv.up => srv.trusted \in CASets

\* Nothing was generated, nothing is up.
LEMMA SourceInitInv == RotationInit => SourceInv
BY RotationAssumption DEF RotationInit, SourceInv, FilesInv, Down, NoRead, FileNumbers, Extras

\* The commands write only numbers of CAs.
LEMMA SourceCommand ==
  ASSUME RotationInv, SourceInv, Command PROVE SourceInv'
<1>1. srv' = srv
  BY DEF Command, repairActivation, PrepareCA, ActivateCA, RetireCA
<1>2. /\ disk \in Files /\ made \in Nat /\ now \in Nat /\ 0 \in FileNumbers
      /\ made < MaxCA => made + 1 \in FileNumbers
  BY RotationAssumption DEF RotationInv, FileTypes, FileNumbers
<1>3. CASE repairActivation
  <2>1. FilesInv'
    BY <1>2, <1>3 DEF repairActivation, SourceInv, FilesInv, Files
  <2> QED
    BY <1>1, <2>1 DEF SourceInv, FilesInv
<1>4. CASE PrepareCA
  <2>1. FilesInv'
    BY <1>2, <1>4 DEF PrepareCA, SourceInv, FilesInv, Files
  <2> QED
    BY <1>1, <2>1 DEF SourceInv, FilesInv
<1>5. CASE ActivateCA
  <2>1. FilesInv'
    BY Zenon, <1>2, <1>5 DEF ActivateCA, SourceInv, FilesInv, Files
  <2> QED
    BY <1>1, <2>1 DEF SourceInv, FilesInv
<1>6. CASE \E f \in BOOLEAN : RetireCA(f)
  <2>1. FilesInv'
    BY Zenon, <1>2, <1>6 DEF RetireCA, SourceInv, FilesInv, Files
  <2> QED
    BY <1>1, <2>1 DEF SourceInv, FilesInv
<1> QED
  BY <1>3, <1>4, <1>5, <1>6 DEF Command

\* The anchors a read installs are one to three CAs.
LEMMA AnchorSets ==
  ASSUME NEW k \in CAs, NEW x \in Extras, NEW p \in FileNumbers
  PROVE  LET t == <<k>> \o x \o (IF p = 0 THEN << >> ELSE <<p>>)
         IN  t \in CASets /\ t # << >>
<1> DEFINE q == IF p = 0 THEN << >> ELSE <<p>>
           t == <<k>> \o x \o q
<1>1. q \in Seq(CAs) /\ Len(q) \in 0..1
  <2>1. p = 0 \/ p \in CAs
    BY RotationAssumption DEF FileNumbers, CAs
  <2> QED
    BY <2>1
<1>2. x \in Seq(CAs) /\ Len(x) \in 0..1
  <2>1. CASE x = << >>
    BY <2>1
  <2>2. CASE x # << >>
    <3> PICK c \in CAs : x = <<c>>
      BY <2>2 DEF Extras
    <3> QED
      OBVIOUS
  <2> QED
    BY <2>1, <2>2
<1>3. <<k>> \in Seq(CAs) /\ Len(<<k>>) = 1
  OBVIOUS
<1> HIDE DEF q
<1>4. <<k>> \o x \in Seq(CAs) /\ Len(<<k>> \o x) = 1 + Len(x)
  BY <1>2, <1>3, ConcatProperties
<1>5. t \in Seq(CAs) /\ Len(t) = 1 + Len(x) + Len(q)
  BY <1>1, <1>2, <1>4, ConcatProperties
<1> HIDE DEF t
<1>6. Len(t) \in 1..3
  <2> DEFINE a == Len(x)
             b == Len(q)
  <2>1. a \in 0..1 /\ b \in 0..1 /\ Len(t) = 1 + a + b
    BY <1>1, <1>2, <1>5
  <2> HIDE DEF a, b
  <2> QED
    BY <2>1
<1>7. t \in [1..Len(t) -> CAs]
  BY <1>5, LenProperties
<1>8. t \in CASets
  BY <1>6, <1>7 DEF CASets
<1>9. t # << >>
  BY <1>6
<1> QED
  BY <1>8, <1>9 DEF t, q

\* What TrustSource sees of the server.
Shown == [trusted |-> IF srv.up THEN srv.trusted ELSE << >>,
          seq |-> IF srv.up THEN srv.seq ELSE 0]

\* A step of the server that ends no read shows nothing new.
LEMMA SameShown ==
  ASSUME srv'.up = srv.up, srv'.trusted = srv.trusted, srv'.seq = srv.seq
  PROVE  Shown' = Shown
BY DEF Shown

\* A read that ends shows a first material, another one, or the same.
LEMMA InstallShown ==
  ASSUME RotationInv, SourceInv, NEW t \in CASets, t # << >>, Install(t)
  PROVE  /\ Trust!SourceStart \/ Trust!SourceReplace \/ Shown' = Shown
         /\ srv'.up /\ srv'.trusted = t /\ ~srv'.starting /\ srv'.rd = NoRead
<1>1. srv \in Servers
  BY DEF RotationInv, FileTypes
<1>2. srv' = [up |-> TRUE, starting |-> FALSE, trusted |-> t, rd |-> NoRead,
              seq |-> IF t = srv.trusted THEN srv.seq ELSE srv.seq + 1]
  BY Zenon, <1>1 DEF Install, Servers
<1>3. CASE ~srv.up
  <2>1. srv.trusted = << >> /\ srv.seq = 0
    BY <1>3 DEF SourceInv, FilesInv
  <2>2. Shown = [trusted |-> << >>, seq |-> 0] /\ Shown' = [trusted |-> t, seq |-> 1]
    BY <1>2, <1>3, <2>1 DEF Shown
  <2>3. Trust!SourceStart
    BY <2>2 DEF Shown, Trust!SourceStart, Trust!Source
  <2> QED
    BY <1>2, <2>3
<1>4. CASE srv.up /\ t = srv.trusted
  BY <1>2, <1>4 DEF Shown
<1>5. CASE srv.up /\ t # srv.trusted
  <2>1. /\ Shown = [trusted |-> srv.trusted, seq |-> srv.seq]
        /\ Shown' = [trusted |-> t, seq |-> srv.seq + 1]
    BY <1>2, <1>5 DEF Shown
  <2>2. srv.trusted # << >>
    <3>1. PICK n \in 1..3 : srv.trusted \in [1..n -> CAs]
      BY <1>5 DEF SourceInv, FilesInv, CASets
    <3>2. 1 \in DOMAIN srv.trusted
      BY <3>1
    <3> QED
      BY <3>2
  <2>3. Trust!SourceReplace
    BY <1>5, <2>1, <2>2 DEF Shown, Trust!SourceReplace, Trust!Source
  <2> QED
    BY <1>2, <2>3
<1> QED
  BY <1>3, <1>4, <1>5

TrustStep == Trust!SourceStart \/ Trust!SourceReplace \/ Trust!SourceStop \/ Shown' = Shown

\* Down is no material, and a read that is dropped had installed nothing.
LEMMA DownShown ==
  ASSUME SourceInv, FilesInv', srv' = Down
  PROVE  SourceInv' /\ TrustStep
<1>1. SourceInv' /\ ~srv'.up
  BY DEF SourceInv, FilesInv, Down, NoRead, Extras
<1>2. CASE ~srv.up
  BY <1>1, <1>2 DEF Shown, TrustStep
<1>3. CASE srv.up
  <2>1. PICK n \in 1..3 : srv.trusted \in [1..n -> CAs]
    BY <1>3 DEF SourceInv, FilesInv, CASets
  <2>2. 1 \in DOMAIN srv.trusted
    BY <2>1
  <2>3. Shown.trusted # << >> /\ Shown' = [trusted |-> << >>, seq |-> 0]
    BY <1>1, <1>3, <2>2 DEF Shown
  <2> QED
    BY <1>1, <2>3 DEF TrustStep, Shown, Trust!SourceStop, Trust!Source
<1> QED
  BY <1>2, <1>3

\* A failed read shows nothing new.
LEMMA ReadFailsShown ==
  ASSUME RotationInv, SourceInv, FilesInv', ReadFails
  PROVE  SourceInv' /\ TrustStep
<1>1. CASE srv.starting
  BY <1>1, DownShown DEF ReadFails
<1>2. CASE ~srv.starting
  <2>1. srv' = [srv EXCEPT !.rd = NoRead] /\ srv \in Servers
    BY <1>2 DEF ReadFails, RotationInv, FileTypes
  <2>2. /\ srv'.up = srv.up /\ srv'.trusted = srv.trusted /\ srv'.seq = srv.seq
        /\ srv'.starting = srv.starting /\ srv'.rd = NoRead
    BY <2>1 DEF Servers
  <2>3. SourceInv'
    BY <2>2 DEF SourceInv, FilesInv, NoRead, Extras
  <2> QED
    BY <2>2, <2>3, SameShown DEF TrustStep
<1> QED
  BY <1>1, <1>2

\* A read goes on: its place, its key and its extra anchor change.
LEMMA ReadGoesOn ==
  ASSUME RotationInv, SourceInv, FilesInv',
         NEW at, NEW k, NEW x \in Extras,
         at \in {"crt", "mismatch", "next", "prev"} => k \in CAs,
         srv' = [srv EXCEPT !.rd = [at |-> at, key |-> k, extra |-> x]]
  PROVE  SourceInv' /\ TrustStep
<1>1. /\ srv'.up = srv.up /\ srv'.trusted = srv.trusted /\ srv'.seq = srv.seq
      /\ srv'.starting = srv.starting /\ srv'.rd = [at |-> at, key |-> k, extra |-> x]
  BY DEF RotationInv, FileTypes, Servers
<1>2. SourceInv'
  BY <1>1 DEF SourceInv, FilesInv
<1> QED
  BY <1>1, <1>2, SameShown DEF TrustStep

\* A read in progress, field by field.
LEMMA ReadingRecord ==
  ASSUME RotationInv, NEW at
  PROVE  Reading(at) = [srv EXCEPT !.rd = [at |-> at, key |-> srv.rd.key, extra |-> srv.rd.extra]]
<1>1. srv.rd \in [at : Reads, key : Nat, extra : Seq(Nat)]
  BY DEF RotationInv, FileTypes, Servers
<1>2. [srv.rd EXCEPT !.at = at] = [at |-> at, key |-> srv.rd.key, extra |-> srv.rd.extra]
  BY <1>1
<1>3. Reading(at) = [srv EXCEPT !.rd = [srv.rd EXCEPT !.at = at]]
  BY DEF Reading
<1> QED
  BY <1>2, <1>3

\* Each file read, and the installation at the end.
LEMMA SourceRead == ASSUME RotationInv, SourceInv, readDiskState PROVE SourceInv' /\ TrustStep
<1>1. FilesInv' /\ disk \in Files /\ srv \in Servers
  BY DEF SourceInv, FilesInv, readDiskState, RotationInv, FileTypes
<1>2. /\ srv.rd = [at |-> srv.rd.at, key |-> srv.rd.key, extra |-> srv.rd.extra]
      /\ srv.rd.extra \in Extras
  BY <1>1 DEF Servers, SourceInv, FilesInv
<1>3. CASE srv.rd.at = "key"
  <2>1. CASE disk.key = 0
    BY <1>1, <1>3, <2>1, ReadFailsShown DEF readDiskState
  <2>2. CASE disk.key # 0
    <3>1. disk.key \in CAs
      BY <1>1, <2>2, RotationAssumption DEF SourceInv, FilesInv, FileNumbers, CAs, Files
    <3>2. srv' = [srv EXCEPT !.rd = [at |-> "crt", key |-> disk.key, extra |-> srv.rd.extra]]
      BY Zenon, <1>1, <1>3, <2>2 DEF readDiskState, Servers
    <3> QED
      BY Zenon, <1>1, <1>2, <3>1, <3>2, ReadGoesOn
  <2> QED
    BY <2>1, <2>2
<1>4. CASE srv.rd.at \in {"crt", "mismatch"}
  <2>1. srv.rd.key \in CAs
    BY <1>4 DEF SourceInv, FilesInv
  <2>2. ReadFails \/ \E at \in {"next", "mismatch", "prev"} : srv' = Reading(at)
    BY <1>4 DEF readDiskState
  <2>3. ASSUME NEW at, srv' = Reading(at) PROVE SourceInv' /\ TrustStep
    <3>1. srv' = [srv EXCEPT !.rd = [at |-> at, key |-> srv.rd.key, extra |-> srv.rd.extra]]
      BY <2>3, ReadingRecord
    <3> QED
      BY <1>1, <1>2, <2>1, <3>1, ReadGoesOn
  <2> QED
    BY <1>1, <2>2, <2>3, ReadFailsShown
<1>5. CASE srv.rd.at = "next"
  <2> DEFINE x == IF disk.ncrt = 0 THEN << >> ELSE <<disk.ncrt>>
  <2>1. x \in Extras /\ srv.rd.key \in CAs
    BY <1>1, <1>5, RotationAssumption DEF SourceInv, FilesInv, Extras, FileNumbers, CAs, Files
  <2>2. srv' = [srv EXCEPT !.rd = [at |-> "prev", key |-> srv.rd.key, extra |-> x]]
    BY Zenon, <1>1, <1>5 DEF readDiskState, Servers
  <2> HIDE DEF x
  <2> QED
    BY <1>1, <2>1, <2>2, ReadGoesOn
<1>6. CASE srv.rd.at = "prev"
  <2> DEFINE t == <<srv.rd.key>> \o srv.rd.extra
                    \o (IF disk.prev = 0 THEN << >> ELSE <<disk.prev>>)
  <2>1. srv.rd.key \in CAs /\ disk.prev \in FileNumbers
    BY <1>6 DEF SourceInv, FilesInv
  <2>2. t \in CASets /\ t # << >>
    BY <1>2, <2>1, AnchorSets
  <2>3. Install(t)
    BY <1>6 DEF readDiskState
  <2> HIDE DEF t
  <2>4. /\ TrustStep
        /\ srv'.up /\ srv'.trusted = t /\ ~srv'.starting /\ srv'.rd = NoRead
    BY <2>2, <2>3, InstallShown DEF TrustStep
  <2> QED
    BY <1>1, <2>2, <2>4 DEF SourceInv, FilesInv, NoRead, Extras
<1> QED
  BY <1>3, <1>4, <1>5, <1>6 DEF readDiskState

\* The steps of the server.
LEMMA SourceServer == ASSUME RotationInv, SourceInv, Server PROVE SourceInv' /\ TrustStep
<1>1. srv \in Servers /\ disk \in Files /\ made \in Nat
  BY DEF RotationInv, FileTypes
<1>2. CASE loadOrCreateDisk
  <2>1. FilesInv'
    <3>1. made < MaxCA => made + 1 \in FileNumbers
      BY <1>1, RotationAssumption DEF FileNumbers
    <3>2. \/ disk' = disk /\ made' = made
          \/ made < MaxCA /\ made' = made + 1 /\ disk' = [disk EXCEPT !.key = made + 1]
      BY <1>2 DEF loadOrCreateDisk
    <3> QED
      BY <1>1, <3>1, <3>2 DEF SourceInv, FilesInv, Files
  <2>2. /\ ~srv.up /\ ~srv'.up /\ srv'.trusted = << >> /\ srv'.seq = 0
        /\ srv'.rd.extra = << >> /\ srv'.rd.at \in {"generate", "key"}
    BY <1>2 DEF loadOrCreateDisk, Down, NoRead
  <2> QED
    BY <2>1, <2>2 DEF SourceInv, Extras, Shown, TrustStep
<1>3. CASE generateCA \/ ReloadCA
  <2>1. FilesInv'
    BY <1>1, <1>3 DEF SourceInv, FilesInv, generateCA, ReloadCA, Files
  <2>2. srv' = Reading("key") /\ srv.rd.extra \in Extras
    BY <1>3 DEF generateCA, ReloadCA, SourceInv
  <2>3. srv' = [srv EXCEPT !.rd = [at |-> "key", key |-> srv.rd.key, extra |-> srv.rd.extra]]
    BY <2>2, ReadingRecord
  <2> QED
    BY <2>1, <2>2, <2>3, ReadGoesOn
<1>4. CASE readDiskState
  BY <1>4, SourceRead
<1> QED
  BY <1>2, <1>3, <1>4 DEF Server

\* Every step is a step of TrustSource, or shows nothing new.
LEMMA SourceStep ==
  ASSUME RotationInv, SourceInv, [RotationNext]_rvars PROVE SourceInv' /\ TrustStep
<1>1. CASE Command
  <2>1. srv' = srv
    BY <1>1 DEF Command, repairActivation, PrepareCA, ActivateCA, RetireCA
  <2> QED
    BY <1>1, <2>1, SourceCommand DEF TrustStep, Shown
<1>2. CASE Server
  BY <1>2, SourceServer
<1>3. CASE ServerDies
  <2>1. FilesInv' /\ srv' = Down
    BY <1>3 DEF ServerDies, SourceInv, FilesInv
  <2> QED
    BY <2>1, DownShown
<1>4. CASE UNCHANGED <<disk, made, srv>>
  BY <1>4 DEF SourceInv, FilesInv, TrustStep, Shown
<1>5. \/ Command \/ Server \/ ServerDies
      \/ UNCHANGED <<disk, made, srv>>
  BY DEF RotationNext, Invoke, IssueSVID, Tick, CommandDies, rvars
<1> QED
  BY <1>1, <1>2, <1>3, <1>4, <1>5

\* ImplementsTrustSource for every number of CAs, commands and crashes: a
\* server that reads the directory file by file, beside a command, replaces
\* its material as a whole and counts each change once (rotation.go, ReloadCA).
THEOREM TrustSourceImplemented == RotationSpec => ImplementsTrustSource
<1>1. RotationInit => SourceInv /\ Trust!SourceInit
  <2>1. RotationInit => Trust!SourceInit
    BY DEF RotationInit, Down, Trust!SourceInit, Trust!Source
  <2> QED
    BY <2>1, SourceInitInv
<1>2. RotationInv /\ SourceInv /\ [RotationNext]_rvars => SourceInv' /\ TrustStep
  BY SourceStep
<1>3. TrustStep => [Trust!SourceStart \/ Trust!SourceReplace \/ Trust!SourceStop]_Shown
  BY DEF TrustStep
<1> QED
  BY <1>1, <1>2, <1>3, RotationInvHolds, PTL
     DEF RotationSpec, ImplementsTrustSource, Trust!SourceSpec, Shown
=============================================================================
