---------------------------- MODULE TrustBundle ---------------------------
(***************************************************************************)
(* The served SPIFFE bundle: a trust source, the durable spiffe_sequence     *)
(* that numbers its material (internal/server/identity/bundle_sequence.go    *)
(* over the bundle_sequence table), and GET /v1/spiffe-bundle, read by a     *)
(* peer that keeps the last document.  Two callers number the material at    *)
(* the same time: "main", the start and then the SIGHUP loop                 *)
(* (recordCAReload), and "get", the request.  Trust material is the pair of  *)
(* the X.509 and the JWT bundle; a digest is the pair it hashes, whose halves *)
(* are read one after the other.                                             *)
(***************************************************************************)
EXTENDS TrustSource

CONSTANTS MaxFaults,    \* failed reads and writes of the store
          MaxCrashes    \* crashes of the server

ASSUME BundleAssumption ==
  /\ MaxFaults \in Nat /\ MaxCrashes \in Nat
  /\ Off = <<0, 0>> /\ Materials \subseteq (Nat \ {0}) \X (Nat \ {0})

VARIABLES d,       \* DurableSequence: seq, digest, srcSeq, held off, resync due
          stored,  \* the bundle_sequence row
          caller,  \* the callers of BundleSequence
          io,      \* ioMu
          peer,    \* the last document the peer fetched
          faults, crashes,
          newest,  \* the newest material so far: a rotation brings back no earlier half
          lost     \* a number was in use and not stored when the server died

svars == <<d, stored, caller, io, peer, faults, newest, crashes, lost>>
vars == <<src, svars>>

Callers == {"main", "get"}
NoSeq == [seq |-> 0, digest |-> Off, srcSeq |-> 0, hold |-> FALSE, resync |-> FALSE]
Resting == [pc |-> "idle", src |-> 0, jwks |-> 0, pem |-> 0, seq |-> 0]

Init ==
  /\ SourceInit
  /\ d = NoSeq /\ stored = [seq |-> 0, digest |-> Off]
  /\ caller = [c \in Callers |-> Resting] /\ io = "free"
  /\ peer = [seq |-> 0, pem |-> 0, jwks |-> 0]
  /\ faults = 0 /\ newest = Off /\ crashes = 0 /\ lost = FALSE

Fault == faults < MaxFaults /\ faults' = faults + 1
X509 == src.trusted[1]
JWKS == src.trusted[2]
NotBefore(m, n) == m[1] >= n[1] /\ m[2] >= n[2]

(***************************************************************************)
(* next: the source's count, then materialDigest's two reads, then number.  *)
(***************************************************************************)

At(c, pc) == caller[c].pc = pc
To(c, pc) == caller' = [caller EXCEPT ![c].pc = pc]
Return(c, seq) == caller' = [caller EXCEPT ![c] = [@ EXCEPT !.pc = "have", !.seq = seq]]

materialDigest(c) ==
  /\ \/ /\ At(c, "src")
        /\ caller' = [caller EXCEPT ![c] = [@ EXCEPT !.pc = "jwks", !.src = src.seq]]
     \/ /\ At(c, "jwks")
        /\ caller' = [caller EXCEPT ![c] = [@ EXCEPT !.pc = "pem", !.jwks = JWKS]]
     \/ /\ At(c, "pem")
        /\ caller' = [caller EXCEPT ![c] = [@ EXCEPT !.pc = "next", !.pem = X509]]
  /\ UNCHANGED <<src, d, stored, io, peer, faults, newest, crashes, lost>>

Digest(c) == <<caller[c].pem, caller[c].jwks>>

next(c) ==
  /\ At(c, "next")
  /\ IF (Digest(c) = d.digest /\ ~d.resync) \/ d.hold \/ io # "free"
     THEN Return(c, d.seq) /\ UNCHANGED io
     ELSE To(c, "load") /\ io' = c
  /\ UNCHANGED <<src, d, stored, peer, faults, newest, crashes, lost>>

\* Mutant of Numbered: the stored number is taken over for other material too.
NumberedAnyDigest(digest, count) ==
  IF stored.seq > d.seq THEN stored.seq
  ELSE d.seq + (IF d.seq = 0 \/ count <= d.srcSeq THEN 1 ELSE count - d.srcSeq)

\* Mutant of Numbered: a start that does not go on from the stored number.
NumberedAfresh(digest, count) ==
  d.seq + (IF d.seq = 0 \/ count <= d.srcSeq THEN 1 ELSE count - d.srcSeq)

\* The number for material whose digest is not the one last numbered.
Numbered(digest, count) ==
  IF stored.digest = digest /\ (stored.seq > d.seq \/ d.seq = 0)
  THEN stored.seq
  ELSE LET step == IF d.seq = 0 \/ count <= d.srcSeq THEN 1 ELSE count - d.srcSeq
       IN  (IF d.seq > stored.seq THEN d.seq ELSE stored.seq) + step

number(c) ==
  /\ At(c, "load")
  /\ IF Digest(c) = d.digest
     THEN LET seq == IF stored.digest = d.digest /\ stored.seq > d.seq THEN stored.seq ELSE d.seq
          IN  /\ d' = [d EXCEPT !.seq = seq, !.resync = FALSE]
              /\ Return(c, seq) /\ io' = "free"
     ELSE LET seq == Numbered(Digest(c), caller[c].src)
          IN  /\ d' = [d EXCEPT !.seq = seq, !.digest = Digest(c), !.srcSeq = caller[c].src]
              /\ IF seq = stored.seq /\ stored.digest = Digest(c)
                 THEN Return(c, seq) /\ io' = "free"
                 ELSE caller' = [caller EXCEPT ![c] = [@ EXCEPT !.pc = "save", !.seq = seq]]
                        /\ UNCHANGED io
  /\ UNCHANGED <<src, stored, peer, faults, newest, crashes, lost>>

\* A failed read holds the store off; at the start it ends the start.
LoadFails(c) ==
  /\ At(c, "load") /\ Fault
  /\ IF d.seq = 0
     THEN /\ SourceStop /\ d' = NoSeq /\ caller' = [x \in Callers |-> Resting]
     ELSE /\ d' = [d EXCEPT !.hold = TRUE] /\ Return(c, d.seq) /\ UNCHANGED src
  /\ io' = "free"
  /\ UNCHANGED <<stored, peer, newest, crashes, lost>>

\* The stored row only moves forward; a refused or failed save is only noted.
SaveBundleSequence(c) ==
  /\ At(c, "save")
  /\ \/ /\ stored' = IF stored.seq < caller[c].seq
                     THEN [seq |-> caller[c].seq, digest |-> Digest(c)] ELSE stored
        /\ d' = [d EXCEPT !.resync = FALSE] /\ UNCHANGED faults
     \/ Fault /\ UNCHANGED stored /\ \E notLeader \in BOOLEAN : d' = [d EXCEPT !.resync = notLeader]
  /\ Return(c, caller[c].seq) /\ io' = "free"
  /\ UNCHANGED <<src, peer, newest, crashes, lost>>

HoldOffEnds ==
  /\ d.hold /\ d' = [d EXCEPT !.hold = FALSE]
  /\ UNCHANGED <<src, stored, caller, io, peer, faults, newest, crashes, lost>>

(***************************************************************************)
(* The callers.                                                             *)
(***************************************************************************)

Serving == src.trusted # Off /\ d.seq # 0

\* recordCAReload only puts the number in an audit row.
recordCAReload ==
  /\ At("main", "have") /\ caller' = [caller EXCEPT !["main"] = Resting]
  /\ UNCHANGED <<src, d, stored, io, peer, faults, newest, crashes, lost>>

\* GET /v1/spiffe-bundle: the number first, then the anchors, then the keys.
getSPIFFEBundle ==
  /\ At("get", "idle") /\ Serving
  /\ To("get", "src")
  /\ UNCHANGED <<src, d, stored, io, peer, faults, newest, crashes, lost>>

BuildSPIFFEBundle ==
  /\ \/ /\ At("get", "have")
        /\ caller' = [caller EXCEPT !["get"] = [@ EXCEPT !.pc = "keys", !.pem = X509]]
        /\ UNCHANGED peer
     \/ /\ At("get", "keys")
        /\ peer' = [seq |-> caller["get"].seq, pem |-> caller["get"].pem, jwks |-> JWKS]
        /\ caller' = [caller EXCEPT !["get"] = Resting]
  /\ UNCHANGED <<src, d, stored, io, faults, newest, crashes, lost>>

\* The start numbers the material before it serves anything, and the SIGHUP
\* loop numbers each change before it takes the next signal.
Numbers == caller' = [caller EXCEPT !["main"] = [Resting EXCEPT !.pc = "src"]]

Start ==
  /\ SourceStart /\ NotBefore(src'.trusted, newest) /\ newest' = src'.trusted
  /\ Numbers
  /\ UNCHANGED <<d, stored, io, peer, faults, crashes, lost>>

Reload ==
  /\ Serving /\ At("main", "idle")
  /\ SourceReplace /\ NotBefore(src'.trusted, newest) /\ newest' = src'.trusted
  /\ Numbers
  /\ UNCHANGED <<d, stored, io, peer, faults, crashes, lost>>

Crash ==
  /\ crashes < MaxCrashes /\ crashes' = crashes + 1
  /\ SourceStop
  /\ d' = NoSeq /\ caller' = [c \in Callers |-> Resting] /\ io' = "free"
  /\ lost' = (lost \/ d.seq > stored.seq)
  /\ UNCHANGED <<stored, peer, faults, newest>>

Numbering ==
  \/ \E c \in Callers : \/ materialDigest(c) \/ next(c) \/ number(c) \/ LoadFails(c)
                        \/ SaveBundleSequence(c)
  \/ HoldOffEnds \/ recordCAReload \/ getSPIFFEBundle \/ BuildSPIFFEBundle

Next == Numbering \/ Start \/ Reload \/ Crash

Spec == Init /\ [][Next]_vars

(***************************************************************************)
(* Properties.                                                              *)
(***************************************************************************)

\* Types, and ioMu is held by exactly the caller that talks to the store.
BundleTypeOK ==
  /\ src.trusted \in Materials \cup {Off} /\ src.seq \in Nat
  /\ stored.seq \in Nat /\ d.seq \in Nat /\ faults \in 0..MaxFaults
  /\ \A c \in Callers : (caller[c].pc \in {"load", "save"}) <=> io = c

Settled == Serving /\ d.digest = src.trusted /\ At("main", "idle") /\ At("get", "idle")

\* The number tells a peer whether it is up to date: once the current material
\* is numbered, a peer that holds the same number holds the same material.
SameNumberSameMaterial ==
  Settled /\ ~lost /\ peer.seq = d.seq => peer.pem = X509 /\ peer.jwks = JWKS

\* spiffe_sequence never goes back for a peer, restarts included, as long as
\* every number that was in use when the server died had been stored.
SequenceMovesForward == [][~lost => peer'.seq >= peer.seq]_vars

\* What bundle_sequence.go:30-31 says, without that condition.
SequenceNeverBack == [][peer'.seq >= peer.seq]_vars
=============================================================================
