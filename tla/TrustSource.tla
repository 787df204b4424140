---------------------------- MODULE TrustSource ---------------------------
(***************************************************************************)
(* What every identity source promises the rest of the server (the           *)
(* BundleSequencer seam of internal/server/identity/source.go): its trust    *)
(* material is replaced as a whole, each replacement by something else is    *)
(* counted, and the count starts at 1 with every start of the process.       *)
(* CARotation implements it; TrustBundle numbers it durably.                 *)
(***************************************************************************)
EXTENDS Naturals

CONSTANTS Materials,   \* the trust material a source may have
          Off          \* no material: the process is down

VARIABLE src

Source(m, n) == [trusted |-> m, seq |-> n]

SourceInit == src = Source(Off, 0)

SourceStart ==
  /\ src.trusted = Off
  /\ \E m \in Materials : src' = Source(m, 1)

SourceReplace ==
  /\ src.trusted # Off
  /\ \E m \in Materials \ {src.trusted} : src' = Source(m, src.seq + 1)

SourceStop == src.trusted # Off /\ src' = Source(Off, 0)

SourceSpec == SourceInit /\ [][SourceStart \/ SourceReplace \/ SourceStop]_src
=============================================================================
