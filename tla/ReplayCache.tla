---------------------------- MODULE ReplayCache ---------------------------
(***************************************************************************)
(* The replay cache of internal/server/api/dpop.go: two generations of      *)
(* single-use keys, rotated every `retention`, with a total bound and, for   *)
(* client assertions, a quota per owner. A key is hashed with its owner.     *)
(***************************************************************************)
EXTENDS Integers, FiniteSets

CONSTANTS Owners,       \* who presents single-use credentials
          MaxEntries    \* dpopMaxReplayEntries

\* The zero time is before every rotation that could be due.
newReplayCache(retention) ==
  [cur |-> {}, prev |-> {}, rotated |-> 0 - retention, retention |-> retention,
   curOwner |-> [o \in Owners |-> 0], prevOwner |-> [o \in Owners |-> 0]]

\* Mutant of Rotated: a rotation forgets both generations.
RotatedAll(c, t) ==
  IF t - c.rotated >= c.retention
  THEN [cur |-> {}, prev |-> {}, rotated |-> t, retention |-> c.retention,
        curOwner |-> [o \in Owners |-> 0], prevOwner |-> [o \in Owners |-> 0]]
  ELSE c

\* A rotation forgets the older generation.
Rotated(c, t) ==
  IF t - c.rotated >= c.retention
  THEN [cur |-> {}, prev |-> c.cur, rotated |-> t, retention |-> c.retention,
        curOwner |-> [o \in Owners |-> 0], prevOwner |-> c.curOwner]
  ELSE c

\* What firstUseBy reports of <<owner, key>> at time t; perOwner 0 is no quota.
Verdict(c, e, t, perOwner) ==
  LET r == Rotated(c, t)
  IN  IF e \in r.cur \cup r.prev THEN "seen"
      ELSE IF perOwner > 0 /\ r.curOwner[e[1]] + r.prevOwner[e[1]] >= perOwner THEN "quota"
      ELSE IF Cardinality(r.cur) + Cardinality(r.prev) >= MaxEntries THEN "full"
      ELSE "first"

\* The cache after the call: the rotation happens whatever the verdict.
firstUseBy(c, e, t, perOwner) ==
  LET r == Rotated(c, t)
  IN  IF Verdict(c, e, t, perOwner) # "first" THEN r
      ELSE [cur |-> r.cur \cup {e}, prev |-> r.prev, rotated |-> r.rotated,
            retention |-> r.retention, prevOwner |-> r.prevOwner,
            curOwner |-> IF perOwner > 0 THEN [r.curOwner EXCEPT ![e[1]] = @ + 1] ELSE r.curOwner]
=============================================================================
