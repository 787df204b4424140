----------------------------- MODULE CAOverlap -----------------------------
(***************************************************************************)
(* caOverlap of internal/server/identity/ca_overlap.go, without its          *)
(* callers: what an external issuer's bundle, the stored rows and the        *)
(* distrust list make of the CAs one process serves.  An overlap o holds     *)
(* the CAs last fetched (current), the ones kept after the issuer dropped    *)
(* them (retired), the distrust list, the cap on the ones restored at the    *)
(* start, whether the stored CAs were compared once (baselined), whether     *)
(* the state differs from the one last stored (dirty), and the CAs the       *)
(* kept-CA events name as kept (told).  Time is counted in ticks from 1; a   *)
(* stored row with until = 0 is a CA that was published when it was saved.   *)
(***************************************************************************)
EXTENDS Naturals, FiniteSets, FiniteSetsExt, Functions, TLC

CONSTANTS CAs,        \* the issuer's CA certificates
          NotAfter,   \* when each one expires
          Grace       \* --upstream-ca-grace

ASSUME OverlapAssumption ==
  NotAfter \in [CAs -> Nat] /\ Grace \in Nat

None == [c \in {} |-> 0]

newCAOverlap ==
  [current |-> {}, retired |-> None, distrusted |-> {}, cap |-> None,
   baselined |-> FALSE, dirty |-> FALSE, told |-> {}]

Without(f, S) == Restrict(f, DOMAIN f \ S)

drop(o, S) ==
  [o EXCEPT !.retired = Without(@, S), !.dirty = @ \/ S # {}, !.told = @ \ S]

\* serveLocked: the kept CAs whose time is up go, the rest are served.
serveLocked(o, t) == drop(o, {c \in DOMAIN o.retired : t >= o.retired[c].until})

Served(o) == o.current \cup DOMAIN o.retired

snapshotLocked(o, t) ==
  [c \in o.current |-> [kept |-> 0, until |-> 0, saved |-> t]]
    @@ [c \in DOMAIN o.retired |->
          [kept |-> o.retired[c].kept, until |-> o.retired[c].until, saved |-> t]]

\* Published rows count only in the first comparison after a start.
Restored(o, stored, t) ==
  {c \in DOMAIN stored :
     stored[c].until = 0 /\ ~o.baselined /\ t < stored[c].saved + Grace}

Until(c, row) == Min({row.until, row.kept + Grace, NotAfter[c]})

mergeStoredLocked(o, stored, next, t) ==
  LET kept == {c \in DOMAIN stored : stored[c].until # 0}
      open == {c \in kept \ next : c \notin o.distrusted}
      ended == {c \in open : t >= Until(c, stored[c])}
      new == [c \in open \ ended |->
                [kept |-> stored[c].kept, until |-> Until(c, stored[c])]]
      back == Restored(o, stored, t)
  IN  [o EXCEPT !.retired = new @@ @,
                !.cap = [c \in back |-> stored[c].saved + Grace] @@ @,
                !.baselined = TRUE,
                !.told = @ \cup DOMAIN new,
                !.dirty = \/ @
                          \/ ended # {} /\ ~o.baselined
                          \/ new @@ o.retired # o.retired]

\* Mutant of retireLocked: a CA restored at the start gets the whole grace again.
retireLockedUncapped(o, prev, next, t) ==
  LET gone == {c \in prev \ next : /\ NotAfter[c] > t
                                   /\ c \notin o.distrusted \cup DOMAIN o.retired}
      limit(c) == Min({t + Grace, NotAfter[c]})
  IN  IF Grace = 0 THEN o
      ELSE [o EXCEPT !.retired = @ @@ [c \in gone |-> [kept |-> t, until |-> limit(c)]],
                     !.told = @ \cup gone,
                     !.dirty = @ \/ gone # {}]

retireLocked(o, prev, next, t) ==
  LET gone == {c \in prev \ next : /\ NotAfter[c] > t
                                   /\ c \notin o.distrusted \cup DOMAIN o.retired}
      limit(c) == Min({t + Grace, NotAfter[c]}
                            \cup {o.cap[k] : k \in {c} \cap DOMAIN o.cap})
  IN  IF Grace = 0 THEN o
      ELSE [o EXCEPT !.retired = @ @@ [c \in gone |-> [kept |-> t, until |-> limit(c)]],
                     !.told = @ \cup gone,
                     !.dirty = @ \/ gone # {}]

\* Mutant of update: the CAs of the last fetch are gone before they are compared.
updateOverwrites(o, have, stored, next, t) ==
  LET merged == IF have THEN mergeStoredLocked(o, stored, next, t) ELSE o
      prev == IF have THEN Restored(o, stored, t) ELSE {}
      kept == retireLocked(merged, prev, next, t)
      back == drop(kept, next \cap DOMAIN kept.retired)
  IN  serveLocked([back EXCEPT !.cap = None, !.current = next,
                               !.dirty = @ \/ next # o.current], t)

\* stored is None where there is no store or it could not be read.
update(o, have, stored, next, t) ==
  LET merged == IF have THEN mergeStoredLocked(o, stored, next, t) ELSE o
      prev == o.current \cup IF have THEN Restored(o, stored, t) ELSE {}
      kept == retireLocked(merged, prev, next, t)
      back == drop(kept, next \cap DOMAIN kept.retired)
  IN  serveLocked([back EXCEPT !.cap = None, !.current = next,
                               !.dirty = @ \/ next # o.current], t)

attachStore(o, stored, t) ==
  LET merged == mergeStoredLocked(o, stored, o.current, t)
      prev == o.current \cup Restored(o, stored, t)
  IN  serveLocked([retireLocked(merged, prev, o.current, t) EXCEPT !.dirty = TRUE], t)

\* Mutant of distrust: the list takes effect at the next refresh.
distrustLater(o, list, t) == [o EXCEPT !.distrusted = list]

distrust(o, list, t) ==
  LET off == [o EXCEPT !.distrusted = list]
      hit == list \cap DOMAIN o.retired
  IN  IF hit = {} THEN off ELSE serveLocked(drop(off, hit), t)

=============================================================================
