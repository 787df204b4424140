---------------------------- MODULE CARotation ----------------------------
(***************************************************************************)
(* The built-in disk CA (internal/server/identity/rotation.go and          *)
(* authority.go): the files of <data-dir>/ca, the commands `omega ca        *)
(* prepare | activate | retire` that change them one file operation at a    *)
(* time, and the server that reads them one by one at its start and on      *)
(* SIGHUP and signs with what it read.  A command, the server or both can   *)
(* crash between any two file operations.                                   *)
(*                                                                         *)
(* A CA is a number, its key and its certificate carry that number; 0 is a  *)
(* file that does not exist.  writeFileSync (temporary file, sync, rename)  *)
(* makes each write atomic.                                                 *)
(***************************************************************************)
EXTENDS Naturals, Sequences

CONSTANTS MaxCA,        \* CAs ever generated
          RetireAfter,  \* the longest life of an SVID or JWT-SVID, in clock units
          MaxTime,      \* last clock reading
          MaxDeaths    \* crashes of a command or of the server

ASSUME RotationAssumption ==
  MaxCA \in Nat /\ RetireAfter \in Nat \ {0} /\ MaxTime \in Nat /\ MaxDeaths \in Nat

VARIABLES disk,     \* the CA directory
          cmd,      \* the running `omega ca` command
          srv,      \* the server: its CA state, and a directory read in progress
          hup,      \* a SIGHUP not yet handled
          expiry,   \* CA -> when the last token it signed expires, 0 for none
          made,     \* CAs generated so far
          now, deaths,
          excuse    \* why a live token may have lost its CA

rvars == <<disk, cmd, srv, hup, expiry, made, now, deaths, excuse>>

CAs == 1..MaxCA
Idle == [op |-> "none", pc |-> "idle"]
NoRead == [at |-> "none", key |-> 0, extra |-> << >>]
Down == [up |-> FALSE, starting |-> FALSE, trusted |-> << >>, seq |-> 0, rd |-> NoRead]

RotationInit ==
  /\ disk = [key |-> 0, crt |-> 0, nkey |-> 0, ncrt |-> 0, prev |-> 0, since |-> 0, mtime |-> 0]
  /\ cmd = Idle /\ srv = Down /\ hup = FALSE
  /\ expiry = [c \in CAs |-> 0] /\ made = 0 /\ now = 1 /\ deaths = 0 /\ excuse = {}

(***************************************************************************)
(* The commands.  Only one runs at a time; the operator signals the server  *)
(* after each one, as docs/ca-rotation.md says, also after one that died.   *)
(***************************************************************************)

\* The active CA a reader of the whole directory finds: the certificate next
\* to ca.key, or the next one when an activation was cut between its renames.
Active(dir) ==
  IF dir.crt # 0 /\ dir.key \in {dir.crt, dir.ncrt} THEN dir.key ELSE 0

Ends == cmd' = Idle /\ hup' = TRUE
Goes(pc) == cmd' = [cmd EXCEPT !.pc = pc] /\ UNCHANGED hup

Invoke(op) ==
  /\ cmd = Idle /\ ~hup
  /\ cmd' = [op |-> op, pc |-> "repair"]
  /\ UNCHANGED <<disk, srv, hup, expiry, made, now, deaths, excuse>>

repairActivation ==
  /\ cmd.pc = "repair"
  /\ IF Active(disk) = 0 THEN Ends ELSE Goes("go")
  /\ disk' = IF Active(disk) # 0 /\ disk.key # disk.crt
             THEN [disk EXCEPT !.crt = disk.ncrt, !.ncrt = 0]
             ELSE disk
  /\ UNCHANGED <<srv, expiry, made, now, deaths, excuse>>

\* generateCA writes the key and then the certificate.
PrepareCA ==
  /\ cmd.op = "prepare"
  /\ \/ /\ cmd.pc = "go" /\ (disk.nkey # 0 \/ Active(disk) = 0)
        /\ Ends /\ UNCHANGED <<disk, made>>
     \/ /\ cmd.pc = "go" /\ disk.nkey = 0 /\ Active(disk) # 0 /\ made < MaxCA
        /\ disk' = [disk EXCEPT !.nkey = made + 1] /\ made' = made + 1
        /\ Goes("crt")
     \/ /\ cmd.pc = "crt"
        /\ disk' = [disk EXCEPT !.ncrt = disk.nkey] /\ Ends /\ UNCHANGED made
  /\ UNCHANGED <<srv, expiry, now, deaths, excuse>>

\* Mutant of Activatable: a key without its certificate is enough.
ActivatableByKey(dir) == dir.nkey # 0 /\ dir.prev \in {0, dir.crt}

\* Mutant of Activatable: no look at a previous CA that is still trusted.
ActivatableTwice(dir) == dir.nkey # 0 /\ dir.ncrt = dir.nkey

\* The guards of ActivateCA, up to the check of an earlier previous CA.
Activatable(dir) == dir.nkey # 0 /\ dir.ncrt = dir.nkey /\ dir.prev \in {0, dir.crt}

ActivateCA ==
  /\ cmd.op = "activate"
  /\ \/ /\ cmd.pc = "go" /\ ~Activatable(disk)
        /\ Ends /\ UNCHANGED <<disk, excuse>>
     \/ /\ cmd.pc = "go" /\ Activatable(disk) /\ disk.prev = 0
        /\ disk' = [disk EXCEPT !.since = now] /\ Goes("prev") /\ UNCHANGED excuse
     \/ /\ cmd.pc = "go" /\ Activatable(disk) /\ disk.prev # 0
        /\ excuse' = excuse \cup (IF disk.since < now THEN {"resumed"} ELSE {})
        /\ Goes("key") /\ UNCHANGED disk
     \/ /\ cmd.pc = "prev"
        /\ disk' = [disk EXCEPT !.prev = disk.crt, !.mtime = now]
        /\ Goes("key") /\ UNCHANGED excuse
     \/ /\ cmd.pc = "key"
        /\ disk' = [disk EXCEPT !.key = disk.nkey, !.nkey = 0]
        /\ Goes("crt") /\ UNCHANGED excuse
     \/ /\ cmd.pc = "crt"
        /\ disk' = [disk EXCEPT !.crt = disk.ncrt, !.ncrt = 0]
        /\ Ends /\ UNCHANGED excuse
  /\ UNCHANGED <<srv, expiry, made, now, deaths>>

prevSince(dir) == IF dir.since # 0 THEN dir.since ELSE dir.mtime

RetireCA(force) ==
  /\ cmd.op = "retire"
  /\ \/ /\ cmd.pc = "go" /\ (disk.prev = 0 \/ (~force /\ now < prevSince(disk) + RetireAfter))
        /\ Ends /\ UNCHANGED <<disk, excuse>>
     \/ /\ cmd.pc = "go" /\ disk.prev # 0
        /\ force \/ now >= prevSince(disk) + RetireAfter
        /\ disk' = [disk EXCEPT !.prev = 0, !.mtime = 0]
        /\ excuse' = excuse \cup (IF force THEN {"forced"} ELSE {})
        /\ Goes("since")
     \/ /\ cmd.pc = "since" /\ ~force
        /\ disk' = [disk EXCEPT !.since = 0] /\ Ends /\ UNCHANGED excuse
  /\ UNCHANGED <<srv, expiry, made, now, deaths>>

(***************************************************************************)
(* The server.                                                              *)
(***************************************************************************)

Reading(at) == [srv EXCEPT !.rd.at = at]
\* A failed read ends a start, and leaves a running server what it had.
ReadFails == srv' = IF srv.starting THEN Down ELSE [srv EXCEPT !.rd = NoRead]

loadOrCreateDisk ==
  /\ ~srv.up /\ ~srv.starting
  /\ disk.key = 0 => made < MaxCA
  /\ srv' = [Down EXCEPT !.starting = TRUE,
                         !.rd.at = IF disk.key = 0 THEN "generate" ELSE "key"]
  /\ IF disk.key = 0
     THEN disk' = [disk EXCEPT !.key = made + 1] /\ made' = made + 1
     ELSE UNCHANGED <<disk, made>>
  /\ hup' = FALSE
  /\ UNCHANGED <<cmd, expiry, now, deaths, excuse>>

\* generateCA's second write, of the first CA's certificate.
generateCA ==
  /\ srv.rd.at = "generate"
  /\ disk' = [disk EXCEPT !.crt = disk.key]
  /\ srv' = Reading("key")
  /\ UNCHANGED <<cmd, hup, expiry, made, now, deaths, excuse>>

\* SIGHUP: the channel holds one signal, so signals during a read coalesce.
ReloadCA ==
  /\ srv.up /\ hup /\ srv.rd = NoRead
  /\ srv' = Reading("key") /\ hup' = FALSE
  /\ UNCHANGED <<disk, cmd, expiry, made, now, deaths, excuse>>

\* Mutant of Install: a reload that changed nothing is counted too.
InstallCounted(trusted) ==
  srv' = [srv EXCEPT !.up = TRUE, !.starting = FALSE, !.rd = NoRead,
                     !.trusted = trusted, !.seq = @ + 1]

\* Install what was read; seq counts the reloads that changed something.
Install(trusted) ==
  srv' = [srv EXCEPT !.up = TRUE, !.starting = FALSE, !.rd = NoRead,
                     !.trusted = trusted,
                     !.seq = IF trusted = srv.trusted THEN @ ELSE @ + 1]

\* The files are read one after the other, each at its own moment.
readDiskState ==
  /\ \/ /\ srv.rd.at = "key"
        /\ IF disk.key = 0 THEN ReadFails
           ELSE srv' = [srv EXCEPT !.rd.at = "crt", !.rd.key = disk.key]
     \/ /\ srv.rd.at = "crt"
        /\ IF disk.crt = 0 THEN ReadFails
           ELSE srv' = Reading(IF disk.crt = srv.rd.key THEN "next" ELSE "mismatch")
     \/ /\ srv.rd.at = "mismatch"
        /\ IF disk.ncrt = srv.rd.key THEN srv' = Reading("prev") ELSE ReadFails
     \/ /\ srv.rd.at = "next"
        /\ srv' = [srv EXCEPT !.rd.at = "prev",
                              !.rd.extra = IF disk.ncrt = 0 THEN << >> ELSE <<disk.ncrt>>]
     \/ /\ srv.rd.at = "prev"
        /\ Install(<<srv.rd.key>> \o srv.rd.extra
                     \o (IF disk.prev = 0 THEN << >> ELSE <<disk.prev>>))
  /\ UNCHANGED <<disk, cmd, hup, expiry, made, now, deaths, excuse>>

Signer == srv.trusted[1]
Trusts(c) == \E i \in 1..Len(srv.trusted) : srv.trusted[i] = c

\* IssueSVID and IssueJWTSVID sign with the active CA of the moment.
IssueSVID ==
  /\ srv.up
  /\ expiry' = [expiry EXCEPT ![Signer] = now + RetireAfter]
  /\ UNCHANGED <<disk, cmd, srv, hup, made, now, deaths, excuse>>

\* A unit of time is long: a command and the reload after it fit in one.
Tick ==
  /\ now < MaxTime /\ cmd = Idle /\ ~hup /\ srv.rd = NoRead
  /\ now' = now + 1
  /\ UNCHANGED <<disk, cmd, srv, hup, expiry, made, deaths, excuse>>

CommandDies ==
  /\ cmd # Idle /\ deaths < MaxDeaths
  /\ deaths' = deaths + 1 /\ cmd' = Idle /\ hup' = TRUE
  /\ UNCHANGED <<disk, srv, expiry, made, now, excuse>>

ServerDies ==
  /\ (srv.up \/ srv.starting) /\ deaths < MaxDeaths
  /\ deaths' = deaths + 1 /\ srv' = Down
  /\ UNCHANGED <<disk, cmd, hup, expiry, made, now, excuse>>

Command == repairActivation \/ PrepareCA \/ ActivateCA \/ (\E f \in BOOLEAN : RetireCA(f))
Server == loadOrCreateDisk \/ generateCA \/ ReloadCA \/ readDiskState

RotationNext ==
  \/ \E op \in {"prepare", "activate", "retire"} : Invoke(op)
  \/ Command \/ Server \/ IssueSVID \/ Tick \/ CommandDies \/ ServerDies

RotationSpec == RotationInit /\ [][RotationNext]_rvars

(***************************************************************************)
(* Properties.                                                              *)
(***************************************************************************)

\* Types.
RotationTypeOK ==
  /\ disk \in [key : 0..MaxCA, crt : 0..MaxCA, nkey : 0..MaxCA, ncrt : 0..MaxCA,
               prev : 0..MaxCA, since : 0..MaxTime, mtime : 0..MaxTime]
  /\ made \in 0..MaxCA /\ now \in 1..MaxTime
  /\ \A i \in 1..Len(srv.trusted) : srv.trusted[i] \in CAs

\* A server that has run once can always start again, whatever command or
\* crash came in between: the directory never loses the active CA's pair.
StartsAgain == (\E c \in CAs : expiry[c] # 0) => Active(disk) # 0

CASets == UNION {[1..n -> CAs] : n \in 1..3}

\* The disk CA is a trust source: however its file reads interleave with a
\* command, it installs a whole set of one to three CAs (rotation.go:254-256),
\* counts each change once, and a failed reload leaves what it had.
Trust == INSTANCE TrustSource
            WITH Off <- << >>, Materials <- CASets,
                 src <- [trusted |-> IF srv.up THEN srv.trusted ELSE << >>,
                         seq |-> IF srv.up THEN srv.seq ELSE 0]

ImplementsTrustSource == Trust!SourceSpec

\* Rotation takes no valid credential out of use: a token that has not
\* expired verifies at the server (verificationKey finds its CA among the
\* trusted ones), unless the operator forced the retirement or resumed a
\* killed activation at a later time.
LiveTokensVerify ==
  srv.up /\ excuse = {} => \A c \in CAs : expiry[c] > now => Trusts(c)

\* What rotation.go:309-311 says of retire without --force: it waits out
\* everything the previous CA signed.
RetireWaits ==
  srv.up /\ "forced" \notin excuse => \A c \in CAs : expiry[c] > now => Trusts(c)
=============================================================================
