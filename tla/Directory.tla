------------------------------ MODULE Directory ------------------------------
(***************************************************************************)
(* The directory of the control plane: the API handlers that change        *)
(* domains, admins, groups and memberships (api/domains.go, api/groups.go),*)
(* the SCIM provisioning endpoint (api/scim.go), and the reload that       *)
(* projects the tables into the policy engine (RefreshDirectory).          *)
(*                                                                         *)
(* An API change commits first and is recorded afterwards: recordOrUndo    *)
(* appends the audit row and, if it cannot, runs a second transaction that *)
(* reverts the change.  A SCIM change and its row are one transaction.     *)
(* Every database call may fail, a commit may succeed and its reply be     *)
(* lost, and the process may stop between any two steps.                   *)
(***************************************************************************)
EXTENDS DirectoryTables

CONSTANTS
    Reqs,          \* the requests of a behaviour, each handled once
    Sites,         \* the sites of a model, one of which a behaviour runs at
    Callers,       \* [AllKinds -> SUBSET Principals]: who may ask for an operation
    RootAdmins     \* --domain-root-admins

\* A site says what may be asked for and what may go wrong: the API operations
\* (kinds) and the identity provider's (scim), the domains and groups they name,
\* whether RunDirectorySync runs beside the requests, the tables to start from,
\* and the bounds on failed database calls and lost replies, and on crashes.
VARIABLES
    site,
    db,            \* the tables
    ver,           \* number of committed changes
    log,           \* audit rows, pairs <<request, decision>>
    req,           \* the requests
    loader,        \* the reload holding refreshMu
    loaded,        \* what the engine evaluates against
    broken,        \* domainState.broken
    fresh,         \* loadedAt is within directoryStaleAfter intervals
    up,            \* the server has loaded the directory once and listens
    faults, crashes

vars == <<site, db, ver, log, req, loader, loaded, broken, fresh, up, faults, crashes>>

AllKinds == {"createDomain", "deleteDomain", "addDomainAdmin", "removeDomainAdmin",
             "createGroup", "deleteGroup", "putGroupMember", "removeGroupMember"}

NoReq == [pc |-> "idle", kind |-> Nil, arg |-> Nil, op |-> Nil, seen |-> Nil,
          undoing |-> FALSE, at |-> 0, end |-> Nil]

NoLoad == [by |-> Nil, step |-> "none", doms |-> {}, grps |-> {}, ver |-> 0]

\* What RefreshDirectory gives SetDirectory: the tree, the groups, and the
\* memberships of the groups it listed.
Projection(doms, grps, t, v) ==
    [doms |-> doms, grps |-> grps, ver |-> v,
     members |-> [k \in GroupIds \X Principals |-> IF k[1] \in grps THEN t.members[k] ELSE Nil]]

Init ==
    /\ site \in Sites
    /\ db = site.start
    /\ ver = 0
    /\ log = {}
    /\ req = [r \in Reqs |-> NoReq]
    /\ loader = NoLoad
    /\ loaded = Projection(db.domains, db.groups, db, 0)
    /\ broken = FALSE
    /\ fresh = TRUE
    /\ up = TRUE
    /\ faults = 0
    /\ crashes = 0

Fault == faults < site.faults /\ faults' = faults + 1
NoFault == faults' = faults

\* directoryStale, negated: policy evaluation answers.
Serving == up /\ ~broken /\ fresh

------------------------------------------------------------------------------
(* A request arrives, is authorised, and is turned into a transaction. *)

\* The domain whose admins decide: creating or deleting a domain is
\* administering its parent.
AuthDomain(kind, a) ==
    IF kind \in {"createDomain", "deleteDomain"} THEN ParentOf[a.dom] ELSE a.dom

\* A domain and its ancestors; the tree of a model is at most two deep.
Chain(d) == {d} \cup (IF d \in Domains THEN {ParentOf[d]} ELSE {})

mayAdminister(t, caller, d) ==
    \/ caller \in RootAdmins
    \/ \E c \in Chain(d) : <<c, caller>> \in t.admins

Inputs(kind) ==
    CASE kind = "createDomain" -> [dom : site.doms, caller : Callers[kind]]
      [] kind = "deleteDomain" -> [dom : site.doms, caller : Callers[kind]]
      [] kind \in {"addDomainAdmin", "removeDomainAdmin"} ->
            [dom : site.doms, who : Principals, caller : Callers[kind]]
      [] kind \in {"createGroup", "deleteGroup"} ->
            {[dom |-> g[1], grp |-> g, caller |-> c] : g \in site.grps, c \in Callers[kind]}
      [] kind = "putGroupMember" ->
            {[dom |-> g[1], grp |-> g, who |-> p, exp |-> e, caller |-> c] :
                g \in site.grps, p \in Principals, e \in Expiries, c \in Callers[kind]}
      [] kind = "removeGroupMember" ->
            {[dom |-> g[1], grp |-> g, who |-> p, caller |-> c] :
                g \in site.grps, p \in Principals, c \in Callers[kind]}

Arrive(r) ==
    /\ up /\ req[r].pc = "idle"
    /\ \E k \in site.kinds : \E a \in Inputs(k) :
          req' = [req EXCEPT ![r].pc = "authorize", ![r].kind = k, ![r].arg = a]
    /\ UNCHANGED <<site, db, ver, log, loader, loaded, broken, fresh, up, faults, crashes>>

\* A handler's transaction, the undo it passes to recordOrUndo, whether it looks
\* something up first, and whether it reloads the directory.  seen is what the
\* transaction returned or, for deleteDomain, what GetDomain read before it.
createDomain(a, seen) ==
    [tx   |-> [op |-> "CreateDomain", dom |-> a.dom, want |-> {a.caller}],
     undo |-> [op |-> "DeleteDomain", dom |-> a.dom], looks |-> FALSE, reloads |-> TRUE]

deleteDomain(a, seen) ==
    [tx   |-> [op |-> "DeleteDomain", dom |-> a.dom],
     undo |-> [op |-> "CreateDomain", dom |-> a.dom, want |-> seen], looks |-> TRUE, reloads |-> TRUE]

\* Admins are not projected.  A grant that was there before is not undone.
addDomainAdmin(a, seen) ==
    [tx   |-> [op |-> "AddDomainAdmin", dom |-> a.dom, who |-> a.who],
     undo |-> [op |-> IF seen = TRUE THEN "RemoveDomainAdmin" ELSE "Nothing", dom |-> a.dom, who |-> a.who],
     looks |-> FALSE, reloads |-> FALSE]

removeDomainAdmin(a, seen) ==
    [tx   |-> [op |-> "RemoveDomainAdmin", dom |-> a.dom, who |-> a.who],
     undo |-> [op |-> "AddDomainAdmin", dom |-> a.dom, who |-> a.who], looks |-> FALSE, reloads |-> FALSE]

createGroup(a, seen) ==
    [tx   |-> [op |-> "CreateGroup", grp |-> a.grp],
     undo |-> [op |-> "DeleteEmptyGroup", grp |-> a.grp], looks |-> FALSE, reloads |-> TRUE]

\* Mutant of deleteGroup: the undo makes the group again, without its members.
deleteGroupForgets(a, seen) ==
    [tx   |-> [op |-> "DeleteGroup", grp |-> a.grp],
     undo |-> [op |-> "CreateGroup", grp |-> a.grp], looks |-> TRUE, reloads |-> TRUE]

deleteGroup(a, seen) ==
    [tx   |-> [op |-> "DeleteGroup", grp |-> a.grp],
     undo |-> [op |-> "RestoreGroup", grp |-> a.grp, want |-> seen], looks |-> TRUE, reloads |-> TRUE]

putGroupMember(a, seen) ==
    [tx   |-> [op |-> "PutGroupMember", grp |-> a.grp, who |-> a.who, exp |-> a.exp],
     undo |-> [op |-> "SwapGroupMember", grp |-> a.grp, who |-> a.who, exp |-> a.exp, want |-> seen],
     looks |-> TRUE, reloads |-> TRUE]

removeGroupMember(a, seen) ==
    [tx   |-> [op |-> "RemoveGroupMember", grp |-> a.grp, who |-> a.who],
     undo |-> [op |-> "SwapGroupMember", grp |-> a.grp, who |-> a.who, exp |-> Nil, want |-> seen],
     looks |-> TRUE, reloads |-> TRUE]

Handler(kind, a, seen) ==
    CASE kind = "createDomain"      -> createDomain(a, seen)
      [] kind = "deleteDomain"      -> deleteDomain(a, seen)
      [] kind = "addDomainAdmin"    -> addDomainAdmin(a, seen)
      [] kind = "removeDomainAdmin" -> removeDomainAdmin(a, seen)
      [] kind = "createGroup"       -> createGroup(a, seen)
      [] kind = "deleteGroup"       -> deleteGroup(a, seen)
      [] kind = "putGroupMember"    -> putGroupMember(a, seen)
      [] kind = "removeGroupMember" -> removeGroupMember(a, seen)

\* The handler answers and is over; a committed change reloads first.
Answer(r, end) == [req[r] EXCEPT !.pc = "done", !.end = end, !.op = Nil]
Reload(r, end) == [req[r] EXCEPT !.pc = "refresh", !.end = end, !.op = Nil]

\* authorizeDomainWrite: a refusal is audited, an error is answered 500.
Authorize(r) ==
    LET q == req[r] IN
    /\ q.pc = "authorize"
    /\ \/ /\ Fault
          /\ req' = [req EXCEPT ![r] = Answer(r, "failed")]
          /\ UNCHANGED log
       \/ /\ NoFault
          /\ ~mayAdminister(db, q.arg.caller, AuthDomain(q.kind, q.arg))
          /\ req' = [req EXCEPT ![r] = Answer(r, "denied")]
          /\ log' = log \cup {<<r, "deny">>}
       \/ /\ NoFault
          /\ mayAdminister(db, q.arg.caller, AuthDomain(q.kind, q.arg))
          /\ LET h == Handler(q.kind, q.arg, Nil)
             IN  req' = [req EXCEPT ![r].op = h.tx, ![r].pc = IF h.looks THEN "look" ELSE "begin"]
          /\ UNCHANGED log
    /\ UNCHANGED <<site, db, ver, loader, loaded, broken, fresh, up, crashes>>

\* deleteDomain keeps what it is about to delete (GetDomain); the group
\* handlers refuse a SCIM-managed group before their transaction does.
Look(r) ==
    LET q == req[r] IN
    /\ q.pc = "look"
    /\ \/ Fault /\ req' = [req EXCEPT ![r] = Answer(r, "failed")]
       \/ /\ NoFault
          /\ IF q.kind = "deleteDomain"
             THEN req' = [req EXCEPT ![r] =
                    IF q.arg.dom \notin db.domains THEN Answer(r, "failed")
                    ELSE [q EXCEPT !.pc = "begin", !.seen = {a[2] : a \in AdminsOf(db, q.arg.dom)}]]
             ELSE req' = [req EXCEPT ![r] =
                    IF Managed(db, q.arg.grp) THEN Answer(r, "failed") ELSE [q EXCEPT !.pc = "begin"]]
    /\ UNCHANGED <<site, db, ver, log, loader, loaded, broken, fresh, up, crashes>>

------------------------------------------------------------------------------
(* The transaction, and the second one that reverts it. *)

Locked(r) == req[r].pc = "commit"

LockFree(r, lock) ==
    \A x \in Reqs \ {r} : Locked(x) => ~Conflict(lock, Call(req[x].op, db, req[x].seen).lock)

\* A transaction that returned an error.  The change is answered as failed; a
\* failed undo is answered as such, after the deferred reload.
Rejected(r) == IF req[r].undoing THEN Reload(r, "unreverted") ELSE Answer(r, "failed")

\* Take the row lock and read under it.
Begin(r) ==
    LET q == req[r]
        c == Call(q.op, db, q.seen)
    IN
    /\ q.pc = "begin"
    /\ \/ Fault /\ req' = [req EXCEPT ![r] = Rejected(r)]
       \/ /\ NoFault
          /\ LockFree(r, c.lock)
          /\ req' = [req EXCEPT ![r] =
                IF c.refuse THEN Rejected(r)
                ELSE [q EXCEPT !.pc = "commit", !.seen = IF c.seen = Nil THEN @ ELSE c.seen]]
    /\ UNCHANGED <<site, db, ver, log, loader, loaded, broken, fresh, up, crashes>>

\* Write and commit.  The commit may fail, or succeed and be reported as failed.
Commit(r) ==
    LET q == req[r]
        c == Call(q.op, db, q.seen)
        next == IF q.undoing
                THEN [q EXCEPT !.pc = "rerecord", !.op = Nil]
                ELSE [q EXCEPT !.pc = "record", !.op = Nil, !.at = ver + 1,
                               !.seen = Returned(q.op, db, q.seen)]
    IN
    /\ q.pc = "commit"
    /\ \/ /\ IF c.clash THEN NoFault ELSE Fault
          /\ req' = [req EXCEPT ![r] = Rejected(r)]
          /\ UNCHANGED <<site, db, ver>>
       \/ /\ ~c.clash
          /\ db' = c.write
          /\ ver' = ver + 1
          /\ \/ NoFault /\ req' = [req EXCEPT ![r] = next]
             \/ Fault /\ req' = [req EXCEPT ![r] = [Rejected(r) EXCEPT
                                    !.at = IF q.undoing THEN @ ELSE ver + 1,
                                    !.end = IF q.undoing THEN @ ELSE "lost"]]
    /\ UNCHANGED <<site, log, loader, loaded, broken, fresh, up, crashes>>

\* recordOrUndo, first half: append the row.  An append that reports an error
\* may have committed; either way the change is undone.
Record(r) ==
    LET q == req[r]
        h == Handler(q.kind, q.arg, q.seen)
        undo == [q EXCEPT !.pc = "begin", !.undoing = TRUE, !.op = h.undo]
    IN
    /\ q.pc = "record"
    /\ \/ /\ NoFault
          /\ log' = log \cup {<<r, "ok">>}
          /\ req' = [req EXCEPT ![r] = IF h.reloads THEN Reload(r, "ok") ELSE Answer(r, "ok")]
       \/ /\ Fault
          /\ log' \in {log, log \cup {<<r, "ok">>}}
          /\ req' = [req EXCEPT ![r] = undo]
    /\ UNCHANGED <<site, db, ver, loader, loaded, broken, fresh, up, crashes>>

\* recordOrUndo, second half: the change is reverted; say so in the log too.
RecordRevert(r) ==
    /\ req[r].pc = "rerecord"
    /\ \/ /\ NoFault
          /\ log' = log \cup {<<r, "reverted">>}
          /\ req' = [req EXCEPT ![r] = Reload(r, "reverted")]
       \/ /\ Fault
          /\ log' \in {log, log \cup {<<r, "reverted">>}}
          /\ req' = [req EXCEPT ![r] = Reload(r, "revertedSilently")]
    /\ UNCHANGED <<site, db, ver, loader, loaded, broken, fresh, up, crashes>>

------------------------------------------------------------------------------
(* SCIM requests: fn, the rebuild and the audit row in one transaction. *)

\* The store calls of each handler, over its inputs.
scimCreateUser == [op : {"CreateUser"}, user : Users, row : UserRow]

\* A PUT gives a row (a row without "active" keeps the user's), a PATCH edits the
\* row attribute by attribute; either may change nothing, and still runs.
scimReplaceUser == [op : {"ReplaceUser"}, user : Users, row : UserRow]
scimPatchUser == [op : {"ReplaceUser"}, user : Users, row : UserRow]
updateUser == scimReplaceUser \cup scimPatchUser
scimDeleteUser == [op : {"DeleteUser"}, user : Users]
scimCreateGroup == [op : {"CreateGroup"}, id : SCIMIds, grp : site.grps, users : SUBSET Users]
scimReplaceGroup == [op : {"ReplaceGroup"}, id : SCIMIds, grp : site.grps, users : SUBSET Users]

applyGroupOp == [op : {"PatchMembers"}, id : SCIMIds, add : SUBSET Users, remove : SUBSET Users]

\* The operations of one PATCH add up to one change of the members or, with a
\* rename among them, to a replacement.
scimPatchGroup == applyGroupOp \cup scimReplaceGroup
scimDeleteGroup == [op : {"DeleteGroup"}, id : SCIMIds]

SCIMRequests == scimCreateUser \cup updateUser \cup scimDeleteUser \cup scimCreateGroup
                \cup scimReplaceGroup \cup scimPatchGroup \cup scimDeleteGroup

SCIMCall(o, t) ==
    CASE o.op = "CreateUser"   -> CreateUser(o, t)
      [] o.op = "ReplaceUser"  -> ReplaceUser(o, t)
      [] o.op = "DeleteUser"   -> DeleteUser(o, t)
      [] o.op = "CreateGroup"  -> SCIMCreateGroup(o, t)
      [] o.op = "ReplaceGroup" -> ReplaceGroup(o, t)
      [] o.op = "PatchMembers" -> PatchMembers(o, t)
      [] o.op = "DeleteGroup"  -> SCIMDeleteGroup(o, t)

\* scimRun.  A transaction that fails leaves nothing behind.  One that commits
\* is followed by the reload, unless the reply to the commit was lost.
scimRun(r) ==
    /\ up /\ req[r].pc = "idle"
    /\ \E o \in {x \in SCIMRequests : x.op \in site.scim} :
          LET t == SCIM(SCIMCall(o, db)) IN
          /\ t # Nil
          /\ \A x \in Reqs : Locked(x) =>
                \A l \in SCIMLocks(o, db) : ~Conflict(l, Call(req[x].op, db, req[x].seen).lock)
          /\ db' = t
          /\ ver' = ver + 1
          /\ \/ /\ NoFault
                /\ log' = log \cup {<<r, "ok">>}
                /\ req' = [req EXCEPT ![r] = [NoReq EXCEPT !.pc = "refresh", !.kind = o.op, !.arg = o,
                                                           !.at = ver + 1, !.end = "ok"]]
             \/ /\ Fault
                /\ log' = log \cup {<<r, "ok">>}
                /\ req' = [req EXCEPT ![r] = [NoReq EXCEPT !.pc = "done", !.kind = o.op, !.arg = o,
                                                           !.at = ver + 1, !.end = "lost"]]
    /\ UNCHANGED <<site, loader, loaded, broken, fresh, up, crashes>>

------------------------------------------------------------------------------
(* RefreshDirectory: under refreshMu, three reads that are not one snapshot, *)
(* SetDirectory, and the stored policies.                                    *)

\* Who may take refreshMu: the sync loop at a tick or the server command before
\* it listens ("sync"), or a request after its write.
LoadDomains(by) ==
    /\ loader = NoLoad
    /\ IF by = "sync" THEN site.syncs \/ ~up ELSE req[by].pc = "refresh"
    /\ loader' = [NoLoad EXCEPT !.by = by, !.step = "groups", !.doms = db.domains, !.ver = ver]
    /\ UNCHANGED <<site, db, ver, log, req, loaded, broken, fresh, up, faults, crashes>>

LoadGroups ==
    /\ loader.step = "groups"
    /\ loader' = [loader EXCEPT !.step = "members", !.grps = db.groups]
    /\ UNCHANGED <<site, db, ver, log, req, loaded, broken, fresh, up, faults, crashes>>

\* refreshMu is released.  A request whose reload succeeded answers; one whose
\* reload failed still has to mark the directory stale.
Release(outcome) ==
    /\ loader' = NoLoad
    /\ req' = IF loader.by = "sync" THEN req
              ELSE [req EXCEPT ![loader.by].pc = outcome]

\* The members are read and the directory replaced.  loadStoredPolicies follows:
\* it may fail because the stored set does not load (which fails closed at once,
\* whoever reloads) or because the database does.
SetDirectory ==
    /\ loader.step = "members"
    /\ loaded' = Projection(loader.doms, loader.grps, db, loader.ver)
    /\ \/ /\ NoFault
          /\ broken' = FALSE
          /\ fresh' = TRUE
          /\ up' = TRUE
          /\ Release("done")
       \/ /\ Fault
          /\ \/ broken' = TRUE /\ up' = TRUE
             \/ UNCHANGED <<broken, up>>
          /\ UNCHANGED fresh
          /\ Release("stale")
    /\ UNCHANGED <<site, db, ver, log, crashes>>

\* A read of RefreshDirectory fails.
LoadFails ==
    /\ loader # NoLoad
    /\ Fault
    /\ Release("stale")
    /\ UNCHANGED <<site, db, ver, log, loaded, broken, fresh, up, crashes>>

\* Mutant of MarkStale: the failed reload is only logged.
MarkNothing(r) ==
    /\ req[r].pc = "stale"
    /\ req' = [req EXCEPT ![r].pc = "done"]
    /\ UNCHANGED <<site, db, ver, log, loader, loaded, broken, fresh, up, faults, crashes>>

\* refreshAfterWrite: the reload failed, so evaluation fails closed.
MarkStale(r) ==
    /\ req[r].pc = "stale"
    /\ broken' = TRUE
    /\ req' = [req EXCEPT ![r].pc = "done"]
    /\ UNCHANGED <<site, db, ver, log, loader, loaded, fresh, up, faults, crashes>>

\* directoryStale: too many sync intervals without a successful reload.
Aged ==
    /\ site.syncs /\ fresh /\ Fault
    /\ fresh' = FALSE
    /\ UNCHANGED <<site, db, ver, log, req, loader, loaded, broken, up, crashes>>

------------------------------------------------------------------------------
\* The process stops: transactions roll back, requests are never answered, and
\* the next process has loaded nothing.
Crash ==
    /\ crashes < site.crashes
    /\ crashes' = crashes + 1
    /\ req' = [r \in Reqs |->
                IF req[r].pc \in {"idle", "done"} THEN req[r]
                ELSE [req[r] EXCEPT !.pc = "done", !.end = "crashed", !.op = Nil]]
    /\ loader' = NoLoad
    /\ loaded' = Projection({}, {}, db, 0)
    /\ broken' = FALSE
    /\ fresh' = FALSE
    /\ up' = FALSE
    /\ UNCHANGED <<site, db, ver, log, faults>>

Handle(r) ==
    \/ Authorize(r) \/ Look(r) \/ Begin(r) \/ Commit(r)
    \/ Record(r) \/ RecordRevert(r) \/ MarkStale(r)

Load == (\E by \in Reqs \cup {"sync"} : LoadDomains(by)) \/ LoadGroups \/ SetDirectory

\* Every request is over.
Over == up /\ (\A r \in Reqs : req[r].pc = "done") /\ UNCHANGED vars

Next ==
    \/ \E r \in Reqs : Arrive(r) \/ scimRun(r) \/ Handle(r)
    \/ Load \/ LoadFails \/ Aged \/ Crash \/ Over

Spec == Init /\ [][Next]_vars

\* A handler that started goes on, the reload holding the mutex goes on, and
\* the mutex is given to every reload that waits for it, the sync loop's at
\* every tick included.
Fairness ==
    /\ \A r \in Reqs : WF_vars(Handle(r))
    /\ WF_vars(LoadGroups \/ SetDirectory)
    /\ \A by \in Reqs \cup {"sync"} : SF_vars(LoadDomains(by))

FairSpec == Spec /\ Fairness

------------------------------------------------------------------------------
(* Properties *)

\* Every table row, request and reload has its type.
DirectoryTypeOK ==
    /\ db \in Tables
    /\ ver \in 0 .. 2 * Cardinality(Reqs)
    /\ log \subseteq Reqs \X {"ok", "deny", "reverted"}
    /\ \A r \in Reqs : req[r].pc \in {"idle", "authorize", "look", "begin", "commit", "record",
                                      "rerecord", "refresh", "stale", "done"}
    /\ loader.by \in Reqs \cup {"sync", Nil}
    /\ broken \in BOOLEAN /\ fresh \in BOOLEAN /\ up \in BOOLEAN
    /\ loaded.members \in [GroupIds \X Principals -> Expiries \cup {Nil}]

\* The row locks keep the tables consistent however transactions interleave:
\* no domain without its parent, no grant, group or membership left behind by
\* a concurrent delete, no SCIM group without its Omega group.
NoOrphans ==
    /\ \A d \in db.domains : ParentOf[d] = Top \/ ParentOf[d] \in db.domains
    /\ \A a \in db.admins : a[1] \in db.domains
    /\ \A g \in db.groups : g[1] \in db.domains
    /\ \A g \in GroupIds : MembersOf(db, g) # NoMembers => g \in db.groups
    /\ \A s \in SCIMIds : Held(db, s) => db.scim[s].grp \in db.groups /\ Known(db, db.scim[s].users)

\* An identity provider's group has exactly its active members, without expiry,
\* whatever the group API and the undo of its requests do meanwhile.
ManagedMirrors ==
    \A s \in SCIMIds : Held(db, s) => MembersOf(db, db.scim[s].grp) = ActiveMembers(db, s)

\* Each handler's undo is the inverse of its change: when only one request
\* changed anything and it was answered as reverted, the tables are back where
\* they were.
UndoRestores ==
    \A r \in Reqs :
        (/\ req[r].end \in {"reverted", "revertedSilently"}
         /\ \A x \in Reqs \ {r} : req[x].at = 0)
        => db = site.start

\* A replica that answers policy questions evaluates against a directory at
\* least as new as every change it has acknowledged: a removed member is not
\* in force after the removal was answered.
AckedChangeProjected ==
    \A r \in Reqs :
        (req[r].pc = "done" /\ req[r].end = "ok" /\ req[r].kind \notin {"addDomainAdmin", "removeDomainAdmin"}
         /\ Serving)
        => loaded.ver >= req[r].at

\* A reload never replaces the directory by an older one, except by starting anew.
LoadedMovesForward == [][loaded'.ver >= loaded.ver \/ crashes' # crashes]_vars

\* Once the faults are over, the replica answers again, from what the tables say.
DirectoryConverges ==
    <>[](Serving /\ loaded.doms = db.domains /\ loaded.grps = db.groups /\ loaded.members = db.members)

\* storage/groups.go:206: SwapGroupMember "undoes a change without overwriting a
\* later one".  Once every request is answered, a membership has the value the
\* last acknowledged change gave it, if no other change of it committed later.
LaterChangeKept ==
    (\A r \in Reqs : req[r].pc = "done")
    => \A r \in Reqs :
          LET a == req[r].arg
              Same(x) == req[x].arg.grp = a.grp /\ req[x].arg.who = a.who
          IN  (req[r].end = "ok" /\ \A x \in Reqs : Same(x) => req[x].at <= req[r].at)
              => db.members[a.grp, a.who] = IF req[r].kind = "putGroupMember" THEN a.exp ELSE Nil

==============================================================================
