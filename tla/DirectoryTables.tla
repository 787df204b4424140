--------------------------- MODULE DirectoryTables ---------------------------
(***************************************************************************)
(* The directory tables of the control plane (domains, domain_admins,      *)
(* groups, group_members, scim_users, scim_groups, scim_members) and the   *)
(* transactions of internal/server/storage/{domains,groups,scim}.go that   *)
(* write them.                                                             *)
(*                                                                         *)
(* A transaction is a record: the row lock it takes first, the value it    *)
(* reads under the lock and returns (seen), whether what it reads makes it *)
(* return an error (refuse), whether an insert hits a unique key (clash),  *)
(* and the tables it leaves (write, from the tables at commit and the      *)
(* value seen).  Between the lock and the commit other transactions whose  *)
(* locks are compatible may commit: this is Postgres at READ COMMITTED.    *)
(* SQLite, where BEGIN takes the write lock, has a subset of these         *)
(* behaviours.                                                             *)
(***************************************************************************)
EXTENDS Naturals, FiniteSets

CONSTANTS
    Domains,       \* domain names
    Top,           \* ParentOf of a top-level domain ("" in the code)
    ParentOf,      \* [Domains -> Domains \cup {Top}]
    GroupIds,      \* pairs <<domain, group name>>
    Principals,    \* SPIFFE IDs
    SCIMIds,       \* ids the server gives SCIM groups
    Users,         \* SCIM users
    Nil            \* no row: a missing membership, user or SCIM group

ASSUME ParentAssumption ==
    /\ ParentOf \in [Domains -> Domains \cup {Top}]
    /\ Top \notin Domains
    /\ \A d \in Domains : ParentOf[d] # d
    /\ GroupIds \subseteq Domains \X STRING

\* A membership's expires_at: zero, or some instant.
Expiries == {"never", "limited"}

UserRow == [active : BOOLEAN, principal : Principals]
SCIMGroupRow == [grp : GroupIds, users : SUBSET Users]

Tables ==
    [domains : SUBSET Domains,
     admins : SUBSET (Domains \X Principals),
     groups : SUBSET GroupIds,
     members : [GroupIds \X Principals -> Expiries \cup {Nil}],
     users : [Users -> UserRow \cup {Nil}],
     scim : [SCIMIds -> SCIMGroupRow \cup {Nil}]]

------------------------------------------------------------------------------
(* Rows, locks and the parts of a transaction. *)

MembersOf(t, g) == [p \in Principals |-> t.members[g, p]]

WithMembers(t, g, m) ==
    [t EXCEPT !.members = [k \in GroupIds \X Principals |->
                              IF k[1] = g THEN m[k[2]] ELSE @[k]]]

NoMembers == [p \in Principals |-> Nil]

AdminsOf(t, d) == {a \in t.admins : a[1] = d}

\* refuseManaged: the group belongs to an identity provider.
Managed(t, g) == \E s \in SCIMIds : t.scim[s] # Nil /\ t.scim[s].grp = g

NoLock == [row |-> Nil, mode |-> "none"]

\* Mutant of lockDomain: a delete shares the row with those it has to keep out.
lockDomainShared(d, mode) == [row |-> <<"domain", d>>, mode |-> "FOR SHARE"]

lockDomain(d, mode) == [row |-> <<"domain", d>>, mode |-> mode]

lockGroupMode(g, mode) == [row |-> <<"group", g>>, mode |-> mode]

\* Two row locks that cannot be held together (FOR SHARE against FOR SHARE can).
Conflict(a, b) ==
    /\ a.row = b.row /\ a.row # Nil
    /\ "FOR UPDATE" \in {a.mode, b.mode}

------------------------------------------------------------------------------
(* storage/domains.go *)

CreateDomain(o, t, seen) ==
    [lock   |-> IF ParentOf[o.dom] = Top THEN NoLock ELSE lockDomain(ParentOf[o.dom], "FOR SHARE"),
     refuse |-> ParentOf[o.dom] # Top /\ ParentOf[o.dom] \notin t.domains,
     seen   |-> Nil,
     clash  |-> o.dom \in t.domains,
     write  |-> [t EXCEPT !.domains = @ \cup {o.dom},
                          !.admins = (@ \ AdminsOf(t, o.dom)) \cup ({o.dom} \X o.want)]]

DeleteDomain(o, t, seen) ==
    [lock   |-> lockDomain(o.dom, "FOR UPDATE"),
     refuse |-> \/ o.dom \notin t.domains
                \/ \E c \in t.domains : ParentOf[c] = o.dom
                \/ \E g \in t.groups : g[1] = o.dom,
     seen   |-> Nil,
     clash  |-> FALSE,
     write  |-> [t EXCEPT !.domains = @ \ {o.dom}, !.admins = @ \ AdminsOf(t, o.dom)]]

\* Returns whether it inserted the grant, which ON CONFLICT DO NOTHING tells
\* at the insert, not when the domain is locked: see Returned.
AddDomainAdmin(o, t, seen) ==
    [lock   |-> lockDomain(o.dom, "FOR SHARE"),
     refuse |-> o.dom \notin t.domains,
     seen   |-> Nil,
     clash  |-> FALSE,
     write  |-> [t EXCEPT !.admins = @ \cup {<<o.dom, o.who>>}]]

\* One DELETE without a transaction: no lock, and no row deleted is ErrNotFound.
RemoveDomainAdmin(o, t, seen) ==
    [lock   |-> NoLock,
     refuse |-> FALSE,
     seen   |-> Nil,
     clash  |-> <<o.dom, o.who>> \notin t.admins,
     write  |-> [t EXCEPT !.admins = @ \ {<<o.dom, o.who>>}]]

------------------------------------------------------------------------------
(* storage/groups.go *)

CreateGroup(o, t, seen) ==
    [lock   |-> lockDomain(o.grp[1], "FOR SHARE"),
     refuse |-> o.grp[1] \notin t.domains,
     seen   |-> Nil,
     clash  |-> o.grp \in t.groups,
     write  |-> [WithMembers(t, o.grp, NoMembers) EXCEPT !.groups = @ \cup {o.grp}]]

\* The snapshot it returns is read under the lock that covers the delete.
DeleteGroup(o, t, seen) ==
    [lock   |-> lockGroupMode(o.grp, "FOR UPDATE"),
     refuse |-> o.grp \notin t.groups \/ Managed(t, o.grp),
     seen   |-> MembersOf(t, o.grp),
     clash  |-> FALSE,
     write  |-> [WithMembers(t, o.grp, NoMembers) EXCEPT !.groups = @ \ {o.grp}]]

PutGroupMember(o, t, seen) ==
    [lock   |-> lockGroupMode(o.grp, "FOR SHARE"),
     refuse |-> o.grp \notin t.groups \/ Managed(t, o.grp),
     seen   |-> t.members[o.grp, o.who],
     clash  |-> FALSE,
     write  |-> [t EXCEPT !.members[o.grp, o.who] = o.exp]]

RemoveGroupMember(o, t, seen) ==
    [lock   |-> lockGroupMode(o.grp, "FOR SHARE"),
     refuse |-> \/ o.grp \notin t.groups \/ Managed(t, o.grp)
                \/ t.members[o.grp, o.who] = Nil,
     seen   |-> t.members[o.grp, o.who],
     clash  |-> FALSE,
     write  |-> [t EXCEPT !.members[o.grp, o.who] = Nil]]

\* Sets the membership to o.want if it still equals o.exp when it is read.
SwapGroupMember(o, t, seen) ==
    [lock   |-> lockGroupMode(o.grp, "FOR SHARE"),
     refuse |-> \/ o.grp \notin t.groups \/ Managed(t, o.grp)
                \/ t.members[o.grp, o.who] # o.exp,
     seen   |-> Nil,
     clash  |-> FALSE,
     write  |-> [t EXCEPT !.members[o.grp, o.who] = o.want]]

\* A group that is gone already is success, and nothing to write.
DeleteEmptyGroup(o, t, seen) ==
    [lock   |-> lockGroupMode(o.grp, "FOR UPDATE"),
     refuse |-> o.grp \in t.groups /\ (Managed(t, o.grp) \/ MembersOf(t, o.grp) # NoMembers),
     seen   |-> o.grp \in t.groups,
     clash  |-> FALSE,
     write  |-> IF seen = TRUE THEN [t EXCEPT !.groups = @ \ {o.grp}] ELSE t]

RestoreGroup(o, t, seen) ==
    [lock   |-> lockDomain(o.grp[1], "FOR SHARE"),
     refuse |-> o.grp[1] \notin t.domains,
     seen   |-> Nil,
     clash  |-> o.grp \in t.groups,
     write  |-> [WithMembers(t, o.grp, o.want) EXCEPT !.groups = @ \cup {o.grp}]]

\* The undo of a grant that was there before: nothing to do.
Nothing(o, t, seen) ==
    [lock |-> NoLock, refuse |-> FALSE, seen |-> Nil, clash |-> FALSE, write |-> t]

Call(o, t, seen) ==
    CASE o.op = "CreateDomain"      -> CreateDomain(o, t, seen)
      [] o.op = "DeleteDomain"      -> DeleteDomain(o, t, seen)
      [] o.op = "AddDomainAdmin"    -> AddDomainAdmin(o, t, seen)
      [] o.op = "RemoveDomainAdmin" -> RemoveDomainAdmin(o, t, seen)
      [] o.op = "CreateGroup"       -> CreateGroup(o, t, seen)
      [] o.op = "DeleteGroup"       -> DeleteGroup(o, t, seen)
      [] o.op = "PutGroupMember"    -> PutGroupMember(o, t, seen)
      [] o.op = "RemoveGroupMember" -> RemoveGroupMember(o, t, seen)
      [] o.op = "SwapGroupMember"   -> SwapGroupMember(o, t, seen)
      [] o.op = "DeleteEmptyGroup"  -> DeleteEmptyGroup(o, t, seen)
      [] o.op = "RestoreGroup"      -> RestoreGroup(o, t, seen)
      [] o.op = "Nothing"           -> Nothing(o, t, seen)

\* What the call returns: what it saw, or for AddDomainAdmin whether the grant is new.
Returned(o, t, seen) ==
    IF o.op = "AddDomainAdmin" THEN <<o.dom, o.who>> \notin t.admins ELSE seen

------------------------------------------------------------------------------
(* storage/scim.go: fn runs inside SCIM, one transaction that also rebuilds  *)
(* the touched groups and appends the audit row.  auditMu and the leader     *)
(* gate serialise these transactions, so each is a step of its own.          *)

Held(t, s) == t.scim[s] # Nil

GroupsWith(t, u) == {s \in SCIMIds : Held(t, s) /\ u \in t.scim[s].users}

\* The principals of the active members, without expiry.
ActiveMembers(t, s) ==
    [p \in Principals |->
        IF \E u \in t.scim[s].users :
              t.users[u] # Nil /\ t.users[u].active /\ t.users[u].principal = p
        THEN "never" ELSE Nil]

\* syncGroup on every touched group that still exists; each writes its own group's rows.
syncGroup(t, touched) ==
    [t EXCEPT !.members = [k \in GroupIds \X Principals |->
        IF \E s \in touched : Held(t, s) /\ t.scim[s].grp = k[1]
        THEN LET s == CHOOSE x \in touched : Held(t, x) /\ t.scim[x].grp = k[1]
             IN  ActiveMembers(t, s)[k[2]]
        ELSE @[k]]]

\* The result of fn: the tables it leaves (Nil: it returned an error) and the
\* groups it touched.
Failed == [t |-> Nil, touched |-> {}]

CreateUser(o, t) ==
    IF t.users[o.user] # Nil THEN Failed
    ELSE [t |-> [t EXCEPT !.users[o.user] = o.row], touched |-> {}]

\* Mutant of ReplaceUser: only another principal touches the user's groups.
ReplaceUserPrincipal(o, t) ==
    IF t.users[o.user] = Nil THEN Failed
    ELSE [t |-> [t EXCEPT !.users[o.user] = o.row],
          touched |-> IF o.row.principal # t.users[o.user].principal
                      THEN GroupsWith(t, o.user) ELSE {}]

ReplaceUser(o, t) ==
    IF t.users[o.user] = Nil THEN Failed
    ELSE [t |-> [t EXCEPT !.users[o.user] = o.row],
          touched |-> IF o.row # t.users[o.user] THEN GroupsWith(t, o.user) ELSE {}]

DeleteUser(o, t) ==
    IF t.users[o.user] = Nil THEN Failed
    ELSE [t |-> [t EXCEPT !.users[o.user] = Nil,
                          !.scim = [s \in SCIMIds |->
                              IF s \in GroupsWith(t, o.user)
                              THEN [t.scim[s] EXCEPT !.users = @ \ {o.user}] ELSE @[s]]],
          touched |-> GroupsWith(t, o.user)]

\* setMembers: every member must be a user of the provider.
Known(t, users) == \A u \in users : t.users[u] # Nil

SCIMCreateGroup(o, t) ==
    IF \/ Held(t, o.id) \/ o.grp[1] \notin t.domains
       \/ o.grp \in t.groups \/ ~Known(t, o.users)
    THEN Failed
    ELSE [t |-> [WithMembers(t, o.grp, NoMembers) EXCEPT
                    !.groups = @ \cup {o.grp},
                    !.scim[o.id] = [grp |-> o.grp, users |-> o.users]],
          touched |-> {o.id}]

\* A new name renames the Omega group and clears the rows under the old one.
ReplaceGroup(o, t) ==
    IF \/ ~Held(t, o.id) \/ ~Known(t, o.users)
       \/ (o.grp # t.scim[o.id].grp /\ o.grp \in t.groups)
    THEN Failed
    ELSE LET old == t.scim[o.id].grp
             cleared == IF o.grp = old THEN t ELSE WithMembers(t, old, NoMembers)
         IN  [t |-> [cleared EXCEPT
                        !.groups = (@ \ {old}) \cup {o.grp},
                        !.scim[o.id] = [grp |-> o.grp, users |-> o.users]],
              touched |-> {o.id}]

\* Also RemoveAllMembers, and the clear-then-add of a "replace" operation.
PatchMembers(o, t) ==
    IF ~Held(t, o.id) \/ ~Known(t, o.add) THEN Failed
    ELSE [t |-> [t EXCEPT !.scim[o.id].users = (@ \ o.remove) \cup o.add],
          touched |-> {o.id}]

SCIMDeleteGroup(o, t) ==
    IF ~Held(t, o.id) THEN Failed
    ELSE [t |-> [WithMembers(t, t.scim[o.id].grp, NoMembers) EXCEPT
                    !.groups = @ \ {t.scim[o.id].grp},
                    !.scim[o.id] = Nil],
          touched |-> {}]

\* SCIM: run fn, then rebuild what it touched.
SCIM(result) == IF result = Failed THEN Nil ELSE syncGroup(result.t, result.touched)

\* The group row a SCIM transaction writes, or shares its domain's row with.
SCIMLocks(o, t) ==
    CASE o.op = "CreateGroup" -> {lockDomain(o.grp[1], "FOR SHARE")}
      [] o.op \in {"ReplaceGroup", "DeleteGroup"} /\ Held(t, o.id) ->
            {lockGroupMode(t.scim[o.id].grp, "FOR UPDATE")}
      [] OTHER -> {}

==============================================================================
