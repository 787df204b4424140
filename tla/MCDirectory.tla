----------------------------- MODULE MCDirectory -----------------------------
(* Instances of Directory for TLC. *)
EXTENDS Directory, TLC

CONSTANTS r1, r2, root, ann

\* A domain and its subdomain.
MCParentOf == [d \in Domains |-> IF d = "media" THEN "" ELSE "media"]
OneGroup == {<<"media", "oncall">>}
TwoGroups == {<<"media", "oncall">>, <<"media", "editors">>}

\* media exists, administered by ann, with one group that has ann as a member.
StartTables ==
    [domains |-> {"media"},
     admins |-> {<<"media", ann>>},
     groups |-> {<<"media", "oncall">>},
     members |-> [k \in GroupIds \X Principals |->
                    IF k = <<<<"media", "oncall">>, ann>> THEN "never" ELSE Nil],
     users |-> [u \in Users |-> Nil],
     scim |-> [s \in SCIMIds |-> Nil]]

\* The same, and a provider with one user in one group of its own.
StartSCIM ==
    [StartTables EXCEPT
        !.groups = @ \cup {<<"media", "editors">>},
        !.members[<<"media", "editors">>, ann] = "never",
        !.users = [u \in Users |-> IF u = "u1" THEN [active |-> TRUE, principal |-> ann] ELSE Nil],
        !.scim = [s \in SCIMIds |-> IF s = "s1" THEN [grp |-> <<"media", "editors">>, users |-> {"u1"}] ELSE Nil]]

\* Top-level domains need a root admin; everything else is asked for by ann.
MCCallers == [k \in AllKinds |-> IF k \in {"createDomain", "deleteDomain"} THEN {root} ELSE {ann}]

MemberKinds == {"putGroupMember", "removeGroupMember"}
GroupKinds == {"createGroup", "deleteGroup", "removeGroupMember"}
AllSCIMKinds == {"CreateUser", "ReplaceUser", "DeleteUser", "CreateGroup", "ReplaceGroup",
                 "PatchMembers", "DeleteGroup"}

\* Every API operation, on a domain, its subdomain and a group of the API.
APISite ==
    [kinds |-> AllKinds, scim |-> {}, doms |-> Domains, grps |-> OneGroup, syncs |-> FALSE,
     start |-> StartTables, faults |-> 2, crashes |-> 1]

\* An identity provider beside the group API and the sync loop.
ProvidedSite ==
    [kinds |-> GroupKinds, scim |-> AllSCIMKinds, doms |-> {"media"}, grps |-> TwoGroups,
     syncs |-> TRUE, start |-> StartSCIM, faults |-> 1, crashes |-> 0]

\* Two changes of one membership, one of them undone.
MemberSite == [APISite EXCEPT !.kinds = MemberKinds, !.faults = 1, !.crashes = 0]

MCSites == {APISite, ProvidedSite}
SCIMSites == {ProvidedSite}
UndoSites == {MemberSite}

ReqSymmetry == Permutations(Reqs)
==============================================================================
