-------------------------- MODULE WorkspaceMembers --------------------------
(***************************************************************************)
(* Workspaces and their members (routers/workspaces.py, services/          *)
(* user_provisioning.py) behind the authorisation of auth/dependencies.py. *)
(*                                                                         *)
(* A handler reads the caller's role (authorised), then the rows it is     *)
(* about and checks them (checked), then writes and commits.  Other        *)
(* handlers run between these steps, and what was read is not read again.  *)
(* Registering and creating a workspace only insert fresh rows and are one *)
(* step each.  Names, slugs and descriptions are left out.                 *)
(***************************************************************************)
EXTENDS Rbac, FiniteSets

CONSTANTS
  User,
  Workspace,    \* workspace ids, fresh when created
  Request,      \* requests that may be in flight at the same time
  None,         \* SQL NULL, no row
  Role,         \* the roles that occur
  Superuser,    \* users.is_superuser
  Elsewhere     \* users with an account and one more workspace, not modelled

ASSUME NoneAssumption == None \notin User \union RoleName
ASSUME RoleAssumption == Role \subseteq RoleName /\ "owner" \in Role
ASSUME UserAssumption == Superuser \subseteq User /\ Elsewhere \subseteq User

VARIABLES
  account,    \* users: those who have registered
  exists,     \* workspaces: the present rows
  owner,      \* workspaces.owner_id, kept after the row is gone
  role,       \* memberships: role[w][u], None where there is no row
  handler,    \* the requests in flight
  grantor,    \* history: the role with which a membership was last written
  bereft      \* history: who lost a membership other than by deleting a
              \* workspace with no other deletion of theirs in flight

vars == <<account, exists, owner, role, handler, grantor, bereft>>

Needs == [delete |-> "workspace:delete", add |-> "member:invite",
          change |-> "member:role_update", remove |-> "member:remove"]
Op == DOMAIN Needs

Idle == [stage |-> "idle", op |-> "delete", user |-> None, workspace |-> None,
         role |-> None, target |-> None, grant |-> None, found |-> None,
         row |-> "same"]

\* row: what has happened to the target's row since it was read.
Handler == [stage: {"idle", "authorised", "checked"}, op: Op,
            user: User \union {None}, workspace: Workspace \union {None},
            role: Role \union {None}, target: User \union {None},
            grant: Role \union {None}, found: Role \union {None},
            row: {"same", "changed", "gone"}]

IsMember(w, u) == role[w][u] # None
Members(w) == {u \in User : IsMember(w, u)}
Homes(u) == {w \in Workspace : IsMember(w, u)}

TypeOK ==
  /\ account \subseteq User
  /\ exists \subseteq Workspace
  /\ owner \in [Workspace -> User \union {None}]
  /\ role \in [Workspace -> [User -> Role \union {None}]]
  /\ handler \in [Request -> Handler]
  /\ grantor \in [Workspace -> [User -> Role \union {None}]]
  /\ bereft \subseteq User

Init ==
  /\ account = Elsewhere
  /\ exists = {}
  /\ owner = [w \in Workspace |-> None]
  /\ role = [w \in Workspace |-> [u \in User |-> None]]
  /\ handler = [r \in Request |-> Idle]
  /\ grantor = [w \in Workspace |-> [u \in User |-> None]]
  /\ bereft = {}

-----------------------------------------------------------------------------
(* Fresh workspaces. *)

\* Mutated: the membership gets the column's default role.
NewWorkspace_DefaultRole(u) ==
  \E w \in Workspace :
    /\ owner[w] = None
    /\ exists' = exists \union {w}
    /\ owner' = [owner EXCEPT ![w] = u]
    /\ role' = [role EXCEPT ![w][u] = "member"]
    /\ grantor' = [grantor EXCEPT ![w][u] = "owner"]

\* create_workspace: the row and its owner's membership.
NewWorkspace(u) ==
  \E w \in Workspace :
    /\ owner[w] = None
    /\ exists' = exists \union {w}
    /\ owner' = [owner EXCEPT ![w] = u]
    /\ role' = [role EXCEPT ![w][u] = "owner"]
    /\ grantor' = [grantor EXCEPT ![w][u] = "owner"]

\* provision_user: an account comes with a workspace.
Register(u) ==
  /\ u \notin account
  /\ account' = account \union {u}
  /\ NewWorkspace(u)
  /\ UNCHANGED <<handler, bereft>>

Create(u) ==
  /\ u \in account
  /\ NewWorkspace(u)
  /\ UNCHANGED <<account, handler, bereft>>

-----------------------------------------------------------------------------
(* Authorisation. *)

\* get_workspace_context: a superuser acts as owner of any existing workspace.
ContextRole(w, u) ==
  CASE IsMember(w, u) -> role[w][u]
    [] ~IsMember(w, u) /\ u \in Superuser /\ w \in exists -> "owner"
    [] OTHER -> None

\* requires(permission): the caller's role is read and allows the operation
\* on the target of the path and body.
Authorise(r, u, w, op, target, grant) ==
  /\ handler[r] = Idle
  /\ u \in account
  /\ ContextRole(w, u) # None
  /\ Needs[op] \in Permissions[ContextRole(w, u)]
  /\ handler' = [handler EXCEPT ![r] =
       [stage |-> "authorised", op |-> op, user |-> u, workspace |-> w,
        role |-> ContextRole(w, u), target |-> target, grant |-> grant,
        found |-> None, row |-> "same"]]
  /\ UNCHANGED <<account, exists, owner, role, grantor, bereft>>

\* The request r has an operation op for which what was read passes the checks.
Checked(r, op, found) ==
  /\ handler[r].stage = "authorised"
  /\ handler[r].op = op
  /\ handler' = [handler EXCEPT ![r].stage = "checked", ![r].found = found]
  /\ UNCHANGED <<account, exists, owner, role, grantor, bereft>>

\* The request r commits; requests that have read a row of S in w are marked.
Committed(r, op, w, S, mark) ==
  /\ handler[r].stage = "checked"
  /\ handler[r].op = op
  /\ handler' = [q \in Request |->
       IF q = r THEN Idle
       ELSE IF /\ handler[q].found # None /\ handler[q].row # "gone"
               /\ handler[q].workspace = w /\ handler[q].target \in S
       THEN [handler[q] EXCEPT !.row = mark] ELSE handler[q]]
  /\ UNCHANGED <<account, owner>>

-----------------------------------------------------------------------------
(* DELETE /workspaces/{id} *)

\* Mutated: the guard lets the last one go.
CheckDelete_NoGuard(r) ==
  /\ Checked(r, "delete", None)
  /\ handler[r].workspace \in exists

\* The caller is a member of more than one workspace.
CheckDelete(r) ==
  LET u == handler[r].user IN
  /\ Checked(r, "delete", None)
  /\ handler[r].workspace \in exists
  /\ Cardinality(Homes(u)) + Cardinality({u} \intersect Elsewhere) > 1

DeletingToo(r, u) ==
  \E q \in Request \ {r} : /\ handler[q].stage = "checked"
                           /\ handler[q].op = "delete"
                           /\ handler[q].user = u

\* The row goes, and with it (cascade) every membership. It may be gone already.
CommitDelete(r) ==
  LET w == handler[r].workspace
      u == handler[r].user IN
  /\ Committed(r, "delete", w, Members(w), "gone")
  /\ exists' = exists \ {w}
  /\ role' = [role EXCEPT ![w] = [x \in User |-> None]]
  /\ grantor' = [grantor EXCEPT ![w] = [x \in User |-> None]]
  /\ bereft' = bereft \union {x \in Members(w) : x # u \/ DeletingToo(r, u)}

-----------------------------------------------------------------------------
(* POST /workspaces/{id}/members *)

\* Only a role below the caller's may be granted, to an account that is no
\* member yet.
CheckAdd(r) ==
  LET h == handler[r] IN
  /\ Checked(r, "add", None)
  /\ Outranks(h.role, h.grant)
  /\ h.target \in account
  /\ ~IsMember(h.workspace, h.target)

\* The insert fails if the pair has been inserted since (unique constraint) or
\* the workspace is gone (foreign key).
CommitAdd(r) ==
  LET h == handler[r] IN
  /\ Committed(r, "add", h.workspace, {}, "same")
  /\ h.workspace \in exists
  /\ ~IsMember(h.workspace, h.target)
  /\ role' = [role EXCEPT ![h.workspace][h.target] = h.grant]
  /\ grantor' = [grantor EXCEPT ![h.workspace][h.target] = h.role]
  /\ UNCHANGED <<exists, bereft>>

-----------------------------------------------------------------------------
(* PATCH /workspaces/{id}/members/{user} *)

\* An owner may change any role; others only a role below their own into a role
\* below their own.  The workspace's owner remains owner.
MayChange_AnyRole(h, current) ==   \* mutated: the granted role is not compared
  /\ h.role = "owner" \/ Outranks(h.role, current)
  /\ ~(owner[h.workspace] = h.target /\ h.grant # "owner")
MayChange_Owner(h, current) ==     \* mutated: the owner may be demoted
  h.role = "owner" \/ (Outranks(h.role, current) /\ Outranks(h.role, h.grant))
MayChange(h, current) ==
  /\ h.role = "owner" \/ (Outranks(h.role, current) /\ Outranks(h.role, h.grant))
  /\ ~(owner[h.workspace] = h.target /\ h.grant # "owner")

CheckChange(r) ==
  LET h == handler[r] IN
  /\ h.stage = "authorised" /\ h.op = "change"
  /\ IsMember(h.workspace, h.target)
  /\ MayChange(h, role[h.workspace][h.target])
  /\ Checked(r, "change", role[h.workspace][h.target])

\* A role equal to the one read is not written; otherwise the row is updated by
\* its primary key, which fails if it is gone.
CommitChange(r) ==
  LET h == handler[r] IN
  /\ Committed(r, "change", h.workspace,
               IF h.grant = h.found THEN {} ELSE {h.target}, "changed")
  /\ IF h.grant = h.found
     THEN UNCHANGED <<role, grantor>>
     ELSE /\ h.row # "gone"
          /\ role' = [role EXCEPT ![h.workspace][h.target] = h.grant]
          /\ grantor' = [grantor EXCEPT ![h.workspace][h.target] = h.role]
  /\ UNCHANGED <<exists, bereft>>

-----------------------------------------------------------------------------
(* DELETE /workspaces/{id}/members/{user} *)

MayRemove(h, current) ==
  /\ owner[h.workspace] # h.target
  /\ h.role = "owner" \/ Outranks(h.role, current)

CheckRemove(r) ==
  LET h == handler[r] IN
  /\ h.stage = "authorised" /\ h.op = "remove"
  /\ IsMember(h.workspace, h.target)
  /\ MayRemove(h, role[h.workspace][h.target])
  /\ Checked(r, "remove", role[h.workspace][h.target])

\* Mutated: whatever membership the target has by now is deleted.
CommitRemove_ByMember(r) ==
  LET h == handler[r] IN
  /\ Committed(r, "remove", h.workspace, {h.target}, "gone")
  /\ role' = [role EXCEPT ![h.workspace][h.target] = None]
  /\ grantor' = [grantor EXCEPT ![h.workspace][h.target] = None]
  /\ bereft' = bereft \union {h.target}
  /\ UNCHANGED exists

\* The row is deleted by its primary key; if it is gone nothing happens.
CommitRemove(r) ==
  LET h == handler[r] IN
  /\ Committed(r, "remove", h.workspace,
               IF h.row = "gone" THEN {} ELSE {h.target}, "gone")
  /\ IF h.row = "gone"
     THEN UNCHANGED <<role, grantor, bereft>>
     ELSE /\ role' = [role EXCEPT ![h.workspace][h.target] = None]
          /\ grantor' = [grantor EXCEPT ![h.workspace][h.target] = None]
          /\ bereft' = bereft \union {h.target}
  /\ UNCHANGED exists

\* A request is refused by a check or fails before its commit.
Fail(r) ==
  /\ handler[r] # Idle
  /\ handler' = [handler EXCEPT ![r] = Idle]
  /\ UNCHANGED <<account, exists, owner, role, grantor, bereft>>

-----------------------------------------------------------------------------
Begin(r) ==
  \E u \in User, w \in Workspace :
    \/ Authorise(r, u, w, "delete", None, None)
    \/ \E x \in User : Authorise(r, u, w, "remove", x, None)
    \/ \E x \in User, g \in Role :
         Authorise(r, u, w, "add", x, g) \/ Authorise(r, u, w, "change", x, g)

Check(r) == CheckDelete(r) \/ CheckAdd(r) \/ CheckChange(r) \/ CheckRemove(r)

Commit(r) == CommitDelete(r) \/ CommitAdd(r) \/ CommitChange(r) \/ CommitRemove(r)

Next ==
  \/ \E u \in User : Register(u) \/ Create(u)
  \/ \E r \in Request : Begin(r) \/ Check(r) \/ Commit(r) \/ Fail(r)

Spec == Init /\ [][Next]_vars

-----------------------------------------------------------------------------
(* Properties. *)

\* The owner of a workspace is a member of it with the role owner, whatever
\* grants, changes and removals overlap: somebody can always administer it.
\* No membership outlives its workspace.
OwnerIsMember ==
  \A w \in Workspace :
    IF w \in exists THEN role[w][owner[w]] = "owner" ELSE Members(w) = {}

\* No chain of grants raises anybody to or above the role of the granter,
\* unless the granter was an owner: every admin was made by an owner.
GrantedFromAbove ==
  \A w \in Workspace, u \in User : IsMember(w, u) =>
    \/ grantor[w][u] = "owner"
    \/ Rank[grantor[w][u]] > Rank[role[w][u]]

\* A member is demoted or removed only by an owner or by somebody who outranks
\* the member, unless another request has changed the row since it was read (the
\* code does not read it again); and a membership that was removed meanwhile and
\* perhaps granted anew is left alone by who has read the old one.
RespectsRank ==
  \A r \in Request :
    LET h == handler[r] IN
    CommitChange(r) \/ CommitRemove(r) =>
      \/ role' = role
      \/ h.row = "same" /\ (h.role = "owner" \/ Rank[h.role] > Rank[role[h.workspace][h.target]])
      \/ h.row = "changed"

RankIsRespected == [][RespectsRank]_vars

\* Everybody with an account has a workspace to land in, except who has been
\* removed by others or has sent two deletions at once: each of two overlapping
\* deletions counts the workspace the other deletes, so that the promise "You
\* cannot delete your only workspace" (workspaces.py 130) holds for one deletion
\* at a time.
KeepsAWorkspace ==
  \A u \in account \ (bereft \union Elsewhere) : Homes(u) # {}

=============================================================================
