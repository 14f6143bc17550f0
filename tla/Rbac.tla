-------------------------------- MODULE Rbac --------------------------------
(***************************************************************************)
(* The roles of a workspace, what each may do and which outranks which     *)
(* (security/rbac.py).  An unknown role is read as viewer (parse_role), so *)
(* the five names below are all there are.                                 *)
(***************************************************************************)
EXTENDS Naturals

\* ROLE_RANK
Rank == [viewer |-> 0, member |-> 1, editor |-> 2, admin |-> 3, owner |-> 4]

RoleName == DOMAIN Rank

Outranks(actor, target) == Rank[actor] > Rank[target]

\* ROLE_PERMISSIONS: each role has those of the roles below it.
Viewer == {"workspace:read", "member:read", "brand:read", "campaign:read", "chat:read"}
Member == Viewer \union {"chat:write"}
Editor == Member \union {"brand:write", "campaign:write"}
Admin == Editor \union {"workspace:update", "member:invite", "member:remove",
                        "member:role_update", "brand:delete", "campaign:delete"}
Owner == Admin \union {"workspace:delete"}

Permissions == [viewer |-> Viewer, member |-> Member, editor |-> Editor,
                admin |-> Admin, owner |-> Owner]
=============================================================================
