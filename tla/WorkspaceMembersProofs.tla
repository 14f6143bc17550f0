----------------------- MODULE WorkspaceMembersProofs -----------------------
(***************************************************************************)
(* Proofs about WorkspaceMembers for every number of users, workspaces and *)
(* concurrent requests.                                                    *)
(***************************************************************************)
EXTENDS WorkspaceMembers, FiniteSetTheorems, TLAPS

(***************************************************************************)
(* What a request may rely on between its checks and its commit.  The      *)
(* workspace's owner never changes, so a check about the owner stays good; *)
(* a check about a role stays good as long as nobody has written the row.  *)
(***************************************************************************)
Sound(h) ==
  /\ h.stage # "idle" => /\ h.workspace \in Workspace
                         /\ owner[h.workspace] # None
                         /\ h.role \in Role
  /\ h.stage # "idle" /\ h.op # "delete" => h.target \in User
  /\ h.stage # "idle" /\ h.op \in {"add", "change"} => h.grant \in Role
  /\ h.found # None <=> h.stage = "checked" /\ h.op \in {"change", "remove"}
  /\ h.stage = "checked" /\ h.op = "add" => Outranks(h.role, h.grant)
  /\ h.stage = "checked" /\ h.op = "change" => MayChange(h, h.found)
  /\ h.stage = "checked" /\ h.op = "remove" => MayRemove(h, h.found)
  /\ h.found # None =>
       /\ h.row # "gone" => IsMember(h.workspace, h.target)
       /\ h.row = "same" => role[h.workspace][h.target] = h.found

HandlersSound == \A r \in Request : Sound(handler[r])

OwnersKnown == \A w \in exists : owner[w] # None

IInv ==
  TypeOK /\ HandlersSound /\ OwnersKnown /\ OwnerIsMember /\ GrantedFromAbove

-----------------------------------------------------------------------------
LEMMA InitIInv == Init => IInv
  <1> SUFFICES ASSUME Init PROVE IInv
    OBVIOUS
  <1>1. TypeOK
    BY UserAssumption DEF Init, TypeOK, Handler, Idle, Op, Needs
  <1>2. HandlersSound
    BY DEF Init, HandlersSound, Sound, Idle
  <1>3. OwnerIsMember
    BY DEF Init, OwnerIsMember, Members, IsMember
  <1>4. GrantedFromAbove
    BY DEF Init, GrantedFromAbove, IsMember
  <1>5. QED
    BY <1>1, <1>2, <1>3, <1>4 DEF IInv, Init, OwnersKnown

\* A present workspace has an owner, who is a user and a member.
LEMMA OwnerKnown ==
  ASSUME IInv, NEW w \in exists
  PROVE  /\ w \in Workspace /\ owner[w] \in User
         /\ role[w][owner[w]] = "owner"
  <1>1. w \in Workspace /\ role[w][owner[w]] = "owner"
    BY DEF IInv, TypeOK, OwnerIsMember
  <1>2. owner[w] \in User \union {None}
    BY <1>1 DEF IInv, TypeOK
  <1>3. QED
    BY <1>1, <1>2 DEF IInv, OwnersKnown

-----------------------------------------------------------------------------
(* Steps that leave workspaces and memberships alone: request r now holds h. *)

LEMMA ReadKeeps ==
  ASSUME IInv, NEW r \in Request, NEW h \in Handler, Sound(h),
         handler' = [handler EXCEPT ![r] = h],
         UNCHANGED <<account, exists, owner, role, grantor, bereft>>
  PROVE  IInv'
  <1>1. TypeOK'
    BY DEF IInv, TypeOK
  <1>2. HandlersSound'
    <2> SUFFICES ASSUME NEW q \in Request PROVE Sound(handler[q])'
      BY DEF HandlersSound
    <2>1. Sound(handler[q])
      BY DEF IInv, HandlersSound
    <2>2. handler'[q] = handler[q] \/ handler'[q] = h
      BY DEF IInv, TypeOK
    <2>3. QED
      BY <2>1, <2>2 DEF Sound, MayChange, MayRemove, IsMember
  <1>3. OwnersKnown' /\ OwnerIsMember' /\ GrantedFromAbove'
    BY DEF IInv, OwnersKnown, OwnerIsMember, Members, IsMember, GrantedFromAbove
  <1>4. QED
    BY <1>1, <1>2, <1>3 DEF IInv

LEMMA IdleSound == Idle \in Handler /\ Sound(Idle)
  BY DEF Idle, Handler, Op, Needs, Sound

LEMMA FailKeeps ==
  ASSUME IInv, NEW r \in Request, Fail(r)
  PROVE  IInv'
  BY IdleSound, ReadKeeps DEF Fail

\* A role read by the authorisation belongs to a workspace with an owner.
LEMMA AuthoriseKeeps ==
  ASSUME IInv, NEW r \in Request, NEW u \in User, NEW w \in Workspace,
         NEW op \in Op, NEW x \in User \union {None}, NEW g \in Role \union {None},
         op # "delete" => x \in User, op \in {"add", "change"} => g \in Role,
         Authorise(r, u, w, op, x, g)
  PROVE  IInv'
  <1> DEFINE h == [stage |-> "authorised", op |-> op, user |-> u, workspace |-> w,
                   role |-> ContextRole(w, u), target |-> x, grant |-> g,
                   found |-> None, row |-> "same"]
  <1>1. w \in exists
    BY DEF Authorise, ContextRole, IsMember, IInv, OwnerIsMember, Members
  <1>2. ContextRole(w, u) \in Role
    <2>1. role[w][u] \in Role \union {None}
      BY DEF IInv, TypeOK
    <2>2. QED
      BY <2>1, RoleAssumption DEF Authorise, ContextRole, IsMember
  <1>3. h \in Handler
    BY <1>2 DEF Handler
  <1>4. Sound(h)
    BY <1>1, <1>2, OwnerKnown, NoneAssumption DEF Sound
  <1>5. QED
    BY <1>3, <1>4, ReadKeeps DEF Authorise

\* The checks that passed are what the commit relies on.
LEMMA CheckKeeps ==
  ASSUME IInv, NEW r \in Request, Check(r)
  PROVE  IInv'
  <1> DEFINE h == handler[r]
  <1>1. h \in Handler /\ Sound(h)
    BY DEF IInv, TypeOK, HandlersSound
  <1>2. CASE CheckDelete(r)
    <2> DEFINE g == [h EXCEPT !.stage = "checked", !.found = None]
    <2>1. h.stage = "authorised" /\ h.op = "delete"
      BY <1>2 DEF CheckDelete, Checked
    <2>2. g \in Handler /\ Sound(g)
      BY <1>1, <2>1 DEF Handler, Sound
    <2>3. QED
      BY <1>2, <2>2, ReadKeeps DEF CheckDelete, Checked, IInv, TypeOK
  <1>3. CASE CheckAdd(r)
    <2> DEFINE g == [h EXCEPT !.stage = "checked", !.found = None]
    <2>1. h.stage = "authorised" /\ h.op = "add" /\ Outranks(h.role, h.grant)
      BY <1>3 DEF CheckAdd, Checked
    <2>2. g \in Handler /\ Sound(g)
      BY <1>1, <2>1 DEF Handler, Sound
    <2>3. QED
      BY <1>3, <2>2, ReadKeeps DEF CheckAdd, Checked, IInv, TypeOK
  <1>4. ASSUME NEW f, f = role[h.workspace][h.target], h.stage = "authorised",
               h.op \in {"change", "remove"}, IsMember(h.workspace, h.target)
        PROVE  /\ [h EXCEPT !.stage = "checked", !.found = f] \in Handler
               /\ f # None
    <2>1. h.workspace \in Workspace /\ h.target \in User
      BY <1>1, <1>4 DEF Sound
    <2>2. f \in Role /\ f # None
      BY <1>4, <2>1 DEF IInv, TypeOK, IsMember
    <2>3. QED
      BY <1>1, <2>2 DEF Handler
  <1>5. CASE CheckChange(r)
    <2> DEFINE f == role[h.workspace][h.target]
               g == [h EXCEPT !.stage = "checked", !.found = f]
    <2>1. /\ h.stage = "authorised" /\ h.op = "change"
          /\ IsMember(h.workspace, h.target) /\ MayChange(h, f)
      BY <1>5 DEF CheckChange
    <2>2. g \in Handler /\ f # None
      BY <1>4, <2>1
    <2>3. Sound(g)
      BY <1>1, <2>1, <2>2 DEF Handler, Sound, MayChange, IsMember
    <2>4. QED
      BY <1>5, <2>2, <2>3, ReadKeeps DEF CheckChange, Checked, IInv, TypeOK
  <1>6. CASE CheckRemove(r)
    <2> DEFINE f == role[h.workspace][h.target]
               g == [h EXCEPT !.stage = "checked", !.found = f]
    <2>1. /\ h.stage = "authorised" /\ h.op = "remove"
          /\ IsMember(h.workspace, h.target) /\ MayRemove(h, f)
      BY <1>6 DEF CheckRemove
    <2>2. g \in Handler /\ f # None
      BY <1>4, <2>1
    <2>3. Sound(g)
      BY <1>1, <2>1, <2>2 DEF Handler, Sound, MayRemove, IsMember
    <2>4. QED
      BY <1>6, <2>2, <2>3, ReadKeeps DEF CheckRemove, Checked, IInv, TypeOK
  <1>7. QED
    BY <1>2, <1>3, <1>5, <1>6 DEF Check

-----------------------------------------------------------------------------
(* Steps that write. *)

LEMMA NewWorkspaceKeeps ==
  ASSUME IInv, NEW u \in User, NewWorkspace(u), account' \subseteq User,
         UNCHANGED <<handler, bereft>>
  PROVE  IInv'
  <1>1. PICK w \in Workspace :
          /\ owner[w] = None
          /\ exists' = exists \union {w}
          /\ owner' = [owner EXCEPT ![w] = u]
          /\ role' = [role EXCEPT ![w][u] = "owner"]
          /\ grantor' = [grantor EXCEPT ![w][u] = "owner"]
    BY DEF NewWorkspace
  <1>2. w \notin exists
    BY <1>1 DEF IInv, OwnersKnown
  <1>3. TypeOK'
    BY <1>1, RoleAssumption DEF IInv, TypeOK
  <1>4. \A v \in Workspace \ {w} :
          owner'[v] = owner[v] /\ role'[v] = role[v] /\ grantor'[v] = grantor[v]
    BY <1>1 DEF IInv, TypeOK
  <1>5. /\ owner'[w] = u /\ role'[w][u] = "owner" /\ grantor'[w][u] = "owner"
        /\ \A x \in User \ {u} : role'[w][x] = None
    BY <1>1, <1>2 DEF IInv, TypeOK, OwnerIsMember, Members, IsMember
  <1>6. HandlersSound'
    <2> SUFFICES ASSUME NEW q \in Request PROVE Sound(handler[q])'
      BY DEF HandlersSound
    <2>1. Sound(handler[q]) /\ handler'[q] = handler[q]
      BY DEF IInv, HandlersSound
    <2>2. handler[q].stage # "idle" =>
            handler[q].workspace \in Workspace \ {w}
      BY <1>1, <2>1 DEF Sound
    <2>3. QED
      BY <1>4, <2>1, <2>2 DEF Sound, MayChange, MayRemove, IsMember
  <1>7. OwnersKnown'
    BY <1>1, <1>4, <1>5, NoneAssumption DEF IInv, TypeOK, OwnersKnown
  <1>8. OwnerIsMember'
    BY <1>1, <1>4, <1>5 DEF IInv, TypeOK, OwnerIsMember, Members, IsMember
  <1>9. GrantedFromAbove'
    BY <1>4, <1>5 DEF IInv, GrantedFromAbove, IsMember
  <1>10. QED
    BY <1>3, <1>6, <1>7, <1>8, <1>9 DEF IInv

\* A commit ends its own request and marks those that have read a row it wrote.
LEMMA CommittedShape ==
  ASSUME IInv, NEW r \in Request, NEW op, NEW w, NEW S,
         NEW mark \in {"same", "changed", "gone"}, Committed(r, op, w, S, mark)
  PROVE  /\ handler' \in [Request -> Handler]
         /\ \A q \in Request :
              \/ handler'[q] = Idle
              \/ /\ handler'[q] = handler[q]
                 /\ \/ handler[q].found = None \/ handler[q].row = "gone"
                    \/ handler[q].workspace # w \/ handler[q].target \notin S
              \/ /\ handler'[q] = [handler[q] EXCEPT !.row = mark]
                 /\ handler[q].workspace = w /\ handler[q].target \in S
  <1>1. \A q \in Request : handler[q] \in Handler
    BY DEF IInv, TypeOK
  <1>2. \A q \in Request : [handler[q] EXCEPT !.row = mark] \in Handler
    BY <1>1 DEF Handler
  <1>3. QED
    BY <1>1, <1>2, IdleSound DEF Committed

\* A commit that writes the memberships of S in w, and inserts others, leaves
\* every other request with what it may rely on.
LEMMA CommitKeepsHandlers ==
  ASSUME IInv, NEW r \in Request, NEW op, NEW w, NEW S,
         NEW mark \in {"same", "changed", "gone"}, Committed(r, op, w, S, mark),
         \A v \in Workspace, x \in User :
           role'[v][x] # role[v][x] => ~IsMember(v, x) \/ (v = w /\ x \in S),
         mark = "changed" => \A x \in S : role'[w][x] # None,
         mark = "same" => S = {}
  PROVE  HandlersSound'
  <1> SUFFICES ASSUME NEW q \in Request PROVE Sound(handler[q])'
    BY DEF HandlersSound
  <1>1. Sound(handler[q]) /\ handler[q] \in Handler
    BY DEF IInv, HandlersSound, TypeOK
  <1>2. owner' = owner
    BY DEF Committed
  <1>3. CASE handler'[q] = Idle
    BY <1>3 DEF Sound, Idle
  <1>4. CASE /\ handler'[q] = handler[q]
             /\ \/ handler[q].found = None \/ handler[q].row = "gone"
                \/ handler[q].workspace # w \/ handler[q].target \notin S
    <2>1. handler[q].found # None /\ handler[q].row # "gone" =>
            role'[handler[q].workspace][handler[q].target]
              = role[handler[q].workspace][handler[q].target]
      BY <1>1, <1>4 DEF Sound
    <2>2. QED
      BY <1>1, <1>2, <1>4, <2>1 DEF Sound, MayChange, MayRemove, IsMember, Handler
  <1>5. CASE /\ handler'[q] = [handler[q] EXCEPT !.row = mark]
             /\ handler[q].workspace = w /\ handler[q].target \in S
    <2>1. mark # "same" /\ (mark = "changed" => role'[w][handler[q].target] # None)
      BY <1>5
    <2>2. QED
      BY <1>1, <1>2, <1>5, <2>1 DEF Sound, MayChange, MayRemove, IsMember, Handler
  <1>6. QED
    BY <1>3, <1>4, <1>5, CommittedShape

LEMMA CommitDeleteKeeps ==
  ASSUME IInv, NEW r \in Request, CommitDelete(r)
  PROVE  IInv'
  <1> DEFINE w == handler[r].workspace
  <1>1. handler[r].stage = "checked" /\ w \in Workspace
    BY DEF CommitDelete, Committed, IInv, HandlersSound, Sound
  <1>2. Committed(r, "delete", w, Members(w), "gone")
    BY DEF CommitDelete
  <1>3. /\ exists' = exists \ {w} /\ owner' = owner /\ account' = account
        /\ role' = [role EXCEPT ![w] = [x \in User |-> None]]
        /\ grantor' = [grantor EXCEPT ![w] = [x \in User |-> None]]
    BY DEF CommitDelete, Committed
  <1>4. handler' \in [Request -> Handler]
    BY <1>2, CommittedShape
  <1>5. bereft' \subseteq User
    BY DEF CommitDelete, Members, IInv, TypeOK
  <1>6. TypeOK'
    BY <1>1, <1>3, <1>4, <1>5 DEF IInv, TypeOK
  <1>7. /\ \A x \in User : role'[w][x] = None
        /\ \A v \in Workspace \ {w} : role'[v] = role[v] /\ grantor'[v] = grantor[v]
    BY <1>1, <1>3 DEF IInv, TypeOK
  <1>8. HandlersSound'
    BY <1>1, <1>2, <1>7, CommitKeepsHandlers DEF Members
  <1>9. OwnersKnown' /\ OwnerIsMember' /\ GrantedFromAbove'
    BY <1>3, <1>7
       DEF IInv, OwnersKnown, OwnerIsMember, Members, IsMember, GrantedFromAbove
  <1>10. QED
    BY <1>6, <1>8, <1>9 DEF IInv

\* A commit that writes one membership, of somebody other than the owner or as
\* owner, by somebody who may grant it.
LEMMA WriteKeeps ==
  ASSUME IInv, NEW r \in Request, NEW op, NEW S,
         NEW w \in Workspace, NEW x \in User, NEW g \in Role \union {None},
         NEW by \in Role \union {None}, NEW mark \in {"same", "changed", "gone"},
         Committed(r, op, w, S, mark),
         IsMember(w, x) => x \in S,
         mark = "changed" => S = {x} /\ g # None,
         mark = "same" => S = {},
         IsMember(w, x) \/ w \in exists,
         x = owner[w] => g = "owner",
         g # None => by = "owner" \/ Outranks(by, g),
         exists' = exists, bereft' \subseteq User,
         role' = [role EXCEPT ![w][x] = g], grantor' = [grantor EXCEPT ![w][x] = by]
  PROVE  IInv'
  <1>1. handler' \in [Request -> Handler]
    BY CommittedShape
  <1>2. account' = account /\ owner' = owner
    BY DEF Committed
  <1>3. TypeOK'
    BY <1>1, <1>2 DEF IInv, TypeOK
  <1>4. /\ role'[w][x] = g /\ grantor'[w][x] = by
        /\ \A v \in Workspace, y \in User : v # w \/ y # x =>
             role'[v][y] = role[v][y] /\ grantor'[v][y] = grantor[v][y]
    BY DEF IInv, TypeOK
  <1>5. HandlersSound'
    BY <1>4, CommitKeepsHandlers
  <1>6. w \in exists
    BY DEF IInv, OwnerIsMember, Members
  <1>7. OwnerIsMember'
    <2> SUFFICES ASSUME NEW v \in Workspace
                 PROVE  IF v \in exists THEN role'[v][owner[v]] = "owner"
                        ELSE \A y \in User : role'[v][y] = None
      BY <1>2 DEF OwnerIsMember, Members, IsMember
    <2>1. CASE v \in exists
      BY <2>1, <1>4, OwnerKnown
    <2>2. CASE v \notin exists
      BY <2>2, <1>4, <1>6 DEF IInv, OwnerIsMember, Members, IsMember
    <2>3. QED
      BY <2>1, <2>2
  <1>8. OwnersKnown'
    BY <1>2 DEF IInv, OwnersKnown
  <1>9. GrantedFromAbove'
    BY <1>4 DEF IInv, GrantedFromAbove, IsMember, Outranks
  <1>10. QED
    BY <1>3, <1>5, <1>7, <1>8, <1>9 DEF IInv

LEMMA CommitAddKeeps ==
  ASSUME IInv, NEW r \in Request, CommitAdd(r)
  PROVE  IInv'
  <1> DEFINE h == handler[r]
  <1>1. h.stage = "checked" /\ h.op = "add"
    BY DEF CommitAdd, Committed
  <1>2. /\ h.workspace \in Workspace /\ h.target \in User
        /\ h.grant \in Role /\ h.role \in Role /\ Outranks(h.role, h.grant)
    BY <1>1 DEF IInv, HandlersSound, Sound
  <1>3. h.workspace \in exists /\ ~IsMember(h.workspace, h.target)
    BY DEF CommitAdd
  <1>4. h.target # owner[h.workspace]
    BY <1>3, OwnerKnown, RoleAssumption, NoneAssumption DEF IsMember
  <1>5. bereft' \subseteq User
    BY DEF CommitAdd, IInv, TypeOK
  <1>6. /\ Committed(r, "add", h.workspace, {}, "same")
        /\ exists' = exists
        /\ role' = [role EXCEPT ![h.workspace][h.target] = h.grant]
        /\ grantor' = [grantor EXCEPT ![h.workspace][h.target] = h.role]
    BY DEF CommitAdd
  <1> HIDE DEF h
  <1>7. QED
    BY <1>2, <1>3, <1>4, <1>5, <1>6, WriteKeeps

LEMMA CommitChangeKeeps ==
  ASSUME IInv, NEW r \in Request, CommitChange(r)
  PROVE  IInv'
  <1> DEFINE h == handler[r]
  <1>1. h.stage = "checked" /\ h.op = "change" /\ h \in Handler /\ Sound(h)
    BY DEF CommitChange, Committed, IInv, TypeOK, HandlersSound
  <1>2. /\ h.workspace \in Workspace /\ h.target \in User
        /\ h.grant \in Role /\ h.role \in Role /\ MayChange(h, h.found)
        /\ h.found # None /\ h.grant # None
    BY <1>1, RoleAssumption, NoneAssumption DEF Sound
  <1>3. bereft' = bereft /\ exists' = exists /\ bereft \subseteq User
    BY DEF CommitChange, IInv, TypeOK
  <1>4. CASE h.grant = h.found
    <2>1. /\ Committed(r, "change", h.workspace, {}, "changed")
          /\ UNCHANGED <<role, grantor>>
      BY <1>4 DEF CommitChange
    <2>2. HandlersSound'
      BY <2>1, CommitKeepsHandlers
    <2>3. handler' \in [Request -> Handler]
      BY <2>1, CommittedShape
    <2>4. UNCHANGED <<account, owner>>
      BY <2>1 DEF Committed
    <2>5. QED
      BY <1>3, <2>1, <2>2, <2>3, <2>4 DEF IInv, TypeOK, OwnersKnown, OwnerIsMember,
           Members, IsMember, GrantedFromAbove
  <1>5. CASE h.grant # h.found
    <2>1. /\ Committed(r, "change", h.workspace, {h.target}, "changed")
          /\ h.row # "gone"
          /\ role' = [role EXCEPT ![h.workspace][h.target] = h.grant]
          /\ grantor' = [grantor EXCEPT ![h.workspace][h.target] = h.role]
      BY <1>5 DEF CommitChange
    <2>2. IsMember(h.workspace, h.target)
      BY <1>1, <1>2, <2>1 DEF Sound
    <2>3. /\ h.target = owner[h.workspace] => h.grant = "owner"
          /\ h.role = "owner" \/ Outranks(h.role, h.grant)
      BY <1>2 DEF MayChange
    <2> DEFINE w == h.workspace  x == h.target  g == h.grant  by == h.role
               S == {x}
    <2>4. /\ w \in Workspace /\ x \in User /\ x \in S /\ S = {x}
          /\ g \in Role \union {None} /\ by \in Role \union {None} /\ g # None
          /\ IsMember(w, x) /\ (x = owner[w] => g = "owner")
          /\ by = "owner" \/ Outranks(by, g)
          /\ exists' = exists /\ bereft' \subseteq User
          /\ Committed(r, "change", w, S, "changed")
          /\ role' = [role EXCEPT ![w][x] = g] /\ grantor' = [grantor EXCEPT ![w][x] = by]
      BY <1>2, <1>3, <2>1, <2>2, <2>3
    <2> HIDE DEF h, w, x, g, by, S
    <2>5. QED
      BY <2>4, WriteKeeps
  <1>6. QED
    BY <1>4, <1>5

LEMMA CommitRemoveKeeps ==
  ASSUME IInv, NEW r \in Request, CommitRemove(r)
  PROVE  IInv'
  <1> DEFINE h == handler[r]
  <1>1. h.stage = "checked" /\ h.op = "remove" /\ h \in Handler /\ Sound(h)
    BY DEF CommitRemove, Committed, IInv, TypeOK, HandlersSound
  <1>2. /\ h.workspace \in Workspace /\ h.target \in User
        /\ h.found # None /\ MayRemove(h, h.found)
    BY <1>1 DEF Sound
  <1>3. exists' = exists /\ bereft' \subseteq User
    BY <1>2 DEF CommitRemove, IInv, TypeOK
  <1>4. CASE h.row = "gone"
    <2>1. /\ Committed(r, "remove", h.workspace, {}, "gone")
          /\ UNCHANGED <<role, grantor>>
      BY <1>4 DEF CommitRemove
    <2>2. HandlersSound'
      BY <2>1, CommitKeepsHandlers
    <2>3. handler' \in [Request -> Handler]
      BY <2>1, CommittedShape
    <2>4. UNCHANGED <<account, owner>>
      BY <2>1 DEF Committed
    <2>5. QED
      BY <1>3, <2>1, <2>2, <2>3, <2>4 DEF IInv, TypeOK, OwnersKnown, OwnerIsMember,
           Members, IsMember, GrantedFromAbove
  <1>5. CASE h.row # "gone"
    <2>1. /\ Committed(r, "remove", h.workspace, {h.target}, "gone")
          /\ role' = [role EXCEPT ![h.workspace][h.target] = None]
          /\ grantor' = [grantor EXCEPT ![h.workspace][h.target] = None]
      BY <1>5 DEF CommitRemove
    <2>2. IsMember(h.workspace, h.target)
      BY <1>1, <1>2, <1>5 DEF Sound
    <2>3. h.target # owner[h.workspace]
      BY <1>2 DEF MayRemove
    <2> HIDE DEF h
    <2>4. QED
      BY <1>2, <1>3, <2>1, <2>2, <2>3, WriteKeeps
  <1>6. QED
    BY <1>4, <1>5

LEMMA NextIInv == IInv /\ [Next]_vars => IInv'
  <1> SUFFICES ASSUME IInv, [Next]_vars PROVE IInv'
    OBVIOUS
  <1>1. ASSUME NEW u \in User, Register(u) PROVE IInv'
    BY <1>1, NewWorkspaceKeeps DEF Register, IInv, TypeOK
  <1>2. ASSUME NEW u \in User, Create(u) PROVE IInv'
    BY <1>2, NewWorkspaceKeeps DEF Create, IInv, TypeOK
  <1>3. ASSUME NEW r \in Request, Begin(r) PROVE IInv'
    <2>1. PICK u \in User, w \in Workspace :
            \/ Authorise(r, u, w, "delete", None, None)
            \/ \E x \in User : Authorise(r, u, w, "remove", x, None)
            \/ \E x \in User, g \in Role :
                 Authorise(r, u, w, "add", x, g) \/ Authorise(r, u, w, "change", x, g)
      BY <1>3 DEF Begin
    <2>2. {"delete", "add", "change", "remove"} \subseteq Op
      BY DEF Op, Needs
    <2>3. QED
      BY <2>1, <2>2, AuthoriseKeeps
  <1>4. ASSUME NEW r \in Request, Commit(r) PROVE IInv'
    BY <1>4, CommitDeleteKeeps, CommitAddKeeps, CommitChangeKeeps,
       CommitRemoveKeeps DEF Commit
  <1>5. CASE UNCHANGED vars
    BY <1>5 DEF vars, IInv, TypeOK, HandlersSound, Sound, MayChange, MayRemove,
         OwnersKnown, OwnerIsMember, Members, IsMember, GrantedFromAbove
  <1>6. QED
    BY <1>1, <1>2, <1>3, <1>4, <1>5, CheckKeeps, FailKeeps DEF Next

THEOREM Invariant == Spec => []IInv
  BY InitIInv, NextIInv, PTL DEF Spec

-----------------------------------------------------------------------------
(* What follows. *)

\* Every reachable state is well typed.
THEOREM TypeCorrect == Spec => []TypeOK
  <1>1. IInv => TypeOK
    BY DEF IInv
  <1>2. QED
    BY <1>1, Invariant, PTL

\* The owner of a workspace is a member with the role owner, however requests
\* of any number of members overlap; no membership outlives its workspace.
THEOREM OwnerIsMemberHolds == Spec => []OwnerIsMember
  <1>1. IInv => OwnerIsMember
    BY DEF IInv
  <1>2. QED
    BY <1>1, Invariant, PTL

\* Every role was granted by an owner or by somebody of a higher role.
THEOREM GrantedFromAboveHolds == Spec => []GrantedFromAbove
  <1>1. IInv => GrantedFromAbove
    BY DEF IInv
  <1>2. QED
    BY <1>1, Invariant, PTL

\* Nobody but an owner demotes or removes a member of their own or a higher role
\* whose row is as it was read, and nobody touches a membership granted since.
THEOREM RankIsRespectedHolds == Spec => RankIsRespected
  <1>1. ASSUME IInv PROVE RespectsRank
    <2> SUFFICES ASSUME NEW r \in Request, CommitChange(r) \/ CommitRemove(r)
                 PROVE  LET h == handler[r] IN
                        \/ role' = role
                        \/ /\ h.row = "same"
                           /\ \/ h.role = "owner"
                              \/ Rank[h.role] > Rank[role[h.workspace][h.target]]
                        \/ h.row = "changed"
      BY DEF RespectsRank
    <2> DEFINE h == handler[r]
    <2>1. /\ h.stage = "checked" /\ h.op \in {"change", "remove"}
          /\ h.row \in {"same", "changed", "gone"} /\ Sound(h)
      BY <1>1 DEF CommitChange, CommitRemove, Committed, IInv, TypeOK, Handler, HandlersSound
    <2>2. CASE h.row = "gone"
      BY <2>2 DEF CommitChange, CommitRemove
    <2>3. CASE h.row = "same"
      <3>1. CASE h.role = "owner"
        BY <2>3, <3>1
      <3>2. CASE h.role # "owner"
        <4>1. /\ role[h.workspace][h.target] = h.found
              /\ Outranks(h.role, h.found)
          BY <2>1, <2>3, <3>2 DEF Sound, MayChange, MayRemove
        <4>2. QED
          BY <2>3, <4>1 DEF Outranks
      <3>3. QED
        BY <3>1, <3>2
    <2>4. QED
      BY <2>1, <2>2, <2>3
  <1>2. IInv => RespectsRank
    BY <1>1
  <1>3. QED
    BY <1>2, Invariant, PTL DEF RankIsRespected

-----------------------------------------------------------------------------
(***************************************************************************)
(* Everybody keeps a workspace.  What a deletion has counted stays good    *)
(* until its commit: who has lost a membership meanwhile, by another       *)
(* deletion of theirs or by others, is bereft.                             *)
(***************************************************************************)
Leaving(r, u) ==
  handler[r].stage = "checked" /\ handler[r].op = "delete" /\ handler[r].user = u

Spare ==
  \A r \in Request, u \in User \ (bereft \union Elsewhere) :
    Leaving(r, u) => \E v \in Workspace \ {handler[r].workspace} : IsMember(v, u)

Housed ==
  \A u \in account \ (bereft \union Elsewhere) : \E v \in Workspace : IsMember(v, u)

HomeInv == Spare /\ Housed

\* A step that takes a membership only from who becomes bereft, and lets no
\* deletion pass its check.
LEMMA HomesKept ==
  ASSUME TypeOK, HomeInv, bereft \subseteq bereft',
         account' \ (account \union bereft') \subseteq
           {u \in User : \E v \in Workspace : IsMember(v, u)'},
         \A u \in User \ bereft', v \in Workspace : IsMember(v, u) => IsMember(v, u)',
         \A r \in Request : handler'[r].stage = "checked" /\ handler'[r].op = "delete" =>
           /\ handler[r].stage = "checked" /\ handler[r].op = "delete"
           /\ handler'[r].user = handler[r].user
           /\ handler'[r].workspace = handler[r].workspace
  PROVE  HomeInv'
  <1>1. account \subseteq User
    BY DEF TypeOK
  <1>2. Spare'
    <2> SUFFICES ASSUME NEW r \in Request, NEW u \in User \ (bereft' \union Elsewhere), Leaving(r, u)'
                 PROVE  \E v \in Workspace \ {handler'[r].workspace} : IsMember(v, u)'
      BY DEF Spare
    <2>1. Leaving(r, u) /\ handler'[r].workspace = handler[r].workspace /\ u \notin bereft
      BY DEF Leaving
    <2>2. PICK v \in Workspace \ {handler[r].workspace} : IsMember(v, u)
      BY <2>1 DEF HomeInv, Spare
    <2>3. IsMember(v, u)'
      BY <2>2
    <2>4. QED
      BY <2>1, <2>2, <2>3
  <1>3. Housed'
    <2> SUFFICES ASSUME NEW u \in account' \ (bereft' \union Elsewhere)
                 PROVE  \E v \in Workspace : IsMember(v, u)'
      BY DEF Housed
    <2>1. CASE u \notin account
      BY <2>1
    <2>2. CASE u \in account
      <3>1. PICK v \in Workspace : IsMember(v, u)
        BY <2>2 DEF HomeInv, Housed
      <3>2. QED
        BY <1>1, <2>2, <3>1
    <2>3. QED
      BY <2>1, <2>2
  <1>4. QED
    BY <1>2, <1>3 DEF HomeInv

LEMMA NewWorkspaceKeepsHomes ==
  ASSUME IInv, HomeInv, NEW u \in User, NewWorkspace(u),
         account' \subseteq account \union {u}, UNCHANGED <<handler, bereft>>
  PROVE  HomeInv'
  <1>1. PICK w \in Workspace : role' = [role EXCEPT ![w][u] = "owner"]
    BY DEF NewWorkspace
  <1>2. "owner" # None
    BY RoleAssumption, NoneAssumption
  <1>3. /\ IsMember(w, u)'
        /\ \A x \in User, v \in Workspace : IsMember(v, x) => IsMember(v, x)'
    BY <1>1, <1>2 DEF IInv, TypeOK, IsMember
  <1>4. QED
    BY <1>3, HomesKept DEF IInv

\* Reading changes nothing; a deletion passes its check with a workspace to
\* spare.
LEMMA ReadKeepsHomes ==
  ASSUME IInv, HomeInv, NEW r \in Request, NEW h,
         handler' = [handler EXCEPT ![r] = h],
         UNCHANGED <<account, role, bereft>>,
         h.stage = "checked" /\ h.op = "delete" =>
           \A u \in User \ (bereft \union Elsewhere) : h.user = u =>
             \E v \in Workspace \ {h.workspace} : IsMember(v, u)
  PROVE  HomeInv'
  <1>1. handler'[r] = h /\ \A q \in Request \ {r} : handler'[q] = handler[q]
    BY DEF IInv, TypeOK
  <1>2. \A v, u : IsMember(v, u)' <=> IsMember(v, u)
    BY DEF IsMember
  <1>3. Spare'
    <2> SUFFICES ASSUME NEW q \in Request, NEW u \in User \ (bereft \union Elsewhere), Leaving(q, u)'
                 PROVE  \E v \in Workspace \ {handler'[q].workspace} : IsMember(v, u)
      BY <1>2 DEF Spare
    <2>1. CASE q = r
      BY <1>1, <2>1 DEF Leaving
    <2>2. CASE q # r
      BY <1>1, <2>2 DEF Leaving, HomeInv, Spare
    <2>3. QED
      BY <2>1, <2>2
  <1>4. QED
    BY <1>2, <1>3 DEF HomeInv, Housed

LEMMA CheckKeepsHomes ==
  ASSUME IInv, HomeInv, NEW r \in Request, Check(r)
  PROVE  HomeInv'
  <1> DEFINE h == handler[r]
  <1>0. h \in Handler /\ handler \in [Request -> Handler]
    BY DEF IInv, TypeOK
  <1>1. CASE CheckDelete(r)
    <2> DEFINE g == [h EXCEPT !.stage = "checked", !.found = None]
    <2>1. /\ handler' = [handler EXCEPT ![r] = g] /\ UNCHANGED <<account, role, bereft>>
      BY <1>0, <1>1 DEF CheckDelete, Checked
    <2>2. g.user = h.user /\ g.workspace = h.workspace
      BY <1>0 DEF Handler
    <2>3. ASSUME NEW u \in User \ (bereft \union Elsewhere), h.user = u
          PROVE  \E v \in Workspace \ {h.workspace} : IsMember(v, u)
      <3>1. Cardinality(Homes(u)) + Cardinality({u} \intersect Elsewhere) > 1
        BY <1>1, <2>3 DEF CheckDelete
      <3>2. {u} \intersect Elsewhere = {}
        OBVIOUS
      <3>3. SUFFICES ASSUME Homes(u) \subseteq {h.workspace} PROVE FALSE
        BY DEF Homes
      <3>4. Cardinality(Homes(u)) \in Nat /\ Cardinality(Homes(u)) <= 1
        <4>1. IsFiniteSet({h.workspace}) /\ Cardinality({h.workspace}) = 1
          BY FS_Singleton
        <4>2. QED
          BY <3>3, <4>1, FS_Subset, FS_CardinalityType
      <3>5. Cardinality({u} \intersect Elsewhere) = 0
        BY <3>2, FS_EmptySet
      <3>6. QED
        BY <3>1, <3>4, <3>5
    <2> HIDE DEF g
    <2>4. QED
      BY <2>1, <2>2, <2>3, ReadKeepsHomes
  <1>2. ASSUME NEW op \in {"add", "change", "remove"}, NEW f, Checked(r, op, f)
        PROVE  HomeInv'
    <2> DEFINE g == [h EXCEPT !.stage = "checked", !.found = f]
    <2>1. handler' = [handler EXCEPT ![r] = g] /\ UNCHANGED <<account, role, bereft>>
      BY <1>0, <1>2 DEF Checked
    <2>2. g.op # "delete"
      BY <1>0, <1>2 DEF Handler, Checked
    <2> HIDE DEF g
    <2>3. QED
      BY <2>1, <2>2, ReadKeepsHomes
  <1>3. QED
    BY <1>1, <1>2 DEF Check, CheckAdd, CheckChange, CheckRemove

\* A commit changes what other requests have read, not what they are about.
LEMMA CommittedKeepsLeaving ==
  ASSUME IInv, NEW r \in Request, NEW op, NEW w, NEW S,
         NEW mark \in {"same", "changed", "gone"}, Committed(r, op, w, S, mark)
  PROVE  /\ ~(handler'[r].stage = "checked")
         /\ \A q \in Request : handler'[q].stage = "checked" =>
              /\ q # r /\ handler[q].stage = "checked" /\ handler'[q].op = handler[q].op
              /\ handler'[q].user = handler[q].user
              /\ handler'[q].workspace = handler[q].workspace
  <1>1. \A q \in Request : handler[q] \in Handler
    BY DEF IInv, TypeOK
  <1>2. handler'[r].stage = "idle"
    BY DEF Committed, Idle
  <1>3. ASSUME NEW q \in Request, handler'[q].stage = "checked"
        PROVE  /\ q # r /\ handler[q].stage = "checked" /\ handler'[q].op = handler[q].op
               /\ handler'[q].user = handler[q].user
               /\ handler'[q].workspace = handler[q].workspace
    <2>1. q # r
      BY <1>2, <1>3
    <2>2. handler'[q] = handler[q] \/ handler'[q] = [handler[q] EXCEPT !.row = mark]
      BY <2>1 DEF Committed
    <2>3. QED
      BY <1>1, <1>3, <2>1, <2>2 DEF Handler
  <1>4. QED
    BY <1>2, <1>3

LEMMA CommitDeleteKeepsHomes ==
  ASSUME IInv, HomeInv, NEW r \in Request, CommitDelete(r)
  PROVE  HomeInv'
  <1> DEFINE w == handler[r].workspace
             u == handler[r].user
  <1>1. /\ Committed(r, "delete", w, Members(w), "gone") /\ Leaving(r, u) /\ account' = account
        /\ bereft' = bereft \union {x \in Members(w) : x # u \/ DeletingToo(r, u)}
        /\ role' = [role EXCEPT ![w] = [x \in User |-> None]]
    BY DEF CommitDelete, Committed, Leaving
  <1>2. \A q \in Request : handler'[q].stage = "checked" =>
              /\ q # r /\ handler[q].stage = "checked" /\ handler'[q].op = handler[q].op
              /\ handler'[q].user = handler[q].user
              /\ handler'[q].workspace = handler[q].workspace
    BY <1>1, CommittedKeepsLeaving
  <1>3. \A x \in User, v \in Workspace \ {w} : IsMember(v, x)' <=> IsMember(v, x)
    BY <1>1 DEF IInv, TypeOK, IsMember
  <1>4. \A x \in User \ bereft' : IsMember(w, x) => x = u /\ ~DeletingToo(r, u)
    BY <1>1 DEF Members
  <1>5. Spare'
    <2> SUFFICES ASSUME NEW q \in Request, NEW x \in User \ (bereft' \union Elsewhere), Leaving(q, x)'
                 PROVE  \E v \in Workspace \ {handler'[q].workspace} : IsMember(v, x)'
      BY DEF Spare
    <2>1. q # r /\ Leaving(q, x) /\ handler'[q].workspace = handler[q].workspace
      BY <1>2 DEF Leaving
    <2>2. PICK v \in Workspace \ {handler[q].workspace} : IsMember(v, x)
      BY <1>1, <2>1 DEF HomeInv, Spare
    <2>3. ~IsMember(w, x)
      BY <1>4, <2>1 DEF DeletingToo, Leaving
    <2>4. QED
      BY <1>3, <2>1, <2>2, <2>3
  <1>6. Housed'
    <2> SUFFICES ASSUME NEW x \in account \ (bereft' \union Elsewhere)
                 PROVE  \E v \in Workspace : IsMember(v, x)'
      BY <1>1 DEF Housed
    <2>1. x \in User \ (bereft' \union Elsewhere) /\ x \notin bereft
      BY <1>1 DEF IInv, TypeOK
    <2>2. CASE IsMember(w, x)
      <3>1. x = u
        BY <1>4, <2>1, <2>2
      <3>2. PICK v \in Workspace \ {w} : IsMember(v, x)
        BY <1>1, <2>1, <3>1 DEF HomeInv, Spare
      <3>3. QED
        BY <1>3, <2>1, <3>2
    <2>3. CASE ~IsMember(w, x)
      <3>1. PICK v \in Workspace : IsMember(v, x)
        BY <2>1 DEF HomeInv, Housed
      <3>2. QED
        BY <1>3, <2>1, <2>3, <3>1
    <2>4. QED
      BY <2>2, <2>3
  <1>7. QED
    BY <1>5, <1>6 DEF HomeInv

LEMMA CommitOtherKeepsHomes ==
  ASSUME IInv, HomeInv, NEW r \in Request, CommitAdd(r) \/ CommitChange(r) \/ CommitRemove(r)
  PROVE  HomeInv'
  <1> DEFINE h == handler[r]
  <1>1. /\ h \in Handler /\ Sound(h) /\ h.stage = "checked" /\ h.op \in {"add", "change", "remove"}
        /\ account' = account
    BY DEF CommitAdd, CommitChange, CommitRemove, Committed, IInv, TypeOK, HandlersSound
  <1>2. h.workspace \in Workspace /\ h.target \in User /\ (h.op # "remove" => h.grant # None)
    BY <1>1, RoleAssumption, NoneAssumption DEF Sound
  <1>3. \A q \in Request : handler'[q].stage = "checked" =>
              /\ q # r /\ handler[q].stage = "checked" /\ handler'[q].op = handler[q].op
              /\ handler'[q].user = handler[q].user
              /\ handler'[q].workspace = handler[q].workspace
    BY CommittedKeepsLeaving DEF CommitAdd, CommitChange, CommitRemove
  <1>4. \/ role' = role /\ bereft' = bereft
        \/ /\ role' = [role EXCEPT ![h.workspace][h.target] = h.grant] /\ h.op # "remove"
           /\ bereft' = bereft
        \/ /\ role' = [role EXCEPT ![h.workspace][h.target] = None]
           /\ bereft' = bereft \union {h.target}
    BY <1>1 DEF CommitAdd, CommitChange, CommitRemove, Committed
  <1>5. \A u \in User \ bereft', v \in Workspace : IsMember(v, u) => IsMember(v, u)'
    BY <1>2, <1>4 DEF IInv, TypeOK, IsMember
  <1>6. bereft \subseteq bereft'
    BY <1>4
  <1> HIDE DEF h
  <1>7. QED
    BY <1>1, <1>3, <1>5, <1>6, HomesKept DEF IInv

LEMMA HomesNext == IInv /\ HomeInv /\ [Next]_vars => HomeInv'
  <1> SUFFICES ASSUME IInv, HomeInv, [Next]_vars PROVE HomeInv'
    OBVIOUS
  <1>1. ASSUME NEW u \in User, Register(u) \/ Create(u) PROVE HomeInv'
    BY <1>1, NewWorkspaceKeepsHomes DEF Register, Create
  <1>2. ASSUME NEW r \in Request, NEW u, NEW w, NEW op, NEW x, NEW g, Authorise(r, u, w, op, x, g)
        PROVE  HomeInv'
    BY <1>2, ReadKeepsHomes DEF Authorise
  <1>3. ASSUME NEW r \in Request, Begin(r) PROVE HomeInv'
    BY <1>2, <1>3 DEF Begin
  <1>4. ASSUME NEW r \in Request, Fail(r) PROVE HomeInv'
    BY <1>4, ReadKeepsHomes DEF Fail, Idle
  <1>5. ASSUME NEW r \in Request, Commit(r) PROVE HomeInv'
    BY <1>5, CommitDeleteKeepsHomes, CommitOtherKeepsHomes DEF Commit
  <1>6. CASE UNCHANGED vars
    BY <1>6 DEF vars, HomeInv, Spare, Housed, Leaving, IsMember
  <1>7. QED
    BY <1>1, <1>3, <1>4, <1>5, <1>6, CheckKeepsHomes DEF Next

\* Everybody with an account has a workspace to land in, for any number of
\* overlapping requests, except who has been removed by others or has sent two
\* deletions at once (delete: "You cannot delete your only workspace").
THEOREM KeepsAWorkspaceHolds == Spec => []KeepsAWorkspace
  <1>1. Init => HomeInv
    BY DEF Init, HomeInv, Spare, Housed, Leaving, Idle
  <1>2. HomeInv => KeepsAWorkspace
    BY DEF HomeInv, Housed, KeepsAWorkspace, Homes
  <1>3. QED
    BY <1>1, <1>2, HomesNext, Invariant, PTL DEF Spec
=============================================================================
