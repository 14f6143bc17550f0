------------------------------ MODULE Campaigns ------------------------------
(***************************************************************************)
(* Brands, campaigns and the conversations about them (routers/brands.py,  *)
(* campaigns.py, chat.py): which row refers to which, and in whose         *)
(* workspace.                                                              *)
(*                                                                         *)
(* Deleting a brand has two effects on campaigns.  The ORM (cascade="all,  *)
(* delete-orphan") loads the brand's campaigns when the handler asks for   *)
(* the deletion, and deletes these rows at the commit; the foreign key     *)
(* (ON DELETE SET NULL) then detaches the campaigns that were not loaded.  *)
(* What a caller may read or write is the subject of WorkspaceMembers;     *)
(* names, texts and states of brands and campaigns are left out.           *)
(***************************************************************************)
CONSTANTS Workspace, Brand, Campaign, Conversation, Request, None

ASSUME NameAssumption ==
  /\ None \notin Brand \union Campaign
  /\ Workspace \intersect ({"unborn", "gone"} \union Campaign) = {}

VARIABLES
  open,           \* the workspaces that exist
  brand,          \* the workspace of each brand
  campaign,       \* the workspace of each campaign, and its brand
  conversation,   \* the workspace of each conversation, and its campaign
  handler         \* what each request has read

vars == <<open, brand, campaign, conversation, handler>>

\* Ids are never used again.
Home == Workspace \union {"unborn", "gone"}
Live(row) == row.home \in Workspace

Idle == [op |-> "idle"]
Creating == [op: {"create"}, home: Workspace, brand: Brand \union {None}]
Moving == [op: {"move"}, campaign: Campaign, brand: Brand]
Deleting == [op: {"delete"}, brand: Brand, loaded: SUBSET Campaign,
             disturbed: BOOLEAN]   \* history: its campaigns changed since
Chatting == [op: {"chat"}, home: Workspace, campaign: Campaign \union {None}]

TypeOK ==
  /\ open \subseteq Workspace
  /\ brand \in [Brand -> Home]
  /\ campaign \in [Campaign -> [home: Home, brand: Brand \union {None}]]
  /\ conversation \in [Conversation -> [home: Home, campaign: Campaign \union {None}]]
  /\ handler \in [Request -> {Idle} \union Creating \union Moving \union Deleting
                                    \union Chatting]

Init ==
  /\ open = Workspace
  /\ brand = [b \in Brand |-> "unborn"]
  /\ campaign = [c \in Campaign |-> [home |-> "unborn", brand |-> None]]
  /\ conversation = [v \in Conversation |-> [home |-> "unborn", campaign |-> None]]
  /\ handler = [r \in Request |-> Idle]

Start(r, h) == handler[r] = Idle /\ handler' = [handler EXCEPT ![r] = h]
Doing(r, op) == handler[r].op = op

\* The campaigns become next, and r is answered.  A deletion in flight is
\* disturbed if a campaign came to its brand or left it.
Disturbs(next, b) == \E c \in Campaign :
  /\ next[c].home \in Workspace
  /\ next[c].brand # campaign[c].brand /\ b \in {next[c].brand, campaign[c].brand}

Finish(r, next) ==
  /\ campaign' = next
  /\ handler' = [q \in Request |->
       CASE q = r -> Idle
         [] q # r /\ Doing(q, "delete") /\ Disturbs(next, handler[q].brand) ->
              [handler[q] EXCEPT !.disturbed = TRUE]
         [] OTHER -> handler[q]]

-----------------------------------------------------------------------------
(* References. *)

\* Mutated: any tenant's brand will do.
BelongsTo_Anyone(w, b) == b # None => brand[b] \in Workspace

\* _validate_brand.
BelongsTo(w, b) == b # None => brand[b] = w

\* The foreign key of a row that refers to brand b.
BrandExists(b) == b # None => brand[b] \in Workspace

\* An uncommitted conversation keeps what it refers to from being deleted.
Pins(r, row) == Doing(r, "chat") /\ row \in {handler[r].home, handler[r].campaign}
Pinned(row) == \E r \in Request : Pins(r, row)

\* Mutated: a compound key, of which SET NULL clears every column.
Unlink_Compound(gone) ==
  conversation' = [v \in Conversation |->
    IF conversation[v].campaign \in gone
    THEN [home |-> None, campaign |-> None] ELSE conversation[v]]

\* The foreign key ON DELETE SET NULL of conversations.campaign_id.
Unlink(gone) ==
  conversation' = [v \in Conversation |->
    IF conversation[v].campaign \in gone
    THEN [conversation[v] EXCEPT !.campaign = None] ELSE conversation[v]]

-----------------------------------------------------------------------------
(* Brands. *)

CreateBrand(w, b) ==
  /\ w \in open /\ brand[b] = "unborn"
  /\ brand' = [brand EXCEPT ![b] = w]
  /\ UNCHANGED <<open, campaign, conversation, handler>>

\* Mutated: the collection is not loaded (passive_deletes).
BeginDeleteBrand_Passive(r, b) ==
  /\ brand[b] \in Workspace
  /\ Start(r, [op |-> "delete", brand |-> b, loaded |-> {}, disturbed |-> FALSE])
  /\ UNCHANGED <<open, brand, campaign, conversation>>

BeginDeleteBrand(r, b) ==
  /\ brand[b] \in Workspace
  /\ Start(r, [op |-> "delete", brand |-> b, disturbed |-> FALSE,
               loaded |-> {c \in Campaign : Live(campaign[c]) /\ campaign[c].brand = b}])
  /\ UNCHANGED <<open, brand, campaign, conversation>>

\* Deleting a row that is gone already only logs a warning.
FinishDeleteBrand(r) ==
  /\ Doing(r, "delete")
  /\ LET b == handler[r].brand
         loaded == handler[r].loaded
     IN /\ \A c \in loaded : ~Pinned(c)
        /\ brand' = [brand EXCEPT ![b] = "gone"]
        /\ Unlink(loaded)
        /\ Finish(r, [c \in Campaign |->
             CASE c \in loaded -> [home |-> "gone", brand |-> None]
               [] c \notin loaded /\ campaign[c].brand = b -> [campaign[c] EXCEPT !.brand = None]
               [] OTHER -> campaign[c]])
  /\ UNCHANGED open

-----------------------------------------------------------------------------
(* Campaigns. *)

BeginCreateCampaign(r, w, b) ==
  /\ w \in open /\ BelongsTo(w, b)
  /\ Start(r, [op |-> "create", home |-> w, brand |-> b])
  /\ UNCHANGED <<open, brand, campaign, conversation>>

FinishCreateCampaign(r, c) ==
  /\ Doing(r, "create")
  /\ campaign[c].home = "unborn"
  /\ handler[r].home \in open /\ BrandExists(handler[r].brand)
  /\ Finish(r, [campaign EXCEPT ![c] = [home |-> handler[r].home, brand |-> handler[r].brand]])
  /\ UNCHANGED <<open, brand, conversation>>

\* An update to the brand the campaign has writes nothing, and so does one to
\* no brand: None is skipped, a campaign is never detached on request.
BeginMove(r, c, b) ==
  /\ Live(campaign[c]) /\ BelongsTo(campaign[c].home, b) /\ campaign[c].brand # b
  /\ Start(r, [op |-> "move", campaign |-> c, brand |-> b])
  /\ UNCHANGED <<open, brand, campaign, conversation>>

FinishMove(r) ==
  /\ Doing(r, "move")
  /\ LET c == handler[r].campaign IN
     /\ Live(campaign[c]) /\ BrandExists(handler[r].brand)
     /\ Finish(r, [campaign EXCEPT ![c].brand = handler[r].brand])
  /\ UNCHANGED <<open, brand, conversation>>

\* Nothing is read that could be different at the commit: one step.
DeleteCampaign(c) ==
  /\ Live(campaign[c]) /\ ~Pinned(c)
  /\ campaign' = [campaign EXCEPT ![c] = [home |-> "gone", brand |-> None]]
  /\ Unlink({c})
  /\ UNCHANGED <<open, brand, handler>>

-----------------------------------------------------------------------------
(* Conversations and workspaces. *)

\* The row is inserted first and its campaign looked up afterwards, in the
\* workspace; if it is not found the insertion is rolled back.
BeginChat(r, w, c) ==
  /\ w \in open
  /\ c # None => campaign[c].home = w
  /\ Start(r, [op |-> "chat", home |-> w, campaign |-> c])
  /\ UNCHANGED <<open, brand, campaign, conversation>>

\* The model has answered, or the stream begins.
FinishChat(r, v) ==
  /\ Doing(r, "chat") /\ conversation[v].home = "unborn"
  /\ conversation' = [conversation EXCEPT
       ![v] = [home |-> handler[r].home, campaign |-> handler[r].campaign]]
  /\ handler' = [handler EXCEPT ![r] = Idle]
  /\ UNCHANGED <<open, brand, campaign>>

DeleteConversation(v) ==
  /\ Live(conversation[v])
  /\ conversation' = [conversation EXCEPT ![v] = [home |-> "gone", campaign |-> None]]
  /\ UNCHANGED <<open, brand, campaign, handler>>

\* ON DELETE CASCADE: whatever refers to the workspace goes with it.
DeleteWorkspace(w) ==
  /\ w \in open /\ ~Pinned(w)
  /\ open' = open \ {w}
  /\ brand' = [b \in Brand |-> IF brand[b] = w THEN "gone" ELSE brand[b]]
  /\ campaign' = [c \in Campaign |->
       IF campaign[c].home = w THEN [home |-> "gone", brand |-> None] ELSE campaign[c]]
  /\ conversation' = [v \in Conversation |->
       IF conversation[v].home = w THEN [home |-> "gone", campaign |-> None]
       ELSE conversation[v]]
  /\ UNCHANGED handler

\* The request ends before its commit, for any reason.
Fail(r) ==
  /\ handler[r] # Idle
  /\ handler' = [handler EXCEPT ![r] = Idle]
  /\ UNCHANGED <<open, brand, campaign, conversation>>

-----------------------------------------------------------------------------
Next ==
  \/ \E r \in Request :
       \/ \E b \in Brand : BeginDeleteBrand(r, b)
       \/ FinishDeleteBrand(r)
       \/ \E w \in Workspace, b \in Brand \union {None} : BeginCreateCampaign(r, w, b)
       \/ \E c \in Campaign : FinishCreateCampaign(r, c)
       \/ \E c \in Campaign, b \in Brand : BeginMove(r, c, b)
       \/ FinishMove(r)
       \/ \E w \in Workspace, c \in Campaign \union {None} : BeginChat(r, w, c)
       \/ \E v \in Conversation : FinishChat(r, v)
       \/ Fail(r)
  \/ \E w \in Workspace : DeleteWorkspace(w) \/ \E b \in Brand : CreateBrand(w, b)
  \/ \E c \in Campaign : DeleteCampaign(c)
  \/ \E v \in Conversation : DeleteConversation(v)

Spec == Init /\ [][Next]_vars

-----------------------------------------------------------------------------
(* Properties. *)

\* Whatever was deleted between the check of a reference and the commit of the
\* row that holds it, every reference is to a row that exists, in the same
\* workspace: "a brand from another tenant must not be attachable by id"
\* (campaigns.py 47), nor a campaign to a conversation (chat.py 77-82).
EverythingAtHome ==
  /\ \A b \in Brand : brand[b] \in open \union {"unborn", "gone"}
  /\ \A c \in Campaign : Live(campaign[c]) =>
       campaign[c].home \in open /\ BelongsTo(campaign[c].home, campaign[c].brand)
  /\ \A v \in Conversation : Live(conversation[v]) =>
       /\ conversation[v].home \in open
       /\ conversation[v].campaign # None =>
            campaign[conversation[v].campaign].home = conversation[v].home

\* A brand takes exactly its campaigns along: the two cascades agree, unless a
\* campaign came to the brand or left it while its deletion was in flight.
\* (One that has left is deleted all the same, and one that has come loses its
\* brand: brands.py 102, models.py 153 and 166.)
TakesItsCampaigns == \A r \in Request :
  LET h == handler[r] IN
  Doing(r, "delete") /\ handler'[r] = Idle /\ brand'[h.brand] = "gone" /\ ~h.disturbed =>
    \A c \in Campaign : Live(campaign[c]) =>
      (campaign'[c].home = "gone" <=> campaign[c].brand = h.brand)

CascadeIsExact == [][TakesItsCampaigns]_vars
=============================================================================
