--------------------------- MODULE CampaignsProofs ---------------------------
(***************************************************************************)
(* Proofs about Campaigns for any sets of workspaces, brands, campaigns,   *)
(* conversations and requests.                                             *)
(***************************************************************************)
EXTENDS Campaigns, TLAPS

(***************************************************************************)
(* What a request has read and is still so at its commit: a workspace is   *)
(* never changed, so a brand that was in the right one is there or gone;   *)
(* the references of an uncommitted conversation cannot be deleted; and    *)
(* an undisturbed deletion has loaded exactly the campaigns of its brand.  *)
(***************************************************************************)
CreateSound(h) == h.brand # None => brand[h.brand] \in {h.home, "gone"}

MoveSound(h) == Live(campaign[h.campaign]) =>
  brand[h.brand] \in {campaign[h.campaign].home, "gone"}

DeleteSound(h) ==
  /\ \A c \in h.loaded : campaign[c].home # "unborn"
  /\ ~h.disturbed => \A c \in Campaign : Live(campaign[c]) =>
       (c \in h.loaded <=> campaign[c].brand = h.brand)

ChatSound(h) ==
  /\ h.home \in open
  /\ h.campaign # None => campaign[h.campaign].home = h.home

Sound(h) ==
  /\ h.op = "create" => CreateSound(h)
  /\ h.op = "move" => MoveSound(h) /\ campaign[h.campaign].home # "unborn"
  /\ h.op = "delete" => DeleteSound(h)
  /\ h.op = "chat" => ChatSound(h)

HandlersSound == \A r \in Request : Sound(handler[r])

BareUnlessLive == \A c \in Campaign : ~Live(campaign[c]) => campaign[c].brand = None

IInv == TypeOK /\ EverythingAtHome /\ BareUnlessLive /\ HandlersSound

Handler == {Idle} \union Creating \union Moving \union Deleting \union Chatting

-----------------------------------------------------------------------------
(* Handlers. *)

\* The operation of a request says what it has read.
LEMMA HandlerIs ==
  ASSUME NEW h \in Handler
  PROVE  /\ h.op = "idle" <=> h = Idle
         /\ h.op = "create" <=> h \in Creating
         /\ h.op = "move" <=> h \in Moving
         /\ h.op = "delete" <=> h \in Deleting
         /\ h.op = "chat" <=> h \in Chatting
         /\ h.op \in {"idle", "create", "move", "delete", "chat"}
  BY DEF Handler, Idle, Creating, Moving, Deleting, Chatting

LEMMA IdleIs == Idle \in Handler /\ Idle.op = "idle" /\ Sound(Idle)
  BY DEF Handler, Idle, Sound

LEMMA Known ==
  ASSUME TypeOK, NEW r \in Request
  PROVE  handler[r] \in Handler
  BY DEF TypeOK, Handler

\* A request goes on to h, everything it and others have read is as it was.
LEMMA HandlerStep ==
  ASSUME IInv, NEW r \in Request, NEW h \in Handler, Sound(h),
         handler' = [handler EXCEPT ![r] = h],
         UNCHANGED <<open, brand, campaign, conversation>>
  PROVE  IInv'
  <1>1. TypeOK'
    BY DEF IInv, TypeOK, Handler
  <1>2. EverythingAtHome'
    BY DEF IInv, EverythingAtHome, Live, BelongsTo
  <1>3. HandlersSound'
    BY DEF IInv, TypeOK, HandlersSound, Sound, CreateSound, MoveSound, DeleteSound,
           ChatSound, Live
  <1>4. BareUnlessLive'
    BY DEF IInv, BareUnlessLive, Live
  <1>5. QED
    BY <1>1, <1>2, <1>3, <1>4 DEF IInv

\* What becomes of the requests when r ends and the campaigns become next.
LEMMA FinishIs ==
  ASSUME TypeOK, NEW r \in Request, NEW next, Finish(r, next)
  PROVE  /\ handler' \in [Request -> Handler]
         /\ \A q \in Request :
              \/ handler'[q] = Idle
              \/ /\ handler'[q] = handler[q]
                 /\ handler[q].op = "delete" => ~Disturbs(next, handler[q].brand)
              \/ /\ handler[q].op = "delete"
                 /\ handler'[q] = [handler[q] EXCEPT !.disturbed = TRUE]
  <1>1. ASSUME NEW q \in Request
        PROVE  \/ handler'[q] = Idle
               \/ /\ handler'[q] = handler[q]
                  /\ handler[q].op = "delete" => ~Disturbs(next, handler[q].brand)
               \/ /\ handler[q].op = "delete"
                  /\ handler'[q] = [handler[q] EXCEPT !.disturbed = TRUE]
    BY DEF Finish, Doing
  <1>2. ASSUME NEW q \in Request PROVE handler'[q] \in Handler
    <2>1. ASSUME handler[q].op = "delete", handler'[q] = [handler[q] EXCEPT !.disturbed = TRUE]
          PROVE  handler'[q] \in Handler
      BY <2>1, Known, HandlerIs DEF Handler, Deleting
    <2>2. QED
      BY <1>1, <2>1, Known, IdleIs
  <1>3. handler' = [q \in Request |-> handler'[q]]
    BY DEF Finish
  <1>4. QED
    BY <1>1, <1>2, <1>3

\* A deletion in flight that r disturbs stays sound, whatever is true of it.
LEMMA DisturbedIsSound ==
  ASSUME IInv, NEW q \in Request, handler[q].op = "delete",
         handler'[q] = [handler[q] EXCEPT !.disturbed = TRUE],
         \A c \in Campaign : campaign'[c].home = "unborn" => campaign[c].home = "unborn"
  PROVE  Sound(handler[q])'
  <1>1. handler[q] \in Deleting /\ DeleteSound(handler[q])
    BY Known, HandlerIs DEF IInv, HandlersSound, Sound
  <1>2. /\ handler'[q].op = "delete" /\ handler'[q].disturbed = TRUE
        /\ handler'[q].loaded = handler[q].loaded /\ handler[q].loaded \subseteq Campaign
    BY <1>1 DEF Deleting
  <1>3. QED
    BY <1>1, <1>2 DEF Sound, DeleteSound

(***************************************************************************)
(* What every step does to rows: they come into being, stay in their       *)
(* workspace, and go.  Nothing that a chat in flight refers to goes.       *)
(***************************************************************************)
RowsAge ==
  /\ \A b \in Brand : \/ brand'[b] = brand[b] \/ brand'[b] = "gone"
                      \/ brand[b] = "unborn" /\ brand'[b] \in Workspace
  /\ \A c \in Campaign : \/ campaign'[c].home = campaign[c].home \/ campaign'[c].home = "gone"
                         \/ campaign[c].home = "unborn" /\ campaign'[c].home \in Workspace
  /\ \A q \in Request, row \in Workspace \union Campaign : Pins(q, row) =>
       /\ row \in open => row \in open'
       /\ row \in Campaign => campaign'[row].home = campaign[row].home

\* What a request has read stays sound while others end.
LEMMA SoundStays ==
  ASSUME IInv, NEW q \in Request, RowsAge, handler'[q] = handler[q],
         handler[q].op = "delete" => ~Disturbs(campaign', handler[q].brand)
  PROVE  Sound(handler[q])'
  <1> DEFINE h == handler[q]
  <1>1. h \in Handler /\ Sound(h)
    BY Known DEF IInv, HandlersSound
  <1>2. CASE h.op = "idle"
    BY <1>1, <1>2 DEF Sound
  <1>3. CASE h.op = "create"
    <2>1. h \in Creating /\ CreateSound(h)
      BY <1>1, <1>3, HandlerIs DEF Sound
    <2>2. h.brand # None => h.brand \in Brand /\ brand'[h.brand] \in {h.home, "gone"}
      BY <2>1, NameAssumption DEF RowsAge, Creating, CreateSound
    <2>3. QED
      BY <1>3, <2>2 DEF Sound, CreateSound
  <1>4. CASE h.op = "move"
    <2>1. h \in Moving /\ MoveSound(h) /\ campaign[h.campaign].home # "unborn"
      BY <1>1, <1>4, HandlerIs DEF Sound
    <2>2. h.campaign \in Campaign /\ h.brand \in Brand
      BY <2>1 DEF Moving
    <2>3. campaign'[h.campaign].home \in {campaign[h.campaign].home, "gone"}
      BY <2>1, <2>2 DEF RowsAge
    <2>4. campaign'[h.campaign].home \in Workspace =>
            brand'[h.brand] \in {campaign'[h.campaign].home, "gone"}
      BY <2>1, <2>2, <2>3, NameAssumption DEF RowsAge, MoveSound, Live
    <2>5. QED
      BY <1>4, <2>1, <2>3, <2>4 DEF Sound, MoveSound, Live
  <1>5. CASE h.op = "delete"
    <2>1. h \in Deleting /\ DeleteSound(h)
      BY <1>1, <1>5, HandlerIs DEF Sound
    <2>2. h.loaded \subseteq Campaign /\ h.brand \in Brand /\ None \notin Brand
      BY <2>1, NameAssumption DEF Deleting
    <2>3. \A c \in h.loaded : campaign'[c].home # "unborn"
      BY <2>1, <2>2, NameAssumption DEF RowsAge, DeleteSound
    <2>4. ASSUME ~h.disturbed, NEW c \in Campaign, campaign'[c].home \in Workspace
          PROVE  c \in h.loaded <=> campaign'[c].brand = h.brand
      <3>1. /\ campaign'[c].brand = h.brand => campaign[c].brand = h.brand
            /\ campaign[c].brand = h.brand => campaign'[c].brand = h.brand
        BY <1>5, <2>4 DEF Disturbs
      <3>2. CASE Live(campaign[c])
        BY <2>1, <2>4, <3>1, <3>2 DEF DeleteSound
      <3>3. CASE ~Live(campaign[c])
        <4>1. campaign[c].home = "unborn" /\ campaign[c].brand = None
          BY <2>4, <3>3, NameAssumption DEF RowsAge, Live, IInv, BareUnlessLive
        <4>2. QED
          BY <2>1, <2>2, <3>1, <4>1 DEF DeleteSound
      <3>4. QED
        BY <3>2, <3>3
    <2>5. QED
      BY <1>5, <2>3, <2>4 DEF Sound, DeleteSound, Live
  <1>6. CASE h.op = "chat"
    <2>1. h \in Chatting /\ ChatSound(h)
      BY <1>1, <1>6, HandlerIs DEF Sound
    <2>2. /\ h.home \in Workspace /\ Pins(q, h.home)
          /\ h.campaign # None => h.campaign \in Campaign /\ Pins(q, h.campaign)
      BY <1>6, <2>1 DEF Chatting, Pins, Doing
    <2>3. QED
      BY <1>6, <2>1, <2>2 DEF RowsAge, Sound, ChatSound
  <1>7. QED
    BY <1>1, <1>2, <1>3, <1>4, <1>5, <1>6, HandlerIs

LEMMA FinishSound ==
  ASSUME IInv, NEW r \in Request, Finish(r, campaign'), RowsAge
  PROVE  handler' \in [Request -> Handler] /\ HandlersSound'
  <1>1. TypeOK
    BY DEF IInv
  <1>2. ASSUME NEW q \in Request PROVE Sound(handler[q])'
    <2>1. CASE handler'[q] = Idle
      BY <2>1, IdleIs DEF Sound, Idle
    <2>2. CASE handler'[q] = handler[q]
                 /\ (handler[q].op = "delete" => ~Disturbs(campaign', handler[q].brand))
      BY <2>2, SoundStays
    <2>3. CASE handler[q].op = "delete"
                 /\ handler'[q] = [handler[q] EXCEPT !.disturbed = TRUE]
      <3>1. \A c \in Campaign : campaign'[c].home = "unborn" => campaign[c].home = "unborn"
        BY NameAssumption DEF RowsAge
      <3>2. QED
        BY <2>3, <3>1, DisturbedIsSound
    <2>4. QED
      BY <1>1, <2>1, <2>2, <2>3, FinishIs
  <1>3. QED
    BY <1>1, <1>2, FinishIs DEF HandlersSound

LEMMA RestSound ==
  ASSUME IInv, RowsAge, \A q \in Request : handler'[q] \in {handler[q], Idle},
         \A b \in Brand : ~Disturbs(campaign', b)
  PROVE  HandlersSound'
  <1>1. ASSUME NEW q \in Request PROVE Sound(handler[q])'
    <2>1. handler[q].op = "delete" => handler[q].brand \in Brand
      BY Known, HandlerIs DEF IInv, Deleting
    <2>2. CASE handler'[q] = Idle
      BY <2>2, IdleIs DEF Sound, Idle
    <2>3. QED
      BY <2>1, <2>2, SoundStays
  <1>2. QED
    BY <1>1 DEF HandlersSound

-----------------------------------------------------------------------------
(* The first steps of requests. *)

LEMMA BeginIInv ==
  ASSUME IInv, NEW r \in Request, NEW h \in Handler, Sound(h), Start(r, h),
         UNCHANGED <<open, brand, campaign, conversation>>
  PROVE  IInv'
  BY HandlerStep DEF Start

LEMMA BeginDeleteBrandIInv ==
  ASSUME IInv, NEW r \in Request, NEW b \in Brand, BeginDeleteBrand(r, b) PROVE IInv'
  <1> DEFINE loaded == {c \in Campaign : Live(campaign[c]) /\ campaign[c].brand = b}
             h == [op |-> "delete", brand |-> b, disturbed |-> FALSE, loaded |-> loaded]
  <1>1. h \in Deleting
    BY DEF Deleting
  <1>2. h.op = "delete" /\ h.brand = b /\ h.loaded = loaded
    OBVIOUS
  <1>3. DeleteSound(h)
    BY <1>2, NameAssumption DEF DeleteSound, Live
  <1>4. h \in Handler /\ Sound(h)
    BY <1>1, <1>2, <1>3 DEF Handler, Sound
  <1>5. Start(r, h) /\ UNCHANGED <<open, brand, campaign, conversation>>
    BY DEF BeginDeleteBrand
  <1> HIDE DEF h
  <1>6. QED
    BY <1>4, <1>5, BeginIInv

LEMMA BeginCreateCampaignIInv ==
  ASSUME IInv, NEW r \in Request, NEW w \in Workspace, NEW b \in Brand \union {None},
         BeginCreateCampaign(r, w, b)
  PROVE  IInv'
  <1> DEFINE h == [op |-> "create", home |-> w, brand |-> b]
  <1>1. h \in Creating /\ CreateSound(h)
    BY DEF Creating, CreateSound, BeginCreateCampaign, BelongsTo
  <1>2. h \in Handler /\ Sound(h)
    BY <1>1 DEF Handler, Sound
  <1>3. Start(r, h) /\ UNCHANGED <<open, brand, campaign, conversation>>
    BY DEF BeginCreateCampaign
  <1> HIDE DEF h
  <1>4. QED
    BY <1>2, <1>3, BeginIInv

LEMMA BeginMoveIInv ==
  ASSUME IInv, NEW r \in Request, NEW c \in Campaign, NEW b \in Brand, BeginMove(r, c, b)
  PROVE  IInv'
  <1> DEFINE h == [op |-> "move", campaign |-> c, brand |-> b]
  <1>1. h \in Moving /\ MoveSound(h) /\ campaign[c].home # "unborn"
    BY NameAssumption DEF Moving, MoveSound, BeginMove, BelongsTo, Live
  <1>2. h \in Handler /\ Sound(h)
    BY <1>1 DEF Handler, Sound
  <1>3. Start(r, h) /\ UNCHANGED <<open, brand, campaign, conversation>>
    BY DEF BeginMove
  <1> HIDE DEF h
  <1>4. QED
    BY <1>2, <1>3, BeginIInv

LEMMA BeginChatIInv ==
  ASSUME IInv, NEW r \in Request, NEW w \in Workspace, NEW c \in Campaign \union {None},
         BeginChat(r, w, c)
  PROVE  IInv'
  <1> DEFINE h == [op |-> "chat", home |-> w, campaign |-> c]
  <1>1. h \in Chatting /\ ChatSound(h)
    BY DEF Chatting, ChatSound, BeginChat
  <1>2. h \in Handler /\ Sound(h)
    BY <1>1 DEF Handler, Sound
  <1>3. Start(r, h) /\ UNCHANGED <<open, brand, campaign, conversation>>
    BY DEF BeginChat
  <1> HIDE DEF h
  <1>4. QED
    BY <1>2, <1>3, BeginIInv

LEMMA FailIInv == ASSUME IInv, NEW r \in Request, Fail(r) PROVE IInv'
  BY IdleIs, HandlerStep DEF Fail

-----------------------------------------------------------------------------
(* The last steps of requests, and those that take one step. *)

LEMMA CreateBrandIInv ==
  ASSUME IInv, NEW w \in Workspace, NEW b \in Brand, CreateBrand(w, b) PROVE IInv'
  <1> USE DEF CreateBrand, IInv
  <1>1. TypeOK'
    BY DEF TypeOK, Home
  <1>2. EverythingAtHome'
    BY NameAssumption DEF TypeOK, EverythingAtHome, Live, BelongsTo
  <1>3. BareUnlessLive'
    BY DEF BareUnlessLive, Live
  <1>4. RowsAge
    BY DEF TypeOK, RowsAge
  <1>5. \A a \in Brand : ~Disturbs(campaign', a)
    BY DEF Disturbs
  <1>6. HandlersSound'
    BY <1>4, <1>5, RestSound
  <1>7. QED
    BY <1>1, <1>2, <1>3, <1>6

LEMMA FinishDeleteBrandIInv ==
  ASSUME IInv, NEW r \in Request, FinishDeleteBrand(r) PROVE IInv'
  <1> DEFINE b == handler[r].brand
             loaded == handler[r].loaded
  <1>1. b \in Brand /\ loaded \subseteq Campaign /\ b # None
    BY Known, HandlerIs, NameAssumption DEF IInv, FinishDeleteBrand, Doing, Deleting
  <1>2. /\ brand' = [brand EXCEPT ![b] = "gone"] /\ open' = open
        /\ Unlink(loaded) /\ Finish(r, campaign')
        /\ \A c \in loaded : ~Pinned(c)
        /\ campaign' = [c \in Campaign |->
             CASE c \in loaded -> [home |-> "gone", brand |-> None]
               [] c \notin loaded /\ campaign[c].brand = b -> [campaign[c] EXCEPT !.brand = None]
               [] OTHER -> campaign[c]]
    BY DEF FinishDeleteBrand, Finish
  <1> HIDE DEF b, loaded
  <1>3. \A c \in Campaign :
          /\ c \in loaded => campaign'[c].home = "gone" /\ campaign'[c].brand = None
          /\ c \notin loaded => /\ campaign'[c].home = campaign[c].home
                               /\ campaign'[c].brand = IF campaign[c].brand = b THEN None
                                                       ELSE campaign[c].brand
    BY <1>2 DEF IInv, TypeOK
  <1>4. campaign' \in [Campaign -> [home: Home, brand: Brand \union {None}]]
    BY <1>2 DEF IInv, TypeOK, Home
  <1>5. conversation' \in [Conversation -> [home: Home, campaign: Campaign \union {None}]]
    BY <1>2 DEF IInv, TypeOK, Unlink
  <1>6. \A v \in Conversation :
          /\ conversation'[v].home = conversation[v].home
          /\ conversation'[v].campaign = IF conversation[v].campaign \in loaded THEN None
                                         ELSE conversation[v].campaign
    BY <1>2 DEF IInv, TypeOK, Unlink
  <1>7. RowsAge
    <2>1. \A a \in Brand : brand'[a] = brand[a] \/ brand'[a] = "gone"
      BY <1>1, <1>2 DEF IInv, TypeOK
    <2>2. \A c \in Campaign : campaign'[c].home = campaign[c].home \/ campaign'[c].home = "gone"
      BY <1>3
    <2>3. ASSUME NEW q \in Request, NEW row \in Campaign, Pins(q, row)
          PROVE  campaign'[row].home = campaign[row].home
      BY <1>2, <1>3, <2>3 DEF Pinned
    <2>4. QED
      BY <1>2, <2>1, <2>2, <2>3 DEF RowsAge
  <1>8. handler' \in [Request -> Handler] /\ HandlersSound'
    BY <1>2, <1>7, FinishSound
  <1>9. TypeOK'
    BY <1>1, <1>2, <1>4, <1>5, <1>8 DEF IInv, TypeOK, Home, Handler
  <1>10. EverythingAtHome'
    <2>1. \A a \in Brand : brand'[a] \in open' \union {"unborn", "gone"}
      BY <1>1, <1>2 DEF IInv, TypeOK, EverythingAtHome
    <2>2. ASSUME NEW c \in Campaign, campaign'[c].home \in Workspace
          PROVE  /\ campaign'[c].home \in open'
                 /\ campaign'[c].brand # None => brand'[campaign'[c].brand] = campaign'[c].home
      <3>1. c \notin loaded /\ Live(campaign[c]) /\ campaign'[c].home = campaign[c].home
        BY <1>3, <2>2, NameAssumption DEF Live
      <3>2. campaign'[c].brand # None => campaign'[c].brand = campaign[c].brand
                                         /\ campaign[c].brand \in Brand \ {b}
        BY <1>3, <3>1 DEF IInv, TypeOK
      <3>3. QED
        BY <1>2, <3>1, <3>2 DEF IInv, TypeOK, EverythingAtHome, BelongsTo
    <2>3. ASSUME NEW v \in Conversation, conversation'[v].home \in Workspace
          PROVE  /\ conversation'[v].home \in open'
                 /\ conversation'[v].campaign # None =>
                      campaign'[conversation'[v].campaign].home = conversation'[v].home
      BY <1>2, <1>3, <1>6, <2>3 DEF IInv, TypeOK, EverythingAtHome, Live
    <2>4. QED
      BY <2>1, <2>2, <2>3 DEF EverythingAtHome, Live, BelongsTo
  <1>11. BareUnlessLive'
    BY <1>3 DEF IInv, BareUnlessLive, Live
  <1>12. QED
    BY <1>8, <1>9, <1>10, <1>11 DEF IInv

LEMMA FinishCreateCampaignIInv ==
  ASSUME IInv, NEW r \in Request, NEW c \in Campaign, FinishCreateCampaign(r, c) PROVE IInv'
  <1> DEFINE h == handler[r]
  <1>1. h \in Creating /\ CreateSound(h)
    BY Known, HandlerIs DEF IInv, HandlersSound, Sound, FinishCreateCampaign, Doing
  <1>2. /\ h.home \in Workspace /\ h.home \in open
        /\ h.brand \in Brand \union {None}
        /\ h.brand # None => brand[h.brand] = h.home
    BY <1>1, NameAssumption DEF Creating, CreateSound, FinishCreateCampaign, BrandExists
  <1>3. /\ campaign[c].home = "unborn" /\ UNCHANGED <<open, brand, conversation>>
        /\ campaign' = [campaign EXCEPT ![c] = [home |-> h.home, brand |-> h.brand]]
        /\ Finish(r, campaign')
    BY DEF FinishCreateCampaign, Finish
  <1> HIDE DEF h
  <1>4. campaign' \in [Campaign -> [home: Home, brand: Brand \union {None}]]
    BY <1>2, <1>3 DEF IInv, TypeOK, Home
  <1>5. /\ campaign'[c].home = h.home /\ campaign'[c].brand = h.brand
        /\ \A d \in Campaign \ {c} : campaign'[d] = campaign[d]
    BY <1>3 DEF IInv, TypeOK
  <1>6. ASSUME NEW q \in Request, NEW d \in Campaign, Pins(q, d)
        PROVE  d # c
    <2>1. handler[q] \in Chatting /\ ChatSound(handler[q])
      BY <1>6, Known, HandlerIs DEF IInv, HandlersSound, Sound, Pins, Doing
    <2>2. d = handler[q].home \/ d = handler[q].campaign
      BY <1>6 DEF Pins
    <2>3. d = handler[q].campaign /\ d # None => campaign[d].home \in Workspace
      BY <2>1 DEF Chatting, ChatSound
    <2>4. QED
      BY <1>3, <2>1, <2>2, <2>3, NameAssumption DEF Chatting
  <1>7. RowsAge
    <2>1. \A d \in Campaign : \/ campaign'[d].home = campaign[d].home
                              \/ campaign[d].home = "unborn" /\ campaign'[d].home \in Workspace
      BY <1>2, <1>3, <1>5
    <2>2. ASSUME NEW q \in Request, NEW d \in Campaign, Pins(q, d)
          PROVE  campaign'[d].home = campaign[d].home
      BY <1>5, <1>6, <2>2
    <2>3. QED
      BY <1>3, <2>1, <2>2 DEF RowsAge
  <1>8. handler' \in [Request -> Handler] /\ HandlersSound'
    BY <1>3, <1>7, FinishSound
  <1>9. TypeOK'
    BY <1>3, <1>4, <1>8 DEF IInv, TypeOK, Handler
  <1>10. EverythingAtHome'
    <2>1. ASSUME NEW d \in Campaign, campaign'[d].home \in Workspace
          PROVE  /\ campaign'[d].home \in open
                 /\ campaign'[d].brand # None => brand[campaign'[d].brand] = campaign'[d].home
      BY <1>2, <1>5, <2>1 DEF IInv, EverythingAtHome, Live, BelongsTo
    <2>2. ASSUME NEW v \in Conversation, conversation[v].home \in Workspace,
                 conversation[v].campaign # None
          PROVE  campaign'[conversation[v].campaign].home = conversation[v].home
      <3>1. /\ conversation[v].campaign \in Campaign
            /\ campaign[conversation[v].campaign].home = conversation[v].home
        BY <2>2 DEF IInv, TypeOK, EverythingAtHome, Live
      <3>2. QED
        BY <1>3, <1>5, <2>2, <3>1, NameAssumption
    <2>3. QED
      BY <1>3, <2>1, <2>2 DEF IInv, EverythingAtHome, Live, BelongsTo
  <1>11. BareUnlessLive'
    BY <1>2, <1>5 DEF IInv, BareUnlessLive, Live
  <1>12. QED
    BY <1>8, <1>9, <1>10, <1>11 DEF IInv

LEMMA FinishMoveIInv ==
  ASSUME IInv, NEW r \in Request, FinishMove(r) PROVE IInv'
  <1> DEFINE c == handler[r].campaign
             b == handler[r].brand
  <1>1. handler[r] \in Moving /\ MoveSound(handler[r])
    BY Known, HandlerIs DEF IInv, HandlersSound, Sound, FinishMove, Doing
  <1>2. /\ c \in Campaign /\ b \in Brand /\ b # None
        /\ campaign[c].home \in Workspace /\ brand[b] = campaign[c].home
    BY <1>1, NameAssumption DEF Moving, MoveSound, FinishMove, BrandExists, Live
  <1>3. /\ campaign' = [campaign EXCEPT ![c].brand = b]
        /\ Finish(r, campaign') /\ UNCHANGED <<open, brand, conversation>>
    BY DEF FinishMove, Finish
  <1> HIDE DEF c, b
  <1>4. campaign' \in [Campaign -> [home: Home, brand: Brand \union {None}]]
    BY <1>2, <1>3 DEF IInv, TypeOK
  <1>5. \A d \in Campaign : /\ campaign'[d].home = campaign[d].home
                           /\ campaign'[d].brand = IF d = c THEN b ELSE campaign[d].brand
    BY <1>2, <1>3 DEF IInv, TypeOK
  <1>6. RowsAge
    BY <1>3, <1>5 DEF RowsAge
  <1>7. handler' \in [Request -> Handler] /\ HandlersSound'
    BY <1>3, <1>6, FinishSound
  <1>8. TypeOK'
    BY <1>3, <1>4, <1>7 DEF IInv, TypeOK, Handler
  <1>9. EverythingAtHome'
    BY <1>2, <1>3, <1>5 DEF IInv, TypeOK, EverythingAtHome, Live, BelongsTo
  <1>10. BareUnlessLive'
    BY <1>2, <1>5 DEF IInv, BareUnlessLive, Live
  <1>11. QED
    BY <1>7, <1>8, <1>9, <1>10 DEF IInv

LEMMA DeleteCampaignIInv ==
  ASSUME IInv, NEW c \in Campaign, DeleteCampaign(c) PROVE IInv'
  <1>1. /\ ~Pinned(c) /\ Unlink({c}) /\ UNCHANGED <<open, brand, handler>>
        /\ campaign' = [campaign EXCEPT ![c] = [home |-> "gone", brand |-> None]]
    BY DEF DeleteCampaign
  <1>2. /\ campaign'[c].home = "gone" /\ campaign'[c].brand = None
        /\ \A d \in Campaign \ {c} : campaign'[d] = campaign[d]
    BY <1>1 DEF IInv, TypeOK
  <1>3. \A v \in Conversation :
          /\ conversation'[v].home = conversation[v].home
          /\ conversation'[v].campaign = IF conversation[v].campaign = c THEN None
                                         ELSE conversation[v].campaign
    BY <1>1 DEF IInv, TypeOK, Unlink
  <1>4. TypeOK'
    <2>1. campaign' \in [Campaign -> [home: Home, brand: Brand \union {None}]]
      BY <1>1 DEF IInv, TypeOK, Home
    <2>2. conversation' \in [Conversation -> [home: Home, campaign: Campaign \union {None}]]
      BY <1>1 DEF IInv, TypeOK, Unlink
    <2>3. QED
      BY <1>1, <2>1, <2>2 DEF IInv, TypeOK
  <1>5. EverythingAtHome'
    BY <1>1, <1>2, <1>3, NameAssumption DEF IInv, TypeOK, EverythingAtHome, Live, BelongsTo
  <1>6. BareUnlessLive'
    BY <1>2 DEF IInv, BareUnlessLive, Live
  <1>7. RowsAge
    BY <1>1, <1>2 DEF RowsAge, Pinned
  <1>8. \A b \in Brand : ~Disturbs(campaign', b)
    BY <1>2, NameAssumption DEF Disturbs
  <1>9. HandlersSound'
    BY <1>1, <1>7, <1>8, RestSound
  <1>10. QED
    BY <1>4, <1>5, <1>6, <1>9 DEF IInv

LEMMA FinishChatIInv ==
  ASSUME IInv, NEW r \in Request, NEW v \in Conversation, FinishChat(r, v) PROVE IInv'
  <1>1. handler[r] \in Chatting /\ ChatSound(handler[r])
    BY Known, HandlerIs DEF IInv, HandlersSound, Sound, FinishChat, Doing
  <1>2. /\ UNCHANGED <<open, brand, campaign>>
        /\ handler' = [handler EXCEPT ![r] = Idle]
        /\ conversation' = [conversation EXCEPT
              ![v] = [home |-> handler[r].home, campaign |-> handler[r].campaign]]
    BY DEF FinishChat
  <1>3. TypeOK'
    <2>1. handler' \in [Request -> Handler]
      BY <1>2, IdleIs DEF IInv, TypeOK, Handler
    <2>2. conversation' \in [Conversation -> [home: Home, campaign: Campaign \union {None}]]
      BY <1>1, <1>2 DEF IInv, TypeOK, Home, Chatting
    <2>3. QED
      BY <1>2, <2>1, <2>2 DEF IInv, TypeOK, Handler
  <1>4. EverythingAtHome'
    BY <1>1, <1>2 DEF IInv, TypeOK, EverythingAtHome, Live, BelongsTo, ChatSound
  <1>5. BareUnlessLive'
    BY <1>2 DEF IInv, BareUnlessLive, Live
  <1>6. RowsAge /\ \A b \in Brand : ~Disturbs(campaign', b)
    BY <1>2 DEF RowsAge, Disturbs
  <1>7. HandlersSound'
    BY <1>2, <1>6, RestSound DEF IInv, TypeOK
  <1>8. QED
    BY <1>3, <1>4, <1>5, <1>7 DEF IInv

LEMMA DeleteConversationIInv ==
  ASSUME IInv, NEW v \in Conversation, DeleteConversation(v) PROVE IInv'
  <1> USE DEF DeleteConversation
  <1>1. TypeOK'
    BY DEF IInv, TypeOK, Home
  <1>2. EverythingAtHome'
    BY NameAssumption DEF IInv, TypeOK, EverythingAtHome, Live, BelongsTo
  <1>3. BareUnlessLive'
    BY DEF IInv, BareUnlessLive, Live
  <1>4. RowsAge /\ \A b \in Brand : ~Disturbs(campaign', b)
    BY DEF RowsAge, Disturbs
  <1>5. HandlersSound'
    BY <1>4, RestSound
  <1>6. QED
    BY <1>1, <1>2, <1>3, <1>5 DEF IInv

LEMMA DeleteWorkspaceIInv ==
  ASSUME IInv, NEW w \in Workspace, DeleteWorkspace(w) PROVE IInv'
  <1>1. /\ ~Pinned(w) /\ open' = open \ {w} /\ handler' = handler
        /\ brand' = [b \in Brand |-> IF brand[b] = w THEN "gone" ELSE brand[b]]
        /\ campaign' = [c \in Campaign |->
             IF campaign[c].home = w THEN [home |-> "gone", brand |-> None] ELSE campaign[c]]
        /\ conversation' = [v \in Conversation |->
             IF conversation[v].home = w THEN [home |-> "gone", campaign |-> None]
             ELSE conversation[v]]
    BY DEF DeleteWorkspace
  <1>2. \A c \in Campaign :
          /\ campaign[c].home = w => campaign'[c].home = "gone" /\ campaign'[c].brand = None
          /\ campaign[c].home # w => campaign'[c] = campaign[c]
    BY <1>1
  <1>3. \A v \in Conversation :
          /\ conversation[v].home = w => conversation'[v].home = "gone"
          /\ conversation[v].home # w => conversation'[v] = conversation[v]
    BY <1>1
  <1>4. TypeOK'
    <2>1. brand' \in [Brand -> Home]
      BY <1>1 DEF IInv, TypeOK, Home
    <2>2. campaign' \in [Campaign -> [home: Home, brand: Brand \union {None}]]
      BY <1>1 DEF IInv, TypeOK, Home
    <2>3. conversation' \in [Conversation -> [home: Home, campaign: Campaign \union {None}]]
      BY <1>1 DEF IInv, TypeOK, Home
    <2>4. QED
      BY <1>1, <2>1, <2>2, <2>3 DEF IInv, TypeOK
  <1>5. EverythingAtHome'
    <2>1. \A b \in Brand : brand'[b] \in open' \union {"unborn", "gone"}
      BY <1>1 DEF IInv, EverythingAtHome
    <2>2. ASSUME NEW c \in Campaign, campaign'[c].home \in Workspace
          PROVE  /\ campaign'[c].home \in open'
                 /\ campaign'[c].brand # None => brand'[campaign'[c].brand] = campaign'[c].home
      <3>1. campaign[c].home # w /\ campaign'[c] = campaign[c]
        BY <1>2, <2>2, NameAssumption
      <3>2. campaign[c].brand # None => campaign[c].brand \in Brand
        BY DEF IInv, TypeOK
      <3>3. QED
        BY <1>1, <2>2, <3>1, <3>2 DEF IInv, EverythingAtHome, Live, BelongsTo
    <2>3. ASSUME NEW v \in Conversation, conversation'[v].home \in Workspace
          PROVE  /\ conversation'[v].home \in open'
                 /\ conversation'[v].campaign # None =>
                      campaign'[conversation'[v].campaign].home = conversation'[v].home
      <3>1. conversation[v].home # w /\ conversation'[v] = conversation[v]
        BY <1>3, <2>3, NameAssumption
      <3>2. conversation[v].campaign # None => conversation[v].campaign \in Campaign
        BY DEF IInv, TypeOK
      <3>3. QED
        BY <1>1, <1>2, <2>3, <3>1, <3>2 DEF IInv, EverythingAtHome, Live
    <2>4. QED
      BY <2>1, <2>2, <2>3 DEF EverythingAtHome, Live, BelongsTo
  <1>6. BareUnlessLive'
    BY <1>2 DEF IInv, BareUnlessLive, Live
  <1>7. RowsAge
    <2>1. \A b \in Brand : brand'[b] = brand[b] \/ brand'[b] = "gone"
      BY <1>1
    <2>2. \A c \in Campaign : campaign'[c].home = campaign[c].home \/ campaign'[c].home = "gone"
      BY <1>2
    <2>3. ASSUME NEW q \in Request, NEW row \in Workspace \union Campaign, Pins(q, row)
          PROVE  /\ row \in open => row \in open'
                 /\ row \in Campaign => campaign'[row].home = campaign[row].home
      <3>1. handler[q] \in Chatting /\ ChatSound(handler[q])
        BY <2>3, Known, HandlerIs DEF IInv, HandlersSound, Sound, Pins, Doing
      <3>2. w # handler[q].home /\ w # row
        BY <1>1, <2>3 DEF Pinned, Pins
      <3>3. ASSUME row \in Campaign
            PROVE  campaign[row].home = handler[q].home
        <4>1. row # handler[q].home
          BY <3>1, <3>3, NameAssumption DEF Chatting
        <4>2. row = handler[q].campaign /\ row # None
          BY <2>3, <3>3, <4>1, NameAssumption DEF Pins
        <4>3. QED
          BY <3>1, <4>2 DEF ChatSound
      <3>4. QED
        BY <1>1, <1>2, <3>2, <3>3
    <2>4. QED
      BY <2>1, <2>2, <2>3 DEF RowsAge
  <1>8. \A b \in Brand : ~Disturbs(campaign', b)
    BY <1>2, NameAssumption DEF Disturbs
  <1>9. HandlersSound'
    BY <1>1, <1>7, <1>8, RestSound
  <1>10. QED
    BY <1>4, <1>5, <1>6, <1>9 DEF IInv

-----------------------------------------------------------------------------
(* The invariant. *)

LEMMA InitIInv == Init => IInv
  <1> SUFFICES ASSUME Init PROVE IInv
    OBVIOUS
  <1>1. TypeOK
    BY DEF Init, TypeOK, Home
  <1>2. EverythingAtHome /\ BareUnlessLive
    BY NameAssumption DEF Init, EverythingAtHome, BareUnlessLive, Live
  <1>3. HandlersSound
    BY IdleIs DEF Init, HandlersSound
  <1>4. QED
    BY <1>1, <1>2, <1>3 DEF IInv

LEMMA StutterIInv == ASSUME IInv, UNCHANGED vars PROVE IInv'
  BY DEF vars, IInv, TypeOK, EverythingAtHome, BareUnlessLive, Live, BelongsTo,
         HandlersSound, Sound, CreateSound, MoveSound, DeleteSound, ChatSound

LEMMA NextIInv == IInv /\ [Next]_vars => IInv'
  <1> SUFFICES ASSUME IInv, [Next]_vars PROVE IInv'
    OBVIOUS
  <1>1. CASE UNCHANGED vars
    BY <1>1, StutterIInv
  <1>2. ASSUME NEW r \in Request,
               \/ \E b \in Brand : BeginDeleteBrand(r, b)
               \/ \E w \in Workspace, b \in Brand \union {None} : BeginCreateCampaign(r, w, b)
               \/ \E c \in Campaign, b \in Brand : BeginMove(r, c, b)
               \/ \E w \in Workspace, c \in Campaign \union {None} : BeginChat(r, w, c)
        PROVE  IInv'
    BY <1>2, BeginDeleteBrandIInv, BeginCreateCampaignIInv, BeginMoveIInv, BeginChatIInv
  <1>3. ASSUME NEW r \in Request,
               \/ FinishDeleteBrand(r) \/ FinishMove(r) \/ Fail(r)
               \/ \E c \in Campaign : FinishCreateCampaign(r, c)
               \/ \E v \in Conversation : FinishChat(r, v)
        PROVE  IInv'
    BY <1>3, FinishDeleteBrandIInv, FinishCreateCampaignIInv, FinishMoveIInv, FinishChatIInv,
       FailIInv
  <1>4. ASSUME \/ \E w \in Workspace : DeleteWorkspace(w) \/ \E b \in Brand : CreateBrand(w, b)
               \/ \E c \in Campaign : DeleteCampaign(c)
               \/ \E v \in Conversation : DeleteConversation(v)
        PROVE  IInv'
    BY <1>4, DeleteWorkspaceIInv, CreateBrandIInv, DeleteCampaignIInv, DeleteConversationIInv
  <1>5. QED
    BY <1>1, <1>2, <1>3, <1>4 DEF Next

LEMMA Invariant == Spec => []IInv
  BY InitIInv, NextIInv, PTL DEF Spec

\* Type correctness.
THEOREM TypeCorrect == Spec => []TypeOK
  <1>1. IInv => TypeOK
    BY DEF IInv
  <1>2. QED
    BY <1>1, Invariant, PTL

\* However creations, moves, chats and deletions overlap, no brand, campaign or
\* conversation refers to a row that is gone or belongs to another workspace
\* (_validate_brand, _build_system_prompt and the foreign keys).
THEOREM ReferencesStayAtHome == Spec => []EverythingAtHome
  <1>1. IInv => EverythingAtHome
    BY DEF IInv
  <1>2. QED
    BY <1>1, Invariant, PTL

-----------------------------------------------------------------------------
(* The deletion of a brand. *)

\* Only its commit and its failure end a deletion.
LEMMA DeletionEnds ==
  ASSUME TypeOK, Next, NEW r \in Request, handler[r].op = "delete", handler'[r] = Idle
  PROVE  FinishDeleteBrand(r) \/ Fail(r)
  <1>1. Idle.op # "delete" /\ handler \in [Request -> Handler]
    BY DEF Idle, TypeOK, Handler
  <1>2. ASSUME NEW q \in Request, NEW next, Finish(q, next) PROVE q = r
    <2>1. handler[r] \in Deleting
      BY Known, HandlerIs
    <2>2. [handler[r] EXCEPT !.disturbed = TRUE].op = "delete"
      BY <2>1 DEF Deleting
    <2>3. ASSUME q # r
          PROVE  handler'[r] \in {handler[r], [handler[r] EXCEPT !.disturbed = TRUE]}
      BY <1>2, <2>3 DEF Finish
    <2>4. QED
      BY <1>1, <2>2, <2>3
  <1>3. ASSUME NEW q \in Request, NEW h, Start(q, h) PROVE FALSE
    BY <1>1, <1>3 DEF Start
  <1>4. QED
    BY <1>1, <1>2, <1>3 DEF Next, BeginDeleteBrand, BeginCreateCampaign, BeginMove, BeginChat,
       FinishDeleteBrand, FinishCreateCampaign, FinishMove, FinishChat, Fail, DeleteWorkspace,
       CreateBrand, DeleteCampaign, DeleteConversation, Doing

\* Deleting a brand deletes its campaigns and no others, unless one came to it
\* or left it in the meantime (delete_brand).
THEOREM CascadeIsExactHolds == Spec => CascadeIsExact
  <1>1. ASSUME IInv, [Next]_vars PROVE [TakesItsCampaigns]_vars
    <2> SUFFICES ASSUME Next, NEW r \in Request, handler[r].op = "delete", handler'[r] = Idle,
                        brand'[handler[r].brand] = "gone", ~handler[r].disturbed,
                        NEW c \in Campaign, Live(campaign[c])
                 PROVE  campaign'[c].home = "gone" <=> campaign[c].brand = handler[r].brand
      BY <1>1 DEF TakesItsCampaigns, Doing
    <2> DEFINE b == handler[r].brand
    <2>1. handler[r] \in Deleting /\ DeleteSound(handler[r])
      BY <1>1, Known, HandlerIs DEF IInv, HandlersSound, Sound
    <2>2. campaign[c].home # "gone"
      BY NameAssumption DEF Live
    <2>3. CASE FinishDeleteBrand(r)
      <3>1. c \in handler[r].loaded <=> campaign[c].brand = b
        BY <2>1 DEF DeleteSound
      <3>2. /\ c \in handler[r].loaded => campaign'[c].home = "gone"
            /\ c \notin handler[r].loaded => campaign'[c].home = campaign[c].home
        BY <1>1, <2>3 DEF FinishDeleteBrand, Finish, IInv, TypeOK
      <3>3. QED
        BY <2>2, <3>1, <3>2
    <2>4. CASE Fail(r)
      <3>1. brand[b] = "gone" /\ campaign'[c] = campaign[c]
        BY <2>4 DEF Fail
      <3>2. campaign[c].brand # b
        BY <1>1, <2>1, <3>1, NameAssumption DEF IInv, EverythingAtHome, BelongsTo, Live, Deleting
      <3>3. QED
        BY <2>2, <3>1, <3>2
    <2>5. QED
      BY <1>1, <2>3, <2>4, DeletionEnds DEF IInv
  <1>2. QED
    BY <1>1, Invariant, PTL DEF Spec, CascadeIsExact
=============================================================================
