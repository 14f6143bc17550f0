# TLA+ models of Social AI

Social AI is a multi-tenant chat product: a FastAPI service
(`services/identity_service`, `packages/shared_core`) over PostgreSQL and a
Next.js client (`apps/web`). The service runs as several worker processes; all
its state is in the database, except for a rate limiter and a key pair per
process. A request is one coroutine in one worker with one transaction, READ
COMMITTED, so any two requests interleave at every `await`. This directory
models the parts of the service whose correctness depends on those
interleavings, checks the models with TLC, and proves with TLAPS every safety
property the runs check, for every value of the constants.

    tlc -config RefreshTokens.cfg RefreshTokensMC     # one run
    tlapm RefreshTokensProofs.tla                      # one module's proofs

## 1. Inventory

| Component (source) | State | Operations | Interacts with |
|---|---|---|---|
| Sessions (`routers/auth.py`, `routers/account.py`) | `refresh_tokens`, `users.is_active`, `users.hashed_password` | login, register, refresh, replay detection, logout, password change/reset | access tokens, web client |
| Emailed links (`routers/account.py`, `routers/auth.py`, `email/sender.py`) | `verification_tokens`, `users.email_verified_at` | register, verify/request, password/forgot, verify/confirm, password/reset | mail server, sessions |
| Conversations (`routers/chat.py`) | `conversations`, `messages` | chat, chat/stream, list, get, delete | model provider, workspaces |
| Request transactions (`routing.py`, `db/base.py`) | one session per request, the connection pool | begin, commit before the answer, roll back on error | every handler |
| Workspaces and members (`routers/workspaces.py`, `user_provisioning.py`, `security/rbac.py`, `auth/dependencies.py`) | `workspaces`, `memberships` | create, update, delete, add/change/remove member | every workspace-scoped handler |
| Brands and campaigns (`routers/brands.py`, `routers/campaigns.py`) | `brands`, `campaigns` | create, update (a campaign may move to another brand), delete | conversations, the system prompt of chat |
| Rate limiter (`middleware/core.py`) | a deque of times per client and bucket, per process | dispatch | every request |
| Model client (`ai/*`) | none | complete (with retries), stream | provider, chat |
| Access tokens, keys (`auth/tokens.py`) | key file, key pair per process | load or create keys, sign, decode | every authenticated handler |
| Web client session (`apps/web/lib`) | `localStorage` tokens, one refresh promise per tab | request, refresh, logout | sessions |
| Configuration (`config.py`), admin, health, logging, schemas, pages, migrations | none that changes | | |

What is hard, component by component, and what makes it correct:

* **Sessions.** Reads are not repeated at the commit. `refresh` checks a row and
  later overwrites it by primary key; the bulk revocations of logout, replay
  detection and password changes miss rows inserted meanwhile; replay detection
  answers 401, which would roll its own revocation back; an account may be
  deactivated, or a token expire, between the check and the commit. Correct: a
  usable token is only ever exchanged for another of its family, a family belongs
  to one login, revocation is permanent, a closed session is dead, one usable token
  per session, no session outlives its password; where overlapping requests break
  one of these, only what was already in flight does.
* **Links.** The mail leaves before the commit, the claim commits before the
  effect, the mail server may fail, the worker may be lost in between, and two
  workers may redeem one link at a time. Correct: redeemed at most once, for the
  right user and purpose only; an account comes with its link, and a failed mail
  costs no link delivered before.
* **Conversations.** The last sequence number is read before a call to the model
  that lasts up to minutes; the stream commits in two transactions and may break
  off anywhere; the conversation may be deleted meanwhile. Correct: no message
  outside its workspace, replies after their prompts, unique numbers, what is
  stored is what was reported: the whole reply if done, a truncated one if not.
* **Transactions.** The answer must follow the commit; an error discards
  everything; a chat request keeps its connection while it waits for the model,
  and a stream needs a second one for its reply. Correct: every path returns its
  connection, and a request that waits for one is answered in the end.
* **Workspaces.** Check-then-act on counts ("your only workspace"), roles read
  and then overwritten, free slugs.
* **Brands and campaigns.** A reference is checked by one statement and written by
  a later one; a brand's deletion reads its campaigns when it is asked for and
  deletes these at its commit, while the foreign key detaches the others; a
  conversation names its campaign before the campaign is looked up. Correct: every
  reference is to a row of the same workspace, and a brand takes exactly its own
  campaigns along.
* **Rate limiter.** The 60 s boundary, limits of zero, unbounded keys; old times
  are dropped only when their key is asked for. Correct: admitted if and only if
  the window that ends now has room.
* **Model client.** Which failures are retried and what the last one becomes.
  Correct: the error says what was heard, and only permanent failures or the last
  attempt end the loop.
* **Configuration and keys.** The guard of production, `get_keys` and
  `get_llm_client` ask different questions about the same settings; workers that
  start together create one key file, and its creator may be lost before it has
  written it. Correct: one key pair, real keys and a real provider in production.
* **Web client.** Single-flight refresh within a tab only, lost answers, logout
  racing a refresh, all of which the server sees as replays.

`PROJECT.json` lists the components with their status and every hazard at its
line, with the properties that cover it. Some hazards the code does not prevent:
two refreshes of one token, a deactivation or a role change during a request, two
deletions at once, a campaign moved while its brand is deleted, a key file that is
never written, a full pool. Their properties say how far the damage goes and that
nothing else causes it, and the note of the hazard names the part that is left.

## 2. Plan

1. `RefreshTokens` with `SessionChain` as the promise it implements, and
   `RefreshTokensProofs` (done).
2. `EmailLinks` and `Conversations` with `EmailLinksProofs` and
   `ConversationsProofs` (done).
3. `Rbac`, `WorkspaceMembers` and `WorkspaceMembersProofs` (done, without
   renaming and slugs).
4. `WebSession`, composed with `SessionChain` as the server it talks to, and
   `WebSessionProofs` (done).
5. `Settings` and `Startup` with `StartupProofs` (done).
6. `RateLimiter` and `ModelClient`, composed with the connection pool in
   `ChatService`; `ChatServiceProofs` (done).
7. `Campaigns` with `CampaignsProofs` (done).
8. Left: `AccountRecovery`, `EmailLinks` and `RefreshTokens` composed (a reset
   link redeemed against sessions in flight); free slugs and renaming in
   `WorkspaceMembers`.

Theorems: type correctness, each safety property of a passing run and the
refinement of `SessionChain` are proved. What could still be stated and proved is
an abstract specification of the single-use link, and of a conversation as a
sequence to which turns append, with `EmailLinks` and `Conversations` (of turns
that do not overlap) as implementations; and how little of `SerialSpec` the
promises of `SessionChain` need.

## 3. Modules

Common to all modules: a **handler** is split where other requests can run in
between and the outcome can differ. What it reads in one go, with the checks and
early returns on it, is a first step (`Begin...`) that stores what it read in
the request's record; its writes become visible in one last step (`Finish...`,
`Commit...`), because CommitRoute commits once, after the handler and before the
answer. A handler that answers 4xx at its first step changes nothing and is not
a step. `Fail` stands for everything that ends a request before its commit: a
lost worker or connection, an exception, a failing commit; `get_session` rolls
back. A bulk `UPDATE ... WHERE` together with the commit after it is one step:
until the commit its rows are locked against other writers, and a reader that
still sees the old rows behaves like one that read just before the `UPDATE`.
Rows inserted by transactions that commit after the statement has started are
missed by it, in the database (READ COMMITTED, one snapshot per statement) as in
the models, where they are inserted by a later step.

### RefreshTokens, SessionChain

`row` is the `refresh_tokens` table by token value; `revoked` is `revoked_at IS
NOT NULL`, `expired` is `expires_at <= now`. The field `epoch` of a row (which
password its login presented) and the variable `closed` (sessions a response has
reported as ended) are history that only properties read. `active` and `epoch`
are the two columns of `users` that matter. Registration mints its first refresh
token as a login does. Reset and change of a password write the same rows and
share `FinishPassword`; the claim that protects a reset is in `EmailLinks`.

`Spec` lets every request overlap every other. `SerialSpec` restricts the
*start* of requests: no two requests of one user are in flight together (those
of different users still interleave). The code does not enforce it; the web
client does for refreshes within a tab, and a user who waits for answers does.
It exists to say exactly which promises rest on it: `OneUsableToken`,
`ClosedSessionsAreDead` and `NoSessionOutlivesItsPassword` hold under
`SerialSpec` and each fails under `Spec` (two refreshes of one token; a logout
or a password reset during a refresh). The last one is kept as the run
`refresh_tokens_password`.

What overlap leaves intact is said of `Spec`. `TokensAreExchanged`: a session gains
a usable token only in exchange for one that a refresh has read; two of them are
left only if the one exchanged had been revoked in the meantime. `OverIsFinal`: a
session without usable token, be it revoked or expired, and without refresh in
flight stays so, and whatever closes a session brings it there in the same step,
refreshes in flight excepted. `BarredStaysOut` says the same of a deactivated
account. The losing side of each race is thus a request that was in flight.

`SessionChain` is the docstring of `auth.py` as a specification without
requests: `Open`, `Rotate` and `Close` on sessions with one usable token.
`Chain` instantiates it with the unrevoked tokens of each family as `live`;
`ImplementsSessionChain` is the refinement.

### EmailLinks

`row` is `verification_tokens`; a link in `mailbox` has been delivered, whether
or not it was or will be stored. A minting request passes `send` (the outstanding
rows are marked, the mail is about to go) and `commit`; a redeeming one `claim`,
`claimed` (the claim is durable) and `effect` (the user was read and is active).
`redeemed` counts effects and is history. `EveryEffectHasItsLink` speaks of the two
things that are written apart from their link, the effects, and of the one that is
written with it, the account. A link is invalidated only by a newer one that has
been delivered (`Replaces`): the mail leaves first, and if it does not, the
transaction that would have invalidated the older links is rolled back. `MailFails` follows the code: the SMTP
sender raises; `register` logs and goes on, the other two answer 500 and roll
back (which differs from `email/sender.py` line 10, "Callers get no exception").
Waiting for row locks is left out: it only removes interleavings.

### Conversations

`message` is the set of rows; a message keeps the turn that wrote it, its number
and whether its text is the whole reply. A turn is `waiting` (`chat`, until the
model answers), or `flushed` and `streaming` (`chat_stream` before and after the
commit of the prompt). The `finally` block of the stream is `Persist`; it runs
when the stream ends (`done`), or raises or is closed (`failed`), and `Abort` covers
the case that it does not get to its commit (`ended`). A turn whose commit has
succeeded counts as `done` also if the client has left before the event reached it. `Delete` removes the messages and the conversation;
an insertion afterwards fails on the foreign key, which is why `Insert` requires
the conversation. `crowded` records the conversations in which two turns were
ever in flight together. The content given to the model is left out: no property
depends on it.

### Rbac, WorkspaceMembers

`Rbac` is `security/rbac.py`: ranks and permissions. A request of
`WorkspaceMembers` is `authorised` once the dependency has read the caller's role
and found the permission in it, and `checked` once the handler has read the rows
it is about and passed its own checks; its commit is the third step. `role` is
the `memberships` table. Writes go by primary key, so what matters at the commit
is what became of the row that was read: `row` of a request says whether it is
the same, changed or gone. A role equal to the one read is not written; updating
a row that is gone fails, deleting it does not. A membership that is removed and granted anew is
another row: `RankIsRespected` says that a request about the old one leaves it
alone. `CommitAdd` relies on the unique
constraint and the foreign key, `CommitDelete` on the cascade. Reads are taken to
be of the database: the session's identity map is weak, and nothing keeps the
membership that the authorisation loaded. `Elsewhere` are users who have an
account and another workspace outside the model, so that a run needs no
workspace per user. `grantor` and `bereft` are history. A caller with a stale
role is part of the model: what a request may do is decided by the role it read.

### WebSession

The composition of the client with the server. The server is the abstract
`SessionChain` (its `Open`, `Rotate` and `Close` are conjuncts of `Admit`,
`Rotate`, `Refuse` and `Dismiss`), one atomic step per request: overlapping
requests at the server are the subject of `RefreshTokens`, which implements
`SessionChain` when they do not overlap. Between the server's step and the
arrival of its answer anything else may happen, and every request or answer may
be lost. `store` is the pair in `localStorage`, which all tabs share; `promise`
is `refreshInFlight` of each tab, `settled` from the moment the refresh is
answered until `setTimeout` clears it. Script runs to its next `await` in one
step, and the callers that await the refresh all go on in the step in which it
settles. Pairs are numbered in the order of minting, and access tokens expire in
this order because they live equally long. `kind = "load"` is the check of
`useAuth`, which clears the pair on any error; `"call"` is every other call.
`doubtful`, `replayed` and `signedOut` are history. That two tabs can sign each
other out is in `NoSelfReplay` as an exception: the comment of `api.ts` (lines
4-8) speaks of every concurrent 401, and the promise is one per tab.

### Settings, Startup

`Settings` is the guard of `config.py` as a predicate on a record of what the
guard tells apart, and the two choices made from the same settings elsewhere:
`KeysConfigured` (`get_keys`) and `Provider` (`get_llm_client`). Every
environment but production behaves alike and is "development".

`Startup` is a deployment: each process takes its settings from its environment when
it starts (`Boot`) and keeps them (`get_settings` is cached), loads its keys at the
first request that needs them, and may `Die` at any time and start again with other
settings, so that processes of production and development, with and without keys,
run side by side on one key file as in a rolling deployment. Settings that the guard
refuses raise, and there is no process (`Accepted`). `_load_or_create_dev_keys` is split at each call of the operating system,
because the processes share nothing else: `path.exists()`, reading the file,
`os.open` with `O_EXCL`, and writing what was opened. A process that cannot
create the file (a read-only directory) uses its pair alone; `lone` remembers
that. Reading a file that another process has created and not yet written finds
it empty, which the code calls unreadable: it generates a pair, fails to create
the file, and starts again. If nobody is going to write, this ends in
`RecursionError` (`GiveUp`). A pair has the name of the process that generated
it; that a restarted process generates a new one under the same name makes
`WorkersAgree` no weaker, since `Die` forgets the pair in memory and the file is
written once.

### RateLimiter, ModelClient, ChatService

`RateLimiter` is the middleware of one process. `hits` keeps ages in place of
times, so that `Tick` is the only trace of the clock; an age beyond the window is
not counted further. `Admit`, `Refuse` and `Crash` are the ends of `dispatch`
before the request goes on; all three drop what has left the window from the left
of the deque, as the loop does. `recent` is history: the same log with everything
dropped in time, which is what the limit is about. What does not reach the window at
all (`Bypasses`: the limiter is disabled, the method is OPTIONS, the path exempt) is in
`ChatService`, which has the kinds of requests. An OPTIONS request is answered without
a handler (405): it uses no connection.

`ModelClient` is `SakanaClient` with the classification in `errors.py`. An answer
is what httpx returned or raised, reduced to what the code tells apart; the
provider may answer anything at any attempt. `call` has the stage of each
request's call, the attempt, and what was heard, which is history. `stream` has
one attempt, and its caller treats all its failures alike, so its answers are
left out: it opens or fails, delivers text, and closes or fails.

`ChatService` composes both with the pool of connections. A request passes the
limiter (`Arrive`), waits for a connection (`queued`), and is `working` from its
first query on, which authenticates it, until its transaction ends. `asking`
keeps the connection; `streaming` does not; `requeued` and `storing` are the
`finally` block of the stream with its own transaction. `CheckoutFails` is the
pool's timeout of 30 s, an error of that request alone. `Disconnect` closes the
generator; the `finally` block may then be cancelled at its first `await`.
What the messages are is the subject of `Conversations`. A request that has come
to its end (or to 429, or to a 500 of the limiter) may be made again, as another
one of the same name.

### Campaigns

The rows that refer to each other: `brand`, `campaign` and `conversation` have the
workspace of each row, or that it is "unborn" or "gone", and its reference; `open`
are the workspaces. A request that only writes what it names is one step
(`CreateBrand`, `DeleteCampaign`, `DeleteConversation`, `DeleteWorkspace`). The
others keep in `handler` what they have read. `BeginDeleteBrand` loads the brand's
campaigns, since the relationship is `cascade="all, delete-orphan"` and not
`passive_deletes`; `FinishDeleteBrand` deletes what was loaded and lets ON DELETE
SET NULL detach the rest. `BeginCreateCampaign` and `BeginMove` are
`_validate_brand`, and at the commit only the foreign key (`BrandExists`) is asked
again. `BeginChat` is a conversation that is inserted and not committed: the
database then holds a share lock on its workspace and its campaign, and whoever
deletes one of them waits (`Pinned`) until the model has answered or the stream
begins. An update that changes no column writes nothing, and one of a row that is
gone fails. `disturbed` is history: a campaign came to the brand, or left it, while
its deletion was in flight. Columns that nothing refers to are left out.

### MC modules

`RefreshTokensMC`, `EmailLinksMC`, `ConversationsMC`, `WorkspaceMembersMC` and
`CampaignsMC` add symmetry sets: all sets of model values are interchangeable
there, and no property compares them other than for equality. `StartupMC` and
`ChatServiceMC` define the
settings, answers, limits and kinds of requests of their runs, without symmetry;
the runs of `WebSession` need no module of their own.

## 4. Runs

| Run | Bounds | Shows |
|---|---|---|
| `refresh_tokens` | 2 users, 3 tokens, 2 families, 2 requests, 1 password change per user | tokens are exchanged, revocation is permanent, closed and expired sessions and deactivated accounts get nothing that was not in flight |
| `refresh_tokens_serial` | the same with 4 tokens | the documented promises, and the refinement, when a user's requests do not overlap |
| `refresh_tokens_password` | 1 user | violated: a refresh read before a reset and committed after it leaves a usable token of the old password |
| `email_links` | 2 users, 3 links, 2 requests, 2 resets per user | single use, right user and purpose, an account with its link, no link lost to a failed mail |
| `conversations` | 2 workspaces, 2 conversations, 3 turns | tenancy, order, what is stored is what was told, uniqueness without overlap |
| `conversations_overlap` | 1 conversation, 2 turns | violated: "Monotonic per conversation" (`models.py` 210) |
| `workspace_members` | 2 users, 1 of them a superuser with a further workspace, 2 workspaces, 3 roles, 2 requests | the owner stays owner, grants come from above, ranks are respected, who deletes one workspace at a time keeps one |
| `web_session` | 2 tabs, 2 calls in flight, 2 pairs minted | the stored token is the usable one; the client causes no replay by itself within a tab; every call ends |
| `web_session_logout` | 1 tab, 2 calls in flight, 2 pairs minted | violated: "Local state is cleared even if the server call fails, ..." (`api.ts` 260) |
| `startup` | 3 processes, each start with any accepted setting of production or one of four of development that differ in the keys | one key pair whatever starts, fails and restarts with other settings; production is real; loading ends |
| `chat_service` | a chat and a stream of one client, a third request (read, login, health check, OPTIONS) of another, limiter on, 1 connection, 2 attempts, 10 answers, a window of 1 tick, limits 0, 1 and 2 | the limiter is exact, connections return, errors are explained, every request ends |
| `campaigns` | 2 workspaces, 2 brands, 2 campaigns, 1 conversation, 3 requests | references stay in their workspace; a brand takes exactly its campaigns along |

Why the bounds suffice for what happens: two requests make every pairwise race;
three tokens make a rotation and a replay, or two sessions of one user and one
of another; two families let a second login or a second user exist; four tokens
in the serial run give a chain of two rotations beside another session. Three
links hold an outstanding one, its successor and one of the other purpose or
user. Three turns are two that overlap and one that follows. `MaxEpoch` bounds
password changes; token, link and turn supplies bound the length of runs.
`CHECK_DEADLOCK FALSE` is set where the system of the bound really ends: all
turns have run, every link is used, expired and its requests answered, or all
workspaces of the bound have been created and deleted. Two users are an owner and
somebody whose membership is granted, changed and removed, by the owner and by
requests of their own; that a third user changes nothing is proved. The roles owner, admin and viewer
are the one above all checks, one that outranks, and one that is outranked
(member and editor differ from viewer only in rights no modelled handler asks
for). Two pairs are a login and a rotation, or two logins; two calls make one that
refreshes and one that joins, retries, logs in or logs out meanwhile. Three
processes are one that has created the key file, one that finds it empty and one
that is restarted, in production or with keys of its own; in development the steps
depend on the keys alone, so that the other settings of development are left to the
proof. In `chat_service` one connection is fewer than the requests
that want it, so that the pool is exhausted by a single chat; a limit of two with
a window of one tick has times of different age in one deque, one of them exactly
at the boundary, and the limit of zero has the crash. Two attempts are one that is
retried and the last; that more attempts, connections, requests or ticks, or a
disabled limiter, change nothing is proved, except for liveness. In `campaigns` two brands and two campaigns are one
of each in two workspaces, or two in one, between which a campaign moves; three
requests are a deletion, a move and a chat; that more of anything change nothing is
proved.

For each property, a plausible mistake in the code (definitions `Op_...` next to
`Op`) makes TLC report that property, so none of them holds by construction.

**Fairness.** Three specifications have it, each for one liveness property.

* `WebSession` (`CallsEnd`): each call and each refresh that is in flight is
  weakly fair, which says that every `fetch` settles (the browser rejects it at
  the latest when the connection breaks) and that the event loop of a tab runs.
  Nothing is assumed about the outcome: a request may be lost every time.
* `Startup` (`KeysArrive`): a process that loads its keys goes on; the function is
  synchronous and waits for nothing. `Boot`, `Die` and `WriteFails` are not fair.
* `ChatService` (`EveryRequestEnds`): the event loop runs each request that can go
  on. This includes that the provider, or httpx's timeout, answers each attempt,
  that a sleep before a retry ends, and that what a stream delivers is finite
  (httpx limits the wait for each chunk, the provider the length of a reply). No
  fairness of the pool is assumed beyond its timeout: a waiting request may be
  overtaken for 30 s and then fails. Arrivals, the clock and disconnections are
  not fair.

All other properties are safety properties. The service retries nothing on the
database, so nothing else in it must eventually happen.

## 5. Proofs

`RefreshTokensProofs` proves, for any sets of users, tokens, families and
concurrent requests (assuming only that `None` is none of them, and that the
bound `MaxEpoch` is a natural number):

* `TypeCorrect`, `LineageHolds`, `OneLoginPerFamilyHolds`: the invariants.
* `TokensAreExchangedHolds`, `RevocationIsPermanentHolds`, `OverIsFinalHolds`,
  `BarredStaysOutHolds`: the action properties.

The inductive invariant `IInv` adds `HandlerOK` to the three invariants: a
request in flight refers to a token that is a row of its own user. It is needed
because `FinishRefresh`, `FinishReplay` and `FinishLogout` trust what was read
before; without it a replacement could be inserted into a family of nobody.
`HandlerOK` is itself preserved only because rows are never deleted and never
change their user. The argument has one lemma per statement (`IssueShape`,
`RevokeShape`), one per handler, and `EveryStepShape` collects what any step may
do to a row, from which the action properties follow. `OverIsFinal` needs that a
row is only added to an existing family by a refresh in flight, and that a
request becomes such a refresh only by reading an unrevoked token; for a session that
is closed in a step, that the revoking statement has reached all its tokens.
`TokensAreExchanged` needs that a step issues one row at most, into a family of its own
or into that of the token a refresh has read, and that what revokes gains nothing
(`RevokingGainsNothing`).

Under `SerialSpec`, from the same assumptions, `OneUsableTokenHolds`,
`NoSessionOutlivesItsPasswordHolds` and `ClosedSessionsAreDeadHolds`. `SerialInv`
adds to `IInv` that no user has two requests in flight (`OneAtATime`) and, which
that makes inductive, that what a request has read is `StillTrue`: the epoch a
login has verified is the current one, and the token a refresh has found is
unrevoked. These are exactly the two facts that the general specification loses
between a read and its commit. `AnswerLeavesOthers` says once that the commit of one
request concerns nobody else's; the two kinds of writing (a token is issued, a set
of whole sessions is revoked) have a lemma each.

`ImplementsSessionChainHolds` is the refinement `SerialSpec => Chain!Spec`. Under
`SerialInv`, each step of the table maps to a step of the chain or a stutter:
`LoginOpens`, `RefreshRotates` (which needs `OneUsableToken`, for the abstract
rotation exchanges the only usable token) and `RevokingCloses`; every other step
leaves `used`, `opened`, `closed` and `live` alone (`SameChain`).

`EmailLinksProofs` proves, for any users, links and requests (`None` being neither a
user nor a link, `MaxEpoch` a natural number), `TypeCorrect`, `RedeemedOnceHolds`,
`EveryEffectHasItsLinkHolds` and the action property `LinksAreSingleUseHolds`. The
inductive invariant adds what requests may rely on: a link about to be stored is
known to one request (`Mints`); who has read a link is about its user and purpose
(`Redeems`); and who has claimed one is its only owner, the row is used and has had
no effect (`Owners`), which is what the conditional `UPDATE` of the claim is for.
`EveryEffectHasItsLink` counts links, so the invariant also has `FiniteEffects`: the
redeemed links are finitely many and `Cardinality` grows by one with each effect,
although the set of links need not be finite. Its second half, that an account exists
exactly where a verification link does, is an invariant of its own (`Accounts`): who
asks for another link has an account, and who registers stores both in one step.

`ConversationsProofs` proves, for any workspaces, conversations and turns (`None`
not being a conversation), `TypeCorrect`, `MessagesHaveAHomeHolds`,
`ReplyFollowsItsPromptHolds`, `SequencesHaveNoGapsHolds`, `StoredAsToldHolds`
and `UniqueUnlessCrowdedHolds`. The inductive invariant has four parts. `Places`: the
id of a conversation not yet inserted is its creator's alone, and a turn writes where
it belongs. `Stored`: while a reply streams, its prompt is in the conversation, and no reply of a
turn is stored before it ends, as what it ends as.
`Numbers`: the number a turn has read continues a message that is still there, for
messages go only with their whole conversation; `HasNewest` says that there is a
highest number, which needs an argument because nothing bounds the messages.
`Alone`: without overlap, the number a turn has read is above all others (`OnTop`).

`WorkspaceMembersProofs` proves, for any users, workspaces, requests and subset of
the roles that contains owner (and `None` outside of them), `TypeCorrect`,
`OwnerIsMemberHolds`, `GrantedFromAboveHolds` and `RankIsRespectedHolds`. The
inductive invariant adds `OwnersKnown` and `HandlersSound`: what a request has
checked about the owner is still true at its commit, because `owner_id` never
changes, and what it has checked about a role is true as long as the row it read
is marked as the same. `CommitKeepsHandlers` shows once that a commit which marks
the rows it writes leaves every other request sound; `WriteKeeps` that a single
written membership keeps the invariant if it is not the owner's or says owner.
`KeepsAWorkspaceHolds` rests on a second invariant, `Spare`: who has passed the
check of a deletion, and is not bereft, has a membership in another workspace than
the one to be deleted. The count of the check gives it (two memberships do not fit
into one workspace, by cardinality), and until the commit only steps that make the
user bereft take it away; the case of interest is a second deletion by the same
user, for which the other is `DeletingToo`.

`StartupProofs` proves, for any processes and any subset of the settings,
`TypeCorrect`, `WorkersAgreeHolds`, `ProductionIsRealHolds` and
`KeyFileIsPermanent`. The inductive invariant adds that at most one process is
about to write, and only while the file is empty (`OneWriter`, which is what
`O_EXCL` is for); that who loads has no configured keys and is not in production
(`OnlyWithoutKeys`); that who has started passed the guard (`BootedWell`); and that
only a ready process has a pair, the configured one if there is one (`OwnPairs`).
`WorkersAgree` needs the first, since a second writer would change the file under a
process that is ready, and `ProductionIsReal` the others. All of it is said of each
process with the settings it was started with; another process, or the same one
started again, may have any others.

`ChatServiceProofs` proves, for any requests, clients, answers, limits, window,
number of retries and size of the pool, `TypeCorrect`,
`ConnectionsAreReturnedHolds`, `ErrorsAreExplainedHolds` and
`LimiterIsExactHolds`. The inductive invariant is the limiter's, the set of
connections as a function of the stages together with its finiteness, and
`CallsSound`: of a chat that asks, as many things were heard as attempts were
made, all of them transient except possibly the last of a call that is over.
`Step` shows once that a request which moves and takes or returns its connection
accordingly keeps the invariant; each action is an instance of it.

Its first part holds the lemmas about the log of the limiter, for any limit, zero
included, and any window. The invariant is that `hits` is a run of expired entries followed
by `recent`, and `recent` is sorted with the oldest first. That the loop drops
exactly the expired ones rests on the order: it stops at the first entry inside
the window (`ExpiredUnique`). `DropsAnytime` is the reason the code may be lazy:
dropping what has expired before or after time has passed gives the same log.

`CampaignsProofs` proves, for any workspaces, brands, campaigns, conversations and
requests (their names being distinct from `None` and from each other where it
matters), `TypeCorrect`, `ReferencesStayAtHome` and `CascadeIsExactHolds`. The
inductive invariant adds `HandlersSound`, what is left at the commit of what a
request has read: a validated brand is in the right workspace or gone, because rows
never change workspace; what a chat in flight refers to is still there, because it
is locked; an undisturbed deletion has loaded exactly its brand's campaigns.
`RowsAge` is what every step does to rows, and `SoundStays` derives from it once
that everything read stays sound. Each action then shows `RowsAge` and its own part
of the rest.

`WebSessionProofs` proves, for any tabs, calls and number of minted pairs,
`TypeCorrect`, `StoredTokenIsUsableHolds` and `NoSelfReplayHolds`. The invariant
follows each refresh token on its way: in the answer of a login or of a refresh
(`Arriving`, `Minted`), then in the client's hands, stored or in flight (`InHand`).
A token on its way is sound (usable, or its session closed or doubtful) and nowhere
else (`OnTheWay`, `OneCopy`), so that no refresh in flight spends it before it is
stored; a token that is sent is sound (`SentIsSound`); and of a token that two tabs
have sent the session is doubtful (`SharedIsDoubtful`). `Rotate` is where these meet:
it spends a token, and whoever else holds it is covered by the last. `Refuse` closes
a session, and by `SentIsSound` it had been closed or is doubtful, which is
`NoSelfReplay`. `CustodyKept` deals once with all steps that only lose tokens.
The single promise of a tab is used in `Refresh` alone: the tab has no other refresh
in flight, so a stored token that is no longer usable was sent by another tab.

Two more theorems connect the client with the server. `ServerIsASessionChain`: in
every behaviour of `WebSession` the server's variables behave as `SessionChain`
says, so that the client is checked against the abstract server and nothing more,
which `ImplementsSessionChainHolds` shows the table to implement. `ChainIsSound`:
in every system that implements `SessionChain`, no session has two usable tokens
and a closed one has none.

Only model-checked: the liveness properties `KeysArrive`, `EveryRequestEnds` and
`CallsEnd`, which are out of the prover's reach (fairness needs `ENABLED`). The runs
that expect a violation have nothing to prove. Every other property of a run is the
statement of a theorem.

## 6. Not modelled

* The texts and states of brands and campaigns: `update_brand`, and an
  `update_campaign` that leaves the brand alone, overwrite columns that no other
  row and no check refers to; two that overlap leave the later one's values.
* Free slugs, names and descriptions of workspaces: two requests may find the same
  slug free, and the unique constraint fails the second, which is `Fail`.
* Administration, list and get handlers: they change nothing. `readyz` takes a
  connection and is in `ChatService`.
* Application assembly, logging, observability, the error envelope, request
  schemas, the two middlewares that add headers, `worker.py`: wiring, formatting
  and validation without state. Pages and styling. The schema migration, of which
  the modules use the unique and the foreign keys.
* Cryptography, hashing and JWT signing; the text of messages, prompts and mails;
  the mock provider; the delays of retries and the value of Retry-After.
* The synchronous mail in the event loop, the growth of the limiter's keys, and
  the effect of several replicas on a limit: they cost time, memory or precision,
  and no step of the models depends on them.

## 7. Where code and words differ

The runs that expect a violation are listed in `PROJECT.json` under "findings".
Reading the code for the models showed some smaller ones, which no run is about:

* `DEPLOYMENT.md` says that production refuses "a console or memory email
  backend"; `config.py` line 201 tests for "console" only, and `Acceptable`
  follows the code.
* `tokens.py` line 77, "a corrupt cache must not be fatal": a file that was created
  and not written cannot be created again, and every attempt ends in
  `RecursionError`. `KeysArrive` has this as its exception.
* "The reply is persisted only after the stream completes; a client that
  disconnects halfway leaves no truncated assistant message behind." (`chat.py`
  231): the `finally` block stores whatever was received, also when the stream
  raises or is closed. `StreamFails` of `Conversations` stores it as "partial".
* A brand's campaigns are deleted by the ORM (`models.py` line 154) and would be
  detached by the database (line 167). Which of the two happens to a campaign that
  is attached or moved during the deletion depends on when: one that has already
  left is deleted too. `CascadeIsExact` has this as its exception. For the caller,
  `{"brand_id": null}` in an update is accepted and skipped (`campaigns.py` line
  108), so a campaign is never detached on request.
* The docstring of `RateLimitMiddleware` says "Fixed-window"; it is a sliding log.
  With a limit of zero, line 159 reads the oldest of no times: 500 in place of 429.
* `SakanaClient._parse` says that an unusable 200 is a provider failure; a body
  that is not JSON raises in `response.json()` before it is called, and is
  answered 500 (`internal_error` in `ModelClient`).
* "You cannot delete your only workspace." (`workspaces.py` line 130): two
  deletions that overlap each count the other's workspace. `KeepsAWorkspace` says
  exactly this much less. "You cannot change a role at or above your own." (line 247):
  a role that is raised between the handler's read and its commit is overwritten all
  the same, the exception of `RankIsRespected`.
* The refresh of a tab that is in flight when the user logs out and in again stores
  its pair over the new one (`api.ts` line 163); the stored pair is then usable, of
  the older session. No comment says which it should be, and no property does.
