# Myanflix backend: TLA+ specifications

The Myanflix backend (`src/src`, NestJS on Prisma/PostgreSQL) is the server of
a video and book platform: end users sign in with Google, a password or a code
by SMS, put money into a wallet by quoting a bank transfer, buy subscription
periods from it and watch or read; staff upload and publish content, decide
deposits and withdrawals and keep the platform's own payment accounts. One
process serves HTTP and Socket.IO; the database is shared, the caches, the map
of online sockets and the background work are per process.

This directory holds TLA+ models of the parts whose correctness depends on the
order of steps or on getting a computation right at its edges: what they keep
true, on which assumptions, and what TLC and TLAPS say about it.

- [Inventory](#inventory)
- [Modules and what they stand for](#modules-and-what-they-stand-for)
- [Runs](#runs)
- [Disagreements with the documentation](#disagreements-with-the-documentation)
- [Proofs](#proofs)
- [Not modelled](#not-modelled)
- [Plan](#plan)
- [Running the tools](#running-the-tools)

## Inventory

The state a component keeps, the operations that change it, whom it calls or
is called by, what is hard about it, and what makes it correct.

### Money

| component | state | operations | interacts with |
| --- | --- | --- | --- |
| deposits | `deposits` rows: PENDING, then APPROVED or REJECTED; reference, amount, account link, balance snapshots | create, createManual, approve, reject, updateReceivingAccount, updateNote | wallet, ledger, transactions, finance settings (limits), realtime, audit |
| withdrawals | `withdrawals` rows, same life; nothing reserved while PENDING | create, approve, reject, updateTransferAccount | wallet, ledger, realtime, audit |
| wallet | one balance per user, `wallet_adjustments` under an idempotency key | debit/creditWithinTransaction, adjust | called inside others' transactions |
| payment account ledger | per account a balance, totalIn, totalOut and append-only rows with before/after columns | recordManualEntry, syncDepositLink, syncWithdrawalLink, applyMovement | called inside deposits' and withdrawals' transactions |
| subscriptions | plans; a user's periods, which stack | createPlan, updatePlan, subscribe | wallet, realtime, levels (reads payments) |
| payment accounts | accounts and the payment methods they name by label | create, update, remove, createType, updateType, removeType | ledger |
| finance settings | one row of limits, created on first read | getOrCreate, update | deposits, withdrawals |
| levels | thresholds over a user's subscription payments | create, update, reorder, remove | subscriptions |
| transactions, finance | nothing of their own: lists and sums | none | all of the above |

*Hard.* Each handler is one READ COMMITTED transaction of several statements;
two handlers on one row, one wallet or two accounts interleave statement by
statement. The code relies on conditional `UPDATE`s (`status = PENDING`,
`balance >= amount`, `link = the one read`), on one partial unique index, on
the row lock that an `UPDATE` keeps until commit and on rollback. Handlers that
lock two rows can deadlock. A correction may be retried. Elsewhere (thresholds,
the settings row, methods in use) a rule is checked by one query and relied on by
a later one, with nothing to hold them together.

*Correct when* an approved item moved its owner's wallet exactly once and
nothing else did; a wallet is never negative and equals its Transaction rows;
the snapshots recorded next to a movement are the balances around it; a payment
account equals its ledger; an item's money stands on the account it is linked
to, once; a reference has one live deposit; every request ends;
statement-level interleaving adds no outcome to request-level order; and no day of a
subscription is paid for twice.

### Who may do what

| component | state | operations | interacts with |
| --- | --- | --- | --- |
| roles: authority and staff | `users.role`, `users.appRoleId`, `users.status`; AppRoles and their permission rows | role create/replacePermissions/remove, staff create/update/status/remove | users, resolver |
| users | the same rows from the users page; avatars in the object store | updateRole, updateStatus, uploadAvatar, removeAvatar, lists | authority, storage |
| roles: permission resolver | in-process cache by role id and key, queries in flight, a generation | getById, getByKey, invalidate | every guarded request; invalidated by role edits |
| auth, otp, google | refresh tokens, codes with attempts, linked Google ids | register, login, refresh, logout, requestOtp, verifyOtp, signIn | users, sms, tracking |

*Hard.* Guards count ("another active Super Admin remains"), load and compare,
and write some awaits later with nothing in between to hold them together. The
cache must not take back what an edit discarded although queries are in flight
when it is invalidated. A refresh token is consumed before its successor exists.
A Google sign-in looks an account up by id, then by email, then makes a name for
a new one, and meets the unique indexes only at the insert.

*Correct when* nobody passes on, or takes away, a permission they do not hold;
the Super Admin tier is out of reach from below; nobody changes their own
authority; somebody can always manage roles; a role that goes had nobody; a
revoked permission is not cached again and the next request sees an edit; a
refresh token has one successor and a code opens an account once; a sign-in
with Google settles on an account.

### Content

| component | state | operations | hard, and correct when |
| --- | --- | --- | --- |
| uploads | chunked and multipart sessions, scratch files, bucket objects | init, saveChunk, complete, abort, finalize, nightly sweeps | crash between the store's completion and the session row; a sweep beside a completion. A completed session has its object, a young one is never swept, leftovers are reclaimed |
| processing | `videos.status`, the in-memory claim, scratch directory, the movie's status | runPipeline, reprocess | a failure at any step, a restart, an admin's status change or deletion meanwhile. What is offered is in the store, or somebody broke off sending it; a claim is one run's and is given back |
| movies, series, videos | rows with statuses, pictures, runtimes; cached filter values | lists, details, facets, CRUD, backfill of runtimes | pages stitched from several queries; clean-ups of shared pictures; a measurement beside an editor. A page is a slice of what matches; a hidden show shows no episode |
| books | editions, parts, chapters and sections with positions, page images, bookmarks | CRUD, reorder, normalizeReadingOrder, PDF conversion, publishing | parts and chapters read at different moments; one page worker fails and the others go on. Contents are whole; READY has every page |
| actors, authors, categories | names, pictures, links | create, rename, remove | names that differ by case; a copy of the author's name on each book |
| subtitles | rows, one default per video, derived playlists | create, update, setDefault, remove, publish | uploads that fail half way. What a master playlist names is there to load |
| comments, feedback, notifications | threads of two levels, statuses | create, moderate, remove | a reply's parent is there and on the same title |
| tracking | sessions, last-seen throttle, watch buckets, searches | startSession, touchLastSeen, recordWatchActivity, reports | two beats or touches at once. No hour shows more seconds than its beats account for; reports agree with the rows |
| user relationships | nothing: a walk over numbers and members | getNetwork | cut at MAX_NODES inside a wave. Everything in it is linked, and it says when it was cut |

### Presence and the rest

| component | state | operations | hard, and correct when |
| --- | --- | --- | --- |
| realtime | map of online audience sockets, rooms | handleConnection, handleDisconnect, pushes | a socket closes during an await. Who is present is on the map |
| peak users | the highest number of online users | recordConcurrent, setAdditional | unawaited read-then-write. No recorded peak was never reached |
| audit, analytics, sms, storage, configuration | audit rows; the others nothing | one insert per change; reports | no decision reads what they write |

## Modules and what they stand for

A step is what happens between two awaits, or one statement where rows are
locked. Each family has its tables, the requests on them, and a module that
composes the requests and states the properties; `MC*` modules add what TLC needs.

### Money: `MoneyTables`, `MoneyAtomic`, `Money`

`MoneyTables` is the schema: the rows, what one statement or helper does to
one (`MoveWallet`, `CanMove`, `ApplyMovement`), and the invariants of the
committed tables. `db[r]` is the committed value of row `r`. A user's
Transaction rows live inside the wallet row, an account's ledger rows inside the
account row: the code inserts them only while it holds that row's lock, so both
become visible together.

`MoneyAtomic` is the promise: each request that succeeds is one step on `db`,
and a request that fails is none.

`Money` is the code. `tx[p]` is the request that handler `p` serves and the
statement it is at, `pend[p][r]` its uncommitted version of row `r`.

| action | code |
| --- | --- |
| `PrecheckDeposit`, `InsertDeposit`, `InsertRefused` | `DepositsService.create` (one autocommitted insert) and the start of `createManual`; P2002 from `deposits_reference_active_key` |
| `PrecheckWithdrawal`, `InsertWithdrawal` | `WithdrawalsService.create` |
| `ReadForDecision`, `Claim`, `ClaimLost` | `approve` and `reject`: the read, then `updateMany ... where status = PENDING` |
| `ReadForRelink`, `SaveDetails` | `updateReceivingAccount`, `updateTransferAccount` |
| `ClaimLink`, `ClaimLinkLost`, `Reverse`, `Post` | `syncDepositLink`, `syncWithdrawalLink`, `applyMovement` |
| `Pay`, `PayRefused` | `creditWithinTransaction`, `debitWithinTransaction`, the Transaction insert and a deposit's snapshot |
| `ProbeKey`, `RecordAdjustment`, `ReplayAdjustment` | `WalletAdjustmentsService.adjust` |
| `ReadAccount`, `Post` | `recordManualEntry` |
| `Commit`, `Rollback`, `Abort` | the end of `$transaction`: commit, an exception, a lost connection or Prisma's timeout |
| `Granted`, `BreakDeadlock` | PostgreSQL's row locks and its deadlock detector |

`Following` gives the order of statements, `Wanted` the lock the next one needs.
A statement that waited sees the latest committed value (`View`), as READ
COMMITTED re-evaluates it; that is why the conditional updates are conditions of
`Claim`, `ClaimLink` and `Pay` and not of the reads before them. Statements on
one locked row next to each other (balance, Transaction row, deposit snapshot) are
one step: no other transaction can see or change that row between them.
Amounts are in the smallest unit; receipts, notes and limits are data no
guard above compares.

### `PermissionCache`

`PermissionResolverService`. A role's permission set is the number of its edits,
so "older" is `<`. Between two awaits the code runs alone, so a step is what
happens between two awaits: `Hit` and `Miss` (`getById`, `getByKey`), `Query`
(the database answers), `Deliver` (the continuation: cache unless the
generation moved on, leave `inFlight`), `CommitEdit` (`replacePermissions`
commits) and `Invalidate` (what it calls afterwards). The TTL is in `Miss`: an
entry may be found expired at any time. `live[r]`, a history variable, is the
newest edit whose call has come back; `request[q].floor` is its value when
`q` started.

### `Access`

Accounts, AppRoles and every guarded request on them: assign a role, change a
status, create or delete a staff account, save, mint or drop a role. `request[p]`
is the request with what it has loaded (`before`), what it wants (`wish`)
and the check it is at: `Ask` (the route's guards), `LoadAccount` / `LoadNewStaff`
/ `LoadRole`, `Authorize` (`assertCanAssignRole` and its parts), `CountAdmins`,
`CountManagers`, `CountMembers`, then one write. Each read and each write is a
step. Merged into one step are the JWT strategy's load with the guard after it,
and the loops that count accounts. One permission stands for
the routes of the account pages, one for those of the roles page. The resolver is read as
current; that it is, up to the edit under way, is what `PermissionCache` is
about. CONTENT_UPLOADER is left out: no guard tells it from ADMIN.

### `Presence`

`RealtimeGateway` and `PeakUsersService`. `socket[s]` is the await at which
`handleConnection` stands (`Connect`, `Verify`, `Join`), `open` what is really
connected, `online` the gateway's map, `recording[s]` the `recordConcurrent`
call a join started and nobody awaits (`FindStats`, `CreateStats`, `RaisePeak`),
`stats` the rows of PeakUserStats: there may be two, since
nothing in the table forbids it.

### Uploads: `TitleLifecycle`, `Uploads`, `Multipart`

`Uploads` is `UploadsService`, `ProcessingService`, the status side of
`VideosService` and `MoviesService`, and the scratch sweep. Rows (`movie`,
`video`, `session`), objects (`store`), scratch files (`chunks`, `scratch`, with
`cold` for those untouched for a day) and the process' memory (`active`, the
claims; `task`, the requests) are written by different steps; `Restart` forgets the
memory alone.

| action | code |
| --- | --- |
| `AskInit`, `FindSession`, `InsertSession`, `MakeDir`, `SaveChunk` | `initUpload` with its resumption, `saveChunk` |
| `AskComplete`, `CheckChunks`, `Merge`, `PutMerged`, `CreateVideo`, `CloseSession`, `CleanChunks`, `StartRun` | `runCompleteUpload`, `completeExternalAssetUpload` |
| `MarkProcessing`, `Archive`, `RecordPath`, `NextTier`, `Encode`, `Push`, `PutMaster`, `CleanScratch`, `MarkReady`, `Publish` | `runPipeline` in the background; every step may fail (`Fail`) |
| `Straggle` | the workers of an `uploadDirectory` that failed, which nobody stops |
| `MarkFailed`, `BackToDraft` | its failure handler, whose own writes may fail |
| `Throw` | a step of a request that throws: nobody catches it, and what is written stays |
| `AskReprocess`, `Claim`, `FetchOriginal` | `reprocessVideo`, with the reservation in memory |
| `AskFinalize`, `LoadMovie`, `VerifyObjects`, `Settle`, `Deliver` | `runFinalizeExternalUpload` over files that arrived as `Multipart` delivers them |
| `SetStatus`, `DeleteMovie`, `Wipe` | an administrator |
| `StartSweep`, `ListScratch`, `SweepDirectory`, `DayPasses` | the nightly scratch sweep: owners read once, directories removed one by one |

`TitleLifecycle` is what all of this promises of a title: the statuses it may
take and from which, that what is offered to viewers is in the store or part of
something whose sending broke off, that a deleted title stays deleted. `Uploads`
implements it under the mapping `status <- movie`, `stored <- store`, `offered[m]` =
the original, the master and, for each rendition of every READY video of `m`, the
playlist and the segments, and `partial[m]` = the segments of the renditions in `unsent`.
The promise says where the code is lenient: the pipeline publishes or falls back from
*any* status (`GoLive`, `FallBack`), and a run that fails after its video was READY takes it
back (`Retract`), while a finalize settles only a title in the bulk flow's own statuses
(`Accept`, `Refuse`).

A rendition is two objects: `Index(t)`, by which the code tells whether it is there, and
`Segments(t)`, at which it never looks. `Push` sends them in either order and may leave
either alone. Two history variables record what no row does: `unsent`, the renditions
somebody began to send and did not complete (a run, or a client whose playlist came first),
and `stranded`, the videos whose request threw or died while they were UPLOADING.
`ReadyIsBacked` and `UploadingIsWorkedOn` say that there is no other exception: a video
that is READY without its segments had them broken off, and one that is UPLOADING in
nobody's hands lost its request to a failure and not to a path of the code. The code
itself mends neither: the retry trusts the playlist (below), and a reprocess refuses
a video that is UPLOADING.

`Multipart` is `MultipartUploadService` and the sweep of the store: an upload of
the store, its MultipartUploadSession row, parts put directly by the browser,
completion, abort, and the sweep's three rounds (`ReadStale`, `ListUploads`, `ReadKnown`, `Reap`).

### Books: `BookTables`, `BookContents`, `BookConversion`, `Books`

One book. `BookTables` has the rows and objects and `book-numbering.ts` as pure
operators (`Number`, `ReadingOrder`, `SectionNumber`, `StartPage`, `EndPage`).
`BookContents` has editions, parts, chapters, sections, bookmarks and what a reader is
shown; a change that can break the grouping ends with the two reads and the
transaction of `normalizeReadingOrder` (`ReadParts`, `ReadChapters`, `Renumber`).
`BookConversion` has the claim in memory (`Claim`, `Release`), the run
and its pool of workers (`Hands`: `Render`, `Upload`, `InsertPage`, `CountPage`), the
failure of a worker while the others go on, the failure that cannot be recorded
(`MarkFailed`), and `Restart`. Every call of a run may throw. `stranded`, a history variable,
has the chapters whose last run ended without a word, by a restart or by such a failure: they
say PROCESSING and nobody has claimed them, which is what a retry looks for.

### Catalogue: `CatalogueTables`, `Titles`, `Shelf`, `Subtitles`, `Catalogue`

`Titles`: lists of movies and series with every order (`ListPage` for one query,
`CountTiers`/`ReadTier` for the two tiers of relevance, `ScanIds`/`Refetch` for the
orders by views and purchases), details and episodes as a role may see them, stream
access, cached filter values (`QueryFacets`, `StoreFacets`), creation, updates,
deletion with everything it sweeps, and measured runtimes (`Recover`, `FillVideo`,
`FillMovie`). A title is described by what lists compare: status, access, one genre, where a
search finds it, runtime, views and purchases; a name has a lower-case form (`Lower`).
`Shelf`: people and shelves by name, books as works with a copy of the author's
name, comments. `Subtitles`: rows, renditions and the master playlist
(`rewriteMasterPlaylist`, `UniqueNames`), each upload of which may fail.

### Members: `MemberTables`, `SignIn`, `Tracking`, `Network`, `Profiles`, `BackOffice`, `Members`

`SignIn`: registration, password, telephone code (`AskCode`, `CountCodes`, `CreateCode`,
`AskVerify`, `CountAttempt`, `Consume`), Google with its retries (`FindGoogle`, `FindEmail`, `Link`,
`PickUsername`, `CreateForGoogle`, `TryAgain`), refresh and logout, and the session a sign-in starts.
`Tracking`: the throttle and the rows it guards (`Touch`, `WriteSession`,
`WritePresence`), heartbeats (`AskBeat`, `WritePosition`, `RecordBeat`), searches,
feedback, and the reports as the code computes them. `Network`: `getNetwork`
wave by wave (`Wave`, `Admit`, `Load`). `Profiles`: avatars, the list of members
with wallets, and what moves a wallet: deposits, withdrawals that are approved or rejected
(`ApproveWithdrawal`, `RejectWithdrawal`) and corrections (`Adjust`), each a row of `deposit` or `movement`. The list sums
deposits, purchases and subscriptions only, so `SummaryAddsUp` balances it with the rows it leaves out. `BackOffice`: plans and purchases (the wallet row's lock is `locked`), levels,
settings, payment methods.

A request carries `alone`: true until another process' write falls into it. Properties
that the code keeps only for a request that runs by itself say so with `alone`, or are about the steps that are `Undisturbed`: no
request that was disturbed takes them.

### Slips

Definitions whose comment begins "A slip" (`ClaimUnguarded`,
`DeliverAlways`, `SweepEpisodeQuietly`, ...) are not part of any specification.
Each is a definition of the code with one plausible mistake in it; put in the
place of the original it makes TLC refute the property that is there to notice.
Properties that are conjunctions ("What is claimed, by subject") have slips for their parts.

## Runs

Every `.cfg` is one question; its `CONSTANTS` are the bounds.

| run | configuration | shows |
| --- | --- | --- |
| `money_deposits` | `MCMoneyDeposits.cfg` | Two handlers submit, record, reject and re-link two deposits with two references and two accounts. `ReferenceLivesOnce`; only opposite re-links wait for each other for good (`OnlyRelinksDeadlock`); `Money` implements `MoneyAtomic`; under fairness `EveryRequestEnds` |
| `money_withdrawals` | `MCMoneyWithdrawals.cfg` | Three handlers, two users, a deposit, two withdrawals and one idempotency key: more claims on the money than there is money. `PaidExactlyOnce`, `NeverOverdrawn`, `WalletIsItsHistory`, `SnapshotsMatchHistory`, implementation again |
| `money_links` | `MCMoneyLinks.cfg` | A deposit and a withdrawal moved between two accounts by two handlers, among entries by hand. `LinkMatchesLedger`, `AccountIsItsLedger` |
| `permission_cache` | `MCPermissionCache.cfg` | Two lookups, two editors, two roles, two edits each. `CachedIsCurrent`, `AssignedRoleIsCurrent` |
| `access` | `MCAccess.cfg` | Any three requests one after the other, from every team of `AnyTeam`, with and without a Super Admin: `GrantCeiling`, `AuthorityIsKept`, `RoleManagerRemains`. Two interleaved requests beside them: `TierConferred`, `TypeOK` |
| `access_last_admin` | `MCAccessLastAdmin.cfg` | violated: `SuperAdminRemains` |
| `presence` | `MCPresence.cfg` | Two tabs of a user, another user, a member of the staff, in every order. `OnlineIsSound`, `PeakWasReached` |
| `uploads` | `MCUploads.cfg` | Two requests of any kind on one title from five beginnings, any step of which may fail, with a restart, the sweep and an administrator. `Uploads` implements `TitleLifecycle`; `ClaimsAreKept`, `UploadingIsWorkedOn`, `ReadyIsBacked`, `SweepSparesResumable`, under fairness `RunsEnd` |
| `multipart` | `MCMultipart.cfg` | Uploads to the store with the sweep, aborts, a second request for the same file and a crash between any two steps. `SessionsAreTrue`, `SweepSparesYoung`, under fairness `LeftoversReclaimed` |
| `books` | `MCBooks.cfg` | One book at seven kinds of work, two requests or conversions at a time. `ContentsAreWhole`, `ConversionIsSafe`, `ChangesKeepOrder`, under fairness `ClaimsEnd` |
| `catalogue` | `MCCatalogue.cfg` | One catalogue at ten kinds of work, two requests at a time. `AnswersAreRight`, `RowsAreSound`, `StepsKeepRules` |
| `members` | `MCMembers.cfg` | One platform at fifteen kinds of work, two requests at a time. `AccountsAreSafe`, `TracesAreTrue`, `ReportsAreRight`, `RulesHoldAlone` |

The type invariants of `Money` and `PermissionCache` are in no run: they are proved for every
value of the constants (`Money_proofs!TypeCorrectness`, `InMemory_proofs!TypeCorrectness`).

Several of these properties are groups; their
parts stand above them in the same module, each with its own comment. A group is refuted by
one mistake in one of its parts; the slips for the others are in the modules:

| group | parts |
| --- | --- |
| `ContentsAreWhole` | types and references; every chapter that was read is listed, once, numbered 1..n (`TreeIsWhole`); page ranges run forwards (`RangesForward`); a bookmark's section is in its chapter (`BookmarkAgrees`) |
| `ConversionIsSafe` | `PageHasBytes`, `ReadyIsComplete`, `OneRunPerChapter`, `ProcessingIsClaimedOrStranded` |
| `ChangesKeepOrder` | a change that ran alone leaves the canonical order (`SettlesAlone`); a language that goes live has something to read (`LiveHasContent`) |
| `AnswersAreRight` | `PageIsSlice`, `HiddenShowsNoEpisode`, `FacetsAreFresh`, `FacetsLeadSomewhere` |
| `RowsAreSound` | types and foreign keys; `ThreadsAreFlat`; a master's names differ and it has one default; `CompleteIsComplete` |
| `StepsKeepRules` | `HumanRuntimeStays`, `GuardSpares`; alone: `AuthorsTidyAlone`, `AdvertisedAlone`, `RowDefaultAlone` |
| `AccountsAreSafe` | types and unique columns; `TokenSpentOnce`, `CodeOpensOnce`, `GoogleSettles` |
| `TracesAreTrue` | `OneTouchPerWindow`, `WatchedWithinReason`, `AvatarIsThere`, `DaysAreNotPaidTwice` |
| `ReportsAreRight` | `ActiveIsHere`, `WatchTimeAgrees`, `SearchesAreRanked`, `SharedIsShared`, `GrowthAddsUp`, `NetworkIsWhole`, `ActivityIsNewest`, `SummaryAddsUp`, `LevelIsHighest` |
| `RulesHoldAlone` | `QuotasAlone`, `LinkStays`, `SuspendedStayOut`, `ThresholdsDifferAlone`, `SettingsAreOneAlone`, `MethodsHoldAlone` |
| `ClaimsAreKept` | types; the in-memory claim is always somebody's and nobody else's |

Four further configurations show a disagreement
[below](#disagreements-with-the-documentation): `MCMoneyRetry.cfg`, `MCPermissionCacheKey.cfg`,
`MCPresenceGhost.cfg`, `MCUploadsTorn.cfg`.

### Bounds, and why they are enough

- **Money.** A conflict here is between two handlers on one row or a cycle
  of two on two rows: two handlers, two items and two accounts reach each of them,
  three handlers and two withdrawals reach a third who meets what two left. `Amounts = {1}`:
  with one deposit of 1 and two withdrawals of 1 the guards `balance >= amount`
  and `amount <= balance` are met, missed and raced for; nothing compares
  amounts otherwise. `MaxEntries` bounds how long re-links and, one row earlier, entries keep arriving
  (each adds ledger rows); a request already under way is not bounded by it.
  Ids are used once, so submissions are bounded by the id sets. Handlers,
  accounts, users and row ids are interchangeable and symmetric, except in
  `money_deposits`, which checks liveness and uses no symmetry. It leaves approvals to
  `money_links` and `money_withdrawals`.
- **PermissionCache.** `MaxEdits = 2` gives an edit between two others' query and
  delivery and one after; two requests are the one that starts a query and the
  one that joins; a second role is there for keys and ids not to be mixed up.
- **Access.** `Start` says how many requests each slot lets in: all by one (`MaxRequests`), or one each by two. A chain of three (give a
  right, use it, take it back) reaches what one request alone is refused. Three
  accounts are an actor, a target and a bystander who is counted, one custom role
  beside the built-in ones. The start sets cover accounts whose kind and AppRole
  disagree, accounts without an AppRole, and teams without a Super Admin.
- **Presence.** One user with two sockets tells users from sockets, a second makes
  two counts race, one of the staff is no audience.
- **Uploads.** Two requests at a time, or one and a restart (`MaxRequests` counts both), race for a title, a video or a session;
  two renditions let a run fail between them and inside each; one restart (it counts as a request) falls between any two
  steps and what it leaves is found by a later request. Failures are not bounded. Two sessions and two videos are a
  first attempt and its retry. A bundle that has everything, or lacks its master and its segments, an upload that wants its last call only, and a run that
  died half-way are start states (`Beginnings`), because they take more
  requests to reach than `MaxRequests` lets in. Ages stop at two days, the sweep's threshold.
- **Multipart.** Two uploads of one file are a client's and the one that replaces or
  races it; two parts tell a partial upload from a whole one; three requests
  are init, complete and an abort or a second init.
- **Books.** Two languages, two parts, three chapters, three sections of a PDF that was
  longer once; two workers of a pool and three pages, so that one worker fails while another has a page in its
  hands and one is left to do. The kinds of work are separate beginnings: `doors` says
  which requests each lets in.
- **Catalogue.** Lists of four films are cut into pages of one to three, so that a page falls before, across and
  behind the boundary of the two tiers; three names of which two differ by case only;
  two pictures; two tracks. `MaxClock` is twice the TTL of the filter values.
- **Members.** Each counter (codes, attempts, feedback, tries, nodes of a network,
  activity rows, seconds of a beat) has a limit small enough to be met and exceeded within `MaxRequests`. Hours and
  weekdays are two each. A network of three members and three numbers is cut at
  `MaxNodes = 5` inside a wave. Three members sign in with Google under one user name.

In Books, Catalogue and Members, `MaxRequests` counts what is let in from a beginning;
some beginnings start at 1, to let in fewer. `MaxRows` bounds the rows ever created.

`CHECK_DEADLOCK FALSE` stands where the instance runs out of ids or of requests
or where every socket may be closed for good (Presence). `money_links`
and PermissionCache check for deadlock: a request can always arrive, or end.

### Fairness

- **Money** (`FairSpec`): for each handler, strong fairness of "a statement of it, or
  the detector ends it"; none of arrivals or of `Abort`. A handler runs on until its
  statement waits, so its enabled statement is taken; PostgreSQL queues the waiters
  of a row lock, so a lock that is released again and again is granted (this is the
  strong part); and the deadlock detector, which runs after `deadlock_timeout`,
  ends one transaction of every cycle. Without the detector `EveryRequestEnds` fails:
  opposite re-links stand for ever.
- **Uploads**: weak fairness of the steps of a run, from the claim on (`Pipeline(p)`, `Reprocess(p)`). Node runs what is ready, and `ffmpeg`, the disk and the store answer or fail.
  A rendition is two objects, so a push does not go on for ever.
  Nothing is assumed of clients (`SaveChunk`, `AskComplete`), administrators, days or restarts.
- **Multipart**: the same of `Handle(p)`, every step of a request, and of `StartSweep` and the sweep's steps: the
  scheduler starts the job every night. Restarts are bounded, so some night is undisturbed.
- **Books**: weak fairness of `Convert(p)`, the steps of a conversion.

### What limits a property

- The guarantees of `access` are those of one request at a time (`Alone`), `TierConferred` excepted. The code
  takes no lock between a check and its write. Without `Alone` and with two slots TLC refutes
  RoleManagerRemains (without a Super Admin) and RemovedRoleHadNobody,
  and nothing is claimed of the others then: a role may be
  widened, emptied or removed after the check that looked at it. `TierConferred`
  is the part that no interleaving breaks, and it is proved.
- `SuperAdminRemains` one request at a time follows twice (an actor who may touch
  the tier is a Super Admin and remains), which is why it is stated for a race.
- `AssignedRoleIsCurrent` is about lookups by role id. For accounts without an
  AppRole the lookup is by key, and the corresponding statement does not hold.
- `ReadyIsBacked` excepts the renditions in `unsent`, and `UploadingIsWorkedOn` the videos in `stranded`: without the
  exceptions neither is true of the code (disagreement 5, and nothing in the code looks for a video left UPLOADING).
  `ProcessingIsClaimedOrStranded` excepts chapters in the same way.
- `SummaryAddsUp` is about balance and sums read while no request came between (`alone`).
- `GoogleSettles` is about members who find a free user name within the service's 20 suffixes. Beyond them `pickUsername`
  takes a random one without looking, which is not modelled.
- The store answers the nightly sweep of `Multipart`; its failures are not modelled. The scratch sweep of `Uploads` may fail to
  remove a directory.
- `PeakWasReached` bounds peaks from above; that a recorded peak never falls is
  not so (two records that read one value may write in either order).
- The properties with "alone" in their name, and those that read `task[p].alone`, are about a request during
  which nobody else writes. What two requests at once can do to these rules:
  two thresholds, settings rows or default subtitles; an account whose method was just deleted; more codes, guesses or
  feedback than the quota; two authors whose names differ by case; a book with an
  author's former name; a stale master playlist; two Google ids racing for one account re-point it
  (`linkGoogleId` is unconditional); parts and chapters out of canonical order, or two sections on one
  page; the last language of a book deleted twice over; a language or title published on a count made
  before. The rows stay well formed then (`RowsAreSound`, `ContentsAreWhole`, `AccountsAreSafe`), and the next
  request that runs alone restores the order of chapters.
- `WatchedWithinReason` bounds seconds by beats: two beats at once that read
  one position are both credited with the same advance.
- `OneTouchPerWindow` leaves out members who sign in meanwhile: `startSession` may put an older
  stamp back into the throttle's map. `UserSession.endedAt` is written nowhere, so sessions are told
  open by their age only.
- `SuspendedStayOut` is about sign-in. `refresh` does not look at the status; `JwtStrategy` refuses the
  bearer of the new token.
- `NetworkIsWhole` says what an uncut network holds. `truncated` may be reported although nothing was left out (at
  `MAX_DEPTH`), and a number that another member wrote with blanks is not found unless that member is in already.
- `ConversionIsSafe` does not bound `processedPages`: a worker left over from a failed run counts
  its page in the next one.
- `GuardSpares` is about the deletion of a show. `MoviesService.remove` and
  the deletion of an actor erase pictures without asking who else shows them, and the model has them do so.
- `createChapter` without a part in a language that has parts appends to the stored order, which is
  canonical again after the next change of it; what readers are shown is whole all the same (`TreeIsWhole`).

## Disagreements with the documentation

1. **Two Super Admins can remove each other** (run `access_last_admin`). Each count sees
   the other; both writes follow. `authority.service.ts:156` says the check refuses a change
   "that would leave nobody holding the protected role".
2. **A retried correction may be refused instead of replayed** (`MCMoneyRetry.cfg`, `RetryIsReplayed`).
   `adjust` debits before it inserts its key, so a copy that passed the probe and
   runs after the first has spent the balance is answered "Insufficient wallet
   balance". The comment above it says a written key "returns the original
   adjustment". No money moves twice.
3. **An edit may be missed by the next request of an account without an AppRole**
   (`MCPermissionCacheKey.cfg`, `EditIsLiveNextRequest`). `invalidate` forgets the query under the role's key only
   if the role is cached; otherwise the query that read the old rows stays joinable.
4. **A socket that closes while `handleConnection` awaits stays on the map**
   (`MCPresenceGhost.cfg`, `OnlineIsOpen`). Its disconnect handler has run before the entry is made.
5. **A retry may skip a rendition whose segments were never sent** (`MCUploadsTorn.cfg`, `OfferedIsComplete`).
   `uploadDirectory` sends the files of a rendition by several workers in no particular order and stops at the first error, and the retry takes
   `index.m3u8` for the sign that all of it is there (`processing.service.ts:127-131`). After a push that broke off behind the playlist the
   video becomes READY and the title PUBLISHED without the segments. The comment above the check (123-126) says that only tiers that
   "already finished transcoding *and* uploading" are skipped.
6. **Hiding a comment hides its replies** (read off the code, no run). `comments.service.ts:192-193`
   says moderating a top-level comment "does not silently take its replies' visibility with it"; the query
   below it finds replies only under visible comments.

The four configurations of 2 to 5 are expected to end with a violation.

## Proofs

`*_proofs.tla` hold proofs that TLAPS checks for every value of the constants.

| theorem | says |
| --- | --- |
| `Money_proofs!TypeCorrectness` | `Spec => []TypeOK` |
| `Money_proofs!WalletHistory` | a wallet is its Transaction rows added up |
| `Money_proofs!NoOverdraft` | no movement leaves a wallet below zero |
| `Money_proofs!AccountLedger` | an account's balance, totals and chained rows agree |
| `Money_proofs!AtomicTypes` | the one-step specification keeps the tables' types |
| `Money_proofs!AtomicInvariance` | in the one-step specification: paid once, links and snapshots exact, references unique |
| `Money_proofs!RefinementInvariance` | what each open transaction has written and locked, by its position |
| `Money_proofs!Implementation` | `Spec => ImplementsAtomic` |
| `Money_proofs!PaidOnce` | `Spec => []PaidExactlyOnce` |
| `Money_proofs!SnapshotsExact` | `Spec => []SnapshotsMatchHistory` |
| `Money_proofs!LinksExact` | `Spec => []LinkMatchesLedger` |
| `Money_proofs!ReferenceUnique` | `Spec => []ReferenceLivesOnce` |
| `Money_proofs!DeadlocksAreRelinks` | `Spec => []OnlyRelinksDeadlock` |
| `InMemory_proofs!TypeCorrectness` | `Spec => []TypeOK` |
| `InMemory_proofs!RevokedStaysRevoked` | `Spec => []CachedIsCurrent` |
| `InMemory_proofs!NextRequestSeesEdit` | `Spec => []AssignedRoleIsCurrent` |
| `Access_proofs!TypeCorrectness` | types, built-in roles and the foreign key |
| `Access_proofs!TierIsConferred` | `Spec => TierConferred`, an action property |
| `Access_proofs!RoleManagerAlways` | `Spec => []RoleManagerRemains` |
| `Access_proofs!CeilingHolds` | `Spec => GrantCeiling`, an action property |
| `Access_proofs!AuthorityKept` | `Spec => AuthorityIsKept`, three action properties |
| `InMemory_proofs!PresentCounted` | `PresenceSpec => []OnlineIsSound` |
| `InMemory_proofs!PeaksAreReal` | `PresenceSpec => []PeakWasReached` |
| `Uploads_proofs!UploadsInvariance` | what each upload, run and finalize may rely on, by its position |
| `Uploads_proofs!PartsAreKnown` | a rendition whose playlist is in the store has its segments there, or is known to be sent in part |
| `Uploads_proofs!ClaimsKept` | `Spec => []ClaimsAreKept` |
| `Uploads_proofs!UploadingKept` | `Spec => []UploadingIsWorkedOn` |
| `Uploads_proofs!ResumableSpared` | `Spec => SweepSparesResumable`, an action property |
| `Uploads_proofs!UploadsImplement` | `Spec => ImplementsLifecycle` |
| `Uploads_proofs!OfferBacked` | in the lifecycle, what viewers are offered is in the store or part of what broke off |
| `Uploads_proofs!GoneForGood` | in the lifecycle, a deleted title stays deleted |
| `Uploads_proofs!UploadsBacked` | `Spec => []ReadyIsBacked` |
| `Uploads_proofs!DeletedForGood` | in the services, a deleted title stays deleted |
| `Multipart_proofs!MultipartInvariance` | what a request or the sweep has read is still so when it acts on it |
| `Multipart_proofs!SessionsTrue` | `MultipartSpec => []SessionsAreTrue` |
| `Multipart_proofs!YoungSpared` | `MultipartSpec => SweepSparesYoung`, an action property |
| `Books_proofs!BooksHold` | what each request about a book, and each worker of a conversion, has and still relies on |
| `Books_proofs!ContentsWhole` | `Spec => []ContentsAreWhole` |
| `Books_proofs!ConversionSafe` | `Spec => []ConversionIsSafe` |
| `Books_proofs!RelianceHolds` | what a request that is alone has read is still so |
| `Books_proofs!OrderKept` | `Spec => ChangesKeepOrder`, action properties |
| `Catalogue_proofs!CatalogueHolds` | what the rows say of each other, and what each request has and still relies on |
| `Catalogue_proofs!RowsSound` | `Spec => []RowsAreSound` |
| `Catalogue_proofs!AnswersRight` | `Spec => []AnswersAreRight` |
| `Members_proofs!MembersHold` | the invariant of the members' tables and requests, subject by subject |
| `Members_proofs!AccountsSafe` | `Spec => []AccountsAreSafe` |
| `Members_proofs!TracesTrue` | `Spec => []TracesAreTrue` |
| `Members_proofs!RulesAlone` | `Spec => RulesHoldAlone`, action properties |

**Money.** None of the three balance properties is inductive: `Commit` publishes
versions about which they say nothing. The invariant therefore says of every
uncommitted version what the properties say of the committed rows
(`CommittedSound`, `WrittenSound`), and of every request that the rows its next
statement names exist and have the right table (`RequestsOK`, with `Shape` and
`SubjectExists`). Then `MoveWalletSound` and `ApplyMovementSound`
carry a row's own history through one movement, `WriteKeeps`,
`FinishKeeps` and `BeginKeeps` carry the invariant through the three ways a step
can change the variables, and each action is one of them. No locking is needed
for these theorems: they are about what a version says of itself.

What needs locks relates rows of different handlers, and goes through
`MoneyAtomic`, where a request is one step. There `AtomicInv` is inductive almost as the properties state it
(`Paid`, `Booked`, the indexes and the types); the work is in the lemmas on what one request
adds to histories and ledgers. That `Money` implements it needs `RInv`. Its part `Described` gives, for every open
transaction and every row, the one value the row has in it: `Written` as a function of the request's position and
of the *committed* tables alone (`HasLinked`, `HasReversed`, `HasPosted`, `HasPaid` say which statements
are behind it), together with what its guards established (`Checked`). `LocksExclude` says that no two transactions
have written one row. A step of one transaction extends its own description; a commit changes the
committed rows it had locked, which are no other transaction's, so the other descriptions stay true. At
its commit the description, read off at the last position, is exactly the effect of one `MoneyAtomic` request, and every other step
leaves `db` alone, which is the step simulation (`Implementation`). `PaidOnce`, `SnapshotsExact`,
`LinksExact` and `ReferenceUnique` are then theorems of `MoneyAtomic` read through the instance. `DeadlocksAreRelinks` uses
`Described` directly: what a blocked request holds and what it waits for is known by its position, and in any cycle
every position but a re-link's `post` is excluded by the lock order.

**PermissionCache.** `Cacheable` is the heart: what a query saw is current, and no
older than any finished edit, as long as the generation it started in has not passed. `Waiting` says who
waits for which query, `JoinableIsLive` that a query by id that can be joined is not
older than an edit that returned, `Ordered` orders the counters.

**Access.** `AllVetted` keeps what a passed check means for the write: a request
past `Authorize` that hands out the protected tier was asked by an effective Super
Admin, on the assignment read when it was let in. It survives other requests
because an AppRole id is never used again and the protected role is never removed.

The other guarantees are those of one request at a time, and `Serial` says what that is worth: the assignment
of the actor is the one it was let in with, the row or matrix the request loaded is still the one it loaded, what `Authorize`
established holds of the tables as they are, and so does what the counts found when it reaches the write
(`CurrentIn`, with `LoadedIn`, `CheckedIn`, `CountedIn`). It is an invariant of every slot that is alone, whatever
the number of accounts, roles and permissions. `TablesStep` then says what a step may do to the
tables: one row changes (`RowIsSafe`: on both axes and within the ceiling, and somebody else manages roles if this account did),
one matrix changes (`MatrixIsSafe`), or a role that nobody is on comes or goes. The subtle part is the
reach of a matrix: it changes what every account on the role holds, the NULL fallback included, and
nothing for the others (`MatrixOfOthers`, `MatrixOfOwn`). Each theorem is read off these.

**TitleLifecycle.** `OfferIsBacked` is inductive with the types: an offer is taken from the store or from what is known to be partial, only the
clean-up of a title that is gone takes anything from the store, and what stops being partial is in the store. Both theorems use the lifecycle's own steps only, and
`UploadsImplement` carries them over to the services.

**Uploads.** `IInv` says of every request where it can stand and what it carries there (`Shape`), that the rows it works
on are there with the status it relies on, or gone together with their title (`HoldsSession`, `HoldsVideo`,
`Fits`), and that the files it has seen in the store or put there are still in it as long as the title is
(`HoldsFiles`, `Promised`). It survives the steps of others because of `World`: a step brings no title, row or session
back, takes objects only of a title that is gone, and changes the status of one row, which is its own
(`Exclusive`). For the sweep, `Swept` says that a directory that is cold belongs to a session
that was there before the sweep read its owners, so an owner it does not know is not young. The
step simulation then asks one question per action: what does it add to what READY videos
name? Only `MarkReady` adds anything. `Promised` says that the originals and the playlists it adds are in the store; their
segments are there too, or the rendition is in `unsent`, by a second invariant about the store alone, `SentOrUnsent`, which every
step that sends a file has to keep (`Sends`). Every step of a request may throw, so that `IInv` says of a video that is
UPLOADING that a request has it in hand or that it is `stranded` (`StillWorkedOn`), and asks of a throw only what it leaves behind (`ThrowKeeps`).

**Multipart.** The sweep acts on what it read some steps before. Two facts make that sound: no day passes
while anything is under way, so the ages it read are the ages (`Fits`), and a row is written after its upload
and never older than it (`Linked`), so that an abandoned row's upload is two days old as well.
The restriction of `DayPasses` is the model's (a request or a sweep lasts minutes), and the theorem is as good as it.

**Presence.** Who is present is on the map because a socket is put there by the step that ends its
`handleConnection`, and taken off only by closing, after which it is never present again. For the peaks the invariant adds that every
count on its way to the statistics (`Records`) is one the map has had, and that the row it was compared with is
there when it is written: rows are only ever added.

**Books.** The invariant has a half for each part that changes books. `Contents` is about the tables and the requests: the rows of a book's
pages, chapters and parts belong to something, their numbers are their places, and each request has what its position says and
*still relies on*: what it has read may have changed since, so that only what no other request can take from it is kept.
`Converting` is about the conversion, whose workers share a queue: every page up to the count has its row, is in a worker's hands or
is still queued. Without the third case a finished worker could not know that the others have not lost a page.
A run may end with the row still PROCESSING, and then the chapter is in `stranded` before its claim is released: the claim and `stranded`
between them account for every such row (`ProcessingIsClaimedOrStranded`).
Both were invariants of a run before they were proved. A step is one of the requests' (`StepKeeps`) or the conversion's
(`ConvKeeps`), and each leaves the other half's rows as they are. That a renumbering gives the places 1 to n is proved by counting the places
that remain, so that no induction over the list is needed.

`ChangesKeepOrder` is about what a service reads in one query and relies on in another. The third invariant, `Settled`, says of every request
that nobody has disturbed that it is still so: the count that allowed a status, the parts and chapters its plan was made from, the
list a client sent, the sections of the chapter. A step either leaves every place and every READY chapter as it is, or it disturbs the others
(`StepSettles`). That the order a renumbering leaves is canonical is then a fact about the plan alone: the places in an order by
place are the places themselves, so that planning again changes nothing.

**Catalogue.** `CatalogueInv` has three layers. `Tables` is about the rows: types, what refers to what (`Related`), and that no master
names two tracks alike or has two defaults (`Posted`). `Held` is what a request carries that nobody can take from it, by its position: a row it looked up may be
gone by now, but it is not another video's or another kind's (`OfVideo`, `Renames`, `Says`). `Relied` is what a request that nobody has disturbed has read
and what is therefore still so: the slices of its page (`Pages`), what it may show a member (`ShownTo`), what a clean-up has cleared (`Cleared`),
the master it will replace (`Loads`). Others' steps respect the first two because rows keep what they
are of as long as they are there (`World`), and the third because a step either writes nothing (`Quiet`) or takes the others' solitude; each action
then has a lemma that its own request stands again (`Steps`).

Three arguments replace an induction. That a page is right is said with places: the place of a row is one more than the number of rows before it, an order gives every
place up to the size of the set to exactly one row (`PlacesFilled`), and a page is the rows at the places after `skip` (`CutOf`). The two tiers of a search are then two
cuts whose places add up to one (`TwoTiers`), and the page asked for is read off (`PageShown`). That `uniqueNames` finds a free name is the pigeonhole
principle: the suffixes it may try are more than the names taken (`FreeNameFacts`). And that its names differ uses the least
track with a counterexample (`Least`, `UniqueNamesFacts`). That a master stays valid is then a fact about `rewriteMasterPlaylist` alone (`RewrittenAdvertises`), whichever
of two racing publishes writes last.

**Members.** `MembersInv` has one part for each subject: `Accounts`, `Tokens`, `Signing`, `Shopping`, `Ranks`, `Touches`, `Watches` and
`Pictures`. A step is about one of them and leaves the rows and the requests of the others alone (`Aside` and the
`...Rests` operators; `AsideKeeps`, `WriteKeeps`), so a subject's part is proved for its own steps only. The parts that say more than the property do:
a refresh that has spent a token knows nothing has succeeded that token yet (`Refreshing`), and two refreshes do not hold one token;
a purchase that has debited holds the lock of the wallet, and the days it will write are after all that were paid (`Paying`); a new picture's
name is nobody's and in nobody's hands (`Hanging`); a sign-in that is about to stamp has its session already, which is why a stamp inside a window is excused (`Touching`).
`GoogleSettles` is the deep one: an attempt collides only if somebody has come since the pass began
(`Joined`: at least one newcomer per attempt made), or else what it has looked up is still so (`Linked`, `Unknown`), and then it does not collide.

`RulesHoldAlone` is about rules the services check with one query and rely on in another. `Rules` says of every request that nobody
has disturbed that what it has checked is still so (`Checked`): the newest code has rested, the quota has room, the account is not linked,
the threshold is free, nobody uses the label. A step either reads, and then everybody keeps what they had, or it writes, and then nobody else is
alone any more, so that only its own check matters (`Good`). What is left is one lemma for each action: from its check, or from the rows
it leaves alone, the rule follows (`Lawful`).

**Assumptions.** Row ids of different tables are different and `None`, `Absent`
and `Clean` are no rows (`RowsAreDistinct`, `AbsentIsNoRow`, `CleanIsNoRowValue`),
amounts are positive (`AmountsArePositive`, validated by the DTOs), the permissions the guards
name exist (`PermissionsKnown`), a custom role's id is not a built-in key
(`CustomIsNoKey`), the migrations seeded the built-in roles (`StartIsSeeded`),
some active account can manage roles at the start (`StartIsManaged`: the seed's Super Admin),
`None` is none of the values it stands beside (`NoneIsNoValue`, `NoneIsNothing`), every set of renditions has a tallest one
(`TiersNumbered`: they are heights), the scheduled job is none of the requests (`CronIsNoRequest`), the
titles, videos and sessions `Uploads` starts from are what a stopped process may leave: rows whose foreign keys hold and
videos that are PROCESSING or FAILED (`StartIsSound`), there are finitely many users at a time (`UsersAreFinite`), the bounds are numbers
(`BoundIsNatural`, `BoundIsNat`, `PagesAreCounted`, `TriesAreCounted`, `OtpLimits`, `LimitsOfTracking`), the workers of a conversion are numbered from 1
(`HandsNumbered`), Google says of one id the same whenever it is asked and never that it has no email (`IdentitiesStay`; the email of a Google account can change in
life, and then `GoogleSettles` is not claimed), the books and members the models start from are rows whose foreign keys and unique columns hold
(`StartIsSound` of `Books`, `Members` and `Catalogue`), names and labels are strings (`NamesAreStrings`, `WordsAreStrings`, which say only what the values are), catalogue
queries are what the DTOs let through (`QueriesAreValid`: pages and limits are positive, and only films are sorted by viewers or buyers), and what was bought is no
episode (in the start of `Catalogue`; purchases are written by the seed script only). TLC evaluates all of them. What `TitleLifecycle` asks
of its constants (`StatusesKnown`) `Uploads` assumes of its instance (`LifecycleStatuses`). No theorem
depends on the size of a bound or on the number of processes.

**Only model-checked.** Everything temporal under fairness (`EveryRequestEnds`, `RunsEnd`,
`LeftoversReclaimed`, `ClaimsEnd`), which the provers cannot treat. `StepsKeepRules` of `Catalogue`, and
`ReportsAreRight` of `Members`: reports are sums and orderings over sequences and folds, which would have to be proved by
induction over the data.

## Not modelled

`PROJECT.json` lists every component with its status. Left out for good:
lists that change nothing and stitch nothing together (transactions, finance, analytics, a member's own
history), audit rows (one insert beside each change; no
decision reads them), the SMS stub, notifications (single rows read and marked), bootstrap and
configuration, cryptography, the transfer of bytes, and the pushes over
sockets: what shows them is not in this repository and they carry no number to be ordered by.

Left out of modelled components: profiles and passwords (`updateProfile`, `changePassword`),
receipts, notes and the limits of deposits and withdrawals; descriptive fields, images
inside a book's text, the conversion of subtitle text, season grouping and the player's episode list;
requests on book categories (rows with a name and nothing else); the publish gates of the movie and
series controllers, which read before the service writes; `setAdditional` of the
peaks; validation of names and types of files. Purchase rows are written by the seed
script alone, so `bought` is data that never changes. The three queries of a member's deposits in the
network report are one step, as nothing relates them.

## Plan

What is left: `StepsKeepRules` of `Catalogue` as a theorem, from `CatalogueInv` and what each write changes of what a rule is about.

## Running the tools

In this directory:

    tlc -workers 2 -config MCMoneyDeposits.cfg MCMoney.tla
    tlapm Money_proofs.tla

`uploads`, `books`, `catalogue` and `members` take two to four minutes each, the others
two or less.
