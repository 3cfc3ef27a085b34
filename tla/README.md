# Verification of Musecat-Backend-Core

TLA+ models of the Go backend of Musecat (a PocketBase application), the TLC
runs that check them on small instances and the TLAPS proofs about them.

## The system

One Go process over one SQLite database.  `RunInTransaction` serialises
writers: a transaction sees and changes the database alone.  What is *not*
serialised is where the hard behaviour lives: a handler reads the clock or a
record before it asks for its transaction; cron jobs overlap with requests and
with themselves; a provider is called between two transactions; hooks and live
events run after the commit; the process may stop between any two of these.

| Component | State | Operations | Interacts with | Hard behaviour | What makes it correct | Modules |
|---|---|---|---|---|---|---|
| community (`handlers/community`) | posts, comments; per row: text, hash, edit window, translation status, attempts, lease, cached translations | create/update/delete post and comment, cron `RunDueTranslations` | cron, external translator | the provider call lies between two transactions; overlapping runs; edits that commit late; restarts | what readers are offered translates what they read; nothing deleted comes back; no row is stuck; calls per text are bounded | `CommunityTranslation`, `PublishedCommunity` |
| flag resolution (`handlers/arcade/flag`, `internal/flag_resolution.go`) | flags (open/solved, round, mode, deadline), reactions with level snapshots | create/delete flag, add/delete reaction, minute cron, nightly sweep, after-create hook | ledger, report settings, publication | clocks read before the transaction, votes switched or withdrawn, deadlines racing votes | a deadline only comes closer; only supported rounds solve a flag; every report ends | `FlagResolution`, `ReportOutcome` |
| experience ledger (`service/xp`) | `user_level.exp`, `user_level_log` | award, capped and cooled-down awards, publication back-fill, reversal | nearly every writing handler | idempotence by kind, rolling windows, caps, reversal of earlier grants | total equals the ledger; no grant twice; caps hold; reversals are exact | `XpLedger`, `XpWindows`, `XpEdits` |
| arcade game state (`handlers/arcade/game`) | entries, batches, revisions, the `game_v2` pointer | delta update with `base_state_id`, bulk version update, rollback | ledger, campaigns, catalog | optimistic concurrency, identity reuse | no lost update; an installation is active once; states never change | `ArcadeGames`, `ArcadeHistory` |
| arcade sections, photos, publication (`basic`, `hour`, `gtk`, `sns`, `memo`, `photo`, `public`) | pointers to immutable rows, changelog, atoms, proof of location | one update per section, upload, publish, roll back with a report | ledger, geography look-up | a look-up between read and transaction; checks before the transaction | edits change what they were asked to; publication is supported; rewards are paid once and as announced | `ArcadeSections` |
| messaging (`service/messaging`) | conversations, messages with sequences, read positions, inquiries, automatic replies | open, send, status, read, bot, block | notifications, accounts, arcades | retried sends, concurrent readers, roles that change | a send takes effect once; numbers have no gaps; badges agree with positions | `Conversation`, `MessageThread` |
| accounts (`handlers/user`) | users, bans, sessions | register, sign up, ban, withdraw, staff accounts, credentials | every guarded route | requests that entered before a withdrawal | withdrawn stays withdrawn; its block holds | `Accounts` |
| visits (`visit.go`, `checkin.go`, `passport.go`, `country.go`) | visits, check-ins, automatic country | visit, check in, passport, set country | ledger | judged before the transaction, local days and years | a visit is paid once; passports add up | `Attendance` |
| supporters and notice boards (`admin/supporter_*.go`, `arcade/notice`) | requests, roles, notices | ask, review, create/update/delete/list notices | ledger, accounts | asking outside a transaction; readers that expire rows | a supporter earned it; slots hold; nothing goes without a reason | `Supporters`, `ArcadeNotices` |
| campaigns (`arcade/campaign`) | one campaign, reports | set up, report, pages, photo campaign | game state, ledger, visits | progress against targets that change | rewards follow from reports; what is asked for is accepted; reviews end | `Campaigns`, `ArcadeLists` |
| game catalog (`gamecatalog`) | records with revisions, changelog | create, update, archive, restore, revert, replace links | game state, campaigns | replays and races of editors | nothing active under an archived record; the changelog tells all | `Catalog` |
| queries, search, ranking (`arcade/query`, `search`, `ranking`) | the candidate cache | read, invalidate | every arcade writer | builds beside writers | no answer older than its request; pages, search and boards agree | `Candidates`, `ArcadeLists`, `PeopleLists` |
| notifications (`service/usernotification`, `announcement`) | inbox, browsers, push queue, stories with cursors, the Aime watch | publish, send a batch, subscribe, deliver, list, probe, drain | cron, reports, accounts | restarts in a batch, browsers that change hands, probes racing receipts | the right people are told, once; what was begun ends | `Notifications`, `AimeRecovery` |
| statistics, subway, geocoding, application shell, migrations | counters, data files, routes, schema | reads and single-row writes | – | little | – | – |

`PROJECT.json` lists every component with its sources and status, and under
`hazards` the places where this code is hardest to test.

## How the project is laid out

A component module declares constants with a named assumption, its variables,
one action per handler or transaction, and its properties.  `PublishedCommunity`,
`ReportOutcome`, `MessageThread` and `ArcadeHistory` are abstract specifications
that the detailed modules implement.  `XpLedger`, `XpWindows` and `XpEdits` hold
the ledger as operators that take the accounts and return them changed, so that
handlers compose them.  A module `MC...` instantiates one or several components
for TLC.

The instances share one technique.  A variable `focus`, chosen at the start and
never changed, restricts a behaviour to a group of operations whose interplay is
the question: all of a module's operations together would be far too many states
and most of their combinations say nothing.  Every action belongs to some focus,
and one run covers all of them.

| Run | Module, configuration | Foci |
|---|---|---|
| `translation_rows` | `MCCommunityTranslation`, `CommunityTranslation_rows.cfg` | – |
| `translation_attempts` (violation) | same module, `CommunityTranslation_attempts.cfg` | – |
| `flags` | `MCFlagResolution`, `FlagResolution_all.cfg` | votes, xp |
| `conversations` | `MCConversation`, `Conversation_all.cfg` | dm, inquiry, bots, entry |
| `games` | `MCArcadeGames`, `ArcadeGames_all.cfg` | states, xp |
| `games_revisit` (violation) | same module, `ArcadeGames_revisit.cfg` | states, xp |
| `sections` | `MCArcadeSections`, `ArcadeSections_all.cfg` | basics, photos, texts, pay |
| `people` | `MCPeople`, `People_all.cfg` | names, bans, staff; visits, years; asking, roles, slots, reading |
| `operations` | `MCOperations`, `Operations_all.cfg` | votes, machines, setup; race, tree, use |
| `catalog_revert` (violation) | `MCOperations`, `Operations_revert.cfg` | race, tree, use |
| `lists` | `MCCandidates`, `Candidates_all.cfg` | race, lists, people, posts |
| `notices` | `MCNotifications`, `Notifications_all.cfg` | sending, devices, reading, aime |

A property of a run is often a conjunction of a module's named properties; the
conjunctions stand at the end of the `MC` module, or of the component when its
proofs use them.

## What does not hold

Three runs are expected to fail; each checks what the repository's own text says.

* `translation_attempts`: "Translation retries are bounded to five attempts"
  (`docs/architecture-contract.md:136`) does not hold for posts.
  `completeTranslation` knows its claim by the attempt number alone
  (`worker.go:166`).  `UpdatePost` resets the number, so a claim made after a
  late edit can carry the number of an older one; the older answer finds a
  changed hash and resets the attempts of the newer, live claim.  Comments
  cannot be edited late: `CommentCallsBounded` holds, and is proved.
* `games_revisit`: "Revisiting an entry already counted in the window grants 0"
  (`docs/architecture-contract.md:600`, `docs/supporter-api.md:27`) does not
  hold.  A grant is for the entries its request names, those that older grants
  paid for included, and brings the difference to the target of the window
  (`service/xp/xp.go:506`).  When the older grant leaves the window, its
  experience no longer counts but the newer one's names do: the target is open
  again, and an entry that the window counts is paid once more.  What does hold
  is `WindowCapped`, and it is proved.
* `catalog_revert`: a revert is to give a record back what it was
  (`docs/openapi.yaml:5880`).  The stored snapshot is read as raw JSON and never
  as a map, so `management.go:487` takes every change for a creation and
  archives the record.

Reading the code for the models showed more places where it differs from its
contract.  No run is spent on them:

* deleting a flag cascades to its reactions without reversing what they paid
  (`flag/delete.go:82` against `docs/architecture-contract.md:601`), and a flag
  deleted while its arcade is hidden keeps its own reward;
* the distance an edit may move an arcade is measured from the place read before
  the look-up, not from the one it replaces (`basic/update.go:320`);
* a request that sets the profile country may overwrite the automatic one by a
  ranking older than the last visit (`user/country.go:177`);
* a campaign page may offer a revert that the version's cabinets refuse
  (`campaign.go:513`);
* a ban of a withdrawn account stores the hash of its tombstone address
  (`user/ban.go:507`);
* two overlapping asks of one user make two supporter requests
  (`supporter_request.go:20` against `docs/supporter-api.md:153`);
* an edit whose base is stale may be written: "stale values return 409"
  (`docs/openapi.yaml:2597`, `docs/arcade-changelog.md:376`), but the base is
  compared in the transaction only (`basic/update.go:288`), with no regard to what
  was read and merged before it (`:234`, `:243`).  A request that names revision 1
  while 2 is present passes if a rollback brings 1 back during the look-up, and
  writes its merge with 2 over 1.  `BasesReturn` shows that there is no other way.

## The community and its translation worker

`CommunityTranslation` models `worker.go`, and of `post.go` and `social.go`
everything that writes posts and comments.

| In the module | In the code |
|---|---|
| `row[i]` | a `community_post` or `community_comment` record: status, text, `original_hash`, `editable_until`, `translate_after`, `translation_status`, `translation_attempts`, `translation_started_at`, the cached translations |
| `pending` | `UpdatePost` requests that have read the clock and wait for their transaction |
| `run[w]` | one activation of `RunDueTranslations`: its start time, the candidates still to do |
| `job[w]` | the claim whose provider call is going on |
| `CreatePost` ... `DeleteComment` | the handlers, one transaction each; `BeginUpdatePost`/`UpdatePost` are the two halves of the one handler whose clock is read before its transaction |
| `StartRun`, `ListComments`, `EndRun` | the listing queries and the end of a run |
| `Claim`, `CompleteTranslation`, `FailTranslation` | the three transactions of the worker |
| `Crash` | the process stops; rows stay, runs and requests are gone |

A text is a model value and stands for its own SHA-256 hash; `cached` names the
text that the stored translations translate.  `calls` is a history variable:
how often the provider was asked about the current text.

`PublishedCommunity` is what readers are promised: a text appears, may be
revised, may get the offer of a translation *of that text*, and may be removed
for good.  `PublishedSpec` says that requests and cron runs together implement it.

### Runs

| Run | Instance | Shows |
|---|---|---|
| `translation_rows` | one post with one late edit and one comment, two overlapping runs, one restart, clock to 3 | `CachedIsCurrent`: what is cached translates the current text; `RowsAgree`: comments follow their post, `ready` rows have a translation, leases can be taken back; `LateAnswersChangeNothing`; `CommentCallsBounded`; `PublishedSpec`: the refinement |
| `lists`, focus posts | two posts, a batch of one, two runs, one restart, fair | `EventuallySettled`: a post is translated, deleted or out of attempts in the end; the batch limit starves nobody |
| `translation_attempts` | one post, one late edit | **violation** of `CallsBounded`, see above |

Bounds: two attempts stand for five (first, last, and the step between them all
occur), two runs are enough for every overlap a claim can meet (an owner and a
rival), an edit window of one tick and a lease of two let claims expire while a
provider call is going on.  The clock stops at `MaxTime`; in the fair runs rows
are only created early enough for every deadline to pass before that.
Symmetry (of runs) is used in safety runs only.

Fairness (`FairSpec`): the cron scheduler starts a run every minute, a run's
steps end because the provider call has a timeout, a request gets its
transaction, time passes.  Nothing is assumed of authors, and nothing of which
answer the provider gives.

### Proofs

`CommunityTranslation_proofs` proves, for all constants that satisfy the two
assumptions of the module (ids are disjoint, limits are naturals):

* `Typing`: `TypeOK` is inductive as it stands.
* `TranslationsAreCurrent`: `CachedIsCurrent` needs three companions to be
  inductive: `CommentsFollowPost` (an active comment has an active post, so
  erasing a post's comments erases all that could be offered), `ReadyIsCached`,
  and `ProcessingHasLease`.
* `ImplementsPublished`: each action maps to one action of `PublishedCommunity`
  or to a stutter; the only non-trivial steps are the answer (an `Offer`, by
  the hash check) and the deletion of a post (one `Remove` of many items).
* `ClaimsOrdered` and `CommentCalls`: a run only holds claims on rows whose edit
  window had closed when it started, so a comment's text cannot change under a
  claim and its attempts count its provider calls: `CommentCallsBounded`.
* `RowsStayInAgreement` and `LateAnswers`: `RowsAgree` is what `CachedIsCurrent`
  needed, with the types.  That a claimed comment keeps its text follows from the
  order of claims; that a ready row stays ready from the hash and the attempt an
  answer must meet: a row that is ready is not in processing, so no answer of an
  older claim finds it.

With these every safety property of the module is proved.
Liveness stays with TLC (the prover does not handle `ENABLED`).

### Not modelled here

Wording, photos, likes, badges and pagination; the provider's answer is only
"an answer" or "a failure"; a save that fails after an answer is the restart
case (the claim is lost, the row stays).

## Fault reports and their resolution

`FlagResolution` models `handlers/arcade/flag` and `internal/flag_resolution.go`
for one arcade, over the ledger operators of `XpLedger`.

| In the module | In the code |
|---|---|
| `flag[f]` | an `arcade_flag` record: solved or not, `resolution_vote_state`, `_mode`, `_round`, `_resolve_at`, `created`, `updated` |
| `reactions` | `arcade_flag_reaction` records with round and level snapshot |
| `hooks` | the after-create hook of each committed reaction, still to run |
| `arcade` | `public`, and whether `report_settings` send reports elsewhere |
| `xp` | `user_level` and `user_level_log` |
| `CreateFlag`, `DeleteFlag`, `Report`, `Vote`, `DeleteReaction` | the requests; `UpdateArcadeFlagReaction` is split by what the body asks for |
| `AutoSolve`, `StaleSweep`, `AutoSolveForFlag` | minute cron, daily sweep, hook |
| `Publish`, `Unpublish`, `Redirect` | the parts of other handlers that flags depend on |

A request that fails rolls back, so a request that would fail is not a step,
not even for the reconciliation it began with.  `now` is the clock the handler
read before its transaction, at most `Lag` ticks ago.  Rounds are counted where
the code stamps them with nanoseconds.  `Reconciled` is
`ReconcileFlagResolutionTx` as a function on the record; `Touched` is the save
that refreshes `updated`, which the sweep reads.

`ReportOutcome` is the promise: an open report may be put up, its deadline then
only comes closer, and it ends by the deadline or by a manager's word, for good.

### Runs

| Run | Instance | Shows |
|---|---|---|
| `flags`, focus votes | one report, voters of levels 0, 10, 30, three reactions, lag 1, then silence; punctual cron | `OneVoteEach`; `ResolutionIsSupported`; `DeadlineMeetsScore`; `OutcomeSpec`, the refinement of `ReportOutcome`; `EventuallyResolved`: every report is solved or withdrawn in the end |
| `flags`, focus xp | the owner, who earns experience, and an official account; arcade published, hidden, published again, redirected; three reactions | `LedgerAddsUp`: totals equal the log; `ReversalIsExact`: a reaction taken back keeps nothing |

Bounds: three voters whose levels lie in different delay classes make scores of
both signs; three reactions allow a vote, a switch and a second round; delays
keep their order (3, 3, 2, 2, 1).  `MaxTime` stops the clock, `LastRequest` the
users: silence must follow for a window to pass, otherwise nothing could be
shown of "in the end".  Cron jobs run at most one tick late (`Latency`), which
the fairness of `AutoSolve` and `StaleSweep` (PocketBase's scheduler) alone
would not give with a clock that stops.  Nobody is assumed to vote and no hook
to run.

### Proofs

`FlagResolution_proofs` proves the safety properties of focus votes for any
users, reports, delays that fall with the score, windows and lag.  The
inductive invariant `Inv` asks of each flag that it be `Sound`: besides the
three invariants, that no vote belongs to a round that has not begun (else an
old vote would count in a new round), that an absent flag has no reactions, and
that an unsolved flag carries no manager's "fixed" (else the refinement could
not tell how a report was solved).  The heart is two lemmas about
`Reconciled`: on a sound flag and unchanged votes it solves or does nothing
(`ReconciledQuiet`); after a change of votes it restores soundness from the
weaker `BeforeReconciling` (`ReconciledSupported`, `ReconciledMeetsScore`).
Scores stay opaque: nothing here depends on how levels add up.

`LedgerAddsUp` and `ReversalIsExact` follow from a second invariant, `BooksInv`:
every total is balanced by the rows (`Balanced`), a user has one row of a kind,
and each row is `Permitted`, that is, no row rewards a reaction not yet made or
one of somebody else, and no reaction still present was taken back before.
Without the last part a withdrawal could find that it had been done already and
pay nothing back.  One lemma on `Award` (`AwardBooks`) serves every step.  At
publication the owner is paid for what there is in an order the code does not
state; `AwardsStay` shows that a fold of awards over a finite set keeps what
each of them keeps, whichever comes first.  `BooksInv` is proved beside `Inv`,
which tells that a user has one vote to switch.  Liveness stays with TLC.

`LedgerTheorems` holds what these proofs, and those of other modules, need about
sums.  A sum over a set is a recursive function behind a `CHOOSE`; that there is
one (`SumsExist`) and only one (`SumsAgree`) is shown by a smallest set that
would refute it, for which well-foundedness of strict inclusion on finite sets is
enough.  From these come the laws used: what one more row adds (`GainedWith`),
and that more rows which take nothing back do not bring less (`GainedMonotone`).

### Not modelled here

Which game entry a flag is about, photos and messages, the notifications and
analytics rows written in the same transactions, and failing saves.  A user
without a username (`Users \ Named`) earns nothing, as in the code.

## Private messages and inquiries

`Conversation` models `service/messaging` for one arcade and the team's inbox.

| In the module | In the code |
|---|---|
| `thread[c]` | a `messaging_conversation` with its `messaging_party`, `messaging_inquiry` and `messaging_message` rows; `last` is `last_sequence`, `latest` the sequence of `last_message`, `bot` the inquiry's bot columns |
| `read[c][p]` | `messaging_read.last_read_sequence` |
| `notices`, `unread` | `user_notification` rows of kind message, and those without `read_at` |
| `owners`, `banned`, `receive`, `blocks`, `settings` | what decides who may write and who hears of it |
| `CreateDM`, `CreateInquiry`, `Send`, `SetStatus`, `SetRead`, `Preference`, `Block`, `Unblock` | the handlers, one transaction each |
| `Acknowledge`, `AcknowledgeAll` | `notifications.Read` |
| `SetArcadeBot`, `UpdateInquirySettings`, `ChangeOwner`, `ChangeBan` | what owners and administrators change meanwhile |

A repeated request is answered from what the first one stored; it changes
nothing, so it is the absence of an action, and `OneOfEach` says that no second
message appears.  The pieces of a transaction are functions on the thread:
`Saved` (`saveMessage`), `StatusChanged` (`changeInquiryStatus`), `BotReplied`
(`appendBotReply`), put together by `Continued` as `SendFor` and `CreateFor` do.
A payload keeps what `payload_hash` tells apart.  A generated key is a number,
which no client chooses; the key of an automatic reply to a request names that
request (`for`).  `MessageThread` is the promise: a numbered log that only
grows, without repetitions, and positions that only advance.
`Transitions` follows the code: responders choose a status, requesters do not, as
`docs/architecture-contract.md:1247` has it (line 1095 of the same document still
gives requesters *waiting* and *solved*).

### Runs

| Run | Instance | Shows |
|---|---|---|
| `conversations`, focus dm | two users, two conversations, three messages each; blocks, opt-outs, bans | `OneOfEach`: one conversation a pair, each message once; `UnreadIsHonest`: what was read is acknowledged and no unread notification hides behind a read one |
| focus inquiry | an inquiry to the arcade or the team while owners come and go, the requester becomes one, staff are called in | `HistoryAddsUp`: numbering with status entries and the status history; badges that agree with positions; `HistoryKept`: the refinement of `MessageThread` |
| focus bots | three configurations of automatic replies, edited meanwhile | `BotAnswers`: choices are open under the newest message only and answered once, in the configuration the inquiry began with |
| focus entry | two inquiries of a user and a guest, two keys, two minutes | a repeated inquiry opens no second case, whoever wrote its first message; `WithinLimits`: limits count what they should |

All properties are checked in all four foci.  Bounds: two or three people take
every role (requester, peer, owner, staff, stranger); two conversations can
collide on a pair or on a key; three messages hold a text, an answer and a status
entry in every order, five a reply, the chosen answers and the status entries
between them.  Limits stand at two and three where the code has 10, 30, 60 and
100: the counting rules are the code's, the numbers are not.

### Proofs

`Conversation_proofs` proves every property of the run for any conversations,
people, configurations, keys, limits and clock that satisfy the four assumptions
of the module.  The inductive invariant is `Inv`.  Of each conversation it says
(`Kept`) that it is numbered, that the keys clients choose and those the service
generates do not meet, that its status follows from its entries, who may have
written what, and that every automatic reply has the choice that led to it; and,
between two requests, that each choice has its answer (`Answered`) and an inquiry
its first message (`Begun`).  What it adds to the properties is what the code
relies on without saying so: a generated key is the number of its message
(otherwise a client could hit on it and a status entry swallow a message), what
is said on the requester's side is by the requester (otherwise badges and
positions would count different messages), and every notification was caused by a message
that concerns its recipient (otherwise `BadgesAgree` could not survive a change
of owners).

A handler's transaction is built from `Saved`, `StatusChanged` and `BotReplied`;
each has lemmas that say which parts of `Kept` it preserves, and `Writes` says
what a request does to the rest of the state: one conversation becomes another,
and notifications of one new message come to it.  `WritesKeepInv` then serves
every handler that writes.  `ImplementsThread` maps a write to `Post` and
`SetRead` to `Read`.

`LimitsHold` needs an invariant of its own, `LimitInv`: `rateLimit` looks back
from a request for a minute, while the property is about every minute there ever
was.  A window that a new message falls into ends no later than a minute after
the window began, so all it holds was found by the look-back when the request
was let in (`Lately`); windows of the past gain nothing.  Cardinalities need
finite sets: finitely many conversations have begun, each with finitely many
messages (`Timed`), even if `Conversations` is infinite.

### Not modelled here

Photos and attachments, reports of messages and their review, the legacy inquiry
adapters, the arcade's own visibility (it is taken to be public), withdrawal (a
ban stands for every restriction of an account), the refusal of an inbox with
more than 200 responders, push delivery, and the live hub.

## The games of an arcade

`ArcadeGames` models `handlers/arcade/game` for one arcade, with the bulk version
update, the rollback and the visibility switch of `handlers/arcade/admin`.

| In the module | In the code |
|---|---|
| `entry[e]` | the series of an `arcade_game_id` record: one installation; `e` tells the batch and the place in the delta that created it |
| `batch[b]` | an `arcade_game_history_batch` with its `arcade_game_history` rows; `base` is `state_from` of its log |
| `game` | `arcade.game_v2`, 0 while empty |
| `changelog` | the `arcade_changelog` rows of the games; `seen` and `named` (the base of the request, the entries it names) are history variables |
| `UpdateArcadeGame` | the handler: `materializeUpdateGameDelta`, `updateArcadeGameTx`, `updateArcadeFieldsTxWithLogs`, the award, in one transaction |
| `Assignments`, `Reusable`, `Latest` | `findReusableGameEntryID` for one added game after the other |
| `Revised` | `revisionChanged` and what follows from it for `last_modified_by` and `_at` |
| `Storable` | `validateUpdateGameBody` and the unique indexes |
| `BulkUpdateArcadeGameVersion`, `RollbackArcadePart`, `UpdateArcadeStatus` | the handlers of the same name |
| `AwardGameEdit` (`XpWindows`) | `AwardArcadeGameEditExpTx` |

A delta carries any base that ever was a state: its author read it at some time
before.  Location, quantity, price and tags of a row are one `detail`, because
the code only compares them.  Two entries that were last used in one batch and
created in one batch may be chosen in either order (their ids are random).
Batches are numbered in the order in which they were written, so a batch number
is also its time.

`ArcadeHistory` is what the history of a part promises: values never change, the
pointer goes to a new one or back to an old one, and the changelog chains.

### Runs

| Run | Instance | Shows |
|---|---|---|
| `games`, focus states | two users, two versions of one series and a third of another, one cabinet or none; three states, four moves, deltas of two items | `NothingLost`: no change is lost to a stale base; `StatesAreSound`: every state ever written can be returned to; `IdentityKept`: installations are recognised when they return and never taken twice; `HistorySpec`: the refinement of `ArcadeHistory` |
| `games`, focus xp | deltas of one item, or of one modified and one added, and rollbacks while the arcade is published and hidden, a window of two, clock to 3 | `WindowCapped`: what edits of the games earn in any window stays under the cap, and each grant brings its window to two per installation, exactly, up to the cap |
| `games_revisit` | the same | **violation** of `RevisitsGrantNothing`, see above |

Bounds: three states and four moves hold the stale base whose state came back
(write, write, roll back, write), removal and return of a machine, and two
machines that compete for one former installation; two items let one delta
remove a game and add it again.  A cap of 4 instead of 10 is reached by two
installations.  Symmetry exchanges the users where their rights are the same.

### Proofs

`ArcadeGames_proofs` proves every property of focus states, and that rows name the author who made
them what they are (`Attributed`), for all users,
versions, cabinets, contents and bounds.  The inductive invariant is `Sound`:
`TypeOK`, `StatesAreSound` and `Dated`, which says that entries, bases, rows and
moves only refer to what is older; without it a new entry could not be told
fresh, nor a state of the past unchanged.  `DeltaWrites` and `BulkWrites` reduce
both handlers to one kind of step, `Written`, which states what a new batch
promises about each row (where it belongs, who wrote it, which installation it
is).  Each property is then a statement about one batch or one move that reads
its past only: the past stays (`Extended`, `Returned`), and the new one follows
from `Written`.  `ImplementsHistory` maps a written state to `Replace` and a
rollback to `Return`.

`WindowsAreCapped` proves `WindowCapped` for windows of any length and any cap,
from a second invariant, `Windowed`: grants are positive, of the past and finitely
many, each for finitely many installations.  A grant meets the target of the
window that ends with it and is in no earlier one (`AwardCapped`); as time passes
a window only loses grants, and as these are positive the rest is no more than
it was (`LaterCapped`).  That the claim of `games_revisit` is false shows here
too: nothing bounds the names of a window by what it paid.

### Not modelled here

Wording of the diffs, prices and tags beyond "the same or not", legacy imports,
several arcades in one bulk update (one transaction, arcade by arcade), changes of
the catalogue (`Supports` is fixed), the report sent along with a rollback, and
the campaign checks, which write batches as well (`Campaigns`).

## The sections of an arcade, its photos and its publication

`ArcadeSections` models one arcade from draft to publication: `basic`, `hour`,
`gtk`, `sns`, `memo`, `photo` and `public` of `handlers/arcade`, the rollback
with its report, and the awards of `XpEdits`.

| In the module | In the code |
|---|---|
| `values[p]`, `ptr[p]` | the rows of section `p`, append-only, and `arcade.<section>`; 0 is an empty pointer |
| `log` | `arcade_changelog` |
| `atoms`, `owner` | `arcade_photo_atoms`: absent, pending, public or deleted; who uploaded them |
| `req` | what a request read before its transaction: an edit of the basics during its geography look-up, a publication during its checks |
| `arcade` | `public`, closed, country, and the basic revision the proof of location is bound to |
| `reports` | `arcade_request_admin` rows about changes |
| `stood` | history: where the creator proved to be |

Each section implements `ArcadeHistory` by itself (`HistoriesKept`).  Geography
is a table of constants.  Run `sections`, all of whose properties hold in all
foci: `PartsAreSound` (pointers, log and photos of every revision resolve, also
of those a rollback can bring back), `RewardsAreExact` (a part is paid once in a
window, a photo once for ever, and the preview announces what publication pays),
`EditsAreExact` (an edit whose base is what it read takes back nothing; one with
another base is written only after what it read had replaced the base and a
rollback brought the base back; a draft hidden meanwhile is protected, a report
comes only with its rollback, histories are kept), `PublicationIsSupported`.  The
base of an edit is any revision there is, or none: the code does not look at it
before the transaction.  Bounds: four changelog rows hold an edit that crosses
another and a rollback, and are what the one edit above needs whose base returns
(create, edit, roll back, commit); the fourth is a commit of such an edit always,
and ends the behaviour; one request in flight races with the atomic actions; two
photos against a cap of two; time reaches past one window; an experience of 24 lets
one edit cross a level.

### Proofs

`ArcadeSections_proofs` proves all four properties for any users, parts, places,
tables of geography, photos, requests and bounds.  `Inv` has a part for each
group of variables, and one lemma for each says how any step may change it
(`PartsStep`, `FlagsStep`, `AtomsStep`, `ReportsStep`, `XpStep`, `ReqStep`), so
that the properties are proved from six kinds of change and not from the
twenty-odd handlers.  Three parts of `Inv` go beyond what the properties say:

* The place of the revision a proof of location is bound to is in `stood`
  (`ArcadeInv`); `PublicationSupported` needs it, as the proof may be older than
  the basics that are published.
* A publication under way holds a level that is at most the present one
  (`ReqInv`).  It is kept because no step takes experience away (`Richer`) and
  levels rise with it (`LevelsRise`); a reward that could be reversed here would
  let a request publish with a level it no longer has.
* A row of the ledger for a photo is of a public photo (`PhotosPaid`), so a photo
  that is promoted was paid to nobody yet.

`RewardsStayExact`: photos are paid in turn until the cap is reached, by a
recursion over the set of photos behind a `CHOOSE`; `GrantsExist` and
`GrantsAgree` show that there is one such function, `PhotosAwarded` what it pays.
A window that ends at any moment holds no more than the cap (`LaterAlbum`), by the
argument of `WindowsAreCapped`.  What the preview announces equals what a fold of
awards over `Dues`, in any order, pays (`PublicationPaid`, by counting the kinds
that are new).

`HistoriesStay` shows that each part implements `ArcadeHistory` under a mapping
that has the part as parameter.  The path of a part is a function by recursion
over the log (`PathOf`); `PathsExist`, `PathsAgree` and `PathGrows` unfold it by
the smallest row that would refute them, as induction over the log cannot be
cited.

`BasesMustReturn` needs a second invariant, `Traced`: every revision of the basics
has a row that brought it, the present one the last of them; and if the base of a
request under way is not what it read, a row for the base comes before one for what
it read (`Overtaken`), and if the base is present again, a third comes after both.
It begins so because what is read is present and its row the last; it stays so
because rows stay and the pointer moves only with a row that says where to
(`BasicsStep`).  `EditsStayExact` joins the five: `ReadBases`, `BasesMustReturn`,
`DraftsStayProtected`, `RollbacksAreReported`, `HistoriesStay`.

## Accounts, visits, supporters and notice boards

`MCPeople` puts three independent components side by side, and a behaviour uses
one of them.

`Accounts`: an account is its address, username, official tag and whether it is
withdrawn; the tombstone address and name of a withdrawn account are its id.  A
request holds the record it was authenticated with (`call`) and runs later.
`CreateOrUpdateUserBan` is two steps, as the address is read first.  Properties:
`WithdrawalBlocks` (the address given up stays blocked until the promised end,
unless staff touched the ban later), in `AccountsAreSound`; `WithdrawnIsFinal` and
`NameIsChosenOnce`, in `OnlyTheirsChanges`.  Foci: names, bans, staff, each with
two requests in flight over three days, a cooldown of one.

`People_proofs` proves both for any accounts, requests
and bounds that satisfy `AccountsAssumption`.  The invariant is `Sound`.  Besides
the types it says that an account that does not exist is blank and has neither
sessions nor requests; that a withdrawn one has no session; that the tombstone of
an account is on no other, without which a withdrawal could meet a taken username;
and that the record of the ban itself, not just some record, carries the hash and
the end of the block (`Blocked`), as staff may lift another record that happens
to hold the same hash.  The action properties follow from `OneAccount`: a step
writes one account at most, of somebody who has not withdrawn.

`Attendance`: time in half-days, a timezone as a shift, a year of one day.  A
visit is judged before its transaction; the profile country is three statements.
`VisitsAddUp`: a first visit is paid once and no local day twice, the experience
is the sum of its rows, and the passport of all years is the sum of each.  Foci:
visits (two requests in flight), years (one, over more days).

`People_proofs` proves `VisitsAddUp` for any arcades, places, timezones, visitors
and number of requests, from `AttendanceAssumption`: arcades are numbered, visitors
have a username, and an arcade that has a place has it at a number.
`AttendanceInv` types what requests have read, says that the visit rows of the
ledger are numbered by visits, so that the next visit is never taken for one
already paid, and that the experience of a user is a sum over its rows, which
`OneMoreVisit` and `CheckInKeeps` carry from step to step.  That the profile
country is one at all takes a maximum of a lexicographic order (`SomeIsTop`).  The
passport is shown to add up for any sequence of visit rows (`RowsAddUp`): visits,
days, first visits and countries are parts of a set (`SumOfParts`), the arcades
that are new are as many as there are arcades (`NewOnce`), and the legs within each
year are at most those of all (`SumOfSums`).  `Stamped` is such a sequence, because
rows can be put in the order of their times whatever breaks ties (`OrderExists`).

`Supporters` and `ArcadeNotices`: asking reads the ledger and saves later; a
decision gives the role; notices have modes with limits, dates and readers that
mark lapsed rows deleted one by one from a list they read before.  `BoardsHold`:
a supporter has an approved request and had the experience, one required and at
most `PinnedLimit` pinned notices are shown, a notice goes only if it lapsed or
was deleted, and only an author, staff or, for notices nobody wrote, the official
account change a notice.  Foci: asking, roles,
slots, reading.  Three people take the parts of staff, official account and
creator; three notices compete for two slots and one.

`People_proofs` proves `BoardsHold` (`BoardsStand`) for any people, ledger, notices
and limits that satisfy `SupportersAssumption` and `NoticesAssumption`.  The
invariant is `SupportersInv` and `NoticesInv`, with one lemma for each action.
The first says that an ask under way already carries an experience its user had
(`Scored`), as the ledger moves on before the request is saved; that stays true
because a sum over the first rows does not change when rows are added
(`ExpStays`).  The second says of the rows (`Board`) that the slots fit, that
everything whose day came while it was kept is noted and that no two notices were
created at one moment; of a request under way, that its tags were rights of its
user (`Writing`); of a reader, that all it is still to mark did lapse and that its
answer is in order (`Reading`).  `RowChanges` is the step all writers share;
`WrittenByTheirs` follows from `TheirsChange`.  That
the answer exists at all is proved too: `ListedBefore` orders the shown rows
(`RowsRanked`), and finitely many ordered rows have a list (`ListingExists`, by a
smallest counterexample).

## Campaigns and the game catalog

`Campaigns`: one campaign, whose reports move a machine to the new version or
back.  `states`, `present` are the game states reduced to version and cabinet;
`reports` is `arcade_campaign_check`; `purse` the ledger.  `CampaignsAddUp`: each
reward follows from a report, once a user and direction, and what pages and map
ask for is accepted by the handler, though list, map count and handler are code
of their own.  `StepsAreMeant`: a report is stored with the state it left the
arcade in, and a review that ended does not start again by itself.

`Catalog`: records with a revision the next editor must name, links of versions
and cabinets, and the changelog.  An operation looks for an earlier run of itself
before its transaction (`Enter`), the handlers change one record each, and
`ReplaceCompatibilities` several.  `CatalogStands`: nothing active stands on an
archived record, and what is in use is not archived.  `ChangesAreTold`: each
record's rows chain, the last one is the record, and an operation id is spent
once.  `RevertRestores` does not hold, see above.

Bounds of `operations`: two users and three machines in two arcades of different
countries, one of which runs the old version only in one cabinet; four reports
hold report, correction and two verdicts; a window of two days.  The catalog has
two makers, a series, two versions, two cabinets, three operations, two requests
in flight.

`Operations_proofs` proves `CatalogStands` and `ChangesAreTold` for any catalog,
operations and requests.  It assumes that records of different kinds are in tables
of their own, that there is a finite number of cabinets, and that at the start
nothing active stood on anything archived, which the migration that added the
flag made so.  The argument: every step that writes is of one kind (`Told`), rows
of different records, each telling what it found and what it left, with new
operation ids; for the one-record handlers that is one row (`AcceptTells`), for
`ReplaceCompatibilities` one row for each link, in any order (`LinkRowTells`,
`SetToSeqIs`).  From `Told` alone, `ToldParents` shows that parents stay active: an
archived record had no active children, and a record that comes back stands on
active ones that no row of the same step takes away.  `ToldHistory` shows that the
chain grows by its last link; the greatest row of a record, which the chain is
about, exists by well-foundedness (`Greatest`).  The invariant, `CatalogInv`, adds the
types of rows and requests, that a row's record exists, and that a campaign names
cabinets.

It also proves `CampaignsAddUp` and `StepsAreMeant` for any games, arcades,
cabinets and campaign bodies, from the assumption that the games are finitely many
and start at versions their cabinets run, and that requests are of the types the
handler decodes.  `CampaignsInv` says what every step keeps: states are only added,
with games of their arcade at versions their cabinets run (`MoveKeeps`,
`MovedRows`); a report names a state that had its game, and reports come in the
order of time; grants and reports agree, user by user and target by target
(`OldPaid`, `NewPaid`, `FullyPaid`), which `AwardGrants` and one lemma for each kind
of report keep.  The pages follow from it: the only row a report changes is its own
machine's, so that the move is refused for no other row (`MovesAre`); a review is
open for as long as a revert is allowed because reports come in the order of time
(`RevertAllowed`); the number on the map is a sum over arcades of the parts of the
set the list counts (`SumOfParts`); and a review that ended stays so because its
first report stays and the weights of the reports since only grow (`ReviewGoesOn`).

## Lists, search and rankings

`Candidates`: the cached snapshot behind all public lists.  A writer commits and
then its hook raises the generation (`Raise`) and drops the entry (`Drop`) in two
steps; readers of one generation share a build (`flight`), which reads the
arcades and then the rows they point to, which are immutable; `Store` compares
the generation and stores in two steps of the code, so a stale entry may be
stored, and is never used.  `AnswersHold`: an answer holds every change that was
answered before it; a user search shows nobody who has withdrawn; every request
ends.  Fairness: readers and builds are goroutines that run; writers, hooks,
new requests and failures are not assumed.

`CommunityTranslation_proofs` proves, for any number of readers, writers and commits,
that no stale entry is used: `AnswersHoldChanges` (`AnswersAreCurrent`, the part of
`AnswersHold` about the cache) and `StoredIsCurrent` (`CandidatesTypeOK`,
`CacheIsCurrent`).  The assumption is that the bound is a natural and that
`Nothing`, the absence of an entry or a hook, is not itself one.  The answer compares two generations, the
promise is about commits, so the invariant (`CandidatesInv`, which the run checks
too) relates them: the generation is the number of commits whose hook has raised it
(`Raised`; no two hooks are of one commit, so a raise adds exactly one), and an
entry of the present generation (`Sound`) holds all of those, wherever it is: in the
store, in a build after its first read, or in a request.  A commit keeps that, as its
hook has still to raise; a raise does, as it leaves every entry a generation behind;
a build reads every commit there is.  A writer is answered after its hook dropped the
entry, hence after it raised.  That an entry with the last commit is the database
itself gives the other theorem.  That requests end, and what the lists say of a
snapshot, stays with TLC.

`ArcadeLists`, `PeopleLists`: lists as functions of rows, checked for every
combination of three arcades out of a few looks, and of four users out of four
faces.  Among the looks are an arcade with two equal machines, whose counts add up,
and, at one place, an arcade with neither name nor address, which no nearby list
shows (`list_arcades_by_series.go:163`); the games of a look are a sequence for the
sake of the former.  The photo campaign reads its live arcades in one step here; the
code reads them one by one (`photo.go:132`).  `ListsAddUp`: pages put together are the list, in order, country totals
agree, the bounded insertion of the search equals sort-and-cut, the photo
campaign asks for nothing hidden by now, rankings agree with ledger and privacy,
and the level by square root equals the level by counting.

## Notifications and the Aime watch

`Notifications`: accounts, the inbox, browsers (`device`), what a browser said
about an arcade's reports (`pref`), the push `queue`, stories with a cursor, and
one reader of an inbox (`browse`).  `SendBatch` is one transaction of the fan-out
worker: a batch of accounts after the cursor, so a restart between batches is no
step of its own (nothing is kept outside the database).  `AimeRecovery` adds the
watch: probes with their observations, receipts of the operators' channels,
subscribers, and `DrainAimeRecoveries`.

`TheRightOnesAreTold`: a push belongs to who has the browser now, an opt-out has
none waiting, everybody who was there at publication is told and nobody who came
later, and the pages of an inbox leave nothing out while it changes.
`WhatIsBegunEnds`: every published story ends or is archived, a recovery is
proven over the whole confirmation time and never taken back, and all who asked
are told.  Fairness: weak, of `SendBatch` and of `DrainAimeRecoveries`, which the
docs say are scheduled (`docs/architecture-contract.md:1193`, `:1313`).

Bounds of `notices`: three accounts with a batch of two make a last, partial
batch; two stories wait for each other; two browsers of one account or of two;
pages of one row; three confirmations, two ticks apart.

`Operations_proofs` proves `TheRightOnesAreTold` and `RecoveryIsProven` for any
accounts, reports, stories, browsers and sizes of batch and page.  It assumes that
accounts are numbered as they come, that a batch, a page and the number of
confirmations are at least one, and that "ko" is a language.  `NoticesInv` says
what every step keeps:

* rows are of accounts that are there, and no two have a number: the rows of one
  step take the places that follow (`Place`, `PlacesTaken` of `LedgerTheorems`), one
  for each account that had none;
* a story (`StoryTold`): its rows are of accounts born before it, in its languages;
  of its audience, everybody up to its cursor has a row or is gone.  A batch is the
  first of those that follow the cursor, so that nobody active is between the
  cursor and the last of the batch, and no one is left when a batch is short;
* pushes wait only for the browsers of the account they are of, because a browser
  that changes hands takes its pushes with it, and only where a row is; an arcade's
  opt-out ends those that wait, and no later one is made;
* a reader's pages go down in number, and what it was due and has not seen is older
  than the row it goes on from.  A page is the top of a sorted listing
  (`SortedExists`, `SortedIsAll`), so that nothing visible is between two pages.

`WatchInv` is what `RecoveryIsProven` needs of an earlier time: the confirmations
counted so far were good, began no earlier than the run of good observations, and
are each at least `Apart` after the one before (`Counted`).  A watch stored before
statuses were kept starts with confirmations and the status "legacy", which no
confirmation counts on from.

## Fairness, in one place

* `flags`: the minute cron, the nightly sweep, time.
* `lists`: steps of readers and builds that have begun; of the posts: cron
  starts, worker steps, requests that have begun, time.
* `notices`: the two workers.

Everything else is safety and assumes no fairness.

## Proved and model-checked

| Module | Proved for all constants | Only model-checked |
|---|---|---|
| `CommunityTranslation` | `CachedIsCurrent`, `RowsAgree`, `LateAnswersChangeNothing`, `CommentCallsBounded`, `PublishedSpec` | liveness |
| `Conversation` | `HistoryAddsUp`, `OneOfEach`, `UnreadIsHonest`, `BotAnswers`, `WithinLimits`, `HistoryKept` | – |
| `FlagResolution` | `OneVoteEach`, `ResolutionIsSupported`, `DeadlineMeetsScore`, `LedgerAddsUp`, `ReversalIsExact`, `OutcomeSpec`, `SolvedIsFinal` | liveness |
| `ArcadeGames` | `StatesAreSound`, `NothingLost`, `IdentityKept`, `WindowCapped`, `HistorySpec`, `Attributed` | – |
| `ArcadeSections` | `PartsAreSound`, `RewardsAreExact`, `EditsAreExact`, `PublicationIsSupported` | – |
| `Accounts` | `AccountsAreSound`, `OnlyTheirsChanges`, part by part | – |
| `Supporters`, `ArcadeNotices` | `BoardsHold` | – |
| `Attendance` | `VisitsAddUp` | – |
| `Catalog` | `CatalogStands`, `ChangesAreTold` | `RevertRestores` (violated) |
| `Campaigns` | `CampaignsAddUp`, `StepsAreMeant` | – |
| `Notifications` | `TheRightOnesAreTold` | liveness |
| `AimeRecovery` | `RecoveryIsProven` | liveness |
| `Candidates` | `AnswersAreCurrent`, `CacheIsCurrent` | `PagesAddUp`, `SearchIsBest`, `PhotosAreWanted`, liveness |
| all others | – | everything |

Out of the prover's reach are liveness and `ENABLED`, and theorems that take an
operator as a parameter, as those on induction over data do.  Sums and folds over
finite sets, and functions by recursion over a log, are proved about all the same
(`LedgerTheorems`, `ArcadeSections_proofs`, `People_proofs`, by a smallest
counterexample);
recursive operators the project declares none.

## Not modelled

* Announcements: the list of stories a reader sees with its unseen mark, and the
  kind of message; the transport of a push.
* Notices: the document, its photos and titles, the experience they pay; a role
  ends by withdrawal only; one arcade, whose official account is whoever has the
  tag `arcade_owner`.
* Rankings: photographers.  Queries that read one record: drafts, changelog,
  values, game series.
* Visits: the policy of a deployment on refusing them, and distances on a sphere
  (places lie along a line).
* Administration: the queues of user reports and of requests to administrators.
* Messaging: the live event hub (`events.go`: subscribers overflow at 32 and are
  told to start over; events are published after the commit, so two may leave in
  the other order), photos, reports of messages, inboxes with over 200 responders.
* Geocoding, the subway map, statistics, the application shell, migrations:
  data files, counters, routes and schema, without a protocol between actors.
* Failing saves inside a transaction: it rolls back, and the request is not a step.
