# A verification project for Realms

Realms is an OpenAI-style API relay in Go: users call `/v1/...` with tokens of
Realms, Realms picks an upstream channel and credential, forwards the request,
streams the answer back and bills it. This directory models the parts of it
where interleavings, failures and repeated messages decide whether money and
requests are handled correctly. TLC checks the models on small instances; TLAPS
proves the main safety properties for every value of the constants.

## 1. The system

### Components, their state, their operations

| component | state it keeps | operations | interacts with |
|---|---|---|---|
| relay handlers (`internal/api/openai`) | one goroutine per request: reservation id, selection, what was written | reserve, select, forward, fail over, answer, commit or void, finalize | quota, scheduler, executor, store |
| quota providers (`internal/quota`) | none of their own | Reserve, Commit, Void; the feature switch picks the provider at every call | usage and balance tables |
| usage and balances (`internal/store/usage*.go`, `user_balances.go`) | `usage_events`, `user_balances` | reserve (with debit), commit, void, expire (with refund), credit | quota, expiry loop, plan deletion |
| orders and payments (`topup_orders.go`, `subscription_orders.go`, `payment_webhooks.go`, `webhooks.go`) | orders, subscriptions, payment channels | create, cancel, pay, webhook, approve, reject | gateways (Stripe, EPay), operator, balances |
| scheduler (`internal/scheduler/state.go`, `scheduler.go`) | in memory: bans, streaks, probes, fail scores, cooldowns, sticky bindings | select, report, sweep | handlers, snapshot cache, binding store |
| group router (`group_router.go`, `channel_group_pointers.go`) | per request: attempts per group, exclusions; shared: group pointers | next, touch pointer, pin | scheduler, administrators |
| executor and SSE pump (`internal/upstream`) | refresh times; per stream three goroutines, a bounded channel, a lock | do, refresh an account, pump | handlers, upstream |
| caches (`token_auth_cache.go`, `cached_upstream_store.go`, `cache_invalidation.go`) | copies of rows with a TTL, versions | read, fill, purge, bump, poll | every other instance |
| roll-ups and retention (`usage_rollups.go`, loops in `server/app.go`) | hourly and daily sums, `rollup_applied_at` | finalize, backfill, delete | usage rows, quota windows |
| channel groups and tenancy (`channel_group*.go`, `main_groups_store.go`, `token_channel_groups_store.go`) | groups, memberships (nested), names in grants, bindings, plans and models; the default and the pins | create, nest, rename, delete, grant, bind, pin | router, caches, token auth |
| upstream channels (`upstreams.go`, `channels_api_routes.go`) | channels, endpoints, keys, settings columns | create, edit in several statements, delete, save one section of settings | caches, groups, scheduler |
| accounts (`user_api_routes.go`, `account_api_routes.go`, `session.go`, `email_verifications.go`) | users, cookies in browsers, verification codes | log in, register, prove an address, change or reset a password, edit, delete | every session |
| API tokens (`tokens_api_routes.go`) | token rows and their secrets | create, rotate, revoke, delete | token cache of each instance |
| OAuth provider (`oauth_apps.go`, `oauth_authorize_api_routes.go`, `oauth_token_public.go`) | apps, redirect URIs, grants, authorization codes | consent, approve, exchange a code | API tokens |
| tickets (`tickets.go`, `tickets_api_routes.go`, `tickets/storage.go`) | tickets, attachment rows, files on disk | open, reply, attach, download, expire | cleanup loop, file system |
| stored objects (`extended_ops.go`, `openai_object_refs.go`) | `openai_object_refs`: who made which object on which channel | retrieve, cancel, update, delete, list | the one channel that has the object |
| request bodies (`request_sanitize*.go`, `request_policy.go`, `channel_filters.go`, `channel_system_prompt.go`, `param_override_*.go`) | the payload of a request, while it fails over | normalize, limit, prompt, filter, override | upstream channels' settings |
| managed models, Codex accounts | configuration rows, OAuth tokens of accounts | administration, token refresh | scheduler, caches |
| settings, export | rows | administration | handlers |
| web console | none the server relies on | - | HTTP API |

The database is SQLite on one connection or MySQL shared by several instances,
where transactions lock the rows they change (`FOR UPDATE`). So a transaction is
atomic, and what lies between two statements outside a transaction is open to
everybody else. Background loops (`server/app.go`): expiry of reservations each
minute, retention, binding cleanup, scheduler sweep, balance refresh of Codex
accounts, ticket cleanup, cache poller.

### What is hard, and what makes each component correct

* **Billing.** Commit, void and expiry race over one row; handlers crash; their
  bookkeeping errors are dropped; the feature switch and the deletion of a plan
  change who settles what. Correct: money is conserved, a row is settled once,
  only debited reservations are refunded, every reservation ends.
* **Orders.** Gateways repeat notifications, concurrently; payments arrive after
  cancellation, approval, deletion; a checkout may be complete before it is paid.
  Correct: credited once, one subscription, nothing settled that no gateway
  reported and nobody vouched for, no acknowledged payment without a trace.
* **Relay and scheduler.** Attempts, bans and cooldowns of concurrent requests.
  Correct: failover ends, nothing is retried after the first byte, the
  reservation is settled by what happened, bans are neither lost nor cut short.
* **Pointers, caches.** Values read, then used after somebody changed them.
  Correct: staleness is bounded, an administrator's change survives.
* **Groups, channels.** Names are copied into six tables and into a column of
  channels; handlers read, then write; some write in several statements, any of
  which can fail. Correct: no loop of groups is closed but where the database
  lets two nestings pass each other, a rename costs nobody a
  route, one administrator at a time leaves nothing half done.
* **Accounts, tokens, OAuth.** A code or a password is checked, then used; what
  follows may fail; browsers keep cookies. Correct: a code is worth one use, what
  was taken away stops working.
* **Tickets.** Files and rows have no common transaction. Correct: what is shown
  can be downloaded by its owner only, nothing is left lying around.
* **Stored objects, request bodies, settings.** An upstream is asked for one
  client's object with everybody's key; one payload is shaped for channel after
  channel; a save writes back a row read before. Correct: an object is served to
  its maker, a channel gets what its own settings say, a save stands.
* **Streams.** Goroutines meet over a bounded channel and share one connection.
  Correct: the pump returns and leaves nobody behind, events stay whole, the
  channel is blamed for its own failures only.
* **Roll-ups.** Request, retention loop and backfill sum the same rows, and two
  layouts of the tables meet at a cutover. Correct: every row is summed once
  before it is deleted, and what the pages show adds up.

`PROJECT.json` lists every component with its status and every hazard at its
line, with the properties that cover it or the module planned for it.

## 2. Plan

| order | module | models | state |
|---|---|---|---|
| 1 | `FiniteSums`, `FiniteSumsProofs` | sums over rows and what changing rows does to them | done |
| 2 | `Wallet` | what the money path promises: deposit, hold, charge, release | done |
| 3 | `Billing`, `BillingProofs` | reserve / commit / void / expire; implements `Wallet` | done, proved |
| 4 | `Orders`, `OrdersProofs` | orders, payments, webhooks | done, proved |
| 5 | `Scheduler`, `Relay`, `Answer`, `RelayProofs` | scheduler state, group router, the failover loop of a request; implements `Answer` | done, proved |
| 6 | `Catalog` | the tables of configuration all handlers and caches share | done |
| 7 | `Groups`, `Tenancy`, `Channels`, `Accounts`, `Tokens`, `Handlers`, `CatalogProofs` | the handlers that change them, statement by statement | done, proved |
| 8 | `Caches`, `CatalogProofs` | token and upstream caches: read, fill, purge, poll | done, proved |
| 9 | `OAuth`, `OwnershipProofs` | consent, codes and their exchange | done, proved |
| 10 | `Tickets`, `OwnershipProofs` | messages, attachments and their files | done, proved |
| 11 | `Rollups`, `Statistics`, `OwnershipProofs` | finalize, backfill, retention, sharding; what the pages read | done, proved |
| 12 | `ObjectRefs`, `OwnershipProofs` | stored objects and who may see them | done, proved |
| 13 | `ChannelSettings`, `StandingProofs` | saves of settings, read-modify-write | done, proved |
| 14 | `Shaping`, `PassageProofs` | a request's body on its way to each upstream | done, proved |
| 15 | `StreamPump`, `PassageProofs` | reader, ping, timer and their shutdown | done, proved |
| 16 | `Pointers`, `StandingProofs` | the routing side of group pointers: cached copy, rotation | done, proved |
| 17 | `CodexAccounts`, `StandingProofs` | refresh, cooldowns and disabling of accounts | done, proved |

Groups, Tenancy, Channels, Accounts, Tokens and Caches all EXTEND `Catalog`; `Handlers`
puts the first five together and says whose requests run (`staff`), and `MCCatalog`
composes it with the caches; the parts that share no table (9 to 14, and 16) are
put side by side in `MCRecords`, the totals (11) beside the orders in `MCLedgers`, the stream beside the lone request in `MCStream`, and
the Codex account beside two requests in `MCUpstream`.

Abstract specifications: `Wallet`, `Answer`, and `CachesSpec` of `CatalogProofs`,
in which writers do what they like and cached entries may go; `TokensLapse` and
`ChannelsLapse` say of the caches what a cell that returns values of bounded age
would.

## 3. What is modelled

### Billing

`Billing.tla` follows one `usage_events` row per request and one handler per
row. `events`, `balance`, `plans`, `mode` are the tables and the feature switch,
`pc` and `local` the handler between two statements, `credited` and `funding`
history.

| model | code |
|---|---|
| `ChooseSubscription`, `InsertChosen` | `SubscriptionProvider.Reserve`: sums the windows, then, in another statement, inserts |
| `FallBackToBalance`, `ReservePayg` | `HybridProvider.Reserve` to `ReserveUsageAndDebitBalance` (one transaction) |
| `ReserveFree`, `CommitFree` | `FreeProvider` |
| `CommitRead`, `CommitWrite` | `HybridProvider.Commit`: reads the row, prices the answer, then one of two UPDATEs |
| `Void`, `BookkeepingFails`, `Crash` | the handler's other exits; errors of Commit and Void are dropped |
| `ExpireReservedUsage` | the transaction of `usageCleanupLoop` |
| `AddUserBalance`, `DeleteSubscriptionPlan`, `SwitchFeature` | administration |

Money is an integer (micro-dollars; the code truncates to six places). An estimate
and a charge are drawn from small sets: the properties do not depend on how
prices come about. `Wallet.tla` is the abstract specification, and Billing
implements it under `W == INSTANCE Wallet WITH wallet <- balance, held <- ...`.

### Orders

`Orders.tla` holds both order tables in one function; `Topups` tells them apart.
`payments` is the gateways' side: who started what (`StartPayment`), whether the
checkout is complete (`Complete`) and whether the money was taken, at once or, with
Stripe's delayed methods, later or never (`Pay`); `hooks` the handlers of concurrent
deliveries, `acked` what a gateway saw answered. `Receive`, `VerifyAmount`, `MarkPaid` are the statements of the webhook
handlers, where a delivery may fail before each (`HookFails`) and its answer may
be lost (`Answer`). `MarkTopupOrderPaid`, `MarkSubscriptionOrderPaidAndActivate`
are the transactions behind them with every branch: canceled (remember the
payment with COALESCE), already settled (fill in the channel), pending (settle),
plan gone (error). `Accounts` stands for `stripe.Key` being a variable of the
process. The amounts a gateway reports are reduced to whether they match
(`exact`). Stripe's webhook asks whether a session is complete and not whether it is
paid (`Receive`), so `SettledIsEarned` speaks of checkouts reported complete, paid or
not.

### Relay

`Scheduler.tla` is the memory of `internal/scheduler/state.go`: `until`, `streak`,
`probe` and `fails` per channel, `cooling` per credential, `binding` per session,
`creds` the rows of credentials, `now` the clock. `Relay.tla` adds the requests:
`req[r]` is a goroutine with its `GroupRouter` (attempts used per group,
exclusions, the last channel and how often it was taken in a row), `gone` says
whose client has left, `answer` and `usage` what client and reservation have seen.

| model | code |
|---|---|
| `Reserve`, `RefuseReserve` | the start of `proxyJSON`; what the quota provider does is `Billing` |
| `Route`, `RouteFails` | one turn of the loop: `GroupRouter.Next` with every `SelectWithConstraints` it calls, and the bookings |
| `Visited`, `Candidates`, `Sources`, `SortKey` | `collectCandidates` over nested groups (cycles included) and `sortCandidates` |
| `RewriteFails` | the body cannot be rewritten for the channel |
| `Send`, `DoFails` | `exec.Do`, before and after the wait for the upstream |
| `RetriableStatus`, `FatalStatus`, `Respond` | `proxyOnce` when the upstream's headers arrive |
| `StreamEnds`, `CopyEnds`, `CopyFails` | `proxyOnce` after the first byte to the client |
| `ReportSuccess`, `ReportFatal`, `ReportRetriable`, `Ban` | `Scheduler.Report` |
| `Background` | the sweeper, expiring bindings, an administrator clearing a ban or deleting a credential, the console reading statistics, time |
| `Disconnect` | the client closes its connection |

The order in which `Next` tries channels is kept: an earlier candidate with a
usable key is always taken before a later one, and one without is excluded. Among
equally good keys of a channel any may be taken (the code counts their use). The
body of an error, headers and prices are left out; failures are reduced to the
kinds that `Report` and `proxyOnce` tell apart. `Retries` is 2 in `handler.go` and
`gemini.go`, 1 in `chat_completions.go` and `messages.go`; the proofs hold for
any. `Answer.tla` is the promise to the client, and Relay implements it under
`A == INSTANCE Answer WITH asked <- ...`.

### Catalog: groups, tenancy, channels, accounts, tokens

`Catalog.tla` declares the tables. One store transaction is one step; a handler
that calls the store several times is an entry of `work[a]` between two steps,
and each of its later steps may instead fail or not come (`Abandon`, `GiveUp`).
Names of groups are what the tables hold, so a name read, then used by id or the
reverse, is where handlers go wrong. Ids that were deleted are not reused, names
are. `AddChannelGroupMemberGroup` looks for a parent and a loop with SELECTs that take
no lock, and inserts after them: two steps (`NestChild`, `LinkChild`), as on MySQL,
where two such transactions can close a loop. On SQLite nothing
comes between them. `overtaken` is history: the rows inserted while another request
was between the two. Against a loop the router has its own guard, which Relay checks
with cyclic groups.

| model | code |
|---|---|
| `CreateChild`, `SeeParent`, `NestChild` then `LinkChild`, or `UndoChild` | `adminCreateChildChannelGroupHandler`: insert, re-read the parent, check and nest, or delete again |
| `ReadUpdate`, `WriteUpdate` | rename: `UpdateChannelGroupWithRename` in one transaction over all tables that hold the name |
| `ReadDelete`, `WriteDelete` | `ForceDeleteChannelGroup`, with the name read before |
| `CheckDefault`, `WriteDefault`, `FindBadDefault`, `HealDefault` | the default group, set and repaired |
| `ReadMember`, `WriteMember`, `RemoveChannelMember`, `RemoveGroupMember` | memberships and the column that mirrors them |
| `ReadPointer`, `WritePointer` | pins, from the console's side |
| `CreateMainGroup` ... `DeleteMainGroup`, `CheckSubgroups` / `ReplaceSubgroups`, `CheckBindings` / `ReplaceBindings` | main groups, their grants, the groups a token is bound to |
| `CreateChannel`, `ReadChannel` then `WriteBasics`, `SetGroups`, `SetEndpoint`, `LookForEndpoint`, `StoreKey` / `KeyFails`, `Invalidate` | `updateChannelHandler`, in the order of its calls; every prefix can be its end |
| `ReadEndpoint`, `DeleteCred`, `DeleteChannel`, `SaveSettings` | keys, deletion, saves |
| `Login` then `SaveSession`, `Logout`, `ProveEmail`, `Register` then `CountUsers`, `CreateUser`, `ReadBack`, `SaveSession`, `ChangeEmail`, `ChangePassword` then `WritePassword`, `EditUser` and its steps, `ResetPassword`, `DeleteUser` | sessions are cookies that carry the user's `updated_at` in seconds (`NextSecond`) as it was when the row was read; nothing of them is on the server |
| `CreateToken`, `RotateToken`, `RevokeToken`, `DeleteToken` | API tokens |

### Caches

`Caches.tla` adds the two caches of each instance over the same tables. A lookup
that misses is a request of several steps: `MissAuth`, `ReadToken`, `ReadGroups`,
`StoreAuth` (what it read may be purged in between, and it stores it all the
same), `MissList`, `ReadRows`, `StoreList`. Handlers purge their own instance and
bump a version (`PurgeAndBump`, `InvalidateSnapshot`, in `Catalog`); the others
learn it by `Poll`. A bump may fail silently, so nothing is promised of polling:
`Tick` is a unit of the clock, entries age, and `lapsed` counts how long ago each
fact a cache may still hold ceased to be true. `MaxLate` is how long a miss may
take between read and store.

### OAuth

`CreateApp`, `UpdateApp`, `ReplaceURIs`, `RotateKey` are administration;
`Prepare` and `Approve` the consent page; an exchange is `CheckClient`,
`ConsumeCode` (the conditional UPDATE), `VerifyCode`, `MakeToken`, `RecordToken`,
`AnswerToken`, and it may break before each (`Breaks`). A code consumed is not
given back when a later step fails. Secrets and PKCE verifiers are model values.

### Tickets

`SaveFile`, `AllSaved`, `SaveFails` write a message's files one by one before the
transaction `Commit`, which may fail, or be done although the caller is told it
failed (`CommitInDoubt`); `DeleteSaved` undoes. The cleanup loop lists
(`ListExpired`), removes the files (`RemoveExpired`) and then forgets the rows
(`ForgetExpired`). `CrashTickets` ends the process between any two.

### Roll-ups and statistics

Time is in slots, `SlotsPerHour` of them in an hour. `RequestEnds` rolls an event
up in its own request; `Starts`, `SelectMissed`, `ApplyNext`, `BatchEnds`,
`BatchFails` are the backfill, run by the retention loop or by a tool; `DeleteOld`
removes what was applied and is old. `ApplyRollups` is one transaction: it marks
the event, and only the one who marks it adds to the six tables, to the sharded
ones from the cutover on. `Statistics.tla` is what the pages compute from them
(`Segments` cuts a range at the cutover, `Read` is the cells then summed), without
state of its own. Which of the two ends of a range belongs to it depends on the
database, and every page is defined for both (`Within`): MySQL compares times, SQLite
the texts of a stored hour or day (`usage_rollups.go:172`, `:492`) and of a bound with
its zone, so that the stored one of two equal times is the lesser.

### Stored objects

`MakeObject` is a response or chat completion that an upstream stored and Realms
recorded; `MakeUnrecorded` one it could not record. Each of the eight endpoints
looks its row up by owner (`Owned`), asks that channel (`HostServes`,
`HostRefuses`, `HostLost`), and a deletion forgets the row afterwards (`Forget`).
`ListChats`, `ListAnswered` filter an upstream's list by the rows of the user.
Objects have ids that no two upstreams share.

### Channel settings

Nine handlers read the channel's row, lay what the request asks over one section
of it (`Save...`, by `ReadRow`; one malformed field refuses the request) and
write that section back in another statement (`Update...`, by `WriteSection`). Three
of the sections have several columns, and there a save may leave some out. `last`
is history: what each column was last given.

### Shaping

`Sanitize` is what each API does to a body on arrival; `Shape` what it does for
one channel, in the order of the code of that API: model and its effort suffix,
system prompt, `RequestPolicy`, `BodyFilters`, `ParamOverride`, limits. `Attempt`
takes the next channel after a failure, and `SharedAfter` says what of the
payload the former attempt changed for all. `Refuse` is the upstream's answer that it
does not support a limit or `stream_options`, upon which `Executor.Do` posts the body
once more with that field renamed or dropped (`Compatible`), after and without the
channel's rules. Fields are the top-level ones that
some step reads or writes, and "other" for the rest.

### Pointers

`Pointers.tla` is the routing side of one group's pointer (Groups has the
console's); `row` is its row, `copies` and `written` what each instance remembers
of it, `route[r]` a request between two steps.

| model | code |
|---|---|
| `Sync`, `ReadPointerRow`, `ReadFails`, `StoreCopy`, `NoteWritten` | `maybeSyncChannelGroupPointerFromStore`: at most once a second, marked before it is read |
| `Upsert`, `WriteRow`, `Remember` | `upsertChannelGroupPointer`: what is thought written is not written again, and it is thought so before it is |
| `NextFromGroup`, `StartRing`, `Rotate`, `Try` | `nextFromGroup`: the ring from the pinned channel on, past the banned ones |
| `Touch` | `touchChannelGroupPointer` after a selection |
| `Pin`, `Age`, `Restarts` | an administrator's write; a second; a new process |

Which channels are candidates, banned or refused is left open, and so is the order
of the ring: what is said of pins holds for all.

### Codex accounts

`CodexAccounts.tla` follows one account: `account` is its row, `live` the refresh
token the issuer takes, `memory` what each instance remembers (cooldown, the throttle of 30
seconds, the cached list), `work[w]` a request or a poll of the balance between two
steps. `limits` and `mishap` are history.

| model | code |
|---|---|
| `Select`, `ListAccounts` | `selectCredential` over the cached list, or by a bound session, which skips it |
| `ReadSecret`, `ShouldAttemptRefresh` | `buildRequest`: the row is read, then the throttle is asked |
| `Refreshed`, `Rejected`, `NoAnswer` | `Client.Refresh` with its retries; the issuer takes a token once and may keep or replace it |
| `SaveTokens`, `TurnOff`, `Tire` | the UPDATE after each outcome; its error is dropped, so each may leave the row as it is |
| `Answered`, `SetCooldown`, `ReportExhausted`, `ReportFailure` | `proxyOnce` and `Report`: a usage limit goes to the row and to memory, any failure to memory |
| `PollReads`, `FetchQuota` | `refreshCodexBalance`: no throttle; 401 or 403 refreshes once more |
| `DeleteAccount`, `Revoked`, `Restarted` | an administrator, the owner at the issuer, a new process |
| `TokenAges`, `HoldLapses`, `CooldownEnds`, `RestEnds`, `LimitEnds` | time, reduced to what is compared with it |

### Stream pump

`StreamPump.tla` is `PumpSSE`, statement by statement where goroutines meet:

| model | code |
|---|---|
| `ReadLine`, `ReadEnds`, `ReadBreaks`, `SendLine`, `SendStops` | the reading goroutine, blocked in the body or on `lineCh`; its last state is what it leaves in `errCh` |
| `PingTick`, `PingLocks`, `PingWrites`, `PingStops` | the pinging goroutine |
| `ContextDone`, `TakeLine`, `LinesOver`, `GiveUp`, `SeeStopped` | the cases of the caller's select: any that is ready may be taken |
| `Lock`, `WriteLine`, `Flushed` | `flushEvent` under `writeMu` |
| `ErrorClass`, `Finish`, `Return` | the class of the result; `stop()`; `wg.Wait()` |
| `UpstreamEnds`, `ClientStalls`, `ClientLeaves`, `Cancel`, `Wrote`, `WriteFails` | external: the two connections, and `net/http`, which cancels the context of a request whose connection breaks or fails a write |

`feed`, `out` and `told` are history. A line is one of data or the blank line after
an event; `TransformData` is left out. In `Relay` a whole stream is `StreamEnds`.

## 4. Runs, bounds, fairness

| run | checks | shows |
|---|---|---|
| `billing_core` | Conservation, ResolvedOnce, RefundsOnlyPayAsYouGo, ImplementsWallet, ReservationsEnd | normal billing: two requests, expiry and crashes race |
| `billing_admin` | IInv, WalletBounded | with feature switch and plan deletion, the invariant the proofs use |
| `billing_quota` | ReservationsWithinLimit, violated | two requests both fit, together they do not |
| `billing_plan` | RefundsOnlyPayAsYouGo, violated | deleting a plan turns subscription reservations into refunds |
| `billing_switch` | FreeReservesNothing, violated | the free provider settles debited reservations |
| `orders_core` | IInv, CreditedOnce, OneSubscriptionPerOrder, SettledIsEarned, AcknowledgedIsRecorded, CanceledIsFinal | two payments, two deliveries each, two gateways, all administration |
| `ledgers_core` | TakenIsHonoured | failed deliveries are repeated until the order settles |
| | PagesCountOnce (TotalsCountOnce and PagesAgree) | or requests, loop and tool roll up on both sides of the cutover, and retention deletes; ranges before, across and after the cutover on both databases |
| `relay_core` | IInv, AttemptsBounded, BansEndProperly | two requests share two channels and race over bans, probes and bindings |
| | GrantsKept, LimitsHold | or two requests and a poll share a Codex account, whose tokens rotate, get lost and are spent, and whose limits are reported late |
| `relay_alone` | SwitchesAfterTwo, ImplementsAnswer, ClientGoneEnds | one request with more attempts: failover, its one answer, and its end |
| | StreamInv, BlameFits, PumpReturns | or one stream with every combination of options, whose two ends may stop at any time |
| `relay_blame` | KeyFailuresDoNotBan, violated | a deleted key bans its channel |
| `catalog_core` | CatalogInv, RenamesKeepRoutes, TidyWhenAlone | two administrators nest, rename, delete, grant and bind: no chain of parents closes but by two nestings at once, no rename takes a route away; one at a time leaves the tables tidy, whichever step is his last |
| | CodesProveOnce, PasswordEndsSessions | registrations, passwords and roles of two users |
| | TokensLapse, ChannelsLapse | two instances: what was taken back works for at most a TTL and a late store |
| `records_core` | OneTokenPerCode, CodesHaveConsent | two exchanges of one code, with failures at every step |
| | FilesMatchRows | two uploads, the cleanup loop, crashes, commits in doubt |
| | RefsServeMakers | two users, three objects, two channels of which one masks statuses |
| | SavesStand | three saves of any sections, overlapping |
| | PinsStand | two requests of one instance, reads and writes that fail, a second that passes, a restart, an administrator |
| | BodiesShaped (ShapedFresh and DeniedStaysOut) | five APIs, eighteen bodies, two channels of twelve settings one after the other, each of which may refuse a field |

*Bounds.* Billing: two requests (every race here is between two settlers of one
row, or two users of one balance or one subscription), a clock of 4 values with
a TTL of 1 (before, at and after expiry; a window that moves), credits up to 4,
charges below, at and above the reservation. Orders: one order of each kind, two
payments for one order or for both, two concurrent deliveries of each, one plan,
one channel of each gateway; payments and deliveries are symmetric. Relay: two
channels, one with `auto_ban`, and two groups that contain each other, which two
administrators can arrange and which is the worst case for the candidate search.
Bans race with two requests of two attempts and one (`relay_core`); a third turn
in a row to one channel needs one request with five attempts and three keys on
that channel (`relay_alone`). The clock has two values and a ban lasts at most two
units: enough for a ban to be prolonged, capped and to expire. The bounds
`Horizon` and `MaxCredited` are constants and occur in guards only.

Catalog: five scenes, chosen at the start and never left, call the handlers that
touch each other: groups and tenancy (three requests), channels and groups (two),
accounts (two), and one request beside either cache. `staff` is the set of clients
at work, so the same run has one administrator and two. Two names for three group
ids let a name come back on another group. A TTL of 2 and `MaxLate` of 2 let an
entry age, and a store come when what it stores is as stale as it can be. Records:
six parts, one at a time; a second exchange, upload, editor is enough for
two of each to race, three files for one message of two and one of one. Usage
(`MCLedgers`, where orders with one payment or the totals are at work): a second
worker, five slots for three hours of two days, events in the second and third hour
and a cutover at the third, and three ranges: a day before it, the hours on both sides
of it, the hour after it (`MCRanges`; the proof has any). One instance, two channels and
one write of an administrator for the pointers: two requests of one instance race
over every step, and the proof has any number of instances. 318,838
states in the catalog, 718,376 in the records, 166,779 in `ledgers_core`.

The account has one instance, two requests and a poll, two refresh tokens and three
calls: enough for a token read by one to be spent by another, and for a late
failure to follow a reported limit. Other instances differ from a poll only by
their own memory, and the proof has any number of them. 1,783,308 states, those of the two requests
included.

The stream has a run with the lone request (`MCStream` chooses one of the two at
the start): a channel of one line, so that the reader blocks on the second, three
lines (two events, or one and an unfinished one) and one ping, which is enough to
meet every write of an event; 352,000 states, those of the request included.

*Deadlock* is checked in the runs over Billing, Orders, Relay and StreamPump. A pump that has returned stays
(`HandlerGoesOn`). In
the runs over the catalog, the records and the totals requests are bounded and no clock
runs on, so behaviours end (`CHECK_DEADLOCK FALSE`).

*Fairness.* Billing assumes only that time passes and that the expiry loop keeps
firing (a ticker in a goroutine started at boot). Nothing is assumed of the
handlers: they may stop anywhere, and `ReservationsEnd` holds because of the loop.
Orders assumes that a gateway repeats an unanswered notification
(`WF Receive`) and that of infinitely many deliveries not all fail before the
same statement (`SF VerifyAmount`, `SF MarkPaid`). Relay assumes weak fairness of
a handler whose client has left, and of nothing else: the canceled context ends
each wait for the upstream and each write, and the goroutine runs on. While the
client stays, the upstream decides how long a request takes, and the model
promises nothing. StreamPump assumes weak fairness of its three goroutines, and
that `net/http` notices a broken connection; nothing of the upstream, which may
be silent, nor of the client, who may stop reading: then a write waits until he
leaves, since the server sets no write timeout. What is said of the catalog, the records and
the totals is safety only and assumes no fairness.

*Disagreements found*; the first four have a run (`findings`), the others are in the
models and in the notes of `hazards`:

1. `usage.go:1` says the reserve-then-settle machine keeps concurrent requests
   from overrunning a quota; the sum and the insert are two statements.
2. `usage_balance.go:264` refunds "only pay-as-you-go" rows, known by
   `subscription_id IS NULL`; `DeleteSubscriptionPlan` sets it to NULL on rows
   that are still reserved, and their reservation is credited to a balance that
   was never debited.
3. `free.go:15` says the free provider never meets a debit; the switch is read
   again at Commit and Void, so it settles rows the hybrid provider debited,
   without refund.
4. `scheduler.go:779` says a failure of the credential layer does not ban the
   channel at once, other keys take over first. When the selected key's row is
   gone, `exec.Do` fails and `handler.go:499` reports a network error, which bans
   the channel and its other keys; a sticky binding, honoured without looking
   whether the key exists, brings such requests.
5. `0027_topup_orders.sql:1` says balance is credited after payment;
   `payment_webhooks.go:127` asks whether Stripe's session is complete and not whether
   it is paid, and with a delayed method it is complete before the money comes, if it
   does.
6. `channel_group_members.go:212` says the chain of parents is walked to prevent a loop;
   the walk takes no lock, and on MySQL two requests close one.
7. `auth_middleware.go:51` says old sessions are forced out when the password changes;
   stamps are compared by the second, so one opened with the old password in that second
   stays, and registration (`user_api_routes.go:179`) reads its stamp back after the
   insert, when the password may have changed already.
8. `UsageAdminPage.tsx:376` shows what was used as of `since` ~ `until`; on SQLite, the
   default, `usage.go:913` and `:1001` compare texts of two formats, so the hour or day
   that begins at `since` is missing and the one that begins at `until` is counted, and
   across the sharding's cutover the hour of the cutover is in neither part.
9. `ChannelsPage.tsx:2849` says the blacklist deletes fields; when an upstream refuses a
   limit by name, `executor.go:104` posts the body again with the limit under another
   name, which the list may have.
10. `ChannelsPage.tsx:2643` says pass-through sends the body as it came, without
   policy, lists and overrides; the Gemini handlers do not look at the setting.
11. `ChannelsPage.tsx:2684` says a switch decides whether a channel's prompt is put before
   the client's; a channel without it is sent the prompt of one tried before
   (`channel_system_prompt.go:70`).

*Exceptions the properties name.* Where the code does less than one would like, the
property excepts the case, and its comment says so. Where a document promises it, that
is a disagreement (by its number above):

* `BodiesShaped`, its part `ShapedFresh`: `applyChannelSystemPromptToChatCompletionsPayload` changes the
  messages of the payload that `clonePayload` copied only shallowly
  (`channel_system_prompt.go:70`), so a channel's prompt, put before the client's
  own, goes on to the channels tried after it (11).
* `BodiesShaped`, its part `DeniedStaysOut`: for Messages, a limit that the channel's override sets under
  any name is renamed to `max_tokens` after the lists were applied
  (`normalizeMaxTokensInBody`), also when they deny that name; and the new name of a
  limit the upstream refused is not asked of the lists (9). Channels that pass bodies
  through are asked nothing, but for Gemini (10).
* `CatalogInv`: without the rows nested while another request was between its check
  and its INSERT (`overtaken`; 6).
* `BlameFits`: `stream_pump.go:26` ends a stream when the upstream has sent nothing
  for `IdleTimeout`. The timer is set when a line is taken from the channel: behind
  a slow client it runs out with lines waiting, and the class is held against the
  channel. The server sets no `IdleTimeout`. (And `stream_pump_test.go:101` demands
  `client_disconnect` of a pump called with a canceled context, although the select
  may take a short stream to its end instead.)
* `TidyWhenAlone`: with two administrators, `ForceDeleteChannelGroup` cleans up
  after the name it was given, which a rename may have changed since.
* `SavesStand`: of two overlapping saves of one section, the later write puts back
  the columns it did not change as it read them.
* `RefsServeMakers`: a status mapping that turns an error into a success makes
  Realms forget the row of an object its upstream still has.
* `PagesCountOnce`: with a cutover inside an hour, that hour's series and total differ. On
  SQLite it says which hours and days a range shows, not that they are those of the
  range (8).
* `PinsStand`: until every instance and request has seen what an administrator
  pinned or unpinned, a request may undo it. Touching the pointer writes `pinned`
  from a copy up to a second old (`scheduler.go:275`), and remembering what was
  written renews the copy without reading, so an instance that moves the pointer
  at least once a second never reads the row. A request that finds the copy of a
  new instance being read routes without the pin, and writes it away.
* `GrantsKept`: only requests of one instance share the 30 seconds of
  `shouldAttemptRefresh`. The balance loop, the console's refresh and other instances
  refresh when they please, a refresh may take longer than that, an answer
  may be lost and the retry then sends a spent token, and the UPDATE of a client
  who has left is canceled (`executor.go:716`): each may leave a row
  whose token the issuer no longer takes, and `invalid_grant` turns the account off.
* `LimitsHold`: a later failure shortens a reported limit in memory
  (`SetCredentialCooling` overwrites), a refresh of the tokens ends that in the
  row, and a cached list may be older than either.
* `PasswordEndsSessions`: `updated_at` tells only seconds apart, so a cookie whose stamp
  was read in the second of the change outlives it; so does one of a registration that
  read its stamp after a change of the password (7).
* `SettledIsEarned`: an order is settled by a checkout reported complete, which need not
  be paid (5).

## 5. What is proved

All proofs hold for any number of requests, users, plans, orders, payments,
deliveries, amounts, codes, objects, columns, instances and lifetimes; they assume only the named ASSUMEs.

* `FiniteSumsProofs`: sums of natural numbers over `1..n`, and what happens to
  them when one row, or every row by a given amount, changes. The sum is a
  recursive function; the lemmas go by ordinary induction on naturals spelled out
  with the least counterexample, since the library's induction theorem takes an
  operator parameter.
* `BillingProofs`: `IInv` is inductive: types, one conjunct per row (`RowInv`:
  what a row's state, funding and handler say of each other), and the two money
  equations. It is needed because conservation alone does not say that a free
  row reserves nothing, or that `subscription_id` still tells who paid. The
  argument is the same for every action: it moves at most one row's lien and
  charge, or, for expiry, all of one user's due rows, by what the balance moves.
  From it: `TypeCorrect`, `MoneyConserved`, `NoMoneyFromNothing`,
  `RowsResolvedOnce`, `OnlyPayAsYouGoRefunded`, and that every behaviour with
  billing on and no plan deletion is one of `Wallet`.
* `OrdersProofs`: `IInv` adds to the four safety properties what each column may
  hold in each state, and what a payment and a delivery know of their order. The
  argument: every step changes at most one order, on behalf of one payment linked
  to it or of an administrator (`Touches`); deleting a plan only empties rows of
  subscription orders.
* `RelayProofs`: `IInv` says that a ban is always backed by a streak and ends
  within `MaxBan`, that every turn of the loop is booked on an ordered group, and
  what client and reservation have seen at each place of the goroutine. The first
  part is needed because a first failure writes "no ban" (`state.go:485`): only
  with a streak behind every ban is that not a way to lift one. The argument has
  two halves: what any step may do to the scheduler (`SchedStep`), and what it may
  do to one request (`Walks`). From it: `FailoverEnds` (the loop's bound follows
  from the bookings, whatever the groups contain), `BansEnd`, `SwitchesChannel`
  and `RelayImplementsAnswer`.
* `OwnershipProofs`, of codes: `OInv` adds to the types what a code's row says of the
  consent behind it (`Consents`), and that who spends a code is alone with it
  (`Spends`, `Hands`): consuming is the only way to a spending step, and it changes
  the row that is its guard. From it: `CodeWorthOneToken`, `NoCodeWithoutConsent`.
  Of objects: `RInv` says that a row names the maker of its object and the channel
  that made it, and that a request under way asks for an object of its user (`Rows`,
  `Requests`). An object that was made never gets another maker (`Settled`). From it:
  `MakersAreServed`. Of tickets: `TInv` says that the files of a posting request
  are its own, stored and in no row yet (`Posted`), that files and rows have numbers
  given out (`Filed`), and that the cleanup holds only files whose rows are due
  (`Cleaned`): so who undoes a post removes no file a committed row points at. From
  it: `AttachmentsAreKept`. Of usage: `UInv` says of every cell of the six tables that
  it is the number and cost of the events rolled up that belong there (`Exact`), for
  the channels' tables of a set `K` of them, which are those that had a channel when
  they were rolled up and include all that cost something (`Booked`); and that an
  event that may still be committed, or is about to be, is not rolled up (`RowsFit`,
  `WorkersFit`), without which its cost would be missing. A step adds one event to one cell of
  each table (`RollStep`), or changes nothing a cell counts (`ExactStill`, `BookedStill`).
  `SumOfParts`, by induction over sets, says that cells that part a set of events add
  up to it; that a page's cells do part the hours and days its database takes into the
  range (`HourShown`, `DayShown`) is arithmetic of hours, days and the cutover
  (`SegmentsRight`, `RangesExact`, `DayEdges`). From it: `PagesCountRight`, with the
  retention loop and the tool both at work, where the run has one of them at a time.
* `StandingProofs`, of settings: `SInv` says that what a save in progress would write
  into a column is what the column was last given, or that the column has been
  marked `Unsure` by an overlapping save (`Pending`); sections share no column.
  From it: `SavedColumnsStand`. Of pointers: `PInv` is the types and that a request under way is on an
  instance. From a state in which all agree on the pin, every step of a request
  writes the pin it already has to row, copies or itself (`GoesOn`, `StepFits`), so
  all agree afterwards, whatever channel it moves to. From it: `AgreedPinsStand`.
  Of Codex accounts: in `KInv`, `Grant` says of the requests of one instance that are
  refreshing at once that only one asks the issuer and the others find its throttle
  (`Staffed` names who they are), so no token is sent twice; `Rested` that a limit
  reported, or about to be, is in the row or was freed from it; `Sunk` that who
  reported it has it in memory or reported something later. From it: `TokensStayGood`
  and `LimitsAreKept`, both with the exceptions `GrantsKept` and `LimitsHold` name.
* `PassageProofs`, of streams: `PumpInv` follows a line from reader to client: the lines read are
  those written, then those collected, then those queued (`Chain`, `InOrder`), and
  `OnData` was told of those written (`Tells`); between events no ping is in the way
  (`EventsClose`, `LockFits`); what ended is what the goroutines saw end (`EndsFit`),
  so the class returned fits it (`ClassFits`). From it: `StreamsArriveWhole`,
  `BlameIsEarned`. Of bodies: lemmas say of every step of `rewriteBody` what it keeps
  and what it can bring. Policy and lists come after the steps that rename, so
  nothing denied is left (`ListsDeny`, `ShapeIs`); an override brings only fields it
  names, however many operations it has (`OperationsStay` goes by induction over
  them), and a refusal one other name at most (`PostedIs`); the one limit of messages is put right only where the override brought one,
  as the body read has no other (`Lone`, `NormalizeIs`). `ShInv` says that the body
  the attempts share is the one read until a channel spoils it, and that what was
  sent was made of the body shared then, whether or not it was refused at first. From it:
  `BodiesAreShaped`.
* `CatalogProofs`, of the caches: `CInv` counts, for every fact somebody may still
  hold, how long ago it ceased: a fact that holds has not lapsed (`Current`), a
  reader's late copy and an entry together live no longer than the bound (`Learned`,
  `Aged`). The handlers are abstracted to `AnyWriter`: they may change the tables in
  any way and purge what they like, so the bound does not rest on any purge, bump or
  poll. From it: `TokensLapseInTime`, `ChannelsLapseInTime`. Of the handlers:
  `CatalogSpec` lets every handler of Groups, Tenancy, Channels, Tokens and Accounts
  run among the caches' steps, any number of each. `HInv` holds between any two
  steps: the types of all tables, and what a waiting request may be about (`Fits`:
  it writes later what it read earlier, so the types alone are not inductive); no name
  twice, no group beyond the last id (`Unique`); a forest but for the rows that were
  overtaken (`Tree`), and, of a request that has checked and not yet inserted, that its
  edge would keep it one unless another inserts first (`Linked`); sessions, those of
  requests that have not saved theirs included (`Sessions`, `Held`), and codes (`Mail`).
  `Tree` takes the parents' chain as the least set that is closed
  under parents (`Above`); taking an edge away keeps a root above every group
  (`LessRooted`), and an edge to a group that has no parent and is not above the new
  one does too (`MoreRooted`), which is what the insertion has checked before. Its walk
  is of 512 parents at most, so there are assumed to be no more groups
  (`WalkAssumption`). `ConfigMove`, `UsersMove` and `MailMove` sum up what a step of any handler
  may do to groups, users and codes, so that each invariant is argued once; from
  `ConfigMove` also follows that only the two renaming statements look like a rename
  (`RenamesStep`). From it: `LoopsNeedTwoNestings`, `CodesAreSpent`, `SessionsEnd`,
  `RenamesAreSafe`. `HandlersAreWriters` shows that every handler purges as
  `AnyWriter` may (`Purges`, `WritersPurge`): `CatalogSpec` implements `CachesSpec`.
  `StaffSpec` is the same with only the clients of `staff` at work, from tables that
  agree (`Tidy`) and ids of channels handed out before they are used (`Given`). That the
  tables agree is not inductive: `ForceDeleteChannelGroup` writes by a name read before,
  `StoreKey` under an endpoint seen before. `Settled` adds that what the one client's
  request has read is still so (`AsRead`): the group he is to delete has its name and the
  `flag` still tells whether it is the default, the child he made is named nowhere yet,
  the channel he edits is there, its endpoint found or still to be set (`Ready`). `Unique`
  of `HInv` makes a deletion or a rename by name hit one group in every groups column
  (`WriteDeleteSettles`, `WriteUpdateSettles`). The handlers, by module: `GroupsSettle`,
  `TenancySettle`, `ChannelsSettle`, `TokensSettle`, `AccountsBeginSettle`,
  `AccountsGoOnSettle`. From it: `AloneStaysTidy`, with handlers of all five modules one
  after the other, where the run keeps to one scene at a time.

*Model-checked only:* liveness (`ReservationsEnd`, `TakenIsHonoured`,
`ClientGoneEnds`, `PumpReturns`: fairness and ENABLED are beyond TLAPS here) and the four
violated properties, which are counterexamples. Induction goes by sets of numbers,
as the library's theorems take an operator as a parameter.

The assumptions: bounds and numbers of rows are naturals (`IdsAssumption`,
`CodesAssumption`, `BufferAssumption`, `BatchAssumption`), a TTL is positive, an
`OwnerOf` every token has, what clients write and what a channel may be set to has
the fields the code gives it (`BodiesAssumption`, `SettingsAssumption`), users,
channels and models are finitely many and an hour has slots (`RollupsAssumption`), ranges
lie among the slots (`RangesAssumption`), and the like; each is evaluated in the runs.

## 6. What is not modelled

*Of the money path:* pricing arithmetic, editing of prices and limits, purchases
without an order (`PurchaseSubscriptionByPlanID`), wording of notes and refunds.
The orders of a user who is deleted stay in Orders; Accounts deletes his rows.

*Of the relay:* pointers in Relay's own routing (`Pointers` has them alone, with any
channel a candidate); affinity and the counting of requests
and tokens that order channels and keys further; changes of channels and groups
while a request runs; the copies of bindings in the database and a restart, after which
memory is empty; the second post of a refused body inside `exec.Do`, which `Shaping` has
(and which does not use the proxy of the channel, `executor.go:146`). A report is one action although
`Report` takes the lock of `state.go` several times. The server sets no
idle limit and no deadline for a stream, so their error classes do not occur there.

*Of the catalog:* the order of a group's members, tests of channels, columns
without influence on others; user names, hashing, the contents of e-mails;
other transactions than the nesting of groups, of which MySQL may let two overlap
between a read and a write.

*Of the records:* lists and texts of tickets, mail notices; tokens, latencies and
the per-model pages of administrators; override paths into objects, edits of
arrays, header overrides, Anthropic's cache TTL and the negative indices of paths (whose pattern in
`param_override_engine.go` never matches); default limits, which no handler passes.

*Of the stream pump:* `TransformData`, counters and latencies, `[DONE]`.

*Of Codex accounts:* the authorization that creates one (`flow.go`), the quota that
is shown, the order among several accounts of an endpoint, and two accounts that
share a grant.

*Not at all:* rows of managed models. Export and import are one transaction each; configuration, database
opening and migrations are sequential start-up code; metrics, logs, e-mail
delivery, icons and the model library are output and lookups; the console is a
client of the HTTP API.
