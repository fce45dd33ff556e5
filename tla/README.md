# Formal models of the rewind apps

TLA+ models, TLC runs and machine-checked proofs for the first-party
applications of the rewind platform: the dashboard (`src/admin`), the identity
provider (`src/auth`), the package registry (`src/registry`), the agent sample
and its browser client (`src/agent-sample`, `src/rove-agent.js`), the client
library (`src/rove.js`) and the replay viewer (`src/replay`), with the baked
system modules that viewer ships (`arena-system-modules.js`: the scheduler,
durable sends, dispatches, exports, blobs, cron). The applications run on an
engine that is not in the repository; what the engine and the services behind it
(control plane, Stripe, the log server, the language model) do is modelled from
how the code uses them, and marked external in `PROJECT.json`.

Contents: 1 how these programs execute, 2 the system, 3 the modules, 4 the
runs, 5 the proofs, 6 where code and documentation part, 7 what is not
modelled, 8 the plan.

## 1. How these programs execute

A handler *activation* is atomic. Its kv writes, its durable sends
(`webhook.send`), its schedule entries and its cross-tenant dispatches commit
together with the response, or not at all. Nothing interleaves inside an
activation, so every activation is one action, with everything it calls
included. A crash inside one is no step: the engine fires the durable work
again. What makes the code hard lies between activations:

- a *held* call (`after.fetch` + `next`): the request parks while the control
  plane, Stripe or a store works, and a continuation runs when the answer comes.
  The middleware does not run again, and whatever was checked before the call is
  old. A held chain dies with its connection or its leader;
- a *durable send* (`webhook.send`): retried until delivered or given up,
  possibly delivered more than once; its callback fires once at the end;
- a *durable wake* (`schedule`): fires at least once; its entry is consumed by
  the activation it starts, which must arm the next one itself;
- a *dispatch* (`platform.dispatch`): an activation in another tenant's store,
  whose owed marker and result row appear in this one when it is done.

How the last three do what the others rely on is itself modelled (`Sends`,
`Dispatch`); the modules that use them state only the contract above. In the
browser the unit is the same: what runs between two awaits or two events is one
action, and what an `await` reads again afterwards is read again.

## 2. The system

| component | state | operations | hard because | module |
|---|---|---|---|---|
| Account deletion job (`admin/index.mjs` 846-924, 1720-2196) | marker `acctdel/{aid}`, instance rows, the account's key range | request, wake, callback of a tenant delete, operator retry | many activations, pages and cursors, calls in flight across it, freezing and retrying | AccountDeletion, DeletionJob |
| Team membership (636-845, 1548-1720) | member, reverse index and e-mail rows, pending and global invite rows | invite, accept, revoke, role change, remove, leave, create, delete | one fact in several rows written by hand; invites outlive what they were made in | Teams |
| Tenant ownership (162-215, 686-815, 2197-2307) | owner pointer, incarnation row, listing per account | provision, delete, continuations, bind, deletion job | names are reused; answers arrive late and in any order; operators act outside | Tenancy |
| Billing (925-1056, 1097-1128, 1243-1547) | customer, subscription, status, watermark, plan, event markers | subscribe chain, change, cancel, webhook, plan push | events late, reordered, repeated; idempotent replays; held answers | Billing |
| Card-testing guards (1130-1241, 1436-1450) | attempts, declines, hold | attempt, decline, dispute | windows that begin anywhere, lost counters | BillingGuards |
| Durable sends and the scheduler (system modules) | rows by id and by time, watermark, owed markers, attempts in flight | send, schedule, cancel, tick, fire, result | crash, retry and watchdog race; bounded ticks; two builds | Sends |
| Dispatched kv, root writes, releases (35-160, 229-604) | owed markers, result rows, parked requests | list, get, set, create, assign, publish | spurious wakes, lost and repeated activations | Dispatch, RemoteCalls |
| Deploy workspace and cut (2467-2940, `admin/v1/upload`) | `_workspace/`, `_workspace_pkg/` rows | reset, file, package, reference, upload, cut | a chain of activations that re-reads what others write | Deploy |
| Source reads and history (2941-3237) | carried context, result row | read one, read all, history | long chains over a live pointer that moves | SourceReads |
| Data export (3238-3297, `export_run`) | export record, watchdog, uploads | start, part, links | a job of many activations that must neither lose a page nor itself | Exports |
| Recipes, blobs, log segments (system modules) | recipe rows, pending and owed markers, hot rows, index | write, seal, compose, store, append | stores that fail, repeat and overlap | Blobs |
| Crontab search (`cron_tick`) | a candidate time | next | month ends, two day fields | Cron |
| Router and authorization (3298-3494, `_middlewares`) | none | match, authorize | a table, and gates kept in three places | Router |
| Code panel (`admin/_static/pages/instance.js`, `api.js`) | draft, statics, editor, deploys under way | load, open, type, create, remove, deploy | three copies of a deployment and reads across awaits | Editor |
| Identity provider (`auth/index.mjs`) | links, cooldown, sessions | start, verify | single use, several live links | Login |
| Package registry (`registry/index.mjs`) | versions, contents, labels, index | publish, resolve | immutability, ranges, a graph | Registry |
| Agent and its page (`agent-sample/agent`, `rove-agent.js`) | transcript, held chain, socket, prompts | frame, model answer, prompt, drop, stop | frames during a held turn, trimming | Agent |
| Client library (`rove.js`) | sources, handlers, waiters, timers | connect, on, waitFor, refresh, close | timers and errors of a source that is no longer the one | Channel |
| Replay of a record (`request-replay.mjs`, `rtap.mjs`) | tapes, cursor, poison | read | what the record lacks must not be invented | Replay |
| Model view (`model-view.mjs`) | interaction log, stop | cut | a position inferred from two signals | ModelView |
| Saga window (`wasm-app.mjs`, `api.js`) | window, cache, questions in flight | ready, tail, navigate, reload | late answers, cached windows | Window |
| Trace and stepping (`cursor.mjs`, `wasm-app.mjs`) | event list, playhead, pane | every verb | the viewer's own frames among the customer's | Trace |
| Doors, invoices, usage, pages, static sites | - | read, pass through | - | - |

How they interact. The deletion job asks the control plane to delete the
tenants that *tenant ownership* recorded, cancels what *billing* recorded and
erases the rows of *team membership*; its tombstone (`isDeleting`) is read by
`backfillSelf`, `createAccount`, `acceptInvite`, `provisionInstance`,
`handleSession`, `deployGate` and both deletion requests, and by nothing else:
`inviteMember`, `setMemberRole`, `subscribeBilling`, `deleteInstance`, the
streamed upload and every continuation go ahead. Billing pushes a plan to the
tenants ownership lists. The deploy surface and the kv surface ask `canAccess`,
which reads all three rows of ownership and the membership rows. The job, the
exports and the pushes rest on wakes and sends (`Sends`); its identity sweep and
the kv surface rest on `Dispatch`; the panel (`Editor`) hands `Deploy` a bundle
and reads it back through `SourceReads`; the viewer replays (`Replay`, `Trace`,
`ModelView`) what the log server recorded and `Window` frames.

What makes each correct is stated as properties of its module (section 3).

## 3. The modules

One module per component; `MC*` modules hold what TLC needs to instantiate one
or several, `*Proofs` modules theorems. `PROJECT.json` maps each definition to
its lines. An operator whose comment begins with `mutant:` is a deliberately
wrong variant of a definition near it: no specification uses it; it shows, when
put in that definition's place, that the property named for it can be violated.

### AccountDeletion, DeletionJob

One account, personal or team, with its key range abstracted to ordered
positions (so pages, full pages and cursors are exact) and the reverse index
rows beside it. `WakeIdle`, `WakeSends`, `WakeRows` and `WakeIdp` are the ways
through one `acctdelWake` activation, with the fall-through from phase to phase
inside one action; `IdpStep` is `acctdelIdpStep` with its harvest, cooldown,
direct and dispatched sweeps; `OnAcctdelCpDelete`, `RetryDeletion` and
`RequestDeletion` are the other entry points. The people of the account act
beside it: session reads, invites, provisions, undeploys, a subscribe, a login.
`DeletionJob` is what the job promises: running, frozen until a retry, or done,
and done only with nothing left of what was there at the request.

Properties: a running job always has its watchdog (`RunningIsArmed`); nothing of
the moment of the request survives the rows phase (`OriginalsErased`), tenants
go first (`TenantsDestroyed`), the identity sweep skips nothing
(`IdentitySwept`); the job implements `DeletionJob` (`JobSpec`) and comes to
rest (`JobRests`). Proved besides: no reverse index row outlives its row
(`NoOrphanIndex`), the marker and the dispatched operation agree
(`DispatchTracked`).

Abstracted: several identity prefixes become `NSteps` steps over the two kinds
of store; the plan limit is left to Tenancy; who may access a tenant is a
superset of what `canAccess` grants (exact in Tenancy); the e-mail and Stripe
keys are configured; that a failed provision is a no-op of the control plane is
taken as its contract. A tenant with a control-plane call outstanding at the
request is not counted in `origLive`: its row, or the answer, may be of an
earlier lifetime of the name.

### Teams

Users, their personal accounts (same id) and teams; every membership handler is
one action that writes all the rows the handler writes. The deletion job is
`Erase`, one step, opened up in AccountDeletion. Operators (who use the owner
routes) are restricted to accounts that exist. Properties: the three rows of a
membership agree and pending rows and tokens are one-to-one (`RowsAgree`), an
account with members has an owner (`SomeoneOwns`). Proved besides: nobody has an
invite to an account they are in (accepting one would demote an owner), a leaver
is out of every other account, a personal account is its user's, and only the
last live token of an invitee admits.

### Tenancy

Names that are reused, each lifetime an *incarnation*; calls in `Slots`,
answered in any order and handled any time later; operators who form and take
down tenants without the dashboard; deletes of the deletion job, whose answers
may be lost and which are then repeated. `CanAccess`, the provision and delete
entry points and continuations, the lazy backfill and `bindIncarnations` (with
the dry-run check its comment asks of the operator). Properties: access is only
ever to a lifetime that the account itself provisioned (`NoForeignAccess`), from
`BindingIsOwners`. Proved besides: an owner pointer names an account that lists
the tenant.

`CpNamesIncarnation` says whether the control plane's reply names the
incarnation. With a control plane that does not, `onProvisioned` asks the engine
and may bind a lifetime formed in between by somebody else; `NoForeignAccess` is
claimed for the current control plane only. `Jobs` switches the deletes of the
job on; without them exactly the recorded owner lists a tenant (`RowsMatch`,
proved).

### Billing

One account against a model of Stripe, which moves subscriptions through their
statuses, emits an event for every change, delivers events in any order
(`reorder`), several of one second (`same_second`), at least once, remembers
idempotency keys until `KeysExpire`, and may lose the answer of a held call
(`lost_answer`). `Faults` selects which of these a run has; `unpaid` adds the
dunning outcome of that name, `paused` a subscription that Stripe pauses, and
`give_up` a push that is refused or used up its attempts. The actions are the
subscribe chain hop by hop, change, cancel, the two outcomes of the webhook for a
subscription event, and the pushes.

A push to a tenant is a keyed durable send: `push` is its marker, which a newer
push overwrites, and `wire` the attempts under way, in as many `Lanes` as the
instance admits. A new push fires at once whatever is under way (`Fired`); an
attempt lands at the control plane in any order (`PushLands`), is answered, and
then deletes the marker whatever it carries by now (`PushAnswered`), or fails or
times out, landed or not (`PushFails`); a retry reads the marker again
(`PushRefires`). The distances of retry and watchdog are in `Sends`.

Properties: `PlanNotStale` (an applied event is overruled only by one at least as
new), `NoPlanUnpaid`, `NoStalePush` (a push that is owed carries the plan of the
account, and a tenant that had no attempt of an older push under way when the plan
moved enforces the plan or is owed it), `RowsFollowStripe` (once everything is
delivered the rows are Stripe's). What the comment on the push promises of every
tenant is `PushConverges`, which section 6 refutes: hence the history `raced`.

Abstracted: "trialing" behaves as "active" in every test of the code; "paused" is a
status of its own, which is neither active nor down. The signature check, tiers the
code does not sell, period ends and the subscription item are left out; a repeated
delivery is a delivery of a seen event, which changes nothing; an incomplete
subscription expires after its held call has ended (23 hours). A tenant provisioned
after the plan moved is pushed nothing until it moves again; `told` keeps to those
that were there.

### BillingGuards

Attempts, declines and holds with a counter for a clock. A missing row and one
that does not parse read the same. `RefusalIsEarned`: who is refused has the
attempts or declines for it within the window, even when a counter was lost.
Proved besides: attempts are spread (of 2N consecutive ones the last comes a
window after the first) and a hold and the counter that tripped it lapse
together. The attempt is charged before the other checks of `subscribeBilling`,
so `Subscribe` counts attempts, not subscriptions.

### Sends

The scheduler and the durable sends of one tenant. `byId`/`byTime` are the two
kinds of `_sched/` rows, `watermark` the engine's next wake, `fanned` the fired
entries whose activation has not run, `owed` the `_send/owed/` markers, `flight`
the attempts not yet answered. Every time is a distance from now, so the state
space is finite without a horizon; `ClockStep` brings everything one nearer and
does not pass the moment an attempt times out. `Send`, `Schedule`, `Unschedule`
are the prelude's API; `SchedulerTick` reads a page one longer than it may fire,
drops orphans and refused targets, leaves rows of another build alone and
installs the next watermark; `WebhookFire` and `WebhookOnResult` are the two
handlers with every early return; `Crash` loses what was in memory and may
change the build. Record versions stand for builds: a build reads only its own.

Properties: a send that is owed has a wake with its index row
(`OwedIsWatched`); no armed wake lies before the engine's watermark
(`WatermarkCovers`); a send ends, unless a build that cannot read it leads for
good (`SendsSettle`); and the claim of no double send (`NoDoubleSend`), which
section 6 refutes.

### Dispatch, RemoteCalls

One request makes one dispatch. `owedTo` and `result` are the two rows it leaves
on the dashboard's side, `wakes` the first fire and the watchdog, `runs` the
activations on their way to the target, which run in order, `replies` the
outcomes on their way back. `RootKvInstall`, `ScopeKv` and `ReleaseFlip` are the
target's modules, `DispatchFire` and `DispatchResult` the dashboard's,
`Woken` the four `on...Done` continuations. A target that is not led by the node
the runs landed on drops them all; an answer may be lost. The target may refuse
(a name that is taken, a value in `Unfit`: a `dep_hex` of 0, a row whose key is no
string), and a row in `Long` is cut off at the carry cap and comes back as
"overflow"; the route answers either with a 502. A release reads no result: its
202 says "queued".

`RemoteCalls` is what a dispatch promises: a call takes effect in one step on the
target's store, perhaps more than once and perhaps when its caller is gone; the
answer is what one of those times said, a read included, or of a release that there
was such a time; and it does not take
effect any more once a call made after its answer has. `Dispatch` implements it
(`CallsSpec`, with a request as the call and the target's rows as the store; the
history `outcomes` is what activations said), and from the same invariant
`AnswersHold` says it from the caller's side. A parked request is answered or its
connection ends (`ParkedIsAnswered`).

### Deploy

The dashboard's client resets a workspace, uploads a bundle file by file and
package by package, and cuts; each held compile, stage or blob call is a hop
whose continuation reads the workspace again. `Walk` is `pkgCompileQueue`, the
depth-first order with its cycle test. The listing limit (`PageLimit`, 1000 in
the code) is in the model: what a reset leaves and what a stamp reads are
prefixes of a listing. Properties: a client that is alone gets exactly the
bundle it asked for, compiled as it is, whatever earlier deploys left behind
(`CutIsTheBundle`); when a package is compiled, what it imports has its bytecode
(`ImportsAreReady`). A bundle longer than a listing is outside (`Fits`); see
section 6 for it and for two clients at once.

### SourceReads

The chain of a read over the live pointer, the manifest, the modules and the
package files, with what it carries from hop to hop, while releases move the
pointer. `SourcesAreWhole`: an answer holds exactly the handlers and files of
one manifest, in its order, and a terminal hop leaves no result row.

### Router

One request through `_middlewares` (`Before`), the route table
(`MatchRoute`, with every route of the source), the class of its gate
(`RouteAuthz`) and the gates handlers keep themselves (`OwnGate`,
`StreamedUpload`), for seven kinds of caller. `EveryRouteIsGated`: at most one
route fits a request, it is handled only for who is entitled to what its handler
touches, and nobody but the root token is turned away who is.

### Editor

The code panel's three copies of a deployment: the editable `draft`, the `statics`
carried by reference, the text in the editor. A handler of the panel is an action;
`openEntry`, `loadCurrent` and `deploy` are cut at their awaits. The package set
with its `app_imports` is one more part of the bundle, carried through frozen; a
source of it that cannot be read (`gone`) makes Deploy refuse. `wanted` is the
user's side: the bundle as they have seen, typed, created and removed it.
`ShipsTheWanted`: every deploy ships exactly that. It holds for a user who waits for
the panel (`Troubles = {}`), also for one who types on while a deploy is under way;
each trouble switches one impatience or failure on and breaks it (section 6).

### Login

Links with their expiry, the cooldown of an address, sessions, and registered
origins that come and go; devices follow any link they can get, a mail scanner being
one. A link that is too old, or that is followed without a session context, is used
up and signs nobody in (`VerifyRefused`). `LoginIsSound`: a link signs in once, in
time, as its own address; one lands at the issuer or where a client is registered at
that moment; an address is not mailed twice in the cooldown.

### Registry

A content is what its hash is of: files and frozen imports. `Satisfies` is the
window of a range, `PickVersion` the choice, `Publish` the handler after its
gates, `ResolveGraph` the lock. `PublishedIsFrozen`: labels, capabilities,
canonical labels and the order of the index never change. `LocksAreRight`
compares a lock with a reference definition that says what a range means
without the window (`InRange`): in range, highest, whole, capabilities counted.

### Agent

The page's script, the held socket and the handler, with the frames between them
(`up`, `down`). The model answers anything, on elements its call had shown. An
element keeps its ref while the page shows, hides and re-labels it, so which names
are destructive changes (`danger`); the handler decides by the names of the last
snapshot (`Gated`). `ConfirmedFirst`: an action on an element that was destructive
in the view the model chose it from is executed only after the user approved that
very action. Of the element as it is when the page acts this says nothing, and
`PolicyGate`, which does, fails (section 6). `ConfirmedFirst` holds for the options of the run
(the built-in confirm with drops and no screenshots, or a confirm of the page's own
with screenshots and a socket that stays); section 6 has the others.

### Channel

The client library's sources, handlers, waiters, mints and timers, with the
browser's EventSource as external. `HandlersHear`: whatever failed, was
refreshed or reopened, the source in use listens for every type a handler was
given for.

### Blobs

Recipes written, sealed, composed and stored, and the log's segments. Stores
fail, answers repeat, calls are lost with the leader; the engine's materializer
composes again what is sealed. `SealIsKept`: a chain's `on` is activated once,
when its object can be served, and until then its recipe is whole.
`RecordsSurvive`: a record of the log is hot or in an object that is stored, and
what a row of the index stands for is stored and hot no more. That it is also found
through the index, as the comment on overlapping seals says, is `RecordsReadable`,
which section 6 refutes.

### Exports

Two dispatched hops start an export, `WakeExport` and `PartUploaded` are
`export_run` on a wake and on a result, `GetExportLinks` presigns. A part is the
page it holds. `ExportIsComplete`: a done export has every page once and in
order. `RunningIsWatched`: a running one has its watchdog.

### Cron

`cronNext` as a search over a scaled-down calendar, with the carrying setters of
`Date`. `NextIsNext`: what it arms is an occurrence and none lies before it,
against a reference definition of an occurrence.

### Replay

A handler is any deterministic program: live it observes what the platform gives
it; in the replay it asks the same as long as it was answered the same. `Worlds`
is what a record may hold and lack (headers, payload inline, behind a resolved
or a lost reference, sealed tapes, digest). `FaithfulOrPoisoned`: a run that was
handed anything it was not handed live is poisoned, and only a run that observed
what the captured one observed is shown as verified. That holds of the `Ordinary`
runs, those that meet none of the `Features`: a payload beyond ASCII, a read of the
retired `request.body`, the status of a callback, a key written twice, a JSON body
with a `ctx` of its own. With each of these it fails (section 6).

### ModelView

The complete interaction log and a stop in it; `Cut` is `cutInteractionLog` over
the two signals the stopped run shows. `CutCoversTheRun`: the cut withholds no
row operation that ran, and says it is sure.

### Window

The viewer's document, its session storage, the dashboard that answers its
questions late and out of order, and the saga that grows. The dashboard sends a
record without a saga when that could not be read (`NoSaga`); a viewer it opens for
another record (`replay:open`) is another document, so another instance of the
module. `GapsAreTrue`: between
any two neighbours in the rail a seam is drawn, counts exactly the foreign
activations that ran there and shows the scan of that seam only.

### Trace

The engine's event list carries what the viewer does not see (the frames alive
and the frame an event ended); everything the viewer derives from the list is
translated, each verb is an action. `SourceIsLive`: the lit line is the last
line of its own that the innermost customer frame executed. `VerbsKeepFrames`: a
step over skips no event of its own frame and leaves it only by its exit; a step
out ends exactly the frame it was in.

## 4. The runs

Modules that share no state are checked in one run, under a variable `subject`
chosen in the initial state: each behaviour exercises one module while the
others rest in an initial state of theirs. The reachable states are the disjoint
union of the modules' own, so an invariant is checked of each module exactly as
it would be alone; the union says nothing about interaction, and claims nothing.
`durable_core` takes Billing's steps from its `OneAfterTheOther`, without which
`RowsFollowStripe` does not hold, and divides them in two subjects: the rows with plan
changes and no tenants, and the pushes with tenants and no changes.
All but `sends_double` have `CHECK_DEADLOCK FALSE`: people, operators and
services may stop at any time, a search or a request ends, and every bound lets
a model run out of things to do.

| run | instance | shows |
|---|---|---|
| `deletion_core` | 2 tenants, 6 rows, pages of 3, sweep of 2 steps by 3 positions, 2 jobs, 1 retry, 2 calls of people; 534,616 states | the safety properties of the job and that it implements `DeletionJob` |
| `live_core` | the job with 1 retry and 1 call; 1 send and 1 timer, 2 builds, a crash, 2 attempts, ticks that fire 2; 2 requests, 3 deployments of which one is unfit and one long, 2 runs of one dispatch, 1 loss; 249,226 states | with fairness: the job rests, sends settle, parked requests are answered; and the invariants of Sends, and that `Dispatch` implements `RemoteCalls` |
| `billing_core` | 1 tier, 2 calls at a time, 2 subscriptions, 4 events, all faults of Stripe; windows of 2 and 3 ticks, limits 2 and 3, 2 cards, 6 ticks, 1 lost counter; 8,418,426 states | `NoPlanUnpaid`, `PlanNotStale`, `RefusalIsEarned` |
| `tenants_core` | ownership: 2 accounts, 1 name of 3 lifetimes, 3 calls, jobs. Deploy: 1 client, 1 handler, 2 statics, 2 contents, 2 packages, listings of 2. Reads: 2 readers, 3 manifests. Router: every route, 7 callers. Editor: a handler, a text and a binary static and a package set, 2 texts, 2 deploys, typing while one is under way. Replay: 5 kinds, 1 header, 1 key, 2 observations. ModelView: logs of 3, 2 keys, 2 values. Window: a saga of 3 hops read by pages of 2. Trace: runs of 6 events; 1,126,334 states | the properties of these nine modules |
| `apps_core` | Teams: 3 users, 1 team, 2 tokens. Login: 2 devices, 2 addresses, 2 links, 3 ticks. Registry: 2 packages, 3 versions, 2 ranges, 3 publishes. Agent: 3 model calls, 1 drop, 1 element that is hidden, shown and re-labelled. Channel: 2 sources, 2 timers, 1 failure; 1,012,783 states | the properties of these five modules |
| `durable_core` | Blobs: 2 chains; a log of 3 records with 2 seals under way; 1 trouble. Exports: 2, of 2 pages, 3 outages. Cron: a year of months of 4, 3 and 4 days of 2 hours, weeks of 2 days, every crontab. Billing, with one subscription after another: 2 tiers, 2 subscriptions, 4 events reordered, 1 change; and 1 tenant with 2 attempts of a push under way; 1,273,956 states | the properties of these three modules, `RowsFollowStripe`, `NoStalePush` |
| `deletion_stranded`, `sends_double`, `export_stranded`, `replay_fiction`, `seals_overlap`, `push_races` | as their configurations say | counterexamples, section 6 |

Why these bounds are enough. Deletion: a page of 3 over 6 rows gives full pages, an
exactly full last page and rows behind the cursor; two jobs show what the first
leaves for the second; one retry is enough to re-enter every phase with old
bookkeeping. Sends: one crash, with the other build, at any point between a fire,
its attempt and its result; watchdog, timeout and backoff keep their order; more can
be due than the 2 entries one tick fires, so the bound is met; `sends_double` has
the real distances (two seconds a step). Dispatch: a second run of a dispatch races
the first, and a second request asks after the first was answered. Tenancy: a name
needs three lifetimes for an answer about the first to be handled in the third while
the second is also outstanding. Deploy: two packages give every import graph that
matters (a chain both ways, a cycle, none), and a third file is one more than a
listing. Editor: two deploys, so that the second meets what the first left in the
panel. Teams: a third user is needed for promotions and removals that undo each
other, two tokens for one superseding another. Registry: three publishes give a
dependency with a later version beside it. Billing: paid, fallen and paid again
through an overtaken event takes four events, two subscriptions one of each fate; an
older attempt that lands between the newer one's landing and its answer takes two
attempts under way. Guards: three windows are needed for the attempts on both sides
of one. Exports: with two pages the first, a middle and the last part differ; three
outages exceed the attempts of one part. Cron: months of two lengths and days that
exist only in the longer. Window: a third hop is one that arrives while the window
of two is shown. Trace: six events are a call, a call within it and both exits, or a
suspended body that resumes.

Fairness (`live_core` only) is weak and of the engine alone. `Fairness`
(AccountDeletion): an armed schedule entry, a durable send and its callback, a
dispatched operation, the answer of a held call; each is a durable queue entry,
retried until it ends. Wakes are one condition over their disjunction, since it
is one entry that fires. `SendsFairness`: the engine sweeps, runs what it fired,
answers every attempt (with a timeout if need be), and time passes.
`DispatchFairness`: armed entries fire, the target runs what arrived, answers are
handled and parked requests are woken; losses are bounded, which the watchdog
needs and the code assumes. Nothing is assumed of people, operators, customers
or of how an attempt ends. None of these actions is enabled in a module at rest,
so the conjunction assumes nothing of one module for another. `JobRests` excepts
a job with a stranded instance, the first item of section 6, and `SendsSettle` a
marker of another build.

## 5. The proofs

Checked by TLAPS for every value of the constants under the named `ASSUME`s of
the modules (which TLC evaluates in the runs). Each proof is the classical one:
an inductive invariant, one lemma per action, and the properties as consequences.

- **AccountDeletion** (`AccountDeletionProofs`): `IInv` adds to the properties
  that the cursor is behind everything still owed (`CursorBehind`), that nothing
  of the last job is left but its sends (`JobIsClean`), that the sweep is in range
  (`SweepInRange`), and that a tenant still owed its delete is known to the job
  and no answer says otherwise (`OwedTenants`): the last is what makes
  `TenantsDestroyed` inductive, since callbacks and undeploys of the owner race
  with the phases. `SweepMissesNone`, inductive given `IInv`, says that an identity
  row still left lies ahead of the sweep's cursor and of the operation dispatched.
  It survives a retry whose new sweep harvests an operation of a later step: that
  one was only sent when all earlier steps had been swept, which is why
  `IdentitySwept` holds although `DeletesGoHome` does not (section 6). With `IInv` it
  gives the refinement theorem `Spec => JobSpec`.
- **Teams** (`TeamsProofs`): `IInv` adds that a pending invite is to an account
  that exists (otherwise a lazily created account would have its invitee as the
  only member) and that what exists was minted before. `JoinsByInvite` is an
  action property from the same invariant.
- **Tenancy** (`TenancyProofs`): `IInv` relates what a call in flight carries to
  the history of lifetimes (`AnswersTrue`), and holds the two parts that depend on
  `CpNamesIncarnation` and on `Jobs`; the theorems that need them assume them.
- **Billing** (`BillingProofs`): `PlanNotStale` needs `Watermark` (no applied
  event is later than the watermark): an event applied after another is at least
  as new, so the newest plan-bearing one is the last. `NoStalePush` needs
  `UnderWay`: what is under way to a tenant that did not have an older attempt
  under way when the plan moved is the plan, and is enforced once it has landed, so an
  answer that clears the marker leaves the plan enforced. `RowsFollowStripe` speaks
  of quiescence. The theorem is about behaviours whose every step is one of
  `OneAfterTheOther`: a subscribe begins only with no other under way and only when the
  row shows no subscription or one that is canceled or expired, so not while one is
  active, past due, unpaid or paused, although the code also admits a subscribe over
  the last two; no answer is lost; no two events are of one second. Neither the code
  nor Stripe guarantees these; section 6 has what happens otherwise.
  `RowsInv` is what carries it through the steps between: a subscription is
  created only when the rows show the end of the one before, which they do only
  when its last event was applied, so every older event is below the watermark
  and is refused when it comes.
- **BillingGuards** (`BillingProofs`): `WindowsApart` says of the history of
  attempts that windows are apart by a window's time and none has more than the
  limit; of 2N consecutive attempts either two boundaries are crossed, or one and
  the first began its window. `Charged` survives a lost counter and gives
  `RefusalIsEarned`; `OutlastsWindow` gives `LapsesTogether`.
- **Sends** (`DurableProofs`): `Sound` says that the scheduler's two tables
  describe each other, and every arm, cancel, tick and fire is shown to keep it;
  `SendsInv` adds that a send still owed has a record under its first key or under
  the retry's. That build 0 is "no marker" is all it needs of the constants
  (`BuildsAssumption`). `OwedIsWatched` follows, and that no record is without its
  index row. `WatermarkCovers` needs that a page of the due scan cannot be filled
  by rows that wake nothing (`DeadFitAPage`, a condition on the behaviour and
  stated as one); section 6 has what happens when it is.
- **Exports** (`DurableProofs`): `RunningIsWatched` is inductive with the shape of
  the record, under the assumption of one build (with two it is false, section
  6). `PartsInv` says that the recorded parts are the pages before the cursor and
  that the only upload in flight is the next one; it gives `ExportIsComplete`
  under the assumption that one upload is in flight at a time, which section 6
  shows to be needed.
- **Blobs** (`DurableProofs`): `SealInv` says that a put under way for a chain
  carries what the chain sealed and that an answer reporting success is about an
  object in the store; then a recipe goes only when its object can be served, and
  a repeated answer finds no recipe. It assumes that the marker for "not sealed" is
  no byte (`BytesAssumption`). `LogInv` adds to `RecordsSurvive` that what is under
  seal, stored or on its way into the index are segments of appended records; it is
  inductive for any number of seals under way. A row of the index can only lose a
  record by being replaced with a shorter segment's: while none shrinks
  (`NoRowShrinks`, a condition on the behaviour) every record is found through the
  index (`RecordsAreReadable`). The code does not keep to that condition (section 6).
- **Dispatch** (`DispatchProofs`): the refinement theorem `DispatchSpec =>
  CallsSpec`, and `AnswersHold`. `TargetDoes` shows each of the target's modules to
  do what the abstract call does; fires, result rows and losses are stutters.
  `DispatchInv` carries what an activation said from the reply to the result row and
  to the answer of the parked request. The part that is not obvious is `Ordered`:
  what was answered before another request was made is ahead of it in the queue of
  the target, and is no longer in it when the other has run, which is the guard of
  the abstract `TakeEffect`. A refusal changes nothing at the target and is an
  answer like another; of a release the answer says only that an activation of it
  ran. No activation of a resolved request starts, so the queue gets none
  afterwards.
- **Login and Registry** (`AppsProofs`): `LoginInv` says that links are numbered
  as they were handed out, that one that can still be followed never was, and that
  the cooldown is the time of the last mail. `PublishedIsFrozen` is an action
  property, from the invariant that stored content is what a build of the version
  was labelled with, so a later publish of the version finds it and keeps it.
- **Locks** (`AppsProofs`): `LocksAreRight` rests on two arguments. The window that
  `satisfies` computes with its three-part arithmetic is the set of versions the
  range means (`WindowIsRange`): true of every range but a caret of zeros cut
  short, `^0` of section 6, which `CaretsAreNamed` excludes. And the closure
  over imports ends and is closed: what is imported was labelled before, so labels
  have ranks (`Ranks`) and a walk of as many steps as there are contents meets
  everything below.
- **Channel** (`AppsProofs`): `ChannelInv` adds to `HandlersHear` that sources are
  numbered as they were opened and count their listeners by type, so a mint wires
  a new one and never an old one.
- **Agent** (`AppsProofs`): `ConfirmedFirst` follows an approval through the two
  wires: one thing at a time is on its way between page and handler (`OneAtATime`),
  so whoever holds it finds the context of its own turn (`InCtx`): the names in the
  view the model was shown, or the action the user was asked about. A socket that
  drops takes it along, but for a prompt that does not block the page and a
  screenshot being taken (section 6), so the theorem assumes `LeavesNothing`:
  sockets drop only from pages with neither.
- **Deploy** (`TenancyProofs`): the workspace of a client that has reset it is what
  was staged of its bundle so far (`AsStaged`), and a listing that fits a page shows
  all of it; the packages still to compile are in import order (`InTurn`, kept by
  every visit of the walk, by induction on its steps). Assumes `OneClient`: with two
  clients at once the properties do not hold of the code (section 6).
- **SourceReads** (`TenancyProofs`): what a chain has answered and what it still
  has to read are together the manifest it began with, in order; a result row
  belongs to one reader's chain.
- **Router** (`TenancyProofs`): `EveryRouteIsGated`, for any values a parameter may
  take. The table is read row by row: which requests a row fits (`FitsAs`), that no
  request fits two (`OneRowFits`, where a literal segment might have been taken for
  a parameter), that the gates of a row decide as what its handler touches demands
  (`GatesDecide`), and that who is not admitted was not entitled (`TurnedAway`). No
  assumption.
- **Editor** (`TenancyProofs`): while the panel is loaded, the bundle a deploy would
  ship is what the user wants, and a package set is part of it or Deploy refuses;
  what it carries by reference is what the current deployment, and any under way,
  has under that path. Each member of `Troubles` breaks this alone (section 6), so
  the theorem assumes `Troubles = {}`.
- **Replay** (`ViewerProofs`): a replay that is not poisoned has observed, one by
  one, what the captured run did, and its cursor on the drawn values was at the same place
  before each. The theorem is about any `Features` and says this of the `Ordinary` runs,
  those that meet none of them; of the others it fails (section 6).
- **Window** (`ViewerProofs`): every payload, shown or stored, is the saga from its
  first hop to some hop with the gaps between neighbours, or has no hops, and an
  answer is a run of hops after a cursor the log had reached; merging the two keeps
  the form.

- **ModelView** (`ViewerProofs`): up to the stop, the simulated log keeps in step with
  both signals, the overlay and the count of reads, so the last row operation
  before the stop is a candidate for the cut, and from there the cut only moves on. By
  induction over the rows; any log, no assumption.
- **Trace** (`ViewerProofs`): `TraceInv` says that every event is one the engine can
  emit after those before it, and that the frames alive are nested. By induction over
  the events, the stack a walk rebuilds mirrors the frames alive, frame by frame
  (`Mirrors`), and enters minus exits counted from the playhead are differences of
  depth, which is why step over and step out recognise the playhead's own frame.
  Any trace, no bound.

- **Cron** (`DurableProofs`): instants are ordered as months, days and hours are read
  (`InstantsAreOrdered`, by induction over the months), and each setter moves to a
  time with nothing that could match in between. The step of a month does so only if the
  next month has the candidate's day (part of `CronInv`); the theorem assumes
  `StartsEarly`, no cron fires on a day so late that the one after it is missing from a
  month, and section 6 has the other days.

Model-checked only. Out of the prover's reach: everything with fairness
(`JobRests`, `SendsSettle`, `ParkedIsAnswered`). Every other property of the passing
runs is a theorem, under the assumptions and conditions named above.

## 6. Where code and documentation part

Kept as runs that end in a counterexample:

- `deletion_stranded`: a callback that arrives while another instance has frozen
  the job is dropped; after the operator's retry its instance is "pending" with
  nothing in flight, and the job polls forever.
- `sends_double`: a failed attempt arms its retry under another wake id than its
  watchdog, which stays where it was and fires while the retry is in flight: two
  attempts at once, which the module's own comment excludes.
- `export_stranded`: the wake of an export that finds a record of another build
  has consumed its entry and returns without arming it, so the export is
  "running" with nothing to drive it, also for the build that could read it.
- `replay_fiction`: a recorded payload beyond ASCII is decoded as UTF-8 and its
  bytes are taken back as one per character, so it replays as another, unpoisoned.
- `seals_overlap`: two seals that begin with the same record are two stores in
  flight and share an index row. "The later index write wins", but the later write
  may be of the earlier, shorter segment: the records only the longer one holds are
  then no longer hot and in no segment of the index. The object that holds them is
  stored, and nothing finds it.
- `push_races`: the comment on the push says that a newer push overwrites an
  undelivered older one "instead of racing it". It overwrites the marker; an attempt
  of the older push that is under way lands after the newer one, and its answer deletes
  the marker that is by then the newer push's. The tenant keeps the older plan, nothing
  is owed to it, and the next event for the newer plan is a no-op.

Seen with the same models and not kept as runs. The properties and constants named
are in the modules; each is violated on bounds as small as the component's run
unless others are given.

*The dashboard.*

- AccountDeletion: `DeletesGoHome`: the dispatched-operation id survives a freeze
  and a retry; the restarted sweep reads the result of a later step as the first
  step's and sends the delete batch to the wrong store. `NothingLeft` and
  `BillingEnds`: a provision, an invite or a subscribe that straddles the job
  writes rows, or leaves a subscription, of the erased account.
  `StragglersAreDead`: a tenant provisioned while the job ran is live when its row
  is dropped without a delete.
- Tenancy: `ClearsTheGone`: the answer of a delete, handled after the name was
  provisioned again, clears the rows of the live tenant. `WithinPlan` (two
  names): provisions in flight are not counted against the plan. `DestroysOwn`: a
  delete the control plane performs late takes down the next tenant of the name;
  the request names no incarnation.
- Billing (`Spec`, two tiers, two subscriptions, four events, no faults):
  `PaidKeepsPlan`: the "already subscribed" guard reads a row that is written when
  the held chain ends; two subscribes pass, and the expiry of the one that is
  never paid takes the plan of the paid one. An account with an "unpaid" or
  "paused" subscription may buy a second, and the first may come back, with the same
  end. `ChangeTakes` (three changes):
  the idempotency key of a change names account and tier only, so changing back to
  a tier chosen within a day does nothing at Stripe. A double submit answered from
  Stripe's memory after the payment sets the status back to "incomplete". An
  "active" overtaken by a later "past_due" is refused as stale, so the plan does
  not rise until the next event. A push dropped after 8 attempts is not sent
  again: the next event for that plan is a no-op.
- BillingGuards: windows begin with their first attempt, so up to 2N - 1 attempts
  fall into one hour, and distinct cards on both sides of a window's end do not
  hold the account; `admin/billing-abuse.md` says 5 per hour and 3 per day.
- Deploy: a bundle of more than one listing (1000 files) is cut without the rest
  and without an error (`Fits` is the bound within which `CutIsTheBundle` holds).
  With two clients deploying one tenant, `StampedAsCompiled` fails: the stamp
  reads the workspace again after the compile. The upload door's authorization
  does not ask whether the account is being deleted.
- SourceReads: `NoResidue`: a chain that dies after its dispatch resolved leaves
  the result row; the comment at `admin/index.mjs:132-133` says nothing is left.
- Dispatch (`Unfit` with one deployment): `ReleasedWhenAnswered`: the route admits a
  dep_id of 0, the target refuses it, and the route, which reads no result, answers the
  same 202 as for a release that was carried out. The comment says that a client "that
  publishes and immediately lists deployments must see it live".
- Router: `publishRelease` and `handleHistory` refuse the operator's machine token
  that other operator routes admit, and `/v1/deploy/ref` is missing from the list
  of machine routes its siblings are on.
- Editor: every member of `Troubles` breaks `ShipsTheWanted` alone. "early":
  a deploy before the deployment is loaded ships what was created until then and
  drops the rest; "unloaded": so does one after the load failed. "unreadable": a
  handler whose source cannot be read enters neither list and leaves the next
  deploy in silence. "impatient": a file removed while it is being read comes back
  with its source. "stray": opening a file that is not in the draft selects
  nothing but leaves the editor as it was until the source is there, and what is
  typed meanwhile goes nowhere. `OneDeploy`, which no run checks, fails without
  any: what renders the tree enables the Deploy button while a deploy is under way.

*Identity provider, registry, agent, channel.*

- Login: `EarlierLinkWorks`: the comment at the mail's cooldown says that the
  earlier link still works; not when it was used.
- Registry: `ExactIsExact` (with versions that have leading zeros): "01.0.0" and
  "1.0.0" are two versions and compare equal, so an exact range finds the one
  published first. `^0` admits 0.0.0 only.
- Agent: `PolicyGate`: an element that was harmless in the snapshot the model was
  shown and is re-labelled before the page acts on it ("Save" becomes "Pay") is
  acted on without a prompt, with every option and no drop. The gate looks at the
  name the ref had (`agent/index.mjs:116-119`, `311-313`), the page at the element
  that has the ref (`rove-agent.js:286-326`). And (every option, with drops)
  `ConfirmedFirst`: the answer to a prompt of before a reconnect, even a refusal,
  arrives in the conversation that has begun again and replaces the context that
  knew which elements are destructive, so the model's answer in flight is sent
  unprompted. `StopIsFinal` (with a token endpoint): a stop while the token is
  awaited does not keep the socket from opening. `CallsArePaired` (`MaxTranscript`
  4, `MaxTurns` 4): trimming drops a tool call and keeps its result. A hello deletes
  the transcript, and a failed model call leaves the agent idle with the request
  unanswered.
- Channel: `WaitersHear`: a waiter of before the first source is not wired to it.
  `OncePerEvent`: a handler of the resync sentinel is wired beside the library's
  own. `OneChannel`: a close while the token is awaited does not keep the channel
  from opening. A rejected connection promise is kept, so every later call is
  rejected.

*System modules.*

- Sends: a send given up for its attempts (in `webhook_fire`, not in the result
  handler) never calls its `on`; `schedule.cancel(id)` does not cancel a scheduled
  send under the id its documentation names; a re-send of an id does not move the
  retry's entry. `WatermarkCovers` with `MaxFires` 1: a page of index rows without
  records leaves the watermark below what is due, until the next arm.
- Exports with two uploads at once (`MaxUploads` 2): `ExportIsComplete` fails; the
  comment says "a part can be issued twice; that is harmless", but the second
  answer for a part is counted for the next. A failed upload is issued again at
  once and not by the watchdog.
- Blobs: of two puts of the same bytes in flight the second never gets its `on`;
  the result handler of a composition looks neither at the state nor at the hash it
  answers for.
- Cron: with `StartDays` {1, 2, 3}, `NextIsNext` fails: a month entered in its
  middle keeps the day, so the first days of the next match are passed over.

*The replay viewer.*

- Replay: each of the features breaks `FaithfulOrPoisoned` alone: "wide", text
  beyond ASCII; "retired", a read of the retired `body`; "callback", the
  status of a send's callback; "rewrite", a second write of a key, refused
  or not like the first; "ctxBody", a JSON body with a `ctx` of its own. A recorded
  payload that is a JSON primitive raises a TypeError at `"ctx" in envelope`. A
  payload by reference is ignored for an activation's channel.
- ModelView: `NoFalsePromise` (`Rereads` TRUE): a key read again with the same
  outcome moves the cut past effects that are not queued yet. A get of a key that
  equals the prefix of an earlier scan is taken for the scan.
- Window: `OwnKey`: a bundle asked for under one fragment and answered under
  another is stored under the hop shown when it comes. A re-read begins at hop 1
  and ends at its page limit, so it does not reach a window further on; a late
  answer about the tail may answer a newer question.
- Trace: `ALineIsLit`: past the last frame the fallback is the last customer event,
  an exit, which has no line. `VarsAreExact`: an exit that is the last event shows
  no variables though a frame is alive, and an event outside any frame keeps
  those of the coarse snapshot. A search that begins past the end finds the first
  match.
- The prelude's `_decode` of URL parameters miscounts multi-byte sequences, and its
  offline `dispatchResolve` differs from the baked module it says it mirrors
  (`arena-prelude.js:780-782`, `793-905`).

## 7. What is not modelled

Listed with reasons in `PROJECT.json`: the generated runtime of the viewer and its
polyfills (`arena-prelude.js` but for what Replay models of it); the engine
itself, seen only through its contract; reads that only format rows (invoices,
usage, account export); the pass-through doors to the log server and the control plane; the
relying party's token exchange (cryptography and redirects); the dashboard's
other pages, which hold no state between requests; static sites, mockups and
end-to-end checks. Cryptography, e-mail delivery, formatting and validation of
input are outside every module.

## 8. The plan

Done, in the order of what a mistake costs: AccountDeletion with DeletionJob,
Teams, Tenancy, Billing, BillingGuards; then what they rest on (Sends, Dispatch,
Exports, Blobs, Cron), the way to production (Deploy, SourceReads, Router,
Editor), the other applications (Login, Registry, Agent, Channel) and the replay
viewer (Replay, ModelView, Window, Trace).

Next:

1. Compositions: AccountDeletion with Tenancy and Billing, where the straddling
   calls are those modules' own; Editor as the client of Deploy; AccountDeletion's
   sends as instances of Sends.
2. The viewer's offline scheduler and `dispatchResolve`, shown to implement Sends
   and Dispatch or to differ where section 6 says so.
