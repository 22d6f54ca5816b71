# nitejaguar: a TLA+ model of the workflow platform

nitejaguar is an automation server: workflows are graphs of trigger and action
nodes, one server keeps them, and remote clients run the nodes assigned to
them, reporting every result. This directory holds TLA+ specifications of the
parts of it in which the order of events matters, TLC configurations that check
them on small instances, and TLAPS proofs of what matters most for every
instance. Every definition is translated from the Go source; `PROJECT.json`
names the lines each one stands for.

## 1. Inventory

| component (source) | state it keeps | operations | what makes it hard |
|---|---|---|---|
| Workflow dispatch (`internal/workflow`, `server/routes.go`, `client/client.go`, `database/database.go`) | workflow definitions (row and in-memory copy), `node_assignment` and `workflow_result` rows; on a client: installed nodes, revision, `pendingSeen`, events channel | `POST /api/results`, `GET assignments`, import, toggle; poll, sync, drain pending, run, report | handlers against polls and imports; lost replies; restarts of either side; query-then-insert without an index |
| Retry decorator (`common/retry.go`, `internal/actions`) | attempts, private channel of each, field `inner`, stop channel | `Execute`, `attempt`, `sleep`, `Stop`; ingestion of attempts | late answers, several executions on one decorator, deadline and Stop races |
| File transfer (`client/transfer_runner.go`, `client/p2p.go`, `client/transfers.go`, `database/transfers.go`, `server/transfers.go`) | session, chunks, signals; on a receiver `transfersSeen` and the destination file | init, offer/answer, stream, upload, poll, download, write, complete | two paths at once, no acknowledgement on the channel, losses, restarts, several receivers |
| Server engine (`workflow.go` `Run`, `actions.go`, `trigger.go`, `server/webhook.go`) | registry of actions and triggers, execution history, results on their way | `AddWorkflow`, run loop, local execution, `merge_input`, webhooks | one loop over unbuffered channels beside loading and requests; joins run once per predecessor |
| Runner sync (`client.go` `syncAssignments`, `drainPending`, `fetchCredentialFull`) | node indices, managed workflows by revision, retired actions, `pendingSeen` | install, retire, deactivate, drain, close | actions replaced under running nodes; a revision that comes back; one loop for everything |
| Client identity, enrollment (`server/clients.go`, `database.go`, `client.go` `Run`) | enrollment tokens, clients, client state file | mint, enroll, authenticate, revoke, restore, clear | lost update of the use count; burnt tokens; crashes around the state file |
| Tenants, users, sessions (`database/tenants.go`, `database/auth.go`, `server/auth.go`) | tenant, user, session rows | create, suspend, delete, login, revoke | several rows per operation, no transactions, missing tenant counts as active |
| Credentials (`database/credentials.go`, `server/credentials.go`) | encrypted rows; client cache of 60 s | create, delete, resolve, fetch, inject | stale cache, failed fetch |
| Triggers that wait (`actions/filewatch`, `filechange`, `cron`, `trigger.go`) | expectation window, schedule timer, debounce table, one result on its way | event, deadline, tick, fire, Stop | timers that run on while a send waits; two of them ready at once |
| Webhook ingress (on a client) | listeners | route a request | execution ids |
| Conditions, merging, targeting (`condition.go`, `common.go`, `workflow.go`) | none: pure functions | merge on both sides, evaluate in the order of a Go map, give owners | two places that merge; types lost in JSON; entries that fail |
| Editing, import and clone; result store; backup | workflow rows, result files, snapshots | save, clone with fresh ids, snapshot | replaced before written |
| Actions (mail, HTTP, exec, ...), pages, generated code | none of its own | one call each | out of scope |

How they interact: a **trigger** posts a result, the server **routes** it
(conditions give the nexts) and each next is either returned to the reporting
client or stored as a row the owner **polls**. A client runs nodes through the
**retry decorator** when a policy is set, fetches **credentials** just in time,
and hands transfer nodes to the **transfer** sender, whose result goes back into
dispatch. Sharing is of three kinds: rows in one database without multi-row
transactions, one critical section on the server (`resultMu`), and channels
inside a process.

What makes each component correct:

- *Dispatch*: no next of an ingested result disappears without one of the failures
  the code admits; a key has one row; a row was earned; one owner per node.
- *Retry*: one verdict per run; no result of another attempt; nothing left
  running unnoticed; a run ends by its deadline or by Stop.
- *Transfer*: `ready` and `done` mean what they say; a reported result is true;
  nothing at a destination is destroyed; a stored file arrives.
- *Engine*: a node runs only because a recorded verdict leads to it, once per
  verdict; executions do not mix; `merge_input` adds the input the run had;
  everything reported is handled.
- *Identity*: a token admits no more than it may; an identity that is good is
  not lost without a failure; a revoked client lets go; one with a good token gets
  in.
- *Accounts*: names are unique; a superuser and an admin of every tenant remain;
  who was revoked or suspended never gets back in by a race.
- *Runner*: what is installed, and nothing else, serves; the end of the client
  stops all of it; secrets expire; changes and handoffs get through.
- *Routing*: merging twice is merging once; an entry is answered for itself and
  alike wherever the node ran; every next goes one way.
- *Triggers*: a missing file is reported, once per window and only after a whole
  one; a schedule fires once per moment; Stop ends the goroutine.

## 2. Plan

Order: what carries every workflow first, then what it relies on.

1. `Dispatch`, with proofs (done).
2. `NodeRun` (abstract) and `Retry` (implements it), with proofs (done).
3. `Transfer`, with proofs (done).
4. `Triggers`: discrete time, windows, ticks, debounce, with proofs (done).
5. `Engine`: the event loop with loading, local runs, merging and joins, with
   proofs (done).
6. `Accounts`, with `Admission` (who is let in), which it implements query by
   query, and `Enrollment`, with proofs (done).
7. `Runner`: sync, handoffs and credentials on a client, with proofs (done).
8. `Routing`: payloads, conditions and targets, with proofs (done).
9. Left: `Clone` (fresh ids, against isomorphism), templates, the scopes of
   credentials, and the composition of `Dispatch` with `Runner`, which now meet
   only in what a poll returns.

Abstract specifications: `NodeRun` for the decorator and `Admission` for accounts
(done); an exactly-once *handoff* for dispatch without failures and a `Delivery`
(offered, stored, delivered) for a transfer are left.

## 3. Modules

| module | what it is |
|---|---|
| `Dispatch` | server and clients advancing one workflow |
| `MCDispatch` | small workflows and definitions for TLC |
| `Dispatch_proofs` | theorems on `Dispatch` |
| `NodeRun` | abstract: what running a node promises |
| `Retry` | the decorator, its engine, refinement of `NodeRun` |
| `MCRetry`, `Retry_proofs` | instances; theorems |
| `Transfer` | one delivery of a file |
| `MCTransfer`, `Transfer_proofs` | instances; theorems |
| `Triggers` | file watchdog, directory watcher and schedule, in discrete time |
| `MCTriggers` | instances |
| `Engine` | the server running workflows itself |
| `MCEngine`, `Engine_proofs` | two trees and a join; theorems |
| `Admission` | abstract: who may act on the server |
| `Accounts` | tenants, users and sessions query by query, refinement of `Admission` |
| `MCAccounts`, `Accounts_proofs` | instance; theorems |
| `Enrollment` | join tokens, registrations, a client's identity and state file |
| `MCEnrollment`, `Enrollment_proofs` | instance; theorems |
| `Runner` | what a client has installed and with which secrets it starts nodes |
| `MCRunner`, `Runner_proofs` | instance; theorems |
| `Routing` | merging, conditions and owners of one result |
| `MCRouting` | families of payloads, conditions and targets |
| `Triggers_Routing_proofs` | theorems on `Triggers` and on `Routing`, which share no state |

Next to some definitions stands a slightly wrong variant of it (`Unlocked` beside
`Free`, `FullAlmost` beside `Full`). They are used by nothing; substituting one
for the definition beside it must break the property named in `PROJECT.json`,
which shows that the property can tell the difference.

### Dispatch

State: `dbDef`, `dbRev`, `enabled`, `rows`, `results` are the database; `memDef`
is the copy registered at start-up; `inbox` and `held` are the posts under way
and the handler inside `resultMu`; per client `phase`, `mail`, `rev`, `trig`,
`installed`, `seen`, `jobs` are its polling loop, the reply being processed,
what is installed and the nodes that run. `log`, `handed`, `lost`, `removed`
record history for the properties and guard nothing. A result has a number (the
request gets a new result id, whatever it says), and `results` says of each ingested
one whether it was `stored`; a row says which result queued it (`by`).

Actions: `Accept` to `Finish` are `PostResult`/`IngestResult`/`dispatchNexts`
step by step (save, complete own row, look up and insert each foreign next,
answer). Any of their queries may fail and is then passed over, as in the code:
the save leaves a result that is ingested and not stored (`saveResult` logs and goes
on), a look-up or insert a next without a row, the reading of the definition an
answer that is not filtered (`Answer`). `Poll` is `GetAssignments` with its retiring of stale rows, `Sync` and
`DrainRow` are `syncAssignments` and `drainPending`, `TakeEvent` is `runResult`,
`Fire` a trigger; `Import`, `Toggle` the operator; the rest are losses and
restarts. A definition is reduced to what dispatch reads: which clients each
node is assigned to.

A trigger on a client mints its execution id when it is installed and reports every
firing under it. The rows of the first firing then stand for all of them: a later
result queues nothing new, and what it would have handed to another client runs only
if the row is still pending. `FellTogether` names this case in `NoSilentLoss` and
`EveryNextHasOneOwner`; joins are the other instance of it.

Left out: nodes the server runs itself and its own triggers, the replay table of
result ids (no client posts twice), deletion of a workflow, payloads, tenants,
retargeting by a change of a client's tags.

### Retry and NodeRun

State: for every run `loop`, `attempt` and the goroutine and private channel of
each attempt (`inner`); the shared field `latest`; `told`, the actions that were
stopped; `events`, results between decorator and engine; what the engine `saved`
and `routed`. Actions follow `Execute`, `attempt`, `sleep`, `Stop`. A payload is
reduced to whether `isFailure` says so. `Promise` in `Retry` instantiates
`NodeRun` with the reports of each run: `KeepsPromise` is the refinement.

A node is on the server or on a client (`remote`). A client posts its results without
the attempt and `retrying`, so every one is routed; and only a client calls `Stop`,
when its runner closes, after the loop that reads the results has returned. So
nothing is ingested after `Stop`, and a run that sends a result into a full channel
then stays there, which `StopEndsRuns` says. On the server nothing is ever stopped.

`Capacity` is the number of results between a decorator and the engine: on the
server one, held by `ActionManager.Run` over unbuffered channels.

### Transfer

State: the session's `status`, the number of `chunks`, the upload handler
(`append`); the `sender`, its acknowledged chunks `seq` and `report`; `offered`,
`answer`, `wire` for signals and data channel; for each receiver `inbox` (where
`handleInboundTransfer` is), `listed` (the status it polled), `seen`, and the
`file` at the destination (absent, somebody else's, part, whole).

Bytes are counted: a file is a size, a chunk carries `RelayChunk` bytes, and a
sum matches when all bytes are there. `AppendTransferChunk` is three steps
(check, store, status) because it writes twice without a transaction; the
handler of a completion is one, since what it verifies cannot become untrue.
`os.Stat` followed by `O_EXCL` is one step, `os.Stat` followed by `WriteFile`
two. Only the first answer to an offer is kept: `p2pSend` ignores others or
fails on them, which is `P2PUnavailable`. Left out: ICE, tenants, audit,
`via_p2p`, several sessions at a time (they share only the destination, which
`Other` may take).

### Triggers

State: `loop` is where `Execute` is (before it, in its select, in a send, ended),
`open`, `deadline` and `sched` are `windowOpen` and the two timers, counted down
to 0, where the channel of the timer is ready; `queue` holds the events the
kernel keeps for the watcher, `last` the debounce table as ages, `manager` the
result that `TriggerManager.Run` holds until the engine takes it. `silence`,
`waited` and `missed` are history. One set of variables serves the three
triggers, of which a behaviour has one; `setting` says which.

A unit of time passes only when the goroutine has nothing to do (`Busy`), so what
is ready at one time is handled then, in any order, unless a send waits for the
engine: then time goes on and everything else is found late. Moments of a cron
expression are taken `period` apart, of which `phase` counts the distance; what
the expression means, time zones, and the rounding of an interval to whole seconds
belong to the library. `filechange.Execute` starts a goroutine and never
returns; `loop` is that goroutine. A watcher that cannot be installed ends it
(`Fails`). Registration by id and the errors of `AddTrigger` are left out.

### Engine

State: `todo`, `loading`, `registered` and `indexed` are how far `AddWorkflow` has
come and the maps it fills (`Actions`, `Triggers`, `Actions2Workflow`); `live` the
goroutines of `ExecuteAction`, `wire` those that wait to send, `held` the one
result each manager has taken and the loop has not; `execHistory` is itself;
`minted` the execution ids given out; `log` and `skipped` are the saved results
and the nexts that were not started.

Actions: `LoadNode` and `IndexNode` are the two halves of a turn of
`AddWorkflow` (the trigger runs from the first, results find their workflow from
the second); `Fire` and `Report` send; `Forward` is `TriggerManager.Run` and
`ActionManager.Run`; `TakeUnknown`, `TakeFiring` and `TakeReport` are a turn of
the loop, which merges, saves, remembers and routes before it takes another
(`Handle`); `Post` is the webhook handler with `IngestResult`, which goes beside
the loop; `Restart` the process.

A run is named by the way that led to it, the entries and nodes since the
trigger: the code has no such name, and runs of one node in one execution differ
in nothing else. A payload maps its keys to the attempts that wrote them; every
node writes a key of its own and the key `type`, on which it is decided who wins.
Which of a node's condition entries match is left open, apart from retrying
results, which match none. Retries are reduced to what the loop sees of them
(`Retry` has the rest).

Simplified: saving a result (file, then row) is one step; `Post` is one step,
since the execution it opens is known to nobody else; node ids are taken to
differ between workflows, of which one is loaded. Left out: credentials, a next
listed by an entry more than once, concurrent access to Go maps (a crash, which
`Restart` stands for), the delay of the 10 ms tick, `RemoveAction` and
`RemoveTrigger`, which nothing calls.

### Accounts and Admission

State: `tenant`, `maker` and `admin` are the registry row of a tenant (its status,
the request that inserted it, `admin_user_id`), `user` and `session` the rows of
users and sessions, `req` the requests in flight with what each has read so far.
`raced`, `late` and `broken` are history: the races and failures that the
properties except.

Actions: a request is admitted (`RequestUser`, `RequestRevoke`, `RequestTenant`,
after `currentUser` and `requireRole`) and then takes one step per query:
`CheckUser`, `InsertUser`; `Revoke`, `Sweep`; `Suspend`, `Activate`, `Delete`;
`CheckSlug`, `Register`, `CheckAdmin`, `InsertAdmin`, `Link`, with `RollBack` when
the admin cannot be created. `Verify`, `Grant` and `Mint` are a login, `End` a
logout or the expiry of a session, `Restart` a stop with whatever was under way
and the bootstrap after it. `Reaches` and `Open` are the two ways in: an admin for
its own tenant or the default one's admins for all, and nobody's request while no
user exists.

A query that fails ends the request, except for two that are read as an answer, and
`Disturb` lets those fail for a while: the status of a tenant counts as active when it
cannot be read (`Suspended`, against `Registered`, which is what the row says), and
the website admits a request of nobody when it fails to count the users (`Callers`).

`Admission` has four sets: who is in, who was barred, whose tenant is shut, whose
tenant's status cannot be read. It keeps out who was barred, and of the shut those
whose status can be read: suspension fails open. Every step of `Accounts` is one of its
steps or none, `In` being the users of sessions that `AuthenticateSession` accepts.

Left out: passwords, addresses, display names, groups; `AuthenticateSession`'s
three reads are one, so a request is admitted by the state at one moment; but what
it does afterwards is not.

### Enrollment

State: rows of `token` and of clients (`row`), whether the other tenant is
`suspended`, how far the `server` has started, for each registration under way its
`handler`, for each `client` where `Run` is and what identity it has in memory, and
the `file`. `faults` counts what went wrong; `raced` and `lost` are history.

Actions: `Register`, `Count`, `Check`, `Insert`, `Reply` are
`clientRegistry.register` with `ConsumeEnrollmentToken` in two halves, since it
reads the count and writes it later; `Fail` and `Abandon` are a query that fails
and an answer that is lost. `Boot`, `BootCreate` and `BootPrint` are
`EnsureDefaultEnrollmentToken`. `Start`, `Save`, `BeatRefused`, `BeatFails`,
`Clear` and `Crash` are the client. A token that expires is one that is revoked.
Left out: audit, tags, host information, a change of the server's address.

### Runner

State: on the server the saved `revs`, `enabled`, pending rows (`row`) and the
credentials it serves (`store`); on the client `inst`, everything it has built, of
which `active` is installed, `retired` in reach of `close` and `index` the action
of each node; `loop`, the place of its one goroutine; `seen` (`pendingSeen`),
`cache` (`credCache`) and what was started (`run`). `unserved` and `skipped` are
history.

Actions: `Sync` is a poll with `syncAssignments`: it removes what is not served
any more (`Remove`), replaces a revision (`Update`), installs a new one
(`InstallNew`), and takes the pending handoffs; `PassSeen`, `Take`, `Start` and
`DrainEnds` are `drainPending`, `Answer`, `Receive` and `FetchFails` the
fetch of a credential, `Follow` the nodes after a result, `Close` the end. `Again` is
the retry decorator starting an action another time, with the inputs, and so the
secret, of the first start; `Attempts` bounds it. `Tick` lets time pass for the secrets.

Simplified: workflows share only the cache, so there is one; the two queries of a
poll are one; a heartbeat or a poll that fails changes nothing and is left out.
What the nodes do is in `Retry`, what their results do in `Dispatch`.

### Routing

State: a `case` (a result, its node, what is known of its dependencies on the
client, `there`, and on the server, `here`), the `payload` on its way, how many
dependencies it is `merged` with, what was `posted`, and what was decided. Actions:
`MergeNext` puts one dependency under the payload, first on the client and then on
the server, `PostResult` sends JSON, `Ingest` ends the server's merge,
`EvaluateEntry` answers one entry, in any order, and `Dispatch` gives the owners:
for the client and this server places in the list of nexts, since a node may be in it
several times and then runs as often, for others a set of nodes with a row, since a
second row of a node is not made.

Actions such as `file` and `filechange` return a Go struct, which conditions ask for Go
field names and for fields that its JSON omits. `fields` holds what a payload answers to
besides its JSON, until it is posted or merged with something; `Lookup` reads both.

A payload is a tree, written as a function from paths (sequences of keys and indices)
to labels: an object, a list, or a value with its type. A whole number is an
`int` until it goes through JSON (`Normal`), where it becomes a `num`. `DeepMerge`
says which paths of the base remain. The code recurses instead, from key to key;
`DeepMergeRecurs` proves the two the same at every key, for values of any depth.

`Overlay`, `MeantFor` and `Named` define what merging, targeting and routing come
to without following the code: which of the payloads, laid over each other, has a
path first and whether it can be seen there; for whom a node is meant; how often
matching entries name it.

Left out: templates, the syntax of paths and patterns (a path is a sequence of
steps; what a pattern matches is a constant), Go list and map types other than those
JSON makes, which only == and != tell apart, structs within the payload of a
dependency that is itself merged into, and results that are retrying, which are not routed (`Engine` has them).

## 4. Runs

Passing:

| run | distinct states | what it shows |
|---|---|---|
| `dispatch_faults` | 1.5 M | rows are unique, earned, never undone and no next is lost silently, under an edit, a lost message, a failed query, the save of a result included, and restarts of both sides in any order; the execution is started by a webhook, so its id is minted by the server |
| `dispatch_recovery` | 0.17 M | a timer trigger that fires twice under one execution id, a fork and a chain, a client restart and a failed credential fetch: every next has exactly one owner or falls together with an earlier handoff, all pending rows are completed, each started once per process |
| `retry` | 0.2 M | two concurrent runs under three policies, no retry, one retry at once, two with growing sleeps and no deadline: results do not cross, one verdict, no orphan, sleeps double, a deadline ends a run, Stop one that does not wait for room, refinement of `NodeRun`; on the server, and on a client, where it may be stopped |
| `transfer_faults` | 1.4 M | two receivers, four sizes, three settings, every kind of failure once: statuses and reports are true, nothing is overwritten |
| `triggers` | 0.1 M | 24 settings, a slow engine, events and Stop at any moment: misses are earned, in time and single, firings are apart, Stop ends the goroutine |
| `engine` | 0.15 M | a timer and a webhook over two trees and a join, with and without `-e`, a retried node, requests while loading, a restart: every run has one cause and one verdict, executions are apart, `merge_input` adds the input, all that is reported is handled |
| `transfer_delivery` | 47 k | a stored file is delivered through failing downloads; the sender always reports |
| `accounts` | 1.5 M | two requests at a time, restarts and failures between any two queries, a tenant's status that cannot be read and users that cannot be counted: names are unique, a superuser and an admin of each tenant remain, refinement of `Admission` |
| `enrollment` | 0.12 M | two clients, one token, two handlers and one fault anywhere: limits hold, identities are kept, a revoked client lets go, a welcome one gets in |
| `runner` | 1.3 M | two revisions out of four definitions, disabling and enabling, a credential that comes and goes, a failed fetch, a slow answer, a second attempt: what is installed serves, close stops it, first attempts have a fresh secret and later ones that of the first, changes and handoffs get through |
| `routing` | 0.14 M | 1331 triples of payloads in five places, 24 × 24 pairs of conditions, also on a Go struct, 81 targets: merging is layering, conditions are answered for themselves and, but for the cases it names, alike, every next goes one way |

Disagreements between the code and what the repository says of it. One is kept
as a run that TLC refutes:

| run | disagreement |
|---|---|
| `dispatch_tag` | a node targeted by a tag runs on every client that carries it, not on one owner |

The others were found with the same models, and no run is kept for them:

- failed attempts of a node on a client are routed, since the post drops
  `retrying` (`server/routes.go:958`), although `docs/retries-and-deadlines.md:49`
  and `:80` say that only the last result is: `OneVerdict` is therefore about nodes
  on the server;
- a trigger on a client mints its execution id once, when its workflow is installed
  (`client/client.go:511`, `actions/cron/cron.go:114`), and every firing reuses it,
  although `docs/ha-failover.md:85` says that "ids are minted fresh on every trigger
  fire". The rows of the first firing (`database/database.go:637`) then swallow the
  handoffs of the later ones: hence `FellTogether` in `NoSilentLoss` and
  `EveryNextHasOneOwner`;
- `saveResult` (`workflow/workflow.go:164`) logs what keeps it from saving and returns
  nothing, so a result that is not stored is dispatched all the same: hence the
  exception in `RowsAreEarned`;
- "Suspended tenants fail closed" (`docs/tenants.md:66`), but `TenantStatus`
  (`database/tenants.go:170`) answers active for every query that fails: hence `unread`
  in `Admission`;
- the website is open "when no users exist yet" (`server/web_auth.go:20`) and also
  whenever `CountUsers` fails (`:26`), while the API then refuses (`server/auth.go:155`):
  hence the exception for requests of nobody in `SuperuserRemains`;
- `dispatchNexts` puts the nexts in buckets so that each is "executed exactly once"
  (`workflow/workflow.go:733`), but a node named by two matching entries is in its
  bucket twice and started twice, on the client or on the server; only a row is made
  once. Hence `EveryNextGoesOneWay` bounds only nodes named once;
- a secret may be held for its time to live only (`docs/credentials.md:100`,
  `client/client.go:270`), but the retry decorator starts every attempt with the inputs
  of the first (`client/client.go:555`, `common/retry.go:53`, `:91`), whatever the
  backoffs take: hence `StaleSecretsExpire` bounds first attempts only;
- "sent over the channel" is reported without any acknowledgement
  (`client/p2p.go:255`, against the comment at `:17`);
- a lost completion is not retried (`client/transfer_runner.go:312`, against
  `:239`): the next tick takes the receiver's own file for a collision;
- a failed query in `AuthenticateClient` is answered like a wrong token
  (`database/database.go:442`), so the client drops an identity that is good,
  although `client/client.go:199` says that failures which pass keep it: hence
  the exception `lost` in `IdentitiesAreKept`;
- conditions compare with `reflect.DeepEqual` (`workflow/condition.go:89`): an `int`
  of a node the server ran is never `==` to a number of the definition, which is a
  `float64`, while the same result posted by a client is; `README.md:123` lists `==`
  without that distinction. And a payload that is a Go struct
  (`actions/fileaction/fileaction.go:36`) answers to Go field names and to fields that
  its JSON omits (`workflow/condition.go:241`), so an entry on them is answered on the
  server and fails for a client's result. Hence the exceptions in `SameWhereverItRan`;
- expired secrets are no longer used but stay in the client's memory for as long
  as it lives (`client/client.go:711`), although the comment above says that they
  are cached "in memory only until" their time is over.

The same models show more of what the code does, which the listed hazards and the
wording of the properties take into account and no run is kept for:

- a node with two predecessors on different clients is both returned and queued
  (`EveryNextHasOneOwner` holds only of definitions without joins);
- on the server a join runs once for each predecessor, and `merge_input` then
  reads the latest payload of each dependency, even of an attempt that is being
  retried (`MergesItsInput` is therefore about trees);
- without `-e` the server still starts its triggers, and their nexts are skipped
  (`Builds`, `Startable`), although `docs/server-mode.md` says that `-e` is what
  enables actions and triggers; and it starts nodes that are targeted at clients;
- a firing between `AddTrigger` and the line that indexes the trigger is saved
  without a workflow and starts nothing (`TakeUnknown`);
- a webhook that arrives before its workflow is loaded is answered with 200 and
  its nexts are skipped for good (the exception in `ConsumersExist`);
- `execHistory` is never emptied while the process lives;
- an execution started by a webhook on a client is continued, after a hop on that
  client, under the empty id it was posted with, and nothing is queued for a
  result without an id (`lost` in `Accept`);
- ownership is decided with the definition in memory and again with the saved
  one, so an import between them can leave a next with no owner (`Filtered`);
- a file that keeps changing faster than its debounce time is reported once, so a
  burst longer than the window ends in a miss (`Debounced`);
- a result whose post failed is dropped, and its row stays pending for as long as
  the client process lives (`LoseRequest`);
- one failed upload leaves a session in `uploading` for ever (`UploadLost`);
- an upload handler that is slower than a delivery over the channel moves a done
  session back to `ready` (`MarkUploaded`);
- 32 MiB pass the sender, but 512 chunks of 60 KiB hold 30 MiB: what lies between
  is uploaded and then refused (`Refused`, the second case of `ErrorHasCause`);
- the bootstrap token of a server that stops before printing it counts as usable,
  so no other is created and nobody knows it (`BootPrint`, `Offered`);
- a client started under another id than the saved one overwrites the state file
  when the server refuses it (`Forgets`);
- a suspended tenant that is deleted leaves users who may log in again, since a
  missing tenant counts as active (`Suspended`, `Reopen` of `Admission`);
- two requests that find a name free both insert it, after which no login of that
  name works (`raced`); two superusers can revoke each other (`late`);
- a workflow that is disabled and enabled again is built anew under its old
  revision, and `close` no longer reaches the actions that were built first, whose
  triggers were stopped by then (`Retired`);
- a node that cannot be built in a new revision keeps the action of the old one
  (`Registered`);
- a handoff that comes while its node cannot be built stays seen and is not started
  when the node is mended (`PassSeen`, `skipped`);
- a node that is no longer there becomes a pending row of nobody;
- a run that sends its result into a full channel when the client closes stays in that
  send, which has no case for Stop (the exception in `StopEndsRuns`);
- the write after a channel delivery truncates a file that another program
  created meanwhile (`WriteBytes`; `NoOverwrite` is checked without such programs).

### Bounds and why they are enough

Failures have budgets (`Bounds`), because nothing in the code limits them. One
of each kind, in every order and place, is what the faulty runs explore: each
failure affects one message, one query or one process, and the invariants proved
below need no bound at all. Workflows have three nodes, the least with a handoff
there and back; another edge makes a join, a fourth node a fork between a local and
a foreign next. Two or three clients: reporting
client, owner, a second carrier of a tag. `MaxExecs` is two: one execution and
one more for mixing up ids. The timer of `dispatch_recovery` fires twice, the least
for two results of one node in one execution. Retry: two runs because only pairs share `latest`;
the three policies cover no retry, retries with and without a deadline, and three
attempts, the least for a sleep that doubles. A node is on the server or on
a client in it. Transfer is a scale model, two bytes an
upload of the three a chunk may have and three chunks a session; sizes 0, 3, 7,
10 are the empty file, a short last chunk, a file between the two caps and one
over both. Triggers: windows of two and three units, so that something fits inside;
periods below, at and above the window; two files of which one matches, and two
events waiting. Engine: four nodes and three entries, the least for a chain of two
under one trigger with another trigger beside it; one node with one retry; two
executions, since executions meet only in pairs; `Spare` keeps back an id for
every firing under way; one restart. Accounts: a name in each of two tenants and a second one in the
default tenant, the least for a superuser who is not the bootstrap's; the default
tenant's users are asked for as admins, the other's as viewer or admin (`Asked`); at one
time either the other tenant's status or the number of users cannot be read (`Outages`);
two users,
two requests and a session, since races are between two queries. Enrollment: one
token of at most one use, or none to count, with two clients and two handlers that
compete for it; two identities; one fault. Runner: a trigger and a node,
two revisions and two toggles, the least for a revision that comes back and for
one that replaces another; two handoffs, of which one waits while the other's credential is
fetched; a secret may be held one unit and an answer takes at most one, and
a node is started at most twice. Routing:
two levels of objects, the least at which a nested merge differs from a flat one,
and two dependencies, of which each side knows all, one or none; conditions also on
the Go struct of a file action, its own or one that came from a dependency. Deadlock is checked for dispatch, whose clients poll for ever; also for accounts, enrollment and the client's loop;
not for runs, deliveries, triggers and a routed result, which end,
nor for the engine, whose execution ids run out.

### Fairness

- Dispatch: weak fairness of the server's handlers and of each client's loop;
  strong fairness of taking a finished node, whose channel is FIFO and is
  selected among other cases that keep recurring. None for triggers, the operator
  and failures.
- Retry: weak fairness of the engine, or the client's loop, taking an event, until
  Stop, after which nobody takes any, and of the decorator's own steps. None for `Execute`, nor for an action ever finishing.
- Transfer: weak fairness of the sender, of the upload handler and of each
  receiver, which are loops and goroutines that nothing holds back; none for any
  failure. The sender's timeout is one of its steps, so it is always possible
  for it to give up the channel, and the properties hold whenever it does.

- Triggers: weak fairness of starting `Execute`, of the select as a whole, of a
  send, of the second half of Stop and of the engine taking results. Which ready
  case the select takes is left open, yet `StopEnds` holds: time does not pass
  before the others are used up. None for events, time, or a call of Stop.

- Engine: weak fairness of loading, of the managers and of the loop, which never
  stop. None for triggers, requests, restarts, nor for an action ever reporting.
  What is under way at a time is finite, so the order in which a channel serves
  its senders does not matter.

- Enrollment: weak fairness of the server's start, of each handler's steps, of a
  client's registration and of its other steps, each of a loop or a handler that
  nothing holds back. None for the operator, for faults, for `Start` or `Crash`. The
  steps that answer a client are fair, so a server that is up answers; `RevokedLetsGo`
  therefore assumes that the client's loop is not held up by something else.
- Runner: weak fairness of the loop as a whole, one goroutine that never stops while
  the client runs. None for operators, for time, or for a fetch that fails, of which
  there are few. A request is answered or fails; one that does neither would block
  the loop and with it the heartbeat.
- Accounts and Routing state no liveness.

## 5. Proofs

TLAPS checks, for all values of the constants:

- `Dispatch_proofs`: `TypeCorrect`, `InvCorrect`, `OneRowPerKeyCorrect`,
  `RowsAreEarnedCorrect`, `NoSilentLossCorrect`, `RowsOnlyAdvanceCorrect`,
  `OncePerProcessCorrect`, `EveryNextHasOneOwnerCorrect` (assuming a timer trigger, no
  edits and that clients which lead to a node agree on whose it is),
  `OneOwnerCorrect` (assuming no edits and no node of two clients).
- `Retry_proofs`: `TypeCorrect`, `InvCorrect`, `ResultsAreOwnCorrect`,
  `OneVerdictCorrect` (which speaks of nodes on the server),
  `NoOrphanCorrect`, `SleepsDoubleCorrect`, `KeepsPromiseCorrect` (the refinement).
- `Transfer_proofs`: `InvCorrect`, `TypeCorrect`, `StatusIsTrueCorrect`,
  `ReportIsTrueCorrect`, `PartIsTransientCorrect`, `NoOverwriteCorrect` (assuming
  that no other program writes to the destination), `DeliveredStays` (other programs only
  create files where there is none).
- `Triggers_Routing_proofs`, on triggers: `InvCorrect`, `TypeCorrect`, `NeverSilentCorrect`,
  `ShortPeriodIsSilentCorrect`, `MissIsEarnedCorrect`, `OneMissPerWindowCorrect`,
  `FiresApartCorrect`, for any durations; and on routing: `RoutingInvCorrect`,
  `DeepMergeRecurs`, `MergeIsLayeredCorrect`, `SameWhereverItRanCorrect`,
  `EveryNextGoesOneWayCorrect`, for payloads of any depth and any dependencies,
  conditions, targets and patterns.
- `Engine_proofs`: `InvCorrect`, `TypeCorrect`, `RunsHaveCauses`, `VerdictIsOne`, `RunsCorrect`,
  `MergeIsCleanCorrect`, `MergeCorrect`, `ConsumersCorrect`, `UnknownIsLoading`, for
  any workflow, any number of executions, retries and restarts.

- `Accounts_proofs`: `InvCorrect`, `TypeCorrect`, `NamesCorrect`, `SuperuserCorrect`,
  `TenantsCorrect`, `AdmissionCorrect` (the refinement), for any tenants, users,
  sessions and requests.
- `Enrollment_proofs`: `InvCorrect`, `TypeCorrect`, `LimitsCorrect`,
  `IdentitiesCorrect`, for any number of clients, tokens, handlers and faults.
- `Runner_proofs`: `InvCorrect`, `TypeCorrect`, `InstalledCorrect`, `CloseCorrect`,
  `SecretsCorrect`, for any workflow, any edits, times and credentials.

The type invariants and what is proved but states no listed property are not run:
`RowsOnlyAdvance`, `PartIsTransient`, `ShortPeriodIsSilent`, `OneMissPerWindow`,
`FiresApart`, `MergeIsClean` and `ConsumersExist` hold in every instance.

Assumptions are those the modules name: `DispatchAssumption`,
`RetryAssumption`, `TransferAssumption`, `TriggersAssumption`, `EngineAssumption`,
`AccountsAssumption`, `EnrollmentAssumption`, `RunnerAssumption`, `RoutingAssumption`
(payloads are trees, entries are finitely many) and the two on names; TLC evaluates
them in every run.

Arguments. *Dispatch*: `OneRowPerKey` is not inductive; between the look-up and
the insert the handler must know that the row is absent. `HandlerOK` says so and
`OneHandler` (the mutex) keeps others from inserting; `Free` is the only guard
that gives it. `MissingIsRemoved` links a definition without a node to an edit,
which justifies rows retired by a poll. `OncePerProcess` needs that what was
started is remembered (`StartedAreSeen`): only a row that is not seen is started
by a poll, and a restart empties both. Results are told apart by their numbers
(`ResultsAreNumbered`); a next without a row of its own then has the row that an earlier
result of its execution left (`FellTogether`). *Owners*: `Handoffs` says for each place a
handoff can be in what it still knows of it. A client has all or nothing of the
definition installed (`ClientOK`); a post, and the handler of one, is of a node of
its client, which can run what it is answered unless nobody waits for the answer
(`FromOwner`); a row was led to by a client it does not belong to (`RowIsRouted`), a
node handed out by one it does; and what was lost was the reporting client's own,
unless a query failed or the server died (`LossIsOwn`). Where results that lead to
the same node agree on whose it is (`OwnersAgree`, which every tree with one client
for each node satisfies, and a join behind two clients does not), returned and
queued therefore exclude each other. `RowsAreKnown` follows a row from the table
through the response to the log of a client whose node it is; with no node of two
clients (`OwnersAreSingle`) that is one client, so the run `dispatch_tag` shows the
only way in which the documented rule fails without edits. *Retry*: `RunOK` ties the position in
the loop to the attempt and to what was reported, so a report can only be the
next one, of the awaited attempt; the refinement follows action by action. The
delays are a recursive function; `Iterated` builds such a function from its first
values, by induction on the naturals in first-order form (`SetInduction`: what holds
of 0 and passes to the next number is a set that contains them all, from the
well-foundedness of `<`), and `BackoffIsCappedPower` then compares the loop, which stops
doubling once it has passed the cap, with the capped power of two.
*Transfer*: `UploadsAgree` says that acknowledged and stored chunks differ only by
the upload under way, `DeskOK` that what a receiver is doing tells what is at
its destination. Three lemmas of arithmetic (products grow; what division
leaves; the bytes of n uploads) carry the sizes. From these a ready session is
whole, because the handler that marks it counts at least the chunks that are
there later; a session is done by a receiver whose file is whole and stays so;
while nobody else writes there, a receiver that is about to write found the place
empty, and it still is (`WritesIntoNothing`);
a refused upload implies the cap or a delivery.

*Triggers*: while a window is open the rest of it and the silence make up the
whole (`WindowOK`), so a miss can only come at its end; with a short period the
tick is always due first (`TickFirst`), which is why no window then expires.

*Engine*: every way to take a result is shown to have the same shape (`Taken`:
the result comes after everything that precedes it and before everything that
follows), and each part of the invariant is then kept by that one step.
`OrderOK` orders the attempts of a run from the goroutine over the manager to
the log, which makes the verdict the last thing heard of a run; hence the runs a
verdict starts are new. In a tree a node then has one run in an execution
(`UniqueOK`), so the payload its cause left in `execHistory` is still there when
it is merged (`HistoryOK`). `LoadOK` and `ReadyOK` carry the order of
`AddWorkflow`, actions before triggers, to the moment a next is started.

*Accounts*: what a request has read is only as good as what other requests may do
since, so the invariant says for each place of a request what still holds:
`Authorized` (its caller was an admin and is not the target), `FoundFree` (a name
is free or was raced for), `Provisioning` (a row being provisioned belongs to one
request) and `LinksAdmins`. The refinement goes action by action: only `Mint` and
`Activate` or `Delete` bring somebody in, and they check what `Enter` and `Reopen`
ask.

*Enrollment*: `UsesAreCounted` adds the registrations under way to those in the
table, so that a use is counted before its row is there; `FileFollows` ties the
state file to the place of the process, which makes `IdentitiesAreKept` inductive.

*Runner*: `NothingIsForgotten` says that what `close` cannot reach was built
again, which is what retiring by revision gives. `SecretsAge` lets a secret in the
cache and one on its way grow old together with the time since it was last served;
a first attempt with it is then never later than both, and another attempt changes
nothing of the run but its number (`AgainKeeps`).

*Routing*: the invariant says of every step what the last one is to show: while
dependencies are merged the payload is the `Overlay` of those that had their turn
(`MergedSoFar`); while entries are evaluated the decision is that of the evaluated
ones, and a node is among the nexts as often as these name it (`DecidedSoFar`, where
cardinalities of places and of namings grow alike); then the places are shared out
(`SharedOut`). That one more layer under an overlay is one more merge (`LayerUnder`)
rests on two facts about paths: what is hidden stays hidden further down
(`HiddenBelow`), since a path goes on below an object by keys and below a list by
indices; and what is kept by a merge is what no layer before it hides (`KeptIsSeen`).
Where the client knew all that the server knows, the server's layers repeat layers
above them and are absorbed (`LayerAgain`), so merging twice is merging once. Operands of
a result and of its posted form are the same but for the type of a number (`Alike`) and
what only a struct has, for which the posted condition fails (`BesidesFails`); the former
only == and != can tell.

Only model-checked: the liveness properties (`PendingEventuallyDone`,
`DeadlineConcludes`, `StopEndsRuns`, `RelayIsDelivered`, `SenderReports`, `StopEnds`,
`ReportsAreHandled`, `RevokedLetsGo`, `GetsIn`, `CatchesUp`, `HandoffsStart`), since
fairness is out of the prover's reach. That the recursion `DeepMergeRecurs` states for
one level determines the merge of a whole payload is an induction over values, which is
not stated.

## 6. Not modelled

See the components with status `not_modelled` or `partly` in `PROJECT.json`.
In short: pages, forms, the mail, HTTP, exec and other actions, backups and the
generated queries compute, format or answer once; they are taken to do so, and the
retry decorator takes an action as something that succeeds, fails or never returns.
The generated code under `src/ent` is two thirds of the repository's lines.

Templates and the syntax of paths are strings put together from parts; which
scope a credential resolves in is a look-up in a fixed order. Cloning a workflow with fresh
ids and the editor's save are seen by `Dispatch` and `Runner` as a new definition.

Time is a choice between what is ready, except in `Triggers` and for the secrets
in `Runner`; hence how long a stale offer holds up a receiver is not shown.
