# A formal model of IntelliStore

TLA+ specifications of the protocols inside IntelliStore, checked with TLC on
small instances and, where it says so, proved with TLAPS for every value of the
constants. Paths are relative to the repository root.

## 1. The system

| Component | State | Operations | Talks to |
|---|---|---|---|
| storage-service (`services/storage-service`) | none of its own; the primary bucket in MinIO | upload a file or a version, download | metadata-service over HTTP, MinIO, exchange |
| metadata-service | `files`, `file_versions`, `chunks` | register, add a version, soft-delete, list, search, statistics | PostgreSQL |
| replication-service | `storage_nodes`, `chunk_replicas`, one bucket per node | replicate the chunks of an event, heartbeats, staleness sweep, self-healing sweep | RabbitMQ, MinIO, PostgreSQL |
| shared-queue | durable queues on a topic exchange | publish, subscribe (prefetch 1, ack, nack without requeue) | every event-driven service |
| ai-analytics-service | `file_access_stats` | count accesses, score files, overview | RabbitMQ, HTTP reads |
| notification-service | `notifications` | create from events, list, mark read | RabbitMQ |
| auth-service | `users` | register, log in, refresh | PostgreSQL |
| web client (`apps/web`) | the session in localStorage; what each page shows and waits for | log in and out, load the dashboard, upload, search, download, poll and mark notifications | the services, through the gateway |
| api-gateway, shared packages, migration runners, manifests | none that matters here | proxy, sign, log, migrate | |

An upload stores the chunks the bucket lacks (a chunk's key is the hash of its
content), registers the version at metadata-service, and publishes
`chunk.uploaded`. replication-service consumes the event, copies each chunk to
the least used healthy nodes and records a row per copy. Node agents send
heartbeats; one sweep marks silent nodes unhealthy, another marks their replicas
lost and copies under-replicated chunks to nodes that have no row for them.

What is hard: two kinds of timers that start a sweep whether or not the previous
one ended, running next to a queue consumer in one process, on tables they read
once and use later; messages redelivered or rejected in the middle of a batch;
calls whose effect took place although the caller saw an error; a content-addressed
bucket that concurrent uploads share while a failed one cleans up; transactions
that race for a version number; pages whose requests overlap, end in any order and
carry the token of whoever has logged in meanwhile. `PROJECT.json` lists each hazard at its line with
the properties that guard it.

What makes each component correct:

- replication: no row without bytes; an acknowledged event leaves no chunk that
  self-healing cannot see; sweeps converge and retire the replicas of dead nodes;
  `used_bytes` is never too low, and too high by a bounded amount only.
- heartbeats: once the service runs, silence is detected within a bound; a node that
  keeps beating is trusted, one that is down is retired, whatever sweep overlaps what
  beat and however long the service was down.
- metadata: version numbers are unique, gapless (FileCatalog appends) and the caller's own;
  requests do not block one another for ever.
- uploads: an answer agrees with the catalog, cleanups remove what they should and
  spare what they must, a registered version is announced.
- events: every subscriber bound in time gets its copy and settles it; what it
  acknowledges took effect; redelivery distorts counts and times only so far.
- notifications: an account's rows are marked by its own requests only, and the bell
  comes to show the list and the count of the account that is logged in.
- accounts: whoever was answered with tokens can log in again with that password.
- dashboard: the table that is shown fits the query, has the files the page uploaded
  before it searched, and belongs to the account whose name and token the tab has, or
  had until it logged out.
- analytics: more accesses never cool a file, idleness never warms it; statistics
  agree with the tables, advice is given exactly when it is due.

## 2. Modules

| Module | Models | Built on |
|---|---|---|
| `ReplicaLedger` | abstract: what replication promises | |
| `Replication` | consumer, `copyToTargets`, self-healing sweeps, node failures, crashes | implements `ReplicaLedger` |
| `Replication_proofs` | theorems about `Replication` | `Replication`, TLAPS |
| `ReplicaLedger_proofs` | what is tracked, the refinement of `ReplicaLedger`, how far `used_bytes` drifts | `Replication_proofs` |
| `NodeHealth` | node agents, heartbeat route, staleness sweep, time | |
| `NodeHealth_proofs` | theorems about `NodeHealth` | `NodeHealth`, TLAPS |
| `FileCatalog` | abstract: files and append-only lists of versions | |
| `FileService` | metadata-service, query by query, with its transaction | implements `FileCatalog` |
| `FileService_proofs` | theorems about `FileService`, and the refinement of `FileCatalog` | `FileService`, TLAPS |
| `Upload` | storage-service's uploads | extends `FileCatalog` |
| `Upload_proofs` | theorems about `Upload` | `Upload`, TLAPS |
| `EventBus` | exchange, queues, the consumers of analytics and notifications | |
| `EventBus_proofs` | theorems about `EventBus` | `EventBus`, TLAPS |
| `Browser` | the session the tabs of a browser share; bounds on users and faults | |
| `NotificationBell` | the bell and notification-service's routes | extends `Browser` |
| `NotificationBell_proofs` | theorems about `NotificationBell` | `NotificationBell`, TLAPS |
| `Dashboard` | the dashboard page and what it reads and writes | extends `Browser` |
| `Accounts` | auth-service and the login pages | extends `Browser` |
| `WebClient` | one tab: navigation, login, dashboard, next to other tabs | composes `Dashboard` and `Accounts` |
| `WebClient_proofs` | theorems about `WebClient` | `WebClient`, TLAPS |
| `Analytics` | scores, tiers, advice, statistics, overview, as operators | |
| `MCAnalytics` | what these operators must satisfy, over bounded inputs | `Analytics` |
| `MC*` | the other small instances TLC checks | |

Conventions. The code between two awaits is one action; a query, an object
operation or an HTTP call takes effect atomically and may fail before or after
its effect. Failures, lost answers and crashes share the budget `MaxFaults`.
Operators named `...Bug` are faulty variants of the definition that follows them;
no specification uses them. They document which mistake each property detects.

### Replication

`pc[w]` is the await a worker is at: `pick` (listHealthy) -> `copy` -> `count`
(incrementUsedBytes) -> `record` (upsert), again for the next target, -> `settle`
(was any result collected?). The consumer is one worker (prefetch 1), and each of
`Sweeps` is one run of `healOnce`: `SweepStarts` reads the nodes, `atRisk` and
`mark` are the marking pass, `scan` and `rows` belong to the reconciliation.
`todo[w]` holds the chunks still to handle, with the number of replicas a sweep
computed when it scanned: stale from then on, as in the code. `exclude`,
`targets` and `stored` are healChunk's and copyToTargets' locals. A failure at a
target is `TargetFails`; `Record` has a variant whose answer is lost. `GiveUp` is
where consumer and sweep differ: the consumer's error ends its batch and rejects
the message without requeueing (`Nack`), the sweep's is caught per chunk.
A crash clears the workers and returns the unacknowledged message to the queue.
The choice of nodes, `LeastUsed`, is exact up to ties. `isHealthy` changes by
`NodeFails` and `NodeReturns`, which stand for what `NodeHealth` models.

### NodeHealth

A timestamp is represented by its age. `Tick` advances every age and is
blocked while a timer is due or a call has been in flight for `MaxDelay`. The
heartbeat route has two steps (find the node, write the time it took in
between), the sweep one read and one write per stale node. The service is down
before `ServiceStarts`, which stands for the end of `main` (buckets made, queue
subscribed, monitor armed, listening), and after a `Crash`, for any time; meanwhile
beats are refused and nothing is swept. What the monitor can be blamed for is
`Silence`: a silence that began before the service started counts as just stale at
that moment (`upAge`), and only the sweeps that failed since then (`failed`) excuse
it. `MaxDelay` is not in
the code, which has no timeouts: it is the assumption under which a bound on
detection can be stated at all. `TimingAssumption` asks that a window outlast an
interval and three delays: one for the request, and two more because beats can be
written in the opposite order. The defaults (3 s, 15 s, 5 s) leave 4 s per call.

### FileCatalog and FileService

`FileCatalog` is what callers of metadata-service rely on. `FileService` is how it
is done: `createFile` commits on its own; `createVersion` reads MAX + 1 (`Begin`),
inserts (`InsertVersion`, waiting for a transaction that holds the same number
and failing on a committed one, which is what the UNIQUE constraint does under
READ COMMITTED), and commits. `held` are the transactions with an uncommitted
row. The chunk rows and `updated_at` become visible only with COMMIT and are part
of it. A commit may take effect unanswered.

### Upload

`pc[u]` follows one upload through `exists`/`put` for each chunk, `register`,
then `announce` or `detail` + `announce`, or `cleanup`. `call[u]` is the same
registration seen from metadata-service, so the caller can give up while the call
goes on and commits later. `versions` and `file` are FileCatalog's. A cleanup's
deletions are in flight together (`Promise.allSettled`). `exists` answers "no" to
any error. A crash ends all uploads of the process, not the registrations.

### EventBus

`queue[s]` is the durable queue of a subscription, whose head is the message the
consumer holds (prefetch 1); `head[s]` says whether its handler runs, succeeded or
threw. `Publish` is the end of a request in storage-service; a request that ends
without publishing takes no step. `stats` is `file_access_stats`, `rows[e]` the
number of notifications of an event. The two subscriptions of notification-service
share a process and its connection. A crash makes the broker deliver the head again.
A connection that closes in an orderly way makes the process `deaf`: it handles
what it holds, ends when it settles it, and otherwise stays without messages until
it is restarted. Details of the handlers that no property tells apart (wording,
types of notifications) are left out, as is replication-service's queue, which is
part of `Replication`.

### Browser, Dashboard, Accounts and WebClient

The tabs of a browser share one variable, `session`: the account whose tokens are
in localStorage. A request is stamped with it when it is sent (`by`), as
`authHeader()` does, and its answer is applied to whatever the page is by then.

`Dashboard` follows the page's own state: `isLoading` and `isUploading` are the
values of `page`; `load` is the pair of requests that `Promise.all` waits for, each
read at its own moment; `upload` the request of `handleFileSelected`; `query`,
`timer`, `search` and `matched` the debounced search, where `live` is the
`cancelled` flag of the effect, negated. The files table stands for
metadata-service: an upload creates a file of its own, other pages create others.
Registered but unanswered uploads, refused ones and pages left during an upload are
all there. Rows are the files listed, without their columns, and the overview is its
count of files; what the columns and the advice are made of is `Analytics`.
`VisibleFiles` is the table that is shown: the rows that matched, while a search
filters them. An upload loads the rows again and not the matches, so a new file that
fits the query stays hidden until the query is edited; `due`, an auxiliary part of a
search, is what had been uploaded when it was sent, and what `UploadedIsListed` can
demand of its result.

`Accounts` has the table of users with its unique constraint: `LookUp`, then
`Insert` after the hash is computed, or `Compare`. A form is a login page with one
submission at a time; an answer may be lost after the insert took effect.

`WebClient` puts them in one tab: `nav` is the name TopNav read on the last change
of path. `router.push` and the links take effect some time later: `going` is the push
under way, and a later one takes its place. So `Logout` clears the session and the
name, and the dashboard stays mounted with the old account's rows, its requests now
without a token and older answers still arriving, until `LeaveDashboard`. A dashboard
mounted without a session is `barred`: its effect returns before it loads anything and
pushes `/login`. That push too can be overtaken, and the empty page then stays.

`Elsewhere` and the other forms are other tabs. `overtaken` marks the one case in
which an open page may show one account and send the token of another, and
`PageIsOfSession` is stated with it: nothing listens to `storage` events, so a page
that is open while another tab logs in keeps its rows until it is left. The same
happens in one tab when the user goes to the dashboard with an old session while a
submission is under way: the answer replaces the session, and `router.push` to the
path that is already open mounts nothing.

### NotificationBell

`call[c]` is one asynchronous call of the bell: a load with the parts it has read
(`ReadList` and `ReadCount` are two queries), or a mark (`one`, `all`), which goes on
with a load of its own (`Marked`) if it succeeds. `shown` and `badge` are the React
state; the row a user clicks is taken from `shown`, which may be old or another
account's. `Create` is the end of `EventBus`'s consumer. The list is limited to the
newest `Limit` rows while the count is not.

### Analytics

Operators only: no state. The score is computed in integers: time is counted in
whole half-lives, where the decay is an exact power of two, and `Round` is
`Math.round` of a quotient. With the default options (`frequencyCap` 20) the halves that
round occur at exact floating point values only. `MCAnalytics` states as named
assumptions, which TLC evaluates before it checks `web_client`, that scores are
monotonic, that recency outweighs frequency as the comment in
`temperature-scoring.ts` says, which tier and advice a file gets, that rows are
sorted and complete, that the statistics add up when chunks are shared and files
deleted, and that the overview advises exactly when something is to be done.

## 3. Runs

| Run | Instance | Shows |
|---|---|---|
| `replication_safety` | 3 nodes (symmetric), 2 chunks of one event, 1 sweep, factor 2, 2 faults | invariants of Replication and that it implements ReplicaLedger |
| `replication_liveness` | 3 nodes, 1 chunk, 2 sweeps, 1 fault, fairness | events settle, sweeps converge, dead replicas are retired |
| `replication_return` (violation) | factor 2, every node returns | a lost row excludes its node from healing for ever |
| `replication_unsent` (violation) | unpublished event | a chunk without a row is invisible to healing |
| `health` | 2 nodes, 2 overlapping sweeps, beats in flight, 1 start of an agent, 1 fault, the service down for any time before it starts and after a crash, fairness | detection bound, no unjustified retirement, running nodes end trusted, stopped ones retired |
| `health_overtaken` (violation) | | a sweep retires a node it read before its beat |
| `file_service` | 1 file, a registration, 2 additions, 2 deletions (one not the owner's), 2 faults | numbers, refinement of FileCatalog, every request answered |
| `upload` | 3 uploads, 2 files, 2 keys, 1 fault | cleanup, answers, announcement |
| `upload_shared_chunk` (violation) | no fault at all | a cleanup deletes a chunk that a registered version shares |
| `notification_bell` | 2 accounts, 3 notifications, list of 1, 2 calls, 5 user or service actions, 1 fault, fairness | marks keep to their owner, the bell converges |
| `web_client` | 2 accounts and 2 passwords (symmetric), a tab and a login page elsewhere, 2 uploads, 2 queries, 2 searches, 4 actions, 1 fault; and the assumptions of MCAnalytics | the table, the page and the accounts; scores, rows, statistics, advice |
| `event_bus` | 2 downloads and 1 upload of a file, 3 subscriptions in 2 processes, 1 fault, fairness | delivery, effects, what redelivery does to counts and times |

The four violations are disagreements between the code and its documentation;
`PROJECT.json` quotes both sides under `findings`.

Why these bounds are enough. Three nodes and factor 2 leave one node to heal to,
and one event of two chunks is the smallest batch that can be abandoned half way.
A second fault allows "a node fails, and then a crash". Two
dead nodes leave a chunk that no sweep can heal, and sweeps that try again and again:
what `used_bytes` must not be driven up by. Two sweeps overlap in
every order; more add only more of the same, as a sweep keeps no state between
runs. With two nodes a sweep marks one while the
other beats; one fault is a failed sweep or a lost beat, or a downtime besides the one
before the first start. Three transactions on a version number are one that holds it and two that
wait. Three uploads are one that writes a chunk, one that shares it, and one that
shares another. Two accesses are what a reordering needs, and the upload's routing key tells
the two bindings apart; one fault is one redelivery.
Two calls of the bell are an older and a newer answer; a list of one row and two rows
of an account separate the list from the count, and five actions are enough for two
insertions, a click or "mark all", and a change of account and back. Two queries whose
matches differ, and two searches, are an answer that comes late; the four actions of
the web client allow a login, an upload, a logout and a login as somebody else, a
search typed twice over an upload, or a logout and two clicks that overtake its push
(the first dashboard needs none: a session may be there at the start). For the web client's properties the theorems of
section 4 do away with the bounds. Deadlock checking is off where the instance has a last step (all
requests answered, all uploads ended, all user actions taken).

Fairness. `WF` on a worker says that an awaited call ends: every call has an
answer or an error, which the clients used produce when a connection breaks.
`setInterval` justifies that sweeps start again. In NodeHealth time goes on, and what
is due happens before it does (`TimeGoesOn`); `ServiceStarts` is fair because
its Deployment in `infra/k8s` starts a pod again when the process ends, and `main`
retries or exits. Nothing is assumed of faults:
nodes need not return, requests need not be sent, users need not delete.
`ReturningSpec` adds that nodes return and events are published, only to show that
even then the two claims it is used for fail. In FileService only started requests
are fair; in Upload the two sides of a call are fair separately. In EventBus a subscription is fair: pods are
restarted (`infra/k8s`), the broker serves a consumer, statements are answered;
publication is not, nor is the recovery of a deaf process, because nothing restarts it.
In NotificationBell the interval keeps firing while the bell is mounted, and each call
is answered or fails; users, other tabs and events are not fair. `Dashboard` and
`Accounts` have no liveness property: nothing polls, a failed load stays failed until
the user acts.

## 4. Proofs

Every invariant and every action property of a passing run, and both refinements,
are theorems: proved with TLAPS for all values of the constants, from the `ASSUME`s
of the modules only. TLC evaluates those assumptions on each run, and has checked each
inductive invariant on the small instances. The bounds (`MaxFaults`, `MaxStarts`, ...)
are arbitrary naturals, so no proof depends on how often something fails.

The proofs have one shape. A property is seldom inductive, so `IInv` adds what the
code relies on without saying so; there is a lemma for each action, or for a group of
actions that leave the same things alone; then `Spec => []IInv`, and the properties
from it. What each `IInv` adds is the interesting part.

**Replication** (`Replication_proofs`, 785 obligations). `TypeCorrect`,
`RowsAreStored` and `UsedBytesCover`. A worker in the middle of a chunk has one, with a
target while it copies (`WorkersBusy`); once past its copy, the bytes it is about to
record are in the target's bucket (`CopiedIsStored`); a replica a sweep is about to
mark lost has a row (`AtRiskHasRow`). For `used_bytes` the invariant is `CountsCover`:
it covers not the rows alone but the rows and the upserts that workers are about to
send (`Counted`). Two workers with the same chunk and node share one member of that
set, although both have counted it, which is why the value only drifts upwards. The
sum over a set is a fold with `CHOOSE`; that it is additive in any order is proved by
taking a minimal counterexample among the subsets of a finite set (`MinimalSubset`),
which needs no induction theorem with an operator parameter.

**ReplicaLedger** (`ReplicaLedger_proofs`, 1846). `AckedAreTracked`, `RowsComeInOrder`,
`UsedBytesDriftBounded`, and the refinement `ServiceKeepsLedger`. `TrackInv` says that
the consumer handles one message, that its `todo` is a suffix of the message's batch,
and that all chunks before that suffix have a row (`ConsumerInTurn`, `Handling`);
`stored` is true only after a row was written (`StoredIsTracked`). `GiveUp` keeps it
because the consumer's batch ends there: if the loop went on, as the sweep's does, a
chunk without a row would be skipped. Sweeps cannot disturb the order because they
start from chunks with a row, and no row is ever deleted (`SweepsKeepToTracked`).

How far `used_bytes` drifts upwards is a budget of pairs of a worker and a chunk.
A pair is open on a node while the worker may still count the chunk there
(`MayCount`): it aims at the node (`Aims`), the consumer has the chunk to come
(`ToCome`), or a sweep would choose the node, which it never does once there is a row.
`DriftBounded`: `used_bytes` and the bytes of the open pairs together fit the bytes
of all pairs, once and once more for each fault. Without a fault no pair is opened
again; counting closes one, because the targets of a copy differ (`TargetsDiffer`)
and a chunk has one place in one message (an assumption of `Replication`); a fault
may open every pair, and pays for them. This theorem assumes that the sweeps are
finitely many, as its bound counts the workers.

**NodeHealth** (`NodeHealth_proofs`, 897). `TypeCorrect`, `SilencesAreDetected` and
`RetirementsHaveCause`. The argument is a budget of time. `TimeLeft(s)` is the longest
a sweep may still take: a call for each node it has to mark, less the age of the current
call. For a healthy node either its `Silence` is within the window plus the age of the
sweep timer (and the slack of the sweeps that have failed), or a sweep in progress will
retire it and silence plus `TimeLeft` fit the promised latency (`SilencesFit`). A tick
adds one to the silence and takes one from `TimeLeft`; a starting sweep turns the first
case into the second; a failed sweep puts its nodes back into the first with one more
unit of slack. A crash resets `upAge`, and with it every silence to what it was worth
when the monitor started, so the time the service is down costs nothing.
`MarksFit` is the same budget for a beat that overtakes a sweep. The proof uses of
`TimingAssumption` that a call may not take as long as the window, and that the numbers
are positive; it needs no bound on how many sweeps overlap.

**FileService** (`FileService_proofs`, 975). `TypeCorrect`, `NumbersAreOwn`,
`RacesHaveWinners`, `FilesHaveVersions`, and the refinement `ServiceKeepsCatalog`.
The numbers of a file have no gap, and neither has what a transaction read (`NumbersFit`):
MAX + 1 is therefore the next place of the list, which the refinement needs. A row held
by an open transaction has a number that nobody else has (`HeldFit`), from the unique
constraint; committed rows belong to calls that never come back (`RowsFit`).

**Upload** (`Upload_proofs`, 742). `TypeCorrect`, `MissingChunksWereRewritten`,
`NothingIsLeftBehind`, `AnswersAgree`. `CallsFit` relates each step of `handleUpload` to
its registration at metadata-service. `SeenWasRewritten` extends the first property to
uploads that have not ended: from the moment an upload finds or writes a chunk, the
chunk is gone only if a failed upload had written it. `ObjectsAreKept` says who answers
for an object while nothing fails.

**EventBus** (`EventBus_proofs`, 1249). `TypeCorrect`, `NothingBoundIsMissed`,
`AckedHadEffect`, `CountsStayBounded`, `AccessTimesOnlyAdvance`. `QueuesFit`: a queue
holds what is not settled, in the order of publication. The effect of the message whose
handler has ended belongs to the counts (`Handled`), and a closed connection has used up
a fault for an acknowledgement that it will lose later (`Owed`). `TimesFit`: whatever is
queued was accessed no earlier than what was counted.

**Web client** (`WebClient_proofs`, 948): every invariant of `web_client`, by
`TypeCorrect`, `TokensCanReturn`, `FilterFitsQuery`, `UploadsAreListed` and
`PagesBelongToSession`.

- `WelcomeIsStored`: an answer with tokens that is still under way is to the password
  that is stored. With it `GrantedCanReturn` is kept by `Insert`, which changes only
  an address that nobody has.
- `LiveIsCurrent`: a search that is not cancelled is for the query in the box. Every
  `Type` cancels what is in flight, so a late answer is ignored.
- `LoadIsLate`, `RowsAreListed`: rows, or a total, that were read belong to a moment
  after every upload of the page. It holds because `Uploaded` starts a new load and no
  upload can start before that load ends; this is what the disabled input is for.
- `MatchInv`: what a search owes (`due`) are files that match and were there when it
  was sent, so its answer has them. With `RowsAreListed` this gives the table that is
  shown, which is the rows the matches leave. An upload during a search is not among
  them until the query is typed again: that is what the code does, and the property
  says no more.
- `RowsInv` and `SessionInv`: the rows of a load and of the view are of one account;
  load, rows and name are those of the session, as long as no other write to the
  session went under the page and the account has not logged out of it. After a logout
  the page stays until the push has mounted the login page: its rows are still the old
  account's, and no other account's.

**NotificationBell** (`NotificationBell_proofs`, 228). `MarksAreOwners` from the two
ways the table can change; `TypeCorrect` (what is listed are notifications, and the
badge, which each mark counts down, stays within 0 and their number) from the shape of
what a load carries while it is in flight (`CallsFit`).

Model-checked only:

- Liveness (`SweepsConverge`, `DeadReplicasRetired`, `EventsSettle`,
  `RunningNodesTrusted`, `StoppedNodesRetired`, `RequestsAnswered`,
  `RegisteredIsAnnounced`, `CopiesSettle`, `BellConverges`): the provers have no
  reasoning about fairness and `ENABLED` that reaches them.
- The operators of `Analytics`: the assumptions of `MCAnalytics` are evaluated over
  their bounded inputs.

## 5. Not modelled

- Rendering, the static pages, wording and layout.
- The gateway and the clients between services: no state; what they may do to a
  request is a fault of the models of both sides.
- The contents and expiry of tokens, `refresh` and `/me`: a token is the account it
  names. No page refreshes, so an expired token is a request that fails.
- The shared packages for configuration, logging and types; migration runners, whose
  transactions are PostgreSQL's; the manifests, but for what they say of replicas
  and restarts.
- Chunk boundaries, sizes in bytes of real files, hashes (two contents are the same
  key or they are not), multipart parsing.
- The reads of a download: two requests and the chunks, without state. What a missing
  chunk means is the subject of `Upload`.
- The local file system backend, an alternative for development. Its `put` is not
  atomic; a hazard is listed, and no property, as the models put atomically.
- The browser's file input: after a failed upload its value is not reset, so choosing
  the same file again may fire no `change` event. This is the browser's behaviour.
- Two files with the same name, or the same content, uploaded by a page are two
  uploads of `Files`.

## 6. Plan

1. Core (done): `Replication`, `NodeHealth`, `FileService`, `Upload`, first proofs.
2. Event consumers (done, `EventBus`), without an abstract specification yet: each
   subscriber handles each event it was bound for at least once, or rejects it.
3. Web client, notification bell, accounts, analytics (done), with the web client's
   invariants proved.
4. Proofs (done): every invariant and action property of the passing runs, and the
   refinements of `ReplicaLedger` and `FileCatalog`.
5. Next: an abstract specification of the event bus with its refinement, and lemmas
   about the operators of `Analytics`.
