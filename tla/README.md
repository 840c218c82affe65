# Formal specification of SaaS Fabric

SaaS Fabric runs applications for many tenants. Its control plane keeps what
every client, tenant and environment may reach in Git repositories and in a few
stores of its own; it publishes the part the runtime needs as a handful of
documents; and the runtime plane serves data requests by them. This directory
specifies that system in TLA+, model-checks it with TLC on small instances, and
proves the central properties of its publication with TLAPS.

Paths below are relative to `src/crates/` unless they start with `src/`. Every
definition that models code is listed in `PROJECT.json` (`map`) with the lines
it models; `hazards` lists the places where this code is hard to test, with the
properties about each; `findings` where the code and what is written about it
disagree.

## 1. Inventory

How the parts interact:

```
operators ──> control plane ──Git──> client documents, product catalogue
                 │    │
                 │    ├─ continuity store, audit trail, secret store
                 │    └─ identity reconciliation ──> Keycloak
                 │
                 └─ platform management ──Git──> releases, data sources, placements
                         │
                         └─ publication pass ──> filesystem or Kubernetes adapter
                                                        │ (files, no shared memory)
requests ──> runtime host ──> data API <── resolution <── published-state reader
                 │               │                              └─ last-known-good copy
                 │               ├── authorization front ──> issuers' keys
                 └─ connectors <─┘── NDC connector ──> databases
```

| Component | State it keeps | Operations | Modelled by |
|---|---|---|---|
| Publication planning (`fabric-runtime-publication`: `plan`, `verdict`, `validate`, `resource_revisions`, `registry`) | none | `plan_publication` | `PublicationPlan` |
| Filesystem adapter (`fabric-runtime-publication/src/filesystem`) | three payloads, three manifests, the issuer registry, the record, staging files, an advisory lock | `publish` | `FilesystemPublication` |
| Kubernetes adapter (`fabric-publication-kubernetes`) | three ConfigMaps with resource versions | `publish`, confirm | `KubernetesPublication` (partly) |
| Publication pass and inspection (`fabric-platform-management/src/publication`, `.../inspect.rs`, `completeness`) | accepted record, last observation | `run_pass`, `publish_with_retry`, readiness | `PublicationPass` |
| Held-state recovery (`.../held_recovery`, `filesystem/recovery.rs`, `fabric-control-plane-api/src/recovery`) | an audit file | diagnose, restore | `HeldRecovery` (partly) |
| Published-state reader, last-known-good copy, refresher and view (`fabric-tenant-runtime`) | pending generation, floor, one copy, one view | load, install, persist, discard, resolve | `PublishedRuntime` |
| Resource registries and resolution (`fabric-tenant-runtime/src/resource`, `resolution`) | a snapshot per kind, a write lock, a change channel | `apply_all`, `apply_one`, `invalidate`, resolve | `RuntimeRegistries` |
| Desired state: data sources and placements (`fabric-platform-management`, `fabric-platform-git`) | two files on a branch, the binding | declare, remove, place | `PlatformEnvironment` |
| Releases and channels (`fabric-platform-management`) | a manifest, pins, holds | discover, select, sweep, pause, resume, roll back | `PlatformReleases` |
| Identity reconciliation (`fabric-reconciliation`, `fabric-keycloak`) | ledger, status | observe, plan, apply, report | `IdentityReconciliation` |
| Client lifecycle (`fabric-control-plane/src/service/lifecycle`, `continuity`) | a document in Git, a continuity store | create, tombstone, restore, confirm deletion | `ClientLifecycle`, `ClientReadiness` |
| Client model (`fabric-client-model`) | documents | product saves, identity edits, migration, catalogue commands | `ClientProduct`, `IdentityDocument`, `ProductCatalogue` |
| Registry connections (`fabric-control-plane/src/registries`) | credentials, record set, live clients | connect, prove, replace, disconnect, restore | `RegistryConnections` |
| Git connection and host (`.../git_integration`, `fabric-client-git`, `fabric-git-host`) | application record, key, binding; a token cache | create, install, choose, disconnect; get, update | `GitConnection`, `GitHost` |
| Audit trail (`.../audit_trail`, `fabric-control-plane-api/src/local_audit_trail`) | sealed lines and heads | append, read, open, verify | `AuditTrail` |
| Authorization front (`fabric-fga-auth`, `fabric-fga-check`) | keys of each issuer, a lock each | verify, check | `AuthorizationFront` (partly) |
| Data API (`fabric-data-api`, `fabric-connector`) | per request | list, get, create, update, delete | `DataRequest` |
| NDC connector (`fabric-connector-ndc`) | its registration | register, query, mutate | `NdcConnector` |
| Runtime host (`fabric-api`) | startup phase, retry task, probe | start, retry, probe, shut down | `RuntimeHost` (partly) |
| Tenant identity, deployment evidence, descriptors and shared kernel, console, hosting and examples | none, or display only | -- | not modelled (section 6) |

What is hard in it, and what makes each part correct:

* **Nothing makes a publication atomic.** Up to eight files are replaced one by
  one; a crash or a failed sync may fall between any two, and the next
  publication plans against whatever is there. A generation number must name
  one record, a record only appear when all it names is in place, resources only
  move to higher revisions, bindings on disk resolve, and whatever was
  interrupted be offered again.
* **Writers overlap without a common lock**: publishers against ConfigMaps,
  operators against Git branches, passes against Keycloak, sweeps against
  operators. What protects each is a revision read earlier, and each has to
  refuse exactly when that revision is stale.
* **Readers take no lock.** A replica reads four files while they are replaced
  and must serve one whole generation, never an older one, over crashes and
  restored volumes; a request resolves from two snapshots while both move.
* **One change is written to several stores** that fail apart: a client's
  document and its continuity record; a credential, its record and a live
  client; a log line and its head; a payload and its manifest. What is reported
  has to be what happened.
* **Answers come late or not at all.** A write whose answer was lost may have
  landed; a timed-out call may still run; keys fetched may be old when they are
  stored.
* **Something must eventually happen**: every offer answered, every replica up
  to date, every change of a connection audited, every lock given back.

## 2. Modules

Each module states in its header what it abstracts. Definitions called "seeded
fault" are not part of the model: each is a plausible mistake in the code that
makes a named property fail (`PROJECT.json`, `mutants`), which shows that the
property depends on the line it guards.

### Publication: the proved core

**`PublicationPlan`.** `Admitted` is the conjunction of every refusal of
`plan_publication`, and `Plan` what it returns: the documents to write, the
registry and the record. Documents are functions from ids to resources, with
`None` for an id they do not hold; bytes are the value they encode; a digest is
a constructor on the bytes, which takes SHA-256 to be free of collisions. A
data source is its revision and a body that stands for the rest; a tenant
binding is its revision and the map from logical names to data sources.
`MaxGeneration` is `u64::MAX`: the record's generation saturates there
(`SaturatingNext`), a registry's is refused. Two rules are easily misread.
Retirement (`NoRetiredSourceStillBound`) is judged against the tenants *held*,
not offered, so moving a tenant away and retiring its data source takes two
publications. And a resource has to advance past the highest revision in the
record's history, not only past the held copy (`Advanced`).

**`FilesystemPublication`.** One action per step of `publish`: `Acquire` (try
the lock), `PlanRefused` or `PlanAdmitted` (clear staging files, read, plan),
then per file, in the order of `adapter.rs`, `Write` (stage, rename, sync) or
`Skip`, and `Finish`. Reading and planning are one step because the lock is
held and only holders write. `Offer` and `Abandon` are the caller: an offer
stays outstanding over failures, as `publish_with_retry` keeps it. Faults, at
most `MaxFaults`: `WriteFails` (nothing replaced), `SyncFails` (the rename
happened, the call reports an error), `Crash` (the lock is released, a staging
file may stay). History variables that no action reads: `committed` and
`stamped` collect every record and registry that was ever in place; `torn` is
the last admitted plan until its publication completes.

**`PublishedRuntime`** extends it with one replica. A pass is `ReadRecord`, one
`ReadDocument` per file in the reader's order (which is not the writer's), a
choice, `InstallGeneration` or `RefuseGeneration`, and `Settle`, which raises
the floor and persists the copy; without a record it is `ChooseUnrecorded`,
three reads, `InstallUnrecorded`. Installing is one step because `install`
never awaits; persisting is a later one because it does, and the process may
`Die` in between. `floor` stands for `Inner::floor` with a copy and
`Progress::recorded` without (`KeepsCopy`). The world: `Revert` puts the volume
back to an earlier generation, `LoseRecord` removes the record, `CorruptCopy`
damages the copy, `Discard` is the operator's command.

**`GenerationService`** is what they implement: what was published, what is
served, what is kept over a restart. `Serve` goes only to a published
generation no older than what was served or kept. `PublishedRuntime` maps
`served` to its view with the digests *recomputed from the documents in it*, so
a view that mixes two generations is no generation at all.

### Publication: what surrounds it

**`PublicationPass`** is `run_pass` on several replicas of the control plane:
read the held revisions, the declared sources, the placements and the catalogue
with no lock, compose, offer with retries, inspect, record. Contents are
versions; an offer is one step that may be interrupted between documents.
`Watch` keeps, as history, the records held whole since each pass began.

**`HeldRecovery`** damages payloads and manifests and restores them: the
diagnosis, the intent, payload then manifest, the outcome, each write failing
before or after it took effect, and publications in between cut off after any
number of writes.

**`KubernetesPublication`** is the adapter with no lock: read three objects,
plan, confirm those the plan leaves alone, and replace the others only at the
version read; answers may be lost.

**`PlatformEnvironment`** is the two files an environment's data sources and
placements live in: requests read, plan and commit against the revision their
operator saw, rebase when the branch moved, and give up after `ATTEMPTS`; the
binding may be swapped to another repository in between.

**`RuntimeRegistries`** is the two registries fed from independent sources. A
writer, the refresher or a caller of `apply_one` and `invalidate`, takes the
lock of its kind (`Acquire`), merges against the snapshot it loaded, or lets the
lock go with nothing to install (`GiveUp`), swaps the snapshot in (`Swap`) and
announces what changed before the lock is released (`Announce`); a request pins
one snapshot after the other. `Accept` says what the merge leaves under a key:
the first entry of the set that may be compared with the copy held decides, as
the loop of `apply_all` meets it.

### Clients

**`ClientLifecycle`** writes one transition to two places: reserve in the
continuity store, write the document, complete in the store. Requests are cut
off between any two calls, a write may land after its answer was given up, and
the repository is reverted and edited by hand. **`ClientReadiness`** is what
the control plane concludes from the placements, the target and its own passes.
**`ProductCatalogue`** is every command on the catalogue, sent against a
revision and written conditionally, with component selection through the
registries. **`ClientProduct`** relates the product of a client to the identity
clients it projects; **`IdentityDocument`** is which callbacks a client may
declare, and the document's migration from v1.

### Connections and audit

**`RegistryConnections`** is every change of a registry across the secret
store, the record set and the live clients: one turn at a time, each write
failing or losing its answer, a client that cannot be built, the process dying
between any two, and the restore at startup, which may fail to build one too. What
the rules refuse of a request by itself (`Invalid`) ends before the turn; what
needs the record ends in it. A write whose answer was lost lands before the next
one or never. `known` is the record a host's client was last made for, and
`unanswered` the changes whose save landed so. **`GitConnection`** is the application's creation,
installation, choice of repository and disconnection, with the generation that
refuses a transition whose reads are old, and the binding that drains its
operations. **`GitHost`** is one call with its cached token, its single retry
and what every answer is reported as. **`AuditTrail`** seals lines one over the
other and anchors them with a head; an append runs whole under one lock, what was
not synced is lost with the power, by whole lines or in the middle of one, and a
hash is the sequence of identifiers it is taken over, so that two hashes agree
exactly when what they cover does. Opening makes the heads durable one stream
after another: it is refused, or the process dies, with any of them done
(`CatchUp` takes the streams done as a set, since none of them depends on
another).

### Platform and requests

**`IdentityReconciliation`** reads a realm in three requests, plans and writes
one request at a time, with the ledger's records before and after, hand edits
in between and passes that overlap. **`PlatformReleases`** discovers builds one
image at a time, selects, and writes manifest and pins in one commit, against
operators who pause, resume and roll back and people who commit to either file. A
file has a revision by its content, as a blob has, so one that was changed and
changed back is the one that was read. The other images of a build are read at
once, in any order.

**`DataRequest`** is a handler that suspends at the relation check, at the
secret secret lookup and at the connector's call, with a generation installed at each,
and a caller that repeats exactly what it was told to. A row carries, beside its
discriminator, its owner and who wrote it last, which only the properties read; a
database is a set of rows, and one column separates tenants in it. `Route` sends a
request on or refuses it: the secret cannot be had, the routing finds the call
invalid, or the request does not translate, the last two after the secret was
looked up. `RowsStayOwned` asks of a call that it ran in the database the pinned
generation names. **`NdcConnector`** is the checks at registration, of a
configuration's timeouts, key and filter arguments and payload shapes (not whether
its endpoint is empty), and the translation of scoped filters and mutations.
**`AuthorizationFront`** is the key cache with its three windows and the lock
held across a fetch, over a clock in ticks. **`RuntimeHost`** is the order of
startup, the task that retries connectors, the readiness probe and shutdown. A
start may go on unprimed, and one whose routes cannot be built is unwound, the
retry task before the refreshers, which a shutdown stops in the other order. A
retry task that was told to stop while its wait is over may still take the wait.

### Modules that check

`MCFilesystemPublication` and `MCPublishedRuntime` give the core its constants.
`MCPublishing`, `MCClients`, `MCConnections`, `MCPlatform` and `MCRequests`
each instantiate the components of one area under several choices of constants,
called scenarios; `MCPublicationSettles` and `MCControlPlaneSettles` do so with
fairness. The components of an area share no variable, so their product has no
behaviour that their sum lacks: the initial state picks a `scenario`, every
variable of another component is `"at rest"` and stays so, and every action
names the component it belongs to. `MCPublishing` extends `RuntimeRegistries`,
`MCConnections` extends `AuditTrail`, `MCPlatform` extends `RegistryConnections`
and `MCRequests` extends `DataRequest`: their
variables are the module's own, rest in their own initial state, and their
invariants are properties of the run as they stand, the formulas that section 5
proves. The scenarios `audit`, `long` and `edited` then differ by what
`AuditBounds` lets happen, `registries`, `leftovers` and `unanswered` by `RegistryBounds` (which
registries and endpoints changes name, and how many there are), and `data` and
`retries` by `MaySend`: two requests sent once each, or the first of them twice.
Any other invariant of an area is a conjunction of `scenario = ... => property of the component`.

## 3. Runs

| Run | What it explores | Properties |
|---|---|---|
| `resources` | 1 publisher, 24 snapshots over 1 tenant and 2 data sources, 2 faults | `ResourceRevisionsAdvance`, `NoDanglingBindingOnDisk`, `RetryAdmitted` |
| `registry` | 2 publishers at contracts 2 and 3, 2 issuers whose registrations change, 2 faults, 4 generations | `TypeOK`, `GenerationNamesOneRecord`, `RegistryGenerationStampedOnce`, `RecordLandsWhole` |
| `replica` | 1 publisher, a replica with a copy, 1 publisher fault, 1 reader fault, 1 volume restore, 2 copy losses | `RuntimeTypeOK`, `ViewIsOneGeneration`, `ServedNeverRegresses`, `CopyFollowsService`, `ImplementsService` |
| `publishing` | 8 scenarios around the publication | `DesiredStateHolds`, `MetMeansWhole`, `RestoreReportsTruly`, `RegistriesAgree`, `PublishedMovesForward` |
| `clients` | 6 scenarios of client documents and the catalogue | `LifecycleHolds`, `ReadyIsServed`, `CatalogueHolds`, `DocumentsStayWhole`, `ChangesKeepTheRest` |
| `connections` | 7 scenarios of Git and the audit trail | `GitConnectionAgrees`, `OutcomeIsTrue`, `TrailKeepsWhatWasReported`, `TrailIsOpenedWhole` |
| `platform` | 9 scenarios of registries, reconciliation and releases | `ConnectionsAgree`, `BaselineIsHonest`, `ReleasesAreCoherent`, `MovesAreDecided` |
| `requests` | 8 scenarios of the front, the data API, the connector and the host | `RowsStayOwned`, `FiltersArrive`, `NothingLeftHeld`, `DecisionsAreFounded` |
| `publication_settles` | 6 fair scenarios of the publication | `PublicationSettles`, `CatchesUp`, `RetrySettles` |
| `control_plane_settles` | 6 fair scenarios of the control plane and the host | `ConnectionsSettle`, `AnswersEnd`, `HostRecovers` |
| `redeclared` | as `replica` but without a copy, 2 publisher faults | `AdmittedIsTaken`, which fails (section 4) |
| `reconcile_stranded` | one pass with a ledger, 1 hand edit, 2 declarations | `NotStranded`, which fails (section 4) |

What a property of an area says of each component is the property of the same
idea in the component's module, where a comment states it with the code it is
about. The runs without deadlock checking bound how often something happens
(faults, writes, clock ticks), so their behaviours really stop.

### Scenarios and bounds

A scenario is one `INSTANCE ... WITH` of the MC module; its bounds stand there.

| Area | Scenario | Instance |
|---|---|---|
| publishing | `environment` | 2 requests, 2 tenants, 2 data sources, 3 commits, 1 rebinding |
| | `rebinding` | 1 request, 2 repositories, 3 rebindings: two repositories may hold one file at one revision |
| | `redeclaration` | 1 request, 1 data source, 4 revisions: declared, removed and declared again |
| | `pass` | 2 replicas of the pass, 2 versions, 4 changes of what is desired, revisions to 4, 1 fault |
| | `recovery` | 1 mishap taking payload, manifest or both, 1 cut-off publication, 1 failed write |
| | `damaged` | 2 mishaps, so that a restore may meet another one |
| | `kubernetes` | 2 publishers, 4 snapshots that move a tenant and retire its source, 1 fault |
| | `runtime` | 2 writers, 2 tenants, 2 sources, 4 loads of sequences with repeats and old revisions |
| clients | `lifecycle` | 2 requests, 3 writes, 1 hand edit, 1 fault |
| | `readiness`, `withdrawal` | 2 logical and 2 physical sources, 2 faults; any pass, or only this process's |
| | `catalogue` | 2 operators, 2 repositories, 2 applications, 3 requests, 1 lost answer, 1 rebinding |
| | `product` | 2 applications, 1 hand-declared client, 2 hosts, 2 hand edits |
| | `identity` | some 3700 callbacks: every scheme, host spelling, port and tail the rules tell apart |
| connections | `git` | 2 applications, 2 repositories, 2 flows, 4 transitions, 1 fault |
| | `reconnected` | 3 flows, 3 transitions, no fault: an application created over another |
| | `host`, `reading` | 2 callers, 2 calls, tokens that live 1 or 3 ticks with a margin of 1; writes, and reads with 2 faults |
| | `audit` | 2 streams, 2 records, 1 failed write, 1 stop, 1 power loss |
| | `long`, `edited` | 1 stream, 3 records; with a power loss, and with an edit from outside |
| platform | `registries` | 2 registries, 2 repositories, 2 changes whose saves and clients answer, 1 crash |
| | `leftovers` | 1 registry with whatever an earlier process may have left, 1 change, 1 fault |
| | `unanswered` | 1 registry, 2 changes one after the other, saves that may land unanswered, 1 fault |
| | `reconcile` | 1 pass with a ledger, 2 callbacks, 2 names, every kind of hand edit, 1 of each fault |
| | `passes` | 2 overlapping passes without a ledger, 1 callback removed by hand |
| | `releases` | 2 sweepers and an operator, 2 previews whose order as text differs from theirs as numbers, 1 commit by hand, 1 fault |
| | `upgrading`, `described` | 2 builds of 2 images, pushed one at a time; known by image, and by descriptor, a push of which may be in flight |
| | `history` | 7 tags, among them an unparsable one, 2 sweepers, 4 pushes |
| requests | `data`, `retries` | 2 requests sent once and 1 sent twice, 2 tenants in one table, 2 generations |
| | `connector` | configurations and schemas with arguments missing, repeated and of one name, 3 values |
| | `front`, `keys` | 2 callers on one issuer, with an outage, and with 2 keys that rotate |
| | `tenants`, `stepped` | 3 issuers and any bearer; a clock set back by a tick |
| | `process` | 2 connectors that come and go |

Why they are enough. *Two actors*, because every rule compares one actor's
revision with what another wrote; a third adds a second intruder, no new
comparison. *Two faults in one behaviour* for the publication: the first
interrupts a publication and the second interrupts the one that repairs it,
which tells "recovers" from "recovers once"; elsewhere one fault, with a second
where a repair is a sequence of writes itself. *Three revisions, two bodies*:
below, at and above a held revision, and the same revision with other content.
*Four generations* (three with a replica): the counter saturates within reach,
so its boundary is in the run. *One replica*, since replicas share nothing but
files they only read. The windows of the front are 3 ticks for freshness and 4
for a key's age, with a cooldown and a fetch of 1 tick, so that each may end
before, with and after another. Symmetry is only used over actors and keys that
nothing but equality tells apart, and in no run with liveness; likewise `reconcile`
starts from one name, since it begins with no other state that tells names apart.

The scenarios with fairness are smaller, since TLC keeps their graph of states:
`offers` has 2 publishers of 3 overlapping snapshots and 2 faults; `replica` 1
publisher without faults (`offers` has them), 2 faults of the reader and 1 loss
of the copy, so that a restart may be followed by another or meet a copy that is
gone; `pass` has 1 replica, `recovery` 2 mishaps and no cut-off publication, and
the two lifecycles no hand edit.

### Fairness

* *A publisher inside `publish`* is a straight line of code without a wait:
  weak fairness of its steps. Strong fairness of `Acquire`, because the lock is
  only tried: `publish_with_retry` offers three times per pass and the schedule
  repeats the pass, so who keeps offering some time finds it free. `Abandon` and
  faults are not required to happen, and faults are bounded.
* *The replica*: weak fairness of its own steps. The refresh loop never ends
  while the process lives, and a supervisor restarts it. `CatchesUp` assumes
  nothing of publishers, and holds where files are not put back: a replica
  refuses a generation below its floor for as long as it is offered, by design.
* *The pass, the restore, the lifecycle request* go on by themselves once begun;
  a restore is repeated by the operator who holds the copy, and a transition is
  sent again as it was, with the same precondition, which is the one way the
  code's documentation says it goes on.
* *Tasks of the control plane* (a turn, an audit record, an operation within its
  time budget, a restore at startup) are spawned on the runtime and run: weak
  fairness. A mutex of tokio serves its waiters in order: strong fairness of the
  step that takes it. A store that is asked again and again some time answers.
* *The front*: the clock ticks, a fetch ends by its timeout at the latest, a
  caller gives up at its own. *The runtime host*: its start and stop, its retry
  task and each try of a connector run; and strong fairness of `RetryEnds`, since
  `select!` chooses at random between a wait that is over and a notification that
  is there. `HostRecovers` asks that a shutdown joins both tasks, also one asked
  for in the middle of a pass, and that a start that fails late is unwound.
  Readiness sweeps and refreshes, which neither waits for, are left out there.

## 4. Where code and documentation disagree

Two runs are expected to fail. The others are shown by the area's
configuration with the one scenario named here and the property in place of its
own; `PROJECT.json` (`findings`) quotes the lines.

| Shown by | What happens |
|---|---|
| run `redeclared`, `AdmittedIsTaken` | A data source that reached the files in a publication interrupted before its record and left them in a second one is admitted again at the same revision with other content; a replica that had installed the unrecorded files refuses the completed generation until it restarts or the revision rises. The record's history is where the plan looks, and it is written last. |
| run `reconcile_stranded`, `NotStranded` | A callback removed by hand, undeclared, then declared again alone is held as removed while the other is dropped: the ledger is only rewritten by a write. |
| `racing`, `RedeclaredAbove` | A declaration whose file is back at the revision it read lands at a revision already published. |
| `correction`, `PlacementsCoherent` | Declaring another class under placed tenants makes the placements unreadable, though nobody edited them by hand. |
| `kubernetes`, `SkewOnlyAfterCheck` | A publisher that means to write the tenants object does not check it, so the skew window is wider than its comment says. |
| `unanswered`, `StoredThoughUnanswered` | A write of the record set that landed without an answer names a credential that was then deleted. |
| `reconnected`, `EndsOnTheLastTransition` | Creating an application over a connected one leaves the platform reading the old repository. |
| `audit`, `HeadNeverPassesLog` | A head recorded at opening for a line never synced outlives it over a power loss. |
| `audit`, `ReadReportsNoBreak` | A read between an append's two files verifies a sound stream as truncated. |
| `reading`, `AbsentIsAbsent` | Two requests are not one look: an existing catalogue is reported absent. |
| `applied`, `AppliedIsConverged`; `baseline`, `ConfirmedWasWritten` | A 409 to a create counts as written. |
| `pausing`, `RollbackHoldKept` | Pausing replaces the reason of a rollback's hold. |
| `clock`, `RefusedOnEvidence`; `heldup`, `KnownKeyIsServed` | The front's windows are measured on the wall clock; and its lock is held over a fetch that outlasts the caller. |

## 5. Proofs

Eight modules prove what follows for *every* set of publishers, tenants, data
sources, issuers, snapshots, published sets, streams, requests, calls, registries,
repositories and record sets left behind, every
`MaxGeneration` and every limit, and any number of faults, crashes, power losses,
edits, volume restores, losses of the copy, timeouts and repeats.
`PublicationPlanProofs` holds the lemmas about planning that both adapters'
proofs cite, stated for any held documents that are well formed (`HeldTyped`):
the types of the registry and record planned, what a history is raised to, and
`AdvancesPast`, that an admitted resource is numbered past the history or is the
held copy again.

| Theorem | Module | States |
|---|---|---|
| `TypeCorrectness` | `FilesystemPublicationProofs` | `Spec => []TypeOK` |
| `MutualExclusion` | | `Spec => []Exclusion`: whoever is past `Acquire` holds the lock |
| `OneRecordPerGeneration` | | `Spec => []GenerationNamesOneRecord` |
| `RecordsLandWhole` | | `Spec => RecordLandsWhole` |
| `NeverDangling` | | `Spec => []NoDanglingBindingOnDisk` |
| `RegistryGenerationsStampedOnce` | | `Spec => []RegistryGenerationStampedOnce` |
| `ResourcesOnlyAdvance` | | `Spec => []ResourceRevisionsAdvance` |
| `RetryIsAdmitted` | | `Spec => []RetryAdmitted` |
| `RuntimeTypeCorrectness` | `PublishedRuntimeProofs` | `RuntimeSpec => []RuntimeTypeOK` |
| `OneGenerationServed` | | `RuntimeSpec => []ViewIsOneGeneration` |
| `ServiceNeverRegresses` | | `RuntimeSpec => ServedNeverRegresses` |
| `CopyKeepsUp` | | `RuntimeSpec => CopyFollowsService` |
| `ServiceImplemented` | | `RuntimeSpec => ImplementsService`, the refinement of `GenerationService` |
| `KubernetesResourcesMoveForward` | `KubernetesPublicationProofs` | `KubernetesSpec => [][ResourcesMoveForward]_kubernetesVars` |
| `KubernetesGenerationsAreUnique` | | `KubernetesSpec => [][GenerationsAreUnique]_kubernetesVars` |
| `RegistriesStayInStep` | `RuntimeRegistriesProofs` | `RegistriesSpec => []RegistriesAgree` |
| `RegistriesMoveForward` | | `RegistriesSpec => [][RevisionsMoveForward]_registryVars` |
| `EmptyOnlyAsPublished` | | `RegistriesSpec => [][EmptyMeansPublishedEmpty]_registryVars` |
| `WhatWasReportedIsKept` | `AuditTrailProofs` | `TrailSpec => []TrailKeepsWhatWasReported` |
| `BrokenStreamsRest` | | `TrailSpec => [][BrokenStreamIsNotExtended]_trailVars` |
| `OpenedTrailsAreWhole` | | `TrailSpec => [][OpenedTrailIsWhole]_trailVars` |
| `TenantsStayApart` | `DataRequestProofs` | `DataSpec => []RowsStayOwned` |
| `OwnersAloneChangeRows` | | `DataSpec => [][OwnersChangeTheirRows]_dataVars` |
| `RegistriesAgreeWithStores` | `RegistryConnectionsProofs` | `ConnectionsSpec => []ConnectionsAgree` |
| `RefusedChangesLeaveNothing` | | `ConnectionsSpec => [][FailureLeavesItAsItWas]_connectionsVars` |

The first thirteen are the safety properties of the runs `resources`, `registry`
and `replica`, every one of them. Of the rest, `RegistriesStayInStep` is
`RegistriesAgree`, `WhatWasReportedIsKept` is `TrailKeepsWhatWasReported`,
`TenantsStayApart` is `RowsStayOwned` and `RegistriesAgreeWithStores` is
`ConnectionsAgree`, as the runs `publishing`, `connections`, `requests` and
`platform` check them; the action properties are the parts of
`PublishedMovesForward` about Kubernetes and the registries, of
`TrailIsOpenedWhole`, of `DecisionsAreFounded` about rows and of `MovesAreDecided`
about registries. The two about Kubernetes have
`KubernetesAssumption` as a hypothesis, because the module is only instantiated;
`MCPublishing` assumes it of its instance. What the theorems assume are the named
assumptions beside the constants: revisions are positive, contracts and bounds
naturals, snapshots and published sets well formed, and `None` and `Corrupt`
unlike every document, record, process, view, resource, head and append. For
requests they are the shape of calls and generations, rows that are well placed at
first, and `PartitionsApart` (below). For registry connections they are that a
repository has one host, and that what an earlier process left is a record set that
turns could have saved (`RecordSets`). TLC evaluates each of them in a run.

### The publisher

The argument is a ladder of inductive invariants, each proved from those below.

1. `Shape`: the types; exclusion; an outstanding offer is a snapshot; the plan
   of a publisher that is writing is well typed. `TypeOK` alone is not
   inductive, since a file gets its type from the plan that wrote it.
2. `Numbering`: the record in place has the highest generation ever committed,
   and a planned record is the one in place or carries the saturating successor
   of its generation. `GenerationNamesOneRecord` alone is not inductive: it
   does not relate the next number to the earlier ones. That nobody else commits
   between planning and writing is exclusion.
3. `DocStart` and `Placement`: a publisher's position in the fixed order of
   writes determines which files already hold what its plan names, and a file
   it will skip holds it from the start (by the verdict's rules, equal revision
   and not divergent means equal bytes). At the last step all do: that is
   `RecordLandsWhole`.
4. `Resolving`: the tenants file resolves in the data-sources file, and the data
   sources of a running plan carry every source bound by the plan's own tenants
   and by the tenants in place. Both are rules of `validate.rs` when the plan is
   made; the order (data sources before tenants) carries them to the end.
5. `Stamping`: the registry on disk has the highest generation ever stamped, and
   no record names a later one. It is what the plan's choice between the held
   generation and the next one rests on when an interrupted publication has
   stamped a registry that no record names yet.
6. `Advancing`: the record's history numbers every resource it publishes or
   retired; both the record in place and a planned one supersede every record
   committed, resource by resource. `ResourceRevisionsAdvance` compares two
   published generations; only the history, carried from record to record,
   relates the second to a first that is long gone.
7. `Retrying`: a manifest on disk is never behind the record, and the last
   admitted plan would be admitted again and come to the same documents,
   registry and generation. One lemma per rule of admission shows that a file
   that lands brings what is held closer to the plan and so cannot make that
   rule refuse; the plan is then shown equal part by part.

`StepKinds` classifies the steps once, those that leave files, plan and position
alone and those that do not, so each invariant is shown against few cases.

### The replica

A volume that is put back breaks `Numbering`: the next publication reuses
generation numbers. So nothing above `Shape` is available to a replica, and its
proofs rest on less: that what it reads under a record has the digests the
record names, and that it never goes below its floor. The invariant is
`Replica`, five parts over `Shape`:

* `Recording`: `Shape`, and a record in place is one that was committed;
* `Reading`: what a pass has read so far is what some file held, in the order of
  the pass, and all three documents are there when it goes on without a record;
* `Keeping`: a chosen generation and a readable copy are complete generations
  under a committed record, and a floor is the number of one;
* `Viewing`: the view has the digests of the record it is stamped with, and that
  record was installed;
* `Flooring`: outside `Settle` the floor is at least what is served and what is
  kept, during it what is served is at least the floor, and a replica that has
  not started serves nothing and has no floor.

`ViewIsOneGeneration` alone is not inductive: a step that installs takes what
the pass chose, and a step that chooses takes what it has read or kept.
`ServedNeverRegresses` needs `Flooring`, because what orders one installation
after the last is the floor that was raised in between, and after a restart the
copy. TLC checks `Replica` on the instance of the run as well.
`ServiceImplemented` maps initial states to initial states and each step to a
step of `GenerationService` or a stutter (`ServiceStep`): a record that lands is
`Publish`, an installation `Serve`, a persisted copy `Keep`, a copy that rots or
is discarded `Forget`, death `Stop`; everything else stutters, what the world
does to the files included.

### The publisher without a lock

On Kubernetes nothing excludes other publishers, so no invariant relates a plan
to the documents in place, and `NoDanglingBindingOnDisk` has no counterpart
(section 4). What is left is the version of each object. `Shape` types the
objects and what each publisher read, and says that a plan is the plan of what
was read; `Followed` says that an object read is at a later version by now or is
still exactly what was read. A write is made under the version read, so it
replaces the very object its plan was made from (`AsRead`, `WrittenFromRead`),
and the rules of admission then say of that object what they say of a held file.
`GenerationsAreUnique` needs record and tenants to be in one object: a record
in an object of its own would be guarded by another version than the one the
plan was made under. It says nothing of a record that has the last generation,
where the count saturates.

### The registries

`RegistriesInv` is the types, `SubscriberFollows` (part of the property) and two
parts that make it inductive. `Locked`: who merges or announces holds the lock of
its kind, and until it lets go the registry is the snapshot it loaded, or the one
it installed over that, while the subscriber still believes the loaded one.
Letting the lock go with the swap breaks it: a second writer would load a
snapshot nobody announced yet. `Answered`: a request was answered from the pair
it pinned, so `GrantedAlone` is a statement about resolution alone
(`ResolvedAlone`): whoever is bound to the destination is seen by whoever asks
about it. What the merge leaves (`AcceptedIsNewer`, `ValidIsAccepted`) needs no
induction over the set, since `Accept` names the entry that decides, the first
that can be compared; that it exists is well-foundedness of the naturals. The two
action properties follow from `OnlySwapChanges`: a registry only changes in a
swap, to what the operation makes of the snapshot that is still there.

### The audit trail

`TrailKeepsWhatWasReported` is not inductive: nothing in it says what the lock's
holder is writing. `TrailInv` adds, beside the types and `Handed`:

* `LogsChain`: without an edit, and in an open trail always, each log is the
  chain that was sealed; and `LinesFollow`, which an edit does not take away: the
  lines a log still has carry as hash a beginning of the hash of every later one;
* `AppendedSealed`: what was reported was sealed, so its hash is its own;
* `MemoryFollows`: the head in memory is that of the last line, unless the append
  is between its write and its sync or the stream is broken, and a log that has
  lines has a durable name;
* `AppendPlaced`: the append under way is sealed over the last line, or is the
  last line, and after the sync all of the log is on storage.

Reporting comes after the sync, so `AppendedIsDurable` follows from
`AppendPlaced` and nothing but an edit cuts below `synced`. `OpenedTrailIsWhole`
is about edited logs. That a log verifies up to its head, and that the head
covers a reported entry (`Covers`: the head's hash begins with the entry's), puts
the entry in its place: the line there has the same hash as the entry, and one
hash is taken over one sequence of records (`OneHashOneLine`). That the sequence
number alone is covered would not do: with a second stop an entry reported without
its head (`HeadFails`) can be edited away and its number given again, which no
verification can tell. That hash functions do not collide is the model's
assumption, since a hash is what it is taken over.

### The request

`RowsStayOwned` is six statements about what a request did and was told, and one
about the rows. None is inductive, since none says what a handler in the middle of
its request is about to do. The invariant is `Shape` (the types), `Kept` (every
row is its owner's, written by its owner, and `WellPlaced`: where some generation
placed its owner) and, for each request, `Sound`:

* `Phased`: the backend holds nothing before the call was sent, runs it at most
  once, and nothing is told before the answer;
* `Granted`: past the check the caller has its scope, and the check it needed was
  about the very record or collection of the call;
* `Prepared`: past `prepare`, and as long as the backend may still run the call,
  nothing in the pinned generation refuses it;
* `Relayed`: what is on the wire tells what the backend did: a page of the caller's
  own rows and how many there were, a count that is short where a batch was run in
  part, or a refusal of what did not run;
* `ToldTheTruth`, `Disclosed`: the properties, of the answer.

The step that matters is `RunBackend`, which may come long after the handler gave
up and after any number of generations. `OwnSelected` shows that what the scoped
predicate selects is the caller's: a row that matches is in the database the
pinned generation names, its owner was placed there in *some* generation, and
`PartitionsApart` says that two tenants placed in one database, whenever, are told
apart in it. Within a generation the resolver sees to that; that a partition is
not handed to another tenant while rows are in it is not something this code can
see, and so it is an assumption. `OwnStamp` shows that a written row carries its
owner's value, which rests on refusing a payload that names the discriminator in
*any* case: compared as it is spelled, the lemma fails. That a caller who repeats
what it was told to never writes twice is `Phased` with the table of answers: a
write is only answered 503 where its call never ran and never will.

A page is exact because a list asks for one row more than it shows, so
`PagesAreExact` is a fact about cardinalities (`ReadTells`); it is about the rows
that were there when the backend ran, not when the answer arrived.

### The registry connections

A change touches three stores that fail apart: the secret store, the record set and
the clients of the process, and a save that answers an error may have landed all the
same. `ConnectionsAgree` says how the three agree between changes and what may be amiss
during one, so it cannot be inductive: it does not say what the change in its turn has
done so far. Since an unanswered save moves the record while the client stays, clients
are compared with `known`, the record they were made for, and `Apart` relates that to
the one stored. `Inv` is the types and:

* `Stored`: the record set is one of `RecordSets` (an id names one credential, a
  repository is on its own host and was proven with the credential beside it); a
  recorded credential is stored or `Missing`; what is stored is recorded, left behind
  or the one token the change `Owed`; and a refused credential that is still recorded,
  or that a client was made for, is marked;
* `Apart`: `known` is one of `RecordSets` too, names no id that the record set names at
  another host, and is the record stored unless a save of that registry landed
  unanswered;
* `ClientsFollow`: every host is read through the client its known record describes,
  once restored, except the one host of a withdrawal or a removal that has swapped its
  client and not saved its record yet (`Swapping`); and the client a change found
  was the one described then, which is what makes putting it back right;
* `TurnKeeps`: until it is saved, what a change found is still there; after a failure
  too, or the whole of what it asked for where its save `Landed`;
* `TurnFits`: a change takes only the steps of its kind, after the checks it passed;
* `TurnCredential`: the id a change holds is none, one no record has, or the recorded
  one, and what it forgets no client presents, nor does a record name it unless it was
  recorded by a save that landed unanswered;
* `WaitingValid` and `NumbersApart`: what waits for its turn passed the rules that need
  no record, and changes have numbers of their own.

A turn may die after any step, and the process after any write; each of them then
holds with no turn at all, so `CrashStep` is short. The long step is `Saved`: the new
record (`NewRecordFits`, from `Becomes`, one clause per change) must describe the
client installed with it, and what it supersedes must be named by no other record,
which is that ids are minted fresh. `RefusedChangesLeaveNothing` follows from
`TurnKeeps`: a turn that ends in a refusal either wrote nothing but a token, or put
the client back.

Neither theorem assumes that answers arrive. What they say of a save that landed
unanswered is what the code leaves behind then: the record is as it was or whole what
the change asked for, never a part of it, while its registry is read through as before;
the credential the turn forgot although the record names it is `Missing`, as one is
that somebody else removed (that this happens at all is the finding
`StoredThoughUnanswered`, section 4). A withdrawal whose save landed unanswered so goes
on presenting the credential; sent again it succeeds, and a removal sent again answers
that there is no such registry.

### What the proofs showed about the models

* `Covers`, in the audit trail, first said no more than that a head's number is at
  least an entry's. That is too weak to prove `OpenedTrailIsWhole`, and TLC has a
  counterexample with a second stop; it says now what verification does.
* An update was modelled as stamping the rows of dedicated placements too, with the
  value that stands for no discriminator. `for_target` returns such a mutation as it
  is; the proof that rows stay well placed needs exactly that (`Changed`).
* Where the arms of a `CASE` overlap, TLA+ leaves open which is meant, while TLC
  takes the first, as the code's early returns do. The provers do not. Every choice
  among refusals that may apply together is an `IF` chain now.

### Only model-checked

* *Liveness* (`publication_settles`, `control_plane_settles`): fairness and
  `ENABLED` are beyond the installed provers.
* *The other properties of the areas* `publishing`, `clients`, `connections`,
  `platform`, `requests` are checked on the instances above and not proved.
* *What a recursion computes* for every input, the numerals of a version
  (`PlatformReleases`), needs induction over an operator's argument, which the
  installed provers cannot instantiate.
* `AdmittedIsTaken` and the other properties of section 4 are false.

## 6. Not modelled

* Loss of power under the publication: a rename not yet durable
  (`atomic_write.rs`). Each replacement is synced before the next begins, so at
  most the last is in doubt, and `SyncFails` covers its visible outcome. The
  audit trail does model it, since there a head follows its line.
* The publication lock's known limits (`filesystem/lock.rs`): writers that do
  not take it, network filesystems, adapters with different tenants paths; and
  two control planes overlapping in a rolling update (`registries/service/turn.rs`),
  which the code names as an open gate.
* The staging file of the last-known-good copy, the check that it lies on other
  storage, and the reader's rejection of malformed resources: publishers write
  none.
* Inspection of the Kubernetes objects, their size limit and credentials.
* Configuration, wiring, routes, sessions and login of both hosts; request
  authorization and the read-only views of the control plane.
* The syntax of names, urls, YAML and wire formats, other than the callbacks
  and versions whose spelling decides something.
* Of a request: the bounds of `limits.rs` on how many fields are sorted by and
  selected and how deep a filter nests; a discriminator spelled in another case in a
  filter, under an empty list of allowed fields, which the model refuses and the code
  compares with a field of that name; and a failing identity provider as anything but a
  401.
* Sweeps and passes of two control planes at once (`PlatformReleases` has two sweepers
  that share the one guard of a process), and, in `reconcile`, a client somebody
  creates by hand in place of one they deleted: `baseline` (section 4) is where it
  matters.
* Another continuity store than the one in memory, whose rules `ClientLifecycle`
  takes: the port has no other implementation yet.
* What the publisher's check misses of objects it means to write, and a head recorded
  before its line is synced: the code meets both hazards, so no property that holds
  covers them; `SkewOnlyAfterCheck` and `HeadNeverPassesLog` (section 4) do.
* Tenant identity (pure, per request: `DataRequest` takes its result as the
  caller), deployment evidence (observes and decides nothing), descriptors and
  the shared kernel (value types), the console, hosting, charts and examples.

## 7. Plan

`ClientLifecycle`: the part of `LifecycleHolds` that relates the document to the
continuity record is the next to prove, then `GitConnectionAgrees`, whose binding
drains while the record moves on.
