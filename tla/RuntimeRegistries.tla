--------------------------- MODULE RuntimeRegistries ---------------------------
(***************************************************************************)
(* The two resource registries of fabric-tenant-runtime fed from           *)
(* independent sources, and what a request resolves from them.             *)
(*                                                                         *)
(* A registry is one pointer to a snapshot.  Writers - the refresher, and  *)
(* callers of apply_one and invalidate - merge against the snapshot they   *)
(* loaded, swap the next one in and announce what changed, under a lock.   *)
(* A request takes no lock: it loads the tenants pointer, then the data    *)
(* sources pointer, and is answered from the pair.                         *)
(*                                                                         *)
(* A source publishes a sequence: it may repeat a key, hold an entry that  *)
(* does not validate, or one that is older than what is applied.           *)
(***************************************************************************)
EXTENDS Naturals, Sequences

CONSTANTS
    Tenants, Logicals, DataSources,
    TenantSets,     \* the sequences the tenants source may publish
    SourceSets,     \* the sequences the data-sources source may publish
    Singles,        \* the tenant bindings apply_one may be called with
    FailFast,       \* RuntimeConfig::fail_fast_on_prime
    MaxOffers,      \* bound on loads and single applications
    None

Kinds == {"data_sources", "tenants"}

Keys == [data_sources |-> DataSources, tenants |-> Tenants]

SetsOf(kind) == IF kind = "tenants" THEN TenantSets ELSE SourceSets

SinglesOf(kind) == IF kind = "tenants" THEN Singles ELSE {}

\* What may be offered for a kind, in a set or alone.
Resources(kind) ==
    (UNION {{set[i] : i \in 1 .. Len(set)} : set \in SetsOf(kind)}) \cup SinglesOf(kind)

\* A snapshot maps every key of its kind to a resource of that key, or to None.
SnapshotsOf(kind) ==
    {snapshot \in [Keys[kind] -> Resources(kind) \cup {None}] :
        \A k \in Keys[kind] : snapshot[k] # None => snapshot[k].id = k}

Writers == {"refresher", "caller"}

\* ResolveError, as far as resolution tells one from another.
Errors == {"RuntimeUnavailable", "UnknownTenant", "UnboundDataSource", "MissingDataSource",
           "IsolationNotEnforceable"}

\* A set is a sequence of entries for keys of its kind, each with a revision, and a
\* tenant's with the data sources it names; None is none of what it stands beside.
RegistryAssumption ==
    /\ FailFast \in BOOLEAN /\ MaxOffers \in Nat
    /\ \A kind \in Kinds : \A set \in SetsOf(kind) : set \in Seq(Resources(kind))
    /\ \A kind \in Kinds : \A resource \in Resources(kind) :
          resource # None /\ resource.id \in Keys[kind] /\ resource.revision \in Nat
    /\ \A binding \in Resources("tenants") : \A l \in Logicals :
          binding.data[l] # None => binding.data[l].data_source \in DataSources
    /\ None \notin Writers \cup Errors \cup Nat
    /\ \A kind \in Kinds : None \notin SnapshotsOf(kind)

ASSUME RegistryAssumptions == RegistryAssumption

VARIABLES
    registry,   \* each registry's snapshot: key to resource, None unprimed
    lock,       \* the writer holding each registry's write lock
    writer,     \* where each writer is
    known,      \* what a subscriber of the changes believes: key to revision
    request,    \* the request being resolved
    offers      \* how many sets and resources were offered

\* What a writer does to a registry: apply_all, apply_one, invalidate.
Operations(kind) ==
    [op : {"all"}, set : SetsOf(kind)]
        \cup [op : {"one"}, resource : SinglesOf(kind)]
        \cup [op : {"drop"}, key : IF kind = "tenants" THEN Tenants ELSE {}]

registryVars == <<registry, lock, writer, known, request, offers>>

Empty(kind) == [k \in Keys[kind] |-> None]

RegistriesInit ==
    /\ registry = [kind \in Kinds |-> None]
    /\ lock = [kind \in Kinds |-> None]
    /\ writer = [w \in Writers |-> IF w = "refresher" THEN [pc |-> "load", kind |-> "data_sources",
                                                           starting |-> TRUE]
                                   ELSE [pc |-> "idle"]]
    /\ known = [kind \in Kinds |-> Empty(kind)]
    /\ request = [pc |-> "none"]
    /\ offers = 0

--------------------------------------------------------------------------------
(* The merge of an offered sequence with the snapshot it replaces.         *)

\* TenantRuntimeBinding::validate: some data binding.  A data source always
\* validates.
Valid(kind, resource) ==
    kind = "tenants" => \E l \in Logicals : resource.data[l] # None

HeldAt(snapshot, key) == IF snapshot = None THEN None ELSE snapshot[key]

RevisionAt(resource) == IF resource = None THEN None ELSE resource.revision

\* A resource may take the place of what is held if it is newer, or nothing is held.
Newer(resource, held) == held = None \/ resource.revision > held.revision

\* against_held: added or updated if newer; stale, unchanged or divergent if not.
AgainstHeld(resource, held) == IF Newer(resource, held) THEN resource ELSE held

\* The places of the entries for a key.
EntriesFor(sequence, key) == {i \in 1 .. Len(sequence) : sequence[i].id = key}

\* The places of those that can be compared: one that does not validate is not, and
\* does not take the key.
Comparable(kind, sequence, key) ==
    {i \in EntriesFor(sequence, key) : Valid(kind, sequence[i])}

\* What accept leaves for a key once the sequence is done: the first entry that can be
\* compared decides it, an entry that cannot leaves the held copy, and a key with no
\* entry is removed.
Accept(kind, snapshot, sequence, key) ==
    LET held == HeldAt(snapshot, key)
        comparable == Comparable(kind, sequence, key)
        first == CHOOSE i \in comparable : \A j \in comparable : i <= j
    IN  IF comparable # {} THEN AgainstHeld(sequence[first], held)
        ELSE IF EntriesFor(sequence, key) # {} THEN held ELSE None

\* MergedSnapshot::merge: every entry is judged against the snapshot being replaced.
Merge(kind, snapshot, sequence) ==
    [key \in Keys[kind] |-> Accept(kind, snapshot, sequence, key)]

IsEmpty(kind, snapshot) == snapshot = Empty(kind)

\* refusal: a first load that published resources and leaves none.
Refused(kind, snapshot, sequence) ==
    /\ snapshot = None
    /\ Len(sequence) > 0
    /\ IsEmpty(kind, Merge(kind, snapshot, sequence))

\* apply_one: nothing unless it validates and is newer than what is held.
AppliesOne(kind, snapshot, resource) ==
    /\ Valid(kind, resource)
    /\ Newer(resource, HeldAt(snapshot, resource.id))

WithOne(kind, snapshot, resource) ==
    [(IF snapshot = None THEN Empty(kind) ELSE snapshot) EXCEPT ![resource.id] = resource]

\* The snapshot an operation would install, None for none.
Outcome(kind, snapshot, operation) ==
    CASE operation.op = "all" ->
            IF Refused(kind, snapshot, operation.set) THEN None
            ELSE Merge(kind, snapshot, operation.set)
      [] operation.op = "one" ->
            IF AppliesOne(kind, snapshot, operation.resource)
            THEN WithOne(kind, snapshot, operation.resource) ELSE None
      [] operation.op = "drop" ->
            IF HeldAt(snapshot, operation.key) # None
            THEN [snapshot EXCEPT ![operation.key] = None] ELSE None

--------------------------------------------------------------------------------
(* Writers.                                                                *)

Move(w, next) == writer' = [writer EXCEPT ![w] = next]

Operation(kind, operation, starting) ==
    [pc |-> "lock", kind |-> kind, operation |-> operation, starting |-> starting]

Offered == offers < MaxOffers /\ offers' = offers + 1

\* The refresher's source answers with a set.
Load ==
    /\ writer["refresher"].pc = "load"
    /\ Offered
    /\ LET kind == writer["refresher"].kind IN
       \E set \in SetsOf(kind) :
           Move("refresher", Operation(kind, [op |-> "all", set |-> set],
                                       writer["refresher"].starting))
    /\ UNCHANGED <<registry, lock, known, request>>

\* What the refresher turns to once a kind is done: data sources, then
\* tenants, then the next interval.
AfterKind(kind, starting) ==
    IF kind = "data_sources" THEN [pc |-> "load", kind |-> "tenants", starting |-> starting]
    ELSE [pc |-> "sleep"]

\* The source fails or outlasts the interval: what is held stays, and a
\* prime that may not fail ends the process.
LoadFails ==
    /\ writer["refresher"].pc = "load"
    /\ Move("refresher", IF writer["refresher"].starting /\ FailFast THEN [pc |-> "down"]
                         ELSE AfterKind(writer["refresher"].kind, writer["refresher"].starting))
    /\ UNCHANGED <<registry, lock, known, request, offers>>

\* The interval passes, or refresh_now is called.
Wake ==
    /\ writer["refresher"].pc = "sleep"
    /\ Move("refresher", [pc |-> "load", kind |-> "data_sources", starting |-> FALSE])
    /\ UNCHANGED <<registry, lock, known, request, offers>>

\* RefreshHandle::shutdown is noticed between passes.
Shutdown ==
    /\ writer["refresher"].pc = "sleep"
    /\ Move("refresher", [pc |-> "down"])
    /\ UNCHANGED <<registry, lock, known, request, offers>>

\* apply_one or invalidate is called on the tenants registry.
Call ==
    /\ writer["caller"].pc = "idle"
    /\ Offered
    /\ \/ \E resource \in Singles :
             Move("caller", Operation("tenants", [op |-> "one", resource |-> resource], FALSE))
       \/ \E t \in Tenants :
             Move("caller", Operation("tenants", [op |-> "drop", key |-> t], FALSE))
    /\ UNCHANGED <<registry, lock, known, request>>

Available(kind) == lock[kind] = None

\* WriteLock::acquire, then the load of the current snapshot.
Acquire(w) ==
    /\ writer[w].pc = "lock"
    /\ Available(writer[w].kind)
    /\ lock' = [lock EXCEPT ![writer[w].kind] = w]
    /\ Move(w, [pc |-> "merge", kind |-> writer[w].kind, starting |-> writer[w].starting,
                operation |-> writer[w].operation, guard |-> registry[writer[w].kind]])
    /\ UNCHANGED <<registry, known, request, offers>>

Finished(w, failed) ==
    IF w = "caller" THEN [pc |-> "idle"]
    ELSE IF failed /\ writer[w].starting /\ FailFast THEN [pc |-> "down"]
    ELSE AfterKind(writer[w].kind, writer[w].starting)

\* Nothing to install: the lock is let go.
GiveUp(w) ==
    /\ writer[w].pc = "merge"
    /\ Outcome(writer[w].kind, writer[w].guard, writer[w].operation) = None
    /\ lock' = [lock EXCEPT ![writer[w].kind] = None]
    /\ Move(w, Finished(w, writer[w].operation.op = "all"))
    /\ UNCHANGED <<registry, known, request, offers>>

\* Seeded fault: the lock is let go with the swap.
SwapAndRelease(w, kind) == lock' = [lock EXCEPT ![kind] = None]

KeepLock(w, kind) == UNCHANGED lock

\* install: the pointer is swapped.
Swap(w) ==
    /\ writer[w].pc = "merge"
    /\ LET kind == writer[w].kind
           next == Outcome(kind, writer[w].guard, writer[w].operation)
       IN  /\ next # None
           /\ registry' = [registry EXCEPT ![kind] = next]
           /\ Move(w, [pc |-> "announce", kind |-> kind, starting |-> writer[w].starting,
                       operation |-> writer[w].operation, guard |-> writer[w].guard,
                       installed |-> next])
           /\ KeepLock(w, kind)
    /\ UNCHANGED <<known, request, offers>>

\* ResourceChange: the keys whose revision the swap moved.
Changes(kind, before, after) ==
    {k \in Keys[kind] : RevisionAt(HeldAt(before, k)) # RevisionAt(after[k])}

\* publish: the changes reach the subscriber, then the lock is let go.
Announce(w) ==
    /\ writer[w].pc = "announce"
    /\ LET kind == writer[w].kind
           after == writer[w].installed
           changes == Changes(kind, writer[w].guard, after)
       IN  /\ known' = [known EXCEPT ![kind] =
                  [k \in Keys[kind] |-> IF k \in changes THEN RevisionAt(after[k]) ELSE @[k]]]
           /\ lock' = [lock EXCEPT ![kind] = None]
    /\ Move(w, Finished(w, FALSE))
    /\ UNCHANGED <<registry, request, offers>>

WriterStep(w) == Acquire(w) \/ GiveUp(w) \/ Swap(w) \/ Announce(w)

--------------------------------------------------------------------------------
(* Requests.                                                               *)

\* pin, first half: the tenants snapshot.
PinTenants ==
    /\ request.pc \in {"none", "answered"}
    /\ request' = [pc |-> "pinned", tenants |-> registry["tenants"]]
    /\ UNCHANGED <<registry, lock, writer, known, offers>>

\* CoTenancy::derive: one tenant, or many, per data source.
Occupancy(tenants) ==
    [d \in DataSources |->
        {t \in Tenants : tenants[t] # None /\ \E l \in Logicals :
            tenants[t].data[l] # None /\ tenants[t].data[l].data_source = d}]

\* has_tenants_other_than: once there are many, every tenant has others.
OthersAt(tenants, d, t) ==
    /\ Occupancy(tenants)[d] # {}
    /\ Occupancy(tenants)[d] # {t}

\* DestinationReuse::derive: other data sources with the same connector and
\* destination.
Peers(sources, d) ==
    {other \in DataSources \ {d} :
        sources[other] # None /\ sources[d] # None /\ sources[other].destination = sources[d].destination}

\* destination_exclusivity::observe.
Shared(tenants, sources, t, d) ==
    \/ OthersAt(tenants, d, t)
    \/ \E peer \in Peers(sources, d) : OthersAt(tenants, peer, t)

\* check_isolation_is_enforceable.
Enforceable(isolation, source, shared) ==
    isolation \in {"database", "schema"} => source.placement # "shared" /\ ~shared

\* resolve_data_source: tenant, binding, data source, exclusivity, isolation.
Resolve(tenants, sources, t, l) ==
    IF tenants = None THEN [error |-> "RuntimeUnavailable"]
    ELSE IF tenants[t] = None THEN [error |-> "UnknownTenant"]
    ELSE LET binding == tenants[t].data[l] IN
         IF binding = None THEN [error |-> "UnboundDataSource"]
         ELSE IF sources = None THEN [error |-> "RuntimeUnavailable"]
         ELSE IF sources[binding.data_source] = None THEN [error |-> "MissingDataSource"]
         ELSE IF ~Enforceable(binding.isolation, sources[binding.data_source],
                              Shared(tenants, sources, t, binding.data_source))
         THEN [error |-> "IsolationNotEnforceable"]
         ELSE [error |-> None, target |-> sources[binding.data_source],
               isolation |-> binding.isolation]

\* pin, second half: the data sources snapshot, and the answers for every
\* tenant and name.
PinSources ==
    /\ request.pc = "pinned"
    /\ request' = [pc |-> "answered", tenants |-> request.tenants,
                   sources |-> registry["data_sources"],
                   answers |-> [t \in Tenants |-> [l \in Logicals |->
                        Resolve(request.tenants, registry["data_sources"], t, l)]]]
    /\ UNCHANGED <<registry, lock, writer, known, offers>>

RegistriesNext ==
    \/ Load \/ LoadFails \/ Wake \/ Shutdown \/ Call
    \/ \E w \in Writers : WriterStep(w)
    \/ PinTenants \/ PinSources

RegistriesSpec == RegistriesInit /\ [][RegistriesNext]_registryVars

--------------------------------------------------------------------------------
(* Properties.                                                             *)

Held(kind) == {None} \cup SnapshotsOf(kind)

\* Where a writer can be, and what it carries there.
WriterTyped(state) ==
    \/ state \in [pc : {"idle", "sleep", "down"}]
    \/ state \in [pc : {"load"}, kind : Kinds, starting : BOOLEAN]
    \/ \E kind \in Kinds :
         \/ state \in [pc : {"lock"}, kind : {kind}, starting : BOOLEAN,
                       operation : Operations(kind)]
         \/ state \in [pc : {"merge"}, kind : {kind}, starting : BOOLEAN,
                       operation : Operations(kind), guard : Held(kind)]
         \/ state \in [pc : {"announce"}, kind : {kind}, starting : BOOLEAN,
                       operation : Operations(kind), guard : Held(kind),
                       installed : SnapshotsOf(kind)]

\* The type invariant: a snapshot holds, under a key, nothing or what was offered for it.
RegistriesTypeOK ==
    /\ registry = [kind \in Kinds |-> registry[kind]]
    /\ \A kind \in Kinds : registry[kind] \in Held(kind)
    /\ lock \in [Kinds -> Writers \cup {None}]
    /\ writer = [w \in Writers |-> writer[w]]
    /\ \A w \in Writers : WriterTyped(writer[w])
    /\ known = [kind \in Kinds |-> known[kind]]
    /\ \A kind \in Kinds : known[kind] \in [Keys[kind] -> Nat \cup {None}]
    /\ request.pc \in {"none", "pinned", "answered"}
    /\ request.pc # "none" => request.tenants \in Held("tenants")
    /\ request.pc = "answered" => request.sources \in Held("data_sources")
    /\ offers \in 0 .. MaxOffers

\* A subscriber that applied every change it was told of believes what the
\* registry holds whenever no writer is at work: changes reach it in the
\* order the snapshots were installed (write_lock.rs).
SubscriberFollows ==
    \A kind \in Kinds :
        lock[kind] = None =>
            \A k \in Keys[kind] : known[kind][k] = RevisionAt(HeldAt(registry[kind], k))

\* A first entry that validates is served, though an invalid one for its key
\* came before it in the set (merge.rs).
ValidEntryServed ==
    \A w \in Writers :
        writer[w].pc = "announce" /\ writer[w].operation.op = "all" =>
            \A i \in 1 .. Len(writer[w].operation.set) :
                LET r == writer[w].operation.set[i] IN
                Valid(writer[w].kind, r) => writer[w].installed[r.id] # None

\* A tenant is sent to a database or schema of its own only if, in the pair
\* of snapshots it was answered from, no other tenant's binding reaches the
\* same connector and destination, under whatever data source id.
GrantedAlone ==
    request.pc = "answered" =>
        \A t \in Tenants, l \in Logicals :
            LET answer == request.answers[t][l] IN
            answer.error = None /\ answer.isolation \in {"database", "schema"} =>
                \A other \in Tenants \ {t}, m \in Logicals :
                    /\ request.tenants[other] # None
                    /\ request.tenants[other].data[m] # None
                    => LET d == request.tenants[other].data[m].data_source IN
                       request.sources[d] # None =>
                           request.sources[d].destination # answer.target.destination

\* What the registries and the requests resolved from them keep in every state.
RegistriesAgree ==
    RegistriesTypeOK /\ SubscriberFollows /\ ValidEntryServed /\ GrantedAlone

\* Revisions only move forward: whatever two writers interleave, a resource
\* is replaced only by a later revision of it, so a stale read cannot point a
\* tenant back at a database a migration has drained (apply_all.rs).
RevisionsMoveForward ==
    \A kind \in Kinds : \A k \in Keys[kind] :
       LET before == HeldAt(registry[kind], k)
           after == HeldAt(registry'[kind], k)
       IN  before # None /\ after # None /\ before # after =>
               after.revision > before.revision

\* A registry that never loaded is not primed by a set of which nothing
\* survives, neither at start nor at any later refresh: primed and empty means
\* an empty set was published, or something was dropped (apply_all.rs).
EmptyMeansPublishedEmpty ==
    \A kind \in Kinds :
       registry[kind] = None /\ registry'[kind] = Empty(kind) =>
           \E w \in Writers : /\ writer[w].pc = "merge"
                              /\ writer[w].kind = kind
                              /\ writer[w].operation.op = "all"
                              /\ writer[w].operation.set = << >>

================================================================================
