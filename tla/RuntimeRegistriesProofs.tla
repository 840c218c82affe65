----------------------- MODULE RuntimeRegistriesProofs -----------------------
(***************************************************************************)
(* What the runtime's registries and the requests resolved from them keep, *)
(* for any tenants, data sources and sets their sources may publish: a     *)
(* merge takes a resource back to nothing older, the lock held across the  *)
(* swap and the announcement keeps a subscriber in step, and isolation is  *)
(* granted only where the pair of snapshots shows no other tenant.         *)
(***************************************************************************)
EXTENDS RuntimeRegistries, TLAPS, WellFoundedInduction

-----------------------------------------------------------------------------
(* Merging                                                                 *)

\* Of the places an entry may have, one comes first.
LEMMA FirstExists ==
    ASSUME NEW S \in SUBSET Nat, S # {}
    PROVE  \E i \in S : \A j \in S : i <= j
<1>1. \E i \in S : \A j \in S : ~ (<<j, i>> \in OpToRel(<, Nat))
    BY NatLessThanWellFounded, WFMin
<1>2. PICK i \in S : \A j \in S : ~ (<<j, i>> \in OpToRel(<, Nat))
    BY <1>1
<1>3. \A j \in S : ~ (j < i)
    BY <1>2 DEF OpToRel
<1>. QED
    BY <1>3

\* What a merge leaves under a key is the copy held, or an entry of the set for that
\* key that is newer.
LEMMA AcceptedIsNewer ==
    ASSUME RegistryAssumption, NEW kind \in Kinds, NEW snapshot, NEW set \in SetsOf(kind),
           NEW key \in Keys[kind]
    PROVE  LET accepted == Accept(kind, snapshot, set, key)
               held == HeldAt(snapshot, key)
           IN  \/ accepted = None
               \/ accepted = held
               \/ /\ accepted \in Resources(kind) /\ accepted.id = key
                  /\ Newer(accepted, held)
<1>. DEFINE held == HeldAt(snapshot, key)
            comparable == Comparable(kind, set, key)
            first == CHOOSE i \in comparable : \A j \in comparable : i <= j
<1>1. CASE comparable = {}
    BY <1>1 DEF Accept
<1>2. CASE comparable # {}
    <2>0. set \in Seq(Resources(kind)) /\ comparable \in SUBSET (1 .. Len(set))
        BY DEF RegistryAssumption, Comparable, EntriesFor
    <2>1. comparable \in SUBSET Nat
        BY <2>0
    <2>2. first \in comparable
        BY <1>2, <2>1, FirstExists
    <2>3. set[first] \in Resources(kind) /\ set[first].id = key
        BY <2>0, <2>2 DEF Comparable, EntriesFor
    <2>4. Accept(kind, snapshot, set, key) = AgainstHeld(set[first], held)
        BY <1>2 DEF Accept
    <2>. QED
        BY <2>3, <2>4 DEF AgainstHeld
<1>. QED
    BY <1>1, <1>2

\* A key with an entry that validates is served after the merge.
LEMMA ValidIsAccepted ==
    ASSUME RegistryAssumption, NEW kind \in Kinds, NEW snapshot \in Held(kind),
           NEW set \in SetsOf(kind), NEW i \in 1 .. Len(set), Valid(kind, set[i])
    PROVE  /\ set[i].id \in Keys[kind]
           /\ Accept(kind, snapshot, set, set[i].id) # None
<1>. DEFINE key == set[i].id
            held == HeldAt(snapshot, key)
            comparable == Comparable(kind, set, key)
            first == CHOOSE j \in comparable : \A k \in comparable : j <= k
<1>1. set \in Seq(Resources(kind)) /\ comparable \in SUBSET (1 .. Len(set))
    BY DEF RegistryAssumption, Comparable, EntriesFor
<1>2. i \in comparable /\ comparable \in SUBSET Nat
    BY <1>1 DEF Comparable, EntriesFor
<1>3. first \in comparable
    BY <1>2, FirstExists
<1>4. set[first] \in Resources(kind) /\ set[i] \in Resources(kind)
    BY <1>1, <1>3
<1>5. set[first] # None /\ key \in Keys[kind]
    BY <1>4 DEF RegistryAssumption
<1>6. Accept(kind, snapshot, set, key) = AgainstHeld(set[first], held)
    BY <1>2 DEF Accept
<1>7. held = None => Newer(set[first], held)
    BY DEF Newer
<1>. QED
    BY <1>5, <1>6, <1>7 DEF AgainstHeld

\* A merge leaves a snapshot.
LEMMA MergeTyped ==
    ASSUME RegistryAssumption, NEW kind \in Kinds, NEW snapshot \in Held(kind),
           NEW set \in SetsOf(kind)
    PROVE  Merge(kind, snapshot, set) \in SnapshotsOf(kind)
<1>1. ASSUME NEW key \in Keys[kind]
      PROVE  LET accepted == Accept(kind, snapshot, set, key)
             IN  /\ accepted \in Resources(kind) \cup {None}
                 /\ accepted # None => accepted.id = key
    <2>1. LET held == HeldAt(snapshot, key)
          IN  held \in Resources(kind) \cup {None} /\ (held # None => held.id = key)
        BY DEF Held, SnapshotsOf, HeldAt
    <2>. QED
        BY <2>1, AcceptedIsNewer
<1>. QED
    BY <1>1 DEF Merge, SnapshotsOf

\* apply_one changes one key, to a newer resource for it.
LEMMA WithOneTyped ==
    ASSUME RegistryAssumption, NEW kind \in Kinds, NEW snapshot \in Held(kind),
           NEW resource \in SinglesOf(kind)
    PROVE  /\ WithOne(kind, snapshot, resource) \in SnapshotsOf(kind)
           /\ resource.id \in Keys[kind]
           /\ \A k \in Keys[kind] :
                WithOne(kind, snapshot, resource)[k] =
                    IF k = resource.id THEN resource ELSE HeldAt(snapshot, k)
<1>1. resource \in Resources(kind) /\ resource.id \in Keys[kind]
    BY DEF RegistryAssumption, Resources
<1>2. Empty(kind) \in SnapshotsOf(kind) /\ \A k \in Keys[kind] : Empty(kind)[k] = None
    BY DEF Empty, SnapshotsOf
<1>. DEFINE base == IF snapshot = None THEN Empty(kind) ELSE snapshot
<1>3. base \in SnapshotsOf(kind) /\ \A k \in Keys[kind] : base[k] = HeldAt(snapshot, k)
    BY <1>2 DEF Held, HeldAt
<1>4. WithOne(kind, snapshot, resource) = [base EXCEPT ![resource.id] = resource]
    BY DEF WithOne
<1>. HIDE DEF base
<1>5. base \in [Keys[kind] -> Resources(kind) \cup {None}]
    BY <1>3 DEF SnapshotsOf
<1>6. [base EXCEPT ![resource.id] = resource] \in [Keys[kind] -> Resources(kind) \cup {None}]
    BY <1>1, <1>5
<1>7. \A k \in Keys[kind] : [base EXCEPT ![resource.id] = resource][k] =
                              IF k = resource.id THEN resource ELSE base[k]
    BY <1>1, <1>5
<1>. QED
    BY <1>1, <1>3, <1>4, <1>6, <1>7 DEF SnapshotsOf

\* Whatever an operation installs is a snapshot, in which every key is as it was, is
\* gone, or is at a newer resource.
LEMMA OutcomeMovesForward ==
    ASSUME RegistryAssumption, NEW kind \in Kinds, NEW snapshot \in Held(kind),
           NEW operation \in Operations(kind), Outcome(kind, snapshot, operation) # None
    PROVE  /\ Outcome(kind, snapshot, operation) \in SnapshotsOf(kind)
           /\ \A k \in Keys[kind] :
                LET after == Outcome(kind, snapshot, operation)[k]
                    held == HeldAt(snapshot, k)
                IN  after # None => after = held \/ Newer(after, held)
<1>1. CASE operation.op = "all"
    <2>1. operation.set \in SetsOf(kind)
        BY <1>1 DEF Operations
    <2>2. Outcome(kind, snapshot, operation) = Merge(kind, snapshot, operation.set)
        BY <1>1 DEF Outcome
    <2>. QED
        BY <2>1, <2>2, MergeTyped, AcceptedIsNewer DEF Merge
<1>2. CASE operation.op = "one"
    <2>1. operation.resource \in SinglesOf(kind)
        BY <1>2 DEF Operations
    <2>2. /\ Outcome(kind, snapshot, operation) = WithOne(kind, snapshot, operation.resource)
          /\ Newer(operation.resource, HeldAt(snapshot, operation.resource.id))
        BY <1>2 DEF Outcome, AppliesOne
    <2>. QED
        BY <2>1, <2>2, WithOneTyped
<1>3. CASE operation.op = "drop"
    <2>1. /\ HeldAt(snapshot, operation.key) # None
          /\ Outcome(kind, snapshot, operation) = [snapshot EXCEPT ![operation.key] = None]
        BY <1>3 DEF Outcome
    <2>2. snapshot # None /\ snapshot \in SnapshotsOf(kind)
        BY <2>1 DEF HeldAt, Held
    <2>. QED
        BY <2>1, <2>2 DEF SnapshotsOf, HeldAt
<1>. QED
    BY <1>1, <1>2, <1>3 DEF Operations

-----------------------------------------------------------------------------
(* Resolving                                                               *)

\* Another tenant bound to a data source is seen by whoever asks about that source.
LEMMA OthersAreSeen ==
    ASSUME NEW tenants, NEW t \in Tenants, NEW other \in Tenants \ {t}, NEW m \in Logicals,
           tenants[other] # None, tenants[other].data[m] # None,
           tenants[other].data[m].data_source \in DataSources
    PROVE  OthersAt(tenants, tenants[other].data[m].data_source, t)
<1>. DEFINE d == tenants[other].data[m].data_source
<1>1. other \in Occupancy(tenants)[d]
    BY DEF Occupancy
<1>. QED
    BY <1>1 DEF OthersAt

\* A database or schema of its own is answered only where no other tenant reaches the
\* destination, under whatever id.
LEMMA ResolvedAlone ==
    ASSUME RegistryAssumption, NEW tenants \in Held("tenants"),
           NEW sources \in Held("data_sources"), NEW t \in Tenants, NEW l \in Logicals,
           NEW other \in Tenants \ {t}, NEW m \in Logicals,
           Resolve(tenants, sources, t, l).error = None,
           Resolve(tenants, sources, t, l).isolation \in {"database", "schema"},
           tenants[other] # None, tenants[other].data[m] # None,
           sources[tenants[other].data[m].data_source] # None
    PROVE  sources[tenants[other].data[m].data_source].destination #
               Resolve(tenants, sources, t, l).target.destination
<1>. DEFINE answer == Resolve(tenants, sources, t, l)
            mine == tenants[t].data[l].data_source
            theirs == tenants[other].data[m].data_source
<1>0. \A error \in Errors : [error |-> error].error # None
    BY DEF RegistryAssumption
<1>1. /\ tenants # None /\ tenants[t] # None /\ tenants[t].data[l] # None
      /\ sources # None /\ sources[mine] # None
      /\ Enforceable(tenants[t].data[l].isolation, sources[mine],
                     Shared(tenants, sources, t, mine))
      /\ answer = [error |-> None, target |-> sources[mine],
                   isolation |-> tenants[t].data[l].isolation]
    BY <1>0 DEF Resolve, Errors
<1>2. answer.target = sources[mine] /\ answer.isolation = tenants[t].data[l].isolation
    BY <1>1
<1>3. ~ Shared(tenants, sources, t, mine)
    BY <1>1, <1>2 DEF Enforceable
<1>4. mine \in DataSources /\ theirs \in DataSources
    <2>1. tenants \in SnapshotsOf("tenants") /\ "tenants" \in Kinds /\ Keys["tenants"] = Tenants
        BY <1>1 DEF Held, Kinds, Keys
    <2>2. tenants[t] \in Resources("tenants") /\ tenants[other] \in Resources("tenants")
        BY <1>1, <2>1 DEF SnapshotsOf
    <2>. QED
        BY <1>1, <2>2 DEF RegistryAssumption
<1>5. OthersAt(tenants, theirs, t)
    BY <1>4, OthersAreSeen
<1>6. theirs # mine /\ theirs \notin Peers(sources, mine)
    BY <1>3, <1>5 DEF Shared
<1>. QED
    BY <1>1, <1>2, <1>4, <1>6 DEF Peers

-----------------------------------------------------------------------------
(* The invariant                                                           *)

\* A subscriber believes what a snapshot holds.
Believes(kind, snapshot) ==
    \A k \in Keys[kind] : known[kind][k] = RevisionAt(HeldAt(snapshot, k))

\* Whoever merges or announces holds the lock of its kind, and until it lets go the
\* registry is what it found there, or what it installed over that.
Locked(w) ==
    LET state == writer[w] IN
    /\ state.pc \in {"merge", "announce"} => lock[state.kind] = w
    /\ state.pc = "merge" => /\ registry[state.kind] = state.guard
                             /\ Believes(state.kind, state.guard)
    /\ state.pc = "announce" =>
          /\ registry[state.kind] = state.installed
          /\ Believes(state.kind, state.guard)
          /\ state.installed = Outcome(state.kind, state.guard, state.operation)

\* A request that was answered was answered from the pair it pinned.
Answered ==
    request.pc = "answered" =>
        \A t \in Tenants, l \in Logicals :
            request.answers[t][l] = Resolve(request.tenants, request.sources, t, l)

RegistriesInv ==
    /\ RegistriesTypeOK
    /\ SubscriberFollows
    /\ \A w \in Writers : Locked(w)
    /\ Answered

\* What the invariant says is what the runs check.
LEMMA InvariantSuffices ==
    ASSUME RegistryAssumption, RegistriesInv
    PROVE  RegistriesAgree
<1>1. ValidEntryServed
    <2>1. SUFFICES ASSUME NEW w \in Writers, writer[w].pc = "announce",
                          writer[w].operation.op = "all",
                          NEW i \in 1 .. Len(writer[w].operation.set),
                          Valid(writer[w].kind, writer[w].operation.set[i])
                   PROVE  writer[w].installed[writer[w].operation.set[i].id] # None
        BY DEF ValidEntryServed
    <2>. DEFINE state == writer[w]
    <2>2. /\ state.kind \in Kinds /\ state.guard \in Held(state.kind)
          /\ state.operation \in Operations(state.kind)
        BY <2>1 DEF RegistriesInv, RegistriesTypeOK, WriterTyped
    <2>3. state.operation.set \in SetsOf(state.kind)
        BY <2>1, <2>2 DEF Operations
    <2>4. state.installed = Outcome(state.kind, state.guard, state.operation)
        BY <2>1 DEF RegistriesInv, Locked
    <2>5. state.installed # None
        <3>1. state.installed \in SnapshotsOf(state.kind)
            BY <2>1, <2>2 DEF RegistriesInv, RegistriesTypeOK, WriterTyped
        <3>. QED
            BY <2>2, <3>1 DEF RegistryAssumption
    <2>6. state.installed = Merge(state.kind, state.guard, state.operation.set)
        BY <2>1, <2>4, <2>5 DEF Outcome
    <2>. QED
        BY <2>1, <2>2, <2>3, <2>6, ValidIsAccepted DEF Merge
<1>2. GrantedAlone
    <2>1. SUFFICES ASSUME request.pc = "answered", NEW t \in Tenants, NEW l \in Logicals,
                          request.answers[t][l].error = None,
                          request.answers[t][l].isolation \in {"database", "schema"}
                   PROVE  \A other \in Tenants \ {t}, m \in Logicals :
                              /\ request.tenants[other] # None
                              /\ request.tenants[other].data[m] # None
                              => LET d == request.tenants[other].data[m].data_source IN
                                 request.sources[d] # None =>
                                     request.sources[d].destination #
                                         request.answers[t][l].target.destination
        BY DEF GrantedAlone
    <2>2. /\ request.tenants \in Held("tenants") /\ request.sources \in Held("data_sources")
          /\ request.answers[t][l] = Resolve(request.tenants, request.sources, t, l)
        BY <2>1 DEF RegistriesInv, RegistriesTypeOK, Answered
    <2>3. SUFFICES ASSUME NEW other \in Tenants \ {t}, NEW m \in Logicals,
                          request.tenants[other] # None,
                          request.tenants[other].data[m] # None,
                          request.sources[request.tenants[other].data[m].data_source] # None
                   PROVE  request.sources[request.tenants[other].data[m].data_source].destination
                              # request.answers[t][l].target.destination
        OBVIOUS
    <2>. QED
        BY <2>1, <2>2, <2>3, ResolvedAlone
<1>. QED
    BY <1>1, <1>2 DEF RegistriesInv, RegistriesAgree

\* Nothing is loaded, believed or pinned at first.
LEMMA RegistriesStart ==
    ASSUME RegistryAssumption, RegistriesInit
    PROVE  RegistriesInv
<1>. USE DEF RegistriesInit
<1>1. writer["refresher"].pc = "load" /\ writer["caller"].pc = "idle"
    BY DEF Writers
<1>2. RegistriesTypeOK
    <2>1. \A w \in Writers : WriterTyped(writer[w])
        BY DEF Writers, WriterTyped, Kinds
    <2>2. \A kind \in Kinds : known[kind] \in [Keys[kind] -> Nat \cup {None}]
        BY DEF Empty
    <2>3. \A kind \in Kinds : registry[kind] \in Held(kind)
        BY DEF Held
    <2>. QED
        BY <2>1, <2>2, <2>3 DEF RegistriesTypeOK, RegistryAssumption
<1>3. SubscriberFollows
    BY DEF SubscriberFollows, Empty, HeldAt, RevisionAt
<1>4. \A w \in Writers : Locked(w)
    BY <1>1 DEF Locked, Writers
<1>. QED
    BY <1>2, <1>3, <1>4 DEF RegistriesInv, Answered

\* A writer that turns to something outside the lock disturbs nothing.
LEMMA MovesAside ==
    ASSUME RegistryAssumption, RegistriesInv, NEW w \in Writers, NEW next, WriterTyped(next),
           next.pc \notin {"merge", "announce"}, Move(w, next),
           UNCHANGED <<registry, lock, known, request>>, offers' \in 0 .. MaxOffers
    PROVE  RegistriesInv'
<1>1. /\ writer' = [x \in Writers |-> writer'[x]]
      /\ \A x \in Writers : writer'[x] = IF x = w THEN next ELSE writer[x]
    BY DEF RegistriesInv, RegistriesTypeOK, Move
<1>2. RegistriesTypeOK'
    BY <1>1 DEF RegistriesInv, RegistriesTypeOK, WriterTyped
<1>3. \A x \in Writers : Locked(x)'
    BY <1>1 DEF RegistriesInv, Locked, Believes
<1>. QED
    BY <1>2, <1>3 DEF RegistriesInv, SubscriberFollows, Answered

\* What the refresher turns to is a place it can be in, outside any lock.
LEMMA AfterKindTyped ==
    ASSUME NEW kind, NEW starting \in BOOLEAN
    PROVE  WriterTyped(AfterKind(kind, starting)) /\ AfterKind(kind, starting).pc \in {"load", "sleep"}
    BY DEF AfterKind, WriterTyped, Kinds

\* A writer that finished goes back to where it waits or begins the next kind.
LEMMA FinishedTyped ==
    ASSUME NEW w \in Writers, NEW failed, writer[w].starting \in BOOLEAN
    PROVE  WriterTyped(Finished(w, failed)) /\ Finished(w, failed).pc \in {"idle", "down", "load", "sleep"}
    BY AfterKindTyped DEF Finished, WriterTyped

\* The invariant through a load of what a source publishes,
LEMMA LoadStep ==
    ASSUME RegistryAssumption, RegistriesInv, Load
    PROVE  RegistriesInv'
<1>. DEFINE state == writer["refresher"]
<1>1. state.kind \in Kinds /\ state.starting \in BOOLEAN /\ "refresher" \in Writers
    BY DEF Load, RegistriesInv, RegistriesTypeOK, WriterTyped, Writers
<1>2. PICK set \in SetsOf(state.kind) :
          Move("refresher", Operation(state.kind, [op |-> "all", set |-> set], state.starting))
    BY DEF Load
<1>3. WriterTyped(Operation(state.kind, [op |-> "all", set |-> set], state.starting))
    BY <1>1, <1>2 DEF Operation, Operations, WriterTyped
<1>4. offers' \in 0 .. MaxOffers
    BY DEF Load, Offered, RegistriesInv, RegistriesTypeOK, RegistryAssumption
<1>. QED
    BY <1>1, <1>2, <1>3, <1>4, MovesAside DEF Load, Operation

\* the refresher's other steps between two applications,
LEMMA RefresherSteps ==
    ASSUME RegistryAssumption, RegistriesInv, LoadFails \/ Wake \/ Shutdown
    PROVE  RegistriesInv'
<1>. DEFINE state == writer["refresher"]
<1>1. "refresher" \in Writers /\ offers' \in 0 .. MaxOffers
    BY DEF Writers, RegistriesInv, RegistriesTypeOK, LoadFails, Wake, Shutdown
<1>2. CASE LoadFails
    <2>1. state.kind \in Kinds /\ state.starting \in BOOLEAN
        BY <1>1, <1>2 DEF LoadFails, RegistriesInv, RegistriesTypeOK, WriterTyped
    <2>2. WriterTyped([pc |-> "down"])
        BY DEF WriterTyped
    <2>. QED
        BY <1>1, <1>2, <2>1, <2>2, AfterKindTyped, MovesAside DEF LoadFails
<1>3. CASE Wake \/ Shutdown
    <2>1. /\ WriterTyped([pc |-> "down"])
          /\ WriterTyped([pc |-> "load", kind |-> "data_sources", starting |-> FALSE])
        BY DEF WriterTyped, Kinds
    <2>. QED
        BY <1>1, <1>3, <2>1, MovesAside DEF Wake, Shutdown
<1>. QED
    BY <1>2, <1>3

\* and a call of apply_one or invalidate.
LEMMA CallStep ==
    ASSUME RegistryAssumption, RegistriesInv, Call
    PROVE  RegistriesInv'
<1>1. "caller" \in Writers /\ offers' \in 0 .. MaxOffers
    BY DEF Call, Offered, Writers, RegistriesInv, RegistriesTypeOK, RegistryAssumption
<1>2. PICK operation \in Operations("tenants") :
          Move("caller", Operation("tenants", operation, FALSE))
    BY DEF Call, Operations, SinglesOf
<1>3. WriterTyped(Operation("tenants", operation, FALSE))
    BY <1>2 DEF Operation, WriterTyped, Kinds
<1>. QED
    BY <1>1, <1>2, <1>3, MovesAside DEF Call, Operation

\* The lock is free, so the subscriber is in step with the snapshot that is loaded.
LEMMA AcquireStep ==
    ASSUME RegistryAssumption, RegistriesInv, NEW w \in Writers, Acquire(w)
    PROVE  RegistriesInv'
<1>. DEFINE state == writer[w]
            kind == state.kind
            next == [pc |-> "merge", kind |-> kind, starting |-> state.starting,
                     operation |-> state.operation, guard |-> registry[kind]]
<1>1. /\ kind \in Kinds /\ state.starting \in BOOLEAN /\ state.operation \in Operations(kind)
      /\ registry[kind] \in Held(kind)
    BY DEF Acquire, RegistriesInv, RegistriesTypeOK, WriterTyped
<1>2. WriterTyped(next)
    BY <1>1 DEF WriterTyped
<1>3. /\ writer' = [x \in Writers |-> writer'[x]]
      /\ \A x \in Writers : writer'[x] = IF x = w THEN next ELSE writer[x]
    BY DEF Acquire, Move, RegistriesInv, RegistriesTypeOK
<1>4. /\ lock' \in [Kinds -> Writers \cup {None}]
      /\ \A k \in Kinds : lock'[k] = IF k = kind THEN w ELSE lock[k]
    BY DEF Acquire, RegistriesInv, RegistriesTypeOK
<1>5. UNCHANGED <<registry, known, request, offers>> /\ lock[kind] = None /\ w # None
    BY DEF Acquire, Available, RegistryAssumption
<1>. HIDE DEF next
<1>6. RegistriesTypeOK'
    BY <1>2, <1>3, <1>4, <1>5 DEF RegistriesInv, RegistriesTypeOK, WriterTyped
<1>7. SubscriberFollows'
    BY <1>4, <1>5 DEF RegistriesInv, SubscriberFollows
<1>8. ASSUME NEW x \in Writers
      PROVE  Locked(x)'
    <2>1. CASE x = w
        <3>1. Believes(kind, registry[kind])
            BY <1>1, <1>5 DEF RegistriesInv, SubscriberFollows, Believes
        <3>. QED
            BY <1>1, <1>3, <1>4, <1>5, <2>1, <3>1 DEF Locked, Believes, next
    <2>2. CASE x # w
        <3>1. writer[x].pc \in {"merge", "announce"} =>
                  /\ writer[x].kind \in Kinds
                  /\ lock[writer[x].kind] = x /\ x # None
            BY DEF RegistriesInv, RegistriesTypeOK, WriterTyped, Locked, RegistryAssumption
        <3>. QED
            BY <1>3, <1>4, <1>5, <2>2, <3>1 DEF RegistriesInv, Locked, Believes
    <2>. QED
        BY <2>1, <2>2
<1>. QED
    BY <1>5, <1>6, <1>7, <1>8 DEF RegistriesInv, Answered

\* Only the holder of a kind's lock is past Acquire for it.
LEMMA OneHolder ==
    ASSUME RegistriesInv, NEW w \in Writers, NEW x \in Writers,
           writer[w].pc \in {"merge", "announce"}, writer[x].pc \in {"merge", "announce"},
           writer[x].kind = writer[w].kind
    PROVE  x = w
    BY DEF RegistriesInv, Locked

\* A writer lets the lock go once the subscriber is in step with the registry.
LEMMA Released ==
    ASSUME RegistryAssumption, RegistriesInv, NEW w \in Writers, NEW kind \in Kinds,
           NEW next, WriterTyped(next), next.pc \notin {"merge", "announce"}, Move(w, next),
           writer[w].pc \in {"merge", "announce"}, writer[w].kind = kind,
           lock' = [lock EXCEPT ![kind] = None],
           UNCHANGED <<registry, request, offers>>,
           known' = [k \in Kinds |-> known'[k]],
           \A k \in Kinds \ {kind} : known'[k] = known[k],
           known'[kind] \in [Keys[kind] -> Nat \cup {None}],
           \A k \in Keys[kind] : known'[kind][k] = RevisionAt(HeldAt(registry[kind], k))
    PROVE  RegistriesInv'
<1>1. /\ writer' = [x \in Writers |-> writer'[x]]
      /\ \A x \in Writers : writer'[x] = IF x = w THEN next ELSE writer[x]
    BY DEF RegistriesInv, RegistriesTypeOK, Move
<1>2. /\ lock' \in [Kinds -> Writers \cup {None}]
      /\ \A k \in Kinds : lock'[k] = IF k = kind THEN None ELSE lock[k]
    BY DEF RegistriesInv, RegistriesTypeOK
<1>3. RegistriesTypeOK'
    <2>1. /\ registry' = [k \in Kinds |-> registry'[k]]
          /\ \A k \in Kinds : registry'[k] \in Held(k)
        BY DEF RegistriesInv, RegistriesTypeOK
    <2>2. \A x \in Writers : WriterTyped(writer[x])
        BY DEF RegistriesInv, RegistriesTypeOK
    <2>3. \A x \in Writers : WriterTyped(writer'[x])
        BY <1>1, <2>2
    <2>4. \A k \in Kinds : known'[k] \in [Keys[k] -> Nat \cup {None}]
        <3>1. \A k \in Kinds : known[k] \in [Keys[k] -> Nat \cup {None}]
            BY DEF RegistriesInv, RegistriesTypeOK
        <3>. QED
            BY <3>1
    <2>5. /\ request'.pc \in {"none", "pinned", "answered"}
          /\ request'.pc # "none" => request'.tenants \in Held("tenants")
          /\ request'.pc = "answered" => request'.sources \in Held("data_sources")
          /\ offers' \in 0 .. MaxOffers
        BY DEF RegistriesInv, RegistriesTypeOK
    <2>6. \A x \in Writers : WriterTyped(writer[x])'
        BY <2>3 DEF WriterTyped
    <2>. QED
        BY <1>1, <1>2, <2>1, <2>4, <2>5, <2>6 DEF RegistriesTypeOK
<1>4. SubscriberFollows'
    BY <1>2 DEF RegistriesInv, SubscriberFollows
<1>5. ASSUME NEW x \in Writers
      PROVE  Locked(x)'
    <2>1. CASE x = w
        BY <1>1, <2>1 DEF Locked
    <2>2. CASE x # w
        <3>1. writer[x].pc \in {"merge", "announce"} =>
                  writer[x].kind \in Kinds /\ writer[x].kind # kind
            BY <2>2, OneHolder DEF RegistriesInv, RegistriesTypeOK, WriterTyped
        <3>. QED
            BY <1>1, <1>2, <2>2, <3>1 DEF RegistriesInv, Locked, Believes
    <2>. QED
        BY <2>1, <2>2
<1>. QED
    BY <1>3, <1>4, <1>5 DEF RegistriesInv, Answered

\* A writer with nothing to install lets the lock go and leaves both sides as they are.
LEMMA GiveUpStep ==
    ASSUME RegistryAssumption, RegistriesInv, NEW w \in Writers, GiveUp(w)
    PROVE  RegistriesInv'
<1>. DEFINE kind == writer[w].kind
            next == Finished(w, writer[w].operation.op = "all")
<1>1. kind \in Kinds /\ writer[w].starting \in BOOLEAN
    BY DEF GiveUp, RegistriesInv, RegistriesTypeOK, WriterTyped
<1>2. WriterTyped(next) /\ next.pc \notin {"merge", "announce"}
    BY <1>1, FinishedTyped
<1>3. /\ registry[kind] = writer[w].guard /\ Believes(kind, writer[w].guard)
      /\ known[kind] \in [Keys[kind] -> Nat \cup {None}]
      /\ known = [k \in Kinds |-> known[k]]
    BY <1>1 DEF GiveUp, RegistriesInv, RegistriesTypeOK, Locked
<1>4. \A k \in Keys[kind] : known[kind][k] = RevisionAt(HeldAt(registry[kind], k))
    BY <1>3 DEF Believes
<1>. QED
    BY <1>1, <1>2, <1>3, <1>4, Released DEF GiveUp

\* The swap: the registry is what was installed, and the lock is kept.
LEMMA SwapStep ==
    ASSUME RegistryAssumption, RegistriesInv, NEW w \in Writers, Swap(w)
    PROVE  RegistriesInv'
<1>. DEFINE state == writer[w]
            kind == state.kind
            installed == Outcome(kind, state.guard, state.operation)
            next == [pc |-> "announce", kind |-> kind, starting |-> state.starting,
                     operation |-> state.operation, guard |-> state.guard,
                     installed |-> installed]
<1>1. /\ kind \in Kinds /\ state.starting \in BOOLEAN /\ state.operation \in Operations(kind)
      /\ state.guard \in Held(kind) /\ state.pc = "merge"
    BY DEF Swap, RegistriesInv, RegistriesTypeOK, WriterTyped
<1>2. installed # None /\ registry' = [registry EXCEPT ![kind] = installed]
    BY DEF Swap
<1>3. installed \in SnapshotsOf(kind)
    BY <1>1, <1>2, OutcomeMovesForward
<1>4. WriterTyped(next)
    BY <1>1, <1>3 DEF WriterTyped
<1>5. /\ writer' = [x \in Writers |-> writer'[x]]
      /\ \A x \in Writers : writer'[x] = IF x = w THEN next ELSE writer[x]
    BY DEF Swap, Move, RegistriesInv, RegistriesTypeOK
<1>6. /\ registry' = [k \in Kinds |-> registry'[k]]
      /\ \A k \in Kinds : registry'[k] = IF k = kind THEN installed ELSE registry[k]
    BY <1>2 DEF RegistriesInv, RegistriesTypeOK
<1>7. UNCHANGED <<lock, known, request, offers>>
    BY DEF Swap, KeepLock
<1>8. lock[kind] = w /\ w # None /\ Believes(kind, state.guard)
    BY <1>1 DEF RegistriesInv, Locked, RegistryAssumption
<1>. HIDE DEF next, installed
<1>9. RegistriesTypeOK'
    <2>1. \A k \in Kinds : registry'[k] \in Held(k)
        BY <1>3, <1>6 DEF RegistriesInv, RegistriesTypeOK, Held
    <2>. QED
        BY <1>4, <1>5, <1>6, <1>7, <2>1 DEF RegistriesInv, RegistriesTypeOK, WriterTyped
<1>10. SubscriberFollows'
    BY <1>6, <1>7, <1>8 DEF RegistriesInv, SubscriberFollows
<1>11. ASSUME NEW x \in Writers
       PROVE  Locked(x)'
    <2>1. CASE x = w
        BY <1>1, <1>5, <1>6, <1>7, <1>8, <2>1 DEF Locked, Believes, next, installed
    <2>2. CASE x # w
        <3>1. writer[x].pc \in {"merge", "announce"} =>
                  writer[x].kind \in Kinds /\ writer[x].kind # kind
            BY <1>1, <2>2, OneHolder DEF RegistriesInv, RegistriesTypeOK, WriterTyped
        <3>. QED
            BY <1>5, <1>6, <1>7, <2>2, <3>1 DEF RegistriesInv, Locked, Believes
    <2>. QED
        BY <2>1, <2>2
<1>. QED
    BY <1>7, <1>9, <1>10, <1>11 DEF RegistriesInv, Answered

\* The announcement: what the swap changed reaches the subscriber, and no more.
LEMMA AnnounceStep ==
    ASSUME RegistryAssumption, RegistriesInv, NEW w \in Writers, Announce(w)
    PROVE  RegistriesInv'
<1>. DEFINE state == writer[w]
            kind == state.kind
            after == state.installed
            next == Finished(w, FALSE)
<1>1. /\ kind \in Kinds /\ state.starting \in BOOLEAN /\ after \in SnapshotsOf(kind)
      /\ state.pc = "announce"
    BY DEF Announce, RegistriesInv, RegistriesTypeOK, WriterTyped
<1>2. WriterTyped(next) /\ next.pc \notin {"merge", "announce"}
    BY <1>1, FinishedTyped
<1>3. /\ registry[kind] = after /\ Believes(kind, state.guard)
      /\ known[kind] \in [Keys[kind] -> Nat \cup {None}]
      /\ known = [k \in Kinds |-> known[k]]
    BY <1>1 DEF RegistriesInv, RegistriesTypeOK, Locked
<1>4. after # None /\ \A k \in Keys[kind] : HeldAt(after, k) = after[k]
    BY <1>1 DEF RegistryAssumption, HeldAt
<1>5. \A k \in Keys[kind] : RevisionAt(after[k]) \in Nat \cup {None}
    BY <1>1 DEF SnapshotsOf, RevisionAt, RegistryAssumption
<1>6. /\ known' = [k \in Kinds |-> known'[k]]
      /\ \A k \in Kinds \ {kind} : known'[k] = known[k]
      /\ known'[kind] = [k \in Keys[kind] |-> IF k \in Changes(kind, state.guard, after)
                                                THEN RevisionAt(after[k]) ELSE known[kind][k]]
    BY <1>1, <1>3 DEF Announce
<1>7. \A k \in Keys[kind] : known'[kind][k] = RevisionAt(after[k])
    BY <1>3, <1>6 DEF Changes, Believes
<1>8. known'[kind] \in [Keys[kind] -> Nat \cup {None}]
    BY <1>5, <1>6, <1>7
<1>9. \A k \in Keys[kind] : known'[kind][k] = RevisionAt(HeldAt(registry[kind], k))
    BY <1>3, <1>4, <1>7
<1>. QED
    BY <1>1, <1>2, <1>6, <1>8, <1>9, Released DEF Announce

\* A request pins what the registries hold and is answered from that pair.
LEMMA PinSteps ==
    ASSUME RegistryAssumption, RegistriesInv, PinTenants \/ PinSources
    PROVE  RegistriesInv'
<1>1. UNCHANGED <<registry, lock, writer, known, offers>>
    BY DEF PinTenants, PinSources
<1>2. /\ registry["tenants"] \in Held("tenants")
      /\ registry["data_sources"] \in Held("data_sources")
    BY DEF RegistriesInv, RegistriesTypeOK, Kinds
<1>3. /\ request'.pc \in {"none", "pinned", "answered"}
      /\ request'.pc # "none" => request'.tenants \in Held("tenants")
      /\ request'.pc = "answered" => request'.sources \in Held("data_sources")
    BY <1>2 DEF RegistriesInv, RegistriesTypeOK, PinTenants, PinSources
<1>4. Answered'
    BY DEF PinTenants, PinSources, Answered
<1>5. RegistriesTypeOK'
    BY <1>1, <1>3 DEF RegistriesInv, RegistriesTypeOK
<1>6. SubscriberFollows' /\ \A w \in Writers : Locked(w)'
    BY <1>1 DEF RegistriesInv, SubscriberFollows, Locked, Believes
<1>. QED
    BY <1>4, <1>5, <1>6 DEF RegistriesInv

\* So the invariant is kept by every step.
LEMMA RegistriesStep ==
    ASSUME RegistryAssumption, RegistriesInv, [RegistriesNext]_registryVars
    PROVE  RegistriesInv'
<1>1. CASE Load \/ LoadFails \/ Wake \/ Shutdown \/ Call
    BY <1>1, LoadStep, RefresherSteps, CallStep
<1>2. CASE \E w \in Writers : WriterStep(w)
    BY <1>2, AcquireStep, GiveUpStep, SwapStep, AnnounceStep DEF WriterStep
<1>3. CASE PinTenants \/ PinSources
    BY <1>3, PinSteps
<1>4. CASE UNCHANGED registryVars
    BY <1>4 DEF registryVars, RegistriesInv, RegistriesTypeOK, SubscriberFollows, Locked,
                Believes, Answered
<1>. QED
    BY <1>1, <1>2, <1>3, <1>4 DEF RegistriesNext

-----------------------------------------------------------------------------
(* The theorems                                                            *)

\* Only the swap changes a registry, and it installs what the operation makes of the
\* snapshot that is there.
LEMMA OnlySwapChanges ==
    ASSUME RegistryAssumption, RegistriesInv, [RegistriesNext]_registryVars,
           NEW kind \in Kinds, registry'[kind] # registry[kind]
    PROVE  \E w \in Writers :
              /\ writer[w].pc = "merge" /\ writer[w].kind = kind
              /\ writer[w].operation \in Operations(kind)
              /\ registry'[kind] = Outcome(kind, registry[kind], writer[w].operation)
              /\ registry'[kind] # None
<1>1. PICK w \in Writers : Swap(w)
    BY DEF RegistriesNext, registryVars, Load, LoadFails, Wake, Shutdown, Call, WriterStep,
           Acquire, GiveUp, Announce, PinTenants, PinSources
<1>. DEFINE state == writer[w]
            installed == Outcome(state.kind, state.guard, state.operation)
<1>2. /\ state.pc = "merge" /\ installed # None
      /\ registry' = [registry EXCEPT ![state.kind] = installed]
    BY <1>1 DEF Swap
<1>3. /\ state.kind \in Kinds /\ state.operation \in Operations(state.kind)
      /\ registry[state.kind] = state.guard
    BY <1>1, <1>2 DEF RegistriesInv, RegistriesTypeOK, WriterTyped, Locked
<1>4. registry'[kind] = IF kind = state.kind THEN installed ELSE registry[kind]
    BY <1>2 DEF RegistriesInv, RegistriesTypeOK
<1>. QED
    BY <1>2, <1>3, <1>4

\* The registries and what is resolved from them agree: a subscriber is in step whenever
\* no writer is at work, every key with a valid entry is served by the merge that saw it,
\* and no request is granted a database or schema that another tenant of its snapshots
\* reaches (write_lock.rs, merge.rs, destination_exclusivity.rs).
THEOREM RegistriesStayInStep == RegistriesSpec => []RegistriesAgree
<1>1. RegistriesInit => RegistriesInv
    BY RegistriesStart, RegistryAssumptions
<1>2. RegistriesInv /\ [RegistriesNext]_registryVars => RegistriesInv'
    BY RegistriesStep, RegistryAssumptions
<1>3. RegistriesInv => RegistriesAgree
    BY InvariantSuffices, RegistryAssumptions
<1>. QED
    BY <1>1, <1>2, <1>3, PTL DEF RegistriesSpec

\* Whatever writers interleave and whatever their sources publish, a resource is only
\* replaced by a newer revision of it (apply_all.rs).
THEOREM RegistriesMoveForward == RegistriesSpec => [][RevisionsMoveForward]_registryVars
<1>1. RegistriesInit => RegistriesInv
    BY RegistriesStart, RegistryAssumptions
<1>2. RegistriesInv /\ [RegistriesNext]_registryVars => RegistriesInv'
    BY RegistriesStep, RegistryAssumptions
<1>3. RegistriesInv /\ [RegistriesNext]_registryVars => RevisionsMoveForward
    <2>1. SUFFICES ASSUME RegistriesInv, [RegistriesNext]_registryVars, NEW kind \in Kinds,
                          NEW k \in Keys[kind], HeldAt(registry[kind], k) # None,
                          HeldAt(registry'[kind], k) # None,
                          HeldAt(registry[kind], k) # HeldAt(registry'[kind], k)
                   PROVE  HeldAt(registry'[kind], k).revision > HeldAt(registry[kind], k).revision
        BY DEF RevisionsMoveForward
    <2>2. PICK w \in Writers :
              /\ writer[w].operation \in Operations(kind)
              /\ registry'[kind] = Outcome(kind, registry[kind], writer[w].operation)
              /\ registry'[kind] # None
        BY <2>1, OnlySwapChanges, RegistryAssumptions
    <2>3. registry[kind] \in Held(kind)
        BY <2>1 DEF RegistriesInv, RegistriesTypeOK
    <2>4. Newer(registry'[kind][k], HeldAt(registry[kind], k))
        BY <2>1, <2>2, <2>3, OutcomeMovesForward, RegistryAssumptions DEF HeldAt
    <2>. QED
        BY <2>1, <2>2, <2>4 DEF Newer, HeldAt
<1>. QED
    BY <1>1, <1>2, <1>3, PTL DEF RegistriesSpec

\* A registry that never loaded becomes primed and empty only by a set that was published
\* empty (apply_all.rs, refusal).
THEOREM EmptyOnlyAsPublished == RegistriesSpec => [][EmptyMeansPublishedEmpty]_registryVars
<1>1. RegistriesInit => RegistriesInv
    BY RegistriesStart, RegistryAssumptions
<1>2. RegistriesInv /\ [RegistriesNext]_registryVars => RegistriesInv'
    BY RegistriesStep, RegistryAssumptions
<1>3. RegistriesInv /\ [RegistriesNext]_registryVars => EmptyMeansPublishedEmpty
    <2>1. SUFFICES ASSUME RegistriesInv, [RegistriesNext]_registryVars, NEW kind \in Kinds,
                          registry[kind] = None, registry'[kind] = Empty(kind)
                   PROVE  \E w \in Writers : /\ writer[w].pc = "merge"
                                             /\ writer[w].kind = kind
                                             /\ writer[w].operation.op = "all"
                                             /\ writer[w].operation.set = << >>
        BY DEF EmptyMeansPublishedEmpty
    <2>2. Empty(kind) # None
        BY RegistryAssumptions DEF RegistryAssumption, Empty, SnapshotsOf
    <2>3. PICK w \in Writers :
              /\ writer[w].pc = "merge" /\ writer[w].kind = kind
              /\ writer[w].operation \in Operations(kind)
              /\ Empty(kind) = Outcome(kind, None, writer[w].operation)
        BY <2>1, <2>2, OnlySwapChanges, RegistryAssumptions
    <2>. DEFINE operation == writer[w].operation
    <2>4. CASE operation.op = "all"
        <3>1. operation.set \in Seq(Resources(kind))
            BY <2>3, <2>4, RegistryAssumptions DEF Operations, RegistryAssumption
        <3>2. ~ Refused(kind, None, operation.set)
            BY <2>2, <2>3, <2>4 DEF Outcome
        <3>3. Merge(kind, None, operation.set) = Empty(kind)
            BY <2>3, <2>4, <3>2 DEF Outcome
        <3>4. Len(operation.set) = 0
            BY <3>1, <3>2, <3>3 DEF Refused, IsEmpty
        <3>. QED
            BY <2>3, <2>4, <3>1, <3>4
    <2>5. CASE operation.op = "one"
        <3>1. /\ operation.resource \in SinglesOf(kind) /\ None \in Held(kind)
              /\ Empty(kind) = WithOne(kind, None, operation.resource)
            BY <2>2, <2>3, <2>5 DEF Operations, Outcome, Held
        <3>2. operation.resource \in Resources(kind)
            BY <3>1 DEF Resources
        <3>3. Empty(kind)[operation.resource.id] = operation.resource
            BY <3>1, WithOneTyped, RegistryAssumptions
        <3>. QED
            BY <3>1, <3>2, <3>3, WithOneTyped, RegistryAssumptions DEF Empty, RegistryAssumption
    <2>6. CASE operation.op = "drop"
        BY <2>2, <2>3, <2>6 DEF Outcome, HeldAt
    <2>. QED
        BY <2>3, <2>4, <2>5, <2>6 DEF Operations
<1>. QED
    BY <1>1, <1>2, <1>3, PTL DEF RegistriesSpec

=============================================================================
