---------------------------- MODULE PublicationPlan ----------------------------
(***************************************************************************)
(* The planning half of fabric-runtime-publication: `plan_publication`     *)
(* decides, from an offered snapshot and the documents an adapter holds,   *)
(* whether a publication is admitted and which documents, issuer registry  *)
(* and publication record it leaves behind.  Every operator is pure; the   *)
(* adapters (FilesystemPublication) supply the held state and perform the  *)
(* writes.                                                                 *)
(*                                                                         *)
(* Data abstraction.  A tenants or data-sources document is a total        *)
(* function on the possible ids with None for an id that it does not hold, *)
(* a catalogue is the set of logical data sources its entries name, and    *)
(* bytes are the value they encode.  Revisions and generations start at 1, *)
(* so 0 stands for the code's "no revision".                               *)
(***************************************************************************)
EXTENDS Naturals

CONSTANTS
    Tenants,        \* tenant ids
    DataSources,    \* data source ids
    Logicals,       \* logical data source names
    Issuers,        \* identity issuers a registry may name
    Bodies,         \* the content of a data source other than its revision
    Revisions,      \* document and resource revisions
    Contracts,      \* publisher contract versions
    MaxGeneration,  \* u64::MAX, the last generation there is
    None,           \* an absent file, resource or field
    Corrupt         \* a file whose bytes do not parse

ASSUME RevisionAssumption == Revisions \subseteq Nat \ {0}

ASSUME ContractAssumption == Contracts \subseteq Nat

ASSUME GenerationAssumption == MaxGeneration \in Nat \ {0}

Kinds == {"data_sources", "catalog", "tenants"}

Emptying == {"Intended", "NotIntended"}

--------------------------------------------------------------------------------
(* Documents.                                                              *)

TenantBinding == [revision : Revisions, data : [Logicals -> DataSources \cup {None}]]

DataSource == [revision : Revisions, body : Bodies]

TenantsDocument == [Tenants -> TenantBinding \cup {None}]

DataSourcesDocument == [DataSources -> DataSource \cup {None}]

CatalogDocument == SUBSET Logicals

\* The ids a document holds.
Ids(document) == {x \in DOMAIN document : document[x] # None}

NoTenants == [t \in Tenants |-> None]

NoDataSources == [d \in DataSources |-> None]

\* A document input: what is offered, at which revision, and whether taking
\* the document to empty is meant.
Input(document) ==
    [revision : Revisions, payload : document, emptying : Emptying]

\* Issuer registrations: the (issuer, tenant) pairs offered.
Registrations == SUBSET (Issuers \X Tenants)

\* All three documents, and optionally the issuer registrations.
RuntimeSnapshot ==
    [tenants      : Input(TenantsDocument),
     data_sources : Input(DataSourcesDocument),
     catalog      : Input(CatalogDocument),
     registry     : Registrations \cup {None}]

\* issuer-registry.json.
RegistryDocument ==
    [generation : 1 .. MaxGeneration, issuers : Registrations]

--------------------------------------------------------------------------------
(* The publication record.                                                 *)

\* sha256_hex: collision-free, so a constructor on the bytes.
Digest(bytes) == [sha256 |-> bytes]

Digests(documents) == [sha256 : documents]

\* The highest revision each resource was recorded at, 0 for none.
ResourceHistory ==
    [tenants      : [Tenants -> Revisions \cup {0}],
     data_sources : [DataSources -> Revisions \cup {0}]]

Recorded(document) == [revision : Revisions, digest : Digests(document)]

PublicationRecord ==
    [contract   : Contracts,
     generation : 1 .. MaxGeneration,
     documents  : [data_sources : Recorded(DataSourcesDocument),
                   catalog      : Recorded(CatalogDocument),
                   tenants      : Recorded(TenantsDocument)],
     resources  : ResourceHistory,
     registry   : [generation : 1 .. MaxGeneration,
                   digest     : Digests(RegistryDocument)] \cup {None}]

\* None and Corrupt are unlike every value of the model.
ASSUME NoneAssumption ==
    /\ None # Corrupt
    /\ None \notin DataSources
    /\ None \notin Revisions
    /\ None \notin TenantBinding \cup DataSource
    /\ None \notin TenantsDocument \cup DataSourcesDocument
    /\ \A catalog \in CatalogDocument : catalog # None
    /\ None \notin RegistryDocument
    /\ None \notin PublicationRecord
    /\ \A issuers \in Registrations : issuers # None
    /\ None \notin [generation : 1 .. MaxGeneration, digest : Digests(RegistryDocument)]
    /\ Corrupt \notin Revisions
    /\ Corrupt \notin TenantsDocument \cup DataSourcesDocument
    /\ Corrupt \notin RegistryDocument
    /\ Corrupt \notin PublicationRecord

--------------------------------------------------------------------------------
(* What an adapter holds: HeldDocuments, read once before planning.        *)

HeldPayload(held, kind) ==
    IF held.payload[kind] # None
    THEN held.payload[kind]
    ELSE IF kind = "tenants" THEN NoTenants ELSE NoDataSources

\* The revision a verdict is made against: the manifest's, or the record's
\* when the manifest is lost, or none.
HeldRevision(held, kind) ==
    IF held.manifest[kind] # None
    THEN held.manifest[kind]
    ELSE IF held.record # None
         THEN held.record.documents[kind].revision
         ELSE 0

\* The record and every manifest parse, and the tenants and data-sources
\* payloads parse and are not lost under a manifest.  The catalogue payload
\* is only ever compared byte for byte.
HeldReadable(held) ==
    /\ held.record # Corrupt
    /\ \A kind \in Kinds :
          /\ held.manifest[kind] # Corrupt
          /\ kind # "catalog" =>
                /\ held.payload[kind] # Corrupt
                /\ held.manifest[kind] # None => held.payload[kind] # None

\* A publisher may not write over a record whose floor is above its contract.
RollbackFloorHolds(held, contract) ==
    held.record # None => held.record.contract <= contract

--------------------------------------------------------------------------------
(* The resource history the record carries.                                *)

NoHistory ==
    [tenants      |-> [t \in Tenants |-> 0],
     data_sources |-> [d \in DataSources |-> 0]]

Raised(revisions, document) ==
    [x \in DOMAIN revisions |->
        IF document[x] # None /\ document[x].revision > revisions[x]
        THEN document[x].revision
        ELSE revisions[x]]

Including(history, tenants, data_sources) ==
    [tenants      |-> Raised(history.tenants, tenants),
     data_sources |-> Raised(history.data_sources, data_sources)]

\* Seeded fault: the record's history is forgotten.
HeldHistoryOfPayloads(held) ==
    Including(NoHistory, HeldPayload(held, "tenants"), HeldPayload(held, "data_sources"))

\* The held record's history raised to cover what the held payloads carry.
HeldHistory(held) ==
    Including(IF held.record # None THEN held.record.resources ELSE NoHistory,
              HeldPayload(held, "tenants"),
              HeldPayload(held, "data_sources"))

--------------------------------------------------------------------------------
(* The whole-snapshot rules of validate.rs and catalogue_bindings.rs.      *)

SourcesOf(tenants) ==
    {tenants[t].data[l] : t \in Ids(tenants), l \in Logicals} \ {None}

BindingsResolve(tenants, data_sources) ==
    SourcesOf(tenants) \subseteq Ids(data_sources)

\* A catalogue entry no tenant binds is refused, unless there is no tenant.
CatalogueBound(catalog, tenants) ==
    \/ Ids(tenants) = {}
    \/ \A l \in catalog : \E t \in Ids(tenants) : tenants[t].data[l] # None

EveryTenantHasData(tenants) ==
    \A t \in Ids(tenants) : \E l \in Logicals : tenants[t].data[l] # None

EmptyingIntended(held, input) ==
    (Ids(held) # {} /\ Ids(input.payload) = {}) => input.emptying = "Intended"

\* Seeded fault: retirement is judged against the offered tenants.
NoRetiredSourceStillOffered(held, snapshot) ==
    BindingsResolve(snapshot.tenants.payload, snapshot.data_sources.payload)

\* The retirement rule looks at the held tenants, never the offered ones:
\* retiring a data source takes two publications.
NoRetiredSourceStillBound(held, snapshot) ==
    BindingsResolve(HeldPayload(held, "tenants"), snapshot.data_sources.payload)

ValidSnapshot(held, snapshot) ==
    /\ snapshot.catalog.payload # {}
    /\ EveryTenantHasData(snapshot.tenants.payload)
    /\ CatalogueBound(snapshot.catalog.payload, snapshot.tenants.payload)
    /\ BindingsResolve(snapshot.tenants.payload, snapshot.data_sources.payload)
    /\ NoRetiredSourceStillBound(held, snapshot)
    /\ EmptyingIntended(HeldPayload(held, "tenants"), snapshot.tenants)
    /\ EmptyingIntended(HeldPayload(held, "data_sources"), snapshot.data_sources)

--------------------------------------------------------------------------------
(* The verdict on one document (verdict.rs).                               *)

Stale(held, snapshot, kind) ==
    snapshot[kind].revision < HeldRevision(held, kind)

Divergent(held, snapshot, kind) ==
    /\ snapshot[kind].revision = HeldRevision(held, kind)
    /\ held.payload[kind] # None
    /\ held.payload[kind] # snapshot[kind].payload

\* Whether the verdict is Write rather than Unchanged, for a document that is
\* neither stale nor divergent.
MustWrite(held, snapshot, kind) ==
    \/ snapshot[kind].revision > HeldRevision(held, kind)
    \/ held.payload[kind] = None

--------------------------------------------------------------------------------
(* The per-resource rules (resource_revisions.rs).                         *)

\* Seeded fault: a resource on disk has to advance even to be repeated.
StrictlyAdvanced(held, history, offered) ==
    \A x \in Ids(offered) :
        /\ offered[x].revision > history[x]
        /\ held[x] # None => offered[x].revision > held[x].revision

\* Every offered resource advances past the highest revision it was ever
\* published at, or repeats the held copy that is at that revision.
Advanced(held, history, offered) ==
    \A x \in Ids(offered) :
        LET floor == IF held[x] # None /\ held[x].revision > history[x]
                     THEN held[x].revision
                     ELSE history[x]
        IN  \/ offered[x].revision > floor
            \/ /\ held[x] # None
               /\ held[x].revision = floor
               /\ offered[x] = held[x]

NoTenantRemoved(held, input) ==
    \/ Ids(input.payload) = {} /\ input.emptying = "Intended"
    \/ Ids(held) \subseteq Ids(input.payload)

ResourcesAdvance(held, snapshot) ==
    LET history == HeldHistory(held)
    IN  /\ Advanced(HeldPayload(held, "data_sources"), history.data_sources,
                    snapshot.data_sources.payload)
        /\ Advanced(HeldPayload(held, "tenants"), history.tenants,
                    snapshot.tenants.payload)
        /\ NoTenantRemoved(HeldPayload(held, "tenants"), snapshot.tenants)

--------------------------------------------------------------------------------
(* The issuer registry (registry/plan.rs, registry/generation_choice.rs).  *)

Render(generation, issuers) == [generation |-> generation, issuers |-> issuers]

RecordedRegistry(held) ==
    IF held.record # None THEN held.record.registry ELSE None

RegistryHeldGeneration(held) ==
    IF held.registry # None THEN held.registry.generation ELSE 0

RegistryCommitted(held) ==
    IF RecordedRegistry(held) # None THEN RecordedRegistry(held).generation ELSE 0

\* An uncommitted registry that an interrupted publication left on disk.
RegistryAhead(held) == RegistryHeldGeneration(held) > RegistryCommitted(held)

\* Seeded fault: a registry left by an interrupted publication is ignored.
GenerationPastCommitted(held, issuers) ==
    IF /\ RecordedRegistry(held) # None
       /\ Digest(Render(RegistryCommitted(held), issuers)) = RecordedRegistry(held).digest
    THEN RegistryCommitted(held)
    ELSE RegistryCommitted(held) + 1

\* The committed generation when it names exactly these registrations and no
\* uncommitted one is ahead of it, the uncommitted one when its bytes are
\* exactly these, and one past the highest of both otherwise.
GenerationFor(held, issuers) ==
    LET inForce == IF RegistryAhead(held)
                   THEN RegistryHeldGeneration(held)
                   ELSE RegistryCommitted(held)
        kept    == \/ /\ ~RegistryAhead(held)
                      /\ RecordedRegistry(held) # None
                      /\ Digest(Render(inForce, issuers)) = RecordedRegistry(held).digest
                   \/ /\ RegistryAhead(held)
                      /\ Render(inForce, issuers) = held.registry
    IN  IF kept THEN inForce ELSE inForce + 1

RegistryAdmitted(held, snapshot) ==
    IF snapshot.registry = None
    THEN RecordedRegistry(held) = None
    ELSE /\ \A pair \in snapshot.registry : pair[2] \in Ids(snapshot.tenants.payload)
         /\ \A a, b \in snapshot.registry : a[1] = b[1] => a = b
         /\ held.registry # Corrupt
         /\ GenerationFor(held, snapshot.registry) <= MaxGeneration

PlannedRegistry(held, snapshot) ==
    IF snapshot.registry = None
    THEN None
    ELSE Render(GenerationFor(held, snapshot.registry), snapshot.registry)

--------------------------------------------------------------------------------
(* The publication record (plan/record.rs).                                *)

\* Seeded fault: the count runs past the last generation.
UnboundedNext(generation) == generation + 1

SaturatingNext(generation) ==
    IF generation < MaxGeneration THEN generation + 1 ELSE MaxGeneration

RecordAt(generation, held, contract, snapshot) ==
    LET registry == PlannedRegistry(held, snapshot)
    IN  [contract   |-> contract,
         generation |-> generation,
         documents  |-> [kind \in Kinds |->
                            [revision |-> snapshot[kind].revision,
                             digest   |-> Digest(snapshot[kind].payload)]],
         resources  |-> Including(HeldHistory(held), snapshot.tenants.payload,
                                  snapshot.data_sources.payload),
         registry   |-> IF registry = None
                        THEN None
                        ELSE [generation |-> registry.generation,
                              digest     |-> Digest(registry)]]

\* The held record again when it already says all this, or the next one.
PlannedRecord(held, contract, snapshot) ==
    IF held.record = None
    THEN RecordAt(1, held, contract, snapshot)
    ELSE IF RecordAt(held.record.generation, held, contract, snapshot) = held.record
         THEN held.record
         ELSE RecordAt(SaturatingNext(held.record.generation), held, contract, snapshot)

--------------------------------------------------------------------------------
(* plan_publication: the refusals, then the plan.                          *)

Admitted(held, contract, snapshot) ==
    /\ HeldReadable(held)
    /\ RollbackFloorHolds(held, contract)
    /\ ValidSnapshot(held, snapshot)
    /\ \A kind \in Kinds : ~Stale(held, snapshot, kind) /\ ~Divergent(held, snapshot, kind)
    /\ ResourcesAdvance(held, snapshot)
    /\ RegistryAdmitted(held, snapshot)

\* What the adapter must write, and the registry and record it leaves.  The
\* documents' bytes are the snapshot's.
Plan(held, contract, snapshot) ==
    LET registry == PlannedRegistry(held, snapshot)
        record   == PlannedRecord(held, contract, snapshot)
    IN  [snapshot |-> snapshot,
         registry |-> registry,
         record   |-> record,
         writes   |-> {kind \in Kinds : MustWrite(held, snapshot, kind)}
                      \cup {f \in {"registry"} : registry \notin {None, held.registry}}
                      \cup {f \in {"record"} : record # held.record}]

================================================================================
