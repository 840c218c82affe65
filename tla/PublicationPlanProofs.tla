------------------------- MODULE PublicationPlanProofs -------------------------
(***************************************************************************)
(* What plan_publication returns, whatever adapter holds the documents:    *)
(* the registry and the record it plans are well formed, and every         *)
(* resource it admits advances past the history or repeats the held copy.  *)
(***************************************************************************)
EXTENDS PublicationPlan, TLAPS

ResourceKinds == {"tenants", "data_sources"}

\* The ids a document of that kind may hold.
Keys(kind) == IF kind = "tenants" THEN Tenants ELSE DataSources

\* What an adapter read is well formed: every document is one or is absent.
HeldTyped(held) ==
    /\ held.payload["tenants"] \in TenantsDocument \cup {None}
    /\ held.payload["data_sources"] \in DataSourcesDocument \cup {None}
    /\ held.registry \in RegistryDocument \cup {None}
    /\ held.record \in PublicationRecord \cup {None}

\* The documents a plan reads are well formed even when a file is absent.
LEMMA PayloadTyped ==
    ASSUME NEW held, HeldTyped(held)
    PROVE  /\ HeldPayload(held, "tenants") \in TenantsDocument
           /\ HeldPayload(held, "data_sources") \in DataSourcesDocument
<1>1. NoTenants \in TenantsDocument /\ NoDataSources \in DataSourcesDocument
    BY DEF NoTenants, NoDataSources, TenantsDocument, DataSourcesDocument
<1>. QED
    BY <1>1 DEF HeldTyped, HeldPayload

\* Raising a history over a document keeps it a history.
LEMMA RaisedType ==
    ASSUME NEW S, NEW R, NEW revisions \in [S -> Revisions \cup {0}],
           NEW document \in [S -> R \cup {None}],
           \A x \in R : x.revision \in Revisions
    PROVE  Raised(revisions, document) \in [S -> Revisions \cup {0}]
    BY DEF Raised

\* A history raised by a snapshot's resources is a history ...
LEMMA IncludingType ==
    ASSUME NEW h \in ResourceHistory, NEW tenants \in TenantsDocument,
           NEW data_sources \in DataSourcesDocument
    PROVE  Including(h, tenants, data_sources) \in ResourceHistory
<1>1. Raised(h.tenants, tenants) \in [Tenants -> Revisions \cup {0}]
    <2>1. \A x \in TenantBinding : x.revision \in Revisions
        BY DEF TenantBinding
    <2>. QED
        BY <2>1, RaisedType DEF ResourceHistory, TenantsDocument
<1>2. Raised(h.data_sources, data_sources) \in [DataSources -> Revisions \cup {0}]
    <2>1. \A x \in DataSource : x.revision \in Revisions
        BY DEF DataSource
    <2>. QED
        BY <2>1, RaisedType DEF ResourceHistory, DataSourcesDocument
<1>. QED
    BY <1>1, <1>2 DEF Including, ResourceHistory

\* ... so is the one a plan records ...
LEMMA HistoryTyped ==
    ASSUME NEW held, HeldTyped(held)
    PROVE  HeldHistory(held) \in ResourceHistory
<1>1. NoHistory \in ResourceHistory
    BY DEF NoHistory, ResourceHistory
<1>2. held.record # None => held.record.resources \in ResourceHistory
    BY DEF HeldTyped, PublicationRecord
<1>3. (IF held.record # None THEN held.record.resources ELSE NoHistory) \in ResourceHistory
    BY <1>1, <1>2
<1>. QED
    BY <1>3, PayloadTyped, IncludingType DEF HeldHistory

\* An admitted registry has a generation the counter can hold.
LEMMA RegistryTyped ==
    ASSUME NEW held, HeldTyped(held), NEW contract, NEW snapshot \in RuntimeSnapshot,
           Admitted(held, contract, snapshot)
    PROVE  /\ snapshot.registry = None => PlannedRegistry(held, snapshot) = None
           /\ snapshot.registry # None => PlannedRegistry(held, snapshot) \in RegistryDocument
<1>1. ASSUME snapshot.registry # None
      PROVE  PlannedRegistry(held, snapshot) \in RegistryDocument
    <2>1. snapshot.registry \in Registrations
        BY <1>1 DEF RuntimeSnapshot
    <2>2. GenerationFor(held, snapshot.registry) <= MaxGeneration
        BY <1>1 DEF Admitted, RegistryAdmitted
    <2>3. RegistryHeldGeneration(held) \in Nat
        <3>1. held.registry # None => held.registry.generation \in 1 .. MaxGeneration
            BY DEF HeldTyped, RegistryDocument
        <3>. QED
            BY <3>1, GenerationAssumption DEF RegistryHeldGeneration
    <2>4. /\ RegistryCommitted(held) \in Nat
          /\ RecordedRegistry(held) # None => RegistryCommitted(held) > 0
        <3>1. RecordedRegistry(held) # None =>
                  RecordedRegistry(held).generation \in 1 .. MaxGeneration
            BY DEF HeldTyped, RecordedRegistry, PublicationRecord
        <3>. QED
            BY <3>1, GenerationAssumption DEF RegistryCommitted
    <2>5. GenerationFor(held, snapshot.registry) \in Nat \ {0}
        BY <2>3, <2>4 DEF GenerationFor, RegistryAhead
    <2>6. GenerationFor(held, snapshot.registry) \in 1 .. MaxGeneration
        BY <2>2, <2>5, GenerationAssumption
    <2>. QED
        BY <1>1, <2>1, <2>6 DEF PlannedRegistry, Render, RegistryDocument
<1>. QED
    BY <1>1 DEF PlannedRegistry

\* ... and what is planned for a generation is a record.
LEMMA RecordAtTyped ==
    ASSUME NEW held, HeldTyped(held), NEW contract \in Contracts, NEW snapshot \in RuntimeSnapshot,
           Admitted(held, contract, snapshot),
           NEW generation \in 1 .. MaxGeneration
    PROVE  RecordAt(generation, held, contract, snapshot) \in PublicationRecord
<1>. DEFINE registered == PlannedRegistry(held, snapshot)
            recorded == IF registered = None
                        THEN None
                        ELSE [generation |-> registered.generation,
                              digest     |-> Digest(registered)]
            documents == [kind \in Kinds |->
                            [revision |-> snapshot[kind].revision,
                             digest   |-> Digest(snapshot[kind].payload)]]
<1>2. recorded \in [generation : 1 .. MaxGeneration,
                    digest     : Digests(RegistryDocument)] \cup {None}
    BY RegistryTyped DEF RegistryDocument, Digest, Digests
<1>3. documents \in [data_sources : Recorded(DataSourcesDocument),
                     catalog      : Recorded(CatalogDocument),
                     tenants      : Recorded(TenantsDocument)]
    BY DEF RuntimeSnapshot, Input, Recorded, Digest, Digests, Kinds
<1>4. Including(HeldHistory(held), snapshot.tenants.payload,
                snapshot.data_sources.payload) \in ResourceHistory
    <2>1. /\ snapshot.tenants.payload \in TenantsDocument
          /\ snapshot.data_sources.payload \in DataSourcesDocument
        BY DEF RuntimeSnapshot, Input
    <2>. QED
        BY <2>1, HistoryTyped, IncludingType
<1>. QED
    BY <1>2, <1>3, <1>4 DEF RecordAt, PublicationRecord

\* The record a plan comes to: well formed, and the held one again or the
\* next in line.
LEMMA RecordTyped ==
    ASSUME NEW held, HeldTyped(held), NEW contract \in Contracts, NEW snapshot \in RuntimeSnapshot,
           Admitted(held, contract, snapshot)
    PROVE  LET planned == PlannedRecord(held, contract, snapshot)
           IN  /\ planned \in PublicationRecord
               /\ held.record # None =>
                     \/ planned = held.record
                     \/ planned.generation = SaturatingNext(held.record.generation)
<1>1. held.record # None => /\ held.record \in PublicationRecord
                            /\ held.record.generation \in 1 .. MaxGeneration
    BY DEF HeldTyped, PublicationRecord
<1>2. 1 \in 1 .. MaxGeneration
    BY GenerationAssumption
<1>3. held.record # None => SaturatingNext(held.record.generation) \in 1 .. MaxGeneration
    BY <1>1, GenerationAssumption DEF SaturatingNext
<1>4. CASE held.record = None
    BY <1>2, <1>4, RecordAtTyped DEF PlannedRecord
<1>5. CASE held.record # None
    <2>. DEFINE next == RecordAt(SaturatingNext(held.record.generation), held, contract, snapshot)
    <2>1. next \in PublicationRecord
        BY <1>3, <1>5, RecordAtTyped
    <2>2. next.generation = SaturatingNext(held.record.generation)
        BY DEF RecordAt
    <2>. QED
        BY <1>1, <1>5, <2>1, <2>2 DEF PlannedRecord
<1>. QED
    BY <1>4, <1>5

\* What a planned record says, whether it is the held one or a new one: its
\* contract and resource history, its documents, and its registry.
LEMMA PlannedParts ==
    ASSUME NEW held, NEW contract, NEW snapshot
    PROVE  /\ PlannedRecord(held, contract, snapshot).contract = contract
           /\ PlannedRecord(held, contract, snapshot).resources =
                 Including(HeldHistory(held), snapshot.tenants.payload,
                           snapshot.data_sources.payload)
<1>1. \E generation : PlannedRecord(held, contract, snapshot)
                         = RecordAt(generation, held, contract, snapshot)
    BY DEF PlannedRecord
<1>. QED
    BY <1>1 DEF RecordAt

\* A planned record names the documents of its snapshot ...
LEMMA PlannedDocuments ==
    ASSUME NEW held, NEW contract, NEW snapshot
    PROVE  PlannedRecord(held, contract, snapshot).documents =
               [kind \in Kinds |-> [revision |-> snapshot[kind].revision,
                                    digest   |-> Digest(snapshot[kind].payload)]]
<1>1. \E generation : PlannedRecord(held, contract, snapshot)
                         = RecordAt(generation, held, contract, snapshot)
    BY DEF PlannedRecord
<1>. QED
    BY <1>1 DEF RecordAt

\* ... and the registry planned with it.
LEMMA PlannedStamp ==
    ASSUME NEW held, NEW contract, NEW snapshot
    PROVE  PlannedRecord(held, contract, snapshot).registry =
               IF PlannedRegistry(held, snapshot) = None
               THEN None
               ELSE [generation |-> PlannedRegistry(held, snapshot).generation,
                     digest     |-> Digest(PlannedRegistry(held, snapshot))]
<1>1. \E generation : PlannedRecord(held, contract, snapshot)
                         = RecordAt(generation, held, contract, snapshot)
    BY DEF PlannedRecord
<1>. QED
    BY <1>1 DEF RecordAt

\* A document of either kind, its ids and its revisions.
LEMMA DocumentFacts ==
    ASSUME NEW kind \in ResourceKinds,
           NEW document \in IF kind = "tenants" THEN TenantsDocument ELSE DataSourcesDocument
    PROVE  /\ DOMAIN document = Keys(kind)
           /\ Ids(document) = {x \in Keys(kind) : document[x] # None}
           /\ \A x \in Ids(document) : document[x].revision \in Revisions
<1>1. CASE kind = "tenants"
    <2>1. document \in [Tenants -> TenantBinding \cup {None}] /\ Keys(kind) = Tenants
        BY <1>1 DEF TenantsDocument, Keys
    <2>2. \A b \in TenantBinding : b.revision \in Revisions
        BY DEF TenantBinding
    <2>. QED
        BY <2>1, <2>2 DEF Ids
<1>2. CASE kind # "tenants"
    <2>1. document \in [DataSources -> DataSource \cup {None}] /\ Keys(kind) = DataSources
        BY <1>2 DEF DataSourcesDocument, Keys, ResourceKinds
    <2>2. \A b \in DataSource : b.revision \in Revisions
        BY DEF DataSource
    <2>. QED
        BY <2>1, <2>2 DEF Ids
<1>. QED
    BY <1>1, <1>2

\* Raising a history over two documents: each number is the one there was or
\* the document's, whichever is higher.
LEMMA IncludingRaises ==
    ASSUME NEW h \in ResourceHistory, NEW t \in TenantsDocument, NEW d \in DataSourcesDocument,
           NEW kind \in ResourceKinds, NEW x \in Keys(kind)
    PROVE  LET document == IF kind = "tenants" THEN t ELSE d
               raised   == Including(h, t, d)[kind][x]
           IN  /\ raised \in Nat /\ h[kind][x] \in Nat
               /\ raised >= h[kind][x]
               /\ document[x] # None => raised >= document[x].revision
               /\ \/ raised = h[kind][x]
                  \/ document[x] # None /\ raised = document[x].revision
<1>1. ASSUME NEW S, NEW revisions \in [S -> Revisions \cup {0}], NEW document, NEW y \in S,
             document[y] # None => document[y].revision \in Revisions
      PROVE  LET raised == Raised(revisions, document)[y]
             IN  /\ raised \in Nat /\ revisions[y] \in Nat
                 /\ raised >= revisions[y]
                 /\ document[y] # None => raised >= document[y].revision
                 /\ \/ raised = revisions[y]
                    \/ document[y] # None /\ raised = document[y].revision
    <2>1. revisions[y] \in Nat /\ (document[y] # None => document[y].revision \in Nat)
        <3>1. \A n \in Revisions \cup {0} : n \in Nat
            BY RevisionAssumption
        <3>2. revisions[y] \in Revisions \cup {0}
            BY <1>1
        <3>. QED
            BY <1>1, <3>1, <3>2
    <2>2. Raised(revisions, document)[y] =
              IF document[y] # None /\ document[y].revision > revisions[y]
              THEN document[y].revision
              ELSE revisions[y]
        BY <1>1 DEF Raised
    <2>. HIDE <1>1
    <2>. QED
        BY <2>1, <2>2
<1>2. CASE kind = "tenants"
    <2>1. h.tenants \in [Tenants -> Revisions \cup {0}] /\ x \in Tenants
        BY <1>2 DEF ResourceHistory, Keys
    <2>2. t[x] # None => t[x].revision \in Revisions
        BY <2>1 DEF TenantsDocument, TenantBinding
    <2>3. Including(h, t, d)["tenants"] = Raised(h.tenants, t)
        BY DEF Including
    <2>. QED
        BY <1>1, <1>2, <2>1, <2>2, <2>3
<1>3. CASE kind = "data_sources"
    <2>1. h.data_sources \in [DataSources -> Revisions \cup {0}] /\ x \in DataSources
        BY <1>3 DEF ResourceHistory, Keys
    <2>2. d[x] # None => d[x].revision \in Revisions
        BY <2>1 DEF DataSourcesDocument, DataSource
    <2>3. Including(h, t, d)["data_sources"] = Raised(h.data_sources, d)
        BY DEF Including
    <2>. QED
        BY <1>1, <1>3, <2>1, <2>2, <2>3
<1>. QED
    BY <1>2, <1>3 DEF ResourceKinds

\* The history a plan goes by: for each resource the record's number or that
\* of the copy on disk, whichever is higher.
LEMMA HistoryOf ==
    ASSUME NEW held, held.record # None => held.record \in PublicationRecord,
           HeldPayload(held, "tenants") \in TenantsDocument,
           HeldPayload(held, "data_sources") \in DataSourcesDocument,
           NEW kind \in ResourceKinds, NEW x \in Keys(kind)
    PROVE  /\ HeldHistory(held)[kind][x] \in Nat
           /\ held.record # None =>
                 /\ held.record.resources[kind][x] \in Nat
                 /\ HeldHistory(held)[kind][x] >= held.record.resources[kind][x]
           /\ HeldPayload(held, kind)[x] # None =>
                 HeldHistory(held)[kind][x] >= HeldPayload(held, kind)[x].revision
           /\ \/ held.record = None /\ HeldHistory(held)[kind][x] = 0
              \/ /\ held.record # None
                 /\ HeldHistory(held)[kind][x] = held.record.resources[kind][x]
              \/ /\ HeldPayload(held, kind)[x] # None
                 /\ HeldHistory(held)[kind][x] = HeldPayload(held, kind)[x].revision
<1>. DEFINE before == IF held.record # None THEN held.record.resources ELSE NoHistory
<1>1. NoHistory \in ResourceHistory /\ NoHistory[kind][x] = 0
    BY DEF NoHistory, ResourceHistory, ResourceKinds, Keys
<1>2. held.record # None => held.record.resources \in ResourceHistory
    BY DEF PublicationRecord
<1>3. /\ before \in ResourceHistory
      /\ held.record # None => before[kind][x] = held.record.resources[kind][x]
      /\ held.record = None => before[kind][x] = 0
    BY <1>1, <1>2
<1>4. HeldHistory(held) = Including(before, HeldPayload(held, "tenants"),
                                    HeldPayload(held, "data_sources"))
    BY DEF HeldHistory
<1>5. HeldPayload(held, kind) = IF kind = "tenants" THEN HeldPayload(held, "tenants")
                                ELSE HeldPayload(held, "data_sources")
    BY DEF ResourceKinds
<1>. HIDE DEF before
<1>. QED
    BY <1>3, <1>4, <1>5, IncludingRaises

\* A history has a number for every id.
LEMMA HistoryNumbers ==
    ASSUME NEW h \in ResourceHistory, NEW kind \in ResourceKinds, NEW x \in Keys(kind)
    PROVE  h[kind][x] \in Nat
<1>1. \A n \in Revisions \cup {0} : n \in Nat
    BY RevisionAssumption
<1>2. h[kind][x] \in Revisions \cup {0}
    BY DEF ResourceHistory, ResourceKinds, Keys
<1>. QED
    BY <1>1, <1>2

\* The documents of a snapshot have that shape.
LEMMA OfferedDocuments ==
    ASSUME NEW snapshot \in RuntimeSnapshot, NEW kind \in ResourceKinds
    PROVE  snapshot[kind].payload
               \in IF kind = "tenants" THEN TenantsDocument ELSE DataSourcesDocument
    BY DEF RuntimeSnapshot, Input, ResourceKinds

\* An admitted resource is numbered past all the history, or is the copy on
\* disk again, at the last number of the history.
LEMMA AdvancesPast ==
    ASSUME NEW held, HeldTyped(held), NEW contract, NEW snapshot \in RuntimeSnapshot,
           Admitted(held, contract, snapshot),
           NEW kind \in ResourceKinds, NEW x \in Ids(snapshot[kind].payload)
    PROVE  LET offered == snapshot[kind].payload[x]
               onDisk  == HeldPayload(held, kind)[x]
               number  == HeldHistory(held)[kind][x]
           IN  /\ offered.revision \in Nat /\ number \in Nat
               /\ \/ offered.revision > number
                  \/ onDisk # None /\ offered = onDisk /\ offered.revision = number
<1>1. x \in Keys(kind) /\ snapshot[kind].payload[x].revision \in Nat
    <2>1. /\ Ids(snapshot[kind].payload) \subseteq Keys(kind)
          /\ snapshot[kind].payload[x].revision \in Revisions
        BY OfferedDocuments, DocumentFacts
    <2>. QED
        BY <2>1, RevisionAssumption
<1>2. Advanced(HeldPayload(held, kind), HeldHistory(held)[kind], snapshot[kind].payload)
    BY DEF Admitted, ResourcesAdvance, ResourceKinds
<1>3. LET floor == IF /\ HeldPayload(held, kind)[x] # None
                      /\ HeldPayload(held, kind)[x].revision > HeldHistory(held)[kind][x]
                   THEN HeldPayload(held, kind)[x].revision
                   ELSE HeldHistory(held)[kind][x]
      IN  \/ snapshot[kind].payload[x].revision > floor
          \/ /\ HeldPayload(held, kind)[x] # None
             /\ HeldPayload(held, kind)[x].revision = floor
             /\ snapshot[kind].payload[x] = HeldPayload(held, kind)[x]
    BY <1>2 DEF Advanced
<1>4. HeldPayload(held, kind)[x] # None => HeldPayload(held, kind)[x].revision \in Nat
    <2>1. HeldPayload(held, kind) \in IF kind = "tenants" THEN TenantsDocument
                                      ELSE DataSourcesDocument
        BY PayloadTyped DEF ResourceKinds
    <2>. QED
        BY <1>1, <2>1, DocumentFacts, RevisionAssumption
<1>5. /\ HeldHistory(held)[kind][x] \in Nat
      /\ HeldPayload(held, kind)[x] # None =>
            HeldHistory(held)[kind][x] >= HeldPayload(held, kind)[x].revision
    BY <1>1, PayloadTyped, HistoryOf DEF HeldTyped
<1>. QED
    BY <1>1, <1>3, <1>4, <1>5

================================================================================
