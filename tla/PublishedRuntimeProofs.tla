-------------------------- MODULE PublishedRuntimeProofs --------------------------
(***************************************************************************)
(* What a replica serves, for every set of publishers, snapshots, tenants  *)
(* and data sources, and any number of faults, of files put back and of    *)
(* copies lost: only whole generations, in order, over restarts too, so    *)
(* that the replica and the publishers implement GenerationService.        *)
(*                                                                         *)
(* Files put back behind the publishers' backs break what the publishers'  *)
(* own proofs rest on (their numbering starts over), and nothing here uses *)
(* it: the replica relies on the digests a record names and on its floor.  *)
(***************************************************************************)
EXTENDS PublishedRuntime, FilesystemPublicationProofs

--------------------------------------------------------------------------------
(* The files: the record on disk is one that was published.                *)

Recording ==
    /\ Shape
    /\ committed \subseteq PublicationRecord
    /\ record \in committed \cup {None}

\* No record is committed at first.
LEMMA RecordingInit == RuntimeInit => Recording
    BY ShapeInit DEF RuntimeInit, Init, Recording

\* Nobody is inside `publish` while the files are put back.
LEMMA UnlockedShape ==
    ASSUME Shape, lock = None, UNCHANGED <<registry, staging, procs, faults>>,
           payload' \in [data_sources : DataSourcesDocument \cup {None},
                         catalog      : CatalogDocument \cup {None},
                         tenants      : TenantsDocument \cup {None}],
           manifest' \in [Kinds -> Revisions \cup {None}],
           record' \in PublicationRecord \cup {None}
    PROVE  Shape'
<1>1. TypeOK'
    BY DEF Shape, TypeOK, procs
<1>2. Exclusion' /\ OfferHeld'
    BY DEF Shape, Exclusion, OfferHeld, Calling, procs
<1>3. PlanTyped'
    BY DEF Shape, PlanTyped, Planned, procs
<1>. QED
    BY <1>1, <1>2, <1>3 DEF Shape

\* A record in place was committed, also one that is put back.
LEMMA RecordingNext ==
    ASSUME Recording, [RuntimeNext]_runtimeVars
    PROVE  Recording' /\ committed \subseteq committed'
<1>1. CASE UNCHANGED vars
    <2>1. Shape'
        BY <1>1, ShapeNext DEF Recording
    <2>. QED
        BY <1>1, <2>1 DEF Recording, vars
<1>2. CASE Next
    <2>1. Shape'
        BY <1>2, ShapeNext DEF Recording
    <2>2. \/ UNCHANGED <<record, committed>>
          \/ \E p \in Publishers : Land(p)
        <3>1. CASE Quiet
            BY <3>1 DEF Quiet
        <3>2. ASSUME NEW p \in Publishers, PlanAdmitted(p) \/ Skip(p)
              PROVE  UNCHANGED <<record, committed>>
            BY <3>2 DEF PlanAdmitted, Skip, files, history
        <3>3. ASSUME NEW p \in Publishers, Write(p) \/ SyncFails(p) PROVE Land(p)
            BY <3>3 DEF Write, SyncFails
        <3>. QED
            BY <1>2, <3>1, <3>2, <3>3, StepKinds DEF Recording
    <2>3. ASSUME NEW p \in Publishers, Land(p)
          PROVE  /\ committed \subseteq committed'
                 /\ committed' \subseteq PublicationRecord
                 /\ record' \in committed' \cup {None}
        <3>1. plan[p].record \in PublicationRecord
            BY <2>3, Landing DEF Recording
        <3>. QED
            BY <2>3, <3>1 DEF Land, Recording
    <2>. QED
        BY <2>1, <2>2, <2>3 DEF Recording
<1>3. CASE Revert
    <2>1. PICK earlier \in committed :
              /\ record' = earlier
              /\ payload' = [kind \in Kinds |-> earlier.documents[kind].digest.sha256]
              /\ manifest' = [kind \in Kinds |-> earlier.documents[kind].revision]
        BY <1>3 DEF Revert
    <2>2. earlier \in PublicationRecord
        BY DEF Recording
    <2>3. /\ earlier.documents["tenants"].digest.sha256 \in TenantsDocument
          /\ earlier.documents["data_sources"].digest.sha256 \in DataSourcesDocument
          /\ earlier.documents["catalog"].digest.sha256 \in CatalogDocument
          /\ \A kind \in Kinds : earlier.documents[kind].revision \in Revisions
        BY <2>2 DEF PublicationRecord, Recorded, Digests, Kinds
    <2>4. payload' \in [data_sources : DataSourcesDocument \cup {None},
                        catalog      : CatalogDocument \cup {None},
                        tenants      : TenantsDocument \cup {None}]
        BY <2>1, <2>3 DEF Kinds
    <2>5. manifest' \in [Kinds -> Revisions \cup {None}]
        BY <2>1, <2>3
    <2>6. Shape'
        BY <1>3, <2>1, <2>2, <2>4, <2>5, UnlockedShape DEF Revert, Recording
    <2>. QED
        BY <1>3, <2>1, <2>6 DEF Revert, Recording, history
<1>4. CASE LoseRecord
    <2>1. Shape'
        BY <1>4, UnlockedShape DEF LoseRecord, Recording, Shape, TypeOK
    <2>. QED
        BY <1>4, <2>1 DEF LoseRecord, Recording, history
<1>. QED
    BY <1>1, <1>2, <1>3, <1>4
    DEF RuntimeNext, runtimeVars, Start, Tick, ReadRecord, ReadDocument, DocumentMissing,
        ChooseUnrecorded, InstallUnrecorded, InstallGeneration, RefuseGeneration, Settle,
        PersistFails, ReadFails, Die, CorruptCopy, Discard

--------------------------------------------------------------------------------
(* The replica: what it has read, what it keeps and what it serves.        *)

\* What the files may have been read to hold.
Fetched ==
    [record  : committed \cup {None},
     payload : [data_sources : DataSourcesDocument \cup {None},
                catalog      : CatalogDocument \cup {None},
                tenants      : TenantsDocument \cup {None}]]

\* The files are read in order, and those of a pass without a record are all
\* there when it installs them.
Reading ==
    /\ at \in Kinds \cup {"down", "record", "choose", "unrecorded", "settle", "serving"}
    /\ starting \in BOOLEAN
    /\ refused \in BOOLEAN
    /\ got \in Fetched \cup {Corrupt}
    /\ at \in {"down", "serving", "record"} => got = NothingRead
    /\ at \in Kinds \cup {"unrecorded"} => got \in Fetched
    /\ at \in {"tenants", "catalog", "unrecorded"} => got.payload.data_sources # None
    /\ at \in {"catalog", "unrecorded"} => got.payload.tenants # None
    /\ at = "unrecorded" => got.payload.catalog # None /\ got.record = None

\* A complete generation that was published.
Generation(g) ==
    /\ g \notin {None, Corrupt}
    /\ g.record \in committed
    /\ Complete(g)

\* Only complete generations are chosen and kept, and the floor is the number
\* of one of them.
Keeping ==
    /\ pending # None => Generation(pending)
    /\ copy \notin {None, Corrupt} => Generation(copy)
    /\ ~KeepsCopy => copy = None
    /\ stored \in committed \cup {None}
    /\ installed \subseteq committed
    /\ floor # 0 => \E generation \in committed : generation.generation = floor

View ==
    [stamp        : PublicationRecord \cup {None},
     catalog      : CatalogDocument,
     tenants      : TenantsDocument,
     data_sources : DataSourcesDocument]

\* The view is one generation, whole, however it was merged.
Viewing ==
    /\ applied \in [tenants      : TenantsDocument \cup {None},
                    data_sources : DataSourcesDocument \cup {None}]
    /\ view \in View \cup {None}
    /\ view # None /\ view.stamp # None =>
          /\ view.stamp \in installed
          /\ \A kind \in Kinds : Digest(view[kind]) = view.stamp.documents[kind].digest
    /\ at = "settle" => view # None /\ view.stamp # None

\* The floor stands between what was served, what is kept and what may come
\* next: it is what makes the order of service hold over a pass, a settled
\* install and a restart.
Flooring ==
    /\ at = "settle" => view.stamp.generation >= floor
    /\ at # "settle" /\ view # None /\ view.stamp # None => floor >= view.stamp.generation
    /\ at = "down" \/ (starting /\ at # "settle") =>
          view = None /\ applied = Unprimed /\ floor = 0
    /\ at \in Kinds \cup {"unrecorded"} /\ got.record = None =>
          floor = 0 /\ (starting => UsableCopy = None)
    /\ (~starting \/ at = "settle") /\ copy \notin {None, Corrupt} => floor >= Number(copy)

Replica == Recording /\ Reading /\ Keeping /\ Viewing /\ Flooring

\* A replica starts with nothing read, kept or served.
LEMMA ReplicaInit == RuntimeInit => Replica
<1>. SUFFICES ASSUME RuntimeInit PROVE Replica
    OBVIOUS
<1>1. Reading
    BY DEF RuntimeInit, Reading, Fetched, NothingRead, Kinds
<1>2. Keeping /\ Viewing /\ Flooring
    BY DEF RuntimeInit, Keeping, Viewing, Flooring, Unprimed, Kinds
<1>. QED
    BY <1>1, <1>2, RecordingInit DEF Replica

--------------------------------------------------------------------------------
(* Generations and what is chosen.                                         *)

\* A complete generation holds the documents its record names.
LEMMA GenerationFacts ==
    ASSUME Recording, NEW g, Generation(g)
    PROVE  /\ g.record \in PublicationRecord /\ g.record # None
           /\ Number(g) \in Nat \ {0}
           /\ g.payload["tenants"] \in TenantsDocument
           /\ g.payload["data_sources"] \in DataSourcesDocument
           /\ g.payload["catalog"] \in CatalogDocument
           /\ \A kind \in Kinds : Digest(g.payload[kind]) = g.record.documents[kind].digest
<1>1. g.record \in PublicationRecord
    BY DEF Generation, Recording
<1>2. \A kind \in Kinds : Digest(g.payload[kind]) = g.record.documents[kind].digest
    BY DEF Generation, Complete
<1>3. g.record.generation \in 1 .. MaxGeneration
    BY <1>1 DEF PublicationRecord
<1>4. /\ g.record.documents["tenants"].digest \in Digests(TenantsDocument)
      /\ g.record.documents["data_sources"].digest \in Digests(DataSourcesDocument)
      /\ g.record.documents["catalog"].digest \in Digests(CatalogDocument)
    BY <1>1 DEF PublicationRecord, Recorded
<1>5. \A document, documents : Digest(document) \in Digests(documents) => document \in documents
    BY DEF Digest, Digests
<1>6. /\ g.payload["tenants"] \in TenantsDocument
      /\ g.payload["data_sources"] \in DataSourcesDocument
      /\ g.payload["catalog"] \in CatalogDocument
    BY <1>2, <1>4, <1>5 DEF Kinds
<1>. QED
    BY <1>1, <1>2, <1>3, <1>6, NoneAssumption, GenerationAssumption DEF Number

\* What is chosen is a complete generation, the published one or the copy, no
\* older than the copy at start nor than the floor afterwards.
LEMMA ChosenGenerations ==
    ASSUME Replica, at = "choose", NEW chosen, chosen = Choice(Published(got)),
           chosen \notin {None, Corrupt}
    PROVE  /\ Generation(chosen)
           /\ ~starting => Number(chosen) >= floor
           /\ starting /\ UsableCopy # None => Number(chosen) >= Number(copy)
<1>1. Published(got) \notin {None, Corrupt} => Published(got) = got /\ Generation(got)
    <2>1. got # Corrupt => got.record \in committed \cup {None}
        BY DEF Replica, Reading, Fetched
    <2>. QED
        BY <2>1 DEF Published, Generation
<1>2. UsableCopy # None => UsableCopy = copy /\ Generation(copy)
    BY DEF UsableCopy, Replica, Keeping
<1>3. CASE starting
    <2>1. CASE chosen = UsableCopy /\ UsableCopy # None
        <3>1. Number(copy) \in Nat
            BY <1>2, <2>1, GenerationFacts DEF Replica
        <3>. QED
            BY <1>2, <1>3, <2>1, <3>1
    <2>2. CASE chosen = Published(got)
               /\ ~(UsableCopy # None /\ Number(UsableCopy) > Number(Published(got)))
        <3>1. Generation(chosen) /\ Number(chosen) \in Nat
            BY <1>1, <2>2, GenerationFacts DEF Replica
        <3>2. UsableCopy # None => Number(copy) \in Nat
            BY <1>2, GenerationFacts DEF Replica
        <3>. QED
            BY <1>2, <1>3, <2>2, <3>1, <3>2
    <2>. QED
        BY <1>3, <2>1, <2>2 DEF Choice, AtStart
<1>4. CASE ~starting
    <2>1. chosen = Published(got) /\ ~(Number(chosen) < floor)
        BY <1>4 DEF Choice, OnRefresh
    <2>2. Generation(chosen) /\ Number(chosen) \in Nat
        BY <1>1, <2>1, GenerationFacts DEF Replica
    <2>3. floor \in Nat
        <3>1. \A generation \in committed : generation.generation \in Nat
            BY DEF Replica, Recording, PublicationRecord
        <3>. QED
            BY <3>1 DEF Replica, Keeping
    <2>. QED
        BY <1>4, <2>1, <2>2, <2>3
<1>. QED
    BY <1>3, <1>4

--------------------------------------------------------------------------------
(* Installing: the registries, and the view of them.                       *)

\* What is applied to what is held holds what was offered.
LEMMA AppliedType ==
    ASSUME NEW S, NEW T, NEW held \in [S -> T] \cup {None}, NEW offered \in [S -> T]
    PROVE  ApplyAll(held, offered) \in [S -> T]
<1>1. \A x \in S : held # None => held[x] \in T
    OBVIOUS
<1>. QED
    BY <1>1 DEF ApplyAll

\* A document a registry takes whole is what the registry then holds.
LEMMA AppliedWhole ==
    ASSUME NEW S, NEW T, \A b \in T \ {None} : b.revision \in Nat,
           NEW held \in [S -> T] \cup {None}, NEW offered \in [S -> T],
           TakesWhole(held, offered)
    PROVE  ApplyAll(held, offered) = offered
<1>1. ASSUME NEW x \in S, held # None, offered[x] # None, held[x] # None,
             offered[x].revision <= held[x].revision
      PROVE  held[x] = offered[x]
    <2>1. held[x].revision \in Nat /\ offered[x].revision \in Nat
        BY <1>1
    <2>2. offered[x].revision > held[x].revision \/ offered[x] = held[x]
        BY <1>1 DEF TakesWhole, Ids
    <2>. QED
        BY <1>1, <2>1, <2>2
<1>. QED
    BY <1>1 DEF ApplyAll

\* Installing a generation serves exactly that one.
LEMMA Installs ==
    ASSUME Viewing, NEW g, Install(g),
           g.record \in PublicationRecord \cup {None},
           g.payload["tenants"] \in TenantsDocument,
           g.payload["data_sources"] \in DataSourcesDocument,
           g.payload["catalog"] \in CatalogDocument
    PROVE  /\ applied' \in [tenants      : TenantsDocument \cup {None},
                            data_sources : DataSourcesDocument \cup {None}]
           /\ view' \in View /\ view' # None /\ view'.stamp = g.record
           /\ view'.catalog = g.payload["catalog"]
           /\ view'.tenants = ApplyAll(applied.tenants, g.payload["tenants"])
           /\ view'.data_sources = ApplyAll(applied.data_sources, g.payload["data_sources"])
<1>1. ApplyAll(applied.tenants, g.payload["tenants"]) \in TenantsDocument
    BY AppliedType DEF Viewing, TenantsDocument
<1>2. ApplyAll(applied.data_sources, g.payload["data_sources"]) \in DataSourcesDocument
    BY AppliedType DEF Viewing, DataSourcesDocument
<1>3. view' \in View
    BY <1>1, <1>2 DEF Install, View
<1>. QED
    BY <1>1, <1>2, <1>3, ViewAssumption DEF Install, View

\* A generation the registries take is what the view of them then is.
LEMMA InstallsWhole ==
    ASSUME Recording, Viewing, NEW g, Generation(g), TakesGeneration(g), Install(g)
    PROVE  /\ applied' \in [tenants      : TenantsDocument \cup {None},
                            data_sources : DataSourcesDocument \cup {None}]
           /\ view' \in View /\ view' # None /\ view'.stamp = g.record
           /\ \A kind \in Kinds : Digest(view'[kind]) = g.record.documents[kind].digest
<1>1. /\ g.record \in PublicationRecord
      /\ g.payload["tenants"] \in TenantsDocument
      /\ g.payload["data_sources"] \in DataSourcesDocument
      /\ g.payload["catalog"] \in CatalogDocument
      /\ \A kind \in Kinds : Digest(g.payload[kind]) = g.record.documents[kind].digest
    BY GenerationFacts
<1>2. \A b \in (TenantBinding \cup {None}) \ {None} : b.revision \in Nat
    BY RevisionAssumption DEF TenantBinding
<1>3. \A b \in (DataSource \cup {None}) \ {None} : b.revision \in Nat
    BY RevisionAssumption DEF DataSource
<1>4. view'.tenants = g.payload["tenants"]
    <2>1. ApplyAll(applied.tenants, g.payload["tenants"]) = g.payload["tenants"]
        BY <1>1, <1>2, AppliedWhole DEF Viewing, TenantsDocument, TakesGeneration
    <2>. QED
        BY <1>1, <2>1, Installs
<1>5. view'.data_sources = g.payload["data_sources"]
    <2>1. ApplyAll(applied.data_sources, g.payload["data_sources"]) = g.payload["data_sources"]
        BY <1>1, <1>3, AppliedWhole DEF Viewing, DataSourcesDocument, TakesGeneration
    <2>. QED
        BY <1>1, <2>1, Installs
<1>6. /\ applied' \in [tenants      : TenantsDocument \cup {None},
                       data_sources : DataSourcesDocument \cup {None}]
      /\ view' \in View /\ view' # None /\ view'.stamp = g.record
      /\ view'.catalog = g.payload["catalog"]
    BY <1>1, Installs
<1>7. \A kind \in Kinds : view'[kind] = g.payload[kind]
    BY <1>4, <1>5, <1>6 DEF Kinds
<1>. QED
    BY <1>1, <1>6, <1>7

--------------------------------------------------------------------------------
(* Each step of the replica keeps it so.                                   *)

\* The published generations only grow, and with them what may have been read.
LEMMA StillPublished ==
    ASSUME Recording', committed \subseteq committed'
    PROVE  /\ \A g : Generation(g) => Generation(g)'
           /\ \A read \in Fetched : read \in Fetched'
    BY DEF Generation, Fetched

\* A step of the publishers, or of whoever puts their files back.
LEMMA AsideKeeps ==
    ASSUME Replica, Recording', committed \subseteq committed',
           UNCHANGED <<pass, memory, copy, installed>>
    PROVE  Replica'
<1>1. Reading'
    BY StillPublished DEF Replica, Reading, pass, memory, NothingRead
<1>2. Keeping'
    BY StillPublished DEF Replica, Keeping, pass, memory
<1>3. Viewing'
    BY DEF Replica, Viewing, pass, memory, View
<1>4. Flooring'
    BY DEF Replica, Flooring, pass, memory, UsableCopy, Number
<1>. QED
    BY <1>1, <1>2, <1>3, <1>4 DEF Replica

\* A pass begins.
LEMMA BeginKeeps ==
    ASSUME Replica, Recording', Start \/ Tick PROVE Replica'
<1>1. /\ UNCHANGED <<vars, got, applied, view, floor, pending, stored, copy, installed>>
      /\ at' = "record" /\ at \in {"down", "serving"}
      /\ starting' \in BOOLEAN /\ refused' \in BOOLEAN
      /\ \/ starting' = TRUE /\ at = "down"
         \/ starting' = starting /\ at = "serving"
    <2>1. CASE Start
        BY <2>1 DEF Start
    <2>2. CASE Tick
        BY <2>2 DEF Tick, memory, Replica, Reading
    <2>. QED
        BY <2>1, <2>2
<1>2. UNCHANGED committed
    BY <1>1 DEF vars
<1>3. Reading'
    BY <1>1, <1>2 DEF Replica, Reading, Fetched, NothingRead, Kinds
<1>4. Keeping' /\ Viewing'
    BY <1>1, <1>2 DEF Replica, Keeping, Generation, Viewing, View
<1>5. Flooring'
    BY <1>1 DEF Replica, Flooring, UsableCopy, Number, Kinds
<1>. QED
    BY <1>3, <1>4, <1>5 DEF Replica

\* A file is read.
LEMMA ReadKeeps ==
    ASSUME Replica, Recording', ReadRecord \/ ReadDocument PROVE Replica'
<1>1. /\ UNCHANGED <<vars, starting, refused, applied, view, floor, pending, stored, copy,
                     installed>>
      /\ UNCHANGED <<payload, record, committed>>
    BY DEF ReadRecord, ReadDocument, memory, vars
<1>2. /\ payload \in [data_sources : DataSourcesDocument \cup {None},
                      catalog      : CatalogDocument \cup {None},
                      tenants      : TenantsDocument \cup {None}]
      /\ record \in committed \cup {None}
    BY DEF Replica, Recording, Shape, TypeOK
<1>3. CASE ReadRecord
    <2>1. at = "record" /\ got = NothingRead /\ got' = [got EXCEPT !.record = record]
        BY <1>3 DEF ReadRecord, Replica, Reading
    <2>2. got' = [record |-> record, payload |-> [kind \in Kinds |-> None]]
        BY <2>1 DEF NothingRead
    <2>3. got' \in Fetched
        BY <1>2, <2>2 DEF Fetched, Kinds
    <2>4. at' = IF record = None THEN "choose" ELSE "data_sources"
        BY <1>3 DEF ReadRecord
    <2>5. Reading'
        BY <1>1, <2>3, <2>4 DEF Replica, Reading, Fetched, Kinds
    <2>6. Flooring'
        BY <1>1, <2>1, <2>2, <2>4 DEF Replica, Flooring, UsableCopy, Number, Kinds
    <2>7. Viewing'
        BY <1>1, <2>4 DEF Replica, Viewing, View
    <2>. QED
        BY <1>1, <2>5, <2>6, <2>7 DEF Replica, Keeping, Generation
<1>4. CASE ReadDocument
    <2>1. /\ at \in Kinds /\ got \in Fetched /\ payload[at] # None
          /\ got' = [got EXCEPT !.payload[at] = payload[at]]
          /\ at' = NextRead[at]
        BY <1>4 DEF ReadDocument, Replica, Reading
    <2>2. /\ got' \in Fetched /\ got'.record = got.record
          /\ got'.payload[at] # None
          /\ \A kind \in Kinds : got.payload[kind] # None => got'.payload[kind] # None
        BY <1>2, <2>1 DEF Fetched, Kinds
    <2>3. /\ at = "data_sources" => at' = "tenants"
          /\ at = "tenants" => at' = "catalog"
          /\ at = "catalog" => at' = IF Unrecorded THEN "unrecorded" ELSE "choose"
        BY <2>1 DEF NextRead
    <2>4. Reading'
        <3>1. got' \in Fetched'
            BY <1>1, <2>2 DEF Fetched
        <3>2. CASE at = "data_sources"
            BY <1>1, <2>2, <2>3, <3>1, <3>2 DEF Replica, Reading, Kinds
        <3>3. CASE at = "tenants"
            BY <1>1, <2>2, <2>3, <3>1, <3>3 DEF Replica, Reading, Kinds
        <3>4. CASE at = "catalog"
            BY <1>1, <2>2, <2>3, <3>1, <3>4 DEF Replica, Reading, Kinds, Unrecorded
        <3>. QED
            BY <2>1, <3>2, <3>3, <3>4 DEF Kinds
    <2>5. at' \in {"tenants", "catalog", "unrecorded", "choose"}
        BY <2>1, <2>3 DEF Kinds
    <2>6. Flooring'
        BY <1>1, <2>1, <2>2, <2>5 DEF Replica, Flooring, UsableCopy, Number, Kinds
    <2>7. Viewing'
        BY <1>1, <2>5 DEF Replica, Viewing, View
    <2>. QED
        BY <1>1, <2>4, <2>6, <2>7 DEF Replica, Keeping, Generation
<1>. QED
    BY <1>3, <1>4

\* A file cannot be read: the pass goes on to choose without it, or is over.
LEMMA FailKeeps ==
    ASSUME Replica, Recording', DocumentMissing \/ ReadFails PROVE Replica'
<1>1. /\ UNCHANGED <<vars, applied, view, floor, stored, refused, pending, copy, installed>>
      /\ UNCHANGED committed /\ at \in Kinds \cup {"record"} /\ FailRead
    BY DEF DocumentMissing, ReadFails, memory, vars
<1>2. CASE at' = "choose" /\ got' = Corrupt /\ UNCHANGED starting
    <2>1. Reading'
        BY <1>1, <1>2 DEF Replica, Reading, Kinds
    <2>2. Viewing' /\ Flooring'
        BY <1>1, <1>2 DEF Replica, Viewing, View, Flooring, UsableCopy, Number, Kinds
    <2>. QED
        BY <1>1, <2>1, <2>2 DEF Replica, Keeping, Generation
<1>3. CASE at \in Kinds /\ Unrecorded /\ Hold
    <2>1. /\ got.record = None /\ at' \in {"serving", "down"} /\ starting' = FALSE
          /\ at' = "down" => starting
          /\ got' = NothingRead
        BY <1>3 DEF Unrecorded, Hold
    <2>2. Reading'
        BY <1>1, <2>1 DEF Replica, Reading, Fetched, NothingRead, Kinds
    <2>3. Viewing'
        BY <1>1, <2>1 DEF Replica, Viewing, View
    <2>4. Flooring'
        <3>1. starting => copy \in {None, Corrupt}
            BY <1>3, <2>1 DEF Replica, Flooring, Keeping, UsableCopy
        <3>. QED
            BY <1>1, <1>3, <2>1, <3>1 DEF Replica, Flooring, UsableCopy, Number, Kinds
    <2>. QED
        BY <1>1, <2>2, <2>3, <2>4 DEF Replica, Keeping, Generation
<1>. QED
    BY <1>1, <1>2, <1>3 DEF FailRead, Kinds

\* What reading the copy at start fixes.
LEMMA Loaded ==
    ASSUME Replica, LoadCopy, at = "choose"
    PROVE  /\ ~starting => UNCHANGED <<floor, stored, refused>>
           /\ starting /\ UsableCopy # None =>
                 floor' = Number(copy) /\ stored' = copy.record
           /\ starting /\ UsableCopy = None => floor' = 0 /\ copy \in {None, Corrupt}
           /\ stored' \in committed \cup {None}
           /\ refused' \in BOOLEAN
           /\ floor' # 0 => \E generation \in committed : generation.generation = floor'
<1>1. UsableCopy # None => /\ KeepsCopy /\ copy.record \in committed
                           /\ Number(copy) = copy.record.generation
    BY DEF UsableCopy, Replica, Keeping, Generation, Number
<1>2. UsableCopy = None => copy \in {None, Corrupt}
    BY DEF UsableCopy, Replica, Keeping
<1>3. starting => floor = 0
    BY DEF Replica, Flooring
<1>. QED
    BY <1>1, <1>2, <1>3 DEF LoadCopy, Replica, Keeping, Reading

\* Nothing is recorded, kept or served: the documents are read on their own.
LEMMA UnrecordedKeeps ==
    ASSUME Replica, Recording', ChooseUnrecorded PROVE Replica'
<1>1. /\ UNCHANGED <<vars, starting, got, applied, view, pending, copy, installed>>
      /\ UNCHANGED committed /\ at = "choose" /\ at' = "data_sources" /\ LoadCopy
      /\ got # Corrupt /\ got.record = None
    BY DEF ChooseUnrecorded, vars, Unrecorded
<1>2. /\ starting => UsableCopy = None
      /\ ~starting => floor = 0
    BY NoneAssumption DEF ChooseUnrecorded, Choice, AtStart, OnRefresh
<1>3. floor' = 0
    BY <1>1, <1>2, Loaded
<1>4. Reading'
    BY <1>1, Loaded DEF Replica, Reading, Fetched, Kinds
<1>5. Keeping'
    BY <1>1, Loaded DEF Replica, Keeping, Generation
<1>6. Viewing'
    BY <1>1 DEF Replica, Viewing, View
<1>7. Flooring'
    <2>1. view # None /\ view.stamp # None => floor' >= view.stamp.generation
        BY <1>1, <1>2, <1>3 DEF Replica, Flooring
    <2>. QED
        BY <1>1, <1>2, <1>3, <2>1 DEF Replica, Flooring, UsableCopy, Number
<1>. QED
    BY <1>4, <1>5, <1>6, <1>7 DEF Replica

\* The invariant through an installation without a record ...
LEMMA InstallUnrecordedKeeps ==
    ASSUME Replica, Recording', InstallUnrecorded PROVE Replica'
<1>1. /\ UNCHANGED <<vars, floor, stored, refused, pending, copy, installed>>
      /\ UNCHANGED committed /\ at = "unrecorded" /\ at' = "serving" /\ starting' = FALSE
      /\ got' = NothingRead /\ Install(got)
    BY DEF InstallUnrecorded, vars
<1>2. /\ got.record = None
      /\ got.payload["tenants"] \in TenantsDocument
      /\ got.payload["data_sources"] \in DataSourcesDocument
      /\ got.payload["catalog"] \in CatalogDocument
    BY <1>1 DEF Replica, Reading, Fetched
<1>3. /\ applied' \in [tenants      : TenantsDocument \cup {None},
                       data_sources : DataSourcesDocument \cup {None}]
      /\ view' \in View /\ view'.stamp = None
    BY <1>1, <1>2, Installs DEF Replica
<1>4. Reading'
    BY <1>1 DEF Replica, Reading, Fetched, NothingRead, Kinds
<1>5. Keeping'
    BY <1>1 DEF Replica, Keeping, Generation
<1>6. Viewing'
    BY <1>1, <1>3 DEF Viewing, View
<1>7. Flooring'
    <2>1. starting => copy \in {None, Corrupt}
        BY <1>1, <1>2 DEF Replica, Flooring, Keeping, UsableCopy
    <2>. QED
        BY <1>1, <1>3, <2>1 DEF Replica, Flooring, Number, Kinds
<1>. QED
    BY <1>4, <1>5, <1>6, <1>7 DEF Replica

\* A generation is installed whole, and the floor waits to be raised.
LEMMA InstallGenerationKeeps ==
    ASSUME Replica, Recording', InstallGeneration PROVE Replica'
<1>. DEFINE chosen == Choice(Published(got))
<1>1. /\ UNCHANGED <<vars, starting, got, copy>> /\ UNCHANGED committed
      /\ at = "choose" /\ at' = "settle" /\ LoadCopy
      /\ chosen \notin {None, Corrupt} /\ TakesGeneration(chosen) /\ Install(chosen)
      /\ installed' = installed \cup {chosen.record}
      /\ pending' = chosen \/ pending' = pending
    BY DEF InstallGeneration, vars
<1>2. /\ Generation(chosen)
      /\ ~starting => Number(chosen) >= floor
      /\ starting /\ UsableCopy # None => Number(chosen) >= Number(copy)
    BY <1>1, ChosenGenerations
<1>3. /\ Number(chosen) \in Nat /\ chosen.record # None
      /\ Number(chosen) = chosen.record.generation
    BY <1>2, GenerationFacts DEF Replica, Number
<1>. HIDE DEF chosen
<1>4. /\ applied' \in [tenants      : TenantsDocument \cup {None},
                       data_sources : DataSourcesDocument \cup {None}]
      /\ view' \in View /\ view' # None /\ view'.stamp = chosen.record
      /\ \A kind \in Kinds : Digest(view'[kind]) = chosen.record.documents[kind].digest
    BY <1>1, <1>2, InstallsWhole DEF Replica
<1>5. Reading'
    BY <1>1, Loaded DEF Replica, Reading, Fetched, Kinds
<1>6. Keeping'
    <2>1. chosen.record \in committed
        BY <1>2 DEF Generation
    <2>. QED
        BY <1>1, <1>2, <2>1, Loaded DEF Replica, Keeping, Generation
<1>7. Viewing'
    BY <1>1, <1>3, <1>4 DEF Viewing, View
<1>8. Flooring'
    <2>1. ~starting => floor' = floor
        BY <1>1, Loaded
    <2>2. starting /\ UsableCopy # None => floor' = Number(copy) /\ UsableCopy = copy
        BY <1>1, Loaded DEF UsableCopy
    <2>3. starting /\ UsableCopy = None => floor' = 0 /\ copy \in {None, Corrupt}
        BY <1>1, Loaded
    <2>4. Number(chosen) >= floor'
        BY <1>2, <1>3, <2>1, <2>2, <2>3
    <2>5. copy \notin {None, Corrupt} => floor' >= Number(copy)
        <3>1. copy \notin {None, Corrupt} => Number(copy) \in Nat
            BY GenerationFacts DEF Replica, Keeping
        <3>. QED
            BY <2>1, <2>2, <2>3, <3>1 DEF Replica, Flooring
    <2>. QED
        BY <1>1, <1>3, <1>4, <2>4, <2>5 DEF Flooring, Number, Kinds
<1>. QED
    BY <1>5, <1>6, <1>7, <1>8 DEF Replica

\* Nothing is installed; a prime that ends so had no copy to fall back on.
LEMMA RefuseKeeps ==
    ASSUME Replica, Recording', RefuseGeneration PROVE Replica'
<1>. DEFINE chosen == Choice(Published(got))
<1>1. /\ UNCHANGED <<vars, applied, view, copy, installed>> /\ UNCHANGED committed
      /\ at = "choose" /\ LoadCopy /\ Hold
      /\ chosen = Corrupt \/ (chosen \notin {None, Corrupt} /\ ~TakesGeneration(chosen))
      /\ pending' = pending \/ (pending' = chosen /\ chosen \notin {None, Corrupt})
    BY DEF RefuseGeneration, vars
<1>2. /\ at' \in {"serving", "down"} /\ starting' = FALSE /\ got' = NothingRead
      /\ at' = "down" => starting
    BY <1>1 DEF Hold
<1>3. chosen \notin {None, Corrupt} => Generation(chosen)
    BY <1>1, ChosenGenerations
<1>4. starting => UsableCopy = None
    <2>1. starting => applied = Unprimed
        BY <1>1 DEF Replica, Flooring
    <2>2. starting => \A generation : TakesGeneration(generation)
        BY <2>1 DEF TakesGeneration, TakesWhole, Unprimed
    <2>3. starting /\ UsableCopy # None => chosen # Corrupt
        BY DEF Choice, AtStart, UsableCopy
    <2>. QED
        BY <1>1, <2>2, <2>3
<1>. HIDE DEF chosen
<1>5. Reading'
    BY <1>1, <1>2, Loaded DEF Replica, Reading, Fetched, NothingRead, Kinds
<1>6. Keeping'
    BY <1>1, <1>3, Loaded DEF Replica, Keeping, Generation
<1>7. Viewing'
    BY <1>1, <1>2 DEF Replica, Viewing, View
<1>8. Flooring'
    <2>1. ~starting => floor' = floor
        BY <1>1, Loaded
    <2>2. starting => floor' = 0 /\ copy \in {None, Corrupt} /\ floor = 0
        BY <1>1, <1>4, Loaded DEF Replica, Flooring
    <2>. QED
        BY <1>1, <1>2, <2>1, <2>2 DEF Replica, Flooring, UsableCopy, Number, Kinds
<1>. QED
    BY <1>5, <1>6, <1>7, <1>8 DEF Replica

\* The floor rises to what was installed, which the copy may then be.
LEMMA SettledKeeps ==
    ASSUME Replica, Recording', UNCHANGED <<vars, applied, view, installed>>, Settled,
           refused' \in BOOLEAN,
           \/ copy' = copy
           \/ Persists /\ copy' = pending,
           \/ stored' = stored
           \/ Persists /\ stored' = pending.record
    PROVE  Replica'
<1>1. /\ UNCHANGED committed /\ at = "settle" /\ at' = "serving" /\ starting' = FALSE
      /\ got' = NothingRead /\ pending' = None
      /\ floor' = IF view.stamp.generation > floor THEN view.stamp.generation ELSE floor
    BY DEF Settled, vars
<1>2. /\ view # None /\ view.stamp # None /\ view.stamp \in committed
      /\ view.stamp.generation \in Nat
    BY <1>1 DEF Replica, Viewing, Keeping, Recording, PublicationRecord
<1>3. floor \in Nat /\ view.stamp.generation >= floor
    <2>1. \A generation \in committed : generation.generation \in Nat
        BY DEF Replica, Recording, PublicationRecord
    <2>. QED
        BY <1>1, <2>1 DEF Replica, Keeping, Flooring
<1>4. floor' = view.stamp.generation
    BY <1>1, <1>2, <1>3
<1>5. Persists => /\ Generation(pending) /\ KeepsCopy /\ pending.record \in committed
                  /\ Number(pending) = view.stamp.generation
    BY DEF Persists, Replica, Keeping, Generation, Number
<1>6. Reading'
    BY <1>1 DEF Replica, Reading, Fetched, NothingRead, Kinds
<1>7. Keeping'
    BY <1>1, <1>2, <1>4, <1>5 DEF Replica, Keeping, Generation
<1>8. Viewing'
    BY <1>1 DEF Replica, Viewing, View
<1>9. Flooring'
    <2>1. copy' \notin {None, Corrupt} => floor' >= Number(copy')
        <3>1. CASE Persists /\ copy' = pending
            BY <1>2, <1>4, <1>5, <3>1 DEF Number
        <3>2. CASE copy' = copy
            <4>1. copy \notin {None, Corrupt} => floor >= Number(copy) /\ Number(copy) \in Nat
                BY <1>1, GenerationFacts DEF Replica, Flooring, Keeping
            <4>. QED
                BY <1>2, <1>3, <1>4, <3>2, <4>1 DEF Number
        <3>. QED
            BY <3>1, <3>2
    <2>. QED
        BY <1>1, <1>2, <1>4, <2>1 DEF Flooring, Number, Kinds
<1>. QED
    BY <1>6, <1>7, <1>8, <1>9 DEF Replica

\* ... and through the step that raises the floor and persists the copy.
LEMMA SettleKeeps ==
    ASSUME Replica, Recording', Settle \/ PersistFails PROVE Replica'
<1>1. CASE Settle
    <2>1. refused' \in BOOLEAN
        BY <1>1 DEF Settle
    <2>. QED
        BY <1>1, <2>1, SettledKeeps DEF Settle
<1>2. CASE PersistFails
    BY <1>2, SettledKeeps DEF PersistFails
<1>. QED
    BY <1>1, <1>2

\* The process dies, and starts over from the copy alone.
LEMMA DieKeeps ==
    ASSUME Replica, Recording', Die PROVE Replica'
<1>1. /\ UNCHANGED <<vars, copy, installed>> /\ UNCHANGED committed
      /\ at' = "down" /\ starting' = TRUE /\ got' = NothingRead /\ applied' = Unprimed
      /\ view' = None /\ floor' = 0 /\ pending' = None /\ stored' = None /\ refused' = FALSE
    BY DEF Die, vars
<1>2. Reading'
    BY <1>1 DEF Reading, Fetched, NothingRead, Kinds
<1>3. Keeping' /\ Viewing' /\ Flooring'
    BY <1>1 DEF Replica, Keeping, Generation, Viewing, Flooring, Unprimed, Kinds
<1>. QED
    BY <1>2, <1>3 DEF Replica

\* The copy is lost, one way or the other.
LEMMA CopyLossKeeps ==
    ASSUME Replica, Recording', CorruptCopy \/ Discard PROVE Replica'
<1>1. /\ UNCHANGED <<vars, pass, memory, installed>> /\ UNCHANGED committed
      /\ copy' \in {None, Corrupt} /\ copy # None
      /\ copy' = Corrupt => copy # None
    BY DEF CorruptCopy, Discard, vars
<1>2. Reading' /\ Viewing'
    BY <1>1 DEF Replica, Reading, Fetched, NothingRead, Viewing, View, pass, memory
<1>3. Keeping'
    BY <1>1 DEF Replica, Keeping, Generation, pass, memory
<1>4. Flooring'
    BY <1>1 DEF Replica, Flooring, UsableCopy, Number, pass, memory
<1>. QED
    BY <1>2, <1>3, <1>4 DEF Replica

\* So the invariant is kept by every step.
LEMMA ReplicaNext ==
    ASSUME Replica, [RuntimeNext]_runtimeVars
    PROVE  Replica' /\ committed \subseteq committed'
<1>1. Recording' /\ committed \subseteq committed'
    BY RecordingNext DEF Replica
<1>2. CASE UNCHANGED <<pass, memory, copy, installed>>
    BY <1>1, <1>2, AsideKeeps
<1>3. CASE UNCHANGED readerVars
    BY <1>2, <1>3 DEF readerVars
<1>4. CASE UNCHANGED runtimeVars
    BY <1>2, <1>4 DEF runtimeVars, pass, memory
<1>5. CASE Revert \/ LoseRecord
    BY <1>2, <1>5 DEF Revert, LoseRecord
<1>. QED
    BY <1>1, <1>3, <1>4, <1>5, BeginKeeps, ReadKeeps, FailKeeps, UnrecordedKeeps,
       InstallUnrecordedKeeps, InstallGenerationKeeps, RefuseKeeps, SettleKeeps, DieKeeps,
       CopyLossKeeps
    DEF RuntimeNext

--------------------------------------------------------------------------------
(* What the replica promises.                                              *)

\* The replica's state has the shape the code gives it, and names only
\* generations that were published.
THEOREM RuntimeTypeCorrectness == RuntimeSpec => []RuntimeTypeOK
<1>1. Replica => RuntimeTypeOK
    BY DEF Replica, Reading, Fetched, Keeping, Generation, RuntimeTypeOK
<1>2. Replica /\ [RuntimeNext]_runtimeVars => Replica'
    BY ReplicaNext
<1>. QED
    BY <1>1, <1>2, ReplicaInit, PTL DEF RuntimeSpec

\* Requests resolve against exactly the documents of one published
\* generation, although they are read one by one while they are replaced and
\* merged into registries that keep what they hold.
THEOREM OneGenerationServed == RuntimeSpec => []ViewIsOneGeneration
<1>1. Replica => ViewIsOneGeneration
    BY DEF Replica, Keeping, Viewing, ViewIsOneGeneration
<1>2. Replica /\ [RuntimeNext]_runtimeVars => Replica'
    BY ReplicaNext
<1>. QED
    BY <1>1, <1>2, ReplicaInit, PTL DEF RuntimeSpec

\* Only installing a generation or the unrecorded documents gives a view.
LEMMA ViewKinds ==
    ASSUME [RuntimeNext]_runtimeVars
    PROVE  UNCHANGED view \/ Die \/ InstallUnrecorded \/ InstallGeneration
<1>1. CASE UNCHANGED memory
    BY <1>1 DEF memory
<1>2. CASE UNCHANGED readerVars
    BY <1>1, <1>2 DEF readerVars
<1>3. CASE UNCHANGED runtimeVars
    BY <1>3 DEF runtimeVars
<1>4. CASE \/ Tick \/ ReadRecord \/ ReadDocument \/ DocumentMissing \/ ReadFails
           \/ Revert \/ LoseRecord \/ CorruptCopy \/ Discard
    BY <1>1, <1>4 DEF Tick, ReadRecord, ReadDocument, DocumentMissing, ReadFails, Revert,
       LoseRecord, CorruptCopy, Discard
<1>5. CASE Start \/ ChooseUnrecorded \/ RefuseGeneration \/ Settle \/ PersistFails
    BY <1>5 DEF Start, ChooseUnrecorded, RefuseGeneration, Settle, PersistFails
<1>. QED
    BY <1>2, <1>3, <1>4, <1>5 DEF RuntimeNext

\* The unrecorded documents are only served while nothing recorded was or is
\* kept.
LEMMA ServesUnrecorded ==
    ASSUME Replica, InstallUnrecorded
    PROVE  /\ view' # None /\ view'.stamp = None
           /\ ServedGeneration = 0 /\ CopyGeneration = 0
           /\ UNCHANGED <<committed, copy>>
<1>1. /\ at = "unrecorded" /\ Install(got) /\ UNCHANGED <<committed, copy>>
    BY DEF InstallUnrecorded, vars
<1>2. /\ got.record = None
      /\ got.payload["tenants"] \in TenantsDocument
      /\ got.payload["data_sources"] \in DataSourcesDocument
      /\ got.payload["catalog"] \in CatalogDocument
    BY <1>1 DEF Replica, Reading, Fetched
<1>3. view' # None /\ view'.stamp = None
    BY <1>1, <1>2, Installs DEF Replica
<1>4. floor = 0 /\ (starting => UsableCopy = None)
    BY <1>1, <1>2 DEF Replica, Flooring
<1>5. ServedGeneration = 0
    <2>1. view # None /\ view.stamp # None => view.stamp.generation \in Nat \ {0}
        <3>1. view # None => view.stamp \in PublicationRecord \cup {None}
            BY DEF Replica, Viewing, View
        <3>2. \A r \in PublicationRecord : r.generation \in 1 .. MaxGeneration
            BY DEF PublicationRecord
        <3>. QED
            BY <3>1, <3>2, GenerationAssumption
    <2>. QED
        BY <1>1, <1>4, <2>1 DEF Replica, Flooring, ServedGeneration
<1>6. CopyGeneration = 0
    <2>1. copy \notin {None, Corrupt} => Number(copy) \in Nat \ {0}
        BY GenerationFacts DEF Replica, Keeping
    <2>2. starting => copy \in {None, Corrupt}
        BY <1>4 DEF UsableCopy, Replica, Keeping
    <2>. QED
        BY <1>4, <2>1, <2>2 DEF Replica, Flooring, CopyGeneration
<1>. QED
    BY <1>1, <1>3, <1>5, <1>6

\* A generation that is served is past what was served, and past the copy.
LEMMA ServesGeneration ==
    ASSUME Replica, InstallGeneration
    PROVE  /\ view' # None /\ view'.stamp \in committed /\ view'.stamp # None
           /\ \A kind \in Kinds : Digest(view'[kind]) = view'.stamp.documents[kind].digest
           /\ view'.stamp.generation \in Nat \ {0}
           /\ view'.stamp.generation >= ServedGeneration
           /\ view'.stamp.generation >= CopyGeneration
           /\ UNCHANGED <<committed, copy>>
<1>. DEFINE chosen == Choice(Published(got))
<1>1. /\ UNCHANGED <<committed, copy>> /\ at = "choose"
      /\ chosen \notin {None, Corrupt} /\ TakesGeneration(chosen) /\ Install(chosen)
    BY DEF InstallGeneration, vars
<1>2. /\ Generation(chosen)
      /\ ~starting => Number(chosen) >= floor
      /\ starting /\ UsableCopy # None => Number(chosen) >= Number(copy)
    BY <1>1, ChosenGenerations
<1>3. /\ Number(chosen) \in Nat \ {0} /\ chosen.record # None
      /\ Number(chosen) = chosen.record.generation /\ chosen.record \in committed
    BY <1>2, GenerationFacts DEF Replica, Number, Generation
<1>. HIDE DEF chosen
<1>4. /\ view' # None /\ view'.stamp = chosen.record
      /\ \A kind \in Kinds : Digest(view'[kind]) = chosen.record.documents[kind].digest
    BY <1>1, <1>2, InstallsWhole DEF Replica
<1>5. floor \in Nat
    <2>1. \A generation \in committed : generation.generation \in Nat
        BY DEF Replica, Recording, PublicationRecord
    <2>. QED
        BY <2>1 DEF Replica, Keeping
<1>6. Number(chosen) >= ServedGeneration
    <2>1. starting => view = None
        BY <1>1 DEF Replica, Flooring
    <2>2. view # None /\ view.stamp # None =>
              floor >= view.stamp.generation /\ view.stamp.generation \in Nat
        BY <1>1 DEF Replica, Flooring, Viewing, Keeping, Recording, PublicationRecord
    <2>. QED
        BY <1>2, <1>3, <1>5, <2>1, <2>2 DEF ServedGeneration
<1>7. Number(chosen) >= CopyGeneration
    <2>1. copy \notin {None, Corrupt} => Number(copy) \in Nat
        BY GenerationFacts DEF Replica, Keeping
    <2>2. copy \notin {None, Corrupt} => KeepsCopy
        BY DEF Replica, Keeping
    <2>3. CASE starting
        BY <1>2, <1>3, <2>2, <2>3 DEF CopyGeneration, UsableCopy
    <2>4. CASE ~starting
        BY <1>2, <1>3, <1>5, <2>1, <2>4 DEF CopyGeneration, Replica, Flooring
    <2>. QED
        BY <2>3, <2>4
<1>. QED
    BY <1>1, <1>3, <1>4, <1>6, <1>7

\* Nothing older is served than before, nor first after a restart than the
\* copy, whatever is put back on the volume.
THEOREM ServiceNeverRegresses == RuntimeSpec => ServedNeverRegresses
<1>. DEFINE Forward == view' # None =>
                          /\ ServedGeneration' >= ServedGeneration
                          /\ view' # view /\ starting => ServedGeneration' >= CopyGeneration
<1>1. ASSUME Replica, [RuntimeNext]_runtimeVars PROVE Forward
    <2>1. CASE UNCHANGED view
        <3>1. ServedGeneration' = ServedGeneration
            BY <2>1 DEF ServedGeneration
        <3>2. ServedGeneration \in Nat
            BY <1>1 DEF ServedGeneration, Replica, Viewing, Keeping, Recording,
                        PublicationRecord
        <3>. QED
            BY <2>1, <3>1, <3>2
    <2>2. CASE Die
        BY <2>2 DEF Die
    <2>3. CASE InstallUnrecorded
        BY <1>1, <2>3, ServesUnrecorded DEF ServedGeneration
    <2>4. CASE InstallGeneration
        BY <1>1, <2>4, ServesGeneration DEF ServedGeneration
    <2>. QED
        BY <1>1, <2>1, <2>2, <2>3, <2>4, ViewKinds
<1>2. Replica /\ [RuntimeNext]_runtimeVars => Replica'
    BY ReplicaNext
<1>3. Replica /\ [RuntimeNext]_runtimeVars => [Forward]_runtimeVars
    BY <1>1
<1>. QED
    BY <1>2, <1>3, ReplicaInit, PTL DEF RuntimeSpec, ServedNeverRegresses

--------------------------------------------------------------------------------
(* What the copy holds.                                                    *)

\* Only settling an install, or losing the copy, touches it.
LEMMA CopyKinds ==
    ASSUME [RuntimeNext]_runtimeVars
    PROVE  \/ UNCHANGED copy
           \/ CorruptCopy \/ Discard
           \/ Settled /\ Persists /\ copy' = pending /\ UNCHANGED <<committed, view>>
<1>1. CASE UNCHANGED readerVars \/ UNCHANGED runtimeVars
    BY <1>1 DEF readerVars, runtimeVars
<1>2. CASE \/ Start \/ Tick \/ ReadRecord \/ ReadDocument \/ DocumentMissing \/ ReadFails
           \/ ChooseUnrecorded \/ InstallUnrecorded \/ InstallGeneration \/ RefuseGeneration
           \/ Die \/ Revert \/ LoseRecord
    BY <1>2 DEF Start, Tick, ReadRecord, ReadDocument, DocumentMissing, ReadFails,
       ChooseUnrecorded, InstallUnrecorded, InstallGeneration, RefuseGeneration, Die,
       Revert, LoseRecord
<1>3. CASE Settle \/ PersistFails
    BY <1>3 DEF Settle, PersistFails, vars
<1>. QED
    BY <1>1, <1>2, <1>3 DEF RuntimeNext

\* What is persisted is what is served, and nothing newer was kept.
LEMMA PersistsServed ==
    ASSUME Replica, Settled, Persists
    PROVE  /\ Generation(pending) /\ pending.record = view.stamp
           /\ view # None /\ view.stamp \in installed
           /\ \A kind \in Kinds : Digest(view[kind]) = view.stamp.documents[kind].digest
           /\ Number(pending) \in Nat
           /\ Number(pending) >= CopyGeneration
           /\ refused => copy = None
<1>1. at = "settle" /\ pending # None /\ pending.record = view.stamp /\ (refused => copy = None)
    BY DEF Settled, Persists
<1>2. Generation(pending)
    BY <1>1 DEF Replica, Keeping
<1>3. Number(pending) \in Nat /\ Number(pending) = view.stamp.generation
    BY <1>1, <1>2, GenerationFacts DEF Replica, Number
<1>4. /\ view # None /\ view.stamp \in installed
      /\ \A kind \in Kinds : Digest(view[kind]) = view.stamp.documents[kind].digest
    BY <1>1 DEF Replica, Viewing
<1>5. Number(pending) >= CopyGeneration
    <2>1. copy \notin {None, Corrupt} => floor >= Number(copy) /\ Number(copy) \in Nat
        BY <1>1, GenerationFacts DEF Replica, Flooring, Keeping
    <2>2. Number(pending) >= floor /\ floor \in Nat
        <3>1. \A generation \in committed : generation.generation \in Nat
            BY DEF Replica, Recording, PublicationRecord
        <3>. QED
            BY <1>1, <1>3, <3>1 DEF Replica, Keeping, Flooring
    <2>. QED
        BY <1>3, <2>1, <2>2 DEF CopyGeneration
<1>. QED
    BY <1>1, <1>2, <1>3, <1>4, <1>5

\* The copy is only written over by what this replica installed, no older
\* than the copy, and never when it was refused at start and is still there.
THEOREM CopyKeepsUp == RuntimeSpec => CopyFollowsService
<1>. DEFINE Follows == copy' \notin {copy, None, Corrupt} =>
                          /\ copy'.record \in installed
                          /\ Number(copy') >= CopyGeneration
                          /\ refused => copy = None
<1>1. ASSUME Replica, [RuntimeNext]_runtimeVars PROVE Follows
    <2>1. CASE UNCHANGED copy \/ CorruptCopy \/ Discard
        BY <2>1 DEF CorruptCopy, Discard
    <2>2. CASE Settled /\ Persists /\ copy' = pending
        <3>1. /\ pending.record \in installed
              /\ Number(pending) >= CopyGeneration
              /\ refused => copy = None
            BY <1>1, <2>2, PersistsServed
        <3>. QED
            BY <2>2, <3>1 DEF Number
    <2>. QED
        BY <1>1, <2>1, <2>2, CopyKinds
<1>2. Replica /\ [RuntimeNext]_runtimeVars => Replica'
    BY ReplicaNext
<1>3. Replica /\ [RuntimeNext]_runtimeVars => [Follows]_runtimeVars
    BY <1>1
<1>. QED
    BY <1>2, <1>3, ReplicaInit, PTL DEF RuntimeSpec, CopyFollowsService

--------------------------------------------------------------------------------
(* The refinement: every step is one of the abstract service.              *)

\* Over the documents it names, a record is the generation it stands for.
LEMMA NamesItself ==
    ASSUME NEW r \in PublicationRecord, NEW documents,
           \A kind \in Kinds : Digest(documents[kind]) = r.documents[kind].digest
    PROVE  AsGeneration(r, documents) = r
<1>1. r.documents \in [data_sources : Recorded(DataSourcesDocument),
                       catalog      : Recorded(CatalogDocument),
                       tenants      : Recorded(TenantsDocument)]
    BY DEF PublicationRecord
<1>2. \A kind \in Kinds :
          r.documents[kind] = [revision |-> r.documents[kind].revision,
                               digest   |-> r.documents[kind].digest]
    BY <1>1 DEF Recorded, Kinds
<1>3. \A kind \in Kinds :
          [r.documents[kind] EXCEPT !.digest = Digest(documents[kind])] = r.documents[kind]
    BY <1>2
<1>4. [kind \in Kinds |-> [r.documents[kind] EXCEPT !.digest = Digest(documents[kind])]]
          = r.documents
    <2>1. r.documents = [kind \in Kinds |-> r.documents[kind]]
        BY <1>1 DEF Kinds
    <2>. QED
        BY <1>3, <2>1
<1>5. [r EXCEPT !.documents = r.documents] = r
    BY DEF PublicationRecord
<1>. QED
    BY <1>4, <1>5 DEF AsGeneration

\* What the service is taken to serve and to keep.
Served ==
    IF view = None THEN None
    ELSE IF view.stamp = None THEN [generation |-> 0] ELSE AsGeneration(view.stamp, view)

Kept ==
    IF copy \in {None, Corrupt} THEN None ELSE AsGeneration(copy.record, copy.payload)

\* What the abstract service keeps is the generation of a readable copy ...
LEMMA KeptIs ==
    ASSUME Replica
    PROVE  /\ copy \in {None, Corrupt} => Kept = None
           /\ copy \notin {None, Corrupt} => Kept = copy.record
<1>1. copy \notin {None, Corrupt} => AsGeneration(copy.record, copy.payload) = copy.record
    <2>1. ASSUME copy \notin {None, Corrupt}
          PROVE  /\ copy.record \in PublicationRecord
                 /\ \A kind \in Kinds :
                        Digest(copy.payload[kind]) = copy.record.documents[kind].digest
        BY <2>1, GenerationFacts DEF Replica, Keeping
    <2>. QED
        BY <2>1, NamesItself
<1>. QED
    BY <1>1 DEF Kept

\* ... and what it serves is the generation the view is stamped with.
LEMMA ServedIs ==
    ASSUME Replica
    PROVE  /\ view = None => Served = None
           /\ view # None /\ view.stamp = None => Served = [generation |-> 0]
           /\ view # None /\ view.stamp # None => Served = view.stamp
<1>1. ASSUME view # None, view.stamp # None PROVE AsGeneration(view.stamp, view) = view.stamp
    <2>1. /\ view.stamp \in PublicationRecord
          /\ \A kind \in Kinds : Digest(view[kind]) = view.stamp.documents[kind].digest
        BY <1>1 DEF Replica, Viewing, Keeping, Recording
    <2>. QED
        BY <2>1, NamesItself
<1>. QED
    BY <1>1 DEF Served

\* What is served and what is kept number what the replica says they do.
LEMMA NoOlderThan ==
    ASSUME Replica, NEW g, g.generation \in Nat
    PROVE  /\ g.generation >= ServedGeneration => Promise!NoOlder(g, Served)
           /\ g.generation >= CopyGeneration => Promise!NoOlder(g, Kept)
<1>1. g.generation >= ServedGeneration => (Served # None => g.generation >= Served.generation)
    <2>1. Served # None => Served.generation = ServedGeneration
        BY ServedIs DEF ServedGeneration
    <2>. QED
        BY <2>1
<1>2. g.generation >= CopyGeneration => (Kept # None => g.generation >= Kept.generation)
    <2>1. Kept # None => Kept.generation = CopyGeneration
        BY KeptIs DEF CopyGeneration, Number
    <2>. QED
        BY <2>1
<1>. QED
    BY <1>1, <1>2 DEF Promise!NoOlder

\* Each step is the service's, or only adds to what is published.
LEMMA ServiceStep ==
    ASSUME Replica, [RuntimeNext]_runtimeVars
    PROVE  Promise!ServiceNext
<1>1. committed \subseteq committed'
    BY ReplicaNext
<1>2. UNCHANGED view => UNCHANGED Served
    BY DEF Served
<1>3. UNCHANGED copy => UNCHANGED Kept
    BY DEF Kept
<1>4. CASE UNCHANGED <<Served, Kept>>
    <2>1. Promise!Publish
        BY <1>1, <1>4 DEF Promise!Publish, Served, Kept
    <2>. QED
        BY <2>1 DEF Promise!ServiceNext
<1>5. CASE InstallGeneration
    <2>1. /\ view' # None /\ view'.stamp \in committed /\ view'.stamp # None
          /\ \A kind \in Kinds : Digest(view'[kind]) = view'.stamp.documents[kind].digest
          /\ view'.stamp.generation \in Nat
          /\ view'.stamp.generation >= ServedGeneration
          /\ view'.stamp.generation >= CopyGeneration
          /\ UNCHANGED <<committed, copy>>
        BY <1>5, ServesGeneration
    <2>2. AsGeneration(view'.stamp, view') = view'.stamp
        BY <2>1, NamesItself DEF Replica, Recording
    <2>3. Served' = view'.stamp
        BY <2>1, <2>2 DEF Served
    <2>4. Promise!NoOlder(view'.stamp, Served) /\ Promise!NoOlder(view'.stamp, Kept)
        BY <2>1, NoOlderThan
    <2>5. Promise!Serve
        BY <1>3, <2>1, <2>3, <2>4 DEF Promise!Serve, Promise!NoOlder, Served, Kept
    <2>. QED
        BY <2>5 DEF Promise!ServiceNext
<1>6. CASE InstallUnrecorded
    <2>1. /\ view' # None /\ view'.stamp = None
          /\ ServedGeneration = 0 /\ CopyGeneration = 0 /\ UNCHANGED <<committed, copy>>
        BY <1>6, ServesUnrecorded
    <2>2. Served' = [generation |-> 0]
        BY <2>1 DEF Served
    <2>3. /\ Promise!NoOlder([generation |-> 0], Served)
          /\ Promise!NoOlder([generation |-> 0], Kept)
        BY <2>1, NoOlderThan
    <2>4. Promise!Serve
        BY <1>3, <2>1, <2>2, <2>3
        DEF Promise!Serve, Promise!NoOlder, Promise!Unrecorded, Served, Kept
    <2>. QED
        BY <2>4 DEF Promise!ServiceNext
<1>7. CASE Settled /\ Persists /\ copy' = pending /\ UNCHANGED <<committed, view>>
    <2>1. /\ Generation(pending) /\ pending.record = view.stamp
          /\ view # None /\ view.stamp \in installed
          /\ Number(pending) \in Nat /\ Number(pending) >= CopyGeneration
        BY <1>7, PersistsServed
    <2>2. /\ view.stamp \in committed /\ view.stamp # None
          /\ view.stamp.generation = Number(pending)
        BY <2>1, NoneAssumption DEF Replica, Keeping, Recording, Number
    <2>3. Served = view.stamp
        BY <2>1, <2>2, ServedIs
    <2>4. AsGeneration(pending.record, pending.payload) = pending.record
        <3>1. /\ pending.record \in PublicationRecord
              /\ \A kind \in Kinds :
                     Digest(pending.payload[kind]) = pending.record.documents[kind].digest
            BY <2>1, GenerationFacts DEF Replica
        <3>. QED
            BY <3>1, NamesItself
    <2>5. Kept' = view.stamp
        BY <1>7, <2>1, <2>4 DEF Kept, Generation
    <2>6. Promise!NoOlder(view.stamp, Kept)
        BY <2>1, <2>2, NoOlderThan
    <2>7. Promise!Keep
        BY <1>2, <1>7, <2>2, <2>3, <2>5, <2>6 DEF Promise!Keep, Promise!NoOlder, Served, Kept
    <2>. QED
        BY <2>7 DEF Promise!ServiceNext
<1>8. CASE Die
    <2>1. view' = None /\ UNCHANGED <<committed, copy>>
        BY <1>8 DEF Die, vars
    <2>2. Promise!Stop
        BY <1>3, <2>1 DEF Promise!Stop, Served, Kept
    <2>. QED
        BY <2>2 DEF Promise!ServiceNext
<1>9. CASE CorruptCopy \/ Discard
    <2>1. copy' \in {None, Corrupt} /\ UNCHANGED <<committed, view>>
        BY <1>9 DEF CorruptCopy, Discard, vars, memory
    <2>2. Promise!Forget
        BY <1>2, <2>1 DEF Promise!Forget, Served, Kept
    <2>. QED
        BY <2>2 DEF Promise!ServiceNext
<1>. QED
    BY <1>2, <1>3, <1>4, <1>5, <1>6, <1>7, <1>8, <1>9, ViewKinds, CopyKinds

\* Publishers, files, replica and copy together do no more than the abstract
\* service promises, whatever crashes, fails, is put back or rots.
THEOREM ServiceImplemented == RuntimeSpec => ImplementsService
<1>1. RuntimeInit => Promise!ServiceInit
    BY DEF RuntimeInit, Init, Promise!ServiceInit
<1>2. Replica /\ [RuntimeNext]_runtimeVars => Replica'
    BY ReplicaNext
<1>3. Replica /\ [RuntimeNext]_runtimeVars => [Promise!ServiceNext]_(Promise!serviceVars)
    BY ServiceStep
<1>. QED
    BY <1>1, <1>2, <1>3, ReplicaInit, PTL DEF RuntimeSpec, ImplementsService, Promise!Service

================================================================================
