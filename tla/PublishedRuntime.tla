--------------------------- MODULE PublishedRuntime ---------------------------
(***************************************************************************)
(* A tenant-runtime replica reading what the publishers of                 *)
(* FilesystemPublication write (fabric-tenant-runtime: PublishedFiles, the *)
(* last-known-good copy, and the refresher that installs one view).        *)
(*                                                                         *)
(* The replica reads the record and the three documents one file at a time *)
(* while publishers replace them.  A pass accepts them only as the         *)
(* complete generation the record names, chooses between it and its        *)
(* last-known-good copy, installs the generation whole, and then persists  *)
(* the copy.  The process may die anywhere, the published files may be put *)
(* back to an older generation or lose their record, and the copy may rot. *)
(*                                                                         *)
(* A complete generation is what was read: the record and the documents.   *)
(***************************************************************************)
EXTENDS FilesystemPublication

CONSTANTS
    KeepsCopy,         \* whether a last-known-good directory is configured
    MaxReaderFaults,   \* bound: crashes, failed reads and failed persists
    MaxReverts,        \* bound: times the published files are put back
    MaxCopyLosses      \* bound: times the copy rots or is moved aside

ASSUME ReaderAssumption ==
    /\ KeepsCopy \in BOOLEAN
    /\ MaxReaderFaults \in Nat
    /\ MaxReverts \in Nat
    /\ MaxCopyLosses \in Nat

\* None is unlike a view.
ASSUME ViewAssumption ==
    None \notin [stamp        : PublicationRecord \cup {None},
                 catalog      : CatalogDocument,
                 tenants      : TenantsDocument,
                 data_sources : DataSourcesDocument]

VARIABLES
    at,           \* where the replica is in a pass
    starting,     \* whether this pass is the prime, not a refresh
    got,          \* the files read so far in this pass
    applied,      \* the two resource registries
    view,         \* what requests resolve against
    floor,        \* the highest recorded generation installed or stored
    pending,      \* the published generation this pass chose, until settled
    stored,       \* the record of the copy this process knows is on disk
    refused,      \* whether the copy was refused at start
    copy,         \* last-known-good.json: a complete generation
    readerFaults, \* reader faults so far
    reverts,      \* times the files were put back so far
    copyLosses,   \* times the copy was lost so far
    installed     \* history: the record of every generation ever installed

bounds == <<readerFaults, reverts, copyLosses>>
pass == <<at, starting, got, pending>>
memory == <<applied, view, floor, stored, refused>>
readerVars == <<pass, memory, copy, bounds, installed>>
runtimeVars == <<vars, at, starting, got, applied, view, floor, pending, stored,
                 refused, copy, bounds, installed>>

NothingRead == [record |-> None, payload |-> [kind \in Kinds |-> None]]

Unprimed == [tenants |-> None, data_sources |-> None]

RuntimeInit ==
    /\ Init
    /\ at = "down"
    /\ starting = TRUE
    /\ got = NothingRead
    /\ applied = Unprimed
    /\ view = None
    /\ floor = 0
    /\ pending = None
    /\ stored = None
    /\ refused = FALSE
    /\ copy = None
    /\ readerFaults = 0
    /\ reverts = 0
    /\ copyLosses = 0
    /\ installed = {}

--------------------------------------------------------------------------------
(* Generations.                                                            *)

Number(generation) == generation.record.generation

\* Seeded fault: the tenants document is taken as it was read.
CompleteButForTenants(read) ==
    \A kind \in Kinds \ {"tenants"} :
        Digest(read.payload[kind]) = read.record.documents[kind].digest

\* CompleteGeneration::verify: every document read is the one named.
Complete(read) ==
    \A kind \in Kinds :
        /\ read.payload[kind] # None
        /\ Digest(read.payload[kind]) = read.record.documents[kind].digest

\* decode_catalogue: an empty catalogue could serve nothing.
Decodes(catalog) == catalog # {}

\* ParsedGeneration::validate: valid and with every binding resolved.
Servable(generation) ==
    /\ EveryTenantHasData(generation.payload["tenants"])
    /\ BindingsResolve(generation.payload["tenants"], generation.payload["data_sources"])

\* What a read amounts to: a generation, None for no record, or Corrupt when a
\* file could not be read or they are not one generation.  Only a reader that
\* keeps a copy validates what it parsed.
Published(read) ==
    IF read = Corrupt
    THEN Corrupt
    ELSE IF read.record = None
         THEN None
         ELSE IF /\ Complete(read)
                 /\ Decodes(read.payload["catalog"])
                 /\ KeepsCopy => Servable(read)
              THEN read
              ELSE Corrupt

--------------------------------------------------------------------------------
(* choice.rs: what to serve.                                               *)

\* The usable copy: a refused one counts for nothing.
UsableCopy == IF KeepsCopy /\ copy # Corrupt THEN copy ELSE None

\* Seeded fault: the copy is used only when nothing is published.
AtStartPublishedFirst(published) ==
    IF published \in {None, Corrupt} /\ UsableCopy # None THEN UsableCopy ELSE published

AtStart(published) ==
    IF UsableCopy = None
    THEN published
    ELSE IF published \in {None, Corrupt} THEN UsableCopy
         ELSE IF Number(UsableCopy) > Number(published) THEN UsableCopy ELSE published

\* On a refresh the floor stands in for the copy, and what is below it is
\* refused, not replaced.
OnRefresh(published) ==
    IF published = None
    THEN IF floor = 0 THEN None ELSE Corrupt
    ELSE IF published = Corrupt THEN Corrupt
         ELSE IF Number(published) < floor THEN Corrupt ELSE published

Choice(published) == IF starting THEN AtStart(published) ELSE OnRefresh(published)

--------------------------------------------------------------------------------
(* The registries (ResourceRegistry).                                      *)

\* Seeded fault: a resource already applied at its revision is refused.
TakesNewer(held, offered) ==
    held # None =>
        \A x \in Ids(offered) :
            held[x] # None => offered[x].revision > held[x].revision

\* refuses_whole: a resource offered below its applied revision, or changed
\* without advancing it.
TakesWhole(held, offered) ==
    held # None =>
        \A x \in Ids(offered) :
            held[x] # None =>
                \/ offered[x].revision > held[x].revision
                \/ offered[x] = held[x]

\* apply_all: a missing resource is removed, and an applied one is replaced
\* only by a higher revision.
ApplyAll(held, offered) ==
    [x \in DOMAIN offered |->
        IF /\ held # None
           /\ offered[x] # None
           /\ held[x] # None
           /\ offered[x].revision <= held[x].revision
        THEN held[x]
        ELSE offered[x]]

\* Seeded fault: only the data sources are asked before applying.
TakesGenerationSources(generation) ==
    TakesWhole(applied.data_sources, generation.payload["data_sources"])

TakesGeneration(generation) ==
    /\ TakesWhole(applied.data_sources, generation.payload["data_sources"])
    /\ TakesWhole(applied.tenants, generation.payload["tenants"])

\* The registries once every document has been applied, and the view of them
\* stamped with the generation they came from, if any.
Install(read) ==
    /\ applied' = [tenants      |-> ApplyAll(applied.tenants, read.payload["tenants"]),
                   data_sources |-> ApplyAll(applied.data_sources,
                                             read.payload["data_sources"])]
    /\ view' = [stamp |-> read.record, catalog |-> read.payload["catalog"],
                tenants |-> applied'.tenants, data_sources |-> applied'.data_sources]

--------------------------------------------------------------------------------
(* A pass.                                                                 *)

\* The process starts: memory is empty, and the first pass primes it.
Start ==
    /\ at = "down"
    /\ at' = "record"
    /\ starting' = TRUE
    /\ refused' = FALSE
    /\ UNCHANGED <<vars, got, applied, view, floor, pending, stored, copy,
                   bounds, installed>>

\* The refresh loop's timer or trigger.
Tick ==
    /\ at = "serving"
    /\ at' = "record"
    /\ UNCHANGED <<vars, starting, got, memory, pending, copy,
                   bounds, installed>>

ReadRecord ==
    /\ at = "record"
    /\ got' = [got EXCEPT !.record = record]
    /\ at' = IF record = None THEN "choose" ELSE "data_sources"
    /\ UNCHANGED <<vars, starting, memory, pending, copy,
                   bounds, installed>>

\* Without a record, the documents are read for themselves.
Unrecorded == got # Corrupt /\ got.record = None

NextRead ==
    [data_sources |-> "tenants", tenants |-> "catalog",
     catalog |-> IF Unrecorded THEN "unrecorded" ELSE "choose"]

\* One document file.
ReadDocument ==
    /\ at \in Kinds
    /\ payload[at] # None
    /\ got' = [got EXCEPT !.payload[at] = payload[at]]
    /\ at' = NextRead[at]
    /\ UNCHANGED <<vars, starting, memory, pending, copy,
                   bounds, installed>>

\* The pass ends with nothing installed: what is served stays.  A failed
\* prime stops the process, or leaves it running unprimed.
Hold ==
    /\ at' \in IF starting THEN {"serving", "down"} ELSE {"serving"}
    /\ starting' = FALSE
    /\ got' = NothingRead

\* A failed read of a recorded generation still leaves a choice to make, at
\* start between an error and the copy; one without a record ends the pass.
FailRead ==
    IF at # "record" /\ Unrecorded
    THEN Hold
    ELSE at' = "choose" /\ got' = Corrupt /\ UNCHANGED starting

DocumentMissing ==
    /\ at \in Kinds
    /\ payload[at] = None
    /\ FailRead
    /\ UNCHANGED <<vars, memory, pending, copy, bounds, installed>>

\* Reading the copy at start also fixes the floor, and finds out whether it
\* has to be refused.
LoadCopy ==
    IF starting /\ KeepsCopy
    THEN /\ floor' = IF UsableCopy # None THEN Number(copy) ELSE floor
         /\ stored' = IF UsableCopy # None THEN copy.record ELSE None
         /\ refused' = (copy = Corrupt)
    ELSE UNCHANGED <<floor, stored, refused>>

\* The record was read absent, nothing holds a recorded generation, and the
\* documents are read again on their own.
ChooseUnrecorded ==
    /\ at = "choose"
    /\ Unrecorded
    /\ Choice(None) = None
    /\ LoadCopy
    /\ at' = "data_sources"
    /\ UNCHANGED <<vars, starting, got, applied, view, pending, copy,
                   bounds, installed>>

\* The documents installed as each registry judges them, under no stamp.
InstallUnrecorded ==
    /\ at = "unrecorded"
    /\ Install(got)
    /\ at' = "serving"
    /\ starting' = FALSE
    /\ got' = NothingRead
    /\ UNCHANGED <<vars, floor, stored, refused, pending, copy,
                   bounds, installed>>

\* A generation was chosen, the registries take it whole, and one store
\* makes it the view.
InstallGeneration ==
    /\ at = "choose"
    /\ LET published == Published(got)
           chosen    == Choice(published)
       IN  /\ chosen \notin {None, Corrupt}
           /\ TakesGeneration(chosen)
           /\ Install(chosen)
           /\ installed' = installed \cup {chosen.record}
           /\ pending' = IF chosen = published THEN chosen ELSE pending
    /\ LoadCopy
    /\ at' = "settle"
    /\ UNCHANGED <<vars, starting, got, copy, bounds>>

\* Nothing was chosen, or a registry would not take it whole.
RefuseGeneration ==
    /\ at = "choose"
    /\ LET published == Published(got)
           chosen    == Choice(published)
       IN  /\ \/ chosen = Corrupt
              \/ chosen \notin {None, Corrupt} /\ ~TakesGeneration(chosen)
           /\ pending' = IF chosen = published /\ chosen \notin {None, Corrupt}
                         THEN chosen ELSE pending
    /\ LoadCopy
    /\ Hold
    /\ UNCHANGED <<vars, applied, view, copy, bounds, installed>>

\* Seeded fault: a copy refused at start is replaced.
PersistsOverRefused ==
    /\ KeepsCopy
    /\ pending # None
    /\ pending.record = view.stamp
    /\ stored # pending.record

\* `installed`: the floor rises, and a generation just read from the
\* published files is persisted, unless the copy already is that one or was
\* refused at start and is still there.
Persists ==
    /\ KeepsCopy
    /\ pending # None
    /\ pending.record = view.stamp
    /\ stored # pending.record
    /\ ~(refused /\ copy # None)

\* Seeded fault: the floor is set one past what was installed.
SettledPast ==
    /\ at = "settle"
    /\ floor' = view.stamp.generation + 1
    /\ pending' = None
    /\ at' = "serving"
    /\ starting' = FALSE
    /\ got' = NothingRead

Settled ==
    /\ at = "settle"
    /\ floor' = IF view.stamp.generation > floor THEN view.stamp.generation ELSE floor
    /\ pending' = None
    /\ at' = "serving"
    /\ starting' = FALSE
    /\ got' = NothingRead

Settle ==
    /\ Settled
    /\ copy' = IF Persists THEN pending ELSE copy
    /\ stored' = IF Persists THEN pending.record ELSE stored
    /\ refused' = (refused /\ copy # None)
    /\ UNCHANGED <<vars, applied, view, bounds, installed>>

ReaderFault == readerFaults < MaxReaderFaults /\ readerFaults' = readerFaults + 1

\* The copy could not be persisted; it may have been replaced all the same.
PersistFails ==
    /\ Settled
    /\ Persists
    /\ ReaderFault
    /\ copy' \in {copy, pending}
    /\ refused' = FALSE
    /\ UNCHANGED <<vars, applied, view, stored, reverts, copyLosses, installed>>

\* A read fails, or outlasts the refresh interval.
ReadFails ==
    /\ at \in Kinds \cup {"record"}
    /\ ReaderFault
    /\ FailRead
    /\ UNCHANGED <<vars, memory, pending, copy, reverts, copyLosses, installed>>

\* The process dies, and all it remembers with it.
Die ==
    /\ at # "down"
    /\ ReaderFault
    /\ at' = "down"
    /\ starting' = TRUE
    /\ got' = NothingRead
    /\ applied' = Unprimed
    /\ view' = None
    /\ floor' = 0
    /\ pending' = None
    /\ stored' = None
    /\ refused' = FALSE
    /\ UNCHANGED <<vars, copy, reverts, copyLosses, installed>>

--------------------------------------------------------------------------------
(* What happens to the files behind everyone's back.                       *)

PutBack == reverts < MaxReverts /\ reverts' = reverts + 1

CopyLoss == copyLosses < MaxCopyLosses /\ copyLosses' = copyLosses + 1

\* The published files are put back to an earlier generation.
Revert ==
    /\ PutBack
    /\ lock = None
    /\ \E earlier \in committed :
          /\ record' = earlier
          /\ payload' = [kind \in Kinds |-> earlier.documents[kind].digest.sha256]
          /\ manifest' = [kind \in Kinds |-> earlier.documents[kind].revision]
    /\ torn' = None
    /\ UNCHANGED <<registry, staging, procs, faults, history,
                   pass, memory, copy, readerFaults, copyLosses, installed>>

\* The record is lost.
LoseRecord ==
    /\ PutBack
    /\ lock = None
    /\ record # None
    /\ record' = None
    /\ torn' = None
    /\ UNCHANGED <<payload, manifest, registry, staging, procs, faults, history,
                   pass, memory, copy, readerFaults, copyLosses, installed>>

\* The copy rots.
CorruptCopy ==
    /\ CopyLoss
    /\ copy \notin {None, Corrupt}
    /\ copy' = Corrupt
    /\ UNCHANGED <<vars, pass, memory, readerFaults, reverts, installed>>

\* An operator moves the copy aside, after auditing that it does.
Discard ==
    /\ CopyLoss
    /\ copy # None
    /\ copy' = None
    /\ UNCHANGED <<vars, pass, memory, readerFaults, reverts, installed>>

--------------------------------------------------------------------------------

Reader ==
    \/ Start
    \/ Tick
    \/ ReadRecord
    \/ ReadDocument
    \/ DocumentMissing
    \/ ChooseUnrecorded
    \/ InstallUnrecorded
    \/ InstallGeneration
    \/ RefuseGeneration
    \/ Settle

RuntimeNext ==
    \/ Next /\ UNCHANGED readerVars
    \/ Start
    \/ Tick
    \/ ReadRecord
    \/ ReadDocument
    \/ DocumentMissing
    \/ ChooseUnrecorded
    \/ InstallUnrecorded
    \/ InstallGeneration
    \/ RefuseGeneration
    \/ Settle
    \/ PersistFails
    \/ ReadFails
    \/ Die
    \/ Revert
    \/ LoseRecord
    \/ CorruptCopy
    \/ Discard

RuntimeSpec == RuntimeInit /\ [][RuntimeNext]_runtimeVars

\* The supervisor restarts a stopped process, and the refresh loop keeps
\* making passes.
ReaderFairness == WF_runtimeVars(Reader)

FairRuntimeSpec == RuntimeSpec /\ ReaderFairness

--------------------------------------------------------------------------------
(* Properties.                                                             *)

\* The replica's state has the shape the code gives it.
RuntimeTypeOK ==
    /\ at \in Kinds \cup {"down", "record", "choose", "unrecorded", "settle", "serving"}
    /\ starting \in BOOLEAN
    /\ refused \in BOOLEAN
    /\ got # Corrupt => got.record \in committed \cup {None}
    /\ floor # 0 => \E generation \in committed : generation.generation = floor
    /\ stored \in committed \cup {None}
    /\ pending # None => pending.record \in committed
    /\ copy \notin {None, Corrupt} => copy.record \in committed
    /\ installed \subseteq committed

\* A replica that reports serving a generation resolves every request
\* against exactly that generation's three documents, and it is one that was
\* published, although it reads the files one by one while they are replaced
\* and merges them into registries that keep what they hold.
ViewIsOneGeneration ==
    view # None /\ view.stamp # None =>
        /\ view.stamp \in committed
        /\ \A kind \in Kinds : Digest(view[kind]) = view.stamp.documents[kind].digest

\* The generation of a copy that could be served, and of what is served.
CopyGeneration == IF copy \in {None, Corrupt} THEN 0 ELSE Number(copy)

ServedGeneration == IF view = None \/ view.stamp = None THEN 0 ELSE view.stamp.generation

\* A replica never serves an older generation than it served before, nor an
\* unrecorded state after a recorded one, and what it first serves after a
\* restart is no older than its copy: whatever is put back on the volume,
\* and whether the process died before or after it persisted the copy.
ServedNeverRegresses ==
    [][view' # None =>
          /\ ServedGeneration' >= ServedGeneration
          /\ view' # view /\ starting => ServedGeneration' >= CopyGeneration]_runtimeVars

\* A copy is only written over by a generation this replica installed, no
\* older than the copy, and a copy refused at start is left for an operator.
CopyFollowsService ==
    [][copy' \notin {copy, None, Corrupt} =>
          /\ copy'.record \in installed
          /\ Number(copy') >= CopyGeneration
          /\ refused => copy = None]_runtimeVars

\* The generation a view or a copy amounts to: its record, naming the
\* documents that are really there.
AsGeneration(stamp, documents) ==
    [stamp EXCEPT !.documents =
        [kind \in Kinds |-> [@[kind] EXCEPT !.digest = Digest(documents[kind])]]]

Promise == INSTANCE GenerationService WITH
    Nothing   <- None,
    published <- committed,
    served    <- IF view = None THEN None
                 ELSE IF view.stamp = None THEN [generation |-> 0]
                 ELSE AsGeneration(view.stamp, view),
    kept      <- IF copy \in {None, Corrupt} THEN None
                 ELSE AsGeneration(copy.record, copy.payload)

\* Publishers, files, reader and copy together do no more than the abstract
\* service promises: requests only ever meet whole published generations in
\* order, over restarts too, and before the first record nothing kept is
\* passed over for unrecorded files.
ImplementsService == Promise!Service

\* Once the published files stay one whole generation, the replica ends up
\* serving it, whichever of its own passes were interrupted and whatever
\* became of its copy: no half-finished pass, stale floor or refused copy
\* stops it.  (Part of the instance, not of this: files are not put back to
\* an older generation, and no cut-off publication shows a replica what is
\* declared again with other content; AdmittedIsTaken is about that.)
CatchesUp ==
    <>[](record # None /\ Whole(Held)) => <>[](view # None /\ view.stamp = record)

\* What the publisher's per-resource guard is for: a replica's registries
\* take every complete generation that its floor admits.
AdmittedIsTaken ==
    at = "choose" =>
        LET published == Published(got)
        IN  published \notin {None, Corrupt} /\ Number(published) >= floor
                => TakesGeneration(published)

================================================================================
