------------------------- MODULE FilesystemPublication -------------------------
(***************************************************************************)
(* The filesystem adapter of fabric-runtime-publication, run by publishers *)
(* that may overlap, crash and fail at every file.                         *)
(*                                                                         *)
(* `publish` takes an advisory lock, clears stale staging files, reads     *)
(* what is held, plans (PublicationPlan) and then writes, one atomic       *)
(* replacement at a time: data sources, catalogue, tenants (each payload,  *)
(* then its manifest), the issuer registry, and last the record that makes *)
(* them one generation.  Nothing makes the whole sequence atomic.          *)
(***************************************************************************)
EXTENDS PublicationPlan

CONSTANTS
    Publishers,   \* processes that publish to these files
    Contract,     \* the contract version each one is built at
    Snapshots,    \* the snapshots that may be offered
    MaxFaults     \* bound: crashes and failed writes in one behaviour

ASSUME PublisherAssumption ==
    /\ None \notin Publishers
    /\ Contract \in [Publishers -> Contracts]

ASSUME SnapshotAssumption ==
    /\ Snapshots \subseteq RuntimeSnapshot
    /\ None \notin Snapshots

ASSUME FaultAssumption == MaxFaults \in Nat

VARIABLES
    payload,    \* the payload file of each document
    manifest,   \* the manifest file of each document: its revision
    registry,   \* issuer-registry.json
    record,     \* publication.json
    staging,    \* the targets with a temporary file beside them
    lock,       \* who holds the publication lock
    pc,         \* where each publisher is in `publish`
    doc,        \* the document it is writing
    offer,      \* the snapshot it offers
    plan,       \* what its plan decided
    faults,     \* faults so far, at most MaxFaults
    committed,  \* history: every record that was ever in place
    stamped,    \* history: every registry that was ever in place
    torn        \* history: the last admitted plan, until its publication ends

files == <<payload, manifest, registry, record>>
procs == <<lock, pc, doc, offer, plan>>
history == <<committed, stamped>>
vars == <<payload, manifest, registry, record, staging, lock, pc, doc, offer, plan,
          faults, committed, stamped, torn>>

Held == [payload |-> payload, manifest |-> manifest,
         registry |-> registry, record |-> record]

Init ==
    /\ payload = [kind \in Kinds |-> None]
    /\ manifest = [kind \in Kinds |-> None]
    /\ registry = None
    /\ record = None
    /\ staging = {}
    /\ lock = None
    /\ pc = [p \in Publishers |-> "idle"]
    /\ doc = [p \in Publishers |-> "data_sources"]
    /\ offer = [p \in Publishers |-> None]
    /\ plan = [p \in Publishers |-> None]
    /\ faults = 0
    /\ committed = {}
    /\ stamped = {}
    /\ torn = None

--------------------------------------------------------------------------------
(* Calling publish.                                                        *)

\* A publication pass offers a snapshot to the target.
Offer(p, snapshot) ==
    /\ pc[p] = "idle"
    /\ pc' = [pc EXCEPT ![p] = "offered"]
    /\ offer' = [offer EXCEPT ![p] = snapshot]
    /\ UNCHANGED <<files, staging, lock, doc, plan, faults, history, torn>>

\* The pass gives up an offer that did not complete: its retries are spent,
\* or its process went away.
Abandon(p) ==
    /\ pc[p] = "offered"
    /\ pc' = [pc EXCEPT ![p] = "idle"]
    /\ offer' = [offer EXCEPT ![p] = None]
    /\ UNCHANGED <<files, staging, lock, doc, plan, faults, history, torn>>

\* Seeded fault: the lock is taken whoever holds it.
AcquireUnchecked(p) ==
    /\ pc[p] = "offered"
    /\ lock' = p
    /\ pc' = [pc EXCEPT ![p] = "locked"]
    /\ UNCHANGED <<files, staging, doc, offer, plan, faults, history, torn>>

\* PublicationLock::acquire.  A held lock refuses the call at once; the
\* publisher then offers again, or abandons.
Acquire(p) ==
    /\ pc[p] = "offered"
    /\ lock = None
    /\ lock' = p
    /\ pc' = [pc EXCEPT ![p] = "locked"]
    /\ UNCHANGED <<files, staging, doc, offer, plan, faults, history, torn>>

\* The call returns, dropping the lock.
Return(p, next) ==
    /\ lock' = None
    /\ pc' = [pc EXCEPT ![p] = next]
    /\ plan' = [plan EXCEPT ![p] = None]
    /\ doc' = [doc EXCEPT ![p] = "data_sources"]

\* With the lock held: stale staging files are removed, the files are read
\* and the plan refuses the snapshot.
PlanRefused(p) ==
    /\ pc[p] = "locked"
    /\ ~Admitted(Held, Contract[p], offer[p])
    /\ staging' = {}
    /\ Return(p, "idle")
    /\ offer' = [offer EXCEPT ![p] = None]
    /\ UNCHANGED <<files, faults, history, torn>>

\* As above, and the plan admits the snapshot.
PlanAdmitted(p) ==
    /\ pc[p] = "locked"
    /\ Admitted(Held, Contract[p], offer[p])
    /\ staging' = {}
    /\ plan' = [plan EXCEPT ![p] = Plan(Held, Contract[p], offer[p])]
    /\ pc' = [pc EXCEPT ![p] = "payload"]
    /\ torn' = [contract |-> Contract[p], snapshot |-> offer[p],
                record |-> Plan(Held, Contract[p], offer[p]).record]
    /\ UNCHANGED <<files, lock, doc, offer, faults, history>>

--------------------------------------------------------------------------------
(* Writing.  A file is replaced whole: its bytes are staged beside it and  *)
(* renamed over it, then the directory is synced.                          *)

NextDocument == [data_sources |-> "catalog", catalog |-> "tenants"]

\* Past one document: to the next one, or to the registry.
Advance(p) ==
    IF doc[p] = "tenants"
    THEN pc' = [pc EXCEPT ![p] = "registry"] /\ doc' = doc
    ELSE /\ pc' = [pc EXCEPT ![p] = "payload"]
         /\ doc' = [doc EXCEPT ![p] = NextDocument[doc[p]]]

Writing(p) == pc[p] \in {"payload", "manifest", "registry", "record"}

\* The file the next write replaces.
Target(p) == IF pc[p] \in {"payload", "manifest"} THEN <<pc[p], doc[p]>> ELSE <<pc[p], "">>

\* Whether the plan has that file written at all.
Due(p) ==
    /\ Writing(p)
    /\ (IF pc[p] \in {"payload", "manifest"} THEN doc[p] ELSE pc[p]) \in plan[p].writes

\* The rename: the target holds the new bytes.
Land(p) ==
    /\ Due(p)
    /\ Target(p) \notin staging
    /\ payload' = IF pc[p] = "payload"
                  THEN [payload EXCEPT ![doc[p]] = plan[p].snapshot[doc[p]].payload]
                  ELSE payload
    /\ manifest' = IF pc[p] = "manifest"
                   THEN [manifest EXCEPT ![doc[p]] = plan[p].snapshot[doc[p]].revision]
                   ELSE manifest
    /\ registry' = IF pc[p] = "registry" THEN plan[p].registry ELSE registry
    /\ record' = IF pc[p] = "record" THEN plan[p].record ELSE record
    /\ stamped' = IF pc[p] = "registry" THEN stamped \cup {plan[p].registry} ELSE stamped
    /\ committed' = IF pc[p] = "record" THEN committed \cup {plan[p].record} ELSE committed

\* The step after the file the publisher is at.
Onward(p) ==
    CASE pc[p] = "payload"  -> pc' = [pc EXCEPT ![p] = "manifest"] /\ doc' = doc
      [] pc[p] = "manifest" -> Advance(p)
      [] pc[p] = "registry" -> pc' = [pc EXCEPT ![p] = "record"] /\ doc' = doc
      [] pc[p] = "record"   -> pc' = [pc EXCEPT ![p] = "done"] /\ doc' = doc

\* A file is written and the publisher goes on to the next.
Write(p) ==
    /\ Land(p)
    /\ Onward(p)
    /\ UNCHANGED <<staging, lock, offer, plan, faults, torn>>

\* An unchanged document, registry or record is not written: for a document,
\* neither payload nor manifest.
Skip(p) ==
    /\ Writing(p)
    /\ ~Due(p)
    /\ IF pc[p] = "payload" THEN Advance(p) ELSE Onward(p)
    /\ UNCHANGED <<files, staging, lock, offer, plan, faults, history, torn>>

\* The publication is complete and its report returned.
Finish(p) ==
    /\ pc[p] = "done"
    /\ Return(p, "idle")
    /\ offer' = [offer EXCEPT ![p] = None]
    /\ torn' = None
    /\ UNCHANGED <<files, staging, faults, history>>

--------------------------------------------------------------------------------
(* Faults.  Each ends the call with the offer outstanding.                 *)

Fault == faults < MaxFaults /\ faults' = faults + 1

\* Staging, filling or renaming fails: nothing is replaced and the temporary
\* file is removed.  A temporary file already there fails it too, and stays.
WriteFails(p) ==
    /\ Due(p)
    /\ IF Target(p) \in staging THEN faults' = faults ELSE Fault
    /\ Return(p, "offered")
    /\ UNCHANGED <<files, staging, offer, history, torn>>

\* The rename happened and the directory sync failed: the new bytes are in
\* place, and the call reports an error all the same.
SyncFails(p) ==
    /\ Land(p)
    /\ Fault
    /\ Return(p, "offered")
    /\ UNCHANGED <<staging, offer, torn>>

\* The process dies, which drops the lock; a file it was staging stays.
Crash(p) ==
    /\ pc[p] \notin {"idle", "offered"}
    /\ Fault
    /\ Return(p, "offered")
    /\ \/ staging' = staging
       \/ Due(p) /\ staging' = staging \cup {Target(p)}
    /\ UNCHANGED <<files, offer, history, torn>>

--------------------------------------------------------------------------------

Next ==
    \E p \in Publishers :
        \/ \E snapshot \in Snapshots : Offer(p, snapshot)
        \/ Abandon(p)
        \/ Acquire(p)
        \/ PlanRefused(p)
        \/ PlanAdmitted(p)
        \/ Write(p)
        \/ Skip(p)
        \/ Finish(p)
        \/ WriteFails(p)
        \/ SyncFails(p)
        \/ Crash(p)

Spec == Init /\ [][Next]_vars

\* A publisher inside `publish` keeps running, and one whose offer is
\* outstanding keeps offering it: the lock is only tried, never queued for,
\* so an attempt has to meet it free, again and again if need be.
Fairness ==
    \A p \in Publishers :
        /\ WF_vars(PlanRefused(p) \/ PlanAdmitted(p) \/ Write(p) \/ Skip(p) \/ Finish(p))
        /\ WF_vars(Target(p) \in staging /\ WriteFails(p))
        /\ SF_vars(Acquire(p))

FairSpec == Spec /\ Fairness

--------------------------------------------------------------------------------
(* Properties.                                                             *)

\* Values have the shape the code gives them; in particular the generation
\* stays within the width of its counter.
TypeOK ==
    /\ payload \in [data_sources : DataSourcesDocument \cup {None},
                   catalog      : CatalogDocument \cup {None},
                   tenants      : TenantsDocument \cup {None}]
    /\ manifest \in [Kinds -> Revisions \cup {None}]
    /\ registry \in RegistryDocument \cup {None}
    /\ record \in PublicationRecord \cup {None}
    /\ staging \subseteq {"payload", "manifest"} \X Kinds \cup {"registry", "record"} \X {""}
    /\ lock \in Publishers \cup {None}
    /\ pc \in [Publishers -> {"idle", "offered", "locked", "payload", "manifest",
                              "registry", "record", "done"}]
    /\ doc \in [Publishers -> Kinds]
    /\ offer \in [Publishers -> Snapshots \cup {None}]
    /\ faults \in 0 .. MaxFaults

\* A generation number never names two different records, whatever crashed,
\* failed or overlapped, below the number at which the count saturates:
\* plan/record.rs numbers a record one past the held one, under the lock.
GenerationNamesOneRecord ==
    \A a, b \in committed :
        a.generation = b.generation /\ a.generation < MaxGeneration => a = b

\* No registry generation is ever stamped on two different registries,
\* committed or not: generation_choice.rs's promise, across publications
\* interrupted between the registry and the record.
RegistryGenerationStampedOnce ==
    \A a, b \in stamped : a.generation = b.generation => a = b

\* A resource that two generations publish has a higher revision in the
\* later one, or the same revision and the same content: what readers rely
\* on when they ignore older revisions and refuse same-revision changes.
\* It has to survive removal, redeclaration and interrupted publications.
ResourceRevisionsAdvance ==
    \A a, b \in committed : \A kind \in {"tenants", "data_sources"} :
        LET earlier == a.documents[kind].digest.sha256
            later   == b.documents[kind].digest.sha256
        IN  a.generation < b.generation =>
                \A x \in Ids(earlier) \cap Ids(later) :
                    \/ later[x].revision > earlier[x].revision
                    \/ later[x] = earlier[x]

\* At every moment the tenants file binds only data sources the data-sources
\* file declares, although the two are replaced separately and a crash may
\* fall between them: the write order of adapter.rs and the retirement rule
\* of validate.rs together.
NoDanglingBindingOnDisk ==
    payload["tenants"] # None =>
        BindingsResolve(payload["tenants"], HeldPayload(Held, "data_sources"))

\* Whether the files are exactly what a record names.
Whole(held) ==
    /\ \A kind \in Kinds :
          /\ Digest(held.payload[kind]) = held.record.documents[kind].digest
          /\ held.manifest[kind] = held.record.documents[kind].revision
    /\ held.record.registry # None => Digest(held.registry) = held.record.registry.digest

\* When a record appears, everything it names is already in place, and it
\* does not go back in generation: it is written last and under the lock.
RecordLandsWhole ==
    [][record' # record =>
          /\ Whole(Held')
          /\ record # None => record'.generation >= record.generation]_vars

\* Offering an admitted snapshot again is safe at every point of its
\* publication: the plan still admits it, and comes to the same documents,
\* registry and generation.  publish_with_retry relies on it.
RetryAdmitted ==
    torn # None =>
        LET retried == PlannedRecord(Held, torn.contract, torn.snapshot)
        IN  /\ Admitted(Held, torn.contract, torn.snapshot)
            /\ retried.documents = torn.record.documents
            /\ retried.registry = torn.record.registry
            /\ retried.generation = torn.record.generation

\* Every offer is eventually answered, published or refused, or given up:
\* no crashed publisher leaves a lock or a staging file that blocks the next.
OfferSettles ==
    \A p \in Publishers : offer[p] # None ~> offer[p] = None

================================================================================
