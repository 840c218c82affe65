------------------------ MODULE MCPublicationSettles ------------------------
(* What publication and the lifecycle of clients must some time reach, under *)
(* the fairness their schedulers give, on small instances.  The components   *)
(* share no state, so a behaviour explores one with the others at rest.      *)
EXTENDS Naturals, Sequences, TLC

CONSTANTS
    Scenarios, None, Corrupt, l1, t1, d1, d2, x1, x2

VARIABLES
    scenario,   \* what this behaviour explores
    offersPayload, offersManifest, offersRegistry, offersRecord, offersStaging,
    offersLock, offersPc, offersDoc, offersOffer, offersPlan, offersFaults,
    offersCommitted, offersStamped, offersTorn,
    replicaPayload, replicaManifest, replicaRegistry, replicaRecord, replicaStaging,
    replicaLock, replicaPc, replicaDoc, replicaOffer, replicaPlan, replicaFaults,
    replicaCommitted, replicaStamped, replicaTorn, at, starting, got, applied, view,
    floor, pending, stored, refused, copy, readerFaults, reverts, copyLosses, installed,
    desired, target, pass, state, wholes, passFaults,
    recoveryPayload, recoveryManifest, recoveryRegistry, recoveryRecord, restore,
    audit, kept, named, damage, cuts, failures,
    document, writes, past, store, request, handEdits, lifecycleFaults, retired

Snapshot(revision, tenants, sources) ==
    [tenants      |-> [revision |-> revision, payload |-> tenants, emptying |-> "Intended"],
     data_sources |-> [revision |-> revision, payload |-> sources,
                       emptying |-> "NotIntended"],
     catalog      |-> [revision |-> 1, payload |-> {l1}, emptying |-> "NotIntended"],
     registry     |-> None]

Bound(revision, source) == t1 :> [revision |-> revision, data |-> l1 :> source]
Source(revision, body) == [revision |-> revision, body |-> body]
Sources(first, second) == (d1 :> first) @@ (d2 :> second)

\* Three snapshots that overlap in every document.
Contended ==
    {Snapshot(1, t1 :> None, Sources(Source(1, "x"), None)),
     Snapshot(2, Bound(1, d1), Sources(Source(1, "x"), Source(1, "x"))),
     Snapshot(2, Bound(1, d2), Sources(Source(2, "y"), Source(1, "x")))}

\* A tenant moved to another data source while the first one changes.
Moved ==
    {Snapshot(1, Bound(1, d1), Sources(Source(1, "x"), None)),
     Snapshot(2, Bound(2, d2), Sources(Source(2, "y"), Source(1, "x")))}

\* One tenant, and a data source whose body changes with its revision.
Recoverable ==
    {[Snapshot(revision, Bound(binding, d1), d1 :> Source(source, IF source = 1 THEN "x" ELSE "y"))
        EXCEPT !.tenants.emptying = "NotIntended"] :
        revision \in 1 .. 3, binding \in 1 .. 2, source \in 1 .. 2}

Offers == INSTANCE FilesystemPublication WITH
    Tenants <- {t1}, DataSources <- {d1, d2}, Logicals <- {l1}, Issuers <- {},
    Bodies <- {"x", "y"}, Revisions <- 1 .. 3, Contracts <- {3},
    Publishers <- {x1, x2}, Contract <- [p \in {x1, x2} |-> 3], Snapshots <- Contended,
    MaxGeneration <- 4, MaxFaults <- 2, payload <- offersPayload,
    manifest <- offersManifest, registry <- offersRegistry, record <- offersRecord,
    staging <- offersStaging, lock <- offersLock, pc <- offersPc, doc <- offersDoc,
    offer <- offersOffer, plan <- offersPlan, faults <- offersFaults,
    committed <- offersCommitted, stamped <- offersStamped, torn <- offersTorn

Replica == INSTANCE PublishedRuntime WITH
    Tenants <- {t1}, DataSources <- {d1, d2}, Logicals <- {l1}, Issuers <- {},
    Bodies <- {"x", "y"}, Revisions <- 1 .. 3, Contracts <- {3}, Publishers <- {x1},
    Contract <- [p \in {x1} |-> 3], Snapshots <- Moved, MaxGeneration <- 3,
    MaxFaults <- 0, KeepsCopy <- TRUE, MaxReaderFaults <- 2, MaxReverts <- 0,
    MaxCopyLosses <- 1, payload <- replicaPayload, manifest <- replicaManifest,
    registry <- replicaRegistry, record <- replicaRecord, staging <- replicaStaging,
    lock <- replicaLock, pc <- replicaPc, doc <- replicaDoc, offer <- replicaOffer,
    plan <- replicaPlan, faults <- replicaFaults, committed <- replicaCommitted,
    stamped <- replicaStamped, torn <- replicaTorn

Pass == INSTANCE PublicationPass WITH
    Publishers <- {x1}, MaxVersion <- 2, MaxRevision <- 5, MaxFaults <- 1,
    faults <- passFaults

Recovery == INSTANCE HeldRecovery WITH
    Tenants <- {t1}, DataSources <- {d1}, Logicals <- {l1}, Issuers <- {},
    Bodies <- {"x", "y"}, Revisions <- 1 .. 3, Contracts <- {3},
    Snapshots <- Recoverable, TheContract <- 3, DamageKinds <- {"payload", "manifest"},
    MaxDamage <- 2, MaxCuts <- 0, MaxFailures <- 1, MaxGeneration <- 4,
    payload <- recoveryPayload, manifest <- recoveryManifest,
    registry <- recoveryRegistry, record <- recoveryRecord

Lifecycle == INSTANCE ClientLifecycle WITH
    Requests <- {x1, x2}, Operators <- {"ann"}, Times <- {1}, MaxWrites <- 3,
    MaxHandEdits <- 0, MaxFaults <- 1, faults <- lifecycleFaults
Later == INSTANCE ClientLifecycle WITH
    Requests <- {x1, x2}, Operators <- {"ann"}, Times <- {1, 2}, MaxWrites <- 2,
    MaxHandEdits <- 0, MaxFaults <- 1, faults <- lifecycleFaults

ASSUME ScenarioAssumptions ==
    /\ Pass!PassAssumption
    /\ Recovery!RecoveryAssumption
    /\ Lifecycle!LifecycleAssumption
    /\ Later!LifecycleAssumption

offersVars == <<offersPayload, offersManifest, offersRegistry, offersRecord,
                offersStaging, offersLock, offersPc, offersDoc, offersOffer,
                offersPlan, offersFaults, offersCommitted, offersStamped, offersTorn>>

replicaVars == <<replicaPayload, replicaManifest, replicaRegistry, replicaRecord,
                 replicaStaging, replicaLock, replicaPc, replicaDoc, replicaOffer,
                 replicaPlan, replicaFaults, replicaCommitted, replicaStamped,
                 replicaTorn, at, starting, got, applied, view, floor, pending, stored,
                 refused, copy, readerFaults, reverts, copyLosses, installed>>

passVars == <<desired, target, pass, state, wholes, passFaults>>

recoveryVars == <<recoveryPayload, recoveryManifest, recoveryRegistry, recoveryRecord,
                  restore, audit, kept, named, damage, cuts, failures>>

lifecycleVars == <<document, writes, past, store, request, handEdits, lifecycleFaults,
                   retired>>

-----------------------------------------------------------------------------
(* Components at rest                                                      *)

Rest == "at rest"

OffersRest ==
    /\ offersPayload = Rest /\ offersManifest = Rest /\ offersRegistry = Rest
    /\ offersRecord = Rest /\ offersStaging = Rest /\ offersLock = Rest
    /\ offersPc = Rest /\ offersDoc = Rest /\ offersOffer = Rest /\ offersPlan = Rest
    /\ offersFaults = Rest /\ offersCommitted = Rest /\ offersStamped = Rest
    /\ offersTorn = Rest
ReplicaRest ==
    /\ replicaPayload = Rest /\ replicaManifest = Rest /\ replicaRegistry = Rest
    /\ replicaRecord = Rest /\ replicaStaging = Rest /\ replicaLock = Rest
    /\ replicaPc = Rest /\ replicaDoc = Rest /\ replicaOffer = Rest
    /\ replicaPlan = Rest /\ replicaFaults = Rest /\ replicaCommitted = Rest
    /\ replicaStamped = Rest /\ replicaTorn = Rest /\ at = Rest /\ starting = Rest
    /\ got = Rest /\ applied = Rest /\ view = Rest /\ floor = Rest /\ pending = Rest
    /\ stored = Rest /\ refused = Rest /\ copy = Rest /\ readerFaults = Rest
    /\ reverts = Rest /\ copyLosses = Rest /\ installed = Rest
PassRest ==
    /\ desired = Rest /\ target = Rest /\ pass = Rest /\ state = Rest /\ wholes = Rest
    /\ passFaults = Rest
RecoveryRest ==
    /\ recoveryPayload = Rest /\ recoveryManifest = Rest /\ recoveryRegistry = Rest
    /\ recoveryRecord = Rest /\ restore = Rest /\ audit = Rest /\ kept = Rest
    /\ named = Rest /\ damage = Rest /\ cuts = Rest /\ failures = Rest
LifecycleRest ==
    /\ document = Rest /\ writes = Rest /\ past = Rest /\ store = Rest /\ request = Rest
    /\ handEdits = Rest /\ lifecycleFaults = Rest /\ retired = Rest

Init ==
    /\ scenario \in Scenarios
    /\ \/ scenario = "offers" /\ Offers!Init
       \/ scenario # "offers" /\ OffersRest
    /\ \/ scenario = "replica" /\ Replica!RuntimeInit
       \/ scenario # "replica" /\ ReplicaRest
    /\ \/ scenario = "pass" /\ Pass!PassInit
       \/ scenario # "pass" /\ PassRest
    /\ \/ scenario = "recovery" /\ Recovery!RecoveryInit
       \/ scenario # "recovery" /\ RecoveryRest
    /\ \/ scenario = "lifecycle" /\ Lifecycle!LifecycleInit
       \/ scenario = "later" /\ Later!LifecycleInit
       \/ scenario \notin {"lifecycle", "later"} /\ LifecycleRest

InOffers(here, act) ==
    /\ scenario = here /\ act
    /\ UNCHANGED <<scenario, replicaVars, passVars, recoveryVars, lifecycleVars>>

OffersNext ==
    \/ InOffers("offers", Offers!Next)

InReplica(here, act) ==
    /\ scenario = here /\ act
    /\ UNCHANGED <<scenario, offersVars, passVars, recoveryVars, lifecycleVars>>

ReplicaNext ==
    \/ InReplica("replica", Replica!RuntimeNext)

InPass(here, act) ==
    /\ scenario = here /\ act
    /\ UNCHANGED <<scenario, offersVars, replicaVars, recoveryVars, lifecycleVars>>

PassNext ==
    \/ InPass("pass", Pass!PassNext)

InRecovery(here, act) ==
    /\ scenario = here /\ act
    /\ UNCHANGED <<scenario, offersVars, replicaVars, passVars, lifecycleVars>>

RecoveryNext ==
    \/ InRecovery("recovery", Recovery!RecoveryNext)

InLifecycle(here, act) ==
    /\ scenario = here /\ act
    /\ UNCHANGED <<scenario, offersVars, replicaVars, passVars, recoveryVars>>

LifecycleVariant ==
    /\ scenario = "later" /\ Later!RetriedNext
    /\ UNCHANGED <<scenario, offersVars, replicaVars, passVars, recoveryVars>>

LifecycleNext ==
    \/ InLifecycle("lifecycle", Lifecycle!RetriedNext)
    \/ LifecycleVariant

Next == OffersNext \/ ReplicaNext \/ PassNext \/ RecoveryNext \/ LifecycleNext

vars == <<scenario, offersVars, replicaVars, passVars, recoveryVars, lifecycleVars>>

Spec == Init /\ [][Next]_vars

(* A behaviour keeps its scenario, so what is fair of a union of their actions *)
(* is fair of each.                                                          *)

\* What goes on by itself once begun: a publication, in which a write that meets its own staging
\* file fails; the replica's restarts and refreshes, the scheduler's passes and a restore, of
\* which there is one each; and a request.
Goes(p) ==
    \/ InOffers("offers",
           \/ Offers!PlanRefused(p) \/ Offers!PlanAdmitted(p)
           \/ Offers!Write(p) \/ Offers!Skip(p) \/ Offers!Finish(p)
           \/ Offers!Target(p) \in offersStaging /\ Offers!WriteFails(p))
    \/ p = x1 /\ \/ InReplica("replica", Replica!Reader)
                 \/ InPass("pass", Pass!Step(x1) /\ Pass!Watch)
                 \/ InRecovery("recovery", Recovery!RestoreStep)
    \/ InLifecycle("lifecycle", Lifecycle!RequestStep(p))
    \/ InLifecycle("later", Later!RequestStep(p))

\* What is tried again until it succeeds: an outstanding offer, a restore by the operator who
\* holds the copy, a transition sent again as it was.
Retries(p) ==
    \/ InOffers("offers", Offers!Acquire(p))
    \/ p = x1 /\ InRecovery("recovery",
           \E kind \in Recovery!Kinds : \E offered \in kept[kind] :
               Recovery!BeginRestore(kind, offered))
    \/ InLifecycle("lifecycle", Lifecycle!AskAgain(p))
    \/ InLifecycle("later", Later!AskAgain(p))

FairSpec == Spec /\ \A p \in {x1, x2} : WF_vars(Goes(p)) /\ SF_vars(Retries(p))

-----------------------------------------------------------------------------
(* Properties                                                              *)

\* Publication comes to rest: every offer is answered or given up, whoever crashed with the
\* lock or a staging file (filesystem.rs); once operators stop, the target holds what is
\* desired (publication/pass.rs); and a document damaged under a whole record is put back,
\* after failed writes and crashes of the restore too (held_recovery).
PublicationSettles ==
    /\ \A p \in {x1, x2} : []<>(scenario = "offers" => offersOffer[p] = None)
    /\ <>[](scenario = "pass" => Pass!DesiredIsPublished)
    /\ \A kind \in {"tenants", "data_sources"} :
           []<>(scenario = "recovery" => ~Recovery!Blocking(kind))

\* Once the published files stay one whole generation, the replica ends up serving it,
\* whichever of its own passes were interrupted and whatever became of its copy: no
\* half-finished pass, stale floor or refused copy stops it (fabric-tenant-runtime).  Here no
\* publication is cut off and no resource declared again at a revision it once had: where
\* both happen it may not, which is AdmittedIsTaken's counterexample.
CatchesUp ==
    <>[](scenario = "replica" => replicaRecord # None /\ Replica!Whole(Replica!Held)) =>
    <>[](scenario = "replica" => view # None /\ view.stamp = replicaRecord)

\* A transition left pending is completed or cleared when its operator keeps sending it,
\* however the earlier attempts ended (record.rs: "Only the same request sent again, with the
\* same If-Match, goes on").
RetrySettles ==
    []<>(scenario \in {"lifecycle", "later"} =>
             ~(store # None /\ store.pending # None
               /\ store.pending.kind \in Lifecycle!Kinds))

=============================================================================
