---------------------------- MODULE MCPublishing ----------------------------
(* Publication from the platform repository to the resolving runtime, on    *)
(* small instances.  The components share no state, so a behaviour explores *)
(* one of them with the others at rest: no interleaving is left out.  The   *)
(* runtime's registries are this module's own state, at rest as they start. *)
EXTENDS RuntimeRegistries, TLC

CONSTANTS
    Scenarios, Corrupt, l1, t1, t2, d1, d2, g1, g2, r1, r2, x1, x2

VARIABLES
    scenario,   \* what this behaviour explores
    branch, live, environmentRequest, published,
    desired, target, pass, state, wholes, passFaults,
    payload, manifest, recoveryRegistry, record, restore, audit, kept, named, damage,
    cuts, failures,
    object, publisher, kubernetesFaults

\* The publishers of a target only name one another, and so do requests.
Interchangeable == Permutations({x1, x2}) \cup Permutations({r1, r2})

Declared(class, body) == [class |-> class, body |-> body]

\* An exclusive data source, and a shared one whose acceptance may change.
FixedClasses ==
    (1 :> {Declared("Dedicated", "open")})
        @@ (2 :> {Declared("Shared", "open"), Declared("Shared", "closed")})

\* One data source whose content changes, or whose class does.
ChangingBody == 1 :> {Declared("Shared", "open"), Declared("Shared", "closed")}
ChangingClass == 1 :> {Declared("Shared", "open"), Declared("Dedicated", "open")}

\* A snapshot of one tenant, its data sources and the catalog.
Snapshot(revision, sourcesRevision, tenants, sources) ==
    [tenants      |-> [revision |-> revision, payload |-> tenants, emptying |-> "NotIntended"],
     data_sources |-> [revision |-> sourcesRevision, payload |-> sources,
                       emptying |-> "NotIntended"],
     catalog      |-> [revision |-> 1, payload |-> {l1}, emptying |-> "NotIntended"],
     registry     |-> None]

Bound(revision, source) == t1 :> [revision |-> revision, data |-> l1 :> source]

Source(revision, body) == [revision |-> revision, body |-> body]

\* One tenant, and a data source whose body changes with its revision.
RecoverySnapshots ==
    {Snapshot(revision, revision, Bound(binding, d1),
              d1 :> Source(source, IF source = 1 THEN "x" ELSE "y")) :
        revision \in 1 .. 3, binding \in 1 .. 2, source \in 1 .. 2}

\* A tenant moved from one data source to another, the first retired and the other
\* changed.
MovedSnapshots ==
    {Snapshot(1, 1, Bound(1, d1), (d1 :> Source(1, "x")) @@ (d2 :> None)),
     Snapshot(1, 2, Bound(1, d1), (d1 :> Source(1, "x")) @@ (d2 :> Source(1, "y"))),
     Snapshot(2, 2, Bound(2, d2), (d1 :> Source(1, "x")) @@ (d2 :> Source(1, "y"))),
     Snapshot(2, 3, Bound(2, d2), (d1 :> None) @@ (d2 :> Source(2, "x")))}

Entry(id, revision, source, isolation) ==
    [id |-> id, revision |-> revision,
     data |-> l1 :> [data_source |-> source, isolation |-> isolation]]

Unbound(id, revision) == [id |-> id, revision |-> revision, data |-> l1 :> None]

Destination(id, revision, destination, placement) ==
    [id |-> id, revision |-> revision, destination |-> destination, placement |-> placement]

\* Repeated keys, invalid entries, older revisions and tenants that share.
SomeTenantSets ==
    {<< >>,
     <<Unbound(t1, 1), Entry(t1, 2, d1, "database")>>,
     <<Entry(t1, 1, d1, "database"), Entry(t1, 3, d2, "database"), Unbound(t2, 1)>>,
     <<Entry(t1, 3, d1, "database"), Entry(t2, 1, d2, "discriminator")>>,
     <<Unbound(t1, 4)>>}

SomeSourceSets ==
    {<<Destination(d1, 1, "x", "dedicated"), Destination(d2, 1, "y", "dedicated")>>,
     <<Destination(d1, 2, "x", "dedicated"), Destination(d2, 2, "x", "dedicated")>>,
     <<Destination(d1, 1, "x", "shared")>>}

SomeSingles == {Entry(t1, 2, d2, "schema"), Entry(t2, 2, d1, "discriminator")}

Environment == INSTANCE PlatformEnvironment WITH
    Requests <- {r1, r2}, Tenants <- {t1, t2}, Logicals <- {l1}, DataSources <- {1, 2},
    Offers <- FixedClasses, Repositories <- {g1}, MaxRevision <- 1, MaxCommits <- 3,
    MaxBindings <- 1, ATTEMPTS <- 2, request <- environmentRequest
Rebinding == INSTANCE PlatformEnvironment WITH
    Requests <- {r1}, Tenants <- {t1}, Logicals <- {l1}, DataSources <- {1},
    Offers <- ChangingBody, Repositories <- {g1, g2}, MaxRevision <- 2,
    MaxCommits <- 2, MaxBindings <- 3, ATTEMPTS <- 2, request <- environmentRequest
Redeclaration == INSTANCE PlatformEnvironment WITH
    Requests <- {r1}, Tenants <- {t1}, Logicals <- {l1}, DataSources <- {1},
    Offers <- ChangingBody, Repositories <- {g1}, MaxRevision <- 4, MaxCommits <- 4,
    MaxBindings <- 1, ATTEMPTS <- 2, request <- environmentRequest
Racing == INSTANCE PlatformEnvironment WITH
    Requests <- {r1, r2}, Tenants <- {t1}, Logicals <- {l1}, DataSources <- {1},
    Offers <- ChangingBody, Repositories <- {g1}, MaxRevision <- 4, MaxCommits <- 5,
    MaxBindings <- 1, ATTEMPTS <- 2, request <- environmentRequest
Correction == INSTANCE PlatformEnvironment WITH
    Requests <- {r1}, Tenants <- {t1}, Logicals <- {l1}, DataSources <- {1},
    Offers <- ChangingClass, Repositories <- {g1}, MaxRevision <- 3, MaxCommits <- 4,
    MaxBindings <- 1, ATTEMPTS <- 2, request <- environmentRequest

Pass == INSTANCE PublicationPass WITH
    Publishers <- {x1, x2}, MaxVersion <- 2, MaxRevision <- 4, MaxFaults <- 1,
    faults <- passFaults

Recovery == INSTANCE HeldRecovery WITH
    Tenants <- {t1}, DataSources <- {d1}, Logicals <- {l1},
    Snapshots <- RecoverySnapshots, DamageKinds <- {"payload", "manifest", "both"},
    MaxDamage <- 1, MaxCuts <- 1, MaxFailures <- 1, Issuers <- {},
    Bodies <- {"x", "y"}, Revisions <- 1 .. 3, Contracts <- {3}, MaxGeneration <- 4,
    TheContract <- 3, registry <- recoveryRegistry
Damaged == INSTANCE HeldRecovery WITH
    Tenants <- {t1}, DataSources <- {d1}, Logicals <- {l1},
    Snapshots <- RecoverySnapshots, DamageKinds <- {"payload", "manifest"},
    MaxDamage <- 2, MaxCuts <- 0, MaxFailures <- 1, Issuers <- {},
    Bodies <- {"x", "y"}, Revisions <- 1 .. 3, Contracts <- {3}, MaxGeneration <- 4,
    TheContract <- 3, registry <- recoveryRegistry

Kubernetes == INSTANCE KubernetesPublication WITH
    Tenants <- {t1}, DataSources <- {d1, d2}, Logicals <- {l1}, Publishers <- {x1, x2},
    Snapshots <- MovedSnapshots, MaxVersion <- 4, MaxFaults <- 1, Issuers <- {},
    Bodies <- {"x", "y"}, Revisions <- 1 .. 3, Contracts <- {3}, MaxGeneration <- 4,
    TheContract <- 3, faults <- kubernetesFaults

ASSUME ScenarioAssumptions ==
    /\ Environment!EnvironmentAssumption
    /\ Rebinding!EnvironmentAssumption
    /\ Redeclaration!EnvironmentAssumption
    /\ Racing!EnvironmentAssumption
    /\ Correction!EnvironmentAssumption
    /\ Pass!PassAssumption
    /\ Recovery!RecoveryAssumption
    /\ Damaged!RecoveryAssumption
    /\ Kubernetes!KubernetesAssumption

environmentVars == <<branch, live, environmentRequest, published>>

passVars == <<desired, target, pass, state, wholes, passFaults>>

recoveryVars == <<payload, manifest, recoveryRegistry, record, restore, audit, kept,
                  named, damage, cuts, failures>>

kubernetesVars == <<object, publisher, kubernetesFaults>>

-----------------------------------------------------------------------------
(* Components at rest                                                      *)

Rest == "at rest"

EnvironmentRest ==
    /\ branch = Rest /\ live = Rest /\ environmentRequest = Rest /\ published = Rest
PassRest ==
    /\ desired = Rest /\ target = Rest /\ pass = Rest /\ state = Rest /\ wholes = Rest
    /\ passFaults = Rest
RecoveryRest ==
    /\ payload = Rest /\ manifest = Rest /\ recoveryRegistry = Rest /\ record = Rest
    /\ restore = Rest /\ audit = Rest /\ kept = Rest /\ named = Rest /\ damage = Rest
    /\ cuts = Rest /\ failures = Rest
KubernetesRest ==
    /\ object = Rest /\ publisher = Rest /\ kubernetesFaults = Rest

Init ==
    /\ scenario \in Scenarios
    /\ \/ scenario = "environment" /\ Environment!EnvironmentInit
       \/ scenario = "rebinding" /\ Rebinding!EnvironmentInit
       \/ scenario = "redeclaration" /\ Redeclaration!EnvironmentInit
       \/ scenario = "racing" /\ Racing!EnvironmentInit
       \/ scenario = "correction" /\ Correction!EnvironmentInit
       \/ scenario \notin {"environment", "rebinding", "redeclaration", "racing", "correction"} /\ EnvironmentRest
    /\ \/ scenario = "pass" /\ Pass!PassInit
       \/ scenario # "pass" /\ PassRest
    /\ \/ scenario = "recovery" /\ Recovery!RecoveryInit
       \/ scenario = "damaged" /\ Damaged!RecoveryInit
       \/ scenario \notin {"recovery", "damaged"} /\ RecoveryRest
    /\ \/ scenario = "kubernetes" /\ Kubernetes!KubernetesInit
       \/ scenario # "kubernetes" /\ KubernetesRest
    /\ RegistriesInit

InEnvironment(here, act) ==
    /\ scenario = here /\ act
    /\ UNCHANGED <<scenario, passVars, recoveryVars, kubernetesVars, registryVars>>

EnvironmentVariant ==
    /\ \/ scenario = "rebinding" /\ Rebinding!EnvironmentNext
       \/ scenario = "redeclaration" /\ Redeclaration!EnvironmentNext
       \/ scenario = "racing" /\ Racing!EnvironmentNext
       \/ scenario = "correction" /\ Correction!EnvironmentNext
    /\ UNCHANGED <<scenario, passVars, recoveryVars, kubernetesVars, registryVars>>

EnvironmentNext ==
    \/ InEnvironment("environment", \E bound \in {g1, None} : Environment!Swap(bound))
    \/ InEnvironment("environment", \E r \in {r1, r2}, file \in {"data_sources", "placements"} : Environment!View(r, file))
    \/ InEnvironment("environment", \E r \in {r1, r2}, id \in {1, 2} : \E offer \in FixedClasses[id] : Environment!Declare(r, id, offer))
    \/ InEnvironment("environment", \E r \in {r1, r2}, id \in {1, 2} : Environment!Remove(r, id))
    \/ InEnvironment("environment", \E r \in {r1, r2} : Environment!RemovePlan(r))
    \/ InEnvironment("environment", \E r \in {r1, r2}, t \in {t1, t2}, class \in {"Shared", "Dedicated"} : Environment!Place(r, t, l1, class))
    \/ InEnvironment("environment", \E r \in {r1, r2} : Environment!PlacePlan(r))
    \/ InEnvironment("environment", \E r \in {r1, r2} : Environment!Write(r))
    \/ InEnvironment("environment", \E r \in {r1, r2} : Environment!Locate(r))
    \/ InEnvironment("environment", \E r \in {r1, r2} : Environment!Commit(r))
    \/ InEnvironment("environment", \E r \in {r1, r2} : Environment!Rebase(r))
    \/ InEnvironment("environment", \E r \in {r1, r2} : Environment!Unavailable(r))
    \/ InEnvironment("environment", Environment!OtherCommit(g1))
    \/ InEnvironment("environment", Environment!Publish)
    \/ EnvironmentVariant

InPass(here, act) ==
    /\ scenario = here /\ act
    /\ UNCHANGED <<scenario, environmentVars, recoveryVars, kubernetesVars, registryVars>>

\* Four changes of what is desired.
DesireBound == desired'.data_sources + desired'.tenants + desired'.catalog <= 5

PassNext ==
    \/ InPass("pass", \E p \in {x1, x2} : (Pass!ReadHeld(p)) /\ Pass!Watch)
    \/ InPass("pass", \E p \in {x1, x2} : (Pass!DeclaredDataSources(p)) /\ Pass!Watch)
    \/ InPass("pass", \E p \in {x1, x2} : (Pass!RecordedPlacements(p)) /\ Pass!Watch)
    \/ InPass("pass", \E p \in {x1, x2} : (Pass!Compose(p)) /\ Pass!Watch)
    \/ InPass("pass", \E p \in {x1, x2} : (Pass!Offer(p)) /\ Pass!Watch)
    \/ InPass("pass", \E p \in {x1, x2} : (Pass!InspectRecord(p)) /\ Pass!Watch)
    \/ InPass("pass", \E p \in {x1, x2} : (Pass!InspectDocuments(p)) /\ Pass!Watch)
    \/ InPass("pass", \E p \in {x1, x2} : (Pass!Record(p)) /\ Pass!Watch)
    \/ InPass("pass", \E p \in {x1, x2} : (Pass!ReadFails(p)) /\ Pass!Watch)
    \/ InPass("pass", \E p \in {x1, x2} : (Pass!Interrupted(p)) /\ Pass!Watch)
    \/ InPass("pass", \E p \in {x1, x2} : (Pass!Restart(p)) /\ Pass!Watch)
    \/ InPass("pass", \E kind \in Pass!Kinds : Pass!Desire(kind) /\ DesireBound /\ Pass!Watch)

InRecovery(here, act) ==
    /\ scenario = here /\ act
    /\ UNCHANGED <<scenario, environmentVars, passVars, kubernetesVars, registryVars>>

RecoveryVariant ==
    /\ scenario = "damaged" /\ Damaged!RecoveryNext
    /\ UNCHANGED <<scenario, environmentVars, passVars, kubernetesVars, registryVars>>

RecoveryNext ==
    \/ InRecovery("recovery", \E snapshot \in RecoverySnapshots, n \in 0 .. 8 : Recovery!Publish(snapshot, n))
    \/ InRecovery("recovery", \E kind \in Recovery!Kinds : Recovery!Damage(kind))
    \/ InRecovery("recovery", \E kind \in Recovery!Kinds : \E offered \in kept[kind] : Recovery!BeginRestore(kind, offered))
    \/ InRecovery("recovery", Recovery!PutPayload)
    \/ InRecovery("recovery", Recovery!PutManifest)
    \/ InRecovery("recovery", Recovery!Report)
    \/ InRecovery("recovery", Recovery!WriteFails)
    \/ InRecovery("recovery", Recovery!Crash)
    \/ RecoveryVariant

InKubernetes(here, act) ==
    /\ scenario = here /\ act
    /\ UNCHANGED <<scenario, environmentVars, passVars, recoveryVars, registryVars>>

KubernetesNext ==
    \/ InKubernetes("kubernetes", \E p \in {x1, x2}, snapshot \in MovedSnapshots : Kubernetes!Offer(p, snapshot))
    \/ InKubernetes("kubernetes", \E p \in {x1, x2} : Kubernetes!ReadOne(p))
    \/ InKubernetes("kubernetes", \E p \in {x1, x2} : Kubernetes!MakePlan(p))
    \/ InKubernetes("kubernetes", \E p \in {x1, x2} : Kubernetes!Confirm(p))
    \/ InKubernetes("kubernetes", \E p \in {x1, x2} : Kubernetes!WriteOne(p))
    \/ InKubernetes("kubernetes", \E p \in {x1, x2} : Kubernetes!Fails(p))

InRuntime(here, act) ==
    /\ scenario = here /\ act
    /\ UNCHANGED <<scenario, environmentVars, passVars, recoveryVars, kubernetesVars>>

RuntimeNext ==
    \/ InRuntime("runtime", Load)
    \/ InRuntime("runtime", LoadFails)
    \/ InRuntime("runtime", Wake)
    \/ InRuntime("runtime", Shutdown)
    \/ InRuntime("runtime", Call)
    \/ InRuntime("runtime", \E w \in Writers : Acquire(w))
    \/ InRuntime("runtime", \E w \in Writers : GiveUp(w))
    \/ InRuntime("runtime", \E w \in Writers : Swap(w))
    \/ InRuntime("runtime", \E w \in Writers : Announce(w))
    \/ InRuntime("runtime", PinTenants)
    \/ InRuntime("runtime", PinSources)

Next == EnvironmentNext \/ PassNext \/ RecoveryNext \/ KubernetesNext \/ RuntimeNext

vars == <<scenario, environmentVars, passVars, recoveryVars, kubernetesVars,
          registryVars>>

Spec == Init /\ [][Next]_vars

-----------------------------------------------------------------------------
(* Properties                                                              *)

\* The desired state in the platform repository (desired/environment): no placement
\* lies on a data source that does not exist or does not take it, a request writes the
\* repository it read from, and a declaration is numbered above what was published
\* under its id, whichever requests interleave and however the binding is replaced.
DesiredStateHolds ==
    /\ scenario = "environment" => Environment!EnvironmentTypeOK /\ Environment!PlacementsCoherent
    /\ scenario = "rebinding" => Rebinding!WritesWhereItRead
    /\ scenario = "redeclaration" => Redeclaration!RedeclaredAbove

\* A readiness report whose documents gate is met names a record that the target held
\* whole during the pass it was observed in (documents_gate.rs, observation.rs).
MetMeansWhole == scenario = "pass" => Pass!MetMeansWhole

\* A restore reported as failed touched nothing, or was reported as uncertain, and one
\* reported as completed left the document the record names; and a document revision is
\* given to one content only, a lost manifest notwithstanding (held/recovery).
RestoreReportsTruly ==
    /\ scenario = "recovery" =>
           Recovery!FailedMeansUntouched /\ Recovery!CompletedMeansRecorded
    /\ scenario = "damaged" => Damaged!RevisionNamesOneContent

\* What is published only moves forward: no request undoes another's write to the
\* repository, no pass, nor two writers of the Kubernetes objects or of a runtime's
\* registries, put a resource back to an older revision, no generation is given to two
\* records, and only a published empty set empties a registry.  How far tenants may run
\* ahead of their data sources meanwhile is SkewOnlyAfterCheck's question, not this one's.
PublishedMovesForward == [][
    /\ scenario = "environment" => Environment!NoLostUpdate
    /\ scenario = "pass" => Pass!ResourcesNeverRegress
    /\ scenario = "kubernetes" => Kubernetes!ResourcesMoveForward /\ Kubernetes!GenerationsAreUnique
    /\ RevisionsMoveForward /\ EmptyMeansPublishedEmpty]_vars

\* What the documents and comments of the code say and a behaviour contradicts, each
\* checked by a configuration of its own.

\* data_sources/declare.rs: a declaration is numbered above what was published.
RedeclaredAbove == scenario = "racing" => Racing!RedeclaredAbove

\* placements: no placement lies on a data source whose class does not take it.
PlacementsCoherent == scenario = "correction" => Correction!PlacementsCoherent

\* kubernetes/confirm.rs: a binding to a data source that is gone is published only in
\* the moments between the check and the writes.
SkewOnlyAfterCheck == [][scenario = "kubernetes" => Kubernetes!SkewOnlyAfterCheck]_vars

=============================================================================
