----------------------------- MODULE MCPlatform -----------------------------
(* The platform's own management: the registries it reads through,           *)
(* reconciling an identity provider and moving environments between          *)
(* releases, on small instances.  The components share no state, so a        *)
(* behaviour explores one with the others at rest.  The registries are this  *)
(* module's own state, with none recorded while they rest; their scenarios   *)
(* differ by what they bound.                                                *)
EXTENDS Integers, Sequences, RegistryConnections, TLC

CONSTANTS
    Scenarios, p1, x1, x2, y1, y2, o1, ghcr, own, e1, e2, i1, i2, s1

VARIABLES
    scenario,   \* what this behaviour explores
    desired, unmarked, realm, ids, ledger, report, pass, removed, placed, written,
    touched, edits, reconcileFaults,
    source, images, attached, head, manifest, pins, running, op, pushes, commits,
    releasesFaults, requests

\* x1 and x2 stand for two passes, sweepers or ids, y1 and y2 for two callbacks or builds;
\* they only name one another.
Interchangeable == Permutations({x1, x2}) \cup Permutations({y1, y2})

\* A registry of a kind Fabric knows, and one whose endpoint a registration names.
HomeOf == (i1 :> ghcr) @@ (i2 :> own)
FixedEndpoints == (ghcr :> e1) @@ (own :> None)

\* What an earlier process may have left recorded for ghcr: nothing, or a registration
\* with or without its credential and its repository.
LeftRecords ==
    {None} \cup
    {[endpoint |-> e1, secret |-> s1, credential |-> c, proven |-> p] :
        c \in BOOLEAN, p \in {<< >>, i1 :> s1}}
LeftSets == {(ghcr :> r) @@ (own :> None) : r \in LeftRecords}

Recorded == [endpoint |-> e1, secret |-> s1, credential |-> TRUE, proven |-> i1 :> s1]

AllEdits ==
    {"disable", "remove", "junk", "delete", "flow", "public", "pkce", "doubled", "mapper",
     "logout", "add", "rename"}

\* Two lines of previews, a release and a tag that is no version; 112 is the letter p.
AllTags == {"1.0.0-p.2", "1.0.0-p.9", "1.0.0-p.10", "1.0.0-p.q", "1.0.0", "1.1.0-p.1", "latest"}
ParsedTags ==
    [t \in AllTags |->
        CASE t = "1.0.0-p.2"  -> [core |-> 100, pre |-> <<<<112>>, <<2>>>>]
          [] t = "1.0.0-p.9"  -> [core |-> 100, pre |-> <<<<112>>, <<9>>>>]
          [] t = "1.0.0-p.10" -> [core |-> 100, pre |-> <<<<112>>, <<1, 0>>>>]
          [] t = "1.0.0-p.q"  -> [core |-> 100, pre |-> <<<<112>>, <<113>>>>]
          [] t = "1.0.0"      -> [core |-> 100, pre |-> << >>]
          [] t = "1.1.0-p.1"  -> [core |-> 110, pre |-> <<<<112>>, <<1>>>>]
          [] t = "latest"     -> None]

Reconcile == INSTANCE IdentityReconciliation WITH
    Ledger <- TRUE, Passes <- {p1}, Callbacks <- {y1, y2}, Names <- {"a", "b"},
    Audience <- "fabric", Edits <- AllEdits, Starts <- {"empty", "converged"},
    MaxDeclares <- 1, MaxEdits <- 1, MaxFaults <- 1, faults <- reconcileFaults
Overlapping == INSTANCE IdentityReconciliation WITH
    Ledger <- FALSE, Passes <- {x1, x2}, Callbacks <- {y1, y2}, Names <- {"a"},
    Audience <- "fabric", Edits <- {"remove"},
    Starts <- {"converged"}, MaxDeclares <- 1, MaxEdits <- 1, MaxFaults <- 0,
    faults <- reconcileFaults
Stranded == INSTANCE IdentityReconciliation WITH
    Ledger <- TRUE, Passes <- {p1}, Callbacks <- {y1, y2}, Names <- {"a"},
    Audience <- "fabric", Edits <- {"remove"}, Starts <- {"converged"},
    MaxDeclares <- 2, MaxEdits <- 1, MaxFaults <- 0, faults <- reconcileFaults
Applied == INSTANCE IdentityReconciliation WITH
    Ledger <- FALSE, Passes <- {x1, x2}, Callbacks <- {y1, y2}, Names <- {"a"},
    Audience <- "fabric", Edits <- {}, Starts <- {"empty"}, MaxDeclares <- 1,
    MaxEdits <- 0, MaxFaults <- 0, faults <- reconcileFaults
Baseline == INSTANCE IdentityReconciliation WITH
    Ledger <- TRUE, Passes <- {p1}, Callbacks <- {y1, y2}, Names <- {"a"},
    Audience <- "fabric", Edits <- {"create"}, Starts <- {"empty"}, MaxDeclares <- 0,
    MaxEdits <- 1, MaxFaults <- 0, faults <- reconcileFaults

Releases == INSTANCE PlatformReleases WITH
    Sweepers <- {x1, x2}, Operators <- {o1}, Tags <- {"1.0.0-p.9", "1.0.0-p.10"},
    Parsed <- ParsedTags, Roles <- {"api", "web"}, Primary <- "api", Builds <- {y1},
    Provenances <- {y1}, Sources <- {"oci", "helm", "described"},
    Policies <- {"Automatic", "Manual"}, Start <- "1.0.0-p.9", Floor <- "1.0.0-p.9",
    Examined <- 2, Attempts <- 2, MaxPushes <- 2, MaxCommits <- 1, MaxFaults <- 1,
    MaxRequests <- 1, faults <- releasesFaults
Upgrading == INSTANCE PlatformReleases WITH
    Sweepers <- {p1}, Operators <- {o1},
    Tags <- {"1.0.0-p.2", "1.0.0-p.9", "1.0.0-p.10"}, Parsed <- ParsedTags,
    Roles <- {"api", "web"}, Primary <- "api", Builds <- {y1, y2},
    Provenances <- {y1, y2}, Sources <- {"oci"}, Policies <- {"Automatic"},
    Start <- "1.0.0-p.9", Floor <- "1.0.0-p.9", Examined <- 2, Attempts <- 2,
    MaxPushes <- 3, MaxCommits <- 0, MaxFaults <- 0, MaxRequests <- 2,
    faults <- releasesFaults
History == INSTANCE PlatformReleases WITH
    Sweepers <- {x1, x2}, Operators <- {o1}, Tags <- AllTags, Parsed <- ParsedTags,
    Roles <- {"api"}, Primary <- "api", Builds <- {y1},
    Provenances <- {y1, "disagreed"}, Sources <- {"oci", "helm"},
    Policies <- {"Automatic", "Manual", "Locked"}, Start <- "1.0.0-p.q",
    Floor <- "1.0.0-p.9", Examined <- 2, Attempts <- 2, MaxPushes <- 4,
    MaxCommits <- 0, MaxFaults <- 1, MaxRequests <- 0, faults <- releasesFaults
Described == INSTANCE PlatformReleases WITH
    Sweepers <- {p1}, Operators <- {o1}, Tags <- {"1.0.0-p.9", "1.0.0-p.10"},
    Parsed <- ParsedTags, Roles <- {"api", "web"}, Primary <- "api",
    Builds <- {y1, y2}, Provenances <- {y1, y2, "absent"}, Sources <- {"described"},
    Policies <- {"Automatic"}, Start <- "1.0.0-p.9", Floor <- "1.0.0-p.9",
    Examined <- 2, Attempts <- 2, MaxPushes <- 4, MaxCommits <- 0, MaxFaults <- 0,
    MaxRequests <- 1, faults <- releasesFaults
Pausing == INSTANCE PlatformReleases WITH
    Sweepers <- {p1}, Operators <- {o1}, Tags <- {"1.0.0-p.9", "1.0.0-p.10"},
    Parsed <- ParsedTags, Roles <- {"api", "web"}, Primary <- "api", Builds <- {y1},
    Provenances <- {y1}, Sources <- {"oci"}, Policies <- {"Automatic"},
    Start <- "1.0.0-p.10", Floor <- "1.0.0-p.9", Examined <- 2, Attempts <- 2,
    MaxPushes <- 2, MaxCommits <- 0, MaxFaults <- 0, MaxRequests <- 2,
    faults <- releasesFaults

ASSUME ScenarioAssumptions ==
    /\ Reconcile!IdentityReconciliationAssumption
    /\ Overlapping!IdentityReconciliationAssumption
    /\ Stranded!IdentityReconciliationAssumption
    /\ Applied!IdentityReconciliationAssumption
    /\ Baseline!IdentityReconciliationAssumption
    /\ Releases!PlatformReleasesAssumption
    /\ Upgrading!PlatformReleasesAssumption
    /\ History!PlatformReleasesAssumption
    /\ Described!PlatformReleasesAssumption
    /\ Pausing!PlatformReleasesAssumption

RegistryScenarios == {"registries", "leftovers", "unanswered"}

reconcileVars == <<desired, unmarked, realm, ids, ledger, report, pass, removed,
                   placed, written, touched, edits, reconcileFaults>>

releasesVars == <<source, images, attached, head, manifest, pins, running, op, pushes,
                  commits, releasesFaults, requests>>

-----------------------------------------------------------------------------
(* Components at rest                                                      *)

Rest == "at rest"

ReconcileRest ==
    /\ desired = Rest /\ unmarked = Rest /\ realm = Rest /\ ids = Rest /\ ledger = Rest
    /\ report = Rest /\ pass = Rest /\ removed = Rest /\ placed = Rest /\ written = Rest
    /\ touched = Rest /\ edits = Rest /\ reconcileFaults = Rest
ReleasesRest ==
    /\ source = Rest /\ images = Rest /\ attached = Rest /\ head = Rest
    /\ manifest = Rest /\ pins = Rest /\ running = Rest /\ op = Rest /\ pushes = Rest
    /\ commits = Rest /\ releasesFaults = Rest /\ requests = Rest

Init ==
    /\ scenario \in Scenarios
    /\ \/ scenario = "reconcile" /\ Reconcile!Init
       \/ scenario = "passes" /\ Overlapping!Init
       \/ scenario = "stranded" /\ Stranded!Init
       \/ scenario = "applied" /\ Applied!Init
       \/ scenario = "baseline" /\ Baseline!Init
       \/ scenario \notin {"reconcile", "passes", "stranded", "applied", "baseline"} /\ ReconcileRest
    /\ \/ scenario = "releases" /\ Releases!Init
       \/ scenario = "upgrading" /\ Upgrading!Init
       \/ scenario = "history" /\ History!Init
       \/ scenario = "described" /\ Described!Init
       \/ scenario = "pausing" /\ Pausing!Init
       \/ scenario \notin {"releases", "upgrading", "history", "described", "pausing"} /\ ReleasesRest
    /\ ConnectionsInit
    /\ scenario \in {"registries", "unanswered"} => store[ghcr] \in {None, Recorded}
    /\ scenario \notin RegistryScenarios => \A h \in Hosts : store[h] = None
    /\ scenario # "leftovers" => deployment = e1
    /\ scenario = "reconcile" => desired.name = "a"

InReconcile(here, act) ==
    /\ scenario = here /\ act
    /\ UNCHANGED <<scenario, releasesVars, connectionsVars>>

ReconcileVariant ==
    /\ \/ scenario = "passes" /\ Overlapping!Next
       \/ scenario = "stranded" /\ Stranded!Next
       \/ scenario = "applied" /\ Applied!Next
       \/ scenario = "baseline" /\ Baseline!Next
    /\ UNCHANGED <<scenario, releasesVars, connectionsVars>>

ReconcileNext ==
    \/ InReconcile("reconcile", \E uris \in SUBSET {y1, y2} \ {{}}, trusted \in BOOLEAN : Reconcile!Declare(uris, "a", trusted))
    \/ InReconcile("reconcile", \E r \in unmarked : Reconcile!MarkPending(r))
    \/ InReconcile("reconcile", \E kind \in AllEdits : Reconcile!HandEdit(kind))
    \/ InReconcile("reconcile", Reconcile!Sweep(p1))
    \/ InReconcile("reconcile", Reconcile!Reassert(p1))
    \/ InReconcile("reconcile", Reconcile!ReadBaseline(p1))
    \/ InReconcile("reconcile", Reconcile!ReadRealm(p1))
    \/ InReconcile("reconcile", Reconcile!ReadRoles(p1))
    \/ InReconcile("reconcile", Reconcile!ReadClients(p1))
    \/ InReconcile("reconcile", Reconcile!ReadFails(p1))
    \/ InReconcile("reconcile", Reconcile!RecordWriting(p1))
    \/ InReconcile("reconcile", Reconcile!RecordWritten(p1))
    \/ InReconcile("reconcile", Reconcile!CreateRealm(p1))
    \/ InReconcile("reconcile", Reconcile!SetRealmDisplayName(p1))
    \/ InReconcile("reconcile", Reconcile!CreateRealmRole(p1))
    \/ InReconcile("reconcile", Reconcile!CreateOidcClient(p1))
    \/ InReconcile("reconcile", Reconcile!LookUp(p1))
    \/ InReconcile("reconcile", Reconcile!Found(p1))
    \/ InReconcile("reconcile", Reconcile!UpdateOidcClient(p1))
    \/ InReconcile("reconcile", Reconcile!WriteFails(p1))
    \/ InReconcile("reconcile", Reconcile!Record(p1))
    \/ InReconcile("reconcile", Reconcile!Restart)
    \/ ReconcileVariant

InReleases(here, act) ==
    /\ scenario = here /\ act
    /\ UNCHANGED <<scenario, reconcileVars, connectionsVars>>

ReleasesVariant ==
    /\ \/ scenario = "upgrading" /\ Upgrading!Next
       \/ scenario = "history" /\ History!Next
       \/ scenario = "described" /\ Described!Next
       \/ scenario = "pausing" /\ Pausing!Next
    /\ UNCHANGED <<scenario, reconcileVars, connectionsVars>>

ReleasesNext ==
    \/ InReleases("releases", \E r \in {"api", "web"}, t \in {"1.0.0-p.9", "1.0.0-p.10"} : Releases!Push(r, t, y1))
    \/ InReleases("releases", \E r \in {"api", "web"}, t \in {"1.0.0-p.9", "1.0.0-p.10"} : Releases!Withdraw(r, t))
    \/ InReleases("releases", \E t \in {"1.0.0-p.9", "1.0.0-p.10"} : Releases!Describe(t, y1))
    \/ InReleases("releases", \E what \in {"elsewhere", "pins", "manifest", "policy"} : Releases!HandCommit(what))
    \/ InReleases("releases", \E a \in {x1, x2} : Releases!Sweep(a))
    \/ InReleases("releases", Releases!Pause(o1))
    \/ InReleases("releases", Releases!Resume(o1))
    \/ InReleases("releases", \E a \in Releases!Actors : Releases!ReadComponent(a))
    \/ InReleases("releases", \E a \in Releases!Actors : Releases!List(a))
    \/ InReleases("releases", \E a \in Releases!Actors : Releases!ResolveRole(a))
    \/ InReleases("releases", \E a \in Releases!Actors : Releases!ResolveChart(a))
    \/ InReleases("releases", \E a \in Releases!Actors : Releases!ResolvePrimary(a))
    \/ InReleases("releases", \E a \in Releases!Actors : Releases!ReadDescriptor(a))
    \/ InReleases("releases", \E a \in Releases!Actors, r \in {"api", "web"} : Releases!ReadOther(a, r))
    \/ InReleases("releases", \E a \in Releases!Actors : Releases!Write(a))
    \/ InReleases("releases", \E a \in Releases!Actors : Releases!Commit(a))
    \/ InReleases("releases", \E a \in Releases!Actors : Releases!Rebuild(a))
    \/ InReleases("releases", \E a \in Releases!Actors : Releases!Fails(a))
    \/ InReleases("releases", \E v \in Releases!Versions : Releases!RollBack(o1, v))
    \/ InReleases("releases", Releases!Restart)
    \/ ReleasesVariant

\* Two registries at one endpoint and two changes, of which one waits at a time and whose
\* saves and clients answer, and no credential lost but by a change; or one registry,
\* whatever is left of it and wherever the deployment reads it, and one change; or two
\* changes of one registry, one after the other, whose saves may land unanswered.
RegistryBounds ==
    /\ scenario = "registries" => unanswered' = {} /\ unbuilt' = {} /\ lost' = {}
    /\ scenario = "registries" => Cardinality(waiting') <= 1
    /\ scenario \in {"registries", "unanswered"} =>
           /\ deployment' = e1
           /\ \A c \in waiting' : c.request.op = "register" => c.request.endpoint = e1
    /\ scenario \in {"leftovers", "unanswered"} =>
           \A c \in waiting' : c.request.host = ghcr
    /\ scenario = "leftovers" => asked' <= 1
    /\ scenario = "unanswered" =>
           \A c \in waiting' : waiting' = {c} /\ turn' = None /\ finished' = {}

InRegistries(act) ==
    /\ scenario \in RegistryScenarios /\ act /\ RegistryBounds
    /\ UNCHANGED <<scenario, reconcileVars, releasesVars>>

RegistriesNext ==
    \/ InRegistries(Ask)
    \/ InRegistries(\E c \in waiting : Take(c))
    \/ InRegistries(FailProof)
    \/ InRegistries(Prove)
    \/ InRegistries(FailMint)
    \/ InRegistries(PutSecret)
    \/ InRegistries(SwapFirst)
    \/ InRegistries(Saved)
    \/ InRegistries(NotSaved)
    \/ InRegistries(Forget)
    \/ InRegistries(\E f \in finished : Audit(f))
    \/ InRegistries(\E answered \in SUBSET Hosts : RestoreWith(answered))
    \/ InRegistries(RestoreUnread)
    \/ InRegistries(\E r \in Repositories : ReadRefused(HostOf[r], r))
    \/ InRegistries(\E id \in SecretIds : LoseSecret(id))
    \/ InRegistries(Crash)

Next == ReconcileNext \/ ReleasesNext \/ RegistriesNext

vars == <<scenario, reconcileVars, releasesVars, connectionsVars>>

Spec == Init /\ [][Next]_vars

-----------------------------------------------------------------------------
(* Properties                                                              *)

\* What reconciliation records of an identity provider is true of it: what is confirmed as
\* written was written, a client reported applied matches what it declares when no pass
\* is under way, and a pass that undid edits accounts for them (identity/converge,
\* ledger), whatever operators edit and whichever calls fail.  Edits by hand change
\* what a client says or delete it; one that creates a client is ConfirmedWasWritten's.
BaselineIsHonest == scenario = "reconcile" =>
    /\ Reconcile!TypeOK /\ Reconcile!ConfirmedWasWritten
    /\ Reconcile!AppliedIsConverged /\ Reconcile!OverwritesReported

\* What an environment runs (releases): a version above its floor (which `upgrading` has
\* versions below), built from one commit however builds push, withdraw and push again
\* meanwhile; and what is offered to roll back to would be accepted.
ReleasesAreCoherent ==
    /\ scenario = "releases" => Releases!TypeOK /\ Releases!AboveFloor
    /\ scenario = "upgrading" => Upgrading!AboveFloor /\ Upgrading!CoherentRelease
    /\ scenario = "history" => History!TypeOK /\ History!HistoryHonest
    /\ scenario = "described" => Described!CoherentRelease

\* What a step may never do: undo an edit a holding pass saw, take a client's last
\* callback although nobody removed what it declares, move a version while something
\* holds it or against the order of its numbers, or leave something of a registry
\* changed by a change that was refused, but for a save that landed unanswered, which
\* leaves the whole change in the record and nothing of it in the client.
MovesAreDecided == [][
    /\ FailureLeavesItAsItWas
    /\ scenario = "reconcile" => Reconcile!HandEditsHeld
    /\ scenario = "passes" => Overlapping!NotStranded
    /\ scenario = "releases" => Releases!MovesAreDecided /\ Releases!MovesFollowNumbers
    /\ scenario = "upgrading" => Upgrading!MovesAreDecided /\ Upgrading!MovesFollowNumbers]_vars

\* What the documents and comments of the code say and a behaviour contradicts, each
\* checked by a configuration of its own.

\* registries/service/credential.rs: a failure part-way leaves the record naming a
\* credential that is still there, even when the save landed and was not answered.
StoredThoughUnanswered == scenario = "unanswered" => Named \subseteq secrets \cup lost

\* ledger.rs: no pass takes a client's last callback unless an operator had removed all
\* it declares, declarations that follow one another included.
NotStranded == [][scenario = "stranded" => Stranded!NotStranded]_vars

\* ReconciliationStatus::Applied: the provider matches, two passes at once included.
AppliedIsConverged == scenario = "applied" => Applied!AppliedIsConverged

\* ledger.rs: what is confirmed as written was written, for a client somebody else created
\* included.
ConfirmedWasWritten == scenario = "baseline" => Baseline!ConfirmedWasWritten

\* rollback.rs: a later reader can tell that a rollback stopped the environment.
RollbackHoldKept == [][scenario = "pausing" => Pausing!RollbackHoldKept]_vars

=============================================================================
