----------------------------- MODULE MCClients ------------------------------
(* The client model: lifecycle, readiness, products, catalogue and identity *)
(* documents, on small instances.  The components share no state, so a      *)
(* behaviour explores one of them with the others at rest.                  *)
EXTENDS Naturals, Sequences, FiniteSets, TLC

CONSTANTS
    Scenarios, None, Other, r1, r2, x1, x2, git, mirror, orders, billing, portal,
    invoice, plain, declaring, public, internal

VARIABLES
    scenario,   \* what this behaviour explores
    lifecycleDocument, writes, past, store, request, lifecycleHandEdits,
    lifecycleFaults, retired,
    declared, placements, tombstoned, held, frontier, published, last,
    readinessHandEdits, readinessFaults,
    catalogueStored, bound, operator, requests, catalogueFaults, rebinds, landed,
    productDocument, productHandEdits, legacy,
    identityStored

\* The operators of the catalogue, and its repositories, only name one another.
Interchangeable == Permutations({x1, x2}) \cup Permutations({git, mirror})

\* Drafts that author a resource, leave it to a component's descriptor, or hold neither.
SomeDrafts ==
    {[authored |-> {invoice}, component |-> "described", plan |-> TRUE],
     [authored |-> {invoice}, component |-> "authored", plan |-> TRUE],
     [authored |-> {}, component |-> "capability", plan |-> TRUE],
     [authored |-> {}, component |-> "none", plan |-> FALSE]}

Unreleased(draft) == [draft |-> draft, releases |-> << >>]

TwoApplications ==
    (orders :> Unreleased([authored |-> {invoice}, component |-> "none", plan |-> TRUE]))
 @@ (billing :>
     Unreleased([authored |-> {invoice}, component |-> "authored", plan |-> TRUE]))

On(scheme, labels) ==
    [scheme |-> scheme, rest |-> "slashes", userinfo |-> FALSE, bracket |-> "none",
     labels |-> labels, port |-> "none", tail |-> "path"]

\* Hosts of up to three labels, four-label addresses, and every other part of a callback
\* varied on a few hosts.
Labels == {"shop", "nz", "localhost", "internal", "test", "-x", "a_b", "non-ascii", "0", "1",
           "127", "256", "2001", "2130706433", "::1", "::ffff:127.0.0.1", "2001:db8::1", "",
           "08", "0x7f", "0xg", "0177"}
Hosts ==
    [1..1 -> Labels] \cup [1..2 -> Labels \ {"2001", "2001:db8::1", "0xg"}]
        \cup [1..3 -> {"localhost", "127", "0x7f", "1", "256", "shop", "nz"}]
        \cup [1..4 -> {"127", "0", "1", "0x7f"}]
Varied ==
    {[scheme |-> scheme, rest |-> rest, userinfo |-> userinfo, bracket |-> bracket,
      labels |-> labels, port |-> port, tail |-> tail] :
        scheme \in {"http", "https", "nz.fieldstate.slipway", "other"},
        rest \in {"slashes", "digit", "path"}, userinfo \in BOOLEAN,
        bracket \in {"none", "closed", "open"},
        labels \in {<<"::1">>, <<"2001:db8::1">>, <<"shop", "nz">>, <<"localhost">>},
        port \in {"none", "wildcard"}, tail \in {"path", "wildcard", "inner"}}
SomeCallbacks == Varied \cup {On(scheme, labels) : scheme \in {"http", "https"}, labels \in Hosts}

UsualCallbacks ==
    {On("https", <<"shop", "nz">>), On("https", <<"shop", "internal">>),
     [On("http", <<"localhost">>) EXCEPT !.tail = "wildcard"],
     [On("https", <<"shop", "nz">>) EXCEPT !.tail = "wildcard"],
     [On("nz.fieldstate.slipway", <<"shop">>) EXCEPT !.rest = "path"]}

Lifecycle == INSTANCE ClientLifecycle WITH
    Times <- {1}, MaxWrites <- 3, MaxHandEdits <- 1, MaxFaults <- 1,
    Requests <- {r1, r2}, Operators <- {"ann"}, document <- lifecycleDocument,
    handEdits <- lifecycleHandEdits, faults <- lifecycleFaults

Readiness == INSTANCE ClientReadiness WITH
    Logicals <- {"orders", "people"}, Sources <- {"east", "west"}, Passers <- BOOLEAN,
    MaxRevision <- 2, MaxFaults <- 2, handEdits <- readinessHandEdits,
    faults <- readinessFaults
Withdrawn == INSTANCE ClientReadiness WITH
    Logicals <- {"orders", "people"}, Sources <- {"east", "west"}, Passers <- {TRUE},
    MaxRevision <- 2, MaxFaults <- 2, handEdits <- readinessHandEdits,
    faults <- readinessFaults

Catalogue == INSTANCE ProductCatalogue WITH
    Applications <- {orders, billing}, Resources <- {invoice},
    Digests <- {plain, declaring},
    Declares <- (plain :> {}) @@ (declaring :> {invoice}), Reserved <- {},
    Operators <- {x1, x2}, Repositories <- {git, mirror}, Drafts <- SomeDrafts,
    Held <- TwoApplications, MaxRequests <- 3, MaxFaults <- 1, MaxRebinds <- 1,
    stored <- catalogueStored, faults <- catalogueFaults

Product == INSTANCE ClientProduct WITH
    Applications <- {orders, billing}, Domains <- {billing}, Manual <- {portal},
    Hosts <- {public, internal}, Internal <- {internal}, MaxHandEdits <- 2,
    document <- productDocument, handEdits <- productHandEdits

Identity == INSTANCE IdentityDocument WITH
    Callbacks <- SomeCallbacks, Usual <- UsualCallbacks, stored <- identityStored

ASSUME ScenarioAssumptions ==
    /\ Lifecycle!LifecycleAssumption
    /\ Readiness!ReadinessAssumption
    /\ Withdrawn!ReadinessAssumption
    /\ Catalogue!CatalogueAssumption
    /\ Product!ProductAssumption

lifecycleVars == <<lifecycleDocument, writes, past, store, request, lifecycleHandEdits,
                   lifecycleFaults, retired>>

readinessVars == <<declared, placements, tombstoned, held, frontier, published, last,
                   readinessHandEdits, readinessFaults>>

catalogueVars == <<catalogueStored, bound, operator, requests, catalogueFaults,
                   rebinds, landed>>

productVars == <<productDocument, productHandEdits, legacy>>

identityVars == <<identityStored>>

-----------------------------------------------------------------------------
(* Components at rest                                                      *)

Rest == "at rest"

LifecycleRest ==
    /\ lifecycleDocument = Rest /\ writes = Rest /\ past = Rest /\ store = Rest
    /\ request = Rest /\ lifecycleHandEdits = Rest /\ lifecycleFaults = Rest
    /\ retired = Rest
ReadinessRest ==
    /\ declared = Rest /\ placements = Rest /\ tombstoned = Rest /\ held = Rest
    /\ frontier = Rest /\ published = Rest /\ last = Rest /\ readinessHandEdits = Rest
    /\ readinessFaults = Rest
CatalogueRest ==
    /\ catalogueStored = Rest /\ bound = Rest /\ operator = Rest /\ requests = Rest
    /\ catalogueFaults = Rest /\ rebinds = Rest /\ landed = Rest
ProductRest ==
    /\ productDocument = Rest /\ productHandEdits = Rest /\ legacy = Rest
IdentityRest ==
    /\ identityStored = Rest

Init ==
    /\ scenario \in Scenarios
    /\ \/ scenario = "lifecycle" /\ Lifecycle!LifecycleInit
       \/ scenario # "lifecycle" /\ LifecycleRest
    /\ \/ scenario = "readiness" /\ Readiness!ReadinessInit
       \/ scenario = "withdrawal" /\ Withdrawn!ReadinessInit
       \/ scenario \notin {"readiness", "withdrawal"} /\ ReadinessRest
    /\ \/ scenario = "catalogue" /\ Catalogue!Init
       \/ scenario # "catalogue" /\ CatalogueRest
    /\ \/ scenario = "product" /\ Product!Init
       \/ scenario # "product" /\ ProductRest
    /\ \/ scenario = "identity" /\ Identity!Init
       \/ scenario # "identity" /\ IdentityRest

InLifecycle(here, act) ==
    /\ scenario = here /\ act
    /\ UNCHANGED <<scenario, readinessVars, catalogueVars, productVars, identityVars>>

LifecycleNext ==
    \/ InLifecycle("lifecycle", \E r \in {r1, r2}, kind \in Lifecycle!Kinds, expected \in Lifecycle!Revisions : Lifecycle!Ask(r, kind, "ann", 1, expected))
    \/ InLifecycle("lifecycle", \E r \in {r1, r2} : Lifecycle!Create(r, "ann"))
    \/ InLifecycle("lifecycle", \E r \in {r1, r2} : Lifecycle!Pending(r))
    \/ InLifecycle("lifecycle", \E r \in {r1, r2} : Lifecycle!Prepare(r))
    \/ InLifecycle("lifecycle", \E r \in {r1, r2} : Lifecycle!Replay(r))
    \/ InLifecycle("lifecycle", \E r \in {r1, r2} : Lifecycle!Recover(r))
    \/ InLifecycle("lifecycle", \E r \in {r1, r2} : Lifecycle!ReadAccepted(r))
    \/ InLifecycle("lifecycle", \E r \in {r1, r2} : Lifecycle!Reserve(r))
    \/ InLifecycle("lifecycle", \E r \in {r1, r2} : Lifecycle!Write(r))
    \/ InLifecycle("lifecycle", \E r \in {r1, r2} : Lifecycle!WriteConflicts(r))
    \/ InLifecycle("lifecycle", \E r \in {r1, r2} : Lifecycle!LateWrite(r))
    \/ InLifecycle("lifecycle", \E r \in {r1, r2} : Lifecycle!NeverLands(r))
    \/ InLifecycle("lifecycle", \E r \in {r1, r2} : Lifecycle!Complete(r))
    \/ InLifecycle("lifecycle", \E r \in {r1, r2} : Lifecycle!Release(r))
    \/ InLifecycle("lifecycle", \E r \in {r1, r2} : Lifecycle!Unretained(r))
    \/ InLifecycle("lifecycle", \E r \in {r1, r2} : Lifecycle!WriteUnconfirmed(r))
    \/ InLifecycle("lifecycle", \E r \in {r1, r2} : Lifecycle!CutOff(r))
    \/ InLifecycle("lifecycle", Lifecycle!Edit)
    \/ InLifecycle("lifecycle", Lifecycle!HandEdit)

InReadiness(here, act) ==
    /\ scenario = here /\ act
    /\ UNCHANGED <<scenario, lifecycleVars, catalogueVars, productVars, identityVars>>

ReadinessVariant ==
    /\ scenario = "withdrawal" /\ Withdrawn!ReadinessNext
    /\ UNCHANGED <<scenario, lifecycleVars, catalogueVars, productVars, identityVars>>

ReadinessNext ==
    \/ InReadiness("readiness", \E l \in {"orders", "people"} : Readiness!HandEdit(l))
    \/ InReadiness("readiness", \E l \in {"orders", "people"}, source \in {"east", "west"} : Readiness!Place(l, source))
    \/ InReadiness("readiness", \E mine \in BOOLEAN : Readiness!Pass(mine))
    \/ InReadiness("readiness", Readiness!Interrupted)
    \/ InReadiness("readiness", Readiness!Lost)
    \/ InReadiness("readiness", Readiness!Restart)
    \/ InReadiness("readiness", Readiness!Tombstone)
    \/ InReadiness("readiness", Readiness!Restore)
    \/ ReadinessVariant

InCatalogue(here, act) ==
    /\ scenario = here /\ act
    /\ UNCHANGED <<scenario, lifecycleVars, readinessVars, productVars, identityVars>>

CatalogueNext ==
    \/ InCatalogue("catalogue", \E o \in {x1, x2} : Catalogue!GetCatalogue(o))
    \/ InCatalogue("catalogue", \E o \in {x1, x2} : Catalogue!ResolutionRefused(o))
    \/ InCatalogue("catalogue", \E o \in {x1, x2} : Catalogue!SaveFails(o))
    \/ InCatalogue("catalogue", \E o \in {x1, x2}, command \in Catalogue!Commands : Catalogue!Change(o, command))
    \/ InCatalogue("catalogue", \E o \in {x1, x2}, a \in {orders, billing} : Catalogue!Select(o, a))
    \/ InCatalogue("catalogue", \E o \in {x1, x2}, digest \in {plain, declaring} : Catalogue!Resolve(o, digest))
    \/ InCatalogue("catalogue", \E o \in {x1, x2}, answered \in BOOLEAN : Catalogue!Save(o, answered))
    \/ InCatalogue("catalogue", \E r \in {git, mirror} : Catalogue!Rebind(r))

InProduct(here, act) ==
    /\ scenario = here /\ act
    /\ UNCHANGED <<scenario, lifecycleVars, readinessVars, catalogueVars, identityVars>>

ProductNext ==
    \/ InProduct("product", \E hosts \in SUBSET {public, internal}, scheme \in Product!Schemes \cup {None}, assigned \in SUBSET {orders, billing} :
            Product!SetProduct(hosts, scheme, assigned))
    \/ InProduct("product", \E i \in Product!Ids : \E redirect \in Product!Redirects : Product!SetIdentity(i, redirect))
    \/ InProduct("product", Product!Retire)
    \/ InProduct("product", Product!HandEdit)

InIdentity(here, act) ==
    /\ scenario = here /\ act
    /\ UNCHANGED <<scenario, lifecycleVars, readinessVars, catalogueVars, productVars>>

IdentityNext ==
    \/ InIdentity("identity", Identity!Save)
    \/ InIdentity("identity", \E i \in DOMAIN identityStored.clients, strategy \in Identity!Strategies : \E uris \in Identity!Small :
            Identity!Edit(i, [strategy |-> strategy, uris |-> uris]))
    \/ InIdentity("identity", Identity!Relabel)

Next == LifecycleNext \/ ReadinessNext \/ CatalogueNext \/ ProductNext \/ IdentityNext

vars == <<scenario, lifecycleVars, readinessVars, catalogueVars, productVars,
          identityVars>>

Spec == Init /\ [][Next]_vars

-----------------------------------------------------------------------------
(* Properties                                                              *)

\* Without a hand edit, what the lifecycle service wrote is what its store accepted or
\* holds pending, and nothing but a restore brings a retired client back, whichever
\* attempts interleave, fail or are cut off (client_lifecycle, continuity.rs).
LifecycleHolds == scenario = "lifecycle" => Lifecycle!NoOrphanWrite /\ Lifecycle!RetirementSticks

\* A client reported ready is served as it is recorded, and one whose withdrawal is
\* reported done is held by the target no more (readiness/evidence.rs).
ReadyIsServed ==
    /\ scenario = "readiness" => Readiness!ReadyIsServed
    /\ scenario = "withdrawal" => Withdrawn!WithdrawalObserved

\* The catalogue a repository holds is one its rules accept, no resource is published by
\* two applications, and no operator's save undoes another's (catalogue/mutations.rs).
CatalogueHolds == scenario = "catalogue" =>
    Catalogue!TypeOK /\ Catalogue!NoConflictIsServed /\ Catalogue!NoLostUpdate

\* A stored document can be repaired and read as what it says: a client whose product and
\* identity diverge can be saved again, a legacy one migrates, a callback is taken as
\* loopback by its name only, a public one is a registered domain, and an entitlement is
\* given once (product.rs, identity/rules.rs).
DocumentsStayWhole ==
    /\ scenario = "product" =>
           Product!TypeOK /\ Product!DivergenceIsRepairable /\ Product!LegacyMigrates
    /\ scenario = "identity" =>
           /\ Identity!TypeOK /\ Identity!LoopbackByNameOnly
           /\ Identity!PublicIsRegistered /\ Identity!OneEntitlement

\* What a change of a client keeps: a restore that is granted can be published, a
\* release is never taken back or changed, a saved product is the one its identity
\* projects, an edit does not part them, what was declared by hand stays, and a saved
\* document reads as what was saved.
ChangesKeepTheRest == [][
    /\ scenario = "readiness" => Readiness!RestoredPublishes
    /\ scenario = "catalogue" => Catalogue!ReleasesOnlyGrow
    /\ scenario = "product" => /\ Product!SavedProductIsProjected /\ Product!EditsDoNotDiverge
                               /\ Product!HandDeclaredIsKept
    /\ scenario = "identity" => Identity!SavedReadsTheSame]_vars

=============================================================================
