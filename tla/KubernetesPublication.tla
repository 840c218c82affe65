------------------------- MODULE KubernetesPublication -------------------------
(***************************************************************************)
(* The Kubernetes adapter of fabric-publication-kubernetes: the three      *)
(* documents are three ConfigMaps, the record and the issuer registry keys *)
(* of the tenants one.  There is no lock.  A publisher reads the objects   *)
(* one by one, plans (PublicationPlan), reads again those it relies on but *)
(* leaves alone, and replaces the others, each only if it is still at the  *)
(* version it was read at: data sources, catalogue, tenants.  Publishers   *)
(* interleave at every call, and an answer may be lost.                     *)
(***************************************************************************)
EXTENDS PublicationPlan, Sequences

CONSTANTS
    Publishers,     \* processes that publish
    Snapshots,      \* the snapshots that may be offered
    TheContract,    \* the publishers' contract version
    MaxVersion,     \* bound on the versions of an object
    MaxFaults       \* bound on failed calls and crashes

\* What a ConfigMap of that kind holds, under the version the API server gives it.
ConfigMap(kind) ==
    [version  : Nat \ {0},
     payload  : IF kind = "tenants" THEN TenantsDocument
                ELSE IF kind = "data_sources" THEN DataSourcesDocument ELSE CatalogDocument,
     revision : Revisions,
     record   : IF kind = "tenants" THEN PublicationRecord ELSE {None},
     registry : IF kind = "tenants" THEN RegistryDocument \cup {None} ELSE {None}]

KubernetesAssumption ==
    /\ MaxVersion \in Nat /\ MaxFaults \in Nat
    /\ Snapshots \subseteq RuntimeSnapshot
    /\ TheContract \in Contracts
    /\ \A kind \in Kinds : None \notin ConfigMap(kind)

VARIABLES
    object,     \* each ConfigMap, None before it is created
    publisher,  \* where each publisher is
    faults

kubernetesVars == <<object, publisher, faults>>

\* The order of reading and the order of writing.
ReadOrder == <<"tenants", "data_sources", "catalog">>

WriteOrder == <<"data_sources", "catalog", "tenants">>

Idle == [pc |-> "idle"]

KubernetesInit ==
    /\ object = [kind \in Kinds |-> None]
    /\ publisher = [p \in Publishers |-> Idle]
    /\ faults = 0

Go(p, next) == publisher' = [publisher EXCEPT ![p] = next]

VersionOf(read) == IF read = None THEN 0 ELSE read.version

\* held: what the reads say, the record and registry from the tenants object.
HeldOf(reads) ==
    [payload  |-> [k \in Kinds |-> IF reads[k] = None THEN None ELSE reads[k].payload],
     manifest |-> [k \in Kinds |-> IF reads[k] = None THEN None ELSE reads[k].revision],
     registry |-> IF reads["tenants"] = None THEN None ELSE reads["tenants"].registry,
     record   |-> IF reads["tenants"] = None THEN None ELSE reads["tenants"].record]

\* publish is called with a snapshot.
Offer(p, snapshot) ==
    /\ publisher[p].pc = "idle"
    /\ Go(p, [pc |-> "read", next |-> 1, offer |-> snapshot, reads |-> [k \in Kinds |-> None]])
    /\ UNCHANGED <<object, faults>>

\* Reads::fetch, one object at a time.
ReadOne(p) ==
    /\ publisher[p].pc = "read"
    /\ LET n == publisher[p].next IN
       Go(p, [publisher[p] EXCEPT !.reads[ReadOrder[n]] = object[ReadOrder[n]],
                                  !.next = n + 1, !.pc = IF n = 3 THEN "plan" ELSE "read"])
    /\ UNCHANGED <<object, faults>>

\* tenants_object_plan: the tenants object is written with its record or
\* registry, whatever its payload.
Objects(planned) ==
    (Kinds \cap planned.writes)
        \cup (IF {"record", "registry"} \cap planned.writes # {} THEN {"tenants"} ELSE {})

\* confirm_read_only_unmoved: the documents the plan leaves unchanged,
\* unless nothing at all is written.  The tenants object is among them even
\* when its record is written.
ToConfirm(planned) ==
    IF planned.writes \cap (Kinds \cup {"record"}) = {} THEN {} ELSE Kinds \ planned.writes

\* plan_publication on what was read.
MakePlan(p) ==
    /\ publisher[p].pc = "plan"
    /\ LET held == HeldOf(publisher[p].reads) IN
       IF ~Admitted(held, TheContract, publisher[p].offer) THEN Go(p, Idle)
       ELSE LET planned == Plan(held, TheContract, publisher[p].offer) IN
            Go(p, [pc |-> "confirm", reads |-> publisher[p].reads, plan |-> planned,
                   confirm |-> ToConfirm(planned), next |-> 1, overtaken |-> FALSE])
    /\ UNCHANGED <<object, faults>>

\* An object is not as this publisher read it (noted for the properties).
Overtaken(p) == \E k \in Kinds : VersionOf(object[k]) # VersionOf(publisher[p].reads[k])

\* confirm_unmoved: still at the version it was read at.
Confirm(p) ==
    /\ publisher[p].pc = "confirm"
    /\ LET left == publisher[p].confirm
           due == {i \in 1 .. 3 : WriteOrder[i] \in left}
       IN  IF left = {} THEN Go(p, [publisher[p] EXCEPT !.pc = "write", !.overtaken = Overtaken(p)])
           ELSE LET kind == WriteOrder[CHOOSE i \in due : \A j \in due : i <= j] IN
                IF VersionOf(object[kind]) = VersionOf(publisher[p].reads[kind])
                THEN Go(p, [publisher[p] EXCEPT !.confirm = left \ {kind}])
                ELSE Go(p, Idle)
    /\ UNCHANGED <<object, faults>>

\* object_for: what a write puts in place.  The manifest of a tenants object
\* whose payload is unchanged is kept.
Rendered(p, kind) ==
    LET planned == publisher[p].plan
        read == publisher[p].reads[kind]
        revision == IF kind = "tenants" /\ kind \notin planned.writes /\ read # None /\ read.revision # None
                    THEN read.revision ELSE planned.snapshot[kind].revision
    IN  [version |-> VersionOf(object[kind]) + 1, payload |-> planned.snapshot[kind].payload,
         revision |-> revision,
         record |-> IF kind = "tenants" THEN planned.record ELSE None,
         registry |-> IF kind = "tenants" THEN planned.registry ELSE None]

\* Seeded fault: only the tenants object is written under its version.
PreconditionOnTenants(p, kind) ==
    kind = "tenants" => VersionOf(object[kind]) = VersionOf(publisher[p].reads[kind])

\* The API server's precondition: the version read, or absent for a create.
Precondition(p, kind) == VersionOf(object[kind]) = VersionOf(publisher[p].reads[kind])

Advance(p) ==
    Go(p, IF publisher[p].next = 3 THEN Idle ELSE [publisher[p] EXCEPT !.next = @ + 1])

\* The next object: left alone, written, or refused as another writer changed
\* it.
WriteOne(p) ==
    /\ publisher[p].pc = "write"
    /\ LET kind == WriteOrder[publisher[p].next] IN
       IF kind \notin Objects(publisher[p].plan)
       THEN Advance(p) /\ UNCHANGED object
       ELSE IF ~Precondition(p, kind)
       THEN Go(p, Idle) /\ UNCHANGED object
       ELSE /\ VersionOf(object[kind]) < MaxVersion
            /\ object' = [object EXCEPT ![kind] = Rendered(p, kind)]
            /\ Advance(p)
    /\ UNCHANGED faults

\* A call fails, or the answer to a write that landed is lost: the
\* publication ends where it is.
Fails(p) ==
    /\ publisher[p].pc # "idle"
    /\ faults < MaxFaults
    /\ faults' = faults + 1
    /\ Go(p, Idle)
    /\ UNCHANGED object

PublisherStep(p) == ReadOne(p) \/ MakePlan(p) \/ Confirm(p) \/ WriteOne(p)

KubernetesNext ==
    \E p \in Publishers :
        \/ \E snapshot \in Snapshots : Offer(p, snapshot)
        \/ PublisherStep(p)
        \/ Fails(p)

KubernetesSpec == KubernetesInit /\ [][KubernetesNext]_kubernetesVars

--------------------------------------------------------------------------------
(* Properties.                                                             *)

Resolves ==
    object["tenants"] # None =>
        /\ object["data_sources"] # None
        /\ BindingsResolve(object["tenants"].payload, object["data_sources"].payload)

\* confirm.rs says the check before the first write narrows the window in
\* which a binding to a data source that is gone can be published "to the
\* moments between this check and the writes": a write that leaves one is by
\* a publisher none of whose reads was overtaken when the check ended.
SkewOnlyAfterCheck ==
    Resolves /\ ~Resolves' =>
       \A p \in Publishers : publisher'[p] # publisher[p] => ~publisher[p].overtaken

Revision(document, x) == IF document[x] = None THEN 0 ELSE document[x].revision

\* A replaced object never takes a resource back to an earlier revision, or
\* changes it without a new one, although the plan was made from reads other
\* publishers have since overtaken (resource_revisions.rs, held.rs).
ResourcesMoveForward ==
    \A kind \in {"tenants", "data_sources"} :
       object[kind] # None =>
           \A x \in DOMAIN object[kind].payload :
               LET before == object[kind].payload
                   after == object'[kind].payload
               IN  /\ after[x] # None => Revision(after, x) >= Revision(before, x)
                   /\ after[x] # before[x] /\ after[x] # None =>
                         Revision(after, x) > Revision(before, x)

\* Two publications never record the same generation differently, so a reader
\* that saw a generation saw all there is to it (tenants_object.rs), below the
\* generation at which the count saturates.
GenerationsAreUnique ==
    LET before == object["tenants"].record
        after == object'["tenants"].record
    IN  object["tenants"] # None /\ before.generation < MaxGeneration /\ after # before =>
            after.generation > before.generation

================================================================================
