-------------------------- MODULE ProductCatalogue --------------------------
(***************************************************************************)
(* The product catalogue (fabric-client-model catalogue), the operators    *)
(* who change it through the control plane (service/catalogue,             *)
(* record_selection, resolution) and the repository that stores it         *)
(* (repository, fabric-client-git, local_repository).                      *)
(*                                                                         *)
(* An operator reads the catalogue, sends one command against the revision *)
(* read, and the control plane reads it again, applies the command and     *)
(* writes it where it was read, at the same revision.  A selection asks    *)
(* the registries in between.  The answer to a write may be lost.          *)
(*                                                                         *)
(* Every write appends to the catalogue's activity, so no two contents are *)
(* alike: a revision is named by the request that wrote it.                *)
(***************************************************************************)
EXTENDS Naturals, Sequences, FiniteSets

CONSTANTS Applications,
          Resources,
          Digests,       \* component descriptors the registries hold
          Declares,      \* the resources each of them declares
          Reserved,      \* application ids of the platform's own
          Operators,
          Repositories,
          None,
          Drafts,        \* the drafts operators save
          Held,          \* the catalogue a repository starts with
          MaxRequests,   \* bound: commands sent
          MaxFaults,     \* bound: answers lost
          MaxRebinds     \* bound: rebindings of the desired state

CatalogueAssumption ==
    /\ Drafts \subseteq [authored : SUBSET Resources, plan : BOOLEAN,
                        component : {"none", "authored", "capability", "described"}]
    /\ Declares \in [Digests -> SUBSET Resources] /\ Reserved \subseteq Applications
    /\ MaxRequests \in Nat /\ MaxFaults \in Nat /\ MaxRebinds \in Nat

VARIABLES stored,    \* what each repository holds: a catalogue and its revision
          bound,     \* the repository desired state is bound to
          operator,  \* what each operator saw, and the request they wait for
          requests, faults, rebinds,
          landed     \* history: the last write that landed, or None

vars == <<stored, bound, operator, requests, faults, rebinds, landed>>

---------------------------------------------------------------------------
(* The catalogue                                                           *)

\* `ApplicationComponent`: one component slot of a definition.
Components == {"none", "authored", "capability"} \cup Digests
Kind(component) == IF component \in Digests THEN "described" ELSE component

\* `ApplicationDefinition`: what is authored, one component, whether a plan is offered.
Definitions == [authored : SUBSET Resources, component : Components, plan : BOOLEAN]
Undefined == [authored |-> {}, component |-> "none", plan |-> FALSE]

\* `described`: the descriptor a component was resolved to.
Described(definition) ==
    IF definition.component \in Digests THEN Declares[definition.component] ELSE {}

\* `effective_resources`
EffectiveResources(definition) == definition.authored \cup Described(definition)

\* `validate_described`: a resource is in effect once.
ValidateDescribed(definition) == definition.authored \cap Described(definition) = {}

\* `ApplicationDefinition::validate`
ValidDefinition(definition, publishing) ==
    /\ ValidateDescribed(definition)
    /\ publishing => definition.plan

\* `ApplicationRelease`
Release(version, definition) == [version |-> version, definition |-> definition]

\* A catalogue maps an application to its draft and releases, or to None.
Application(draft, releases) == [draft |-> draft, releases |-> releases]
Known(catalogue) == {a \in Applications : catalogue[a] # None}
Empty == [a \in Applications |-> None]

\* "Release versions must increase."
VersionsIncrease(releases) ==
    \A i \in 1..Len(releases) - 1 : releases[i].version < releases[i + 1].version

\* `Catalogue::validate`
Validate(catalogue) ==
    \A a \in Known(catalogue) :
        /\ ValidDefinition(catalogue[a].draft, FALSE)
        /\ VersionsIncrease(catalogue[a].releases)
        /\ \A i \in 1..Len(catalogue[a].releases) :
              ValidDefinition(catalogue[a].releases[i].definition, TRUE)

\* `into_component`: a save keeps the kind of a component, and a described one its
\* stored resolution; what is authored anew was not stored.
IntoComponent(asked, kept) ==
    IF asked = "described" THEN IF kept \in Digests THEN kept ELSE None
    ELSE IF Kind(kept) \notin {"none", asked} /\ asked # "none" THEN None
    ELSE asked

\* `into_definition`
IntoDefinition(draft, kept) ==
    [authored |-> draft.authored, component |-> IntoComponent(draft.component, kept.component),
     plan |-> draft.plan]

\* `check_cross_application_conflicts`: no resource of the draft is in any release of
\* another application.
NoConflict(catalogue, a) ==
    \A b \in Known(catalogue) \ {a} : \A i \in 1..Len(catalogue[b].releases) :
        EffectiveResources(catalogue[a].draft)
            \cap EffectiveResources(catalogue[b].releases[i].definition) = {}

LastVersion(releases) == IF releases = <<>> THEN 0 ELSE releases[Len(releases)].version

\* What `apply` and `select_component` make of a catalogue, or None for a refusal.
ApplyCreate(catalogue, a) ==
    IF a \in Known(catalogue) \cup Reserved THEN None
    ELSE [catalogue EXCEPT ![a] = Application(Undefined, <<>>)]

ApplySave(catalogue, a, draft) ==
    IF a \notin Known(catalogue) \/ IntoComponent(draft.component, catalogue[a].draft.component) = None
    THEN None
    ELSE [catalogue EXCEPT ![a].draft = IntoDefinition(draft, catalogue[a].draft)]

ApplyPublish(catalogue, a) ==
    IF \/ a \notin Known(catalogue)
       \/ ~ValidDefinition(catalogue[a].draft, TRUE)
       \/ ~NoConflict(catalogue, a)
       \/ /\ catalogue[a].releases # <<>>
          /\ catalogue[a].releases[Len(catalogue[a].releases)].definition = catalogue[a].draft
    THEN None
    ELSE [catalogue EXCEPT ![a].releases = Append(@, Release(LastVersion(@) + 1, catalogue[a].draft))]

\* `select_component`: a capability takes no version, and the same descriptor is not
\* recorded again.
SelectComponent(catalogue, a, digest) ==
    IF a \notin Known(catalogue) \/ catalogue[a].draft.component \in {"capability", digest} THEN None
    ELSE [catalogue EXCEPT ![a].draft.component = digest]

\* `selectable`, asked before the registries are.
Selectable(catalogue, a) == a \in Known(catalogue) /\ catalogue[a].draft.component # "capability"

\* `CatalogueCommand`
Commands ==
    [name : {"create", "publish", "select"}, application : Applications]
        \cup [name : {"save"}, application : Applications, draft : Drafts]

Apply(command, catalogue) ==
    CASE command.name = "create" -> ApplyCreate(catalogue, command.application)
      [] command.name = "publish" -> ApplyPublish(catalogue, command.application)
      [] command.name = "save" -> ApplySave(catalogue, command.application, command.draft)

\* `apply` ends by validating the whole catalogue.
Accepted(catalogue) == catalogue # None /\ Validate(catalogue)

\* `runtime_catalogue`: the resources of each application's last release.
Served(catalogue, a) ==
    IF a \notin Known(catalogue) \/ catalogue[a].releases = <<>> THEN {}
    ELSE EffectiveResources(catalogue[a].releases[Len(catalogue[a].releases)].definition)

CatalogueConflict(catalogue) ==
    \E a, b \in Applications : a # b /\ Served(catalogue, a) \cap Served(catalogue, b) # {}

---------------------------------------------------------------------------
(* Reading, changing, writing                                              *)

\* An operator with no request: the revision they saw and where.
Idle(seen, at) == [step |-> "idle", seen |-> seen, at |-> at, base |-> None, next |-> None, id |-> 0]

Init ==
    /\ stored \in [Repositories -> {[catalogue |-> Held, revision |-> 0],
                                    [catalogue |-> Empty, revision |-> None]}]
    /\ \E r \in Repositories : bound = r /\ stored[r].revision = 0
    /\ \A r, s \in Repositories : stored[r] = stored[s] => r = s
    /\ operator = [o \in Operators |-> Idle(None, None)]
    /\ requests = 0 /\ faults = 0 /\ rebinds = 0 /\ landed = None

\* `get_catalogue`
GetCatalogue(o) ==
    /\ operator[o].step = "idle"
    /\ operator' = [operator EXCEPT ![o] = Idle(stored[bound].revision, bound)]
    /\ UNCHANGED <<stored, bound, requests, faults, rebinds, landed>>

Refused(o) == operator' = [operator EXCEPT ![o] = Idle(operator[o].seen, operator[o].at)]

\* The repository travels with what was read from it (CatalogueRead).
WhereRead(o) == operator[o].at

\* `catalogue_at`: the read before a write, refused unless still at the revision seen.
CatalogueAt(o) == stored[bound].revision = operator[o].seen

\* `change_catalogue`: read, apply, and on to the write.
Change(o, command) ==
    /\ operator[o].step = "idle" /\ requests < MaxRequests /\ command.name # "select"
    /\ LET next == Apply(command, stored[bound].catalogue) IN
       IF CatalogueAt(o) /\ Accepted(next)
         THEN /\ operator' = [operator EXCEPT ![o].step = "writing", ![o].at = bound, ![o].next = next,
                                              ![o].base = stored[bound].catalogue, ![o].id = requests + 1]
              /\ requests' = requests + 1
         ELSE Refused(o) /\ UNCHANGED requests
    /\ UNCHANGED <<stored, bound, faults, rebinds, landed>>

\* `select_component`: the catalogue is read and checked before the registries are asked.
Select(o, a) ==
    /\ operator[o].step = "idle" /\ requests < MaxRequests
    /\ IF CatalogueAt(o) /\ Selectable(stored[bound].catalogue, a)
         THEN /\ operator' = [operator EXCEPT ![o].step = "resolving", ![o].at = bound, ![o].next = a,
                                              ![o].base = stored[bound].catalogue, ![o].id = requests + 1]
              /\ requests' = requests + 1
         ELSE Refused(o) /\ UNCHANGED requests
    /\ UNCHANGED <<stored, bound, faults, rebinds, landed>>

\* `resolve` answers a described release, whatever the tag names by now ...
Resolve(o, digest) ==
    /\ operator[o].step = "resolving"
    /\ LET next == SelectComponent(operator[o].base, operator[o].next, digest) IN
       IF Accepted(next)
         THEN operator' = [operator EXCEPT ![o].step = "writing", ![o].next = next]
         ELSE Refused(o)
    /\ UNCHANGED <<stored, bound, requests, faults, rebinds, landed>>

\* ... or refuses: not registered, not tagged, unusable, or out of budget.
ResolutionRefused(o) ==
    /\ operator[o].step = "resolving" /\ Refused(o)
    /\ UNCHANGED <<stored, bound, requests, faults, rebinds, landed>>

\* Mutant: the store takes a write whatever revision it names.
StoreUnchecked(o, at) == TRUE

\* The repository's own check of the revision, atomic with the write.
Stores(o, at) == stored[at].revision = operator[o].seen

\* `save`: the write, answered or, if it may be lost, not.
Save(o, answered) ==
    /\ operator[o].step = "writing"
    /\ answered \/ faults < MaxFaults
    /\ faults' = IF answered THEN faults ELSE faults + 1
    /\ LET at == WhereRead(o)
           new == [catalogue |-> operator[o].next, revision |-> operator[o].id]
       IN  IF Stores(o, at)
             THEN /\ stored' = [stored EXCEPT ![at] = new]
                  /\ landed' = [base |-> operator[o].base, over |-> stored[at].catalogue]
                  /\ operator' = [operator EXCEPT ![o] = IF answered THEN Idle(operator[o].id, at)
                                                         ELSE Idle(operator[o].seen, at)]
             ELSE Refused(o) /\ UNCHANGED <<stored, landed>>
    /\ UNCHANGED <<bound, requests, rebinds>>

\* The write did not reach the repository.
SaveFails(o) ==
    /\ operator[o].step = "writing" /\ faults < MaxFaults
    /\ faults' = faults + 1 /\ Refused(o)
    /\ UNCHANGED <<stored, bound, requests, rebinds, landed>>

\* `DesiredStateBinding::bind`
Rebind(r) ==
    /\ rebinds < MaxRebinds /\ r # bound
    /\ bound' = r /\ rebinds' = rebinds + 1
    /\ UNCHANGED <<stored, operator, requests, faults, landed>>

Next ==
    \/ \E o \in Operators :
         \/ GetCatalogue(o) \/ ResolutionRefused(o) \/ SaveFails(o)
         \/ \E command \in Commands : Change(o, command)
         \/ \E a \in Applications : Select(o, a)
         \/ \E digest \in Digests : Resolve(o, digest)
         \/ \E answered \in BOOLEAN : Save(o, answered)
    \/ \E r \in Repositories : Rebind(r)

Spec == Init /\ [][Next]_vars

---------------------------------------------------------------------------
(* Properties                                                              *)

\* The type invariant: every repository holds a catalogue that its own rules accept,
\* so what was written reads back.
TypeOK ==
    /\ \A r \in Repositories : Validate(stored[r].catalogue)
    /\ bound \in Repositories /\ requests <= MaxRequests /\ faults <= MaxFaults
    /\ \A o \in Operators : operator[o].step \in {"idle", "resolving", "writing"}

\* A resource is published by one application (mutations.rs), however operators who
\* publish at once interleave: the runtime catalogue can always be derived.
NoConflictIsServed == \A r \in Repositories : ~CatalogueConflict(stored[r].catalogue)

\* A release is never changed or withdrawn: clients embed it and name its version.
ReleasesOnlyGrow ==
    \A r \in Repositories : \A a \in Known(stored[r].catalogue) :
       /\ a \in Known(stored'[r].catalogue)
       /\ LET before == stored[r].catalogue[a].releases
              after == stored'[r].catalogue[a].releases
          IN  Len(after) >= Len(before) /\ SubSeq(after, 1, Len(before)) = before

\* Every write that lands replaces exactly the catalogue it was worked out from, the one
\* the operator saw: no command is lost under another, none is applied to a catalogue
\* its operator did not see, across a selection's registry reads too.
NoLostUpdate == landed # None => landed.base = landed.over

=============================================================================
