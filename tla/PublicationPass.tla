---------------------------- MODULE PublicationPass ----------------------------
(***************************************************************************)
(* The publication pass of the control plane (fabric-platform-management:  *)
(* publication), run by each replica of it against one target.             *)
(*                                                                         *)
(* A pass reads the revisions the target holds, then the declared data     *)
(* sources, the placements and the catalogue, one after another and with   *)
(* no lock; composes a snapshot, offers it with retries, inspects the      *)
(* target and records what it learned.  Only one offer at a time changes   *)
(* the target, and it may be interrupted between two documents.            *)
(*                                                                         *)
(* Contents are versions.  Data sources and tenants carry a revision of    *)
(* their own, which is their version; the catalogue carries none.  Tenants *)
(* at version n are placed on data sources the version n declares, and a   *)
(* catalogue at version n names data sources that tenants bind at n: so a  *)
(* document is well founded when the one it names is at least as new.      *)
(***************************************************************************)
EXTENDS Naturals, FiniteSets

CONSTANTS
    Publishers,     \* replicas of the control plane
    MaxVersion,     \* bound on the versions of what is desired
    MaxRevision,    \* bound on a document's revision
    MaxFaults,      \* bound on interrupted offers and failed reads
    None

PassAssumption ==
    /\ MaxVersion \in Nat \ {0} /\ MaxRevision \in Nat \ {0} /\ MaxFaults \in Nat

VARIABLES
    desired,    \* the version of each document's source
    target,     \* the documents and the record that the target holds
    pass,       \* what each publisher is doing
    state,      \* the evidence and the observation each publisher keeps
    wholes,     \* the records held whole since each publisher's pass began
    faults      \* faults so far

passVars == <<desired, target, pass, state, wholes, faults>>

\* The order in which an offer writes.
Documents == <<"data_sources", "tenants", "catalog">>

Kinds == {"data_sources", "tenants", "catalog"}

\* Seeded fault: one retry fewer than there are documents.
TwoRetries == 2

MAX_RETRIES == 3

MAX_INTERRUPTED_RETRIES == 2

Observation(is, record) == [is |-> is, record |-> record]

Idle == [pc |-> "idle"]

Held(kind) == target.docs[kind]

--------------------------------------------------------------------------------
(* What the target takes: the publication contract, for one snapshot.      *)

\* A document offered below the held revision.
StaleRevision(snapshot) ==
    \E kind \in Kinds : Held(kind) # None /\ snapshot[kind].revision < Held(kind).revision

\* The documents offered at the held revision with other content.
Divergent(snapshot) ==
    {kind \in Kinds : /\ Held(kind) # None
                      /\ snapshot[kind].revision = Held(kind).revision
                      /\ snapshot[kind].payload # Held(kind).payload}

\* A resource never goes below a revision it was published at.
ResourcesAdvance(snapshot) ==
    \A kind \in {"data_sources", "tenants"} :
        /\ snapshot[kind].payload >= target.history[kind]
        /\ Held(kind) # None => snapshot[kind].payload >= Held(kind).payload

WellFounded(snapshot) ==
    /\ snapshot.tenants.payload <= snapshot.data_sources.payload
    /\ snapshot.catalog.payload <= snapshot.tenants.payload

\* The documents an offer leaves when it is cut off after n of them.
Written(snapshot, n) ==
    [kind \in Kinds |->
        IF \E i \in 1 .. n : Documents[i] = kind THEN snapshot[kind] ELSE Held(kind)]

Stamp(generation, docs) == [generation |-> generation, docs |-> docs]

\* The record after a whole offer: restamped only when something changed.
RecordAfter(docs) ==
    IF target.record # None /\ target.record.docs = docs THEN target.record
    ELSE Stamp(IF target.record = None THEN 1 ELSE target.record.generation + 1, docs)

Whole(t) == t.record # None /\ t.docs = t.record.docs

--------------------------------------------------------------------------------
(* The pass.                                                               *)

PassInit ==
    /\ desired = [data_sources |-> 1, tenants |-> 0, catalog |-> 0]
    /\ target = [docs |-> [kind \in Kinds |-> None], record |-> None,
                 history |-> [data_sources |-> 0, tenants |-> 0]]
    /\ pass = [p \in Publishers |-> Idle]
    /\ state = [p \in Publishers |-> [evidence |-> None, observed |-> Observation("None", None)]]
    /\ wholes = [p \in Publishers |-> {}]
    /\ faults = 0

Go(p, next) == pass' = [pass EXCEPT ![p] = next]

\* A publisher that fails, is refused or has nothing to publish goes on to
\* inspect the target all the same.
Halt(p) == Go(p, [pc |-> "inspect", accepted |-> None])

\* publish_once: one pass at a time in a process.  The held revisions.
ReadHeld(p) ==
    /\ pass[p].pc = "idle"
    /\ Go(p, [pc |-> "declared",
              held |-> [kind \in Kinds |->
                  IF Held(kind) = None THEN None ELSE Held(kind).revision],
              published |-> target.docs])
    /\ UNCHANGED <<desired, target, state, faults>>

DeclaredDataSources(p) ==
    /\ pass[p].pc = "declared"
    /\ Go(p, [pc |-> "placements", held |-> pass[p].held, published |-> pass[p].published,
              data_sources |-> desired.data_sources])
    /\ UNCHANGED <<desired, target, state, faults>>

\* recorded_placements: refused when they name a data source that the
\* declarations, read earlier, do not declare.
RecordedPlacements(p) ==
    /\ pass[p].pc = "placements"
    /\ IF desired.tenants > pass[p].data_sources THEN Halt(p)
       ELSE Go(p, [pc |-> "catalogue", held |-> pass[p].held,
                   published |-> pass[p].published,
                   data_sources |-> pass[p].data_sources, tenants |-> desired.tenants])
    /\ UNCHANGED <<desired, target, state, faults>>

\* The revision a document is offered at first.
RevisionOrFirst(held) == IF held = None THEN 1 ELSE held

\* refuse_removed_or_lowered: what is recorded against what was published.
PlacementLowered(p) ==
    pass[p].published.tenants # None /\ pass[p].tenants < pass[p].published.tenants.payload

\* hold_unbound_catalogue: the held catalogue stands in for one that names
\* data sources no tenant binds yet.
HoldUnboundCatalogue(p, catalog) ==
    IF catalog > pass[p].tenants /\ pass[p].published.catalog # None
    THEN pass[p].published.catalog
    ELSE [revision |-> RevisionOrFirst(pass[p].held.catalog), payload |-> catalog]

\* runtime_catalogue and compose; an empty catalogue waits.
Compose(p) ==
    /\ pass[p].pc = "catalogue"
    /\ IF desired.catalog = 0 \/ PlacementLowered(p) THEN Halt(p)
       ELSE Go(p, [pc |-> "offer", retries |-> 0, interrupted |-> 0,
                   snapshot |->
                     [data_sources |-> [revision |-> RevisionOrFirst(pass[p].held.data_sources),
                                        payload |-> pass[p].data_sources],
                      tenants |-> [revision |-> RevisionOrFirst(pass[p].held.tenants),
                                   payload |-> pass[p].tenants],
                      catalog |-> HoldUnboundCatalogue(p, desired.catalog)]])
    /\ UNCHANGED <<desired, target, state, faults>>

\* A read of the repository, the catalogue or the registrations fails.
ReadFails(p) ==
    /\ pass[p].pc \in {"declared", "placements", "catalogue", "offer"}
    /\ pass[p].pc = "offer" => pass[p].retries = 0 /\ pass[p].interrupted = 0
    /\ faults < MaxFaults
    /\ faults' = faults + 1
    /\ Halt(p)
    /\ UNCHANGED <<desired, target, state>>

\* advance: one above the revision offered.
Advance(offered) == offered + 1

\* publish: refused for a stale revision; a divergent document is advanced
\* and offered again; anything else the target refuses ends the pass.
Offer(p) ==
    /\ pass[p].pc = "offer"
    /\ LET snapshot == pass[p].snapshot IN
       IF StaleRevision(snapshot) \/ ~WellFounded(snapshot)
       THEN /\ Halt(p)
            /\ UNCHANGED target
       ELSE IF Divergent(snapshot) # {}
       THEN /\ \E kind \in Divergent(snapshot) :
                  /\ snapshot[kind].revision < MaxRevision
                  /\ IF pass[p].retries < MAX_RETRIES
                     THEN pass' = [pass EXCEPT ![p].retries = @ + 1,
                                     ![p].snapshot[kind].revision = Advance(@)]
                     ELSE Halt(p)
            /\ UNCHANGED target
       ELSE IF ~ResourcesAdvance(snapshot)
       THEN /\ Halt(p)
            /\ UNCHANGED target
       ELSE /\ target' = [docs |-> snapshot, record |-> RecordAfter(snapshot),
                          history |-> [kind \in {"data_sources", "tenants"} |->
                                          snapshot[kind].payload]]
            /\ Go(p, [pc |-> "inspect", accepted |-> RecordAfter(snapshot)])
    /\ UNCHANGED <<desired, state, faults>>

\* The target stops taking writes part of the way: Unwritable.
Interrupted(p) ==
    /\ pass[p].pc = "offer"
    /\ faults < MaxFaults
    /\ LET snapshot == pass[p].snapshot IN
       /\ ~StaleRevision(snapshot) /\ WellFounded(snapshot) /\ Divergent(snapshot) = {}
       /\ ResourcesAdvance(snapshot)
       /\ \E n \in 0 .. 3 : target' = [target EXCEPT !.docs = Written(snapshot, n)]
    /\ faults' = faults + 1
    /\ IF pass[p].interrupted < MAX_INTERRUPTED_RETRIES
       THEN pass' = [pass EXCEPT ![p].interrupted = @ + 1]
       ELSE Halt(p)
    /\ UNCHANGED <<desired, state>>

--------------------------------------------------------------------------------
(* Inspection and what is recorded.                                        *)

\* observe: the record, then the documents.
InspectRecord(p) ==
    /\ pass[p].pc = "inspect"
    /\ Go(p, [pc |-> "documents", accepted |-> pass[p].accepted, record |-> target.record])
    /\ UNCHANGED <<desired, target, state, faults>>

InspectDocuments(p) ==
    /\ pass[p].pc = "documents"
    /\ Go(p, [pc |-> "record", accepted |-> pass[p].accepted, record |-> pass[p].record,
              docs |-> target.docs])
    /\ UNCHANGED <<desired, target, state, faults>>

\* TargetObservation::assess, over the record read before and after.
Assess(record, docs, after) ==
    IF after # record THEN Observation("Unstable", None)
    ELSE IF record = None THEN Observation("Unpublished", None)
    ELSE IF docs = record.docs THEN Observation("Complete", record)
    ELSE Observation("Incomplete", record)

\* Seeded fault: a pass that was not accepted leaves the observation too.
StateOnlyWhenAccepted(p, observed) ==
    IF pass[p].accepted = None THEN state[p]
    ELSE [evidence |-> pass[p].accepted, observed |-> observed]

\* state.record: evidence only of an accepted pass, the observation always.
StateAfter(p, observed) ==
    [evidence |-> IF pass[p].accepted = None THEN state[p].evidence ELSE pass[p].accepted,
     observed |-> observed]

Record(p) ==
    /\ pass[p].pc = "record"
    /\ state' = [state EXCEPT ![p] =
                    StateAfter(p, Assess(pass[p].record, pass[p].docs, target.record))]
    /\ Go(p, Idle)
    /\ UNCHANGED <<desired, target, faults>>

\* The control plane restarts: its evidence is not kept.
Restart(p) ==
    /\ faults < MaxFaults
    /\ faults' = faults + 1
    /\ state' = [state EXCEPT ![p] = [evidence |-> None, observed |-> Observation("None", None)]]
    /\ Go(p, Idle)
    /\ UNCHANGED <<desired, target>>

\* Operators declare, place and register: data sources before what is
\* placed on them; a catalogue may come before its placements.
Desire(kind) ==
    /\ desired[kind] < MaxVersion
    /\ kind = "tenants" => desired.tenants < desired.data_sources
    /\ desired' = [desired EXCEPT ![kind] = @ + 1]
    /\ UNCHANGED <<target, pass, state, faults>>

Step(p) ==
    \/ ReadHeld(p) \/ DeclaredDataSources(p) \/ RecordedPlacements(p) \/ Compose(p)
    \/ Offer(p) \/ InspectRecord(p) \/ InspectDocuments(p) \/ Record(p)

Act ==
    \/ \E p \in Publishers : Step(p)
    \/ \E p \in Publishers : ReadFails(p) \/ Interrupted(p) \/ Restart(p)
    \/ \E kind \in Kinds : Desire(kind)

\* What the target held whole from the beginning of each publisher's last pass to its end.
Watch ==
    wholes' = [p \in Publishers |->
                  IF pass[p].pc = "idle" /\ pass'[p].pc = "idle" THEN wholes[p]
                  ELSE (IF pass[p].pc = "idle" THEN {} ELSE wholes[p])
                       \cup (IF Whole(target') THEN {target'.record} ELSE {})]

PassNext == Act /\ Watch

PassSpec == PassInit /\ [][PassNext]_passVars

\* The scheduler starts a pass at every tick and a pass always ends.
FairPassSpec ==
    PassSpec /\ \A p \in Publishers : WF_passVars(Step(p) /\ Watch)

--------------------------------------------------------------------------------
(* Properties.                                                             *)

\* The documents gate of the readiness report.
DocumentsMet(p) ==
    /\ state[p].evidence # None
    /\ state[p].observed.is = "Complete"
    /\ state[p].observed.record = state[p].evidence

\* A readiness report whose documents gate is met names a record that the
\* target really held whole at some moment of the pass it was observed in,
\* whoever else published, failed or was interrupted meanwhile
\* (documents_gate.rs, completeness/observation.rs).
MetMeansWhole ==
    \A p \in Publishers :
        pass[p].pc = "idle" /\ DocumentsMet(p) => state[p].evidence \in wholes[p]

\* However stale the pass that offers it, a publication never takes a data
\* source or a tenant back below a revision that was published
\* (pass.rs reads the held revisions before it composes).  The target refuses a plan that
\* would; what this adds is that no order of passes, faults and advances gets past that.
ResourcesNeverRegress ==
    \A kind \in {"data_sources", "tenants"} :
       Held(kind) # None => target'.docs[kind].payload >= Held(kind).payload

\* Once operators stop, the target comes to hold what is desired: the
\* newest data sources and tenants, and the newest catalogue unless no
\* tenant binds it.  Every document may need an advance of its own in one
\* pass (protocol.rs: MAX_RETRIES).
DesiredIsPublished ==
    /\ desired.catalog # 0 /\ desired.catalog <= desired.tenants => Whole(target)
    /\ target.record # None =>
         /\ Whole(target)
         /\ \A kind \in {"data_sources", "tenants"} : Held(kind).payload = desired[kind]
         /\ desired.catalog <= desired.tenants => Held("catalog").payload = desired.catalog

EventuallyPublished == <>[]DesiredIsPublished

================================================================================
