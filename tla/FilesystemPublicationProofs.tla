---------------------- MODULE FilesystemPublicationProofs ----------------------
(***************************************************************************)
(* What FilesystemPublication guarantees for every set of publishers,      *)
(* snapshots, tenants and data sources, and any number of faults: one      *)
(* publisher at a time, records that land whole, and, of everything it     *)
(* ever published, that no registry generation is stamped twice, that a    *)
(* resource only ever changes under a higher revision, and that what was   *)
(* admitted may be offered again at every point of its publication.        *)
(***************************************************************************)
EXTENDS FilesystemPublication, PublicationPlanProofs

--------------------------------------------------------------------------------
(* What planning returns.                                                  *)

\* The files on disk are what the plan's lemmas ask of held documents.
LEMMA HeldIsTyped == TypeOK => HeldTyped(Held)
    BY DEF TypeOK, Held, HeldTyped

\* What is read back of a payload is typed ...
LEMMA HeldPayloadType ==
    ASSUME TypeOK
    PROVE  /\ HeldPayload(Held, "tenants") \in TenantsDocument
           /\ HeldPayload(Held, "data_sources") \in DataSourcesDocument
    BY HeldIsTyped, PayloadTyped

\* ... so is the history planned from ...
LEMMA HeldHistoryType ==
    ASSUME TypeOK
    PROVE  HeldHistory(Held) \in ResourceHistory
    BY HeldIsTyped, HistoryTyped

\* ... the registry that is planned ...
LEMMA PlannedRegistryType ==
    ASSUME TypeOK, NEW contract, NEW snapshot \in Snapshots,
           Admitted(Held, contract, snapshot)
    PROVE  /\ snapshot.registry = None => PlannedRegistry(Held, snapshot) = None
           /\ snapshot.registry # None => PlannedRegistry(Held, snapshot) \in RegistryDocument
    BY HeldIsTyped, RegistryTyped, SnapshotAssumption

\* ... and the record, which is the one in place again or carries the next generation.
LEMMA PlannedRecordFacts ==
    ASSUME TypeOK, NEW contract \in Contracts, NEW snapshot \in Snapshots,
           Admitted(Held, contract, snapshot)
    PROVE  LET planned == PlannedRecord(Held, contract, snapshot)
           IN  /\ planned \in PublicationRecord
               /\ record # None => \/ planned = record
                                   \/ planned.generation = SaturatingNext(record.generation)
<1>1. Held.record = record /\ snapshot \in RuntimeSnapshot
    BY SnapshotAssumption DEF Held
<1>. QED
    BY <1>1, HeldIsTyped, RecordTyped

\* What an admitted plan holds.
LEMMA PlanFacts ==
    ASSUME TypeOK, NEW contract \in Contracts, NEW snapshot \in Snapshots,
           Admitted(Held, contract, snapshot)
    PROVE  LET planned == Plan(Held, contract, snapshot)
           IN  /\ planned.snapshot = snapshot
               /\ planned.record = PlannedRecord(Held, contract, snapshot)
               /\ planned.record \in PublicationRecord
               /\ planned.registry = PlannedRegistry(Held, snapshot)
               /\ planned.registry \in RegistryDocument \cup {None}
               /\ "registry" \in planned.writes <=> planned.registry \notin {None, registry}
               /\ \A kind \in Kinds :
                      kind \in planned.writes <=> MustWrite(Held, snapshot, kind)
<1>1. Held.registry = registry
    BY DEF Held
<1>2. Plan(Held, contract, snapshot).registry \in RegistryDocument \cup {None}
    BY PlannedRegistryType DEF Plan
<1>3. Plan(Held, contract, snapshot).record \in PublicationRecord
    BY PlannedRecordFacts DEF Plan
<1>. QED
    BY <1>1, <1>2, <1>3 DEF Plan, Kinds

--------------------------------------------------------------------------------
(* Shape: the state is well formed, one publisher at a time is in a call,  *)
(* and its plan is well formed.                                            *)

Calling(p) == pc[p] \notin {"idle", "offered"}

Planned(p) == pc[p] \in {"payload", "manifest", "registry", "record", "done"}

\* Exactly the publisher that holds the lock is inside `publish`.
Exclusion == \A p \in Publishers : Calling(p) <=> lock = p

OfferHeld == \A p \in Publishers : pc[p] # "idle" => offer[p] \in Snapshots

PlanTyped ==
    /\ plan = [p \in Publishers |-> plan[p]]
    /\ \A p \in Publishers :
          Planned(p) => /\ plan[p].snapshot \in Snapshots
                        /\ plan[p].record \in PublicationRecord
                        /\ plan[p].registry \in RegistryDocument \cup {None}
                        /\ "registry" \in plan[p].writes => plan[p].registry # None

Shape == TypeOK /\ Exclusion /\ OfferHeld /\ PlanTyped

\* Nothing is published at first.
LEMMA ShapeInit == Init => Shape
<1>. SUFFICES ASSUME Init PROVE Shape
    OBVIOUS
<1>1. TypeOK
    BY FaultAssumption DEF Init, TypeOK, Kinds
<1>2. Exclusion /\ OfferHeld
    BY PublisherAssumption DEF Init, Exclusion, OfferHeld, Calling
<1>3. PlanTyped
    BY DEF Init, PlanTyped, Planned
<1>. QED
    BY <1>1, <1>2, <1>3 DEF Shape

\* Where a publisher goes after a file, written or skipped.
LEMMA OnwardShape ==
    ASSUME Shape, NEW p \in Publishers, Writing(p),
           Onward(p) \/ (pc[p] = "payload" /\ Advance(p))
    PROVE  /\ doc' \in [Publishers -> Kinds]
           /\ pc' \in [Publishers -> {"idle", "offered", "locked", "payload", "manifest",
                                     "registry", "record", "done"}]
           /\ Planned(p) /\ Planned(p)'
           /\ \A q \in Publishers \ {p} : pc'[q] = pc[q]
<1>1. /\ pc \in [Publishers -> {"idle", "offered", "locked", "payload", "manifest",
                               "registry", "record", "done"}]
      /\ doc \in [Publishers -> Kinds]
    BY DEF Shape, TypeOK
<1>2. doc[p] # "tenants" => NextDocument[doc[p]] \in Kinds
    BY <1>1 DEF NextDocument, Kinds
<1>3. CASE pc[p] = "payload" /\ Onward(p)
    BY <1>1, <1>3 DEF Onward, Planned
<1>4. CASE pc[p] \in {"payload", "manifest"} /\ Advance(p)
    BY <1>1, <1>2, <1>4 DEF Advance, Planned
<1>5. CASE pc[p] \in {"registry", "record"} /\ Onward(p)
    BY <1>1, <1>5 DEF Onward, Planned
<1>6. pc[p] = "manifest" /\ Onward(p) => Advance(p)
    BY DEF Onward
<1>. QED
    BY <1>3, <1>4, <1>5, <1>6 DEF Writing

\* A file that lands is well formed.
LEMMA LandShape ==
    ASSUME Shape, NEW p \in Publishers, Land(p)
    PROVE  /\ payload' \in [data_sources : DataSourcesDocument \cup {None},
                            catalog      : CatalogDocument \cup {None},
                            tenants      : TenantsDocument \cup {None}]
           /\ manifest' \in [Kinds -> Revisions \cup {None}]
           /\ registry' \in RegistryDocument \cup {None}
           /\ record' \in PublicationRecord \cup {None}
<1>1. /\ plan[p].snapshot \in RuntimeSnapshot
      /\ plan[p].record \in PublicationRecord
      /\ plan[p].registry \in RegistryDocument \cup {None}
    BY SnapshotAssumption DEF Shape, PlanTyped, Planned, Land, Due, Writing
<1>2. doc[p] \in Kinds
    BY DEF Shape, TypeOK
<1>3. /\ plan[p].snapshot["tenants"].payload \in TenantsDocument
      /\ plan[p].snapshot["data_sources"].payload \in DataSourcesDocument
      /\ plan[p].snapshot["catalog"].payload \in CatalogDocument
      /\ plan[p].snapshot[doc[p]].revision \in Revisions
    BY <1>1, <1>2 DEF RuntimeSnapshot, Input, Kinds
<1>4. payload' \in [data_sources : DataSourcesDocument \cup {None},
                    catalog      : CatalogDocument \cup {None},
                    tenants      : TenantsDocument \cup {None}]
    BY <1>2, <1>3 DEF Shape, TypeOK, Land, Kinds
<1>5. manifest' \in [Kinds -> Revisions \cup {None}]
    BY <1>2, <1>3 DEF Shape, TypeOK, Land
<1>6. registry' \in RegistryDocument \cup {None} /\ record' \in PublicationRecord \cup {None}
    BY <1>1 DEF Shape, TypeOK, Land
<1>. QED
    BY <1>4, <1>5, <1>6

\* Where a call that ends leaves its publisher.
LEMMA ReturnShape ==
    ASSUME Shape, NEW p \in Publishers, NEW next \in {"idle", "offered"},
           Calling(p), Return(p, next)
    PROVE  /\ lock' \in Publishers \cup {None}
           /\ doc' \in [Publishers -> Kinds]
           /\ pc' \in [Publishers -> {"idle", "offered", "locked", "payload", "manifest",
                                     "registry", "record", "done"}]
           /\ pc'[p] = next
           /\ \A q \in Publishers \ {p} : pc'[q] = pc[q] /\ plan'[q] = plan[q]
           /\ plan' = [q \in Publishers |-> plan'[q]]
           /\ Exclusion'
<1>1. lock = p
    BY DEF Shape, Exclusion
<1>2. /\ pc' \in [Publishers -> {"idle", "offered", "locked", "payload", "manifest",
                                "registry", "record", "done"}]
      /\ pc'[p] = next
      /\ \A q \in Publishers \ {p} : pc'[q] = pc[q]
    BY DEF Shape, TypeOK, Return
<1>3. /\ plan' = [q \in Publishers |-> plan'[q]]
      /\ \A q \in Publishers \ {p} : plan'[q] = plan[q]
    BY DEF Shape, PlanTyped, Return
<1>4. Exclusion'
    BY <1>1, <1>2, PublisherAssumption DEF Shape, Exclusion, Calling, Return
<1>5. doc' \in [Publishers -> Kinds]
    BY DEF Shape, TypeOK, Return, Kinds
<1>. QED
    BY <1>2, <1>3, <1>4, <1>5 DEF Return

\* A call that ends keeps the shape, whatever else became of the files.
LEMMA ShapeReturn ==
    ASSUME Shape, NEW p \in Publishers, NEW next \in {"idle", "offered"},
           Calling(p), Return(p, next),
           payload' \in [data_sources : DataSourcesDocument \cup {None},
                         catalog      : CatalogDocument \cup {None},
                         tenants      : TenantsDocument \cup {None}],
           manifest' \in [Kinds -> Revisions \cup {None}],
           registry' \in RegistryDocument \cup {None},
           record' \in PublicationRecord \cup {None},
           staging' \subseteq {"payload", "manifest"} \X Kinds
                                \cup {"registry", "record"} \X {""},
           faults' \in 0 .. MaxFaults,
           \/ next = "offered" /\ offer' = offer
           \/ next = "idle" /\ offer' = [offer EXCEPT ![p] = None]
    PROVE  Shape'
<1>. USE ReturnShape
<1>1. offer' \in [Publishers -> Snapshots \cup {None}]
    BY DEF Shape, TypeOK
<1>2. TypeOK'
    BY <1>1 DEF TypeOK
<1>3. OfferHeld'
    <2>. SUFFICES ASSUME NEW q \in Publishers, pc'[q] # "idle"
                  PROVE  offer'[q] \in Snapshots
        BY DEF OfferHeld
    <2>1. CASE q = p
        BY <2>1 DEF Shape, OfferHeld, Calling
    <2>2. CASE q # p
        BY <2>2 DEF Shape, OfferHeld, TypeOK
    <2>. QED
        BY <2>1, <2>2
<1>4. PlanTyped'
    <2>. SUFFICES ASSUME NEW q \in Publishers, Planned(q)'
                  PROVE  /\ plan'[q].snapshot \in Snapshots
                         /\ plan'[q].record \in PublicationRecord
                         /\ plan'[q].registry \in RegistryDocument \cup {None}
                         /\ "registry" \in plan'[q].writes => plan'[q].registry # None
        BY DEF PlanTyped
    <2>1. q # p
        BY DEF Planned
    <2>2. plan'[q] = plan[q] /\ Planned(q)
        BY <2>1 DEF Planned
    <2>. QED
        BY <2>2 DEF Shape, PlanTyped
<1>. QED
    BY <1>2, <1>3, <1>4 DEF Shape

\* Faults are counted up to their bound.
LEMMA FaultCounted ==
    ASSUME Shape, Fault \/ faults' = faults
    PROVE  faults' \in 0 .. MaxFaults
<1>1. faults \in 0 .. MaxFaults
    BY DEF Shape, TypeOK
<1>. QED
    BY <1>1, FaultAssumption DEF Fault

\* The shape is kept by every step.
LEMMA ShapeNext == Shape /\ [Next]_vars => Shape'
<1>. SUFFICES ASSUME Shape, [Next]_vars PROVE Shape'
    OBVIOUS
<1>1. CASE UNCHANGED vars
    <2>1. TypeOK'
        BY <1>1 DEF vars, Shape, TypeOK
    <2>. QED
        BY <1>1, <2>1 DEF vars, Shape, Exclusion, OfferHeld, PlanTyped, Calling, Planned
<1>2. ASSUME NEW p \in Publishers, NEW snapshot \in Snapshots, Offer(p, snapshot)
      PROVE  Shape'
    <2>1. TypeOK'
        BY <1>2 DEF Shape, TypeOK, Offer, files, history
    <2>2. Exclusion' /\ OfferHeld'
        BY <1>2 DEF Shape, TypeOK, Exclusion, OfferHeld, Calling, Offer
    <2>3. PlanTyped'
        BY <1>2 DEF Shape, TypeOK, PlanTyped, Planned, Offer
    <2>. QED
        BY <2>1, <2>2, <2>3 DEF Shape
<1>3. ASSUME NEW p \in Publishers, Abandon(p) PROVE Shape'
    <2>1. TypeOK'
        BY <1>3 DEF Shape, TypeOK, Abandon, files, history
    <2>2. Exclusion' /\ OfferHeld'
        BY <1>3 DEF Shape, TypeOK, Exclusion, OfferHeld, Calling, Abandon
    <2>3. PlanTyped'
        BY <1>3 DEF Shape, TypeOK, PlanTyped, Planned, Abandon
    <2>. QED
        BY <2>1, <2>2, <2>3 DEF Shape
<1>4. ASSUME NEW p \in Publishers, Acquire(p) PROVE Shape'
    <2>1. TypeOK'
        BY <1>4 DEF Shape, TypeOK, Acquire, files, history
    <2>2. Exclusion' /\ OfferHeld'
        BY <1>4, PublisherAssumption
        DEF Shape, TypeOK, Exclusion, OfferHeld, Calling, Acquire
    <2>3. PlanTyped'
        BY <1>4 DEF Shape, TypeOK, PlanTyped, Planned, Acquire
    <2>. QED
        BY <2>1, <2>2, <2>3 DEF Shape
<1>5. ASSUME NEW p \in Publishers, PlanRefused(p) PROVE Shape'
    <2>1. Calling(p) /\ Return(p, "idle")
        BY <1>5 DEF PlanRefused, Calling
    <2>. QED
        BY <1>5, <2>1, ShapeReturn DEF Shape, TypeOK, PlanRefused, files
<1>6. ASSUME NEW p \in Publishers, PlanAdmitted(p) PROVE Shape'
    <2>1. offer[p] \in Snapshots /\ Contract[p] \in Contracts
        BY <1>6, PublisherAssumption DEF Shape, OfferHeld, PlanAdmitted
    <2>2. TypeOK'
        BY <1>6 DEF Shape, TypeOK, PlanAdmitted, files, history
    <2>3. Exclusion' /\ OfferHeld'
        BY <1>6 DEF Shape, TypeOK, Exclusion, OfferHeld, Calling, PlanAdmitted
    <2>4. PlanTyped'
        <3>1. Plan(Held, Contract[p], offer[p]) = plan'[p]
            BY <1>6 DEF Shape, PlanTyped, PlanAdmitted
        <3>2. /\ plan'[p].snapshot \in Snapshots
              /\ plan'[p].record \in PublicationRecord
              /\ plan'[p].registry \in RegistryDocument \cup {None}
              /\ "registry" \in plan'[p].writes => plan'[p].registry # None
            <4>1. TypeOK /\ Admitted(Held, Contract[p], offer[p])
                BY <1>6 DEF Shape, PlanAdmitted
            <4>. QED
                BY <2>1, <3>1, <4>1, PlanFacts
        <3>3. /\ plan' = [q \in Publishers |-> plan'[q]]
              /\ \A q \in Publishers \ {p} : plan'[q] = plan[q] /\ pc'[q] = pc[q]
            BY <1>6 DEF Shape, TypeOK, PlanTyped, PlanAdmitted
        <3>. QED
            BY <3>2, <3>3 DEF Shape, PlanTyped, Planned
    <2>. QED
        BY <2>2, <2>3, <2>4 DEF Shape
<1>7. ASSUME NEW p \in Publishers, Write(p) PROVE Shape'
    <2>1. Writing(p) /\ Onward(p)
        BY <1>7 DEF Write, Land, Due
    <2>2. TypeOK'
        BY <1>7, <2>1, LandShape, OnwardShape DEF Shape, TypeOK, Write
    <2>3. Exclusion' /\ OfferHeld' /\ PlanTyped'
        BY <1>7, <2>1, OnwardShape
        DEF Shape, Exclusion, OfferHeld, PlanTyped, Planned, Calling, Write
    <2>. QED
        BY <2>2, <2>3 DEF Shape
<1>8. ASSUME NEW p \in Publishers, Skip(p) PROVE Shape'
    <2>1. Writing(p) /\ (Onward(p) \/ (pc[p] = "payload" /\ Advance(p)))
        BY <1>8 DEF Skip
    <2>2. TypeOK'
        BY <1>8, <2>1, OnwardShape DEF Shape, TypeOK, Skip, files
    <2>3. Exclusion' /\ OfferHeld' /\ PlanTyped'
        BY <1>8, <2>1, OnwardShape
        DEF Shape, Exclusion, OfferHeld, PlanTyped, Planned, Calling, Skip
    <2>. QED
        BY <2>2, <2>3 DEF Shape
<1>9. ASSUME NEW p \in Publishers, Finish(p) PROVE Shape'
    <2>1. Calling(p) /\ Return(p, "idle")
        BY <1>9 DEF Finish, Calling
    <2>. QED
        BY <1>9, <2>1, ShapeReturn DEF Shape, TypeOK, Finish, files
<1>10. ASSUME NEW p \in Publishers, WriteFails(p) PROVE Shape'
    <2>1. Calling(p) /\ Return(p, "offered")
        BY <1>10 DEF WriteFails, Due, Writing, Calling
    <2>2. faults' \in 0 .. MaxFaults
        BY <1>10, FaultCounted DEF WriteFails
    <2>. QED
        BY <1>10, <2>1, <2>2, ShapeReturn DEF Shape, TypeOK, WriteFails, files
<1>11. ASSUME NEW p \in Publishers, SyncFails(p) PROVE Shape'
    <2>1. Calling(p) /\ Return(p, "offered") /\ Land(p)
        BY <1>11 DEF SyncFails, Land, Due, Writing, Calling
    <2>2. faults' \in 0 .. MaxFaults
        BY <1>11, FaultCounted DEF SyncFails
    <2>. QED
        BY <1>11, <2>1, <2>2, LandShape, ShapeReturn DEF Shape, TypeOK, SyncFails
<1>12. ASSUME NEW p \in Publishers, Crash(p) PROVE Shape'
    <2>1. Calling(p) /\ Return(p, "offered")
        BY <1>12 DEF Crash, Calling
    <2>2. faults' \in 0 .. MaxFaults
        BY <1>12, FaultCounted DEF Crash
    <2>3. Due(p) => Target(p) \in {"payload", "manifest"} \X Kinds
                                  \cup {"registry", "record"} \X {""}
        BY DEF Shape, TypeOK, Due, Writing, Target
    <2>4. staging' \subseteq {"payload", "manifest"} \X Kinds
                              \cup {"registry", "record"} \X {""}
        BY <1>12, <2>3 DEF Shape, TypeOK, Crash
    <2>. QED
        BY <1>12, <2>1, <2>2, <2>4, ShapeReturn DEF Shape, TypeOK, Crash, files
<1>. QED
    BY <1>1, <1>2, <1>3, <1>4, <1>5, <1>6, <1>7, <1>8, <1>9, <1>10, <1>11, <1>12 DEF Next

\* The files, the lock and every publisher's progress stay well formed, and
\* the generation never leaves its counter: filesystem/adapter.rs `publish`
\* with every fault, for all constants.
THEOREM TypeCorrectness == Spec => []TypeOK
<1>1. Shape => TypeOK
    BY DEF Shape
<1>. QED
    BY <1>1, ShapeInit, ShapeNext, PTL DEF Spec

\* At most one publisher is ever inside `publish`: the lock of lock.rs is
\* taken before the files are read and dropped when the call ends.
THEOREM MutualExclusion == Spec => []Exclusion
<1>1. Shape => Exclusion
    BY DEF Shape
<1>. QED
    BY <1>1, ShapeInit, ShapeNext, PTL DEF Spec

--------------------------------------------------------------------------------
(* The steps, sorted by what they can disturb.                             *)

\* Neither the files nor any running publication move.
Quiet ==
    /\ UNCHANGED <<payload, manifest, registry, record, committed, stamped>>
    /\ \A q \in Publishers :
          Planned(q)' => Planned(q) /\ pc'[q] = pc[q] /\ doc'[q] = doc[q] /\ plan'[q] = plan[q]

\* A publication that ends before its first write leaves every file and plan.
LEMMA QuietReturn ==
    ASSUME Shape, NEW p \in Publishers, NEW next \in {"idle", "offered"}, Return(p, next),
           UNCHANGED <<payload, manifest, registry, record, committed, stamped>>
    PROVE  Quiet
    BY DEF Shape, TypeOK, PlanTyped, Return, Planned, Quiet

\* Every step leaves files, plans and positions alone, or is one of the few that do not.
LEMMA StepKinds ==
    ASSUME Shape, [Next]_vars
    PROVE  \/ Quiet
           \/ \E p \in Publishers : \/ PlanAdmitted(p)
                                    \/ Write(p)
                                    \/ Skip(p)
                                    \/ SyncFails(p)
<1>1. CASE UNCHANGED vars
    BY <1>1 DEF vars, Quiet, Planned
<1>2. ASSUME NEW p \in Publishers, NEW snapshot \in Snapshots, Offer(p, snapshot)
      PROVE  Quiet
    BY <1>2 DEF Offer, Quiet, Planned, Shape, TypeOK, files, history
<1>3. ASSUME NEW p \in Publishers, Abandon(p) PROVE Quiet
    BY <1>3 DEF Abandon, Quiet, Planned, Shape, TypeOK, files, history
<1>4. ASSUME NEW p \in Publishers, Acquire(p) PROVE Quiet
    BY <1>4 DEF Acquire, Quiet, Planned, Shape, TypeOK, files, history
<1>5. ASSUME NEW p \in Publishers, PlanRefused(p) PROVE Quiet
    BY <1>5, QuietReturn DEF PlanRefused, files, history
<1>6. ASSUME NEW p \in Publishers, Finish(p) PROVE Quiet
    BY <1>6, QuietReturn DEF Finish, files, history
<1>7. ASSUME NEW p \in Publishers, WriteFails(p) PROVE Quiet
    BY <1>7, QuietReturn DEF WriteFails, files, history
<1>8. ASSUME NEW p \in Publishers, Crash(p) PROVE Quiet
    BY <1>8, QuietReturn DEF Crash, files, history
<1>. QED
    BY <1>1, <1>2, <1>3, <1>4, <1>5, <1>6, <1>7, <1>8 DEF Next

\* While one publisher is in a call, no other one has a plan.
LEMMA Alone ==
    ASSUME Shape, NEW p \in Publishers, Calling(p)
    PROVE  \A q \in Publishers \ {p} : ~Planned(q)
    BY DEF Shape, Exclusion, Calling, Planned

\* What each of the four leaves of the other publishers and of the plan.
LEMMA OthersStayOut ==
    ASSUME Shape, NEW p \in Publishers,
           PlanAdmitted(p) \/ Write(p) \/ Skip(p) \/ SyncFails(p)
    PROVE  \A q \in Publishers \ {p} : ~Planned(q)'
<1>1. Calling(p)
    BY DEF PlanAdmitted, Write, Skip, SyncFails, Land, Due, Writing, Calling
<1>2. \A q \in Publishers \ {p} : pc'[q] = pc[q]
    <2>1. CASE PlanAdmitted(p)
        BY <2>1 DEF Shape, TypeOK, PlanAdmitted
    <2>2. CASE SyncFails(p)
        BY <2>2 DEF Shape, TypeOK, SyncFails, Return
    <2>3. CASE Write(p)
        BY <2>3, OnwardShape DEF Write, Land, Due
    <2>4. CASE Skip(p)
        BY <2>4, OnwardShape DEF Skip
    <2>. QED
        BY <2>1, <2>2, <2>3, <2>4
<1>. QED
    BY <1>1, <1>2, Alone DEF Planned

--------------------------------------------------------------------------------
(* Numbering: a record's generation is unused when the record lands.       *)

\* The record on disk is the latest of all that ever were, and the planned
\* one is that record again or the next in line after it.  The last part
\* needs the lock: it is about a record read before the writes.
Numbering ==
    /\ committed \subseteq PublicationRecord
    /\ record = None => committed = {}
    /\ record # None => /\ record \in committed
                        /\ \A r \in committed : r.generation <= record.generation
    /\ \A p \in Publishers :
          Planned(p) /\ record # None =>
              \/ plan[p].record = record
              \/ plan[p].record.generation = SaturatingNext(record.generation)
    /\ GenerationNamesOneRecord

\* No generation is committed at first.
LEMMA NumberingInit == Init => Numbering
    BY DEF Init, Numbering, GenerationNamesOneRecord, Planned

\* A record that lands takes a number nobody has, or saturates.
LEMMA LandNumbers ==
    ASSUME Shape, Numbering, NEW p \in Publishers, Land(p)
    PROVE  /\ committed' \subseteq PublicationRecord
           /\ record' = None => committed' = {}
           /\ record' # None => /\ record' \in committed'
                                /\ \A r \in committed' : r.generation <= record'.generation
           /\ record' # record => record' = plan[p].record
           /\ record # None => record'.generation >= record.generation
           /\ GenerationNamesOneRecord'
<1>1. Planned(p) /\ plan[p].record \in PublicationRecord
    BY DEF Shape, PlanTyped, Planned, Land, Due, Writing
<1>2. plan[p].record # None
    BY <1>1, NoneAssumption
<1>3. \A r \in PublicationRecord : r.generation \in Nat /\ r.generation <= MaxGeneration
    BY GenerationAssumption DEF PublicationRecord
<1>4. record \in PublicationRecord \cup {None}
    BY DEF Shape, TypeOK
<1>5. CASE pc[p] # "record"
    <2>1. record' = record /\ committed' = committed
        BY <1>5 DEF Land
    <2>. QED
        BY <1>3, <1>4, <2>1 DEF Numbering, GenerationNamesOneRecord
<1>6. CASE pc[p] = "record"
    <2>1. record' = plan[p].record /\ committed' = committed \cup {plan[p].record}
        BY <1>6 DEF Land
    <2>2. CASE record = None
        BY <1>1, <1>2, <1>3, <2>1, <2>2 DEF Numbering, GenerationNamesOneRecord
    <2>3. CASE record # None /\ plan[p].record = record
        <3>1. record' = record /\ committed' = committed
            BY <2>1, <2>3 DEF Numbering
        <3>. QED
            BY <1>3, <1>4, <3>1 DEF Numbering, GenerationNamesOneRecord
    <2>4. CASE record # None /\ plan[p].record # record
        <3>1. plan[p].record.generation = SaturatingNext(record.generation)
            BY <1>1, <2>4 DEF Numbering
        <3>2. /\ record.generation \in Nat
              /\ plan[p].record.generation >= record.generation
              /\ plan[p].record.generation < MaxGeneration =>
                    plan[p].record.generation > record.generation
            BY <1>3, <1>4, <2>4, <3>1, GenerationAssumption DEF SaturatingNext
        <3>3. \A r \in committed : r.generation \in Nat /\ r.generation <= record.generation
            BY <1>3, <2>4 DEF Numbering
        <3>4. GenerationNamesOneRecord'
            BY <1>1, <1>3, <2>1, <3>2, <3>3 DEF Numbering, GenerationNamesOneRecord
        <3>. QED
            BY <1>1, <1>2, <1>3, <2>1, <3>2, <3>3, <3>4 DEF Numbering
    <2>. QED
        BY <2>2, <2>3, <2>4
<1>. QED
    BY <1>5, <1>6

\* A record lands with the generation after the one in place, or with that one again.
LEMMA NumberingNext == Shape /\ Numbering /\ [Next]_vars => Numbering'
<1>. SUFFICES ASSUME Shape, Numbering, [Next]_vars PROVE Numbering'
    OBVIOUS
<1>1. CASE Quiet
    BY <1>1 DEF Quiet, Numbering, GenerationNamesOneRecord
<1>2. ASSUME NEW p \in Publishers, PlanAdmitted(p) PROVE Numbering'
    <2>1. TypeOK /\ Admitted(Held, Contract[p], offer[p])
        BY <1>2 DEF Shape, PlanAdmitted
    <2>2. offer[p] \in Snapshots /\ Contract[p] \in Contracts
        BY <1>2, PublisherAssumption DEF Shape, OfferHeld, PlanAdmitted
    <2>3. plan'[p].record = PlannedRecord(Held, Contract[p], offer[p])
        BY <1>2, <2>1, <2>2, PlanFacts DEF Shape, PlanTyped, PlanAdmitted
    <2>4. record # None => \/ plan'[p].record = record
                           \/ plan'[p].record.generation = SaturatingNext(record.generation)
        BY <2>1, <2>2, <2>3, PlannedRecordFacts
    <2>5. record' = record /\ committed' = committed
        BY <1>2 DEF PlanAdmitted, files, history
    <2>6. \A q \in Publishers \ {p} : ~Planned(q)'
        BY <1>2, OthersStayOut
    <2>. QED
        BY <2>4, <2>5, <2>6 DEF Numbering, GenerationNamesOneRecord
<1>3. ASSUME NEW p \in Publishers, Write(p) PROVE Numbering'
    <2>1. Land(p) /\ plan' = plan /\ Planned(p)
        BY <1>3 DEF Write, Land, Due, Writing, Planned
    <2>2. \A q \in Publishers \ {p} : ~Planned(q)'
        BY <1>3, OthersStayOut
    <2>3. record' # None => \/ plan'[p].record = record'
                            \/ plan'[p].record.generation = SaturatingNext(record'.generation)
        BY <2>1, LandNumbers DEF Numbering
    <2>. QED
        BY <2>1, <2>2, <2>3, LandNumbers DEF Numbering
<1>4. ASSUME NEW p \in Publishers, Skip(p) PROVE Numbering'
    <2>1. record' = record /\ committed' = committed /\ plan' = plan /\ Planned(p)
        BY <1>4 DEF Skip, Writing, Planned, files, history
    <2>2. \A q \in Publishers \ {p} : ~Planned(q)'
        BY <1>4, OthersStayOut
    <2>. QED
        BY <2>1, <2>2 DEF Numbering, GenerationNamesOneRecord
<1>5. ASSUME NEW p \in Publishers, SyncFails(p) PROVE Numbering'
    <2>1. Land(p)
        BY <1>5 DEF SyncFails
    <2>2. \A q \in Publishers : ~Planned(q)'
        BY <1>5, OthersStayOut DEF SyncFails, Return, Planned, Shape, TypeOK
    <2>. QED
        BY <2>1, <2>2, LandNumbers DEF Numbering
<1>. QED
    BY <1>1, <1>2, <1>3, <1>4, <1>5, StepKinds

\* No generation number is ever given to two records, for any publishers and
\* any crashes: plan/record.rs under the lock of adapter.rs `publish`.
THEOREM OneRecordPerGeneration == Spec => []GenerationNamesOneRecord
<1>1. Shape /\ Numbering => GenerationNamesOneRecord
    BY DEF Numbering
<1>. QED
    BY <1>1, ShapeInit, ShapeNext, NumberingInit, NumberingNext, PTL DEF Spec

--------------------------------------------------------------------------------
(* Placement: a plan's documents are in place as far as it has come.       *)

\* A publisher starts at the first document.
DocStart == \A p \in Publishers : ~Planned(p) => doc[p] = "data_sources"

\* Nobody writes at first.
LEMMA DocStartInit == Init => DocStart
    BY DEF Init, DocStart

\* A publication starts with what the files held when it was planned.
LEMMA DocStartNext == Shape /\ DocStart /\ [Next]_vars => DocStart'
<1>. SUFFICES ASSUME Shape, DocStart, [Next]_vars PROVE DocStart'
    OBVIOUS
<1>1. CASE UNCHANGED vars
    BY <1>1 DEF vars, DocStart, Planned
<1>2. ASSUME NEW p \in Publishers, NEW snapshot \in Snapshots, Offer(p, snapshot)
      PROVE  DocStart'
    BY <1>2 DEF Offer, DocStart, Planned, Shape, TypeOK
<1>3. ASSUME NEW p \in Publishers, Abandon(p) \/ Acquire(p) PROVE DocStart'
    BY <1>3 DEF Abandon, Acquire, DocStart, Planned, Shape, TypeOK
<1>4. ASSUME NEW p \in Publishers, PlanAdmitted(p) PROVE DocStart'
    BY <1>4 DEF PlanAdmitted, DocStart, Planned, Shape, TypeOK
<1>5. ASSUME NEW p \in Publishers, NEW next \in {"idle", "offered"}, Return(p, next)
      PROVE  DocStart'
    BY <1>5 DEF Return, DocStart, Planned, Shape, TypeOK
<1>6. ASSUME NEW p \in Publishers, PlanRefused(p) \/ Finish(p) PROVE DocStart'
    BY <1>5, <1>6 DEF PlanRefused, Finish
<1>7. ASSUME NEW p \in Publishers, WriteFails(p) \/ SyncFails(p) \/ Crash(p)
      PROVE  DocStart'
    BY <1>5, <1>7 DEF WriteFails, SyncFails, Crash
<1>8. ASSUME NEW p \in Publishers, Write(p) \/ Skip(p) PROVE DocStart'
    <2>1. Writing(p) /\ (Onward(p) \/ (pc[p] = "payload" /\ Advance(p)))
        BY <1>8 DEF Write, Skip, Land, Due
    <2>2. Planned(p)' /\ \A q \in Publishers \ {p} : pc'[q] = pc[q]
        BY <2>1, OnwardShape
    <2>3. \A q \in Publishers \ {p} : doc'[q] = doc[q]
        BY <2>1 DEF Onward, Advance, Writing, Shape, TypeOK
    <2>. QED
        BY <2>2, <2>3 DEF DocStart, Planned
<1>. QED
    BY <1>1, <1>2, <1>3, <1>4, <1>6, <1>7, <1>8 DEF Next

\* The documents a publisher has finished with.
DocDone(p, kind) ==
    \/ pc[p] \in {"registry", "record", "done"}
    \/ /\ pc[p] \in {"payload", "manifest"}
       /\ \/ kind = "data_sources" /\ doc[p] \in {"catalog", "tenants"}
          \/ kind = "catalog" /\ doc[p] = "tenants"

InPlace(p, kind) ==
    /\ payload[kind] = plan[p].snapshot[kind].payload
    /\ manifest[kind] = plan[p].snapshot[kind].revision

\* A publisher's plan is in place up to where it has come, the parts it need
\* not write included, and its record names what it planned.
Placed(p) ==
    /\ \A kind \in Kinds :
          DocDone(p, kind) \/ kind \notin plan[p].writes => InPlace(p, kind)
    /\ pc[p] = "manifest" => payload[doc[p]] = plan[p].snapshot[doc[p]].payload
    /\ \A kind \in Kinds :
          plan[p].record.documents[kind] =
              [revision |-> plan[p].snapshot[kind].revision,
               digest   |-> Digest(plan[p].snapshot[kind].payload)]
    /\ plan[p].registry # None /\
          (pc[p] \in {"record", "done"} \/ "registry" \notin plan[p].writes)
              => registry = plan[p].registry
    /\ plan[p].record.registry # None =>
          /\ plan[p].registry # None
          /\ plan[p].record.registry.digest = Digest(plan[p].registry)

\* The record on disk never outlives its files either.
Placement ==
    /\ record # None => \A kind \in Kinds : payload[kind] # None /\ manifest[kind] # None
    /\ \A p \in Publishers : Planned(p) => Placed(p)

\* Nobody writes at first.
LEMMA PlacementInit == Init => Placement
    BY DEF Init, Placement, Planned

\* The planned record names the planned documents and registry, whether it
\* is the held one or a new one.
LEMMA PlannedContent ==
    ASSUME NEW contract, NEW snapshot
    PROVE  LET planned == PlannedRecord(Held, contract, snapshot)
           IN  /\ \A kind \in Kinds :
                      planned.documents[kind] =
                          [revision |-> snapshot[kind].revision,
                           digest   |-> Digest(snapshot[kind].payload)]
               /\ planned.registry # None =>
                      /\ PlannedRegistry(Held, snapshot) # None
                      /\ planned.registry.digest = Digest(PlannedRegistry(Held, snapshot))
<1>1. ASSUME NEW generation
      PROVE  LET r == RecordAt(generation, Held, contract, snapshot)
             IN  /\ \A kind \in Kinds :
                        r.documents[kind] = [revision |-> snapshot[kind].revision,
                                             digest   |-> Digest(snapshot[kind].payload)]
                 /\ r.registry # None =>
                        /\ PlannedRegistry(Held, snapshot) # None
                        /\ r.registry.digest = Digest(PlannedRegistry(Held, snapshot))
    BY DEF RecordAt
<1>2. \E generation : PlannedRecord(Held, contract, snapshot)
                         = RecordAt(generation, Held, contract, snapshot)
    BY DEF PlannedRecord
<1>. QED
    BY <1>1, <1>2

\* A document an admitted plan leaves alone is already the offered one, and
\* its manifest says so: verdict.rs, given that a record has its manifests.
LEMMA UnwrittenInPlace ==
    ASSUME Shape, Placement, NEW contract, NEW snapshot \in Snapshots,
           Admitted(Held, contract, snapshot),
           NEW kind \in Kinds, ~MustWrite(Held, snapshot, kind)
    PROVE  /\ payload[kind] = snapshot[kind].payload
           /\ manifest[kind] = snapshot[kind].revision
<1>1. snapshot[kind].revision \in Nat \ {0}
    BY SnapshotAssumption, RevisionAssumption DEF RuntimeSnapshot, Input, Kinds
<1>2. Held.payload = payload /\ Held.manifest = manifest /\ Held.record = record
    BY DEF Held
<1>3. payload[kind] # None /\ ~(snapshot[kind].revision > HeldRevision(Held, kind))
    BY <1>2 DEF MustWrite
<1>4. ~(snapshot[kind].revision < HeldRevision(Held, kind))
    BY DEF Admitted, Stale
<1>5. manifest[kind] # None
    <2>1. record = None /\ manifest[kind] = None => HeldRevision(Held, kind) = 0
        BY <1>2 DEF HeldRevision
    <2>. QED
        BY <1>1, <1>3, <2>1 DEF Placement
<1>6. HeldRevision(Held, kind) = manifest[kind] /\ manifest[kind] \in Nat
    BY <1>2, <1>5, RevisionAssumption DEF HeldRevision, Shape, TypeOK
<1>7. manifest[kind] = snapshot[kind].revision
    BY <1>1, <1>3, <1>4, <1>6
<1>8. payload[kind] = snapshot[kind].payload
    BY <1>2, <1>3, <1>6, <1>7 DEF Admitted, Divergent
<1>. QED
    BY <1>7, <1>8

\* Going on from a document that is in place.
LEMMA AdvancePlaces ==
    ASSUME Shape, NEW p \in Publishers, pc[p] \in {"payload", "manifest"}, Advance(p),
           plan' = plan, registry' = registry,
           \A kind \in Kinds :
               kind = doc[p] \/ DocDone(p, kind) \/ kind \notin plan[p].writes
                   => InPlace(p, kind)',
           Placed(p)
    PROVE  Placed(p)'
<1>1. doc[p] \in Kinds /\ pc'[p] \in {"payload", "registry"}
    BY DEF Shape, TypeOK, Advance
<1>2. \A kind \in Kinds : DocDone(p, kind)' => kind = doc[p] \/ DocDone(p, kind)
    <2>1. CASE doc[p] = "tenants"
        BY <2>1 DEF Advance, DocDone, Kinds
    <2>2. CASE doc[p] = "catalog"
        <3>1. pc'[p] = "payload" /\ doc'[p] = "tenants"
            <4>1. NextDocument["catalog"] = "tenants"
                BY DEF NextDocument
            <4>2. pc' = [pc EXCEPT ![p] = "payload"] /\ doc' = [doc EXCEPT ![p] = "tenants"]
                BY <2>2, <4>1 DEF Advance
            <4>. QED
                BY <4>2 DEF Shape, TypeOK
        <3>. QED
            BY <2>2, <3>1 DEF DocDone
    <2>3. CASE doc[p] = "data_sources"
        <3>1. pc'[p] = "payload" /\ doc'[p] = "catalog"
            <4>1. NextDocument["data_sources"] = "catalog"
                BY DEF NextDocument
            <4>2. pc' = [pc EXCEPT ![p] = "payload"] /\ doc' = [doc EXCEPT ![p] = "catalog"]
                BY <2>3, <4>1 DEF Advance
            <4>. QED
                BY <4>2 DEF Shape, TypeOK
        <3>. QED
            BY <2>3, <3>1 DEF DocDone
    <2>. QED
        BY <1>1, <2>1, <2>2, <2>3 DEF Kinds
<1>3. \A kind \in Kinds :
          DocDone(p, kind)' \/ kind \notin plan'[p].writes => InPlace(p, kind)'
    BY <1>2
<1>. QED
    BY <1>1, <1>3 DEF Placed

\* The documents of a plan exist.
LEMMA PlanExists ==
    ASSUME Shape, NEW p \in Publishers, Planned(p)
    PROVE  \A kind \in Kinds : /\ plan[p].snapshot[kind].payload # None
                                /\ plan[p].snapshot[kind].revision \in Revisions
                                /\ plan[p].snapshot[kind].revision # None
<1>1. plan[p].snapshot \in RuntimeSnapshot
    BY SnapshotAssumption DEF Shape, PlanTyped
<1>2. /\ plan[p].snapshot["tenants"].payload \in TenantsDocument
      /\ plan[p].snapshot["data_sources"].payload \in DataSourcesDocument
      /\ plan[p].snapshot["catalog"].payload \in CatalogDocument
    BY <1>1 DEF RuntimeSnapshot, Input
<1>3. \A kind \in Kinds : plan[p].snapshot[kind].revision \in Revisions
    BY <1>1 DEF RuntimeSnapshot, Input, Kinds
<1>. QED
    BY <1>2, <1>3, NoneAssumption DEF Kinds

\* A write keeps its publisher's plan in place.
LEMMA WritePlaces ==
    ASSUME Shape, NEW p \in Publishers, Placed(p), Write(p)
    PROVE  Placed(p)'
<1>1. /\ Land(p) /\ Onward(p) /\ plan' = plan
      /\ doc[p] \in Kinds
    BY DEF Write, Shape, TypeOK
<1>2. CASE pc[p] = "payload"
    <2>1. /\ payload' = [payload EXCEPT ![doc[p]] = plan[p].snapshot[doc[p]].payload]
          /\ manifest' = manifest /\ registry' = registry
          /\ doc[p] \in plan[p].writes
        BY <1>1, <1>2 DEF Land, Due
    <2>2. pc'[p] = "manifest" /\ doc' = doc
        BY <1>1, <1>2 DEF Onward, Shape, TypeOK
    <2>3. \A kind \in Kinds : kind # doc[p] => payload'[kind] = payload[kind]
        BY <1>1, <2>1 DEF Shape, TypeOK, Kinds
    <2>4. payload'[doc[p]] = plan[p].snapshot[doc[p]].payload
        BY <1>1, <2>1 DEF Shape, TypeOK, Kinds
    <2>5. \A kind \in Kinds : DocDone(p, kind)' => DocDone(p, kind) /\ kind # doc[p]
        BY <1>2, <2>2 DEF DocDone
    <2>6. \A kind \in Kinds :
              DocDone(p, kind)' \/ kind \notin plan'[p].writes => InPlace(p, kind)'
        BY <1>1, <2>1, <2>3, <2>5 DEF Placed, InPlace
    <2>. QED
        BY <1>1, <2>1, <2>2, <2>4, <2>6 DEF Placed
<1>3. CASE pc[p] = "manifest"
    <2>1. /\ manifest' = [manifest EXCEPT ![doc[p]] = plan[p].snapshot[doc[p]].revision]
          /\ payload' = payload /\ registry' = registry
        BY <1>1, <1>3 DEF Land
    <2>2. Advance(p)
        BY <1>1, <1>3 DEF Onward
    <2>3. \A kind \in Kinds :
              manifest'[kind] = IF kind = doc[p] THEN plan[p].snapshot[doc[p]].revision
                                ELSE manifest[kind]
        BY <1>1, <2>1 DEF Shape, TypeOK
    <2>4. \A kind \in Kinds :
              kind = doc[p] \/ DocDone(p, kind) \/ kind \notin plan[p].writes
                  => InPlace(p, kind)'
        BY <1>1, <1>3, <2>1, <2>3 DEF Placed, InPlace
    <2>. QED
        BY <1>1, <1>3, <2>1, <2>2, <2>4, AdvancePlaces
<1>4. CASE pc[p] = "registry"
    <2>1. payload' = payload /\ manifest' = manifest /\ registry' = plan[p].registry
        BY <1>1, <1>4 DEF Land
    <2>2. pc'[p] = "record"
        BY <1>1, <1>4 DEF Onward, Shape, TypeOK
    <2>3. \A kind \in Kinds : InPlace(p, kind)'
        BY <1>1, <1>4, <2>1 DEF Placed, InPlace, DocDone
    <2>. QED
        BY <1>1, <2>1, <2>2, <2>3 DEF Placed
<1>5. CASE pc[p] = "record"
    <2>1. payload' = payload /\ manifest' = manifest /\ registry' = registry
        BY <1>1, <1>5 DEF Land
    <2>2. pc'[p] = "done"
        BY <1>1, <1>5 DEF Onward, Shape, TypeOK
    <2>3. \A kind \in Kinds : InPlace(p, kind)'
        BY <1>1, <1>5, <2>1 DEF Placed, InPlace, DocDone
    <2>. QED
        BY <1>1, <1>5, <2>1, <2>2, <2>3 DEF Placed
<1>. QED
    BY <1>1, <1>2, <1>3, <1>4, <1>5 DEF Land, Due, Writing

\* So does skipping what need not be written.
LEMMA SkipPlaces ==
    ASSUME Shape, NEW p \in Publishers, Placed(p), Skip(p)
    PROVE  Placed(p)'
<1>1. /\ payload' = payload /\ manifest' = manifest /\ registry' = registry
      /\ plan' = plan /\ Writing(p) /\ ~Due(p)
    BY DEF Skip, files
<1>2. CASE pc[p] \in {"payload", "manifest"}
    <2>1. Advance(p)
        BY <1>2 DEF Skip, Onward
    <2>2. doc[p] \notin plan[p].writes
        BY <1>1, <1>2 DEF Due
    <2>3. \A kind \in Kinds :
              kind = doc[p] \/ DocDone(p, kind) \/ kind \notin plan[p].writes
                  => InPlace(p, kind)'
        BY <1>1, <2>2 DEF Placed, InPlace
    <2>. QED
        BY <1>1, <1>2, <2>1, <2>3, AdvancePlaces
<1>3. CASE pc[p] \in {"registry", "record"}
    <2>1. pc[p] \notin plan[p].writes
        BY <1>1, <1>3 DEF Due
    <2>2. \/ pc[p] = "registry" /\ pc'[p] = "record"
          \/ pc[p] = "record" /\ pc'[p] = "done"
        <3>1. Onward(p)
            BY <1>3 DEF Skip
        <3>. QED
            BY <1>3, <3>1 DEF Onward, Shape, TypeOK
    <2>3. \A kind \in Kinds : InPlace(p, kind)'
        BY <1>1, <1>3 DEF Placed, InPlace, DocDone
    <2>. QED
        BY <1>1, <2>1, <2>2, <2>3 DEF Placed
<1>. QED
    BY <1>1, <1>2, <1>3 DEF Writing

\* Each file that is written or skipped holds what the plan names.
LEMMA PlacementNext == Shape /\ DocStart /\ Placement /\ [Next]_vars => Placement'
<1>. SUFFICES ASSUME Shape, DocStart, Placement, [Next]_vars PROVE Placement'
    OBVIOUS
<1>1. CASE Quiet
    <2>1. ASSUME NEW q \in Publishers, Planned(q)' PROVE Placed(q)'
        BY <1>1, <2>1 DEF Quiet, Placement, Placed, DocDone, InPlace
    <2>. QED
        BY <1>1, <2>1 DEF Quiet, Placement
<1>2. ASSUME NEW p \in Publishers, PlanAdmitted(p) PROVE Placement'
    <2>1. Admitted(Held, Contract[p], offer[p]) /\ TypeOK
        BY <1>2 DEF PlanAdmitted, Shape
    <2>2. offer[p] \in Snapshots /\ Contract[p] \in Contracts
        BY <1>2, PublisherAssumption DEF Shape, OfferHeld, PlanAdmitted
    <2>3. /\ payload' = payload /\ manifest' = manifest
          /\ registry' = registry /\ record' = record
        BY <1>2 DEF PlanAdmitted, files
    <2>4. /\ pc'[p] = "payload" /\ doc'[p] = "data_sources"
          /\ plan'[p] = Plan(Held, Contract[p], offer[p])
        BY <1>2 DEF PlanAdmitted, Shape, TypeOK, PlanTyped, DocStart, Planned
    <2>5. \A kind \in Kinds : ~DocDone(p, kind)'
        BY <2>4 DEF DocDone
    <2>6. \A kind \in Kinds : kind \notin plan'[p].writes => InPlace(p, kind)'
        BY <2>1, <2>2, <2>3, <2>4, PlanFacts, UnwrittenInPlace DEF InPlace
    <2>7. /\ \A kind \in Kinds :
                plan'[p].record.documents[kind] =
                    [revision |-> plan'[p].snapshot[kind].revision,
                     digest   |-> Digest(plan'[p].snapshot[kind].payload)]
          /\ plan'[p].record.registry # None =>
                /\ plan'[p].registry # None
                /\ plan'[p].record.registry.digest = Digest(plan'[p].registry)
        BY <2>1, <2>2, <2>4, PlanFacts, PlannedContent
    <2>8. plan'[p].registry # None /\ "registry" \notin plan'[p].writes
              => registry' = plan'[p].registry
        BY <2>1, <2>2, <2>3, <2>4, PlanFacts
    <2>9. Placed(p)'
        BY <2>4, <2>5, <2>6, <2>7, <2>8 DEF Placed
    <2>. QED
        BY <1>2, <2>3, <2>9, OthersStayOut DEF Placement
<1>3. ASSUME NEW p \in Publishers, Planned(p), Land(p)
      PROVE  record' # None => \A kind \in Kinds : payload'[kind] # None /\ manifest'[kind] # None
    <2>. SUFFICES ASSUME record' # None, NEW kind \in Kinds
                  PROVE  payload'[kind] # None /\ manifest'[kind] # None
        OBVIOUS
    <2>1. payload[kind] # None => payload'[kind] # None
        BY <1>3, PlanExists DEF Land, Shape, TypeOK, Kinds
    <2>2. manifest[kind] # None => manifest'[kind] # None
        BY <1>3, PlanExists DEF Land, Shape, TypeOK
    <2>3. CASE pc[p] = "record"
        <3>1. InPlace(p, kind)
            BY <1>3, <2>3 DEF Placement, Placed, DocDone
        <3>. QED
            BY <1>3, <2>1, <2>2, <3>1, PlanExists DEF InPlace
    <2>4. CASE pc[p] # "record"
        BY <1>3, <2>1, <2>2, <2>4 DEF Land, Placement
    <2>. QED
        BY <2>3, <2>4
<1>4. ASSUME NEW p \in Publishers, Write(p) PROVE Placement'
    <2>1. Planned(p) /\ Land(p)
        BY <1>4 DEF Write, Land, Due, Writing, Planned
    <2>2. Placed(p)'
        BY <1>4, <2>1, WritePlaces DEF Placement
    <2>. QED
        BY <1>3, <1>4, <2>1, <2>2, OthersStayOut DEF Placement
<1>5. ASSUME NEW p \in Publishers, Skip(p) PROVE Placement'
    <2>1. Planned(p) /\ UNCHANGED <<payload, manifest, record>>
        BY <1>5 DEF Skip, Writing, Planned, files
    <2>2. Placed(p)'
        BY <1>5, <2>1, SkipPlaces DEF Placement
    <2>. QED
        BY <1>5, <2>1, <2>2, OthersStayOut DEF Placement
<1>6. ASSUME NEW p \in Publishers, SyncFails(p) PROVE Placement'
    <2>1. Planned(p) /\ Land(p)
        BY <1>6 DEF SyncFails, Land, Due, Writing, Planned
    <2>2. \A q \in Publishers : ~Planned(q)'
        BY <1>6, OthersStayOut DEF SyncFails, Return, Planned, Shape, TypeOK
    <2>. QED
        BY <1>3, <2>1, <2>2 DEF Placement
<1>. QED
    BY <1>1, <1>2, <1>4, <1>5, <1>6, StepKinds

\* A record lands only over exactly the documents, manifests and registry it
\* names, and never below the one it replaces: filesystem/write.rs writes
\* the record last, and nobody else writes meanwhile.
THEOREM RecordsLandWhole == Spec => RecordLandsWhole
<1>. DEFINE Lands == record' # record =>
                        /\ Whole(Held')
                        /\ record # None => record'.generation >= record.generation
<1>1. ASSUME Shape, Numbering, Placement, [Next]_vars PROVE Lands
    <2>1. ASSUME NEW p \in Publishers, Land(p) PROVE Lands
        <3>. SUFFICES ASSUME record' # record PROVE Lands
            OBVIOUS
        <3>1. pc[p] = "record" /\ Planned(p) /\ record' = plan[p].record
            BY <2>1 DEF Land, Planned
        <3>2. payload' = payload /\ manifest' = manifest /\ registry' = registry
            BY <2>1, <3>1 DEF Land
        <3>3. Placed(p) /\ \A kind \in Kinds : InPlace(p, kind)
            BY <1>1, <3>1 DEF Placement, Placed, DocDone
        <3>4. /\ Held'.payload = payload /\ Held'.manifest = manifest
              /\ Held'.registry = registry /\ Held'.record = plan[p].record
            BY <3>1, <3>2 DEF Held
        <3>5. \A kind \in Kinds :
                  /\ Digest(payload[kind]) = plan[p].record.documents[kind].digest
                  /\ manifest[kind] = plan[p].record.documents[kind].revision
            <4>1. \A kind \in Kinds :
                      plan[p].record.documents[kind] =
                          [revision |-> plan[p].snapshot[kind].revision,
                           digest   |-> Digest(plan[p].snapshot[kind].payload)]
                BY <3>3 DEF Placed
            <4>2. \A kind \in Kinds :
                      /\ payload[kind] = plan[p].snapshot[kind].payload
                      /\ manifest[kind] = plan[p].snapshot[kind].revision
                BY <3>3 DEF InPlace
            <4>3. TAKE kind \in Kinds
            <4>4. plan[p].record.documents[kind] =
                      [revision |-> manifest[kind], digest |-> Digest(payload[kind])]
                BY <4>1, <4>2
            <4>. QED
                BY <4>4
        <3>6. plan[p].record.registry # None
                  => Digest(registry) = plan[p].record.registry.digest
            BY <3>1, <3>3 DEF Placed
        <3>7. Whole(Held')
            BY <3>4, <3>5, <3>6 DEF Whole
        <3>8. record # None => record'.generation >= record.generation
            BY <1>1, <2>1, LandNumbers
        <3>. QED
            BY <3>7, <3>8
    <2>2. ASSUME NEW p \in Publishers, PlanAdmitted(p) \/ Skip(p) PROVE Lands
        BY <2>2 DEF PlanAdmitted, Skip, files
    <2>3. CASE Quiet
        BY <2>3 DEF Quiet
    <2>. QED
        BY <1>1, <2>1, <2>2, <2>3, StepKinds DEF Write, SyncFails
<1>2. Shape /\ Numbering /\ Placement /\ [Next]_vars => [Lands]_vars
    BY <1>1
<1>. QED
    BY <1>2, ShapeInit, ShapeNext, NumberingInit, NumberingNext, DocStartInit, DocStartNext,
       PlacementInit, PlacementNext, PTL
    DEF Spec, RecordLandsWhole

--------------------------------------------------------------------------------
(* Resolving: the tenants file never binds a source that is not declared.  *)

\* A plan's data sources carry every source its own tenants bind, and every
\* source the tenants file on disk binds, old or already replaced.
Resolving ==
    /\ NoDanglingBindingOnDisk
    /\ \A p \in Publishers :
          Planned(p) =>
              /\ BindingsResolve(plan[p].snapshot["tenants"].payload,
                                 plan[p].snapshot["data_sources"].payload)
              /\ BindingsResolve(HeldPayload(Held, "tenants"),
                                 plan[p].snapshot["data_sources"].payload)

\* There is nothing to resolve at first.
LEMMA ResolvingInit == Init => Resolving
    BY DEF Init, Resolving, NoDanglingBindingOnDisk, Planned, Kinds

\* What is on disk keeps resolving when a file lands.
LEMMA LandResolves ==
    ASSUME Shape, Placement, Resolving, NEW p \in Publishers, Planned(p), Land(p)
    PROVE  /\ NoDanglingBindingOnDisk'
           /\ BindingsResolve(HeldPayload(Held', "tenants"),
                              plan[p].snapshot["data_sources"].payload)
<1>. DEFINE newTenants == plan[p].snapshot["tenants"].payload
            newSources == plan[p].snapshot["data_sources"].payload
<1>1. /\ Held.payload = payload /\ Held'.payload = payload'
      /\ newTenants # None /\ newSources # None
    BY PlanExists DEF Held, Kinds
<1>2. /\ BindingsResolve(newTenants, newSources)
      /\ BindingsResolve(HeldPayload(Held, "tenants"), newSources)
    BY DEF Resolving
<1>3. CASE pc[p] = "payload" /\ doc[p] = "data_sources"
    <2>1. payload'["data_sources"] = newSources /\ payload'["tenants"] = payload["tenants"]
        BY <1>3 DEF Land, Shape, TypeOK
    <2>2. /\ HeldPayload(Held', "data_sources") = newSources
          /\ HeldPayload(Held', "tenants") = HeldPayload(Held, "tenants")
          /\ payload'["tenants"] # None => payload'["tenants"] = HeldPayload(Held, "tenants")
        BY <1>1, <2>1 DEF HeldPayload
    <2>. QED
        BY <1>2, <2>2 DEF NoDanglingBindingOnDisk
<1>4. CASE pc[p] = "payload" /\ doc[p] = "tenants"
    <2>1. payload["data_sources"] = newSources
        BY <1>4 DEF Placement, Placed, DocDone, InPlace, Kinds
    <2>2. payload'["tenants"] = newTenants /\ payload'["data_sources"] = newSources
        BY <1>4, <2>1 DEF Land, Shape, TypeOK
    <2>3. /\ HeldPayload(Held', "data_sources") = newSources
          /\ HeldPayload(Held', "tenants") = newTenants
        BY <1>1, <2>2 DEF HeldPayload
    <2>. QED
        BY <1>2, <2>2, <2>3 DEF NoDanglingBindingOnDisk
<1>5. CASE ~(pc[p] = "payload" /\ doc[p] \in {"data_sources", "tenants"})
    <2>1. /\ payload'["tenants"] = payload["tenants"]
          /\ payload'["data_sources"] = payload["data_sources"]
        BY <1>5 DEF Land, Shape, TypeOK, Kinds
    <2>2. /\ HeldPayload(Held', "data_sources") = HeldPayload(Held, "data_sources")
          /\ HeldPayload(Held', "tenants") = HeldPayload(Held, "tenants")
        BY <1>1, <2>1 DEF HeldPayload
    <2>. QED
        BY <1>2, <2>1, <2>2 DEF Resolving, NoDanglingBindingOnDisk
<1>. QED
    BY <1>3, <1>4, <1>5

\* The order of the writes keeps every binding resolved.
LEMMA ResolvingNext == Shape /\ Placement /\ Resolving /\ [Next]_vars => Resolving'
<1>. SUFFICES ASSUME Shape, Placement, Resolving, [Next]_vars PROVE Resolving'
    OBVIOUS
<1>1. CASE Quiet
    <2>1. Held' = Held /\ payload' = payload
        BY <1>1 DEF Quiet, Held
    <2>. QED
        BY <1>1, <2>1 DEF Quiet, Resolving, NoDanglingBindingOnDisk
<1>2. ASSUME NEW p \in Publishers, PlanAdmitted(p) PROVE Resolving'
    <2>1. Held' = Held /\ payload' = payload
        BY <1>2 DEF PlanAdmitted, files, Held
    <2>2. plan'[p].snapshot = offer[p]
        BY <1>2 DEF PlanAdmitted, Shape, PlanTyped, Plan
    <2>3. /\ BindingsResolve(offer[p].tenants.payload, offer[p].data_sources.payload)
          /\ BindingsResolve(HeldPayload(Held, "tenants"), offer[p].data_sources.payload)
        BY <1>2 DEF PlanAdmitted, Admitted, ValidSnapshot, NoRetiredSourceStillBound
    <2>. QED
        BY <1>2, <2>1, <2>2, <2>3, OthersStayOut DEF Resolving, NoDanglingBindingOnDisk
<1>3. ASSUME NEW p \in Publishers, Write(p) PROVE Resolving'
    <2>1. Planned(p) /\ Land(p) /\ plan' = plan
        BY <1>3 DEF Write, Land, Due, Writing, Planned
    <2>. QED
        BY <1>3, <2>1, LandResolves, OthersStayOut DEF Resolving
<1>4. ASSUME NEW p \in Publishers, Skip(p) PROVE Resolving'
    <2>1. Planned(p) /\ Held' = Held /\ payload' = payload /\ plan' = plan
        BY <1>4 DEF Skip, Writing, Planned, files, Held
    <2>. QED
        BY <1>4, <2>1, OthersStayOut DEF Resolving, NoDanglingBindingOnDisk
<1>5. ASSUME NEW p \in Publishers, SyncFails(p) PROVE Resolving'
    <2>1. Planned(p) /\ Land(p)
        BY <1>5 DEF SyncFails, Land, Due, Writing, Planned
    <2>2. \A q \in Publishers : ~Planned(q)'
        BY <1>5, OthersStayOut DEF SyncFails, Return, Planned, Shape, TypeOK
    <2>. QED
        BY <2>1, <2>2, LandResolves DEF Resolving
<1>. QED
    BY <1>1, <1>2, <1>3, <1>4, <1>5, StepKinds

\* At every moment, mid-publication and after any crash, the tenants file
\* binds only declared data sources: the write order of adapter.rs and the
\* retirement rule of validate.rs, for all constants.
THEOREM NeverDangling == Spec => []NoDanglingBindingOnDisk
<1>1. Shape /\ Placement /\ Resolving => NoDanglingBindingOnDisk
    BY DEF Resolving
<1>. QED
    BY <1>1, ShapeInit, ShapeNext, DocStartInit, DocStartNext, PlacementInit, PlacementNext,
       ResolvingInit, ResolvingNext, PTL
    DEF Spec

--------------------------------------------------------------------------------
(* Planning and landing, for what was published before.                   *)

\* What an admitted plan is made from, and where it is kept.
LEMMA AdmittedPlan ==
    ASSUME Shape, NEW p \in Publishers, PlanAdmitted(p)
    PROVE  /\ TypeOK
           /\ Admitted(Held, Contract[p], offer[p])
           /\ offer[p] \in Snapshots
           /\ Contract[p] \in Contracts
           /\ plan'[p] = Plan(Held, Contract[p], offer[p])
           /\ UNCHANGED <<payload, manifest, registry, record, committed, stamped>>
           /\ Held' = Held
           /\ \A q \in Publishers \ {p} : ~Planned(q)'
<1>1. offer[p] \in Snapshots /\ Contract[p] \in Contracts
    BY PublisherAssumption DEF Shape, OfferHeld, PlanAdmitted
<1>2. plan'[p] = Plan(Held, Contract[p], offer[p])
    BY DEF Shape, PlanTyped, PlanAdmitted
<1>3. UNCHANGED <<payload, manifest, registry, record, committed, stamped>>
    BY DEF PlanAdmitted, files, history
<1>. QED
    BY <1>1, <1>2, <1>3, OthersStayOut DEF Shape, PlanAdmitted, Held

\* The publisher whose file lands is running, and alone.
LEMMA Landing ==
    ASSUME Shape, NEW p \in Publishers, Land(p)
    PROVE  /\ Planned(p)
           /\ plan[p].snapshot \in Snapshots
           /\ plan[p].record \in PublicationRecord
           /\ plan[p].registry \in RegistryDocument \cup {None}
           /\ pc[p] = "registry" => plan[p].registry # None
    BY DEF Shape, PlanTyped, Planned, Land, Due, Writing

--------------------------------------------------------------------------------
(* Stamping: a registry that lands has a generation no other one had.      *)

\* The registry on disk is the latest that ever was, the record never names a
\* later one, and a planned one is the one on disk or numbered past it.  The
\* last part needs the lock, and the first two are what generation_choice.rs
\* relies on when it only looks at the registry on disk and at the record.
Stamping ==
    /\ stamped \subseteq RegistryDocument
    /\ registry = None => stamped = {}
    /\ registry # None => /\ registry \in stamped
                          /\ \A r \in stamped : r.generation <= registry.generation
    /\ record # None /\ record.registry # None =>
          /\ registry # None
          /\ record.registry.generation <= registry.generation
          /\ record.registry.generation = registry.generation
                => record.registry.digest = Digest(registry)
    /\ \A p \in Publishers :
          Planned(p) =>
              /\ plan[p].registry # None /\ registry # None =>
                    \/ plan[p].registry = registry
                    \/ plan[p].registry.generation > registry.generation
              /\ plan[p].record.registry # None =>
                    /\ plan[p].registry # None
                    /\ plan[p].record.registry.generation = plan[p].registry.generation
                    /\ plan[p].record.registry.digest = Digest(plan[p].registry)
    /\ RegistryGenerationStampedOnce

\* No registry is stamped at first.
LEMMA StampingInit == Init => Stamping
    BY DEF Init, Stamping, RegistryGenerationStampedOnce, Planned

\* The generation chosen for the offered registrations: the registry on disk
\* again, or one past it.
LEMMA ChosenGeneration ==
    ASSUME Shape, Stamping, NEW contract, NEW snapshot \in Snapshots,
           Admitted(Held, contract, snapshot),
           snapshot.registry # None, registry # None
    PROVE  LET planned == PlannedRegistry(Held, snapshot)
           IN  planned = registry \/ planned.generation > registry.generation
<1>. DEFINE held == registry.generation
            issuers == snapshot.registry
<1>1. Held.registry = registry /\ Held.record = record
    BY DEF Held
<1>2. registry \in RegistryDocument /\ held \in 1 .. MaxGeneration
    BY DEF Shape, TypeOK, RegistryDocument
<1>3. RegistryHeldGeneration(Held) = held
    BY <1>1 DEF RegistryHeldGeneration
<1>4. /\ RegistryCommitted(Held) \in Nat
      /\ RegistryCommitted(Held) <= held
      /\ RecordedRegistry(Held) # None /\ RegistryCommitted(Held) = held
            => RecordedRegistry(Held).digest = Digest(registry)
    <2>1. record # None /\ record.registry # None =>
              record.registry.generation \in 1 .. MaxGeneration
        BY DEF Shape, TypeOK, PublicationRecord
    <2>. QED
        BY <1>1, <1>2, <2>1, GenerationAssumption
        DEF RegistryCommitted, RecordedRegistry, Stamping
<1>5. PlannedRegistry(Held, snapshot) = Render(GenerationFor(Held, issuers), issuers)
    BY DEF PlannedRegistry
<1>6. CASE RegistryAhead(Held)
    <2>1. CASE Render(held, issuers) = registry
        BY <1>1, <1>3, <1>5, <1>6, <2>1 DEF GenerationFor
    <2>2. CASE Render(held, issuers) # registry
        <3>1. GenerationFor(Held, issuers) = held + 1
            BY <1>1, <1>3, <1>6, <2>2 DEF GenerationFor
        <3>. QED
            BY <1>2, <1>5, <3>1, GenerationAssumption DEF Render
    <2>. QED
        BY <2>1, <2>2
<1>7. CASE ~RegistryAhead(Held)
    <2>1. RegistryCommitted(Held) = held
        BY <1>2, <1>3, <1>4, <1>7 DEF RegistryAhead
    <2>2. CASE GenerationFor(Held, issuers) = held
        <3>1. /\ RecordedRegistry(Held) # None
              /\ Digest(Render(held, issuers)) = RecordedRegistry(Held).digest
            BY <1>2, <1>7, <2>1, <2>2 DEF GenerationFor
        <3>2. Digest(Render(held, issuers)) = Digest(registry)
            BY <1>4, <2>1, <3>1
        <3>3. Render(held, issuers) = registry
            BY <3>2 DEF Digest
        <3>. QED
            BY <1>5, <2>2, <3>3
    <2>3. CASE GenerationFor(Held, issuers) # held
        <3>1. GenerationFor(Held, issuers) = held + 1
            BY <1>7, <2>1, <2>3 DEF GenerationFor
        <3>. QED
            BY <1>2, <1>5, <3>1, GenerationAssumption DEF Render
    <2>. QED
        BY <2>2, <2>3
<1>. QED
    BY <1>6, <1>7

\* A file that lands keeps the count of registries.
LEMMA LandStamps ==
    ASSUME Shape, Placement, Stamping, NEW p \in Publishers, Land(p)
    PROVE  /\ stamped' \subseteq RegistryDocument
           /\ registry' = None => stamped' = {}
           /\ registry' # None => /\ registry' \in stamped'
                                  /\ \A r \in stamped' : r.generation <= registry'.generation
           /\ record' # None /\ record'.registry # None =>
                 /\ registry' # None
                 /\ record'.registry.generation <= registry'.generation
                 /\ record'.registry.generation = registry'.generation
                       => record'.registry.digest = Digest(registry')
           /\ plan[p].registry # None /\ registry' # None =>
                 \/ plan[p].registry = registry'
                 \/ plan[p].registry.generation > registry'.generation
           /\ RegistryGenerationStampedOnce'
<1>1. /\ Planned(p) /\ plan[p].registry \in RegistryDocument \cup {None}
      /\ plan[p].record \in PublicationRecord
    BY Landing
<1>2. \A r \in RegistryDocument : r.generation \in Nat
    BY GenerationAssumption DEF RegistryDocument
<1>3. registry \in RegistryDocument \cup {None} /\ record \in PublicationRecord \cup {None}
    BY DEF Shape, TypeOK
<1>4. \A r \in PublicationRecord : r.registry # None => r.registry.generation \in Nat
    BY GenerationAssumption DEF PublicationRecord
<1>5. CASE pc[p] = "registry"
    <2>1. /\ registry' = plan[p].registry /\ stamped' = stamped \cup {plan[p].registry}
          /\ record' = record /\ plan[p].registry # None
        BY <1>5, Landing DEF Land
    <2>2. plan[p].registry \in RegistryDocument
        BY <1>1, <2>1
    <2>3. CASE registry = None
        BY <1>2, <2>1, <2>2, <2>3 DEF Stamping, RegistryGenerationStampedOnce
    <2>4. CASE registry # None /\ plan[p].registry = registry
        <3>1. registry' = registry /\ stamped' = stamped
            BY <2>1, <2>4 DEF Stamping
        <3>. QED
            BY <2>1, <2>4, <3>1 DEF Stamping, RegistryGenerationStampedOnce
    <2>5. CASE registry # None /\ plan[p].registry # registry
        <3>1. plan[p].registry.generation > registry.generation
            BY <1>1, <2>1, <2>5 DEF Stamping
        <3>2. \A r \in stamped : /\ r.generation \in Nat
                                 /\ r.generation <= registry.generation
            BY <1>2, <2>5 DEF Stamping
        <3>3. registry.generation \in Nat /\ plan[p].registry.generation \in Nat
            BY <1>2, <1>3, <2>2, <2>5
        <3>4. \A r \in stamped : r.generation < plan[p].registry.generation
            BY <3>1, <3>2, <3>3
        <3>5. RegistryGenerationStampedOnce'
            BY <2>1, <3>2, <3>3, <3>4 DEF Stamping, RegistryGenerationStampedOnce
        <3>6. record # None /\ record.registry # None =>
                  record.registry.generation < plan[p].registry.generation
            BY <1>3, <1>4, <2>5, <3>1, <3>3 DEF Stamping
        <3>. QED
            BY <1>3, <1>4, <2>1, <2>2, <3>2, <3>3, <3>4, <3>5, <3>6 DEF Stamping
    <2>. QED
        BY <2>3, <2>4, <2>5
<1>6. CASE pc[p] = "record"
    <2>1. registry' = registry /\ stamped' = stamped /\ record' = plan[p].record
        BY <1>6 DEF Land
    <2>2. plan[p].registry # None => registry = plan[p].registry
        BY <1>1, <1>6 DEF Placement, Placed
    <2>3. plan[p].record.registry # None =>
              /\ plan[p].registry # None
              /\ plan[p].record.registry.generation = plan[p].registry.generation
              /\ plan[p].record.registry.digest = Digest(plan[p].registry)
        BY <1>1 DEF Stamping
    <2>. QED
        BY <1>1, <1>4, <2>1, <2>2, <2>3 DEF Stamping, RegistryGenerationStampedOnce
<1>7. CASE pc[p] \notin {"registry", "record"}
    <2>1. registry' = registry /\ stamped' = stamped /\ record' = record
        BY <1>7 DEF Land
    <2>. QED
        BY <1>1, <2>1 DEF Stamping, RegistryGenerationStampedOnce
<1>. QED
    BY <1>5, <1>6, <1>7

\* A registry is stamped after every one there ever was, or with the one in place again.
LEMMA StampingNext == Shape /\ Placement /\ Stamping /\ [Next]_vars => Stamping'
<1>. SUFFICES ASSUME Shape, Placement, Stamping, [Next]_vars PROVE Stamping'
    OBVIOUS
<1>1. CASE Quiet
    BY <1>1 DEF Quiet, Stamping, RegistryGenerationStampedOnce
<1>2. ASSUME NEW p \in Publishers, PlanAdmitted(p) PROVE Stamping'
    <2>. USE <1>2, AdmittedPlan
    <2>1. /\ plan'[p].registry = PlannedRegistry(Held, offer[p])
          /\ plan'[p].record = PlannedRecord(Held, Contract[p], offer[p])
        BY PlanFacts
    <2>2. plan'[p].registry # None => offer[p].registry # None
        BY <2>1, PlannedRegistryType
    <2>3. plan'[p].registry # None /\ registry # None =>
              \/ plan'[p].registry = registry
              \/ plan'[p].registry.generation > registry.generation
        BY <2>1, <2>2, ChosenGeneration
    <2>4. plan'[p].record.registry # None =>
              /\ plan'[p].registry # None
              /\ plan'[p].record.registry.generation = plan'[p].registry.generation
              /\ plan'[p].record.registry.digest = Digest(plan'[p].registry)
        <3>1. plan'[p].record.registry =
                  IF plan'[p].registry = None
                  THEN None
                  ELSE [generation |-> plan'[p].registry.generation,
                        digest     |-> Digest(plan'[p].registry)]
            BY <2>1, PlannedStamp
        <3>. QED
            BY <3>1
    <2>. QED
        BY <2>3, <2>4 DEF Stamping, RegistryGenerationStampedOnce
<1>3. ASSUME NEW p \in Publishers, Write(p) PROVE Stamping'
    <2>1. Land(p) /\ plan' = plan /\ Planned(p)
        BY <1>3, Landing DEF Write
    <2>2. \A q \in Publishers \ {p} : ~Planned(q)'
        BY <1>3, OthersStayOut
    <2>3. plan[p].record.registry # None =>
              /\ plan[p].registry # None
              /\ plan[p].record.registry.generation = plan[p].registry.generation
              /\ plan[p].record.registry.digest = Digest(plan[p].registry)
        BY <2>1 DEF Stamping
    <2>. QED
        BY <2>1, <2>2, <2>3, LandStamps DEF Stamping
<1>4. ASSUME NEW p \in Publishers, Skip(p) PROVE Stamping'
    <2>1. UNCHANGED <<registry, record, stamped, plan>> /\ Planned(p)
        BY <1>4 DEF Skip, Writing, Planned, files, history
    <2>. QED
        BY <1>4, <2>1, OthersStayOut DEF Stamping, RegistryGenerationStampedOnce
<1>5. ASSUME NEW p \in Publishers, SyncFails(p) PROVE Stamping'
    <2>1. Land(p)
        BY <1>5 DEF SyncFails
    <2>2. \A q \in Publishers : ~Planned(q)'
        BY <1>5, OthersStayOut DEF SyncFails, Return, Planned, Shape, TypeOK
    <2>. QED
        BY <2>1, <2>2, LandStamps DEF Stamping
<1>. QED
    BY <1>1, <1>2, <1>3, <1>4, <1>5, StepKinds

\* No registry generation is ever stamped on two different registries, for
\* any publishers and any interruption between the registry and the record:
\* registry/generation_choice.rs under the lock of adapter.rs `publish`.
THEOREM RegistryGenerationsStampedOnce == Spec => []RegistryGenerationStampedOnce
<1>1. Shape /\ Placement /\ Stamping => RegistryGenerationStampedOnce
    BY DEF Stamping
<1>. QED
    BY <1>1, ShapeInit, ShapeNext, DocStartInit, DocStartNext, PlacementInit, PlacementNext,
       StampingInit, StampingNext, PTL
    DEF Spec

--------------------------------------------------------------------------------
(* Advancing: a resource only ever changes under a higher revision.        *)

\* The document of that kind a record names.
Named(r, kind) == r.documents[kind].digest.sha256

\* What both documents hold is either unchanged or at a higher revision.
Supersedes(later, earlier) ==
    \A x \in Ids(earlier) \cap Ids(later) :
        \/ later[x].revision > earlier[x].revision
        \/ later[x] = earlier[x]

\* The documents of a snapshot and of a record have that shape.
LEMMA SnapshotDocuments ==
    ASSUME NEW snapshot \in Snapshots, NEW kind \in ResourceKinds
    PROVE  snapshot[kind].payload
               \in IF kind = "tenants" THEN TenantsDocument ELSE DataSourcesDocument
    BY SnapshotAssumption DEF RuntimeSnapshot, Input, ResourceKinds

\* What a record names of one kind is a document of that kind.
LEMMA NamedDocuments ==
    ASSUME NEW r \in PublicationRecord, NEW kind \in ResourceKinds
    PROVE  Named(r, kind) \in IF kind = "tenants" THEN TenantsDocument ELSE DataSourcesDocument
    BY DEF PublicationRecord, Recorded, Digests, Named, ResourceKinds

\* The history planned from covers the record in place and the resources held.
LEMMA HeldHistoryCovers ==
    ASSUME TypeOK, NEW kind \in ResourceKinds, NEW x \in Keys(kind)
    PROVE  /\ HeldHistory(Held)[kind][x] \in Nat
           /\ record # None => HeldHistory(Held)[kind][x] >= record.resources[kind][x]
           /\ HeldPayload(Held, kind)[x] # None =>
                 HeldHistory(Held)[kind][x] >= HeldPayload(Held, kind)[x].revision
<1>1. Held.record = record /\ (record # None => record \in PublicationRecord)
    BY DEF Held, TypeOK
<1>. QED
    BY <1>1, HeldPayloadType, HistoryOf

\* An admitted resource is numbered past all the history, or is the copy on
\* disk again, at the last number of the history.
LEMMA AdmittedAdvances ==
    ASSUME TypeOK, NEW contract, NEW snapshot \in Snapshots, Admitted(Held, contract, snapshot),
           NEW kind \in ResourceKinds, NEW x \in Ids(snapshot[kind].payload)
    PROVE  LET offered == snapshot[kind].payload[x]
               onDisk  == HeldPayload(Held, kind)[x]
               number  == HeldHistory(Held)[kind][x]
           IN  /\ offered.revision \in Nat /\ number \in Nat
               /\ \/ offered.revision > number
                  \/ onDisk # None /\ offered = onDisk /\ offered.revision = number
    BY HeldIsTyped, AdvancesPast, SnapshotAssumption

\* The record on disk carries a number for every resource ever published, at
\* least the highest it was published at, and both what is on disk and what
\* is planned supersede every published document.  The documents on disk may
\* be those of an interrupted publication, and the plan's were judged against
\* the documents and record read before the writes: the lock again.
Advancing ==
    /\ record # None =>
          \A r \in committed, kind \in ResourceKinds :
              \A x \in Ids(Named(r, kind)) :
                  Named(r, kind)[x].revision <= record.resources[kind][x]
    /\ \A r \in committed, kind \in ResourceKinds :
          Supersedes(HeldPayload(Held, kind), Named(r, kind))
    /\ \A p \in Publishers :
          Planned(p) =>
              \A kind \in ResourceKinds :
                  /\ \A r \in committed :
                        Supersedes(plan[p].snapshot[kind].payload, Named(r, kind))
                  /\ \A x \in Keys(kind) :
                        /\ record # None =>
                              plan[p].record.resources[kind][x] >= record.resources[kind][x]
                        /\ plan[p].snapshot[kind].payload[x] # None =>
                              plan[p].record.resources[kind][x]
                                  >= plan[p].snapshot[kind].payload[x].revision
    /\ ResourceRevisionsAdvance

\* No record is committed at first.
LEMMA AdvancingInit == Init => Advancing
    BY DEF Init, Advancing, ResourceRevisionsAdvance, Planned

\* A named document's ids and revisions.
LEMMA NamedFacts ==
    ASSUME NEW r \in PublicationRecord, NEW kind \in ResourceKinds
    PROVE  /\ Ids(Named(r, kind)) = {x \in Keys(kind) : Named(r, kind)[x] # None}
           /\ \A x \in Ids(Named(r, kind)) : Named(r, kind)[x].revision \in Nat
    BY NamedDocuments, DocumentFacts, RevisionAssumption

\* What an admitted plan publishes supersedes everything published before.
LEMMA AdmittedSupersedes ==
    ASSUME TypeOK, Numbering, Advancing,
           NEW contract, NEW snapshot \in Snapshots, Admitted(Held, contract, snapshot),
           NEW kind \in ResourceKinds, NEW r \in committed
    PROVE  Supersedes(snapshot[kind].payload, Named(r, kind))
<1>. SUFFICES ASSUME NEW x \in Ids(Named(r, kind)) \cap Ids(snapshot[kind].payload)
              PROVE  \/ snapshot[kind].payload[x].revision > Named(r, kind)[x].revision
                     \/ snapshot[kind].payload[x] = Named(r, kind)[x]
    BY DEF Supersedes
<1>. DEFINE offered == snapshot[kind].payload[x]
            onDisk  == HeldPayload(Held, kind)
            before  == Named(r, kind)[x]
            number  == HeldHistory(Held)[kind][x]
<1>1. record # None /\ r \in PublicationRecord /\ record \in PublicationRecord
    BY DEF Numbering, TypeOK
<1>2. x \in Keys(kind) /\ before.revision \in Nat
    BY <1>1, NamedFacts
<1>3. before.revision <= record.resources[kind][x]
    BY <1>1 DEF Advancing
<1>4. record.resources[kind][x] \in Nat /\ number >= record.resources[kind][x]
    <2>1. record.resources \in ResourceHistory
        BY <1>1 DEF PublicationRecord
    <2>. QED
        BY <1>1, <1>2, <2>1, HistoryNumbers, HeldHistoryCovers
<1>5. /\ offered.revision \in Nat /\ number \in Nat
      /\ \/ offered.revision > number
         \/ onDisk[x] # None /\ offered = onDisk[x] /\ offered.revision = number
    BY AdmittedAdvances
<1>6. CASE offered.revision > number
    <2>. HIDE DEF offered, onDisk, before, number
    <2>1. offered.revision > before.revision
        BY <1>2, <1>3, <1>4, <1>5, <1>6
    <2>. QED
        BY <2>1 DEF offered, before
<1>7. CASE onDisk[x] # None /\ offered = onDisk[x] /\ offered.revision = number
    <2>1. x \in Ids(onDisk)
        <3>1. onDisk \in IF kind = "tenants" THEN TenantsDocument ELSE DataSourcesDocument
            BY HeldPayloadType DEF ResourceKinds
        <3>. QED
            BY <1>2, <1>7, <3>1, DocumentFacts
    <2>2. onDisk[x].revision > before.revision \/ onDisk[x] = before
        BY <2>1 DEF Advancing, Supersedes
    <2>. QED
        BY <1>7, <2>2
<1>. QED
    BY <1>5, <1>6, <1>7

\* A planned record's history covers the one before and what it publishes.
LEMMA PlannedHistory ==
    ASSUME TypeOK, NEW contract, NEW snapshot \in Snapshots,
           NEW kind \in ResourceKinds, NEW x \in Keys(kind)
    PROVE  LET number == PlannedRecord(Held, contract, snapshot).resources[kind][x]
           IN  /\ record # None => number >= record.resources[kind][x]
               /\ snapshot[kind].payload[x] # None =>
                     number >= snapshot[kind].payload[x].revision
<1>. DEFINE raised == Including(HeldHistory(Held), snapshot.tenants.payload,
                                snapshot.data_sources.payload)
<1>1. PlannedRecord(Held, contract, snapshot).resources = raised
    BY PlannedParts
<1>2. HeldHistory(Held) \in ResourceHistory
    BY HeldHistoryType
<1>3. /\ snapshot.tenants.payload \in TenantsDocument
      /\ snapshot.data_sources.payload \in DataSourcesDocument
    BY SnapshotAssumption DEF RuntimeSnapshot, Input
<1>4. /\ raised[kind][x] \in Nat /\ HeldHistory(Held)[kind][x] \in Nat
      /\ raised[kind][x] >= HeldHistory(Held)[kind][x]
      /\ snapshot[kind].payload[x] # None =>
            raised[kind][x] >= snapshot[kind].payload[x].revision
    BY <1>2, <1>3, IncludingRaises DEF ResourceKinds
<1>5. record # None =>
          /\ record.resources[kind][x] \in Nat
          /\ HeldHistory(Held)[kind][x] >= record.resources[kind][x]
    <2>1. record # None => record.resources \in ResourceHistory
        BY DEF TypeOK, PublicationRecord
    <2>. QED
        BY <2>1, HistoryNumbers, HeldHistoryCovers
<1>. HIDE DEF raised
<1>. QED
    BY <1>1, <1>4, <1>5

\* A landing file leaves every document on disk as it was or as planned.
LEMMA LandedDocument ==
    ASSUME Shape, NEW p \in Publishers, Land(p), NEW kind \in ResourceKinds
    PROVE  \/ HeldPayload(Held', kind) = HeldPayload(Held, kind)
           \/ HeldPayload(Held', kind) = plan[p].snapshot[kind].payload
<1>1. Held.payload = payload /\ Held'.payload = payload'
    BY DEF Held
<1>2. payload'[kind] = payload[kind] \/ payload'[kind] = plan[p].snapshot[kind].payload
    BY DEF Land, Shape, TypeOK, ResourceKinds
<1>3. plan[p].snapshot[kind].payload # None
    <2>1. plan[p].snapshot[kind].payload \in TenantsDocument \cup DataSourcesDocument
        BY Landing, SnapshotDocuments
    <2>. QED
        BY <2>1, NoneAssumption
<1>. QED
    BY <1>1, <1>2, <1>3 DEF HeldPayload

\* A record that lands names the documents in place, planned and on disk.
LEMMA LandedRecord ==
    ASSUME Shape, Placement, NEW p \in Publishers, Land(p), pc[p] = "record",
           NEW kind \in ResourceKinds
    PROVE  /\ Named(plan[p].record, kind) = plan[p].snapshot[kind].payload
           /\ HeldPayload(Held', kind) = plan[p].snapshot[kind].payload
<1>1. Placed(p) /\ kind \in Kinds
    BY Landing DEF Placement, ResourceKinds, Kinds
<1>2. plan[p].record.documents[kind] = [revision |-> plan[p].snapshot[kind].revision,
                                        digest   |-> Digest(plan[p].snapshot[kind].payload)]
    BY <1>1 DEF Placed
<1>3. payload'[kind] = plan[p].snapshot[kind].payload
    BY <1>1 DEF Placed, DocDone, InPlace, Land
<1>4. plan[p].snapshot[kind].payload # None
    <2>1. plan[p].snapshot[kind].payload \in TenantsDocument \cup DataSourcesDocument
        BY Landing, SnapshotDocuments
    <2>. QED
        BY <2>1, NoneAssumption
<1>5. Held'.payload = payload'
    BY DEF Held
<1>. QED
    BY <1>2, <1>3, <1>4, <1>5 DEF Named, Digest, HeldPayload

\* A record that lands supersedes every record committed before it.
LEMMA LandAdvances ==
    ASSUME Shape, Numbering, Placement, Advancing, NEW p \in Publishers, Land(p)
    PROVE  /\ record' # None =>
                 \A r \in committed', kind \in ResourceKinds :
                     \A x \in Ids(Named(r, kind)) :
                         Named(r, kind)[x].revision <= record'.resources[kind][x]
           /\ \A r \in committed', kind \in ResourceKinds :
                 /\ Supersedes(HeldPayload(Held', kind), Named(r, kind))
                 /\ Supersedes(plan[p].snapshot[kind].payload, Named(r, kind))
           /\ \A kind \in ResourceKinds : \A x \in Keys(kind) :
                 record' # None =>
                     plan[p].record.resources[kind][x] >= record'.resources[kind][x]
           /\ ResourceRevisionsAdvance'
<1>1. Planned(p) /\ plan[p].record \in PublicationRecord
    BY Landing
<1>2. \A r \in committed, kind \in ResourceKinds :
          /\ Supersedes(HeldPayload(Held', kind), Named(r, kind))
          /\ Supersedes(plan[p].snapshot[kind].payload, Named(r, kind))
    BY <1>1, LandedDocument DEF Advancing
<1>3. \A kind \in ResourceKinds : \A x \in Keys(kind) :
          /\ plan[p].record.resources[kind][x] \in Nat
          /\ record # None => /\ record.resources[kind][x] \in Nat
                              /\ plan[p].record.resources[kind][x] >= record.resources[kind][x]
    <2>1. /\ plan[p].record.resources \in ResourceHistory
          /\ record # None => record.resources \in ResourceHistory
        BY <1>1 DEF Shape, TypeOK, PublicationRecord
    <2>. QED
        BY <1>1, <2>1, HistoryNumbers DEF Advancing
<1>4. CASE pc[p] # "record"
    <2>1. record' = record /\ committed' = committed
        BY <1>4 DEF Land
    <2>. QED
        BY <1>2, <1>3, <2>1 DEF Advancing, ResourceRevisionsAdvance
<1>5. CASE pc[p] = "record"
    <2>1. record' = plan[p].record /\ committed' = committed \cup {plan[p].record}
        BY <1>5 DEF Land
    <2>2. \A kind \in ResourceKinds :
              /\ Named(plan[p].record, kind) = plan[p].snapshot[kind].payload
              /\ HeldPayload(Held', kind) = plan[p].snapshot[kind].payload
        BY <1>5, LandedRecord
    <2>3. ASSUME NEW r \in committed', NEW kind \in ResourceKinds,
                 NEW x \in Ids(Named(r, kind))
          PROVE  Named(r, kind)[x].revision <= plan[p].record.resources[kind][x]
        <3>1. r \in PublicationRecord
            BY <1>1, <2>1 DEF Numbering
        <3>2. /\ x \in Keys(kind) /\ Named(r, kind)[x] # None
              /\ Named(r, kind)[x].revision \in Nat
            BY <3>1, NamedFacts
        <3>3. CASE r = plan[p].record
            BY <1>1, <1>3, <2>2, <3>2, <3>3 DEF Advancing
        <3>4. CASE r \in committed
            <4>1. record # None
                BY <3>4 DEF Numbering
            <4>2. Named(r, kind)[x].revision <= record.resources[kind][x]
                BY <3>4, <4>1 DEF Advancing
            <4>. QED
                BY <1>3, <3>2, <4>1, <4>2
        <3>. QED
            BY <2>1, <3>3, <3>4
    <2>4. \A document : Supersedes(document, document)
        BY DEF Supersedes
    <2>5. \A r \in committed', kind \in ResourceKinds :
              /\ Supersedes(HeldPayload(Held', kind), Named(r, kind))
              /\ Supersedes(plan[p].snapshot[kind].payload, Named(r, kind))
        BY <1>2, <2>1, <2>2, <2>4
    <2>6. ResourceRevisionsAdvance'
        <3>. SUFFICES ASSUME NEW a \in committed', NEW b \in committed',
                             a.generation < b.generation, NEW kind \in ResourceKinds
                      PROVE  Supersedes(Named(b, kind), Named(a, kind))
            BY DEF ResourceRevisionsAdvance, Supersedes, Named, ResourceKinds
        <3>1. CASE a \in committed /\ b \in committed
            BY <3>1 DEF Advancing, ResourceRevisionsAdvance, Supersedes, Named, ResourceKinds
        <3>2. CASE b = plan[p].record
            BY <2>2, <2>5, <3>2
        <3>3. CASE a = plan[p].record /\ b \in committed
            <4>1. b.generation <= a.generation
                BY <2>1, <3>3, LandNumbers DEF Numbering
            <4>2. a.generation \in Nat /\ b.generation \in Nat
                BY <1>1, <3>3, GenerationAssumption DEF Numbering, PublicationRecord
            <4>. QED
                BY <4>1, <4>2
        <3>. QED
            BY <2>1, <3>1, <3>2, <3>3
    <2>. QED
        BY <1>3, <2>1, <2>3, <2>5, <2>6
<1>. QED
    BY <1>4, <1>5

\* Histories advance from record to record.
LEMMA AdvancingNext ==
    Shape /\ Numbering /\ Placement /\ Advancing /\ [Next]_vars => Advancing'
<1>. SUFFICES ASSUME Shape, Numbering, Placement, Advancing, [Next]_vars PROVE Advancing'
    OBVIOUS
<1>1. CASE Quiet
    <2>1. Held' = Held
        BY <1>1 DEF Quiet, Held
    <2>. QED
        BY <1>1, <2>1 DEF Quiet, Advancing, ResourceRevisionsAdvance
<1>2. ASSUME NEW p \in Publishers, PlanAdmitted(p) PROVE Advancing'
    <2>. DEFINE s == offer[p]
    <2>1. /\ TypeOK /\ Admitted(Held, Contract[p], s) /\ s \in Snapshots
          /\ Contract[p] \in Contracts
          /\ UNCHANGED <<record, committed>> /\ Held' = Held
          /\ \A q \in Publishers \ {p} : ~Planned(q)'
        BY <1>2, AdmittedPlan
    <2>2. /\ plan'[p].snapshot = s
          /\ plan'[p].record = PlannedRecord(Held, Contract[p], s)
        BY <1>2, <2>1, AdmittedPlan, PlanFacts
    <2>3. \A kind \in ResourceKinds, r \in committed :
              Supersedes(s[kind].payload, Named(r, kind))
        BY <2>1, AdmittedSupersedes
    <2>4. \A kind \in ResourceKinds : \A x \in Keys(kind) :
              /\ record # None =>
                    plan'[p].record.resources[kind][x] >= record.resources[kind][x]
              /\ s[kind].payload[x] # None =>
                    plan'[p].record.resources[kind][x] >= s[kind].payload[x].revision
        BY <2>1, <2>2, PlannedHistory
    <2>. HIDE DEF s
    <2>. QED
        BY <2>1, <2>2, <2>3, <2>4 DEF Advancing, ResourceRevisionsAdvance
<1>3. ASSUME NEW p \in Publishers, Write(p) PROVE Advancing'
    <2>1. Land(p) /\ plan' = plan /\ Planned(p)
        BY <1>3, Landing DEF Write
    <2>2. \A q \in Publishers \ {p} : ~Planned(q)'
        BY <1>3, OthersStayOut
    <2>3. \A kind \in ResourceKinds : \A x \in Keys(kind) :
              plan[p].snapshot[kind].payload[x] # None =>
                  plan[p].record.resources[kind][x] >= plan[p].snapshot[kind].payload[x].revision
        BY <2>1 DEF Advancing
    <2>. QED
        BY <2>1, <2>2, <2>3, LandAdvances DEF Advancing
<1>4. ASSUME NEW p \in Publishers, Skip(p) PROVE Advancing'
    <2>1. UNCHANGED <<record, committed, plan>> /\ Held' = Held /\ Planned(p)
        BY <1>4 DEF Skip, Writing, Planned, files, history, Held
    <2>. QED
        BY <1>4, <2>1, OthersStayOut DEF Advancing, ResourceRevisionsAdvance
<1>5. ASSUME NEW p \in Publishers, SyncFails(p) PROVE Advancing'
    <2>1. Land(p)
        BY <1>5 DEF SyncFails
    <2>2. \A q \in Publishers : ~Planned(q)'
        BY <1>5, OthersStayOut DEF SyncFails, Return, Planned, Shape, TypeOK
    <2>. QED
        BY <2>1, <2>2, LandAdvances DEF Advancing
<1>. QED
    BY <1>1, <1>2, <1>3, <1>4, <1>5, StepKinds

\* A resource that two generations publish has a higher revision in the later
\* one or is the same there, over removal, redeclaration and interrupted
\* publications: resource_revisions.rs with the history plan/record.rs keeps.
THEOREM ResourcesOnlyAdvance == Spec => []ResourceRevisionsAdvance
<1>1. Shape /\ Numbering /\ Placement /\ Advancing => ResourceRevisionsAdvance
    BY DEF Advancing
<1>. QED
    BY <1>1, ShapeInit, ShapeNext, NumberingInit, NumberingNext, DocStartInit, DocStartNext,
       PlacementInit, PlacementNext, AdvancingInit, AdvancingNext, PTL
    DEF Spec

--------------------------------------------------------------------------------
(* Offering an admitted snapshot again.                                    *)
(*                                                                         *)
(* A file that lands brings what is held closer to the plan.  So each rule *)
(* that admitted the snapshot is shown to admit it still over the files as *)
(* they are after one more of them landed, and the plan it would come to   *)
(* is shown to be the same.                                                *)

\* The held files keep admitting a publication, and plan it as they did.
Retries(t) ==
    /\ Admitted(Held, t.contract, t.snapshot)
    /\ PlannedRecord(Held, t.contract, t.snapshot).documents = t.record.documents
    /\ PlannedRecord(Held, t.contract, t.snapshot).registry = t.record.registry
    /\ PlannedRecord(Held, t.contract, t.snapshot).generation = t.record.generation

\* The record a publisher plans is of its contract, numbers the resources as
\* they are offered, and names the planned registry.
RecordPlanned(p) ==
    /\ plan[p].record.contract = Contract[p]
    /\ \A kind \in ResourceKinds :
          \A x \in Ids(plan[p].snapshot[kind].payload) :
              plan[p].record.resources[kind][x] = plan[p].snapshot[kind].payload[x].revision
    /\ plan[p].record.registry =
          IF plan[p].registry = None
          THEN None
          ELSE [generation |-> plan[p].registry.generation, digest |-> Digest(plan[p].registry)]

\* The last admitted plan is retried as it was made, and while its publisher
\* is at it, it is that publisher's.  The manifests never fall behind the
\* record, which is what tells a torn document from a published one.
Retrying ==
    /\ record # None => \A kind \in Kinds : record.documents[kind].revision <= manifest[kind]
    /\ \A p \in Publishers :
          Planned(p) =>
              /\ torn = [contract |-> Contract[p], snapshot |-> plan[p].snapshot,
                         record |-> plan[p].record]
              /\ plan[p].registry = PlannedRegistry(Held, plan[p].snapshot)
              /\ RecordPlanned(p)
              /\ Retries(torn)
    /\ torn # None => Retries(torn)

\* Nothing is interrupted at first.
LEMMA RetryingInit == Init => Retrying
    BY DEF Init, Retrying, Planned

--------------------------------------------------------------------------------
(* A landing file, rule by rule.                                           *)

\* What a landing file changes of one document.
LEMMA LandedFiles ==
    ASSUME Shape, Placement, NEW p \in Publishers, Land(p), NEW kind \in Kinds
    PROVE  /\ Held'.payload = payload' /\ Held'.manifest = manifest'
           /\ Held'.record = record' /\ Held'.registry = registry'
           /\ Held.payload = payload /\ Held.manifest = manifest
           /\ Held.record = record /\ Held.registry = registry
           /\ \/ payload'[kind] = payload[kind]
              \/ payload'[kind] = plan[p].snapshot[kind].payload
           /\ \/ manifest'[kind] = manifest[kind]
              \/ /\ manifest'[kind] = plan[p].snapshot[kind].revision
                 /\ payload'[kind] = plan[p].snapshot[kind].payload
           /\ \/ record' = record
              \/ /\ record' = plan[p].record
                 /\ payload'[kind] = plan[p].snapshot[kind].payload
                 /\ manifest'[kind] = plan[p].snapshot[kind].revision
           /\ plan[p].snapshot[kind].payload # None
           /\ plan[p].snapshot[kind].revision \in Revisions
           /\ plan[p].snapshot[kind].revision # None
<1>1. /\ Held'.payload = payload' /\ Held'.manifest = manifest'
      /\ Held'.record = record' /\ Held'.registry = registry'
      /\ Held.payload = payload /\ Held.manifest = manifest
      /\ Held.record = record /\ Held.registry = registry
    BY DEF Held
<1>2. Planned(p) /\ Placed(p)
    BY Landing DEF Placement
<1>3. payload'[kind] = payload[kind] \/ payload'[kind] = plan[p].snapshot[kind].payload
    BY DEF Land, Shape, TypeOK, Kinds
<1>4. \/ manifest'[kind] = manifest[kind]
      \/ /\ manifest'[kind] = plan[p].snapshot[kind].revision
         /\ payload'[kind] = plan[p].snapshot[kind].payload
    <2>1. CASE pc[p] = "manifest" /\ doc[p] = kind
        BY <1>2, <2>1 DEF Land, Shape, TypeOK, Placed
    <2>2. CASE ~(pc[p] = "manifest" /\ doc[p] = kind)
        BY <2>2 DEF Land, Shape, TypeOK
    <2>. QED
        BY <2>1, <2>2
<1>5. \/ record' = record
      \/ /\ record' = plan[p].record
         /\ payload'[kind] = plan[p].snapshot[kind].payload
         /\ manifest'[kind] = plan[p].snapshot[kind].revision
    <2>1. CASE pc[p] = "record"
        BY <1>2, <2>1 DEF Land, Placed, DocDone, InPlace
    <2>2. CASE pc[p] # "record"
        BY <2>2 DEF Land
    <2>. QED
        BY <2>1, <2>2
<1>. QED
    BY <1>1, <1>2, <1>3, <1>4, <1>5, PlanExists

\* What a retry is judged by.
LEMMA Retried ==
    ASSUME Shape, Retrying, NEW p \in Publishers, Planned(p)
    PROVE  /\ torn.contract = Contract[p] /\ torn.snapshot = plan[p].snapshot
           /\ torn.record = plan[p].record
           /\ Contract[p] \in Contracts
           /\ plan[p].snapshot \in Snapshots
           /\ plan[p].registry = PlannedRegistry(Held, plan[p].snapshot)
           /\ RecordPlanned(p)
           /\ Admitted(Held, Contract[p], plan[p].snapshot)
    BY PublisherAssumption DEF Retrying, Retries, Shape, PlanTyped

\* The held files stay readable: no manifest is ever without its payload.
LEMMA LandReadable ==
    ASSUME Shape, Placement, Shape', NEW p \in Publishers, Land(p), HeldReadable(Held)
    PROVE  HeldReadable(Held')
<1>1. /\ Held'.payload = payload' /\ Held'.manifest = manifest' /\ Held'.record = record'
    BY DEF Held
<1>2. record' # Corrupt
    <2>1. record' \in PublicationRecord \cup {None}
        BY DEF Shape, TypeOK
    <2>. QED
        BY <2>1, NoneAssumption
<1>3. ASSUME NEW kind \in Kinds
      PROVE  /\ Held'.manifest[kind] # Corrupt
             /\ kind # "catalog" =>
                   /\ Held'.payload[kind] # Corrupt
                   /\ Held'.manifest[kind] # None => Held'.payload[kind] # None
    <2>1. Held'.manifest[kind] # Corrupt
        <3>1. manifest'[kind] \in Revisions \cup {None}
            BY DEF Shape, TypeOK
        <3>. QED
            BY <1>1, <3>1, NoneAssumption
    <2>2. kind # "catalog" => Held'.payload[kind] # Corrupt
        <3>1. kind # "catalog" =>
                  payload'[kind] \in TenantsDocument \cup DataSourcesDocument \cup {None}
            BY DEF Shape, TypeOK, Kinds
        <3>. QED
            BY <1>1, <3>1, NoneAssumption
    <2>3. kind # "catalog" /\ Held'.manifest[kind] # None => Held'.payload[kind] # None
        <3>1. kind # "catalog" /\ manifest[kind] # None => payload[kind] # None
            BY DEF HeldReadable, Held
        <3>. QED
            BY <3>1, LandedFiles
    <2>. QED
        BY <2>1, <2>2, <2>3
<1>. QED
    BY <1>1, <1>2, <1>3 DEF HeldReadable

\* The rollback floor the new record leaves is the publisher's own contract.
LEMMA LandFloor ==
    ASSUME Shape, Placement, Retrying, NEW p \in Publishers, Land(p)
    PROVE  RollbackFloorHolds(Held', Contract[p])
<1>1. Planned(p)
    BY Landing
<1>2. RollbackFloorHolds(Held, Contract[p]) /\ plan[p].record.contract = Contract[p]
    BY <1>1, Retried DEF Admitted, RecordPlanned
<1>3. Contract[p] \in Nat
    BY PublisherAssumption, ContractAssumption
<1>4. record' = record \/ record' = plan[p].record
    BY DEF Land
<1>. QED
    BY <1>2, <1>3, <1>4 DEF RollbackFloorHolds, Held

\* The documents now on disk retire and empty no more than the old ones did.
LEMMA LandValid ==
    ASSUME Shape, NEW p \in Publishers, Land(p),
           ValidSnapshot(Held, plan[p].snapshot)
    PROVE  ValidSnapshot(Held', plan[p].snapshot)
<1>. DEFINE s == plan[p].snapshot
<1>1. /\ \/ HeldPayload(Held', "tenants") = HeldPayload(Held, "tenants")
         \/ HeldPayload(Held', "tenants") = s.tenants.payload
      /\ \/ HeldPayload(Held', "data_sources") = HeldPayload(Held, "data_sources")
         \/ HeldPayload(Held', "data_sources") = s.data_sources.payload
    BY LandedDocument DEF ResourceKinds
<1>2. NoRetiredSourceStillBound(Held', s)
    BY <1>1 DEF ValidSnapshot, NoRetiredSourceStillBound
<1>3. /\ EmptyingIntended(HeldPayload(Held', "tenants"), s.tenants)
      /\ EmptyingIntended(HeldPayload(Held', "data_sources"), s.data_sources)
    BY <1>1 DEF ValidSnapshot, EmptyingIntended
<1>. QED
    BY <1>2, <1>3 DEF ValidSnapshot

\* No document on disk has come to be ahead of the offered one, or beside it.
LEMMA LandFresh ==
    ASSUME Shape, Placement, NEW p \in Publishers, Land(p), NEW kind \in Kinds,
           ~Stale(Held, plan[p].snapshot, kind), ~Divergent(Held, plan[p].snapshot, kind)
    PROVE  ~Stale(Held', plan[p].snapshot, kind) /\ ~Divergent(Held', plan[p].snapshot, kind)
<1>. DEFINE offered == plan[p].snapshot[kind]
<1>1. offered.revision \in Nat
    BY LandedFiles, RevisionAssumption
<1>2. CASE manifest'[kind] = offered.revision /\ payload'[kind] = offered.payload
    <2>1. HeldRevision(Held', kind) = offered.revision /\ Held'.payload[kind] = offered.payload
        BY <1>2, LandedFiles DEF HeldRevision
    <2>. QED
        BY <1>1, <2>1 DEF Stale, Divergent
<1>3. CASE manifest'[kind] = manifest[kind] /\ record' = record
    <2>1. HeldRevision(Held', kind) = HeldRevision(Held, kind)
        BY <1>3, LandedFiles DEF HeldRevision
    <2>2. Held'.payload[kind] = Held.payload[kind] \/ Held'.payload[kind] = offered.payload
        BY LandedFiles
    <2>. QED
        BY <2>1, <2>2 DEF Stale, Divergent
<1>. QED
    BY <1>2, <1>3, LandedFiles

\* What is read after a file landed is still well formed.
LEMMA LandedTypes ==
    ASSUME Shape, NEW p \in Publishers, Land(p)
    PROVE  /\ Held'.record # None => Held'.record \in PublicationRecord
           /\ HeldPayload(Held', "tenants") \in TenantsDocument
           /\ HeldPayload(Held', "data_sources") \in DataSourcesDocument
<1>1. Held'.record = record' /\ (record' # None => record' \in PublicationRecord)
    BY LandShape DEF Held
<1>2. /\ plan[p].snapshot["tenants"].payload \in TenantsDocument
      /\ plan[p].snapshot["data_sources"].payload \in DataSourcesDocument
    BY Landing, SnapshotAssumption DEF RuntimeSnapshot, Input
<1>3. /\ HeldPayload(Held, "tenants") \in TenantsDocument
      /\ HeldPayload(Held, "data_sources") \in DataSourcesDocument
    BY HeldPayloadType DEF Shape
<1>4. /\ \/ HeldPayload(Held', "tenants") = HeldPayload(Held, "tenants")
         \/ HeldPayload(Held', "tenants") = plan[p].snapshot["tenants"].payload
      /\ \/ HeldPayload(Held', "data_sources") = HeldPayload(Held, "data_sources")
         \/ HeldPayload(Held', "data_sources") = plan[p].snapshot["data_sources"].payload
    BY LandedDocument DEF ResourceKinds
<1>. QED
    BY <1>1, <1>2, <1>3, <1>4

\* An offered resource is still past all the history, or the copy on disk.
LEMMA LandedHistory ==
    ASSUME Shape, Placement, Retrying, NEW p \in Publishers, Land(p),
           NEW kind \in ResourceKinds, NEW x \in Ids(plan[p].snapshot[kind].payload)
    PROVE  /\ plan[p].snapshot[kind].payload[x].revision \in Nat
           /\ HeldHistory(Held')[kind][x] \in Nat
           /\ HeldPayload(Held', kind)[x] # None =>
                 HeldHistory(Held')[kind][x] >= HeldPayload(Held', kind)[x].revision
           /\ \/ plan[p].snapshot[kind].payload[x].revision > HeldHistory(Held')[kind][x]
              \/ /\ HeldPayload(Held', kind)[x] # None
                 /\ plan[p].snapshot[kind].payload[x] = HeldPayload(Held', kind)[x]
                 /\ plan[p].snapshot[kind].payload[x].revision = HeldHistory(Held')[kind][x]
<1>. DEFINE s       == plan[p].snapshot
            offered == s[kind].payload[x]
            onDisk  == HeldPayload(Held', kind)
            number  == HeldHistory(Held')[kind][x]
<1>1. /\ Planned(p) /\ kind \in Kinds /\ s \in Snapshots
      /\ Admitted(Held, Contract[p], s) /\ RecordPlanned(p) /\ TypeOK
    BY Landing, Retried DEF ResourceKinds, Kinds, Shape
<1>2. x \in Keys(kind) /\ offered # None
    BY <1>1, SnapshotDocuments, DocumentFacts
<1>3. /\ offered.revision \in Nat /\ HeldHistory(Held)[kind][x] \in Nat
      /\ \/ offered.revision > HeldHistory(Held)[kind][x]
         \/ /\ HeldPayload(Held, kind)[x] # None
            /\ offered = HeldPayload(Held, kind)[x]
            /\ offered.revision = HeldHistory(Held)[kind][x]
    BY <1>1, AdmittedAdvances
<1>4. Held.record = record /\ Held'.record = record'
    BY DEF Held
<1>5. /\ number \in Nat
      /\ record' # None => /\ record'.resources[kind][x] \in Nat
                           /\ number >= record'.resources[kind][x]
      /\ onDisk[x] # None => number >= onDisk[x].revision
      /\ \/ record' = None /\ number = 0
         \/ record' # None /\ number = record'.resources[kind][x]
         \/ onDisk[x] # None /\ number = onDisk[x].revision
    BY <1>2, <1>4, LandedTypes, HistoryOf
<1>6. CASE record' = record /\ onDisk = HeldPayload(Held, kind)
    <2>1. /\ record # None => /\ record.resources[kind][x] \in Nat
                              /\ HeldHistory(Held)[kind][x] >= record.resources[kind][x]
          /\ onDisk[x] # None => HeldHistory(Held)[kind][x] >= onDisk[x].revision
          /\ \/ record = None /\ HeldHistory(Held)[kind][x] = 0
             \/ record # None /\ HeldHistory(Held)[kind][x] = record.resources[kind][x]
             \/ onDisk[x] # None /\ HeldHistory(Held)[kind][x] = onDisk[x].revision
        <3>1. record # None => record \in PublicationRecord
            BY <1>1 DEF TypeOK
        <3>. QED
            BY <1>1, <1>2, <1>4, <1>6, <3>1, HeldPayloadType, HistoryOf
    <2>2. number = HeldHistory(Held)[kind][x]
        <3>. HIDE DEF number, onDisk
        <3>. QED
            BY <1>3, <1>5, <1>6, <2>1
    <2>. QED
        BY <1>3, <1>5, <1>6, <2>2
<1>7. CASE onDisk = s[kind].payload /\ record' = record
    <2>1. record # None => HeldHistory(Held)[kind][x] >= record.resources[kind][x]
        BY <1>1, <1>2, HeldHistoryCovers
    <2>2. offered.revision = number
        <3>. HIDE DEF number, offered
        <3>. QED
            BY <1>2, <1>3, <1>5, <1>7, <2>1 DEF offered
    <2>. QED
        BY <1>2, <1>3, <1>5, <1>7, <2>2
<1>8. CASE record' = plan[p].record /\ pc[p] = "record"
    <2>1. onDisk = s[kind].payload
        BY <1>8, LandedRecord
    <2>2. plan[p].record.resources[kind][x] = offered.revision
        BY <1>1 DEF RecordPlanned
    <2>3. offered.revision = number
        BY <1>2, <1>3, <1>5, <1>8, <2>1, <2>2
    <2>. QED
        BY <1>2, <1>3, <1>5, <2>1, <2>3
<1>9. record' = record \/ (record' = plan[p].record /\ pc[p] = "record")
    BY DEF Land
<1>. QED
    BY <1>6, <1>7, <1>8, <1>9, LandedDocument

\* The per-resource rules keep taking the offered resources.
LEMMA LandResources ==
    ASSUME Shape, Placement, Retrying, NEW p \in Publishers, Land(p)
    PROVE  ResourcesAdvance(Held', plan[p].snapshot)
<1>. DEFINE s == plan[p].snapshot
<1>1. ASSUME NEW kind \in ResourceKinds
      PROVE  Advanced(HeldPayload(Held', kind), HeldHistory(Held')[kind], s[kind].payload)
    <2>. SUFFICES ASSUME NEW x \in Ids(s[kind].payload)
                  PROVE  LET onDisk == HeldPayload(Held', kind)
                             number == HeldHistory(Held')[kind]
                             floor  == IF onDisk[x] # None /\ onDisk[x].revision > number[x]
                                       THEN onDisk[x].revision
                                       ELSE number[x]
                         IN  \/ s[kind].payload[x].revision > floor
                             \/ /\ onDisk[x] # None
                                /\ onDisk[x].revision = floor
                                /\ s[kind].payload[x] = onDisk[x]
        BY DEF Advanced
    <2>1. HeldPayload(Held', kind)[x] # None =>
              HeldPayload(Held', kind)[x].revision \in Nat
        <3>1. HeldPayload(Held', kind) \in IF kind = "tenants" THEN TenantsDocument
                                           ELSE DataSourcesDocument
            BY LandedTypes DEF ResourceKinds
        <3>2. x \in Keys(kind)
            BY Landing, SnapshotDocuments, DocumentFacts
        <3>. QED
            BY <3>1, <3>2, DocumentFacts, RevisionAssumption
    <2>. QED
        BY <2>1, LandedHistory
<1>2. NoTenantRemoved(HeldPayload(Held', "tenants"), s.tenants)
    <2>1. NoTenantRemoved(HeldPayload(Held, "tenants"), s.tenants)
        BY Landing, Retried DEF Admitted, ResourcesAdvance
    <2>2. \/ HeldPayload(Held', "tenants") = HeldPayload(Held, "tenants")
          \/ HeldPayload(Held', "tenants") = s.tenants.payload
        BY LandedDocument DEF ResourceKinds
    <2>. QED
        BY <2>1, <2>2 DEF NoTenantRemoved
<1>. QED
    BY <1>1, <1>2 DEF ResourcesAdvance, ResourceKinds

\* The same generation is chosen for the registrations, before the registry
\* lands, after it, and once the record names it.
LEMMA LandChoosesAlike ==
    ASSUME Shape, Placement, Stamping, Retrying, NEW p \in Publishers, Land(p),
           plan[p].snapshot.registry # None
    PROVE  GenerationFor(Held', plan[p].snapshot.registry)
               = GenerationFor(Held, plan[p].snapshot.registry)
<1>. DEFINE issuers == plan[p].snapshot.registry
            g       == GenerationFor(Held, issuers)
<1>1. /\ Planned(p) /\ TypeOK
      /\ plan[p].snapshot \in Snapshots /\ Admitted(Held, Contract[p], plan[p].snapshot)
      /\ plan[p].registry = PlannedRegistry(Held, plan[p].snapshot) /\ RecordPlanned(p)
    BY Landing, Retried DEF Shape
<1>2. plan[p].registry = Render(g, issuers)
    BY <1>1 DEF PlannedRegistry
<1>3. /\ plan[p].registry # None /\ plan[p].registry \in RegistryDocument
      /\ g \in 1 .. MaxGeneration
    <2>1. plan[p].registry \in RegistryDocument
        BY <1>1, PlannedRegistryType
    <2>. QED
        BY <1>2, <2>1, NoneAssumption DEF Render, RegistryDocument
<1>4. /\ Held.registry = registry /\ Held.record = record
      /\ Held'.registry = registry' /\ Held'.record = record'
    BY DEF Held
<1>5. CASE pc[p] = "registry"
    <2>1. registry' = Render(g, issuers) /\ record' = record
        BY <1>2, <1>5 DEF Land
    <2>2. CASE registry # None /\ registry = plan[p].registry
        <3>1. Held'.registry = Held.registry /\ Held'.record = Held.record
            BY <1>2, <1>4, <2>1, <2>2
        <3>. QED
            BY <3>1 DEF GenerationFor, RegistryAhead, RegistryHeldGeneration,
                        RegistryCommitted, RecordedRegistry
    <2>3. CASE registry = None \/ registry # plan[p].registry
        <3>1. RegistryCommitted(Held') \in Nat /\ RegistryCommitted(Held') < g
            <4>1. CASE registry = None
                <5>1. RegistryCommitted(Held') = 0
                    BY <1>4, <2>1, <4>1 DEF Stamping, RegistryCommitted, RecordedRegistry
                <5>. QED
                    BY <1>3, <5>1, GenerationAssumption
            <4>2. CASE registry # None
                <5>1. /\ g > registry.generation /\ registry.generation \in Nat
                    <6>1. plan[p].registry.generation = g
                        BY <1>2 DEF Render
                    <6>2. plan[p].registry.generation > registry.generation
                        BY <1>1, <1>3, <2>3, <4>2 DEF Stamping
                    <6>3. registry.generation \in 1 .. MaxGeneration
                        BY <1>1, <4>2 DEF TypeOK, RegistryDocument
                    <6>. QED
                        BY <6>1, <6>2, <6>3, GenerationAssumption
                <5>2. RegistryCommitted(Held') = IF record # None /\ record.registry # None
                                                 THEN record.registry.generation
                                                 ELSE 0
                    BY <1>4, <2>1 DEF RegistryCommitted, RecordedRegistry
                <5>3. record # None /\ record.registry # None =>
                          record.registry.generation <= registry.generation
                    BY DEF Stamping
                <5>4. record # None /\ record.registry # None =>
                          record.registry.generation \in 1 .. MaxGeneration
                    BY <1>1 DEF TypeOK, PublicationRecord
                <5>. QED
                    BY <1>3, <5>1, <5>2, <5>3, <5>4, GenerationAssumption
            <4>. QED
                BY <4>1, <4>2
        <3>2. RegistryHeldGeneration(Held') = g
            BY <1>2, <1>3, <1>4, <2>1 DEF RegistryHeldGeneration, Render
        <3>3. RegistryAhead(Held')
            BY <1>3, <3>1, <3>2 DEF RegistryAhead
        <3>. QED
            BY <1>4, <2>1, <3>2, <3>3 DEF GenerationFor
    <2>. QED
        BY <2>2, <2>3
<1>6. CASE pc[p] = "record"
    <2>1. registry' = plan[p].registry /\ record' = plan[p].record
        BY <1>1, <1>3, <1>6 DEF Land, Placement, Placed
    <2>2. plan[p].record # None
        BY Landing, NoneAssumption
    <2>3. plan[p].record.registry = [generation |-> g, digest |-> Digest(Render(g, issuers))]
        BY <1>1, <1>2, <1>3 DEF RecordPlanned, Render
    <2>4. [generation |-> g, digest |-> Digest(Render(g, issuers))] # None
        <3>1. Digest(Render(g, issuers)) \in Digests(RegistryDocument)
            BY <1>2, <1>3 DEF Digest, Digests
        <3>. QED
            BY <1>3, <3>1, NoneAssumption
    <2>5. /\ RecordedRegistry(Held') = plan[p].record.registry
          /\ RecordedRegistry(Held') # None
        BY <1>4, <2>1, <2>2, <2>3, <2>4 DEF RecordedRegistry
    <2>6. RegistryHeldGeneration(Held') = g /\ RegistryCommitted(Held') = g
        BY <1>2, <1>3, <1>4, <2>1, <2>3, <2>5
        DEF RegistryHeldGeneration, RegistryCommitted, Render
    <2>7. ~RegistryAhead(Held')
        BY <1>3, <2>6, GenerationAssumption DEF RegistryAhead
    <2>. QED
        BY <2>3, <2>5, <2>6, <2>7 DEF GenerationFor
<1>7. CASE pc[p] \notin {"registry", "record"}
    <2>1. Held'.registry = Held.registry /\ Held'.record = Held.record
        BY <1>4, <1>7 DEF Land
    <2>. QED
        BY <2>1 DEF GenerationFor, RegistryAhead, RegistryHeldGeneration,
                    RegistryCommitted, RecordedRegistry
<1>. QED
    BY <1>5, <1>6, <1>7

\* So the registry rules keep admitting them, with the registry as planned.
LEMMA LandRegistry ==
    ASSUME Shape, Shape', Placement, Stamping, Retrying, NEW p \in Publishers, Land(p)
    PROVE  /\ RegistryAdmitted(Held', plan[p].snapshot)
           /\ PlannedRegistry(Held', plan[p].snapshot) = plan[p].registry
<1>1. /\ RegistryAdmitted(Held, plan[p].snapshot)
      /\ plan[p].registry = PlannedRegistry(Held, plan[p].snapshot) /\ RecordPlanned(p)
    BY Landing, Retried DEF Admitted
<1>2. CASE plan[p].snapshot.registry = None
    <2>1. plan[p].registry = None /\ plan[p].record.registry = None
        BY <1>1, <1>2 DEF PlannedRegistry, RecordPlanned
    <2>2. record' = record \/ record' = plan[p].record
        BY DEF Land
    <2>3. RecordedRegistry(Held') = None
        BY <1>1, <1>2, <2>1, <2>2 DEF RegistryAdmitted, RecordedRegistry, Held
    <2>. QED
        BY <1>2, <2>1, <2>3 DEF RegistryAdmitted, PlannedRegistry
<1>3. CASE plan[p].snapshot.registry # None
    <2>1. GenerationFor(Held', plan[p].snapshot.registry)
              = GenerationFor(Held, plan[p].snapshot.registry)
        BY <1>3, LandChoosesAlike
    <2>2. Held'.registry # Corrupt
        <3>1. registry' \in RegistryDocument \cup {None}
            BY LandShape
        <3>. QED
            BY <3>1, NoneAssumption DEF Held
    <2>. QED
        BY <1>1, <1>3, <2>1, <2>2 DEF RegistryAdmitted, PlannedRegistry
<1>. QED
    BY <1>2, <1>3

\* The plan a retry would come to says what the last one said.
LEMMA LandSaysTheSame ==
    ASSUME Shape, Shape', Placement, Stamping, Retrying, NEW p \in Publishers, Land(p)
    PROVE  /\ PlannedRecord(Held', Contract[p], plan[p].snapshot).documents
                  = PlannedRecord(Held, Contract[p], plan[p].snapshot).documents
           /\ PlannedRecord(Held', Contract[p], plan[p].snapshot).registry
                  = PlannedRecord(Held, Contract[p], plan[p].snapshot).registry
<1>. DEFINE s == plan[p].snapshot
<1>1. PlannedRecord(Held', Contract[p], s).documents
          = PlannedRecord(Held, Contract[p], s).documents
    <2>1. PlannedRecord(Held', Contract[p], s).documents =
              [kind \in Kinds |-> [revision |-> s[kind].revision,
                                   digest   |-> Digest(s[kind].payload)]]
        BY PlannedDocuments
    <2>2. PlannedRecord(Held, Contract[p], s).documents =
              [kind \in Kinds |-> [revision |-> s[kind].revision,
                                   digest   |-> Digest(s[kind].payload)]]
        BY PlannedDocuments
    <2>. QED
        BY <2>1, <2>2
<1>2. PlannedRegistry(Held', s) = PlannedRegistry(Held, s)
    BY Landing, Retried, LandRegistry
<1>3. PlannedRecord(Held', Contract[p], s).registry
          = PlannedRecord(Held, Contract[p], s).registry
    <2>. DEFINE stamp(held) == IF PlannedRegistry(held, s) = None
                               THEN None
                               ELSE [generation |-> PlannedRegistry(held, s).generation,
                                     digest     |-> Digest(PlannedRegistry(held, s))]
    <2>1. PlannedRecord(Held', Contract[p], s).registry = stamp(Held')
        BY PlannedStamp
    <2>2. PlannedRecord(Held, Contract[p], s).registry = stamp(Held)
        BY PlannedStamp
    <2>. QED
        BY <1>2, <2>1, <2>2
<1>. QED
    BY <1>1, <1>3

\* A data-sources or tenants file that changes has a revision the record on
\* disk does not name, so the record cannot pass for the planned one.
LEMMA TornIsNewer ==
    ASSUME Shape, Placement, Retrying, NEW p \in Publishers, Land(p),
           record # None, record' = record, NEW kind \in ResourceKinds,
           HeldPayload(Held', kind) # HeldPayload(Held, kind)
    PROVE  record.documents[kind].revision # plan[p].snapshot[kind].revision
<1>. DEFINE s == plan[p].snapshot
<1>1. kind \in Kinds /\ Admitted(Held, Contract[p], s)
    BY Landing, Retried DEF ResourceKinds, Kinds
<1>2. payload[kind] # None /\ manifest[kind] # None
    BY <1>1 DEF Placement
<1>3. payload'[kind] # payload[kind]
    <2>1. Held'.payload = payload' /\ Held.payload = payload
        BY DEF Held
    <2>. QED
        BY <2>1 DEF HeldPayload
<1>4. payload[kind] # s[kind].payload
    BY <1>1, <1>3, LandedFiles
<1>5. HeldRevision(Held, kind) = manifest[kind]
    BY <1>1, <1>2, LandedFiles DEF HeldRevision
<1>6. s[kind].revision # manifest[kind]
    BY <1>1, <1>2, <1>4, <1>5 DEF Admitted, Divergent, Held
<1>7. ~(s[kind].revision < manifest[kind])
    BY <1>1, <1>5 DEF Admitted, Stale
<1>8. record.documents[kind].revision <= manifest[kind]
    BY <1>1 DEF Retrying
<1>9. /\ manifest[kind] \in Nat /\ s[kind].revision \in Nat
      /\ record.documents[kind].revision \in Nat
    <2>1. manifest[kind] \in Revisions
        BY <1>1, <1>2 DEF Shape, TypeOK
    <2>2. s[kind].revision \in Revisions
        BY <1>1, LandedFiles
    <2>3. record.documents[kind].revision \in Revisions
        BY DEF Shape, TypeOK, PublicationRecord, Recorded, ResourceKinds
    <2>. QED
        BY <2>1, <2>2, <2>3, RevisionAssumption
<1>. QED
    BY <1>6, <1>7, <1>8, <1>9

\* Histories that number every resource alike are the same.
LEMMA SameHistory ==
    ASSUME NEW a \in ResourceHistory, NEW b \in ResourceHistory,
           \A kind \in ResourceKinds : \A x \in Keys(kind) : a[kind][x] = b[kind][x]
    PROVE  a = b
<1>1. \A x \in Tenants : a.tenants[x] = b.tenants[x]
    BY DEF ResourceKinds, Keys
<1>2. \A x \in DataSources : a.data_sources[x] = b.data_sources[x]
    BY DEF ResourceKinds, Keys
<1>3. a.tenants = b.tenants /\ a.data_sources = b.data_sources
    BY <1>1, <1>2 DEF ResourceHistory
<1>. QED
    BY <1>3 DEF ResourceHistory

\* Over its own record, a publication plans that record again.
LEMMA LandedAgain ==
    ASSUME Shape, Shape', Placement, Stamping, Advancing, Retrying,
           NEW p \in Publishers, Land(p), pc[p] = "record"
    PROVE  RecordAt(plan[p].record.generation, Held', Contract[p], plan[p].snapshot)
               = plan[p].record
<1>. DEFINE s == plan[p].snapshot
            R == plan[p].record
            again == Including(HeldHistory(Held'), s.tenants.payload, s.data_sources.payload)
<1>1. Planned(p) /\ R \in PublicationRecord /\ s \in Snapshots /\ RecordPlanned(p)
    BY Landing, Retried
<1>2. R.documents = [kind \in Kinds |-> [revision |-> s[kind].revision,
                                         digest   |-> Digest(s[kind].payload)]]
    <2>1. \A kind \in Kinds :
              R.documents[kind] = [revision |-> s[kind].revision,
                                   digest   |-> Digest(s[kind].payload)]
        BY <1>1 DEF Placement, Placed
    <2>2. R.documents \in [data_sources : Recorded(DataSourcesDocument),
                           catalog      : Recorded(CatalogDocument),
                           tenants      : Recorded(TenantsDocument)]
        BY <1>1 DEF PublicationRecord
    <2>3. R.documents = [kind \in Kinds |-> R.documents[kind]]
        BY <2>2 DEF Kinds
    <2>. QED
        BY <2>1, <2>3
<1>3. R.resources = again
    <2>1. /\ s.tenants.payload \in TenantsDocument
          /\ s.data_sources.payload \in DataSourcesDocument
        BY <1>1, SnapshotAssumption DEF RuntimeSnapshot, Input
    <2>2. Held'.record = R /\ R # None
        BY <1>1, NoneAssumption DEF Land, Held
    <2>3. HeldHistory(Held') \in ResourceHistory
        <3>1. R.resources \in ResourceHistory
            BY <1>1 DEF PublicationRecord
        <3>2. HeldHistory(Held') = Including(R.resources, HeldPayload(Held', "tenants"),
                                             HeldPayload(Held', "data_sources"))
            BY <2>2 DEF HeldHistory
        <3>. QED
            BY <3>1, <3>2, LandedTypes, IncludingType
    <2>4. again \in ResourceHistory /\ R.resources \in ResourceHistory
        BY <1>1, <2>1, <2>3, IncludingType DEF PublicationRecord
    <2>5. ASSUME NEW kind \in ResourceKinds, NEW x \in Keys(kind)
          PROVE  R.resources[kind][x] = again[kind][x]
        <3>. DEFINE document == IF kind = "tenants" THEN s.tenants.payload
                                ELSE s.data_sources.payload
                    number   == HeldHistory(Held')[kind][x]
        <3>1. document = s[kind].payload
            BY DEF ResourceKinds
        <3>2. /\ again[kind][x] \in Nat
              /\ again[kind][x] >= number
              /\ \/ again[kind][x] = number
                 \/ document[x] # None /\ again[kind][x] = document[x].revision
            BY <2>1, <2>3, IncludingRaises
        <3>3. HeldPayload(Held', kind) = document
            BY <3>1, LandedRecord
        <3>4. /\ number \in Nat /\ R.resources[kind][x] \in Nat
              /\ number >= R.resources[kind][x]
              /\ \/ number = R.resources[kind][x]
                 \/ document[x] # None /\ number = document[x].revision
            BY <2>2, <3>3, LandedTypes, HistoryOf
        <3>5. document[x] # None => R.resources[kind][x] >= document[x].revision
            BY <1>1, <3>1 DEF Advancing
        <3>6. document[x] # None => document[x].revision \in Nat
            <4>1. document \in IF kind = "tenants" THEN TenantsDocument ELSE DataSourcesDocument
                BY <2>1
            <4>. QED
                BY <4>1, DocumentFacts, RevisionAssumption
        <3>. HIDE DEF document, number, again
        <3>. QED
            BY <3>2, <3>4, <3>5, <3>6
    <2>. QED
        BY <2>4, <2>5, SameHistory
<1>4. R.registry = IF PlannedRegistry(Held', s) = None
                   THEN None
                   ELSE [generation |-> PlannedRegistry(Held', s).generation,
                         digest     |-> Digest(PlannedRegistry(Held', s))]
    <2>1. PlannedRegistry(Held', s) = plan[p].registry
        BY LandRegistry
    <2>. QED
        BY <1>1, <2>1 DEF RecordPlanned
<1>5. R.contract = Contract[p]
    BY <1>1 DEF RecordPlanned
<1>6. R = [contract |-> R.contract, generation |-> R.generation, documents |-> R.documents,
           resources |-> R.resources, registry |-> R.registry]
    BY <1>1 DEF PublicationRecord
<1>. HIDE DEF R, s
<1>. QED
    BY <1>2, <1>3, <1>4, <1>5, <1>6 DEF RecordAt, R, s

\* A retry comes to the same generation number.
LEMMA LandSameNumber ==
    ASSUME Shape, Shape', Placement, Stamping, Advancing, Retrying,
           NEW p \in Publishers, Land(p)
    PROVE  PlannedRecord(Held', Contract[p], plan[p].snapshot).generation
               = plan[p].record.generation
<1>. DEFINE s == plan[p].snapshot
            c == Contract[p]
<1>1. PlannedRecord(Held, c, s).generation = plan[p].record.generation
    BY Landing, Retried DEF Retrying, Retries
<1>2. Held.record = record /\ Held'.record = record'
    BY DEF Held
<1>3. \A n, held : RecordAt(n, held, c, s).generation = n
    BY DEF RecordAt
<1>4. CASE pc[p] = "record"
    <2>1. record' = plan[p].record /\ plan[p].record # None
        BY <1>4, Landing, NoneAssumption DEF Land
    <2>2. RecordAt(plan[p].record.generation, Held', c, s) = plan[p].record
        BY <1>4, LandedAgain
    <2>. QED
        BY <1>2, <2>1, <2>2 DEF PlannedRecord
<1>5. CASE pc[p] # "record" /\ record = None
    <2>1. record' = None
        BY <1>5 DEF Land
    <2>. QED
        BY <1>1, <1>2, <1>3, <1>5, <2>1 DEF PlannedRecord
<1>6. CASE pc[p] # "record" /\ record # None
    <2>1. record' = record
        BY <1>6 DEF Land
    <2>2. RecordAt(record.generation, Held', c, s) = record
              <=> RecordAt(record.generation, Held, c, s) = record
        <3>1. CASE \A kind \in ResourceKinds : HeldPayload(Held', kind) = HeldPayload(Held, kind)
            <4>1. HeldHistory(Held') = HeldHistory(Held)
                BY <1>2, <2>1, <3>1 DEF HeldHistory, ResourceKinds
            <4>2. PlannedRegistry(Held', s) = PlannedRegistry(Held, s)
                BY Landing, Retried, LandRegistry
            <4>. QED
                BY <4>1, <4>2 DEF RecordAt
        <3>2. ASSUME NEW kind \in ResourceKinds, HeldPayload(Held', kind) # HeldPayload(Held, kind)
              PROVE  /\ RecordAt(record.generation, Held', c, s) # record
                     /\ RecordAt(record.generation, Held, c, s) # record
            <4>1. record.documents[kind].revision # s[kind].revision
                BY <1>6, <2>1, <3>2, TornIsNewer
            <4>2. \A held : RecordAt(record.generation, held, c, s).documents[kind].revision
                               = s[kind].revision
                BY DEF RecordAt, ResourceKinds, Kinds
            <4>. QED
                BY <4>1, <4>2
        <3>. QED
            BY <3>1, <3>2
    <2>. QED
        BY <1>1, <1>2, <1>3, <1>6, <2>1, <2>2 DEF PlannedRecord
<1>. QED
    BY <1>4, <1>5, <1>6

\* So the held files keep admitting the publication, and plan it as they did.
LEMMA LandRetries ==
    ASSUME Shape, Shape', Placement, Stamping, Advancing, Retrying,
           NEW p \in Publishers, Land(p), torn' = torn
    PROVE  Retries(torn)'
<1>. DEFINE s == plan[p].snapshot
            c == Contract[p]
<1>1. /\ Planned(p) /\ Admitted(Held, c, s)
      /\ torn.contract = c /\ torn.snapshot = s /\ torn.record = plan[p].record
    BY Landing, Retried
<1>2. Admitted(Held', c, s)
    <2>1. HeldReadable(Held') /\ RollbackFloorHolds(Held', c)
        BY <1>1, LandReadable, LandFloor DEF Admitted
    <2>2. ValidSnapshot(Held', s)
        BY <1>1, LandValid DEF Admitted
    <2>3. \A kind \in Kinds : ~Stale(Held', s, kind) /\ ~Divergent(Held', s, kind)
        BY <1>1, LandFresh DEF Admitted
    <2>4. ResourcesAdvance(Held', s)
        BY LandResources
    <2>5. RegistryAdmitted(Held', s)
        BY LandRegistry
    <2>. QED
        BY <2>1, <2>2, <2>3, <2>4, <2>5 DEF Admitted
<1>3. /\ PlannedRecord(Held', c, s).documents = plan[p].record.documents
      /\ PlannedRecord(Held', c, s).registry = plan[p].record.registry
    <2>1. /\ PlannedRecord(Held, c, s).documents = plan[p].record.documents
          /\ PlannedRecord(Held, c, s).registry = plan[p].record.registry
        BY <1>1 DEF Retrying, Retries
    <2>. QED
        BY <2>1, LandSaysTheSame
<1>4. PlannedRecord(Held', c, s).generation = plan[p].record.generation
    BY LandSameNumber
<1>. QED
    BY <1>1, <1>2, <1>3, <1>4 DEF Retries

\* No manifest falls behind the record when a file lands.
LEMMA LandKeepsUp ==
    ASSUME Shape, Shape', Placement, Retrying, NEW p \in Publishers, Land(p),
           record' # None, NEW kind \in Kinds
    PROVE  record'.documents[kind].revision <= manifest'[kind]
<1>. DEFINE offered == plan[p].snapshot[kind].revision
<1>1. Planned(p) /\ Placed(p) /\ Admitted(Held, Contract[p], plan[p].snapshot)
    BY Landing, Retried DEF Placement
<1>2. offered \in Nat
    BY LandedFiles, RevisionAssumption
<1>3. CASE record' = plan[p].record /\ manifest'[kind] = offered
    <2>1. plan[p].record.documents[kind] =
              [revision |-> offered, digest |-> Digest(plan[p].snapshot[kind].payload)]
        BY <1>1 DEF Placed
    <2>. QED
        BY <1>2, <1>3, <2>1
<1>4. CASE record' = record
    <2>1. record.documents[kind].revision <= manifest[kind] /\ manifest[kind] # None
        BY <1>4 DEF Retrying, Placement
    <2>2. HeldRevision(Held, kind) = manifest[kind]
        BY <2>1, LandedFiles DEF HeldRevision
    <2>3. ~(offered < manifest[kind])
        BY <1>1, <2>2 DEF Admitted, Stale
    <2>4. manifest[kind] \in Nat /\ record.documents[kind].revision \in Nat
        <3>1. manifest[kind] \in Revisions
            BY <2>1 DEF Shape, TypeOK
        <3>2. record.documents[kind].revision \in Revisions
            BY <1>4 DEF Shape, TypeOK, PublicationRecord, Recorded, Kinds
        <3>. QED
            BY <3>1, <3>2, RevisionAssumption
    <2>5. manifest'[kind] = manifest[kind] \/ manifest'[kind] = offered
        BY LandedFiles
    <2>. HIDE DEF offered
    <2>. QED
        BY <1>2, <1>4, <2>1, <2>3, <2>4, <2>5
<1>. QED
    BY <1>3, <1>4, LandedFiles

\* Only a plan, or the end of a publication, changes what would be retried.
LEMMA TornKinds ==
    ASSUME [Next]_vars
    PROVE  \/ torn' = torn
           \/ \E p \in Publishers : PlanAdmitted(p)
           \/ \E p \in Publishers : Finish(p)
    BY DEF Next, vars, Offer, Abandon, Acquire, PlanRefused, Write, Skip, WriteFails,
           SyncFails, Crash

\* A publication begins: its plan over these files is the one it was given.
LEMMA PlanRetries ==
    ASSUME Shape, Retrying, NEW p \in Publishers, PlanAdmitted(p)
    PROVE  Retrying'
<1>. DEFINE s == offer[p]
            c == Contract[p]
            R == PlannedRecord(Held, c, s)
<1>1. /\ TypeOK /\ Admitted(Held, c, s) /\ s \in Snapshots /\ c \in Contracts
      /\ Held' = Held /\ UNCHANGED <<record, manifest>>
      /\ \A q \in Publishers \ {p} : ~Planned(q)'
    BY AdmittedPlan
<1>2. /\ plan'[p].snapshot = s /\ plan'[p].record = R
      /\ plan'[p].registry = PlannedRegistry(Held, s)
      /\ torn' = [contract |-> c, snapshot |-> s, record |-> R]
    <2>1. plan'[p] = Plan(Held, c, s) /\ Plan(Held, c, s).snapshot = s
          /\ Plan(Held, c, s).record = R
          /\ Plan(Held, c, s).registry = PlannedRegistry(Held, s)
        BY <1>1, AdmittedPlan, PlanFacts
    <2>2. torn' = [contract |-> c, snapshot |-> s, record |-> Plan(Held, c, s).record]
        BY DEF PlanAdmitted
    <2>. QED
        BY <2>1, <2>2
<1>3. ASSUME NEW kind \in ResourceKinds, NEW x \in Ids(s[kind].payload)
      PROVE  R.resources[kind][x] = s[kind].payload[x].revision
    <2>. DEFINE document == IF kind = "tenants" THEN s.tenants.payload
                            ELSE s.data_sources.payload
                number   == HeldHistory(Held)[kind][x]
    <2>1. x \in Keys(kind) /\ s[kind].payload[x] # None /\ document = s[kind].payload
        <3>1. x \in Keys(kind) /\ s[kind].payload[x] # None
            BY <1>1, SnapshotDocuments, DocumentFacts
        <3>. QED
            BY <3>1 DEF ResourceKinds
    <2>2. /\ s.tenants.payload \in TenantsDocument
          /\ s.data_sources.payload \in DataSourcesDocument
        BY <1>1, SnapshotAssumption DEF RuntimeSnapshot, Input
    <2>3. HeldHistory(Held) \in ResourceHistory
        BY <1>1, HeldHistoryType
    <2>4. /\ R.resources[kind][x] \in Nat
          /\ R.resources[kind][x] >= document[x].revision
          /\ R.resources[kind][x] = number \/ R.resources[kind][x] = document[x].revision
        <3>1. R.resources = Including(HeldHistory(Held), s.tenants.payload,
                                      s.data_sources.payload)
            BY PlannedParts
        <3>. QED
            BY <2>1, <2>2, <2>3, <3>1, IncludingRaises
    <2>5. document[x].revision \in Nat /\ number \in Nat /\ document[x].revision >= number
        BY <1>1, <2>1, AdmittedAdvances
    <2>. HIDE DEF document, number, R
    <2>6. R.resources[kind][x] = document[x].revision
        BY <2>4, <2>5
    <2>. QED
        BY <2>1, <2>6
<1>4. R.contract = c
    BY PlannedParts
<1>5. R.registry = IF PlannedRegistry(Held, s) = None
                   THEN None
                   ELSE [generation |-> PlannedRegistry(Held, s).generation,
                         digest     |-> Digest(PlannedRegistry(Held, s))]
    BY PlannedStamp
<1>. HIDE DEF s, R
<1>6. RecordPlanned(p)'
    BY <1>2, <1>3, <1>4, <1>5 DEF RecordPlanned, c
<1>7. Retries(torn)'
    BY <1>1, <1>2 DEF Retries, R, s
<1>8. ASSUME NEW q \in Publishers, Planned(q)'
      PROVE  q = p
    BY <1>1, <1>8
<1>. QED
    BY <1>1, <1>2, <1>6, <1>7, <1>8 DEF Retrying, s

\* What was admitted stays admissible until its publication completes.
LEMMA RetryingNext ==
    /\ Shape /\ Placement /\ Stamping /\ Advancing /\ Retrying
    /\ [Next]_vars
    => Retrying'
<1>. SUFFICES ASSUME Shape, Placement, Stamping, Advancing, Retrying, [Next]_vars
              PROVE  Retrying'
    OBVIOUS
<1>1. Shape'
    BY ShapeNext
<1>2. ASSUME NEW p \in Publishers, PlanAdmitted(p) PROVE Retrying'
    BY <1>2, PlanRetries
<1>3. ASSUME NEW p \in Publishers, Finish(p) PROVE Retrying'
    <2>1. torn' = None /\ record' = record /\ manifest' = manifest
        BY <1>3 DEF Finish, files
    <2>2. \A q \in Publishers : ~Planned(q)'
        BY <1>3, Alone DEF Finish, Return, Calling, Planned, Shape, TypeOK
    <2>. QED
        BY <2>1, <2>2 DEF Retrying
<1>4. CASE Quiet /\ torn' = torn
    <2>1. Held' = Held
        BY <1>4 DEF Quiet, Held
    <2>. QED
        BY <1>4, <2>1 DEF Quiet, Retrying, Retries, RecordPlanned
<1>5. ASSUME NEW p \in Publishers, Land(p), torn' = torn, plan' = plan \/ ~Planned(p)',
             \A q \in Publishers \ {p} : ~Planned(q)'
      PROVE  Retrying'
    <2>1. Retries(torn)'
        BY <1>1, <1>5, LandRetries
    <2>2. record' # None => \A kind \in Kinds : record'.documents[kind].revision <= manifest'[kind]
        BY <1>1, <1>5, LandKeepsUp
    <2>3. /\ torn = [contract |-> Contract[p], snapshot |-> plan[p].snapshot,
                     record |-> plan[p].record]
          /\ RecordPlanned(p)
          /\ PlannedRegistry(Held', plan[p].snapshot) = plan[p].registry
        BY <1>1, <1>5, Landing, LandRegistry DEF Retrying
    <2>. QED
        BY <1>5, <2>1, <2>2, <2>3 DEF Retrying, RecordPlanned
<1>6. ASSUME NEW p \in Publishers, Write(p) PROVE Retrying'
    <2>1. \A q \in Publishers \ {p} : ~Planned(q)'
        BY <1>6, OthersStayOut
    <2>. QED
        BY <1>5, <1>6, <2>1 DEF Write
<1>7. ASSUME NEW p \in Publishers, Skip(p) PROVE Retrying'
    <2>1. /\ UNCHANGED <<record, manifest, plan, torn>> /\ Held' = Held /\ Planned(p)
        BY <1>7 DEF Skip, Writing, Planned, files, Held
    <2>2. \A q \in Publishers \ {p} : ~Planned(q)'
        BY <1>7, OthersStayOut
    <2>. QED
        BY <2>1, <2>2 DEF Retrying, RecordPlanned, Retries
<1>8. ASSUME NEW p \in Publishers, SyncFails(p) PROVE Retrying'
    <2>1. \A q \in Publishers : ~Planned(q)'
        BY <1>8, OthersStayOut DEF SyncFails, Return, Planned, Shape, TypeOK
    <2>. QED
        BY <1>5, <1>8, <2>1 DEF SyncFails
<1>. QED
    BY <1>2, <1>3, <1>4, <1>6, <1>7, <1>8, StepKinds, TornKinds

\* Offering an admitted snapshot again is safe at every point of its
\* publication: the plan still admits it and comes to the same documents,
\* registry and generation, whatever landed and whatever failed.
THEOREM RetryIsAdmitted == Spec => []RetryAdmitted
<1>1. Retrying => RetryAdmitted
    BY DEF Retrying, Retries, RetryAdmitted
<1>. QED
    BY <1>1, ShapeInit, ShapeNext, NumberingInit, NumberingNext, DocStartInit, DocStartNext,
       PlacementInit, PlacementNext, StampingInit, StampingNext, AdvancingInit, AdvancingNext,
       RetryingInit, RetryingNext, PTL
    DEF Spec

================================================================================
