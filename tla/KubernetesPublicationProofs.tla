---------------------- MODULE KubernetesPublicationProofs ----------------------
(***************************************************************************)
(* What KubernetesPublication guarantees for every set of publishers,      *)
(* tenants, data sources and snapshots, any number of lost answers and     *)
(* failed calls, and every interleaving of the calls: although nothing is  *)
(* locked, no object goes back.                                            *)
(***************************************************************************)
EXTENDS KubernetesPublication, PublicationPlanProofs

--------------------------------------------------------------------------------
(* The invariant.                                                          *)

\* The three objects, or a publisher's reads of them.
Cluster ==
    {objects \in [Kinds -> ConfigMap("tenants") \cup ConfigMap("data_sources")
                               \cup ConfigMap("catalog") \cup {None}] :
        \A kind \in Kinds : objects[kind] \in ConfigMap(kind) \cup {None}}

\* A publisher that reads, and one that has what it read and its offer.
Reading(s) ==
    /\ DOMAIN s = {"pc", "next", "offer", "reads"}
    /\ s.next \in Nat /\ (s.pc = "read" => s.next \in 1 .. 3)
    /\ s.offer \in Snapshots
    /\ s.reads \in Cluster

\* A publisher with a plan, which is the plan of what it read.
Planned(s) ==
    /\ DOMAIN s = {"pc", "reads", "plan", "confirm", "next", "overtaken"}
    /\ s.next \in 1 .. 3
    /\ s.reads \in Cluster
    /\ s.plan.snapshot \in Snapshots
    /\ Admitted(HeldOf(s.reads), TheContract, s.plan.snapshot)
    /\ s.plan = Plan(HeldOf(s.reads), TheContract, s.plan.snapshot)

\* What was read of an object is what it still is, or it is at a later
\* version: this is all that a publisher without a lock can know.
Behind(reads, objects) ==
    \A kind \in Kinds :
        reads[kind] # None =>
            /\ objects[kind] # None
            /\ reads[kind].version <= objects[kind].version
            /\ reads[kind].version = objects[kind].version => reads[kind] = objects[kind]

Shape ==
    /\ object \in Cluster
    /\ publisher = [p \in Publishers |-> publisher[p]]
    /\ \A p \in Publishers :
          /\ publisher[p].pc \in {"idle", "read", "plan", "confirm", "write"}
          /\ publisher[p].pc \in {"read", "plan"} => Reading(publisher[p])
          /\ publisher[p].pc \in {"confirm", "write"} => Planned(publisher[p])

Followed ==
    \A p \in Publishers : publisher[p].pc # "idle" => Behind(publisher[p].reads, object)

Inv == Shape /\ Followed

--------------------------------------------------------------------------------
(* Objects and reads.                                                      *)

\* Kinds, and the order of the calls, which names only kinds.
LEMMA Orders ==
    ASSUME NEW n \in 1 .. 3
    PROVE  ReadOrder[n] \in Kinds /\ WriteOrder[n] \in Kinds
<1>1. n = 1 \/ n = 2 \/ n = 3
    OBVIOUS
<1>. QED
    BY <1>1 DEF ReadOrder, WriteOrder, Kinds

\* A cluster with one object replaced.
LEMMA Replaced ==
    ASSUME NEW objects \in Cluster, NEW kind \in Kinds, NEW new \in ConfigMap(kind) \cup {None}
    PROVE  /\ [objects EXCEPT ![kind] = new] \in Cluster
           /\ [objects EXCEPT ![kind] = new][kind] = new
           /\ \A k \in Kinds \ {kind} : [objects EXCEPT ![kind] = new][k] = objects[k]
    BY DEF Cluster, Kinds

\* An object is absent exactly at version 0.
LEMMA Versions ==
    ASSUME KubernetesAssumption, NEW objects \in Cluster, NEW kind \in Kinds
    PROVE  /\ VersionOf(objects[kind]) \in Nat
           /\ VersionOf(objects[kind]) = 0 <=> objects[kind] = None
           /\ objects[kind] # None => /\ objects[kind] \in ConfigMap(kind)
                                      /\ objects[kind].version = VersionOf(objects[kind])
<1>1. objects[kind] \in ConfigMap(kind) \cup {None}
    BY DEF Cluster
<1>2. \A new \in ConfigMap(kind) : new.version \in Nat \ {0}
    BY DEF ConfigMap
<1>. QED
    BY <1>1, <1>2 DEF VersionOf

\* What a publisher read is what the lemmas on plans ask of held documents.
LEMMA HeldOfTyped ==
    ASSUME KubernetesAssumption, NEW reads \in Cluster
    PROVE  HeldTyped(HeldOf(reads))
<1>1. \A kind \in Kinds : reads[kind] # None => reads[kind] \in ConfigMap(kind)
    BY DEF Cluster
<1>2. \A new \in ConfigMap("tenants") :
          /\ new.payload \in TenantsDocument /\ new.record \in PublicationRecord
          /\ new.registry \in RegistryDocument \cup {None}
    BY DEF ConfigMap
<1>3. \A new \in ConfigMap("data_sources") : new.payload \in DataSourcesDocument
    BY DEF ConfigMap
<1>4. "tenants" \in Kinds /\ "data_sources" \in Kinds
    BY DEF Kinds
<1>5. /\ HeldOf(reads).payload["tenants"] = IF reads["tenants"] = None THEN None
                                            ELSE reads["tenants"].payload
      /\ HeldOf(reads).payload["data_sources"] = IF reads["data_sources"] = None THEN None
                                                 ELSE reads["data_sources"].payload
      /\ HeldOf(reads).registry = IF reads["tenants"] = None THEN None
                                  ELSE reads["tenants"].registry
      /\ HeldOf(reads).record = IF reads["tenants"] = None THEN None
                                ELSE reads["tenants"].record
    BY <1>4 DEF HeldOf
<1>. HIDE DEF HeldOf
<1>. QED
    BY <1>1, <1>2, <1>3, <1>4, <1>5 DEF HeldTyped

\* Under the precondition the object is the one read, so the plan was made
\* from what the write replaces.
LEMMA AsRead ==
    ASSUME KubernetesAssumption, Inv, NEW p \in Publishers, publisher[p].pc = "write",
           NEW kind \in Kinds, Precondition(p, kind)
    PROVE  publisher[p].reads[kind] = object[kind]
<1>1. publisher[p].reads \in Cluster /\ object \in Cluster /\ Behind(publisher[p].reads, object)
    BY DEF Inv, Shape, Planned, Followed
<1>2. VersionOf(object[kind]) = VersionOf(publisher[p].reads[kind])
    BY DEF Precondition
<1>. QED
    BY <1>1, <1>2, Versions DEF Behind

\* What a write puts in place is such an object, at the next version.
LEMMA RenderedTyped ==
    ASSUME KubernetesAssumption, Inv, NEW p \in Publishers, publisher[p].pc = "write",
           NEW kind \in Kinds
    PROVE  /\ Rendered(p, kind) \in ConfigMap(kind)
           /\ Rendered(p, kind).version = VersionOf(object[kind]) + 1
<1>. DEFINE s == publisher[p]
            held == HeldOf(s.reads)
            snapshot == s.plan.snapshot
<1>1. /\ s.reads \in Cluster /\ snapshot \in Snapshots
      /\ Admitted(held, TheContract, snapshot)
      /\ s.plan = Plan(held, TheContract, snapshot)
    BY DEF Inv, Shape, Planned
<1>2. /\ snapshot \in RuntimeSnapshot /\ TheContract \in Contracts /\ HeldTyped(held)
    BY <1>1, HeldOfTyped DEF KubernetesAssumption
<1>3. s.plan.record \in PublicationRecord /\ s.plan.registry \in RegistryDocument \cup {None}
    <2>1. /\ s.plan.record = PlannedRecord(held, TheContract, snapshot)
          /\ s.plan.registry = PlannedRegistry(held, snapshot)
        BY <1>1 DEF Plan
    <2>. HIDE DEF s, held, snapshot
    <2>. QED
        BY <1>1, <1>2, <2>1, RecordTyped, RegistryTyped
<1>4. /\ snapshot["tenants"].payload \in TenantsDocument
      /\ snapshot["data_sources"].payload \in DataSourcesDocument
      /\ snapshot["catalog"].payload \in CatalogDocument
      /\ snapshot[kind].revision \in Revisions
    BY <1>2 DEF RuntimeSnapshot, Input, Kinds
<1>5. VersionOf(object[kind]) \in Nat
    BY Versions DEF Inv, Shape
<1>6. s.reads[kind] # None => s.reads[kind].revision \in Revisions
    BY <1>1, Versions DEF ConfigMap
<1>7. /\ Rendered(p, kind).version = VersionOf(object[kind]) + 1
      /\ Rendered(p, kind).payload = snapshot[kind].payload
      /\ Rendered(p, kind).revision \in Revisions
      /\ Rendered(p, kind).record = IF kind = "tenants" THEN s.plan.record ELSE None
      /\ Rendered(p, kind).registry = IF kind = "tenants" THEN s.plan.registry ELSE None
      /\ Rendered(p, kind) = [version |-> Rendered(p, kind).version,
                              payload |-> Rendered(p, kind).payload,
                              revision |-> Rendered(p, kind).revision,
                              record |-> Rendered(p, kind).record,
                              registry |-> Rendered(p, kind).registry]
    BY <1>4, <1>6 DEF Rendered
<1>. HIDE DEF s, held, snapshot
<1>. QED
    BY <1>3, <1>4, <1>5, <1>7 DEF ConfigMap, Kinds

--------------------------------------------------------------------------------
(* The invariant is inductive.                                             *)

\* Nothing is published or read at first.
LEMMA InvInit == KubernetesInit => Inv
<1>. SUFFICES ASSUME KubernetesInit PROVE Inv
    OBVIOUS
<1>1. object \in Cluster
    BY DEF KubernetesInit, Cluster
<1>2. \A p \in Publishers : publisher[p].pc = "idle"
    BY DEF KubernetesInit, Idle
<1>. QED
    BY <1>1, <1>2 DEF KubernetesInit, Inv, Shape, Followed

\* Where a publisher goes leaves the others where they are.
LEMMA Gone ==
    ASSUME Shape, NEW p \in Publishers, NEW next, Go(p, next)
    PROVE  /\ publisher' = [q \in Publishers |-> publisher'[q]]
           /\ publisher'[p] = next
           /\ \A q \in Publishers \ {p} : publisher'[q] = publisher[q]
    BY DEF Shape, Go

\* While the objects stay, the invariant is about the publisher that moved.
LEMMA Moved ==
    ASSUME Inv, NEW p \in Publishers, NEW next, Go(p, next), UNCHANGED object,
           next.pc \in {"idle", "read", "plan", "confirm", "write"},
           next.pc \in {"read", "plan"} => Reading(next),
           next.pc \in {"confirm", "write"} => Planned(next),
           next.pc # "idle" => Behind(next.reads, object)
    PROVE  Inv'
<1>. USE Gone DEF Inv
<1>1. Shape'
    BY DEF Shape
<1>2. Followed'
    BY DEF Followed
<1>. QED
    BY <1>1, <1>2

\* The invariant through a publisher that stops, succeeded or not,
LEMMA StopKeeps ==
    ASSUME Inv, NEW p \in Publishers, Go(p, Idle), UNCHANGED object
    PROVE  Inv'
<1>1. Idle.pc = "idle"
    BY DEF Idle
<1>. QED
    BY <1>1, Moved

\* an offer,
LEMMA OfferKeeps ==
    ASSUME Inv, NEW p \in Publishers, NEW snapshot \in Snapshots, Offer(p, snapshot)
    PROVE  Inv'
<1>. DEFINE next == [pc |-> "read", next |-> 1, offer |-> snapshot,
                     reads |-> [k \in Kinds |-> None]]
<1>1. next.reads \in Cluster /\ \A kind \in Kinds : next.reads[kind] = None
    BY DEF Cluster
<1>2. Reading(next) /\ next.pc = "read" /\ Behind(next.reads, object)
    BY <1>1 DEF Reading, Behind
<1>3. Go(p, next) /\ UNCHANGED object
    BY DEF Offer
<1>. HIDE DEF next
<1>. QED
    BY <1>2, <1>3, Moved

\* a read of one object,
LEMMA ReadKeeps ==
    ASSUME KubernetesAssumption, Inv, NEW p \in Publishers, ReadOne(p)
    PROVE  Inv'
<1>. DEFINE s == publisher[p]
            kind == ReadOrder[s.next]
            next == [s EXCEPT !.reads[kind] = object[kind], !.next = s.next + 1,
                              !.pc = IF s.next = 3 THEN "plan" ELSE "read"]
<1>1. /\ Reading(s) /\ s.pc = "read" /\ Behind(s.reads, object) /\ object \in Cluster
      /\ Go(p, next) /\ UNCHANGED object
    BY DEF ReadOne, Inv, Shape, Followed
<1>2. kind \in Kinds
    BY <1>1, Orders DEF Reading
<1>3. object[kind] \in ConfigMap(kind) \cup {None}
    BY <1>1, <1>2 DEF Cluster
<1>4. /\ DOMAIN next = {"pc", "next", "offer", "reads"}
      /\ next.next = s.next + 1 /\ next.offer = s.offer
      /\ next.pc = IF s.next = 3 THEN "plan" ELSE "read"
      /\ next.reads = [s.reads EXCEPT ![kind] = object[kind]]
    BY <1>1 DEF Reading
<1>. HIDE DEF next, kind
<1>5. /\ next.reads \in Cluster /\ next.reads[kind] = object[kind]
      /\ \A k \in Kinds \ {kind} : next.reads[k] = s.reads[k]
    BY <1>1, <1>2, <1>3, <1>4, Replaced DEF Reading
<1>6. Reading(next) /\ next.pc \in {"read", "plan"}
    BY <1>1, <1>4, <1>5 DEF Reading
<1>7. Behind(next.reads, object)
    <2>1. object[kind] # None => object[kind].version \in Nat
        BY <1>1, <1>2, Versions
    <2>. QED
        BY <1>1, <1>5, <2>1 DEF Behind
<1>. QED
    BY <1>1, <1>6, <1>7, Moved

\* a plan of what was read,
LEMMA PlanKeeps ==
    ASSUME Inv, NEW p \in Publishers, MakePlan(p)
    PROVE  Inv'
<1>. DEFINE s == publisher[p]
            held == HeldOf(s.reads)
            planned == Plan(held, TheContract, s.offer)
            next == [pc |-> "confirm", reads |-> s.reads, plan |-> planned,
                     confirm |-> ToConfirm(planned), next |-> 1, overtaken |-> FALSE]
<1>1. CASE ~Admitted(held, TheContract, s.offer)
    BY <1>1, StopKeeps DEF MakePlan
<1>2. CASE Admitted(held, TheContract, s.offer)
    <2>1. /\ Go(p, next) /\ UNCHANGED object
          /\ Reading(s) /\ Behind(s.reads, object)
        BY <1>2 DEF MakePlan, Inv, Shape, Followed
    <2>2. /\ DOMAIN next = {"pc", "reads", "plan", "confirm", "next", "overtaken"}
          /\ next.pc = "confirm" /\ next.reads = s.reads /\ next.plan = planned
          /\ next.next = 1 /\ planned.snapshot = s.offer
        BY DEF Plan
    <2>. HIDE DEF next
    <2>3. Planned(next)
        BY <1>2, <2>1, <2>2 DEF Reading, Planned
    <2>. QED
        BY <2>1, <2>2, <2>3, Moved
<1>. QED
    BY <1>1, <1>2

\* A publisher with a plan keeps it, and what it read, until it ends.
LEMMA KeepsPlan ==
    ASSUME Inv, NEW p \in Publishers, NEW next, Go(p, next), UNCHANGED object,
           Planned(publisher[p]), Behind(publisher[p].reads, object),
           DOMAIN next = DOMAIN publisher[p],
           next.pc \in {"confirm", "write"}, next.next \in 1 .. 3,
           next.reads = publisher[p].reads, next.plan = publisher[p].plan
    PROVE  Inv'
<1>1. Planned(next)
    BY DEF Planned
<1>. QED
    BY <1>1, Moved

\* a confirmation of an object the plan leaves alone,
LEMMA ConfirmKeeps ==
    ASSUME Inv, NEW p \in Publishers, Confirm(p)
    PROVE  Inv'
<1>. DEFINE s == publisher[p]
            left == s.confirm
            due == {i \in 1 .. 3 : WriteOrder[i] \in left}
            kind == WriteOrder[CHOOSE i \in due : \A j \in due : i <= j]
            ends == [s EXCEPT !.pc = "write", !.overtaken = Overtaken(p)]
            goes == [s EXCEPT !.confirm = left \ {kind}]
<1>1. /\ s.pc = "confirm" /\ Planned(s) /\ Behind(s.reads, object) /\ UNCHANGED object
      /\ Go(p, ends) \/ Go(p, goes) \/ Go(p, Idle)
    BY DEF Confirm, Inv, Shape, Followed
<1>2. CASE Go(p, Idle)
    BY <1>1, <1>2, StopKeeps
<1>3. CASE Go(p, ends)
    <2>1. /\ DOMAIN ends = DOMAIN s /\ ends.pc = "write" /\ ends.next = s.next
          /\ ends.reads = s.reads /\ ends.plan = s.plan
        BY <1>1 DEF Planned
    <2>. HIDE DEF ends
    <2>. QED
        BY <1>1, <1>3, <2>1, KeepsPlan DEF Planned
<1>4. CASE Go(p, goes)
    <2>1. /\ DOMAIN goes = DOMAIN s /\ goes.pc = "confirm" /\ goes.next = s.next
          /\ goes.reads = s.reads /\ goes.plan = s.plan
        BY <1>1 DEF Planned
    <2>. HIDE DEF goes
    <2>. QED
        BY <1>1, <1>4, <2>1, KeepsPlan DEF Planned
<1>. QED
    BY <1>1, <1>2, <1>3, <1>4

\* Where a publisher is after an object: at its end, or at the next one.
LEMMA Advances ==
    ASSUME Shape, NEW p \in Publishers, publisher[p].pc = "write", Advance(p)
    PROVE  \/ Go(p, Idle)
           \/ \E next : /\ Go(p, next)
                        /\ DOMAIN next = DOMAIN publisher[p]
                        /\ next.pc = "write" /\ next.next \in 1 .. 3
                        /\ next.reads = publisher[p].reads /\ next.plan = publisher[p].plan
<1>. DEFINE s == publisher[p]
            next == [s EXCEPT !.next = s.next + 1]
<1>1. Planned(s)
    BY DEF Shape
<1>2. CASE s.next = 3
    BY <1>2 DEF Advance
<1>3. CASE s.next # 3
    <2>1. Go(p, next)
        BY <1>3 DEF Advance
    <2>2. /\ DOMAIN next = DOMAIN s /\ next.pc = "write" /\ next.next = s.next + 1
          /\ next.reads = s.reads /\ next.plan = s.plan
        BY <1>1 DEF Planned
    <2>. HIDE DEF next
    <2>3. next.next \in 1 .. 3
        BY <1>1, <1>3, <2>2 DEF Planned
    <2>. QED
        BY <2>1, <2>2, <2>3
<1>. QED
    BY <1>2, <1>3

\* What a step of WriteOne does to the objects: nothing, or one of them is
\* replaced under its precondition.
LEMMA WriteKinds ==
    ASSUME KubernetesAssumption, Inv, NEW p \in Publishers, WriteOne(p)
    PROVE  \/ UNCHANGED object /\ (Go(p, Idle) \/ Advance(p))
           \/ \E kind \in Kinds : /\ Precondition(p, kind)
                                  /\ object' = [object EXCEPT ![kind] = Rendered(p, kind)]
                                  /\ Advance(p)
<1>1. WriteOrder[publisher[p].next] \in Kinds
    BY Orders DEF WriteOne, Inv, Shape, Planned
<1>. QED
    BY <1>1 DEF WriteOne

\* and a write under the version read.
LEMMA WriteKeeps ==
    ASSUME KubernetesAssumption, Inv, NEW p \in Publishers, WriteOne(p)
    PROVE  Inv'
<1>1. /\ publisher[p].pc = "write" /\ Planned(publisher[p])
      /\ Behind(publisher[p].reads, object) /\ object \in Cluster
    BY DEF WriteOne, Inv, Shape, Followed
<1>2. CASE UNCHANGED object /\ Go(p, Idle)
    BY <1>2, StopKeeps
<1>3. CASE UNCHANGED object /\ Advance(p)
    BY <1>1, <1>3, Advances, StopKeeps, KeepsPlan DEF Inv
<1>4. ASSUME NEW kind \in Kinds, Precondition(p, kind), Advance(p),
             object' = [object EXCEPT ![kind] = Rendered(p, kind)]
      PROVE  Inv'
    <2>1. /\ object' \in Cluster /\ object'[kind] = Rendered(p, kind)
          /\ \A k \in Kinds \ {kind} : object'[k] = object[k]
          /\ Rendered(p, kind) \in ConfigMap(kind)
          /\ Rendered(p, kind).version = VersionOf(object[kind]) + 1
        <3>1. /\ Rendered(p, kind) \in ConfigMap(kind)
              /\ Rendered(p, kind).version = VersionOf(object[kind]) + 1
            BY <1>1, RenderedTyped
        <3>2. Rendered(p, kind) \in ConfigMap(kind) \cup {None}
            BY <3>1
        <3>3. /\ [object EXCEPT ![kind] = Rendered(p, kind)] \in Cluster
              /\ [object EXCEPT ![kind] = Rendered(p, kind)][kind] = Rendered(p, kind)
              /\ \A k \in Kinds \ {kind} :
                    [object EXCEPT ![kind] = Rendered(p, kind)][k] = object[k]
            BY <1>1, <3>2, Replaced
        <3>. QED
            BY <1>4, <3>1, <3>3
    <2>2. ASSUME NEW reads \in Cluster, Behind(reads, object) PROVE Behind(reads, object')
        <3>. SUFFICES ASSUME NEW k \in Kinds, reads[k] # None
                      PROVE  /\ object'[k] # None
                             /\ reads[k].version <= object'[k].version
                             /\ reads[k].version = object'[k].version => reads[k] = object'[k]
            BY DEF Behind
        <3>1. CASE k # kind
            BY <2>1, <2>2, <3>1 DEF Behind
        <3>2. CASE k = kind
            <4>1. object'[kind] # None
                BY <2>1 DEF KubernetesAssumption
            <4>2. /\ VersionOf(object[kind]) \in Nat /\ VersionOf(reads[kind]) \in Nat
                  /\ reads[kind].version = VersionOf(reads[kind])
                  /\ VersionOf(reads[kind]) <= VersionOf(object[kind])
                BY <1>1, <2>2, <3>2, Versions DEF Behind
            <4>. QED
                BY <2>1, <3>2, <4>1, <4>2
        <3>. QED
            BY <3>1, <3>2
    <2>3. \/ Go(p, Idle)
          \/ \E next : Go(p, next) /\ next.pc = "write" /\ Planned(next)
                       /\ next.reads = publisher[p].reads
        <3>1. CASE Go(p, Idle)
            BY <3>1
        <3>2. ASSUME NEW next, Go(p, next), DOMAIN next = DOMAIN publisher[p],
                     next.pc = "write", next.next \in 1 .. 3,
                     next.reads = publisher[p].reads, next.plan = publisher[p].plan
              PROVE  Planned(next)
            BY <1>1, <3>2 DEF Planned
        <3>. QED
            BY <1>1, <1>4, <3>1, <3>2, Advances DEF Inv
    <2>4. /\ publisher' = [q \in Publishers |-> publisher'[q]]
          /\ publisher'[p].pc = "idle"
             \/ /\ publisher'[p].pc = "write" /\ Planned(publisher'[p])
                /\ publisher'[p].reads = publisher[p].reads
          /\ \A q \in Publishers \ {p} : publisher'[q] = publisher[q]
        <3>1. Idle.pc = "idle"
            BY DEF Idle
        <3>. QED
            BY <2>3, <3>1, Gone DEF Inv
    <2>5. Shape'
        BY <2>1, <2>4 DEF Inv, Shape
    <2>6. \A q \in Publishers : publisher[q].pc # "idle" => publisher[q].reads \in Cluster
        BY DEF Inv, Shape, Reading, Planned
    <2>7. Followed'
        BY <1>1, <2>2, <2>4, <2>6 DEF Inv, Followed
    <2>. QED
        BY <2>5, <2>7 DEF Inv
<1>. QED
    BY <1>2, <1>3, <1>4, WriteKinds

\* Every step but a write leaves the objects alone.
LEMMA StepKinds ==
    ASSUME [KubernetesNext]_kubernetesVars
    PROVE  UNCHANGED object \/ \E p \in Publishers : WriteOne(p)
    BY DEF KubernetesNext, PublisherStep, Offer, ReadOne, MakePlan, Confirm, Fails, kubernetesVars

\* So the invariant is kept by every step.
LEMMA InvNext ==
    ASSUME KubernetesAssumption, Inv, [KubernetesNext]_kubernetesVars
    PROVE  Inv'
<1>1. CASE UNCHANGED kubernetesVars
    BY <1>1 DEF kubernetesVars, Inv, Shape, Followed
<1>2. ASSUME NEW p \in Publishers, Fails(p) PROVE Inv'
    BY <1>2, StopKeeps DEF Fails
<1>3. ASSUME NEW p \in Publishers, PublisherStep(p) PROVE Inv'
    BY <1>3, ReadKeeps, PlanKeeps, ConfirmKeeps, WriteKeeps DEF PublisherStep
<1>. QED
    BY <1>1, <1>2, <1>3, OfferKeeps DEF KubernetesNext

--------------------------------------------------------------------------------
(* No object goes back.                                                    *)

\* A write is of a plan made from the very object it replaces.
LEMMA WrittenFromRead ==
    ASSUME KubernetesAssumption, Inv, [KubernetesNext]_kubernetesVars,
           NEW kind \in Kinds, object[kind] # None, object'[kind] # object[kind]
    PROVE  \E reads \in Cluster, snapshot \in Snapshots :
              /\ reads[kind] = object[kind]
              /\ Admitted(HeldOf(reads), TheContract, snapshot)
              /\ object'[kind].payload = snapshot[kind].payload
              /\ kind = "tenants" =>
                    object'[kind].record = PlannedRecord(HeldOf(reads), TheContract, snapshot)
<1>1. PICK p \in Publishers : WriteOne(p)
    BY StepKinds
<1>2. PICK written \in Kinds : /\ Precondition(p, written)
                               /\ object' = [object EXCEPT ![written] = Rendered(p, written)]
    BY <1>1, WriteKinds
<1>3. object \in Cluster
    BY DEF Inv, Shape
<1>4. written = kind /\ object'[kind] = Rendered(p, kind)
    BY <1>2, <1>3 DEF Cluster
<1>5. /\ publisher[p].reads \in Cluster /\ publisher[p].plan.snapshot \in Snapshots
      /\ publisher[p].pc = "write"
      /\ Admitted(HeldOf(publisher[p].reads), TheContract, publisher[p].plan.snapshot)
      /\ publisher[p].plan = Plan(HeldOf(publisher[p].reads), TheContract,
                                  publisher[p].plan.snapshot)
    BY <1>1 DEF WriteOne, Inv, Shape, Planned
<1>6. publisher[p].reads[kind] = object[kind]
    BY <1>1, <1>2, <1>4, <1>5, AsRead
<1>7. /\ Rendered(p, kind).payload = publisher[p].plan.snapshot[kind].payload
      /\ kind = "tenants" => Rendered(p, kind).record = publisher[p].plan.record
    BY DEF Rendered
<1>8. publisher[p].plan.record = PlannedRecord(HeldOf(publisher[p].reads), TheContract,
                                               publisher[p].plan.snapshot)
    BY <1>5 DEF Plan
<1>. QED
    BY <1>4, <1>5, <1>6, <1>7, <1>8

\* What HeldPayload makes of an object that was there.
LEMMA HeldPayloadOf ==
    ASSUME KubernetesAssumption, NEW reads \in Cluster, NEW kind \in ResourceKinds,
           reads[kind] # None
    PROVE  /\ HeldPayload(HeldOf(reads), kind) = reads[kind].payload
           /\ reads[kind].payload
                  \in IF kind = "tenants" THEN TenantsDocument ELSE DataSourcesDocument
<1>1. kind \in Kinds /\ reads[kind] \in ConfigMap(kind)
    BY DEF Kinds, ResourceKinds, Cluster
<1>2. reads[kind].payload \in IF kind = "tenants" THEN TenantsDocument ELSE DataSourcesDocument
    BY <1>1 DEF ConfigMap, ResourceKinds
<1>3. reads[kind].payload # None
    BY <1>2, NoneAssumption
<1>4. HeldOf(reads).payload[kind] = reads[kind].payload
    BY <1>1 DEF HeldOf
<1>. QED
    BY <1>2, <1>3, <1>4 DEF HeldPayload

\* A write replaces what its plan was made from, so revisions only rise ...
LEMMA MoveForward ==
    ASSUME KubernetesAssumption, Inv, [KubernetesNext]_kubernetesVars
    PROVE  ResourcesMoveForward
<1>. SUFFICES ASSUME NEW kind \in ResourceKinds, object[kind] # None,
                     NEW x \in DOMAIN object[kind].payload,
                     object'[kind].payload[x] # None
              PROVE  LET before == object[kind].payload
                         after == object'[kind].payload
                     IN  /\ Revision(after, x) >= Revision(before, x)
                         /\ after[x] # before[x] => Revision(after, x) > Revision(before, x)
    BY DEF ResourcesMoveForward, ResourceKinds
<1>1. object \in Cluster /\ kind \in Kinds
    BY DEF Inv, Shape, Kinds, ResourceKinds
<1>2. object[kind].payload \in IF kind = "tenants" THEN TenantsDocument ELSE DataSourcesDocument
    BY <1>1, HeldPayloadOf
<1>3. /\ x \in Keys(kind)
      /\ object[kind].payload[x] # None => object[kind].payload[x].revision \in Nat
    BY <1>2, DocumentFacts, RevisionAssumption
<1>4. CASE object'[kind] = object[kind]
    BY <1>3, <1>4 DEF Revision
<1>5. CASE object'[kind] # object[kind]
    <2>1. PICK reads \in Cluster, snapshot \in Snapshots :
              /\ reads[kind] = object[kind]
              /\ Admitted(HeldOf(reads), TheContract, snapshot)
              /\ object'[kind].payload = snapshot[kind].payload
        BY <1>1, <1>5, WrittenFromRead
    <2>. DEFINE offered == snapshot[kind].payload[x]
                before == object[kind].payload[x]
                number == HeldHistory(HeldOf(reads))[kind][x]
    <2>2. snapshot \in RuntimeSnapshot /\ HeldTyped(HeldOf(reads))
        BY HeldOfTyped DEF KubernetesAssumption
    <2>3. HeldPayload(HeldOf(reads), kind) = object[kind].payload
        BY <2>1, HeldPayloadOf
    <2>4. x \in Ids(snapshot[kind].payload)
        BY <1>3, <2>1, <2>2, OfferedDocuments, DocumentFacts
    <2>5. /\ offered.revision \in Nat /\ number \in Nat
          /\ \/ offered.revision > number
             \/ before # None /\ offered = before /\ offered.revision = number
        BY <2>1, <2>2, <2>3, <2>4, AdvancesPast
    <2>6. before # None => number >= before.revision
        BY <1>3, <2>2, <2>3, PayloadTyped, HistoryOf DEF HeldTyped
    <2>7. Revision(object[kind].payload, x) = IF before = None THEN 0 ELSE before.revision
        BY DEF Revision
    <2>8. Revision(object'[kind].payload, x) = offered.revision
        BY <2>1 DEF Revision
    <2>9. object'[kind].payload[x] = offered
        BY <2>1
    <2>. HIDE DEF offered, before, number
    <2>10. /\ before # None => offered.revision > before.revision \/ offered = before
           /\ before = None => offered.revision > 0
        BY <1>3, <2>5, <2>6 DEF before
    <2>. QED
        BY <1>3, <2>5, <2>7, <2>8, <2>9, <2>10 DEF before
<1>. QED
    BY <1>4, <1>5

\* Whichever publishers overlap, and wherever their calls fail, a replaced
\* object holds no resource at an older revision, and none with other content
\* at the same one: publish.rs, whose plan is of documents read earlier and
\* whose only guard is the version each write is made under (client.rs).
THEOREM KubernetesResourcesMoveForward ==
    KubernetesAssumption => (KubernetesSpec => [][ResourcesMoveForward]_kubernetesVars)
<1>. SUFFICES ASSUME KubernetesAssumption
              PROVE  KubernetesSpec => [][ResourcesMoveForward]_kubernetesVars
    OBVIOUS
<1>1. Inv /\ [KubernetesNext]_kubernetesVars => Inv' /\ ResourcesMoveForward
    BY InvNext, MoveForward
<1>. QED
    BY <1>1, InvInit, PTL DEF KubernetesSpec

\* ... and a generation is not recorded twice with different content.
LEMMA Unique ==
    ASSUME KubernetesAssumption, Inv, [KubernetesNext]_kubernetesVars
    PROVE  GenerationsAreUnique
<1>. DEFINE before == object["tenants"].record
            after == object'["tenants"].record
<1>. SUFFICES ASSUME object["tenants"] # None, before.generation < MaxGeneration,
                     after # before
              PROVE  after.generation > before.generation
    BY DEF GenerationsAreUnique
<1>1. object \in Cluster /\ "tenants" \in Kinds
    BY DEF Inv, Shape, Kinds
<1>2. PICK reads \in Cluster, snapshot \in Snapshots :
          /\ reads["tenants"] = object["tenants"]
          /\ Admitted(HeldOf(reads), TheContract, snapshot)
          /\ after = PlannedRecord(HeldOf(reads), TheContract, snapshot)
    BY <1>1, WrittenFromRead
<1>3. snapshot \in RuntimeSnapshot /\ TheContract \in Contracts /\ HeldTyped(HeldOf(reads))
    BY HeldOfTyped DEF KubernetesAssumption
<1>4. HeldOf(reads).record = before
    BY <1>2 DEF HeldOf
<1>5. before \in PublicationRecord
    BY <1>1, Versions DEF ConfigMap
<1>6. before # None /\ before.generation \in Nat
    BY <1>5, NoneAssumption, GenerationAssumption DEF PublicationRecord
<1>7. after = before \/ after.generation = SaturatingNext(before.generation)
    BY <1>2, <1>3, <1>4, <1>6, RecordTyped
<1>. QED
    BY <1>6, <1>7, GenerationAssumption DEF SaturatingNext

\* Two publications that overlap never record one generation differently,
\* below the last one: plan/record.rs numbers the record one past the one
\* read, and tenants_object.rs keeps record and tenants in one object, so
\* that the version guards the number too.
THEOREM KubernetesGenerationsAreUnique ==
    KubernetesAssumption => (KubernetesSpec => [][GenerationsAreUnique]_kubernetesVars)
<1>. SUFFICES ASSUME KubernetesAssumption
              PROVE  KubernetesSpec => [][GenerationsAreUnique]_kubernetesVars
    OBVIOUS
<1>1. Inv /\ [KubernetesNext]_kubernetesVars => Inv' /\ GenerationsAreUnique
    BY InvNext, Unique
<1>. QED
    BY <1>1, InvInit, PTL DEF KubernetesSpec

================================================================================
