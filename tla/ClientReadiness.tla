---------------------------- MODULE ClientReadiness ----------------------------
(***************************************************************************)
(* What the control plane says of one client from facts it already holds   *)
(* (fabric-control-plane: lifecycle; fabric-client-model: lifecycle):       *)
(* whether it is ready, whether a retired one is withdrawn, and whether a   *)
(* tombstoned one kept its placements and may be restored.  The facts are   *)
(* the placements in Git, what the publication target holds, and what this  *)
(* process remembers of its own passes.                                     *)
(***************************************************************************)
EXTENDS Naturals, FiniteSets, FiniteSetsExt

CONSTANTS
    Logicals,       \* logical data sources the client may declare
    Sources,        \* data sources they may be placed on
    Passers,        \* TRUE for passes of this process, FALSE for another's
    MaxRevision,    \* bound on a placement's revision
    MaxFaults,      \* bound on hand edits, interruptions and losses
    None

ReadinessAssumption ==
    Passers \subseteq BOOLEAN /\ MaxRevision \in Nat /\ MaxFaults \in Nat

VARIABLES
    declared,   \* logical data sources the client document declares
    placements, \* logical -> [revision, source] or None
    tombstoned,
    held,       \* the tenant as the target's tenants document carries it, or None
    frontier,   \* the tenant's revision in the target's resource history, or None
    published,  \* the tenant's revision in what this process last had accepted, 0
                \* when not in it, None when nothing was since it started
    last,       \* outcome of this process's last pass
    handEdits, faults

readinessVars ==
    <<declared, placements, tombstoned, held, frontier, published, last, handEdits, faults>>

Placed(records) == {l \in Logicals : records[l] # None}

\* compose_tenants: the tenant's revision is the sum over its placements.
Recorded(records) ==
    MapThenSumSet(LAMBDA l : records[l].revision, Placed(records))

Kept(records, logicals) == MapThenSumSet(LAMBDA l : records[l].revision, logicals)

Composed ==
    IF Placed(placements) = {} THEN None
    ELSE [revision |-> Recorded(placements),
          data |-> [l \in Placed(placements) |-> placements[l].source]]

--------------------------------------------------------------------------------
(* Evidence.                                                               *)

Provisioning == declared # {} /\ declared \subseteq Placed(placements)

\* Seeded fault: what was published when does not matter.
PublicationAtAnyRevision == published # None /\ published > 0

Publication == published # None /\ published > 0 /\ published = Recorded(placements)

\* What reconciliation and the continuity store report of the identity.
IdentityFacts ==
    [admission : {"admitted", "held"},
     projection : {"consistent", "diverged", "unverifiable"},
     status : {"applied", "drifted", "hand edited", "withheld", "pending", "failed"}]

Identity(facts) ==
    /\ facts.admission = "admitted"
    /\ facts.projection = "consistent"
    /\ facts.status \in {"applied", "drifted"}

Unmet(facts) ==
    {c \in {"provisioning", "identity", "publication"} :
        CASE c = "provisioning" -> ~Provisioning
          [] c = "identity" -> ~Identity(facts)
          [] c = "publication" -> ~Publication}

Derived(facts) ==
    IF tombstoned THEN "tombstoned"
    ELSE IF Unmet(facts) = {} THEN "ready" ELSE "incomplete"

\* Routing needs a ready client; everything else one that is not retired.
Permits(facts, use) ==
    Derived(facts) \in IF use = "route" THEN {"ready"} ELSE {"ready", "incomplete"}

Withdrawal ==
    IF last = "refused" THEN "refused"
    ELSE IF published = None THEN "unobserved"
    ELSE IF published > 0 THEN "pending"
    ELSE "not published"

--------------------------------------------------------------------------------
(* Retention.                                                              *)

\* refuse_removed_or_lowered, the guard a pass applies.
RemovedOrLowered ==
    held # None /\
        LET names == DOMAIN held.data
            changed == \E l \in names : placements[l].source # held.data[l]
        IN  \/ ~(names \subseteq Placed(placements))
            \/ Kept(placements, names) < held.revision
            \/ changed /\ Kept(placements, names) = held.revision

\* retained::check.  The target holds no tenant and no history, ours or
\* another's, only before the first publication.
Retained ==
    /\ Placed(placements) \subseteq declared
    /\ held = None => frontier = None
    /\ held # None => (\A l \in DOMAIN held.data :
            placements[l] # None /\ placements[l].source = held.data[l])
    /\ ~RemovedOrLowered
    /\ frontier # None => Recorded(placements) >= frontier

\* refuse_unadvanced at the target, for this tenant.
Advances(offer) ==
    LET floors == (IF held = None THEN {} ELSE {held.revision})
                    \cup (IF frontier = None THEN {} ELSE {frontier})
    IN  floors # {} =>
            \/ offer.revision > Max(floors)
            \/ held # None /\ held.revision = Max(floors) /\ offer = held

Accepted ==
    /\ Composed # None \/ held = None
    /\ ~RemovedOrLowered
    /\ Composed # None => Advances(Composed)

--------------------------------------------------------------------------------
(* What changes the facts.                                                 *)

ReadinessInit ==
    /\ declared \in SUBSET Logicals
    /\ placements = [l \in Logicals |-> None]
    /\ tombstoned = FALSE
    /\ held = None /\ frontier = None /\ published = None /\ last = "none"
    /\ handEdits = 0 /\ faults = 0

\* A placement is recorded or rebound, for a client that is not retired.
Place(l, source) ==
    /\ ~tombstoned /\ l \in declared
    /\ placements[l] # None => placements[l].revision < MaxRevision
    /\ placements' = [placements EXCEPT ![l] =
            [revision |-> IF @ = None THEN 1 ELSE @.revision + 1, source |-> source]]
    /\ UNCHANGED <<declared, tombstoned, held, frontier, published, last, handEdits, faults>>

\* The placements in Git are edited by hand.
HandEdit(l) ==
    /\ handEdits + faults < MaxFaults
    /\ handEdits' = handEdits + 1
    /\ \E record \in {None} \cup [revision : 1 .. MaxRevision, source : Sources] :
            placements' = [placements EXCEPT ![l] = record]
    /\ UNCHANGED <<declared, tombstoned, held, frontier, published, last, faults>>

Offered == IF Composed = None THEN held ELSE Composed

\* A pass of this process, or (mine = FALSE) of another one.
Pass(mine) ==
    /\ IF Accepted
       THEN /\ held' = Offered
            /\ frontier' = IF Composed = None THEN frontier ELSE Composed.revision
            /\ published' = IF ~mine THEN published
                            ELSE IF Composed = None THEN 0 ELSE Composed.revision
            /\ last' = IF mine THEN "published" ELSE last
       ELSE /\ last' = IF mine THEN "refused" ELSE last
            /\ UNCHANGED <<held, frontier, published>>
    /\ UNCHANGED <<declared, placements, tombstoned, handEdits, faults>>

\* An offer cut off before its record: the history stays behind.
Interrupted ==
    /\ handEdits + faults < MaxFaults
    /\ Accepted
    /\ faults' = faults + 1
    /\ held' = Offered
    /\ last' = "refused"
    /\ UNCHANGED <<declared, placements, tombstoned, frontier, published, handEdits>>

\* The tenants document is lost, the history is not.
Lost ==
    /\ handEdits + faults < MaxFaults
    /\ held # None /\ frontier # None
    /\ faults' = faults + 1
    /\ held' = None
    /\ UNCHANGED <<declared, placements, tombstoned, frontier, published, last, handEdits>>

Restart ==
    /\ published' = None /\ last' = "none"
    /\ UNCHANGED <<declared, placements, tombstoned, held, frontier, handEdits, faults>>

Tombstone ==
    /\ ~tombstoned
    /\ tombstoned' = TRUE
    /\ UNCHANGED <<declared, placements, held, frontier, published, last, handEdits, faults>>

Restore ==
    /\ tombstoned /\ Retained
    /\ tombstoned' = FALSE
    /\ UNCHANGED <<declared, placements, held, frontier, published, last, handEdits, faults>>

ReadinessNext ==
    \/ \E l \in Logicals : HandEdit(l) \/ \E source \in Sources : Place(l, source)
    \/ \E mine \in Passers : Pass(mine)
    \/ Interrupted \/ Lost \/ Restart \/ Tombstone \/ Restore

ReadinessSpec == ReadinessInit /\ [][ReadinessNext]_readinessVars

--------------------------------------------------------------------------------
(* Properties.                                                             *)

\* A client reported ready is served as it is recorded: the target carries
\* every binding of its placements.  The evidence only compares a sum of
\* revisions, remembered from an earlier pass, so this rests on revisions
\* that never go back and on bindings that never change without one
\* (evidence.rs).
ReadyIsServed ==
    handEdits + faults = 0 =>
        \A facts \in IdentityFacts :
            Derived(facts) = "ready" => held = Composed /\ Permits(facts, "route")

\* A restore that is granted leaves a client the next pass can publish: none
\* of the guards it runs into refuses the tenant, whatever was edited, lost
\* or interrupted while it was retired (retained.rs).
RestoredPublishes == Restore => Accepted

\* With one process publishing, a retired client reported as not published is
\* not held by the target: an offer cut off part of the way is never taken
\* for one that did not carry it (withdrawal.rs).
WithdrawalObserved ==
    tombstoned /\ handEdits = 0 /\ Withdrawal = "not published" => held = None

================================================================================
