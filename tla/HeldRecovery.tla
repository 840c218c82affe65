----------------------------- MODULE HeldRecovery ------------------------------
(***************************************************************************)
(* Recovering what a filesystem target holds after files were lost or      *)
(* damaged (fabric-runtime-publication: held_recovery,                      *)
(* filesystem/recovery; fabric-control-plane-api: recovery).  A damaged     *)
(* document blocks every publication; an operator puts back the exact       *)
(* bytes the held record names, from a copy kept apart, payload first and   *)
(* manifest last, each an atomic replacement that may fail before or after  *)
(* it took effect, and audits the intent before and the outcome after.      *)
(*                                                                          *)
(* The lock keeps publishers and restores apart, so a publication is one    *)
(* step here, cut off after any number of its writes                        *)
(* (FilesystemPublication has the steps).                                   *)
(***************************************************************************)
EXTENDS PublicationPlan, Sequences

CONSTANTS
    Snapshots,    \* the snapshots that may be offered
    TheContract,  \* the publishers' contract version
    DamageKinds,  \* what one mishap takes of a document
    MaxDamage,    \* bound on files lost or damaged
    MaxCuts,      \* bound on publications cut off
    MaxFailures   \* bound on failed writes and crashes of a restore

RecoveryAssumption ==
    MaxDamage \in Nat /\ MaxCuts \in Nat /\ MaxFailures \in Nat

VARIABLES
    payload, manifest, registry, record,  \* the files, as in FilesystemPublication
    restore,    \* the restore in progress
    audit,      \* intents and outcomes appended to the audit log
    kept,       \* copies of published payloads kept apart from the target
    named,      \* history: the documents as records named them
    damage, cuts, failures

recoveryVars ==
    <<payload, manifest, registry, record, restore, audit, kept, named, damage, cuts, failures>>
targetFiles == <<payload, manifest, registry, record>>
bounds == <<damage, cuts, failures>>

Held == [payload |-> payload, manifest |-> manifest, registry |-> registry, record |-> record]

Idle == [pc |-> "idle"]

RecoveryInit ==
    /\ payload = [kind \in Kinds |-> None]
    /\ manifest = [kind \in Kinds |-> None]
    /\ registry = None /\ record = None
    /\ restore = Idle /\ audit = {}
    /\ kept = [kind \in Kinds |-> {}]
    /\ named = [kind \in Kinds |-> {}]
    /\ damage = 0 /\ cuts = 0 /\ failures = 0

--------------------------------------------------------------------------------
(* Publications, damage.                                                   *)

WriteOrder == <<"data_sources", "catalog", "tenants">>

\* The files after the first n writes of a plan: each document's payload,
\* then its manifest, then the registry, then the record.
Apply(plan, n) ==
    LET at(kind, offset) ==
            \E i \in 1 .. 3 : WriteOrder[i] = kind /\ kind \in plan.writes /\ 2 * i - offset <= n
    IN  /\ payload' = [kind \in Kinds |->
                IF at(kind, 1) THEN plan.snapshot[kind].payload ELSE payload[kind]]
        /\ manifest' = [kind \in Kinds |->
                IF at(kind, 0) THEN plan.snapshot[kind].revision ELSE manifest[kind]]
        /\ registry' = IF n >= 7 THEN plan.registry ELSE registry
        /\ record' = IF n >= 8 THEN plan.record ELSE record

Publish(snapshot, n) ==
    /\ restore = Idle
    /\ n < 8 => cuts < MaxCuts
    /\ cuts' = IF n < 8 THEN cuts + 1 ELSE cuts
    /\ Admitted(Held, TheContract, snapshot)
    /\ Apply(Plan(Held, TheContract, snapshot), n)
    /\ kept' = [kind \in Kinds |-> kept[kind] \cup ({payload'[kind]} \ {None, Corrupt})]
    /\ named' = [kind \in Kinds |->
            named[kind] \cup (IF record' = None THEN {} ELSE {record'.documents[kind]})]
    /\ UNCHANGED <<restore, audit, damage, failures>>

Whole(kind) == payload[kind] \notin {None, Corrupt} /\ manifest[kind] \notin {None, Corrupt}

\* A document's payload, its manifest or both are lost or no longer parse,
\* while the others are well.
Damage(kind) ==
    /\ damage < MaxDamage
    /\ restore = Idle
    /\ \A k \in Kinds : Whole(k)
    /\ damage' = damage + 1
    /\ \E broken \in {None, Corrupt}, part \in DamageKinds :
          /\ payload' = IF part = "manifest" THEN payload ELSE [payload EXCEPT ![kind] = broken]
          /\ manifest' = IF part = "payload" THEN manifest ELSE [manifest EXCEPT ![kind] = broken]
    /\ UNCHANGED <<registry, record>>
    /\ UNCHANGED <<restore, audit, kept, named, cuts, failures>>

--------------------------------------------------------------------------------
(* Diagnosis.                                                              *)

RecordUsable == record \notin {None, Corrupt} /\ RollbackFloorHolds(Held, TheContract)

\* blocking: what keeps a publisher from reading one document.
Blocking(kind) ==
    \/ manifest[kind] = Corrupt
    \/ payload[kind] = Corrupt /\ kind # "catalog"
    \/ payload[kind] = None /\ manifest[kind] # None /\ kind # "catalog"

Readable(kind) == payload[kind] \notin {None, Corrupt}

\* What the record names differently from what is held.
Mismatched(kind) ==
    RecordUsable /\ (\/ Digest(payload[kind]) # record.documents[kind].digest
                     \/ /\ manifest[kind] \notin {None, Corrupt}
                        /\ manifest[kind] # record.documents[kind].revision)

\* dangling, registry_problems: the documents against each other.
ResourceProblems(tenants, sources) ==
    \/ ~BindingsResolve(tenants, sources)
    \/ ~EveryTenantHasData(tenants)

RegistryProblems ==
    RecordUsable /\ record.registry # None
        /\ (registry = None \/ Digest(registry) # record.registry.digest)

Clear ==
    /\ record # Corrupt
    /\ \A kind \in Kinds : ~Blocking(kind) /\ ~Mismatched(kind)
    /\ Readable("tenants") /\ Readable("data_sources") =>
          ~ResourceProblems(payload["tenants"], payload["data_sources"])
    /\ ~RegistryProblems

--------------------------------------------------------------------------------
(* Restoring.                                                              *)

\* offered_problems: what is offered against the peer that is held.
OfferedProblems(kind, offered) ==
    IF kind = "tenants"
    THEN \/ ~EveryTenantHasData(offered)
         \/ Readable("data_sources") /\ ~BindingsResolve(offered, payload["data_sources"])
         \/ /\ record.registry # None /\ ~RegistryProblems
            /\ \E pair \in registry.issuers : pair[2] \notin Ids(offered)
    ELSE Readable("tenants") /\ ~BindingsResolve(payload["tenants"], offered)

\* manifest_plan: a lost or malformed manifest is rebuilt from the record.
ManifestToWrite(kind) ==
    IF manifest[kind] \in {None, Corrupt} THEN record.documents[kind].revision ELSE None

PayloadToWrite(kind, offered) == IF payload[kind] = offered THEN None ELSE offered

\* plan_restore's refusals.
Restorable(kind, offered) ==
    /\ kind # "catalog"
    /\ RecordUsable
    /\ manifest[kind] \in {None, Corrupt, record.documents[kind].revision}
    /\ Digest(offered) = record.documents[kind].digest
    /\ ~OfferedProblems(kind, offered)
    /\ payload[kind] \in {None, Corrupt, offered}

\* restore, under the lock: planned, and its intent audited before any write.
\* A document that is already restored returns without an audit line.
BeginRestore(kind, offered) ==
    /\ restore = Idle
    /\ Restorable(kind, offered)
    /\ \/ PayloadToWrite(kind, offered) # None
       \/ ManifestToWrite(kind) # None
    /\ restore' = [pc |-> "payload", kind |-> kind, payload |-> PayloadToWrite(kind, offered),
                   manifest |-> ManifestToWrite(kind), landed |-> FALSE,
                   before |-> <<payload[kind], manifest[kind]>>]
    /\ audit' = audit \cup {"intent"}
    /\ UNCHANGED <<targetFiles, kept, named, bounds>>

\* The next file, when there is one to write.
PutPayload ==
    /\ restore.pc = "payload"
    /\ payload' = IF restore.payload = None THEN payload
                  ELSE [payload EXCEPT ![restore.kind] = restore.payload]
    /\ restore' = [restore EXCEPT !.pc = "manifest", !.landed = @ \/ restore.payload # None]
    /\ UNCHANGED <<manifest, registry, record, audit, kept, named, bounds>>

PutManifest ==
    /\ restore.pc = "manifest"
    /\ manifest' = IF restore.manifest = None THEN manifest
                   ELSE [manifest EXCEPT ![restore.kind] = restore.manifest]
    /\ restore' = [restore EXCEPT !.pc = "completed"]
    /\ UNCHANGED <<payload, registry, record, audit, kept, named, bounds>>

\* Seeded fault: only the file that failed is looked at.
UncertainAfterThisFile(landed, took) == took

\* What a failed write is reported as: the target may have been changed when
\* an earlier file landed or this one is found in place.
Uncertain(landed, took) == landed \/ took

\* atomic_write fails: before the rename, or after it when the directory
\* could not be synchronised.
WriteFails ==
    /\ restore.pc \in {"payload", "manifest"}
    /\ restore[restore.pc] # None
    /\ failures < MaxFailures
    /\ failures' = failures + 1
    /\ \E took \in BOOLEAN :
          /\ payload' = IF took /\ restore.pc = "payload"
                        THEN [payload EXCEPT ![restore.kind] = restore.payload] ELSE payload
          /\ manifest' = IF took /\ restore.pc = "manifest"
                         THEN [manifest EXCEPT ![restore.kind] = restore.manifest] ELSE manifest
          /\ restore' = [restore EXCEPT !.pc =
                            IF Uncertain(restore.landed, took) THEN "uncertain" ELSE "failed"]
    /\ UNCHANGED <<registry, record, audit, kept, named, damage, cuts>>

\* The outcome is appended to the audit log and the lock dropped.
Report ==
    /\ restore.pc \in {"completed", "uncertain", "failed"}
    /\ audit' = audit \cup {restore.pc}
    /\ restore' = Idle
    /\ UNCHANGED <<targetFiles, kept, named, bounds>>

\* The process goes away: the operating system drops the lock.
Crash ==
    /\ restore # Idle
    /\ failures < MaxFailures
    /\ failures' = failures + 1
    /\ restore' = Idle
    /\ UNCHANGED <<targetFiles, audit, kept, named, damage, cuts>>

RestoreStep == PutPayload \/ PutManifest \/ Report

RecoveryNext ==
    \/ \E snapshot \in Snapshots, n \in 0 .. 8 : Publish(snapshot, n)
    \/ \E kind \in Kinds : Damage(kind)
    \/ \E kind \in Kinds : \E offered \in kept[kind] : BeginRestore(kind, offered)
    \/ RestoreStep \/ WriteFails \/ Crash

RecoverySpec == RecoveryInit /\ [][RecoveryNext]_recoveryVars

\* An operator who has the copy goes on until the document is back.
Recovering ==
    /\ RecoverySpec
    /\ WF_recoveryVars(RestoreStep)
    /\ SF_recoveryVars(\E kind \in Kinds : \E offered \in kept[kind] : BeginRestore(kind, offered))

--------------------------------------------------------------------------------
(* Properties.                                                             *)

\* A document revision is given to one content only, although a manifest was
\* lost, rebuilt or republished over in between: the record stands in for a
\* lost manifest (plan/held.rs), so the loss never reads as a first
\* publication.  A publication cut off after a payload is different: the
\* next one takes that payload for what the old revision names; and so is
\* a document lost with its manifest, which is written again as it is now.
RevisionNamesOneContent ==
    \A kind \in {"tenants", "data_sources"} :
        \A a, b \in named[kind] : a.revision = b.revision => a = b

\* A restore reported as failed, rather than uncertain, left the target as
\* it was, whichever write failed and whether or not its rename happened
\* (filesystem/recovery.rs).
FailedMeansUntouched ==
    restore # Idle /\ restore.pc = "failed" =>
        restore.before = <<payload[restore.kind], manifest[restore.kind]>>

\* A restore that goes through leaves the document readable and as the
\* record names it, next to the peers it is served with.
CompletedMeansRecorded ==
    restore # Idle /\ restore.pc = "completed" =>
        /\ ~Blocking(restore.kind) /\ ~Mismatched(restore.kind)
        /\ Readable("tenants") /\ Readable("data_sources") =>
              ~ResourceProblems(payload["tenants"], payload["data_sources"])

\* A document damaged under a whole record does not block publication for
\* ever: the copy the record names can be put back, after failed writes and
\* crashes too (held_recovery).
RecoveryUnblocks ==
    \A kind \in {"tenants", "data_sources"} : Blocking(kind) ~> ~Blocking(kind)

================================================================================
