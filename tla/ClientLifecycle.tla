---------------------------- MODULE ClientLifecycle ----------------------------
(***************************************************************************)
(* The lifecycle of one client id: created, tombstoned, restored, its      *)
(* deletion confirmed (fabric-control-plane: service/lifecycle,            *)
(* continuity, lifecycle; fabric-client-model: lifecycle).                 *)
(*                                                                         *)
(* A transition is written to two places that fail apart: the client's     *)
(* document in Git, and the continuity store, which attests what the       *)
(* document may say.  It is reserved in the store, written to the document *)
(* and completed in the store; a request may be cut off between any two    *)
(* calls, and a write whose answer was lost may land later.  Git is        *)
(* editable by hand, and a revert brings an earlier revision back.         *)
(*                                                                         *)
(* A document is its lifecycle record and the number of the write that     *)
(* made it, and is its own revision (a blob hash).  The realm never        *)
(* changes, so the record is its own fingerprint.  A token is "attempt",   *)
(* "operation" or, once its operation ended, "stale": tokens are never     *)
(* reused.                                                                 *)
(***************************************************************************)
EXTENDS Naturals, Sequences, SequencesExt, TLC

CONSTANTS
    Requests,       \* requests in flight at once
    Operators,      \* operator subjects
    Times,          \* clock readings
    MaxWrites,      \* bound on writes of the document
    MaxHandEdits,   \* bound on reverts and removals by hand
    MaxFaults,      \* bound on failed calls and crashes
    None

LifecycleAssumption ==
    /\ Times \subseteq Nat
    /\ MaxWrites \in Nat /\ MaxHandEdits \in Nat /\ MaxFaults \in Nat

VARIABLES
    document,   \* the client's document, or None
    writes,     \* writes so far, and hence identity instances minted
    past,       \* documents a revert may bring back
    store,      \* what the continuity store holds for the client, or None
    request,    \* what each request is doing
    handEdits, faults,
    retired     \* what the store ever confirmed: tombstones and deletions

lifecycleVars == <<document, writes, past, store, request, handEdits, faults, retired>>

Kinds == {"Tombstone", "ConfirmDeletion", "Restore"}

--------------------------------------------------------------------------------
(* The record and its transitions.                                         *)

Entry(at, by) == [at |-> at, by |-> by]

Deleted == Entry(0, "deleted")

NewRecord(instance) ==
    [instance |-> instance, tombstone |-> None, deletion_confirmed |-> None,
     restorations |-> <<>>]

\* What each transition refuses.
Permitted(kind, record) ==
    /\ record.deletion_confirmed = None
    /\ (kind = "Tombstone") <=> (record.tombstone = None)

Applied(kind, record, entry) ==
    CASE kind = "Tombstone" -> [record EXCEPT !.tombstone = entry]
      [] kind = "ConfirmDeletion" -> [record EXCEPT !.deletion_confirmed = entry]
      [] kind = "Restore" ->
            [record EXCEPT !.tombstone = None,
                           !.restorations = Append(@, [tombstone |-> record.tombstone,
                                                       at |-> entry.at, by |-> entry.by])]

\* check: what parsing the document refuses, entries out of time order.
Check(record) ==
    LET n == Len(record.restorations)
        floor(i) == IF i = 0 THEN 0 ELSE record.restorations[i].at
    IN  /\ record.tombstone # None /\ record.deletion_confirmed # None =>
              record.tombstone.at <= record.deletion_confirmed.at
        /\ \A i \in 1 .. n :
              /\ floor(i - 1) <= record.restorations[i].tombstone.at
              /\ record.restorations[i].tombstone.at <= record.restorations[i].at
        /\ record.tombstone # None => floor(n) <= record.tombstone.at

\* before: the record a frozen transition was applied to.
Before(frozen) ==
    CASE frozen.kind = "Tombstone" -> [frozen.to EXCEPT !.tombstone = None]
      [] frozen.kind = "ConfirmDeletion" -> [frozen.to EXCEPT !.deletion_confirmed = None]
      [] frozen.kind = "Restore" ->
            [frozen.to EXCEPT !.tombstone = Last(frozen.to.restorations).tombstone,
                              !.restorations = Front(@)]
      [] OTHER -> frozen.to

\* Seeded fault: when it was asked is part of the intent.
SameStamp(kind, fresh, frozen) == fresh = frozen

\* same_intent: equal but for when it was asked.
SameIntent(kind, fresh, frozen) ==
    LET unstamped(record) ==
        CASE kind = "Tombstone" -> [record EXCEPT !.tombstone.at = 0]
          [] kind = "ConfirmDeletion" -> [record EXCEPT !.deletion_confirmed.at = 0]
          [] OTHER -> [record EXCEPT !.restorations[Len(record.restorations)].at = 0]
    IN  unstamped(fresh) = unstamped(frozen)

--------------------------------------------------------------------------------
(* The continuity store.                                                   *)

\* Seeded fault: a transition need not start where the store left off.
FollowsAny(from, sequence) == sequence = store.sequence

\* A transition follows what the store accepted.
Follows(from, sequence) == sequence = store.sequence /\ from = store.fingerprint

Frozen(r) ==
    [kind |-> request[r].kind, at_revision |-> request[r].expected, to |-> request[r].to,
     by |-> request[r].by]

\* The pending transition without its attempts.
Intent(pending) ==
    [kind |-> pending.kind, at_revision |-> pending.at_revision, to |-> pending.to,
     by |-> pending.by]

\* The operation ends: every token of it is stale.
EndTokens(requests) ==
    [q \in Requests |->
        IF "token" \in DOMAIN requests[q] THEN [requests[q] EXCEPT !.token = "stale"]
        ELSE requests[q]]

\* complete: the pending operation becomes what is accepted.
Completed ==
    [store EXCEPT !.fingerprint = store.pending.to, !.sequence = @ + 1, !.pending = None]

Confirms(pending) ==
    retired \cup
        (IF pending.kind = "Tombstone" THEN {<<store.instance, pending.to.tombstone>>} ELSE {})
        \cup (IF pending.kind = "ConfirmDeletion" THEN {<<store.instance, Deleted>>} ELSE {})

\* The attempts that may still have written, without this one.
Outstanding(r) == store.pending.attempts \ {r}

\* release: the operation is cleared when no other attempt is outstanding,
\* and with a creation the client's history.
Released(r) ==
    IF Outstanding(r) # {} THEN [store EXCEPT !.pending.attempts = Outstanding(r)]
    ELSE IF store.pending.kind = "Create" THEN None
    ELSE [store EXCEPT !.pending = None]

\* An attempt that ends without a word stays outstanding for ever.
Abandoned(r) ==
    IF store # None /\ store.pending # None /\ r \in store.pending.attempts
    THEN [store EXCEPT !.pending.attempts = (@ \ {r}) \cup {"lost"}]
    ELSE store

--------------------------------------------------------------------------------
(* Requests.                                                               *)

Idle == [pc |-> "idle"]

LifecycleInit ==
    /\ document = None /\ store = None
    /\ writes = 0 /\ past = {} /\ retired = {}
    /\ request = [r \in Requests |-> Idle]
    /\ handEdits = 0 /\ faults = 0

Quiet == UNCHANGED <<document, writes, past, handEdits>>

Go(r, next) == request' = [request EXCEPT ![r] = next]

\* A request that ends without having reserved, or after it settled.
End(r) == Go(r, Idle) /\ UNCHANGED <<store, faults, retired>> /\ Quiet

\* An operator asks for a transition at a revision read earlier.
Ask(r, kind, by, at, expected) ==
    /\ request[r].pc = "idle"
    /\ Go(r, [pc |-> "pending", kind |-> kind, by |-> by, at |-> at, expected |-> expected])
    /\ UNCHANGED <<store, faults, retired>> /\ Quiet

\* pending: the store's pending transition of this kind at this revision.
Pending(r) ==
    /\ request[r].pc = "pending"
    /\ LET matches == /\ store # None /\ store.pending # None
                      /\ store.pending.kind = request[r].kind
                      /\ store.pending.at_revision = request[r].expected
       IN  Go(r, [request[r] EXCEPT !.pc = "prepare"]
                 @@ [frozen |-> IF matches THEN Intent(store.pending) ELSE None,
                     token |-> IF matches THEN "operation" ELSE "none"])
    /\ UNCHANGED <<store, faults, retired>> /\ Quiet

Fresh(r, record) == Applied(request[r].kind, record, Entry(request[r].at, request[r].by))

ToReserve(r, to) ==
    Go(r, [request[r] EXCEPT !.pc = "accepted"] @@ [from |-> document.life, to |-> to])

\* prepare, for a request nothing is pending for: at the expected revision.
Prepare(r) ==
    /\ request[r].pc = "prepare" /\ request[r].frozen = None
    /\ IF document = None \/ document # request[r].expected
          \/ ~Permitted(request[r].kind, document.life) \/ ~Check(Fresh(r, document.life))
       THEN End(r)
       ELSE /\ ToReserve(r, Fresh(r, document.life))
            /\ UNCHANGED <<store, faults, retired>> /\ Quiet

\* A retry that finds the document where it was: the frozen record is
\* written again, if it is what this request asks for.
Replay(r) ==
    /\ request[r].pc = "prepare" /\ request[r].frozen # None
    /\ document # None /\ document = request[r].expected
    /\ IF \/ ~Permitted(request[r].kind, document.life)
          \/ ~Check(Fresh(r, document.life))
          \/ ~SameIntent(request[r].kind, Fresh(r, document.life), request[r].frozen.to)
       THEN End(r)
       ELSE /\ ToReserve(r, request[r].frozen.to)
            /\ UNCHANGED <<store, faults, retired>> /\ Quiet

\* The document carries the frozen transition.
Carries(r) == document.life = request[r].frozen.to

\* recover: the document moved on; complete the frozen transition when the
\* document carries exactly it.
Recover(r) ==
    /\ request[r].pc = "prepare" /\ request[r].frozen # None
    /\ document # request[r].expected
    /\ IF \/ document = None
          \/ ~SameIntent(request[r].kind, Fresh(r, Before(request[r].frozen)), request[r].frozen.to)
          \/ ~Carries(r)
       THEN End(r)
       ELSE /\ Go(r, [request[r] EXCEPT !.pc = "complete"])
            /\ UNCHANGED <<store, faults, retired>> /\ Quiet

\* retained::check refuses a restore whose placements are not shown to be
\* kept, before anything is reserved or recovered.
Unretained(r) ==
    /\ \/ request[r].pc = "accepted"
       \/ request[r].pc = "prepare" /\ request[r].frozen # None /\ document # request[r].expected
    /\ request[r].kind = "Restore"
    /\ End(r)

\* reserve, first call: the instance and the sequence accepted.
ReadAccepted(r) ==
    /\ request[r].pc = "accepted"
    /\ IF store = None THEN End(r)
       ELSE /\ Go(r, [request[r] EXCEPT !.pc = "reserve"] @@ [sequence |-> store.sequence])
            /\ UNCHANGED <<store, faults, retired>> /\ Quiet

\* reserve, second call: a new operation, or another attempt at the pending
\* one when it is exactly the same.
Reserve(r) ==
    /\ request[r].pc = "reserve"
    /\ IF \/ store = None
          \/ ~Follows(request[r].from, request[r].sequence)
          \/ store.pending # None /\ Intent(store.pending) # Frozen(r)
       THEN End(r)
       ELSE /\ store' = [store EXCEPT !.pending =
                            Frozen(r) @@ [attempts |->
                                (IF store.pending = None THEN {} ELSE store.pending.attempts)
                                \cup {r}]]
            /\ Go(r, [request[r] EXCEPT !.pc = "write", !.token = "attempt"])
            /\ UNCHANGED <<faults, retired>> /\ Quiet

\* create_client: a new instance, reserved when the store holds nothing for
\* this id; refused, the document is written without one.
Create(r, by) ==
    /\ request[r].pc = "idle"
    /\ writes < MaxWrites
    /\ LET attested == NewRecord(writes + 1)
           base == [pc |-> "write", kind |-> "Create", by |-> by, expected |-> None]
       IN  IF store = None
           THEN /\ store' = [instance |-> writes + 1, sequence |-> 0, fingerprint |-> attested,
                             pending |-> [kind |-> "Create", at_revision |-> None, to |-> attested,
                                          by |-> by, attempts |-> {r}]]
                /\ Go(r, base @@ [to |-> attested, token |-> "attempt"])
           ELSE /\ Go(r, base @@ [to |-> NewRecord(None), token |-> "none"])
                /\ UNCHANGED store
    /\ UNCHANGED <<faults, retired>> /\ Quiet

\* The document a write leaves, and what it can be reverted to.
Store(life) ==
    /\ writes < MaxWrites
    /\ writes' = writes + 1
    /\ document' = [life |-> life, write |-> writes + 1]
    /\ past' = past \cup (IF document = None THEN {} ELSE {document})
    /\ UNCHANGED handEdits

\* write_lifecycle, write_created: conditional on the revision.
Write(r) ==
    /\ request[r].pc = "write"
    /\ document = request[r].expected
    /\ Store(request[r].to)
    /\ Go(r, IF request[r].token = "none" THEN Idle ELSE [request[r] EXCEPT !.pc = "complete"])
    /\ UNCHANGED <<store, faults, retired>>

\* A lost revision: conclusively not landed.
WriteConflicts(r) ==
    /\ request[r].pc = "write"
    /\ document # request[r].expected
    /\ Go(r, IF request[r].token = "none" THEN Idle ELSE [request[r] EXCEPT !.pc = "release"])
    /\ UNCHANGED <<store, faults, retired>> /\ Quiet

\* A write whose answer is lost: it may have landed, land later or never.
WriteUnconfirmed(r) ==
    /\ request[r].pc = "write"
    /\ faults < MaxFaults
    /\ faults' = faults + 1
    /\ Go(r, [pc |-> "in flight", expected |-> request[r].expected, to |-> request[r].to])
    /\ store' = Abandoned(r)
    /\ UNCHANGED retired /\ Quiet

LateWrite(r) ==
    /\ request[r].pc = "in flight"
    /\ document = request[r].expected
    /\ Store(request[r].to)
    /\ Go(r, Idle)
    /\ UNCHANGED <<store, faults, retired>>

NeverLands(r) ==
    /\ request[r].pc = "in flight"
    /\ End(r)

Complete(r) ==
    /\ request[r].pc = "complete"
    /\ IF request[r].token = "stale" THEN End(r)
       ELSE /\ store' = Completed
            /\ retired' = Confirms(store.pending)
            /\ request' = [EndTokens(request) EXCEPT ![r] = Idle]
            /\ UNCHANGED faults /\ Quiet

Release(r) ==
    /\ request[r].pc = "release"
    /\ IF request[r].token = "stale" THEN End(r)
       ELSE /\ store' = Released(r)
            /\ request' = IF Outstanding(r) # {} THEN [request EXCEPT ![r] = Idle]
                          ELSE [EndTokens(request) EXCEPT ![r] = Idle]
            /\ UNCHANGED <<faults, retired>> /\ Quiet

\* A call to the store fails, the request is cancelled or the process
\* crashes: whatever was reserved stays.
CutOff(r) ==
    /\ request[r].pc \in {"pending", "prepare", "accepted", "reserve", "complete", "release"}
    /\ faults < MaxFaults
    /\ faults' = faults + 1
    /\ Go(r, Idle)
    /\ store' = Abandoned(r)
    /\ UNCHANGED retired /\ Quiet

--------------------------------------------------------------------------------
(* What else changes the document.                                         *)

\* set_product of a client in use, set_identity of any client: the
\* lifecycle is left as it is.
Edit ==
    /\ document # None
    /\ Store(document.life)
    /\ UNCHANGED <<store, request, faults, retired>>

\* A hand edit: an earlier revision brought back, or the file removed.
HandEdit ==
    /\ handEdits < MaxHandEdits
    /\ document # None
    /\ handEdits' = handEdits + 1
    /\ document' \in past \cup {None}
    /\ past' = past \cup {document}
    /\ UNCHANGED <<writes, store, request, faults, retired>>

RequestStep(r) ==
    \/ Pending(r) \/ Prepare(r) \/ Replay(r) \/ Recover(r) \/ ReadAccepted(r) \/ Reserve(r)
    \/ Write(r) \/ WriteConflicts(r) \/ LateWrite(r) \/ NeverLands(r)
    \/ Complete(r) \/ Release(r)

\* The revisions a request may name, those with a write left of the bound.
Revisions ==
    {d \in past \cup (IF document = None THEN {} ELSE {document}) : d.write < MaxWrites}

LifecycleNext ==
    \/ \E r \in Requests :
          \/ \E kind \in Kinds, by \in Operators, at \in Times, expected \in Revisions :
                Ask(r, kind, by, at, expected)
          \/ \E by \in Operators : Create(r, by)
          \/ RequestStep(r) \/ Unretained(r) \/ WriteUnconfirmed(r) \/ CutOff(r)
    \/ Edit
    \/ HandEdit

LifecycleSpec == LifecycleInit /\ [][LifecycleNext]_lifecycleVars

\* Requests run to their end, the clock goes on, and an operator sends a request that was left
\* pending again, with the same If-Match.  Nobody edits the client, and the
\* placements of a client being restored are kept.
AskAgain(r) ==
    /\ store # None /\ store.pending # None /\ store.pending.kind \in Kinds
    /\ \E at \in Times :
          /\ \A earlier \in Times : earlier <= at
          /\ Ask(r, store.pending.kind, store.pending.by, at, store.pending.at_revision)

RetriedNext == LifecycleNext /\ ~Edit /\ \A r \in Requests : ~Unretained(r)

RetriedSpec ==
    /\ LifecycleInit /\ [][RetriedNext]_lifecycleVars
    /\ \A r \in Requests :
          WF_lifecycleVars(RequestStep(r)) /\ SF_lifecycleVars(AskAgain(r))

--------------------------------------------------------------------------------
(* Properties.                                                             *)

\* admit: the store vouches for the document as it is.
Admitted ==
    /\ document # None /\ store # None
    /\ store.pending = None
    /\ document.life.instance = store.instance
    /\ document.life = store.fingerprint

\* Without a hand edit, what the service wrote is what the store accepted
\* or holds pending: no interleaving of attempts, lost answers, conflicts
\* and releases leaves a written transition that nothing can complete
\* (record.rs: a release "releases its own attempt and nothing else").
NoOrphanWrite ==
    handEdits = 0 /\ document # None /\ document.life.instance # None =>
        /\ store # None /\ store.instance = document.life.instance
        /\ \/ document.life = store.fingerprint
           \/ store.pending # None /\ store.pending.to = document.life

\* Nothing brings a retired client back but a restore: whatever is reverted,
\* erased or created again in Git, a client whose deletion was confirmed is
\* admitted only as deleted, and a confirmed tombstone is either still there
\* or reversed by a recorded restoration (continuity.rs: "A tombstone cannot
\* be undone by Git").
RetirementSticks ==
    store # None =>
        \A fact \in retired :
            fact[1] = store.instance =>
                IF fact[2] = Deleted THEN store.fingerprint.deletion_confirmed # None
                ELSE \/ store.fingerprint.tombstone = fact[2]
                     \/ \E i \in 1 .. Len(store.fingerprint.restorations) :
                            store.fingerprint.restorations[i].tombstone = fact[2]

\* A transition left pending is completed or cleared when its operator
\* keeps sending it, however the earlier attempts ended, as long as nobody
\* edits the client meanwhile (record.rs: "Only the same request sent
\* again, with the same If-Match, goes on").
RetrySettles ==
    (store # None /\ store.pending # None /\ store.pending.kind \in Kinds)
        ~> (store = None \/ store.pending = None)

================================================================================
