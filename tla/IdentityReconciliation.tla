---------------------- MODULE IdentityReconciliation ----------------------
(***************************************************************************)
(* Converging one client's realm to its declaration: the passes of         *)
(* fabric-reconciliation, the Keycloak adapter they write through          *)
(* (fabric-keycloak), and the sweep, the re-assertion and the report of    *)
(* the control plane.                                                      *)
(*                                                                         *)
(* The realm has one declared role and one declared application client.    *)
(* A pass reads the realm in three requests and writes it one request at   *)
(* a time; operators edit the realm by hand in between, and nothing keeps  *)
(* two passes apart.  A failed list and a held admission end a sweep with  *)
(* nothing done, which is a stuttering step here.                          *)
(***************************************************************************)
EXTENDS Integers, Sequences, FiniteSets

CONSTANTS Passes, Callbacks, Names, None,
          Ledger,      \* whether a declaration ledger is configured
          Audience,    \* the configured audience, None when there is none
          Edits,       \* what operators do to the realm by hand
          Starts,      \* the realms the system may start with: "empty", "converged"
          MaxDeclares, MaxEdits, MaxFaults  \* bounds

IdentityReconciliationAssumption ==
    /\ Ledger \in BOOLEAN
    /\ Starts \subseteq {"empty", "converged"} /\ Starts # {}
    /\ Callbacks # {} /\ Names # {}
    /\ {MaxDeclares, MaxEdits, MaxFaults} \subseteq Nat

VARIABLES desired,   \* the stored document: what it declares, at which revision
          unmarked,  \* revisions saved and not yet marked pending
          realm,     \* what the provider holds, None without a realm
          ids,       \* internal client ids the provider has given out
          ledger,    \* what was recorded for the client, None when nothing was
          report,    \* the in-memory status entry
          pass,      \* what each pass is doing
          removed,   \* history: <<callback, revision>> removed by hand while declared
          placed,    \* history: callbacks whose registration is Fabric's
          written,   \* history: callbacks Fabric ever wrote
          touched,   \* history: a hand edit since a pass last began
          edits, faults

vars == <<desired, unmarked, realm, ids, ledger, report, pass, removed, placed, written, touched, edits, faults>>
history == <<removed, placed, written, touched>>
provider == <<realm, ids>>

---------------------------------------------------------------------------
(* What is written and what is observed                                    *)

NoHeld == [disabled |-> FALSE, flow |-> FALSE, removed |-> {}]

\* `redirect_uris_to_write`
RedirectUrisToWrite(uris, held) == uris \ held.removed

\* `declaration`: the client representation a create or an update sends.
Declaration(uris, held) ==
    [uris |-> RedirectUrisToWrite(uris, held), junk |-> 0, public |-> TRUE, pkce |-> "S256",
     audiences |-> <<Audience>>, mappers |-> 0, logout |-> "+",
     enabled |-> ~held.disabled, flow |-> ~held.flow]

\* `challenge_method`
ChallengeMethod(raw) == IF raw.pkce = "S256" THEN "S256" ELSE None

\* `protocol_mappers::read`: a doubled audience mapper is as good as none.
AudienceMapper(raw) == IF Len(raw.audiences) = 1 THEN raw.audiences[1] ELSE None

\* `clients::read`
Observed(raw) ==
    IF raw = None THEN None
    ELSE [uris |-> raw.uris, junk |-> raw.junk, public |-> raw.public,
          pkce |-> ChallengeMethod(raw), audience |-> AudienceMapper(raw), mappers |-> raw.mappers,
          logout |-> raw.logout = "+", enabled |-> raw.enabled, flow |-> raw.flow]

---------------------------------------------------------------------------
(* The ledger                                                              *)

WrittenCallbacks == [confirmed : SUBSET Callbacks, unconfirmed : SUBSET Callbacks]
NothingWritten == [confirmed |-> {}, unconfirmed |-> {}]

\* `AppliedBaseline::replay` of one more record
Replay(baseline, uris, stage) ==
    LET before == IF baseline = None THEN NothingWritten ELSE baseline
    IN  IF stage = "Writing" THEN [before EXCEPT !.unconfirmed = @ \cup uris]
        ELSE [confirmed |-> uris, unconfirmed |-> {}]

\* `declaration_ledger::for_operator`: what a pass is given to read.
LedgerFor == IF Ledger THEN ledger ELSE None

\* `must_record`
MustRecord(baseline, uris) ==
    \/ baseline = None
    \/ baseline.unconfirmed # {}
    \/ baseline.confirmed # uris

---------------------------------------------------------------------------
(* The plan                                                                *)

\* `classify::compare`
Compare(uris, existing, baseline) ==
    LET missing == uris \ existing.uris
        confirmed == IF baseline = None THEN {} ELSE missing \cap baseline.confirmed
        unknown == IF baseline = None THEN missing ELSE (missing \ confirmed) \cap baseline.unconfirmed
        drift == \/ ~existing.public
                 \/ existing.junk # 0
                 \/ existing.uris \ uris # {}
                 \/ missing \ (confirmed \cup unknown) # {}    \* not yet written
                 \/ existing.pkce # "S256"
                 \/ existing.audience # Audience
                 \/ existing.mappers # 0
                 \/ ~existing.logout
    IN  [drift |-> drift,
         held |-> [disabled |-> ~existing.enabled, flow |-> ~existing.flow, removed |-> confirmed],
         unconfirmed |-> unknown # {}]

HandEditedFields == {"ClientDisabled", "StandardFlowDisabled", "DeclaredRedirectUriRemoved", "RedirectUrisUnconfirmed"}

\* `HeldEdits::fields`
HeldFields(held) ==
    {f \in HandEditedFields :
        CASE f = "ClientDisabled" -> held.disabled
          [] f = "StandardFlowDisabled" -> held.flow
          [] f = "DeclaredRedirectUriRemoved" -> held.removed # {}
          [] OTHER -> FALSE}

\* `plan` for the declared client: the write a policy makes of the comparison, if any.
ClientActions(policy, comparison) ==
    LET write == IF policy = "Hold" THEN comparison.drift /\ ~comparison.unconfirmed
                 ELSE comparison.drift \/ comparison.unconfirmed \/ comparison.held # NoHeld
        held == IF policy = "Hold" THEN comparison.held ELSE NoHeld
    IN  IF write THEN <<[kind |-> "update", held |-> held]>> ELSE <<>>

\* `withhold::split`: a stored projection that is not its projection is left out of the pass.
Withheld(declared) == ~declared.trusted

Action(kind) == <<[kind |-> kind, held |-> NoHeld]>>

\* `plan`: the hand edits a comparison found
FoundEdits(declared, client, comparison) ==
    IF Withheld(declared) \/ client = None THEN {}
    ELSE HeldFields(comparison.held) \cup (IF comparison.unconfirmed THEN {"RedirectUrisUnconfirmed"} ELSE {})

\* `plan`: realm, then roles, then clients; a withheld client is no longer declared.
PlanOf(policy, declared, observed, baseline) ==
    LET client == IF observed = None THEN None ELSE observed.client
        comparison == Compare(declared.uris, client, baseline)
    IN  [actions |->
            (CASE observed = None -> Action("realm")
               [] observed # None -> IF observed.name # declared.name THEN Action("name") ELSE <<>>)
            \o (IF observed = None \/ (observed # None /\ ~observed.role) THEN Action("role") ELSE <<>>)
            \o (IF Withheld(declared) THEN <<>>
                ELSE IF client = None THEN Action("create")
                ELSE ClientActions(policy, comparison)),
         found |-> FoundEdits(declared, client, comparison)]

---------------------------------------------------------------------------
(* Initial states and desired state                                        *)

Idle == [pc |-> "idle", policy |-> None, declared |-> None, baseline |-> None, observed |-> None,
         plan |-> <<>>, found |-> {}, step |-> 0, id |-> 0, removed |-> {},
         put |-> FALSE, late |-> FALSE, status |-> None]

Doc == [revision : 1..MaxDeclares + 1, uris : SUBSET Callbacks \ {{}}, name : Names, trusted : BOOLEAN]

Init ==
    /\ desired \in {d \in Doc : d.revision = 1 /\ d.trusted}
    /\ \E s \in Starts :
         IF s = "empty"
         THEN /\ realm = None /\ ids = 0 /\ ledger = None /\ placed = {} /\ written = {}
         ELSE /\ realm = [name |-> desired.name, role |-> TRUE,
                          client |-> [id |-> 1, body |-> Declaration(desired.uris, NoHeld)]]
              /\ ids = 1 /\ placed = desired.uris /\ written = desired.uris
              /\ ledger = IF Ledger THEN [confirmed |-> desired.uris, unconfirmed |-> {}] ELSE None
    /\ unmarked = {} /\ report = None
    /\ pass = [p \in Passes |-> Idle]
    /\ removed = {} /\ touched = FALSE
    /\ edits = 0 /\ faults = 0

\* `set_identity`, `set_product` and the lifecycle writes: the document is stored...
Declare(uris, name, trusted) ==
    /\ desired.revision <= MaxDeclares
    /\ desired' = [revision |-> desired.revision + 1, uris |-> uris, name |-> name, trusted |-> trusted]
    /\ unmarked' = unmarked \cup {desired.revision + 1}
    /\ removed' = removed \cup
           {<<e[1], desired.revision + 1>> : e \in {x \in removed : x[2] = desired.revision /\ x[1] \in uris}}
    /\ UNCHANGED <<provider, ledger, report, pass, placed, written, touched, edits, faults>>

\* ...and then `mark_pending`, once the repository has answered.
MarkPending(r) ==
    /\ r \in unmarked
    /\ unmarked' = unmarked \ {r}
    /\ report' = [status |-> "Pending", revision |-> r]
    /\ UNCHANGED <<desired, provider, ledger, pass, history, edits, faults>>

---------------------------------------------------------------------------
(* Hand edits                                                              *)

Client == realm.client
HasClient == realm # None /\ (realm # None => realm.client # None)

\* The realm becomes r; what is registered again is no longer missing by hand.
Holds(r) ==
    /\ realm' = r
    /\ removed' = IF r = None \/ (r # None /\ r.client = None) THEN {}
                  ELSE {e \in removed : e[1] \notin r.client.body.uris}

Hand(body) == realm' = [realm EXCEPT !.client.body = body]

EditsClient(kind) ==
    LET body == Client.body IN
    CASE kind = "disable" -> Hand([body EXCEPT !.enabled = FALSE]) /\ UNCHANGED <<removed, placed>>
      [] kind = "flow"    -> Hand([body EXCEPT !.flow = FALSE]) /\ UNCHANGED <<removed, placed>>
      [] kind = "public"  -> Hand([body EXCEPT !.public = FALSE]) /\ UNCHANGED <<removed, placed>>
      [] kind = "junk"    -> Hand([body EXCEPT !.junk = 1]) /\ UNCHANGED <<removed, placed>>
      [] kind = "pkce"    -> Hand([body EXCEPT !.pkce = "plain"]) /\ UNCHANGED <<removed, placed>>
      [] kind = "doubled" -> Hand([body EXCEPT !.audiences = @ \o @]) /\ UNCHANGED <<removed, placed>>
      [] kind = "mapper"  -> Hand([body EXCEPT !.mappers = 1]) /\ UNCHANGED <<removed, placed>>
      [] kind = "logout"  -> Hand([body EXCEPT !.logout = "-"]) /\ UNCHANGED <<removed, placed>>
      [] kind = "remove"  ->
           \E c \in body.uris :
             /\ Hand([body EXCEPT !.uris = @ \ {c}])
             /\ placed' = placed \ {c}
             /\ removed' = removed \cup (IF c \in placed \cap desired.uris THEN {<<c, desired.revision>>} ELSE {})
      [] kind = "add"     ->
           \E c \in Callbacks \ body.uris :
             /\ Holds([realm EXCEPT !.client.body.uris = @ \cup {c}])
             /\ UNCHANGED placed
      [] kind = "delete"  -> Holds([realm EXCEPT !.client = None]) /\ placed' = {}

\* An operator works in the provider's own console.
HandEdit(kind) ==
    /\ edits < MaxEdits /\ kind \in Edits /\ realm # None
    /\ edits' = edits + 1 /\ touched' = TRUE
    /\ CASE kind = "rename" -> \E n \in Names : realm' = [realm EXCEPT !.name = n] /\ UNCHANGED <<ids, removed, placed>>
         [] kind = "create" -> /\ Client = None
                               /\ ids' = ids + 1
                               /\ \E uris \in SUBSET Callbacks :
                                    Holds([realm EXCEPT !.client = [id |-> ids + 1, body |-> Declaration(uris, NoHeld)]])
                               /\ UNCHANGED placed
         [] OTHER -> HasClient /\ EditsClient(kind) /\ UNCHANGED ids
    /\ UNCHANGED <<desired, unmarked, ledger, report, pass, written, faults>>

---------------------------------------------------------------------------
(* A pass                                                                  *)

At(p, pc) == pass[p].pc = pc
SetPass(p, rec) == pass' = [pass EXCEPT ![p] = rec]

Begin(p, policy) ==
    /\ At(p, "idle")
    /\ SetPass(p, [Idle EXCEPT !.pc = "baseline", !.policy = policy, !.declared = desired])
    /\ touched' = FALSE
    /\ UNCHANGED <<desired, unmarked, provider, ledger, report, removed, placed, written, edits, faults>>

\* `reconcile::run` for the client, and `in_background` after a save: the document as listed.
Sweep(p) == Begin(p, "Hold")

\* `converge::reassert`: at the revision the operator saw, and only for its own projection.
Reassert(p) == desired.trusted /\ Begin(p, "Overwrite")

\* `baseline`: a ledger that cannot be read knows nothing.
ReadBaseline(p) ==
    /\ At(p, "baseline")
    /\ \/ /\ SetPass(p, [pass[p] EXCEPT !.pc = "realm", !.baseline = LedgerFor])
          /\ UNCHANGED faults
       \/ /\ Ledger /\ faults < MaxFaults /\ faults' = faults + 1
          /\ SetPass(p, [pass[p] EXCEPT !.pc = "realm"])
    /\ UNCHANGED <<desired, unmarked, provider, ledger, report, history, edits>>

Failing(p) == [pass[p] EXCEPT !.pc = "recording", !.status = "Failed"]

\* The bracket of each action: `recorded` appends `Writing` before a client write.
Enter(p, rec) ==
    LET action == rec.plan[rec.step]
        writes == action.kind \in {"create", "update"}
    IN  [rec EXCEPT !.pc = IF Ledger /\ writes /\ MustRecord(rec.baseline, rec.declared.uris)
                           THEN "writing" ELSE "calling"]

\* `run` once the plan is made: nothing to do, or the first action.
Planned(p, observed) ==
    LET plan == PlanOf(pass[p].policy, pass[p].declared, observed, pass[p].baseline)
        rec == [pass[p] EXCEPT !.observed = observed, !.plan = plan.actions, !.found = plan.found,
                               !.removed = {e[1] : e \in {x \in removed : x[2] = pass[p].declared.revision}}]
    IN  IF Audience = None THEN Failing(p)
        ELSE IF plan.actions = <<>> THEN [rec EXCEPT !.pc = "recording", !.status = "Applied"]
        ELSE Enter(p, [rec EXCEPT !.step = 1])

\* `observe::realm`: a realm that is not there is an answer.
ReadRealm(p) ==
    /\ At(p, "realm")
    /\ SetPass(p, IF realm = None THEN Planned(p, None)
                  ELSE [pass[p] EXCEPT !.pc = "roles", !.observed = [name |-> realm.name, role |-> FALSE, client |-> None]])
    /\ UNCHANGED <<desired, unmarked, provider, ledger, report, history, edits, faults>>

\* `roles`: the realm may be gone by now, which is a refusal.
ReadRoles(p) ==
    /\ At(p, "roles")
    /\ SetPass(p, IF realm = None THEN Failing(p)
                  ELSE [pass[p] EXCEPT !.pc = "clients", !.observed.role = realm.role])
    /\ UNCHANGED <<desired, unmarked, provider, ledger, report, history, edits, faults>>

ReadClients(p) ==
    /\ At(p, "clients")
    /\ SetPass(p, IF realm = None THEN Failing(p)
                  ELSE Planned(p, [pass[p].observed EXCEPT
                                     !.client = IF Client = None THEN None ELSE Observed(Client.body)]))
    /\ UNCHANGED <<desired, unmarked, provider, ledger, report, history, edits, faults>>

\* A read that was refused, timed out, could not be decoded, or filled its page.
ReadFails(p) ==
    /\ pass[p].pc \in {"realm", "roles", "clients", "lookup"} /\ faults < MaxFaults
    /\ faults' = faults + 1
    /\ SetPass(p, Failing(p))
    /\ UNCHANGED <<desired, unmarked, provider, ledger, report, history, edits>>

---------------------------------------------------------------------------
(* Applying the plan                                                       *)

Current(p) == pass[p].plan[pass[p].step]

\* The next action, or the end of the plan.
Advance(p, rec) ==
    IF rec.step < Len(rec.plan) THEN Enter(p, [rec EXCEPT !.step = @ + 1])
    ELSE [rec EXCEPT !.pc = "recording", !.status = "Applied"]

\* Whether the bracket was opened for this action.
Recorded(p) == Ledger /\ Current(p).kind \in {"create", "update"}
                      /\ MustRecord(pass[p].baseline, pass[p].declared.uris)

\* Once the provider has answered.
Answered(p, rec) == IF Recorded(p) THEN [rec EXCEPT !.pc = "written"] ELSE Advance(p, rec)

\* Mutant: the write is recorded as confirmed before it is made.
RecordWritingAsWritten(p) ==
    /\ At(p, "writing")
    /\ SetPass(p, [pass[p] EXCEPT !.pc = "calling"])
    /\ ledger' = Replay(ledger, pass[p].declared.uris, "Written")
    /\ UNCHANGED <<desired, unmarked, provider, report, history, edits, faults>>

\* `WriteStage::Writing`; a write that could not be announced is not made.
RecordWriting(p) ==
    /\ At(p, "writing")
    /\ \/ /\ ledger' = Replay(ledger, pass[p].declared.uris, "Writing")
          /\ SetPass(p, [pass[p] EXCEPT !.pc = "calling"])
          /\ UNCHANGED faults
       \/ /\ faults < MaxFaults /\ faults' = faults + 1
          /\ SetPass(p, Failing(p))
          /\ UNCHANGED ledger
    /\ UNCHANGED <<desired, unmarked, provider, report, history, edits>>

\* `WriteStage::Written`; when this fails the write stands, unrecorded.
RecordWritten(p) ==
    /\ At(p, "written")
    /\ \/ /\ ledger' = Replay(ledger, pass[p].declared.uris, "Written")
          /\ SetPass(p, Advance(p, pass[p]))
          /\ UNCHANGED faults
       \/ /\ faults < MaxFaults /\ faults' = faults + 1
          /\ SetPass(p, [Failing(p) EXCEPT !.late = TRUE])
          /\ UNCHANGED ledger
    /\ UNCHANGED <<desired, unmarked, provider, report, history, edits>>

\* The request takes effect: its answer arrives, or is lost.
TakesEffect(p, rec) ==
    \/ SetPass(p, Answered(p, rec)) /\ UNCHANGED faults
    \/ /\ faults < MaxFaults /\ faults' = faults + 1
       /\ SetPass(p, [Failing(p) EXCEPT !.put = rec.put])

\* The request is answered with nothing done: there already, or refused.
AnsweredAsIs(p) == /\ SetPass(p, Answered(p, pass[p]))
                   /\ UNCHANGED <<provider, removed, placed, written, faults>>
Refused(p) == SetPass(p, Failing(p)) /\ UNCHANGED <<provider, removed, placed, written, faults>>

Others(p) == UNCHANGED <<desired, unmarked, ledger, report, touched, edits>>

\* `create_realm`: a conflict is an answer.
CreateRealm(p) ==
    /\ At(p, "calling") /\ Current(p).kind = "realm"
    /\ IF realm # None THEN AnsweredAsIs(p)
       ELSE /\ Holds([name |-> pass[p].declared.name, role |-> FALSE, client |-> None])
            /\ TakesEffect(p, pass[p])
            /\ placed' = {} /\ UNCHANGED <<ids, written>>
    /\ Others(p)

\* `set_realm_display_name`
SetRealmDisplayName(p) ==
    /\ At(p, "calling") /\ Current(p).kind = "name"
    /\ IF realm = None THEN Refused(p)
       ELSE /\ realm' = [realm EXCEPT !.name = pass[p].declared.name]
            /\ TakesEffect(p, pass[p])
            /\ UNCHANGED <<ids, removed, placed, written>>
    /\ Others(p)

\* `create_realm_role`
CreateRealmRole(p) ==
    /\ At(p, "calling") /\ Current(p).kind = "role"
    /\ IF realm = None THEN Refused(p)
       ELSE IF realm.role THEN AnsweredAsIs(p)
       ELSE /\ realm' = [realm EXCEPT !.role = TRUE]
            /\ TakesEffect(p, pass[p])
            /\ UNCHANGED <<ids, removed, placed, written>>
    /\ Others(p)

\* The client becomes what p declares, with what it holds left out.
Registers(p, id, held) ==
    LET body == Declaration(pass[p].declared.uris, held) IN
    /\ Holds([realm EXCEPT !.client = [id |-> id, body |-> body]])
    /\ placed' = body.uris
    /\ written' = written \cup body.uris

\* `create_oidc_client`, also of an update whose client was gone.
CreateOidcClient(p) ==
    /\ \/ At(p, "calling") /\ Current(p).kind = "create"
       \/ At(p, "creating")
    /\ IF realm = None THEN Refused(p)
       ELSE IF Client # None THEN AnsweredAsIs(p)
       ELSE /\ ids' = ids + 1
            /\ Registers(p, ids + 1, NoHeld)
            /\ TakesEffect(p, pass[p])
    /\ Others(p)

\* `internal_id`: an update first looks the client up.
LookUp(p) ==
    /\ At(p, "calling") /\ Current(p).kind = "update"
    /\ SetPass(p, [pass[p] EXCEPT !.pc = "lookup"])
    /\ UNCHANGED <<desired, unmarked, provider, ledger, report, history, edits, faults>>

Found(p) ==
    /\ At(p, "lookup")
    /\ SetPass(p, IF realm = None THEN Failing(p)
                  ELSE IF Client = None THEN [pass[p] EXCEPT !.pc = "creating"]
                  ELSE [pass[p] EXCEPT !.pc = "putting", !.id = Client.id])
    /\ UNCHANGED <<desired, unmarked, provider, ledger, report, history, edits, faults>>

\* `update_oidc_client`: the whole representation, to the internal id found.
UpdateOidcClient(p) ==
    /\ At(p, "putting")
    /\ IF HasClient /\ (HasClient => Client.id = pass[p].id)
       THEN /\ Registers(p, Client.id, Current(p).held)
            /\ TakesEffect(p, [pass[p] EXCEPT !.put = TRUE])
            /\ UNCHANGED ids
       ELSE Refused(p)
    /\ Others(p)

\* A write refused, or lost before it took effect.
WriteFails(p) ==
    /\ pass[p].pc \in {"calling", "creating", "putting"} /\ faults < MaxFaults
    /\ faults' = faults + 1
    /\ SetPass(p, Failing(p))
    /\ UNCHANGED <<desired, unmarked, provider, ledger, report, history, edits>>

---------------------------------------------------------------------------
(* The outcome and the report                                              *)

\* `Interrupted::completed`; all of the plan when nothing interrupted it.
Completed(q) ==
    IF q.status # "Failed" THEN Len(q.plan)
    ELSE IF q.late THEN q.step
    ELSE IF q.step = 0 THEN 0 ELSE q.step - 1

\* `overwrites_after`: the edits a re-assertion undid, and those it may have undone.
Overwrites(q, steps) ==
    IF q.policy = "Overwrite" /\ \E i \in steps \cap 1..Len(q.plan) : q.plan[i].kind = "update"
    THEN q.found ELSE {}
Overwritten(q) == Overwrites(q, 1..Completed(q))
Unconfirmed(q) == IF q.status # "Failed" \/ q.late THEN {} ELSE Overwrites(q, {Completed(q) + 1})

HandEdits(q) == IF q.policy = "Hold" /\ q.status # "Failed" THEN q.found ELSE {}

Statuses == {"Pending", "Applied", "Failed", "Drifted", "HandEdited", "Withheld"}
Reports == [status : Statuses, revision : 1..MaxDeclares + 1]

\* `status_for`
StatusFor(previous, q) ==
    CASE q.status = "Failed" -> "Failed"
      [] q.status # "Failed" /\ Withheld(q.declared) -> "Withheld"
      [] q.status # "Failed" /\ ~Withheld(q.declared) /\ HandEdits(q) # {} -> "HandEdited"
      [] OTHER ->
           IF /\ Completed(q) > 0 /\ previous # None
              /\ previous # None => /\ previous.status \in {"Applied", "HandEdited", "Withheld"}
                                    /\ previous.revision = q.declared.revision
           THEN "Drifted" ELSE "Applied"

\* `statuses.record`, and the audit of a re-assertion
Record(p) ==
    /\ At(p, "recording")
    /\ report' = [status |-> StatusFor(report, pass[p]), revision |-> pass[p].declared.revision]
    /\ SetPass(p, Idle)
    /\ UNCHANGED <<desired, unmarked, provider, ledger, history, edits, faults>>

\* The process ends: passes stop where they are and the reports are gone.
Restart ==
    /\ faults < MaxFaults /\ faults' = faults + 1
    /\ pass' = [p \in Passes |-> Idle]
    /\ report' = None /\ unmarked' = {}
    /\ UNCHANGED <<desired, provider, ledger, history, edits>>

PassStep(p) ==
    \/ ReadBaseline(p) \/ ReadRealm(p) \/ ReadRoles(p) \/ ReadClients(p) \/ ReadFails(p)
    \/ RecordWriting(p) \/ RecordWritten(p)
    \/ CreateRealm(p) \/ SetRealmDisplayName(p) \/ CreateRealmRole(p) \/ CreateOidcClient(p)
    \/ LookUp(p) \/ Found(p) \/ UpdateOidcClient(p) \/ WriteFails(p)
    \/ Record(p)

Next ==
    \/ \E uris \in SUBSET Callbacks \ {{}}, name \in Names, trusted \in BOOLEAN : Declare(uris, name, trusted)
    \/ \E r \in unmarked : MarkPending(r)
    \/ \E kind \in Edits : HandEdit(kind)
    \/ \E p \in Passes : Sweep(p) \/ Reassert(p) \/ PassStep(p)
    \/ Restart

Spec == Init /\ [][Next]_vars

---------------------------------------------------------------------------
(* Properties                                                              *)

\* `reconciliation_view::resolve`: a report of another revision says nothing of this one.
View == IF report = None THEN "Pending"
        ELSE IF report.revision = desired.revision THEN report.status ELSE "Pending"

Matches ==
    /\ HasClient
    /\ HasClient => /\ realm.name = desired.name /\ realm.role
                    /\ Client.body = Declaration(desired.uris, NoHeld)

\* Types; a status is only ever one the report knows, and of a revision there was.
TypeOK ==
    /\ desired \in Doc
    /\ unmarked \subseteq 1..desired.revision
    /\ realm # None => realm.name \in Names /\ realm.role \in BOOLEAN
    /\ HasClient => Client.id \in 1..ids /\ Client.body.uris \subseteq Callbacks
    /\ ledger \in WrittenCallbacks \cup {None}
    /\ report # None => report \in Reports /\ report.revision <= desired.revision
    /\ \A p \in Passes :
         /\ pass[p].step \in 0..Len(pass[p].plan)
         /\ pass[p].found # {} => pass[p].declared.trusted
         /\ pass[p].removed \subseteq Callbacks

Puts(p) == At(p, "putting") /\ pass'[p].pc # "putting" /\ pass'[p].put

\* `plan::classify`: a pass that was not told to overwrite never undoes an edit it saw.
HandEditsHeld ==
    \A p \in Passes : Puts(p) /\ pass[p].policy = "Hold" =>
       LET saw == pass[p].observed.client
           now == realm'.client.body
       IN  /\ now.enabled => saw.enabled
           /\ now.flow => saw.flow
           /\ now.uris \cap pass[p].removed = {}

\* `ledger`: no pass takes a client's last callback, unless an operator had removed all it declares.
NotStranded ==
    \A p \in Passes : Puts(p) /\ pass[p].policy = "Hold" /\ realm'.client.body.uris = {}
       => pass[p].declared.uris \subseteq pass[p].removed

\* `ledger`: what is confirmed as written was written; a failure is never a false baseline.
ConfirmedWasWritten == ledger # None => ledger.confirmed \subseteq written

\* `ReconciliationStatus::Applied`: with no pass under way and no edit since, the provider matches.
AppliedIsConverged ==
    (\A p \in Passes : At(p, "idle")) /\ ~touched /\ View = "Applied" => Matches

\* `overwrites_after`: a re-assertion that undid edits accounts for them, as undone or as maybe undone.
OverwritesReported ==
    \A p \in Passes : At(p, "recording") /\ pass[p].policy = "Overwrite" /\ pass[p].put /\ pass[p].found # {}
        => Overwritten(pass[p]) \cup Unconfirmed(pass[p]) = pass[p].found

===========================================================================
