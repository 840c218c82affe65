------------------------ MODULE RegistryConnections ------------------------
(***************************************************************************)
(* The registries operators connect (fabric-control-plane registries).  A  *)
(* change writes up to three places: a credential in the secret store, the *)
(* record set, and the live client Platform Management reads through.  It  *)
(* runs in a task of its own, one at a time (`order`), and is audited once *)
(* its turn is over.  The process may die between any two of its writes;   *)
(* a restart rebuilds the live clients from the record set.  The stores    *)
(* are reached over HTTP: a write may land although its answer is lost; it *)
(* is taken to land before the next one, or never.                         *)
(*                                                                         *)
(* Abstractions: a token is named by the id it is stored under, since a    *)
(* token is only ever written under a fresh id; a repository's proof time  *)
(* is the credential it was proven with; an outcome is its stable code.    *)
(***************************************************************************)
EXTENDS Naturals, FiniteSets

CONSTANTS Hosts,          \* registries an operator may name
          Repositories,   \* repositories, each on the host HostOf names
          HostOf,
          Endpoints,      \* origins a registry may be recorded at
          Hosted,         \* host -> the endpoint its kind fixes, or None
          DeploymentHost, \* the registry the deployment itself reads from
          SecretIds,      \* ids `mint` may return
          None,
          Earlier,        \* record sets an earlier process may have left
          MaxChanges,     \* bound: changes asked for
          MaxFaults       \* bound: crashes and secrets lost outside Fabric

\* The repositories recorded, each with the credential it was proven with.
Provings == UNION {[R -> SecretIds \cup {None}] : R \in SUBSET Repositories}

Records == [endpoint : Endpoints, secret : SecretIds, credential : BOOLEAN,
            proven : Provings]

Clients == [credential : SecretIds \cup {None}, endpoint : Endpoints,
            repositories : SUBSET Repositories, unreadable : BOOLEAN]

RepositoryNames(record) == DOMAIN record.proven

\* The record sets saved by turns that went as the properties below say: an id names
\* one record's credential, a repository is recorded on its own host, and was proven
\* with the credential of its registry.
RecordSets ==
    {s \in [Hosts -> Records \cup {None}] :
        \A h \in Hosts : s[h] # None =>
            /\ \A g \in Hosts \ {h} : s[g] # None => s[g].secret # s[h].secret
            /\ \A r \in RepositoryNames(s[h]) :
                  HostOf[r] = h /\ (s[h].credential => s[h].proven[r] = s[h].secret)}

\* A registration: a kind, with the endpoint its kind fixes or the one given,
\* and a credential or none.
RegisterRequests ==
    [op : {"register"}, host : Hosts, endpoint : Endpoints, token : BOOLEAN]

RemoveRequests == [op : {"remove"}, host : Hosts]

CredentialRequests == [op : {"set_credential", "remove_credential"}, host : Hosts]

\* The path names a registry and a repository, each read by itself.
RepositoryRequests ==
    [op : {"add_repository", "remove_repository"}, host : Hosts, repository : Repositories]

Requests == RegisterRequests \cup RemoveRequests \cup CredentialRequests \cup RepositoryRequests

\* The stable codes of refusals: of a store, and of `proving_registry`,
\* `proving_repository` and `readable`; of the rules, and of a client that cannot be built.
StoreErrors == {"registries_unavailable", "registries_invalid"}

ProofFailures == {"registry_not_proven", "registry_refused", "registry_unavailable",
                  "repository_not_readable"}

Refusals == {"registry_exists", "registry_endpoint_differs", "registry_not_found",
             "registry_credential_unreadable", "registry_invalid"}

Outcomes == {"succeeded"} \cup StoreErrors \cup ProofFailures \cup Refusals

\* A change in its turn: its step, the id it writes or presents, the one it forgets
\* once it is done, and what was there as it began.
Turns == [change : [request : Requests, number : 1..MaxChanges],
          step : {"prove", "put", "swap", "save", "forget"},
          credential : SecretIds \cup {None}, forget : SecretIds \cup {None},
          outcome : Outcomes,
          before : [record : Records \cup {None}, client : Clients \cup {None}]]

ConnectionsAssumption ==
    /\ HostOf \in [Repositories -> Hosts]
    /\ Hosted \in [Hosts -> Endpoints \cup {None}]
    /\ DeploymentHost \in Hosts
    /\ None \notin Hosts \cup Repositories \cup Endpoints \cup SecretIds
    /\ None \notin Records \cup Clients \cup Turns
    /\ MaxChanges \in Nat /\ MaxFaults \in Nat
    /\ Earlier \subseteq RecordSets

ASSUME ConnectionsAssumptions == ConnectionsAssumption

VARIABLES store,       \* host -> record, or None
          secrets,     \* ids with a token in the secret store
          live,        \* host -> the installed client, or None
          refused,     \* ids whose refusal mark is set, in this process
          deployment,  \* the deployment registry's endpoint, in this process
          waiting,     \* changes whose task waits for its turn
          turn,        \* the change holding `order`, or None
          finished,    \* changes past their turn, not audited yet
          audit,       \* numbers of the changes audited
          asked,       \* changes asked for so far
          minted,      \* ids minted so far
          restore,     \* "starting", then "due" until one answered complete
          faults,
          unbuilt,     \* hosts whose client the last restore could not build
          left,        \* ids left unreferenced: logged, by a crash, or unanswered
          lost,        \* ids that disappeared from the secret store
          cut,         \* history: changes a crash took away
          denied,      \* history: ids a realm refused in this process
          known,       \* history: host -> the record its client was last made for
          unanswered   \* history: changes whose save landed and was not answered

connectionsVars == <<store, secrets, live, refused, deployment, waiting, turn, finished,
                     audit, asked, minted, restore, faults, unbuilt, left, lost, cut, denied,
                     known, unanswered>>

---------------------------------------------------------------------------
(* What a request may ask, and what a record says                          *)

\* `distribution`: a registry whose endpoint the registration names.
Distribution(h) == Hosted[h] = None

\* `resolve`: a kind's endpoint is fixed, and a host it owns is never a
\* distribution registry.
ResolvesTo(h, e) == Distribution(h) \/ Hosted[h] = e

\* A repository is registered under the registry its host names.
OnItsHost(h, r) == HostOf[r] = h

\* A request refused before it takes a turn.
Invalid(q) ==
    \/ q.op = "register" /\ ~ResolvesTo(q.host, q.endpoint)
    \/ q.op = "add_repository" /\ ~OnItsHost(q.host, q.repository)

\* A request that carries a token, which the rules may refuse before a turn too.
CarriesToken(q) == q.op = "set_credential" \/ (q.op = "register" /\ q.token)

\* `check_deployment`: the deployment's host is read only at its endpoint.
EndpointDiffers(h, e) == h = DeploymentHost /\ deployment # e

HoldsRepository(record, r) == r \in RepositoryNames(record)
Found(h) == store[h] # None

\* `RegistryRecord::connection`, connected: the client a record describes.
Connect(record, credential, repositories) ==
    [credential |-> credential, endpoint |-> record.endpoint,
     repositories |-> repositories, unreadable |-> FALSE]

\* `credential_of`: what the secret store answers for a record's credential.
CredentialOf(record) ==
    IF ~record.credential THEN {[code |-> "ok", id |-> None]}
    ELSE {[code |-> "registries_unavailable", id |-> None],
          IF record.secret \in secrets
          THEN [code |-> "ok", id |-> record.secret]
          ELSE [code |-> "registry_credential_unreadable", id |-> None]}

\* `marked`: a client built from a stored credential shares the mark its id
\* already has, so building one leaves every mark as it was.
Marked(id) == refused

\* The refusal of a change by what is recorded, or "ok".
Refusal(q) ==
    IF q.op = "register"
    THEN IF Found(q.host) THEN "registry_exists"
         ELSE IF EndpointDiffers(q.host, q.endpoint) THEN "registry_endpoint_differs" ELSE "ok"
    ELSE IF ~Found(q.host) THEN "registry_not_found"
    ELSE IF q.op = "remove_repository" /\ ~HoldsRepository(store[q.host], q.repository)
    THEN "registry_not_found"
    ELSE IF /\ q.op \in {"set_credential", "add_repository", "remove_repository"}
            /\ EndpointDiffers(q.host, store[q.host].endpoint)
    THEN "registry_endpoint_differs" ELSE "ok"

---------------------------------------------------------------------------
(* Turns                                                                   *)

\* The ids that name a credential some record holds.
Named == {store[h].secret : h \in {g \in Hosts : Found(g) /\ store[g].credential}}

ConnectionsInit ==
    /\ store \in Earlier
    /\ secrets = Named /\ minted = {store[h].secret : h \in {g \in Hosts : Found(g)}}
    /\ refused = {} /\ denied = {} /\ cut = {}
    /\ live = [h \in Hosts |-> None]
    /\ deployment \in Endpoints
    /\ waiting = {} /\ turn = None /\ finished = {}
    /\ audit = {} /\ asked = 0
    /\ restore = "starting" /\ faults = 0
    /\ unbuilt = {} /\ left = {} /\ lost = {}
    /\ known = store /\ unanswered = {}

\* What a turn reads through and what it saved, and the rest it leaves alone.
Saves == <<unbuilt, known, unanswered>>
Held == <<store, secrets, live, refused, deployment, minted, restore, faults, left, lost,
          cut, denied, Saves>>
Queue == <<deployment, waiting, audit, asked, restore, faults, lost, cut>>

\* A request the rules refuse is audited and never takes a turn.
Refused(n) ==
    /\ audit' = audit \cup {n}
    /\ UNCHANGED <<Held, waiting, turn, finished>>

\* `change`: the work goes to a task of its own, which the request awaits.
\* The request being cut off changes nothing here.
Ask ==
    /\ asked < MaxChanges /\ restore # "starting"
    /\ asked' = asked + 1
    /\ \E q \in Requests :
        \/ (Invalid(q) \/ CarriesToken(q)) /\ Refused(asked + 1)
        \/ /\ ~Invalid(q)
           /\ waiting' = waiting \cup {[request |-> q, number |-> asked + 1]}
           /\ UNCHANGED <<Held, turn, finished, audit>>

\* The turn ends: `order` is released, and the outcome is audited after.
Finish(c, outcome) ==
    /\ turn' = None
    /\ finished' = finished \cup {[number |-> c.number, request |-> c.request,
                                   outcome |-> outcome]}

Begin(c, step, credential) ==
    /\ turn' = [change |-> c, step |-> step, credential |-> credential, forget |-> None,
                outcome |-> "succeeded",
                before |-> [record |-> store[c.request.host], client |-> live[c.request.host]]]
    /\ UNCHANGED finished

\* Whether a change that what is recorded allows builds a client in the beginning.
MakesClient(q, record) ==
    \/ q.op \in {"register", "set_credential"}
    \/ q.op \in {"add_repository", "remove_repository"}
       /\ \E answer \in CredentialOf(record) : answer.code = "ok"
    \/ q.op = "remove_credential" /\ record.credential /\ ~EndpointDiffers(q.host, record.endpoint)

\* The change takes its turn: the record set is loaded and the request
\* checked against it.
Take(c) ==
    LET q == c.request  record == store[q.host] IN
    /\ turn = None /\ restore # "starting"
    /\ waiting' = waiting \ {c}
    /\ \/ \E error \in StoreErrors : Finish(c, error) /\ UNCHANGED refused
       \/ Refusal(q) # "ok" /\ Finish(c, Refusal(q)) /\ UNCHANGED refused
       \/ Refusal(q) = "ok" /\ MakesClient(q, record) /\ Finish(c, "registry_invalid") /\ UNCHANGED refused
       \/ /\ Refusal(q) = "ok" /\ q.op \in {"register", "set_credential"}
          /\ Begin(c, "prove", None) /\ UNCHANGED refused
       \/ /\ Refusal(q) = "ok" /\ q.op \in {"add_repository", "remove_repository"}
          /\ \E answer \in CredentialOf(record) :
                IF answer.code # "ok" THEN Finish(c, answer.code) /\ UNCHANGED refused
                ELSE /\ Begin(c, IF q.op = "add_repository" THEN "prove" ELSE "save", answer.id)
                     /\ refused' = Marked(answer.id)
       \/ /\ Refusal(q) = "ok" /\ q.op = "remove_credential" /\ ~record.credential
          /\ Finish(c, "succeeded") /\ UNCHANGED refused
       \/ /\ Refusal(q) = "ok" /\ q.op \in {"remove", "remove_credential"}
          /\ q.op = "remove_credential" => record.credential
          /\ Begin(c, "swap", None) /\ UNCHANGED refused
    /\ UNCHANGED <<store, secrets, live, deployment, audit, asked, minted, restore, faults,
                   left, lost, cut, denied, Saves>>

\* The registry, or a repository, did not prove.  A stored credential whose
\* realm refuses it is marked, unless its mark already kept it back.
FailProof ==
    /\ turn # None /\ turn.step = "prove"
    /\ \E code \in ProofFailures :
        /\ turn.credential \in refused => code = "registry_refused"
        /\ Finish(turn.change, code)
        /\ IF code = "registry_refused" /\ turn.credential # None
           THEN /\ refused' = refused \cup {turn.credential}
                /\ denied' = denied \cup {turn.credential}
           ELSE UNCHANGED <<refused, denied>>
    /\ UNCHANGED <<Queue, Saves, store, secrets, live, minted, left>>

\* Proven: a registration and a credential mint the id that will name it.
Prove ==
    /\ turn # None /\ turn.step = "prove" /\ turn.credential \notin refused
    /\ LET q == turn.change.request IN
       IF q.op = "add_repository" THEN turn' = [turn EXCEPT !.step = "save"] /\ UNCHANGED minted
       ELSE \E id \in SecretIds \ minted :
            /\ minted' = minted \cup {id}
            /\ turn' = [turn EXCEPT !.credential = id,
                            !.step = IF q.op = "register" /\ ~q.token THEN "save" ELSE "put"]
    /\ UNCHANGED <<Queue, Saves, store, secrets, live, refused, left, denied, finished>>

\* The system's randomness may be unavailable.
FailMint ==
    /\ turn # None /\ turn.step = "prove" /\ turn.change.request.op # "add_repository"
    /\ Finish(turn.change, "registry_unavailable")
    /\ UNCHANGED <<Queue, Saves, store, secrets, live, refused, minted, left, denied>>

\* `secrets.put`: the credential before the record that names it.
PutSecret ==
    /\ turn # None /\ turn.step = "put"
    /\ \/ /\ secrets' = secrets \cup {turn.credential}
          /\ turn' = [turn EXCEPT !.step = "save"]
          /\ UNCHANGED <<finished, left>>
       \/ /\ Finish(turn.change, "registries_unavailable")
          /\ \E written \in {{}, {turn.credential}} :
                secrets' = secrets \cup written /\ left' = left \cup written
    /\ UNCHANGED <<Queue, Saves, store, live, refused, minted, denied>>

\* What a withdrawal or a removal reads through, before it is recorded.
SwappedIn(q, record) ==
    IF q.op = "remove" \/ EndpointDiffers(q.host, record.endpoint) THEN None
    ELSE Connect(record, None, RepositoryNames(record))

\* Withdrawing and removing stop reading before they record it.
SwapFirst ==
    LET q == turn.change.request IN
    /\ turn # None /\ turn.step = "swap"
    /\ live' = [live EXCEPT ![q.host] = SwappedIn(q, turn.before.record)]
    /\ turn' = [turn EXCEPT !.step = "save"]
    /\ UNCHANGED <<Queue, Saves, store, secrets, refused, minted, left, denied, finished>>

Registered(q, id) ==
    [endpoint |-> q.endpoint, secret |-> id, credential |-> q.token,
     proven |-> [r \in {} |-> None]]

\* A replacement is recorded once every repository proved with it.
CredentialSet(record, id) ==
    [record EXCEPT !.secret = id, !.credential = TRUE,
                   !.proven = [r \in RepositoryNames(record) |-> id]]

Withdrawn(record) == [record EXCEPT !.credential = FALSE]

RepositoryAdded(record, r, id) ==
    [record EXCEPT !.proven = [p \in RepositoryNames(record) \cup {r} |->
                                  IF p = r THEN id ELSE record.proven[p]]]

RepositoryRemoved(record, r) ==
    [record EXCEPT !.proven = [kept \in RepositoryNames(record) \ {r} |-> @[kept]]]

\* The record a change saves; None removes it.
NewRecord(q, record, id) ==
    CASE q.op = "register" -> Registered(q, id)
      [] q.op = "set_credential" -> CredentialSet(record, id)
      [] q.op = "remove_credential" -> Withdrawn(record)
      [] q.op = "add_repository" -> RepositoryAdded(record, q.repository, id)
      [] q.op = "remove_repository" -> RepositoryRemoved(record, q.repository)
      [] q.op = "remove" -> None

\* The client installed once the record is saved.  Withdrawing and removing
\* installed theirs before.
NewClient(q, record, credential) ==
    IF q.op \in {"remove", "remove_credential"} THEN live[q.host]
    ELSE Connect(record, IF q.op = "register" /\ ~q.token THEN None ELSE credential,
                 RepositoryNames(record))

\* The credential a saved change leaves without a record naming it.
Superseded(q, record) ==
    IF q.op \in {"set_credential", "remove_credential", "remove"} /\ record.credential
    THEN record.secret ELSE None

\* The credential written for a record that could not be saved.
Unsaved(q, id) == IF CarriesToken(q) THEN id ELSE None

\* What follows the save: forgetting a credential, or the end of the turn.
Continue(id, outcome) ==
    IF id = None THEN Finish(turn.change, outcome)
    ELSE /\ turn' = [turn EXCEPT !.step = "forget", !.forget = id, !.outcome = outcome]
         /\ UNCHANGED finished

Saved ==
    LET q == turn.change.request  record == turn.before.record
        new == NewRecord(q, record, turn.credential) IN
    /\ turn # None /\ turn.step = "save"
    /\ store' = [store EXCEPT ![q.host] = new]
    /\ live' = [live EXCEPT ![q.host] = NewClient(q, new, turn.credential)]
    /\ known' = [known EXCEPT ![q.host] = new] /\ unbuilt' = unbuilt \ {q.host}
    /\ Continue(Superseded(q, record), "succeeded")
    /\ UNCHANGED <<Queue, secrets, refused, minted, left, denied, unanswered>>

\* What a save that answered an error left in the store: the record set as it was, or
\* the new one, written although the answer was lost.
NotRecorded(q, record) ==
    \/ UNCHANGED <<store, left, unanswered>>
    \/ /\ store' = [store EXCEPT ![q.host] = NewRecord(q, record, turn.credential)]
       /\ left' = left \cup ({Superseded(q, record)} \ {None})
       /\ unanswered' = unanswered \cup
              {[number |-> turn.change.number, host |-> q.host,
                credential |-> Unsaved(q, turn.credential)]}

\* Mutant: a failed save leaves the client that was swapped in.
NotSavedKeepsSwap ==
    LET q == turn.change.request IN
    /\ turn # None /\ turn.step = "save"
    /\ NotRecorded(q, turn.before.record)
    /\ Continue(Unsaved(q, turn.credential), "registries_unavailable")
    /\ UNCHANGED <<Queue, live, secrets, refused, minted, denied, known, unbuilt>>

\* The save failed: the client that was there is put back.
NotSaved ==
    LET q == turn.change.request IN
    /\ turn # None /\ turn.step = "save"
    /\ NotRecorded(q, turn.before.record)
    /\ live' = [live EXCEPT ![q.host] = turn.before.client]
    /\ Continue(Unsaved(q, turn.credential), "registries_unavailable")
    /\ UNCHANGED <<Queue, secrets, refused, minted, denied, known, unbuilt>>

\* `forget`: the mark, then the token; a token whose deletion answers an error is
\* logged as left behind, although it may be gone.
Forget ==
    /\ turn # None /\ turn.step = "forget"
    /\ refused' = refused \ {turn.forget}
    /\ \/ secrets' = secrets \ {turn.forget} /\ UNCHANGED left
       \/ /\ left' = left \cup {turn.forget}
          /\ \E deleted \in {{}, {turn.forget}} : secrets' = secrets \ deleted
    /\ Finish(turn.change, turn.outcome)
    /\ UNCHANGED <<Queue, Saves, store, live, minted, denied>>

\* `registry_changed` recorded.
Audit(f) ==
    /\ finished' = finished \ {f}
    /\ audit' = audit \cup {f.number}
    /\ UNCHANGED <<Held, waiting, turn, asked>>

---------------------------------------------------------------------------
(* Restoring, reading and what may happen to the process                   *)

\* `restored`: the client a record gives, from what the secret store answered.
Restored(h, answered) ==
    LET record == store[h]  readable == answered /\ record.secret \in secrets IN
    IF record = None THEN None
    ELSE IF EndpointDiffers(h, record.endpoint) THEN None
    ELSE [Connect(record, IF record.credential /\ readable THEN record.secret ELSE None,
                  RepositoryNames(record))
            EXCEPT !.unreadable = record.credential /\ ~readable]

\* Whether a record's credential is asked of the secret store at all.
AsksSecret(h) ==
    Found(h) /\ store[h].credential /\ ~EndpointDiffers(h, store[h].endpoint)

\* `restore`, and `restore_until_complete` after one that was not.  A client that
\* cannot be built is not read through, which is no reason to restore again.
RestoreWith(answered) ==
    /\ turn = None /\ restore # "complete"
    /\ unbuilt' \in SUBSET {h \in Hosts : Found(h) /\ ~EndpointDiffers(h, store[h].endpoint)}
    /\ live' = [h \in Hosts |-> IF h \in unbuilt' THEN None ELSE Restored(h, h \in answered)]
    /\ known' = store
    /\ refused' = Marked(None)
    /\ restore' = IF {h \in Hosts : AsksSecret(h)} \subseteq answered THEN "complete" ELSE "due"
    /\ UNCHANGED <<store, secrets, deployment, waiting, turn, finished, audit, asked, minted,
                   faults, left, lost, cut, denied, unanswered>>

RestoreUnread ==
    /\ turn = None /\ restore # "complete"
    /\ live' = [h \in Hosts |-> None] /\ unbuilt' = {}
    /\ restore' = "due"
    /\ UNCHANGED <<store, secrets, refused, deployment, waiting, turn, finished, audit, asked,
                   minted, faults, left, lost, cut, denied, known, unanswered>>

\* What a client does with its credential for a repository.
Presents(h, r) ==
    /\ live[h] # None /\ live[h].credential # None
    /\ r \in live[h].repositories /\ live[h].credential \notin refused

\* Discovery reads through an installed client and its realm refuses the
\* credential: the mark of the stored credential is set.
ReadRefused(h, r) ==
    /\ Presents(h, r)
    /\ refused' = refused \cup {live[h].credential}
    /\ denied' = denied \cup {live[h].credential}
    /\ UNCHANGED <<store, secrets, live, deployment, waiting, turn, finished, audit, asked,
                   minted, restore, faults, left, lost, cut, Saves>>

\* A token somebody removes from the secret store.
LoseSecret(id) ==
    /\ faults < MaxFaults /\ faults' = faults + 1
    /\ id \in secrets /\ secrets' = secrets \ {id} /\ lost' = lost \cup {id}
    /\ UNCHANGED <<store, live, refused, deployment, waiting, turn, finished, audit, asked,
                   minted, restore, left, cut, denied, Saves>>

\* The process dies and another starts, with the deployment's settings as
\* they then are.
Crash ==
    /\ faults < MaxFaults /\ faults' = faults + 1
    /\ live' = [h \in Hosts |-> None] /\ refused' = {} /\ denied' = {} /\ unbuilt' = {}
    /\ cut' = cut \cup {c.number : c \in waiting \cup finished}
                  \cup (IF turn = None THEN {} ELSE {turn.change.number})
    /\ left' = left \cup (secrets \ Named)
    /\ waiting' = {} /\ turn' = None /\ finished' = {} /\ restore' = "starting"
    /\ deployment' \in Endpoints
    /\ UNCHANGED <<store, secrets, audit, asked, minted, lost, known, unanswered>>

Step == FailProof \/ Prove \/ FailMint \/ PutSecret \/ SwapFirst \/ Saved \/ NotSaved \/ Forget

ConnectionsNext ==
    \/ Ask
    \/ \E c \in waiting : Take(c)
    \/ FailProof \/ Prove \/ FailMint \/ PutSecret \/ SwapFirst \/ Saved \/ NotSaved \/ Forget
    \/ \E f \in finished : Audit(f)
    \/ \E answered \in SUBSET Hosts : RestoreWith(answered)
    \/ RestoreUnread
    \/ \E r \in Repositories : ReadRefused(HostOf[r], r)
    \/ \E id \in SecretIds : LoseSecret(id)
    \/ Crash

ConnectionsSpec == ConnectionsInit /\ [][ConnectionsNext]_connectionsVars

\* The runtime runs every task; a store that answers at some time answers a
\* restore at some time.
FairConnections ==
    /\ ConnectionsSpec
    /\ WF_connectionsVars(Step)
    /\ SF_connectionsVars(\E c \in waiting : Take(c))
    /\ WF_connectionsVars(\E f \in finished : Audit(f))
    /\ SF_connectionsVars(\E answered \in SUBSET Hosts : RestoreWith(answered) /\ restore' = "complete")

---------------------------------------------------------------------------
(* What an operator is shown                                               *)

\* `Inner::listed`: the state of a registry's credential.
CredentialState(h) ==
    IF live[h] = None THEN "presented"
    ELSE IF live[h].unreadable THEN "unreadable"
    ELSE IF live[h].credential \in refused THEN "refused" ELSE "presented"

\* `read_by`: how an image is read from a registry.
ReadBy(recorded, registered, h) ==
    IF ~recorded \/ live[h] = None
    THEN IF h = DeploymentHost THEN "anonymous" ELSE "notRead"
    ELSE IF ~registered \/ ~store[h].credential THEN "anonymous"
    ELSE IF CredentialState(h) = "presented" THEN "credential"
    ELSE IF CredentialState(h) = "refused" THEN "credentialRefused" ELSE "anonymous"

\* `component_reads`: what is shown of one image's repository.
ImageRead(r) ==
    LET h == HostOf[r] IN
    ReadBy(Found(h), Found(h) /\ HoldsRepository(store[h], r), h)

\* `registered_for`: whether a component may be selected from a repository.
RegisteredFor(r) ==
    LET h == HostOf[r] IN
    /\ Found(h) /\ HoldsRepository(store[h], r)
    /\ ~EndpointDiffers(h, store[h].endpoint) /\ live[h] # None

\* `versions`: whether a repository's tags may be listed under a registry.
VersionsOf(h, r) ==
    /\ Found(h) /\ HoldsRepository(store[h], r)
    /\ ~EndpointDiffers(h, store[h].endpoint) /\ live[h] # None

---------------------------------------------------------------------------
(* Properties                                                              *)

\* Every variable holds a value of its kind.
TypeOK ==
    /\ store \in [Hosts -> Records \cup {None}]
    /\ secrets \subseteq minted /\ minted \subseteq SecretIds
    /\ live \in [Hosts -> Clients \cup {None}]
    /\ refused \subseteq minted /\ denied \subseteq minted
    /\ left \cup lost \subseteq SecretIds
    /\ deployment \in Endpoints
    /\ waiting \subseteq [request : Requests, number : 1..asked]
    /\ turn \in Turns \cup {None}
    /\ turn # None => turn.change.number \in 1..asked
    /\ finished \subseteq [request : Requests, number : 1..asked, outcome : Outcomes]
    /\ faults \in 0..MaxFaults /\ unbuilt \subseteq Hosts
    /\ known \in [Hosts -> Records \cup {None}]
    /\ unanswered \subseteq
          [number : 1..asked, host : Hosts, credential : SecretIds \cup {None}]
    /\ restore \in {"starting", "due", "complete"}
    /\ asked \in 0..MaxChanges /\ audit \cup cut \subseteq 1..asked

\* Tokens a record may name in vain: one somebody else removed, and one written for a
\* record whose save landed unanswered, which `forget` deleted as unreferenced.
Missing == lost \cup {u.credential : u \in unanswered}

\* A record that says it holds a credential names one that is in the secret store,
\* whatever step of whatever change fails or the process dies at.  Only a token somebody
\* else removed is missing, or one whose very record was saved without an answer: the
\* turn took that for a failure and deleted what the record names.
RecordedCredentialIsStored == Named \subseteq secrets \cup Missing

\* Between changes, once the restore is complete, a registry is read through exactly the
\* client of the record its last answered change or restore saw: its endpoint, its
\* repositories and its credential, or anonymously if that one is missing; nothing is read
\* through for a host with no record, at an endpoint not the deployment's, or where no
\* client could be built.  That record is the stored one unless a save of this very
\* registry landed unanswered.
LiveClientIsTheRecorded ==
    turn = None /\ restore = "complete" =>
        \A h \in Hosts :
         /\ known[h] # store[h] => \E u \in unanswered : u.host = h
         /\ IF known[h] = None THEN live[h] = None
            ELSE IF EndpointDiffers(h, known[h].endpoint) THEN live[h] = None
            ELSE LET record == known[h]
                     with(id) == Connect(record, id, RepositoryNames(record)) IN
                 \/ live[h] = with(IF record.credential THEN record.secret ELSE None)
                 \/ /\ record.credential /\ record.secret \in Missing
                    /\ live[h] = [with(None) EXCEPT !.unreadable = TRUE]
                 \/ h \in unbuilt /\ live[h] = None

\* A token no record names is the one a change is writing or forgetting, or was left
\* where the log, a crash, or a write that was not answered accounts for it.
NoTokenLeftUnaccounted ==
    secrets \ (Named \cup left) \subseteq
        IF turn = None THEN {} ELSE {turn.credential, turn.forget}

\* A credential its realm refused stays marked for every client that would
\* present it, however many clients are built from it afterwards.
RefusedIsNotPresentedAgain ==
    /\ \A h \in Hosts : live[h] # None /\ live[h].credential \in denied =>
            live[h].credential \in refused
    /\ turn # None /\ turn.step = "prove" /\ turn.credential \in denied =>
            turn.credential \in refused

\* Every repository under a registry with a credential was proven readable
\* with that very credential.
ProvenWithItsCredential ==
    \A h \in Hosts : Found(h) /\ store[h].credential =>
        \A r \in RepositoryNames(store[h]) : store[h].proven[r] = store[h].secret

\* Between changes, an image is shown as read with a credential exactly when the installed
\* client would present one for it, and a repository that may be selected from is one the
\* installed client reads; where a save landed unanswered, once its client was made again.
ShownAsRead ==
    turn = None =>
        \A r \in Repositories : known[HostOf[r]] = store[HostOf[r]] =>
            /\ (ImageRead(r) = "credential") <=> Presents(HostOf[r], r)
            /\ RegisteredFor(r) => r \in live[HostOf[r]].repositories
            /\ VersionsOf(HostOf[r], r) => r \in live[HostOf[r]].repositories
            /\ \A h \in Hosts : VersionsOf(h, r) => OnItsHost(h, r)

\* The record set, the secret store and the installed clients agree
\* (registries/service): the six above, in every state.  A save whose answer was lost
\* counts as made in the record set, and its credential as `Missing` once the change
\* that wrote it has forgotten it.
ConnectionsAgree ==
    /\ TypeOK /\ RecordedCredentialIsStored /\ LiveClientIsTheRecorded
    /\ NoTokenLeftUnaccounted /\ RefusedIsNotPresentedAgain /\ ProvenWithItsCredential
    /\ ShownAsRead

\* A change that ends in a refusal leaves its registry recorded and read through as it was
\* when its turn began; where its save landed unanswered, recorded with the whole change
\* and nothing else, and read through as it was.
FailureLeavesItAsItWas ==
    \A f \in finished' \ finished :
     turn # None /\ f.outcome # "succeeded" =>
         /\ live'[f.request.host] = turn.before.client
         /\ store'[f.request.host] =
               IF \E u \in unanswered' : u.number = f.number
               THEN NewRecord(turn.change.request, turn.before.record, turn.credential)
               ELSE turn.before.record

\* Every change asked for is audited in the end, a refused one too, unless
\* the process dies first.
EveryChangeIsAudited ==
    \A n \in 1..MaxChanges : n <= asked ~> n \in audit \cup cut

\* The clients of every record are restored in the end, however often the
\* stores did not answer.
RestoreCompletes == []<>(restore = "complete")
====
