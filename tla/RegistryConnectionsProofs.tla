----------------------- MODULE RegistryConnectionsProofs -----------------------
(***************************************************************************)
(* What RegistryConnections guarantees for every set of hosts,             *)
(* repositories, endpoints and ids, every record set an earlier process    *)
(* left, and any number of changes, crashes and lost tokens: the record    *)
(* set, the secret store and the installed clients agree, and a change     *)
(* that is refused leaves its registry as it was, or recorded as the       *)
(* change asked where its save landed without an answer.                   *)
(***************************************************************************)
EXTENDS RegistryConnections, TLAPS

--------------------------------------------------------------------------------
(* The inductive invariant.                                                *)

\* What is being changed, while a change has its turn.
Request == turn.change.request
Before == turn.before

\* Changes that mint an id, that present the recorded credential, and that stop reading
\* first.
Mints(q) == q.op \in {"register", "set_credential"}
Rereads(q) == q.op \in {"add_repository", "remove_repository"}
Stops(q) == q.op \in {"remove", "remove_credential"}

\* The one moment a host is read through something its record does not describe.
Swapping(h) == turn # None /\ turn.step = "save" /\ Stops(Request) /\ h = Request.host

\* A client is the one its record describes, with the record's credential or with
\* a credential that was not read.
Describes(h, record, client) ==
    client # None =>
        /\ record # None /\ ~EndpointDiffers(h, record.endpoint)
        /\ LET with(id) == Connect(record, id, RepositoryNames(record)) IN
           \/ client = with(IF record.credential THEN record.secret ELSE None)
           \/ record.credential /\ client = [with(None) EXCEPT !.unreadable = TRUE]

\* Every record has its client, unless none could be built, and one without its
\* credential misses it.
Complete(h, record, client) ==
    restore = "complete" /\ record # None /\ ~EndpointDiffers(h, record.endpoint) =>
        IF client = None THEN h \in unbuilt ELSE client.unreadable => record.secret \in Missing

Follows(h, record, client) == Describes(h, record, client) /\ Complete(h, record, client)

\* A change is past the point where its record was saved.
Done == turn.step = "forget" /\ turn.outcome = "succeeded"

ClientsFollow ==
    /\ \A h \in Hosts :
          IF Swapping(h) THEN live[h] = SwappedIn(Request, Before.record)
          ELSE Follows(h, known[h], live[h])
    /\ turn # None /\ ~Done => Follows(Request.host, known[Request.host], Before.client)

\* The one token a change owes the store: written and not recorded yet, or no longer
\* recorded.
Owed == IF turn = None THEN {}
        ELSE IF turn.step = "save" /\ CarriesToken(Request) THEN {turn.credential}
        ELSE IF turn.step = "forget" THEN {turn.forget} ELSE {}

\* The ids that name a credential of a record some client was made for.
Presentable == {known[h].secret : h \in {g \in Hosts : known[g] # None /\ known[g].credential}}

\* What clients were made for and what is stored name different ids at different hosts,
\* and are the same but where a save landed unanswered.
Apart ==
    /\ known \in RecordSets
    /\ \A h \in Hosts : known[h] # None => known[h].secret \in minted
    /\ \A g, h \in Hosts :
          g # h /\ known[g] # None /\ Found(h) => known[g].secret # store[h].secret
    /\ \A h \in Hosts : known[h] # store[h] => \E u \in unanswered : u.host = h

Stored ==
    /\ store \in RecordSets
    /\ \A h \in Hosts : Found(h) => store[h].secret \in minted
    /\ Named \subseteq secrets \cup Missing
    /\ secrets \subseteq Named \cup left \cup Owed
    /\ (Named \cup Presentable) \cap denied \subseteq refused

\* Whether the save of a change landed unanswered.
Landed(n) == \E u \in unanswered : u.number = n

\* Until it is saved, what a change found is still there; and after a failure too, or all
\* of it recorded where the save landed.
TurnKeeps ==
    turn # None =>
        /\ turn.step # "forget" => store[Request.host] = Before.record
        /\ ~Done /\ ~Swapping(Request.host) => live[Request.host] = Before.client
        /\ turn.step = "forget" /\ ~Done =>
              store[Request.host] =
                 IF Landed(turn.change.number)
                 THEN NewRecord(Request, Before.record, turn.credential) ELSE Before.record

\* A change takes only the steps of its kind, after what it was checked against.
TurnFits ==
    turn # None =>
        /\ restore # "starting"
        /\ turn.step = "prove" => ~Stops(Request) /\ Request.op # "remove_repository"
        /\ turn.step = "put" => CarriesToken(Request)
        /\ turn.step = "swap" => Stops(Request)
        /\ (Request.op = "register") <=> (Before.record = None)
        /\ Request.op = "register" => ~EndpointDiffers(Request.host, Request.endpoint)
        /\ Request.op = "set_credential" \/ Rereads(Request) =>
              ~EndpointDiffers(Request.host, Before.record.endpoint)
        /\ Request.op = "add_repository" => OnItsHost(Request.host, Request.repository)
        /\ Request.op = "remove_credential" => Before.record.credential

\* The id a change holds: none yet, a fresh one, or the recorded one; and the one it
\* forgets, which no client presents, nor any record unless its save landed unanswered.
TurnCredential ==
    turn # None =>
        /\ turn.credential \in minted \cup {None}
        /\ turn.step = "prove" /\ Mints(Request) => turn.credential = None
        /\ turn.step \in {"put", "save"} /\ Mints(Request) =>
              /\ turn.credential # None /\ turn.credential \notin denied
              /\ \A h \in Hosts : Found(h) => store[h].secret # turn.credential
              /\ \A h \in Hosts : known[h] # None => known[h].secret # turn.credential
        /\ turn.step = "save" /\ CarriesToken(Request) => turn.credential \in secrets \cup lost
        /\ Stops(Request) => turn.credential = None
        /\ Rereads(Request) =>
              turn.credential = IF Before.record.credential THEN Before.record.secret ELSE None
        /\ turn.step # "forget" => turn.credential \notin denied \ refused
        /\ turn.step = "forget" =>
              /\ turn.forget # None /\ turn.forget \notin Presentable
              /\ turn.forget \in Named => turn.forget \in Missing \ denied

\* A change that waits passed the checks made before its turn.
WaitingValid == \A c \in waiting : ~Invalid(c.request)

\* The save of a change that waits, or is under way, did not land yet.
NumbersApart ==
    /\ \A c, d \in waiting : c.number = d.number => c = d
    /\ \A c \in waiting : ~Landed(c.number) /\ (turn # None => c.number # turn.change.number)
    /\ turn # None /\ turn.step # "forget" => ~Landed(turn.change.number)

Inv == /\ TypeOK /\ Stored /\ Apart /\ ClientsFollow /\ TurnKeeps /\ TurnFits
       /\ TurnCredential /\ WaitingValid /\ NumbersApart

--------------------------------------------------------------------------------
(* What requests, records and clients are made of.                         *)

LEMMA Distinct ==
    /\ None \notin SecretIds /\ None \notin Records /\ None \notin Clients
    /\ None \notin Turns /\ HostOf \in [Repositories -> Hosts] /\ DeploymentHost \in Hosts
    /\ MaxChanges \in Nat /\ MaxFaults \in Nat
    /\ Earlier \subseteq RecordSets
    BY ConnectionsAssumptions DEF ConnectionsAssumption

\* A request names a host, and what its operation needs besides.
LEMMA RequestFacts ==
    ASSUME NEW q \in Requests
    PROVE  /\ q.host \in Hosts
           /\ q.op \in {"register", "remove", "set_credential", "remove_credential",
                         "add_repository", "remove_repository"}
           /\ q.op = "register" => q.endpoint \in Endpoints /\ q.token \in BOOLEAN
           /\ Rereads(q) => q.repository \in Repositories
    BY DEF Requests, RegisterRequests, RemoveRequests, CredentialRequests,
           RepositoryRequests, Rereads

\* A record's parts.
LEMMA RecordFacts ==
    ASSUME NEW record \in Records
    PROVE  /\ record.endpoint \in Endpoints /\ record.secret \in SecretIds
           /\ record.credential \in BOOLEAN
           /\ RepositoryNames(record) \subseteq Repositories
           /\ record.proven \in [RepositoryNames(record) -> SecretIds \cup {None}]
<1>1. record.proven \in Provings
    BY DEF Records
<1>2. PICK R \in SUBSET Repositories : record.proven \in [R -> SecretIds \cup {None}]
    BY <1>1 DEF Provings
<1>. QED
    BY <1>2 DEF Records, RepositoryNames

LEMMA ProvingsMade ==
    ASSUME NEW R, R \subseteq Repositories, NEW p \in [R -> SecretIds \cup {None}]
    PROVE  p \in Provings /\ DOMAIN p = R
    BY DEF Provings

\* What each change makes of a record.
Becomes(q, record, id, new) ==
    /\ q.op = "remove" => new = None
    /\ q.op # "remove" =>
          /\ new \in Records
          /\ new.endpoint = IF q.op = "register" THEN q.endpoint ELSE record.endpoint
          /\ new.secret = IF Mints(q) THEN id ELSE record.secret
          /\ new.credential = IF q.op = "register" THEN q.token
                              ELSE IF q.op = "set_credential" THEN TRUE
                              ELSE IF q.op = "remove_credential" THEN FALSE
                              ELSE record.credential
    /\ q.op = "register" => RepositoryNames(new) = {}
    /\ q.op = "set_credential" =>
          /\ RepositoryNames(new) = RepositoryNames(record)
          /\ \A r \in RepositoryNames(new) : new.proven[r] = id
    /\ q.op = "remove_credential" => RepositoryNames(new) = RepositoryNames(record)
    /\ q.op = "add_repository" =>
          /\ RepositoryNames(new) = RepositoryNames(record) \cup {q.repository}
          /\ \A r \in RepositoryNames(new) :
                new.proven[r] = IF r = q.repository THEN id ELSE record.proven[r]
    /\ q.op = "remove_repository" =>
          /\ RepositoryNames(new) = RepositoryNames(record) \ {q.repository}
          /\ \A r \in RepositoryNames(new) : new.proven[r] = record.proven[r]

LEMMA NewRecordFacts ==
    ASSUME NEW q \in Requests, NEW record \in Records \cup {None},
           NEW id \in SecretIds \cup {None},
           q.op # "register" => record # None,
           Mints(q) => id # None,
           NEW new, new = NewRecord(q, record, id)
    PROVE  Becomes(q, record, id, new)
<1>1. CASE q.op = "register"
    <2>. DEFINE p == [r \in {} |-> None]
    <2>1. new = [endpoint |-> q.endpoint, secret |-> id, credential |-> q.token, proven |-> p]
        BY <1>1 DEF NewRecord, Registered
    <2>2. q.endpoint \in Endpoints /\ q.token \in BOOLEAN /\ id \in SecretIds
        BY <1>1, RequestFacts DEF Mints
    <2>3. p \in Provings /\ DOMAIN p = {}
        <3>1. {} \subseteq Repositories /\ p \in [{} -> SecretIds \cup {None}]
            OBVIOUS
        <3>. HIDE DEF p
        <3>. QED
            BY <3>1, ProvingsMade
    <2>. HIDE DEF p
    <2>4. new \in Records /\ RepositoryNames(new) = {}
        BY <2>1, <2>2, <2>3 DEF Records, RepositoryNames
    <2>. QED
        BY <1>1, <2>1, <2>4 DEF Becomes, Mints
<1>2. ASSUME q.op # "register"
      PROVE  /\ record \in Records
             /\ record = [endpoint |-> record.endpoint, secret |-> record.secret,
                          credential |-> record.credential, proven |-> record.proven]
    BY <1>2 DEF Records
<1>3. CASE q.op = "set_credential"
    <2>. DEFINE p == [r \in RepositoryNames(record) |-> id]
    <2>1. new = [endpoint |-> record.endpoint, secret |-> id, credential |-> TRUE,
                 proven |-> p]
        <3>1. new = CredentialSet(record, id)
            BY <1>3 DEF NewRecord
        <3>. QED
            BY <1>2, <1>3, <3>1 DEF CredentialSet
    <2>2. id \in SecretIds
        BY <1>3 DEF Mints
    <2>3. /\ p \in Provings /\ DOMAIN p = RepositoryNames(record)
          /\ \A r \in RepositoryNames(record) : p[r] = id
        <3>1. p \in [RepositoryNames(record) -> SecretIds \cup {None}]
            BY <2>2
        <3>. QED
            BY <1>2, <1>3, <3>1, ProvingsMade, RecordFacts
    <2>. HIDE DEF p
    <2>4. new \in Records /\ RepositoryNames(new) = RepositoryNames(record)
        BY <1>2, <1>3, <2>1, <2>2, <2>3, RecordFacts DEF Records, RepositoryNames
    <2>5. /\ new.endpoint = record.endpoint /\ new.secret = id /\ new.credential = TRUE
          /\ new.proven = p
        BY <2>1
    <2>. QED
        BY <1>3, <2>3, <2>4, <2>5 DEF Becomes, Mints
<1>4. CASE q.op = "remove_credential"
    <2>1. new = [endpoint |-> record.endpoint, secret |-> record.secret,
                 credential |-> FALSE, proven |-> record.proven]
        BY <1>2, <1>4 DEF NewRecord, Withdrawn
    <2>2. record.proven \in Provings
        BY <1>2, <1>4 DEF Records
    <2>3. new \in Records /\ RepositoryNames(new) = RepositoryNames(record)
        BY <1>2, <1>4, <2>1, <2>2, RecordFacts DEF Records, RepositoryNames
    <2>. QED
        BY <1>4, <2>1, <2>3 DEF Becomes, Mints
<1>5. CASE q.op = "add_repository"
    <2>. DEFINE R == RepositoryNames(record) \cup {q.repository}
                p == [r \in R |-> IF r = q.repository THEN id ELSE record.proven[r]]
    <2>1. new = [endpoint |-> record.endpoint, secret |-> record.secret,
                 credential |-> record.credential, proven |-> p]
        BY <1>2, <1>5 DEF NewRecord, RepositoryAdded
    <2>2. p \in Provings /\ DOMAIN p = R
        <3>1. R \subseteq Repositories /\ p \in [R -> SecretIds \cup {None}]
            BY <1>2, <1>5, RecordFacts, RequestFacts DEF Rereads
        <3>. QED
            BY <3>1, ProvingsMade
    <2>3. new \in Records /\ RepositoryNames(new) = R
        BY <1>2, <1>5, <2>1, <2>2, RecordFacts DEF Records, RepositoryNames
    <2>4. \A r \in R : p[r] = IF r = q.repository THEN id ELSE record.proven[r]
        OBVIOUS
    <2>. HIDE DEF p
    <2>. QED
        BY <1>5, <2>1, <2>3, <2>4 DEF Becomes, Mints
<1>6. CASE q.op = "remove_repository"
    <2>. DEFINE R == RepositoryNames(record) \ {q.repository}
                p == [r \in R |-> record.proven[r]]
    <2>1. new = [endpoint |-> record.endpoint, secret |-> record.secret,
                 credential |-> record.credential, proven |-> p]
        BY <1>2, <1>6 DEF NewRecord, RepositoryRemoved
    <2>2. p \in Provings /\ DOMAIN p = R
        <3>1. R \subseteq Repositories /\ p \in [R -> SecretIds \cup {None}]
            BY <1>2, <1>6, RecordFacts
        <3>. QED
            BY <3>1, ProvingsMade
    <2>3. new \in Records /\ RepositoryNames(new) = R
        BY <1>2, <1>6, <2>1, <2>2, RecordFacts DEF Records, RepositoryNames
    <2>4. \A r \in R : p[r] = record.proven[r]
        OBVIOUS
    <2>. HIDE DEF p
    <2>. QED
        BY <1>6, <2>1, <2>3, <2>4 DEF Becomes, Mints
<1>7. CASE q.op = "remove"
    BY <1>7 DEF Becomes, NewRecord
<1>. QED
    BY <1>1, <1>3, <1>4, <1>5, <1>6, <1>7, RequestFacts

\* The client made from a record.
LEMMA ClientMade ==
    ASSUME NEW record \in Records, NEW id \in SecretIds \cup {None}
    PROVE  LET client == Connect(record, id, RepositoryNames(record)) IN
           /\ client \in Clients
           /\ client.credential = id /\ ~client.unreadable
           /\ client.repositories = RepositoryNames(record)
           /\ [client EXCEPT !.unreadable = TRUE] \in Clients
           /\ [client EXCEPT !.unreadable = TRUE].credential = id
           /\ [client EXCEPT !.unreadable = TRUE].unreadable
           /\ [client EXCEPT !.unreadable = TRUE].repositories = RepositoryNames(record)
    BY RecordFacts DEF Connect, Clients

--------------------------------------------------------------------------------
(* What no turn is needed for.                                             *)

\* What a turn is made of.
LEMMA TurnTyped ==
    ASSUME TypeOK, turn # None
    PROVE  /\ turn \in Turns /\ Request \in Requests /\ Request.host \in Hosts
           /\ Before.record \in Records \cup {None} /\ Before.client \in Clients \cup {None}
           /\ turn.credential \in SecretIds \cup {None}
           /\ turn.forget \in SecretIds \cup {None}
           /\ turn.outcome \in Outcomes
           /\ turn.step \in {"prove", "put", "swap", "save", "forget"}
           /\ turn.change.number \in 1..asked
           /\ turn.change \in [request : Requests, number : 1..asked]
<1>1. turn \in Turns /\ turn.change.number \in 1..asked
    BY DEF TypeOK
<1>2. turn.change \in [request : Requests, number : 1..MaxChanges]
    BY <1>1 DEF Turns
<1>. QED
    BY <1>1, <1>2, RequestFacts DEF Turns, Request, Before

\* A record set's records, and their secrets apart.
LEMMA RecordSetFacts ==
    ASSUME NEW s \in RecordSets, NEW h \in Hosts
    PROVE  /\ s \in [Hosts -> Records \cup {None}]
           /\ s[h] # None =>
                 /\ s[h] \in Records
                 /\ \A g \in Hosts \ {h} : s[g] # None => s[g].secret # s[h].secret
                 /\ \A r \in RepositoryNames(s[h]) :
                       HostOf[r] = h /\ (s[h].credential => s[h].proven[r] = s[h].secret)
    BY DEF RecordSets

\* The ids of recorded credentials.
LEMMA NamedFacts ==
    /\ \A h \in Hosts : Found(h) /\ store[h].credential => store[h].secret \in Named
    /\ \A id \in Named : \E h \in Hosts :
          Found(h) /\ store[h].credential /\ store[h].secret = id
    BY DEF Named

LEMMA NamedTyped == TypeOK => Named \subseteq SecretIds
    BY RecordFacts DEF TypeOK, Named, Found

\* What clients were made for goes on being apart from what is stored.
LEMMA ApartKept ==
    ASSUME Apart, UNCHANGED <<store, known, unanswered>>, minted \subseteq minted'
    PROVE  Apart' /\ Presentable' = Presentable
    BY DEF Apart, Found, Presentable

\* Lost tokens, and saves that landed, are never fewer.
LEMMA MissingGrows ==
    ASSUME lost \subseteq lost', unanswered \subseteq unanswered'
    PROVE  Missing \subseteq Missing'
    BY DEF Missing

core == <<store, secrets, live, refused, deployment, turn, minted, restore, left, lost,
          denied, Saves>>

\* What agrees goes on agreeing while nothing of it changes.
LEMMA CoreKept ==
    ASSUME Stored, Apart, ClientsFollow, TurnKeeps, TurnFits, TurnCredential, UNCHANGED core
    PROVE  /\ Stored' /\ Apart' /\ ClientsFollow' /\ TurnKeeps' /\ TurnFits'
           /\ TurnCredential' /\ \A n : Landed(n)' <=> Landed(n)
<1>1. Named' = Named /\ Missing' = Missing
    BY DEF Named, Found, Missing, core, Saves
<1>2. Owed' = Owed
    BY DEF Owed, Request, core
<1>3. Apart' /\ Presentable' = Presentable
    BY ApartKept DEF core, Saves
<1>4. Stored'
    BY <1>1, <1>2, <1>3 DEF Stored, Found, core
<1>5. ClientsFollow'
    BY <1>1
    DEF ClientsFollow, Swapping, Stops, Request, Before, SwappedIn, Follows, Describes,
        Complete, EndpointDiffers, Done, core, Saves
<1>6. \A n : Landed(n)' <=> Landed(n)
    BY DEF Landed, core, Saves
<1>7. TurnKeeps'
    BY <1>6 DEF TurnKeeps, Done, Swapping, Request, Before, Stops, core
<1>8. TurnFits'
    BY DEF TurnFits, Stops, CarriesToken, Rereads, Request, Before, EndpointDiffers, core
<1>9. TurnCredential'
    BY <1>1, <1>3
    DEF TurnCredential, Mints, CarriesToken, Stops, Rereads, Found, Request, Before, core, Saves
<1>. QED
    BY <1>3, <1>4, <1>5, <1>6, <1>7, <1>8, <1>9

\* Nothing is asked of a host by a change that has not its turn.
LEMMA AskStep == ASSUME Inv, Ask PROVE Inv'
<1>1. UNCHANGED core
    BY DEF Ask, Refused, Held, core
<1>2. PICK q \in Requests :
         \/ Refused(asked + 1)
         \/ /\ ~Invalid(q)
            /\ waiting' = waiting \cup {[request |-> q, number |-> asked + 1]}
            /\ UNCHANGED <<Held, turn, finished, audit>>
    BY DEF Ask
<1>3. asked \in 0..MaxChanges /\ asked' = asked + 1 /\ asked' \in 0..MaxChanges
    BY Distinct DEF Inv, TypeOK, Ask
<1>4. \A n \in 1..asked : n \in 1..asked' /\ n # asked + 1
    BY <1>3
<1>5. waiting' \subseteq [request : Requests, number : 1..asked']
    <2>1. waiting \subseteq [request : Requests, number : 1..asked']
        BY <1>4 DEF Inv, TypeOK
    <2>2. asked + 1 \in 1..asked'
        BY <1>3
    <2>. QED
        BY <1>2, <2>1, <2>2 DEF Refused
<1>6. finished' \subseteq [request : Requests, number : 1..asked', outcome : Outcomes]
    BY <1>2, <1>4 DEF Refused, Inv, TypeOK
<1>7. audit' \cup cut' \subseteq 1..asked'
    <2>1. asked + 1 \in 1..asked'
        BY <1>3
    <2>. QED
        BY <1>2, <1>4, <2>1 DEF Refused, Held, Inv, TypeOK
<1>8. turn' # None => turn'.change.number \in 1..asked'
    BY <1>1, <1>4 DEF Inv, TypeOK, core
<1>9. faults' = faults
    BY <1>2 DEF Refused, Held
<1>10. unanswered' \subseteq [number : 1..asked', host : Hosts, credential : SecretIds \cup {None}]
    BY <1>1, <1>4 DEF Inv, TypeOK, core, Saves
<1>11. TypeOK'
    BY <1>1, <1>3, <1>5, <1>6, <1>7, <1>8, <1>9, <1>10 DEF Inv, TypeOK, core, Saves
<1>12. WaitingValid'
    BY <1>2 DEF Refused, Inv, WaitingValid, Invalid, ResolvesTo, Distribution, OnItsHost
<1>13. /\ Stored' /\ Apart' /\ ClientsFollow' /\ TurnKeeps' /\ TurnFits' /\ TurnCredential'
       /\ \A n : Landed(n)' <=> Landed(n)
    BY <1>1, CoreKept DEF Inv
<1>14. NumbersApart'
    <2>1. /\ \A c \in waiting : c.number # asked + 1
          /\ turn # None => turn.change.number # asked + 1
        BY <1>4 DEF Inv, TypeOK
    <2>2. ~Landed(asked + 1)
        BY <1>4 DEF Inv, TypeOK, Landed
    <2>3. turn' = turn
        BY <1>1 DEF core
    <2>4. \/ waiting' = waiting
          \/ waiting' = waiting \cup {[request |-> q, number |-> asked + 1]}
        BY <1>2 DEF Refused
    <2>. QED
        BY <1>13, <2>1, <2>2, <2>3, <2>4 DEF Inv, NumbersApart
<1>. QED
    BY <1>11, <1>12, <1>13, <1>14 DEF Inv

LEMMA AuditStep == ASSUME Inv, NEW f \in finished, Audit(f) PROVE Inv'
<1>1. UNCHANGED core
    BY DEF Audit, Held, core
<1>2. TypeOK'
    BY DEF Inv, TypeOK, Audit, Held, Saves
<1>3. WaitingValid'
    BY DEF Inv, WaitingValid, Audit, Held, Invalid, ResolvesTo, Distribution, OnItsHost
<1>4. NumbersApart'
    BY <1>1 DEF Inv, NumbersApart, Audit, Landed, core, Saves
<1>. QED
    BY <1>1, <1>2, <1>3, <1>4, CoreKept DEF Inv

LEMMA StutterStep == ASSUME Inv, UNCHANGED connectionsVars PROVE Inv'
<1>1. UNCHANGED core
    BY DEF connectionsVars, core, Saves
<1>2. TypeOK'
    BY DEF Inv, TypeOK, connectionsVars
<1>3. WaitingValid'
    BY DEF Inv, WaitingValid, connectionsVars, Invalid, ResolvesTo, Distribution, OnItsHost
<1>4. NumbersApart'
    BY DEF Inv, NumbersApart, connectionsVars, Landed
<1>. QED
    BY <1>1, <1>2, <1>3, <1>4, CoreKept DEF Inv

\* The registries at first: what an earlier process left, and nothing read through.
LEMMA InvInit == ConnectionsInit => Inv
<1>. SUFFICES ASSUME ConnectionsInit PROVE Inv
    OBVIOUS
<1>1. store \in RecordSets
    BY Distinct DEF ConnectionsInit
<1>2. store \in [Hosts -> Records \cup {None}]
    BY <1>1 DEF RecordSets
<1>3. \A h \in Hosts : Found(h) => store[h].secret \in minted /\ store[h].secret \in SecretIds
    BY <1>2, RecordFacts DEF ConnectionsInit, Found
<1>4. Named \subseteq minted /\ minted \subseteq SecretIds
    BY <1>3 DEF Named, ConnectionsInit
<1>5. TypeOK
    BY <1>2, <1>4, Distinct DEF TypeOK, ConnectionsInit
<1>6. Stored
    BY <1>1, <1>3 DEF Stored, ConnectionsInit
<1>7. Apart
    <2>1. \A g, h \in Hosts : g # h /\ store[g] # None /\ store[h] # None =>
             store[g].secret # store[h].secret
        BY <1>1, RecordSetFacts
    <2>. QED
        BY <1>1, <1>3, <2>1 DEF Apart, Found, ConnectionsInit
<1>8. ClientsFollow
    BY DEF ClientsFollow, Swapping, Follows, Describes, Complete, ConnectionsInit
<1>9. TurnKeeps /\ TurnFits /\ TurnCredential /\ WaitingValid /\ NumbersApart
    BY DEF TurnKeeps, TurnFits, TurnCredential, WaitingValid, NumbersApart, ConnectionsInit
<1>. QED
    BY <1>5, <1>6, <1>7, <1>8, <1>9 DEF Inv

--------------------------------------------------------------------------------
(* A turn begins.                                                          *)

\* What the checks of a change leave.
LEMMA RefusalFacts ==
    ASSUME NEW q \in Requests, Refusal(q) = "ok"
    PROVE  /\ q.op = "register" <=> store[q.host] = None
           /\ q.op = "register" => ~EndpointDiffers(q.host, q.endpoint)
           /\ q.op = "set_credential" \/ Rereads(q) =>
                 ~EndpointDiffers(q.host, store[q.host].endpoint)
    BY RequestFacts DEF Refusal, Found, Rereads

LEMMA RefusalTyped == ASSUME NEW q PROVE Refusal(q) \in Outcomes \cup {"ok"}
    BY DEF Refusal, Outcomes, Refusals

LEMMA BeginStep ==
    ASSUME Inv, NEW c \in waiting, turn = None, restore # "starting",
           NEW step \in {"prove", "swap", "save"}, NEW id \in SecretIds \cup {None},
           Begin(c, step, id), waiting' = waiting \ {c}, Refusal(c.request) = "ok",
           LET q == c.request  record == store[q.host] IN
           \/ Mints(q) /\ step = "prove" /\ id = None
           \/ /\ Rereads(q) /\ step = IF q.op = "add_repository" THEN "prove" ELSE "save"
              /\ id = IF record.credential THEN record.secret ELSE None
           \/ /\ Stops(q) /\ step = "swap" /\ id = None
              /\ q.op = "remove_credential" => record.credential,
           UNCHANGED <<store, secrets, live, refused, deployment, audit, asked, minted,
                       restore, faults, left, lost, cut, denied, Saves>>
    PROVE  Inv'
<1>. DEFINE q == c.request  h == q.host  record == store[h]
<1>1. /\ c \in [request : Requests, number : 1..asked] /\ q \in Requests /\ h \in Hosts
      /\ record \in Records \cup {None} /\ live[h] \in Clients \cup {None}
    BY RequestFacts DEF Inv, TypeOK
<1>2. turn' = [change |-> c, step |-> step, credential |-> id, forget |-> None,
               outcome |-> "succeeded", before |-> [record |-> record, client |-> live[h]]]
    BY DEF Begin
<1>3. turn' \in Turns /\ turn' # None /\ c.number \in 1..asked
    <2>1. c \in [request : Requests, number : 1..MaxChanges] /\ c.number \in 1..asked
        BY <1>1, Distinct DEF Inv, TypeOK
    <2>2. "succeeded" \in Outcomes
        BY DEF Outcomes
    <2>3. turn' \in Turns
        BY <1>1, <1>2, <2>1, <2>2 DEF Turns
    <2>. QED
        BY <2>1, <2>3, Distinct
<1>4. /\ turn'.change = c /\ turn'.step = step /\ turn'.credential = id
      /\ turn'.before.record = record /\ turn'.before.client = live[h]
    BY <1>2
<1>5. Request' = q /\ Before'.record = record /\ Before'.client = live[h]
    BY <1>4 DEF Request, Before
<1>6. ~Stops(q) \/ step = "swap"
    BY DEF Stops, Mints, Rereads
<1>7. \A g \in Hosts : ~Swapping(g) /\ ~Swapping(g)'
    BY <1>4, <1>5, <1>6 DEF Swapping, Stops
<1>8. TypeOK'
    <2>1. finished' = finished
        BY DEF Begin
    <2>. QED
        BY <1>3, <1>4, <2>1 DEF Inv, TypeOK, Saves
<1>9. /\ Named' = Named /\ \A g \in Hosts : Found(g)' = Found(g)
      /\ Missing' = Missing /\ Apart' /\ Presentable' = Presentable
    BY ApartKept DEF Inv, Named, Found, Missing, Saves
<1>10. Owed = {} /\ Owed' = {}
    BY <1>3, <1>4, <1>5 DEF Owed, CarriesToken, Mints, Rereads
<1>11. Stored'
    BY <1>9, <1>10 DEF Inv, Stored
<1>12. ClientsFollow'
    <2>1. \A g \in Hosts : Follows(g, known[g], live[g])
        BY <1>7 DEF Inv, ClientsFollow
    <2>2. \A g \in Hosts : Follows(g, known[g], live[g])'
        BY <1>9, <2>1 DEF Follows, Describes, Complete, EndpointDiffers, Saves
    <2>3. Follows(Request.host, known[Request.host], Before.client)'
        BY <1>1, <1>5, <1>9, <2>1 DEF Follows, Describes, Complete, EndpointDiffers, Saves
    <2>. QED
        BY <1>7, <2>2, <2>3 DEF ClientsFollow
<1>13. TurnKeeps'
    BY <1>4, <1>5 DEF TurnKeeps
<1>14. TurnFits'
    <2>1. /\ q.op = "register" <=> record = None
          /\ q.op = "register" => ~EndpointDiffers(h, q.endpoint)
          /\ q.op = "set_credential" \/ Rereads(q) => ~EndpointDiffers(h, record.endpoint)
        BY <1>1, RefusalFacts
    <2>2. q.op = "add_repository" => OnItsHost(h, q.repository)
        BY DEF Inv, WaitingValid, Invalid
    <2>. QED
        BY <1>4, <1>5, <2>1, <2>2
        DEF TurnFits, Stops, Mints, Rereads, CarriesToken, OnItsHost, EndpointDiffers
<1>15. TurnCredential'
    <2>1. id # None => record \in Records /\ id \in Named
        BY <1>1, RefusalFacts, NamedFacts DEF Rereads, Found
    <2>2. id \in minted \cup {None}
        BY <1>1, <2>1, RefusalFacts DEF Inv, Stored, Found, Rereads
    <2>3. id \notin denied \ refused
        BY <2>1, Distinct DEF Inv, Stored, TypeOK
    <2>. QED
        BY <1>4, <1>5, <2>2, <2>3
        DEF TurnCredential, Stops, Mints, Rereads, CarriesToken
<1>16. WaitingValid'
    BY DEF Inv, WaitingValid, Invalid, ResolvesTo, Distribution, OnItsHost
<1>17. NumbersApart'
    <2>1. \A n : Landed(n)' <=> Landed(n)
        BY DEF Landed, Saves
    <2>. QED
        BY <1>4, <2>1 DEF Inv, NumbersApart
<1>. QED
    BY <1>8, <1>9, <1>11, <1>12, <1>13, <1>14, <1>15, <1>16, <1>17 DEF Inv

\* A change taking its turn ends it at once, or begins it.
LEMMA TakeStep == ASSUME Inv, NEW c \in waiting, Take(c) PROVE Inv'
<1>. DEFINE q == c.request  record == store[q.host]
<1>1. /\ c \in [request : Requests, number : 1..asked] /\ q \in Requests /\ q.host \in Hosts
      /\ record \in Records \cup {None}
    BY RequestFacts DEF Inv, TypeOK
<1>2. /\ turn = None /\ restore # "starting" /\ waiting' = waiting \ {c}
      /\ UNCHANGED <<store, secrets, live, refused, deployment, audit, asked, minted,
                     restore, faults, left, lost, cut, denied, Saves>>
    BY DEF Take, Marked
<1>3. ASSUME NEW outcome \in Outcomes, Finish(c, outcome) PROVE Inv'
    <2>1. UNCHANGED core
        BY <1>2, <1>3 DEF core, Finish
    <2>2. finished' \subseteq [request : Requests, number : 1..asked, outcome : Outcomes]
        BY <1>1, <1>3 DEF Finish, Inv, TypeOK
    <2>3. TypeOK'
        BY <1>2, <2>1, <2>2 DEF Inv, TypeOK, core, Saves
    <2>4. WaitingValid'
        BY <1>2 DEF Inv, WaitingValid, Invalid, ResolvesTo, Distribution, OnItsHost
    <2>5. NumbersApart'
        BY <1>2, <1>3 DEF Inv, NumbersApart, Landed, Finish, Saves
    <2>. QED
        BY <2>1, <2>3, <2>4, <2>5, CoreKept DEF Inv
<1>4. CASE \E error \in StoreErrors : Finish(c, error)
    BY <1>3, <1>4 DEF Outcomes
<1>5. CASE Refusal(q) # "ok" /\ Finish(c, Refusal(q))
    BY <1>3, <1>5, RefusalTyped
<1>6. CASE Refusal(q) = "ok" /\ q.op \in {"register", "set_credential"} /\ Begin(c, "prove", None)
    BY <1>2, <1>6, BeginStep DEF Mints
<1>7. CASE /\ Refusal(q) = "ok" /\ q.op \in {"add_repository", "remove_repository"}
           /\ \E answer \in CredentialOf(record) :
                 IF answer.code # "ok" THEN Finish(c, answer.code)
                 ELSE Begin(c, IF q.op = "add_repository" THEN "prove" ELSE "save", answer.id)
    <2>1. PICK answer \in CredentialOf(record) :
             IF answer.code # "ok" THEN Finish(c, answer.code)
             ELSE Begin(c, IF q.op = "add_repository" THEN "prove" ELSE "save", answer.id)
        BY <1>7
    <2>2. record \in Records
        BY <1>1, <1>7, RefusalFacts
    <2>3. CASE answer.code # "ok"
        <3>1. answer.code \in Outcomes
            BY <2>3 DEF CredentialOf, Outcomes, Refusals, StoreErrors
        <3>. QED
            BY <1>3, <2>1, <2>3, <3>1
    <2>4. CASE answer.code = "ok"
        <3>1. answer.id = IF record.credential THEN record.secret ELSE None
            BY <2>4 DEF CredentialOf
        <3>2. answer.id \in SecretIds \cup {None}
            BY <2>2, <3>1, RecordFacts
        <3>. DEFINE step == IF q.op = "add_repository" THEN "prove" ELSE "save"
        <3>3. step \in {"prove", "swap", "save"} /\ Begin(c, step, answer.id) /\ Rereads(q)
            BY <1>7, <2>1, <2>4 DEF Rereads
        <3>. QED
            BY <1>2, <1>7, <3>1, <3>2, <3>3, BeginStep
    <2>. QED
        BY <2>3, <2>4
<1>8. CASE Refusal(q) = "ok" /\ q.op = "remove_credential" /\ Finish(c, "succeeded")
    BY <1>3, <1>8 DEF Outcomes
<1>9. CASE /\ Refusal(q) = "ok" /\ q.op \in {"remove", "remove_credential"}
           /\ q.op = "remove_credential" => record.credential
           /\ Begin(c, "swap", None)
    BY <1>2, <1>9, BeginStep DEF Stops
<1>10. CASE Refusal(q) = "ok" /\ Finish(c, "registry_invalid")
    BY <1>3, <1>10 DEF Outcomes, Refusals
<1>. QED
    BY <1>4, <1>5, <1>6, <1>7, <1>8, <1>9, <1>10 DEF Take

--------------------------------------------------------------------------------
(* A turn goes on, and ends.                                               *)

\* Whatever ends a turn leaves nothing of it.
LEMMA Ended ==
    ASSUME Inv, turn # None, NEW outcome \in Outcomes, Finish(turn.change, outcome),
           UNCHANGED <<waiting, asked>>,
           \A n : Landed(n)' => Landed(n) \/ n = turn.change.number
    PROVE  /\ turn' = None /\ TurnKeeps' /\ TurnFits' /\ TurnCredential' /\ WaitingValid'
           /\ NumbersApart'
           /\ Owed' = {} /\ \A h \in Hosts : ~Swapping(h)'
           /\ finished' \subseteq [request : Requests, number : 1..asked', outcome : Outcomes]
<1>1. turn' = None
    BY DEF Finish
<1>2. finished' \subseteq [request : Requests, number : 1..asked', outcome : Outcomes]
    <2>1. turn.change \in [request : Requests, number : 1..asked]
        BY TurnTyped DEF Inv
    <2>. QED
        BY <2>1 DEF Finish, Inv, TypeOK
<1>3. WaitingValid'
    BY DEF Inv, WaitingValid, Invalid, ResolvesTo, Distribution, OnItsHost
<1>4. NumbersApart'
    BY <1>1 DEF Inv, NumbersApart
<1>. QED
    BY <1>1, <1>2, <1>3, <1>4 DEF TurnKeeps, TurnFits, TurnCredential, Owed, Swapping

\* Outside a swap every host is read through the client its record describes, and goes
\* on being so.
LEMMA FollowsKept ==
    ASSUME ClientsFollow, NEW h \in Hosts, ~Swapping(h), UNCHANGED <<deployment, restore>>,
           Missing \subseteq Missing', h \in unbuilt => h \in unbuilt',
           known'[h] = known[h], live'[h] = live[h]
    PROVE  Follows(h, known[h], live[h])'
    BY DEF ClientsFollow, Follows, Describes, Complete, EndpointDiffers

\* ... and so does what a change found.
LEMMA BeforeFollows ==
    ASSUME ClientsFollow, turn # None, ~Done, UNCHANGED <<deployment, restore, unbuilt, known>>,
           Missing \subseteq Missing', Request' = Request, Before' = Before
    PROVE  Follows(Request.host, known[Request.host], Before.client)'
    BY DEF ClientsFollow, Follows, Describes, Complete, EndpointDiffers

\* A step that saves nothing: what clients were made for and what landed are as they were.
LEMMA NothingSaved ==
    ASSUME Inv, UNCHANGED <<store, Saves>>, lost \subseteq lost', minted \subseteq minted'
    PROVE  /\ Apart' /\ Presentable' = Presentable /\ Named' = Named
           /\ Missing \subseteq Missing' /\ UNCHANGED <<unbuilt, known, unanswered>>
           /\ lost' = lost => Missing' = Missing
           /\ \A n : Landed(n)' <=> Landed(n)
    BY ApartKept, MissingGrows DEF Inv, Saves, Landed, Named, Found, Missing

\* A credential a change presents is one that was minted.
LEMMA FailProofStep == ASSUME Inv, FailProof PROVE Inv'
<1>1. turn # None /\ turn.step = "prove" /\ UNCHANGED <<Queue, Saves, store, secrets, live, minted, left>>
    BY DEF FailProof
<1>0. /\ Apart' /\ Presentable' = Presentable /\ Named' = Named
      /\ Missing' = Missing /\ UNCHANGED <<unbuilt, known, unanswered>>
      /\ \A n : Landed(n)' <=> Landed(n)
    BY <1>1, NothingSaved DEF Queue
<1>2. PICK code \in ProofFailures :
         /\ Finish(turn.change, code)
         /\ IF code = "registry_refused" /\ turn.credential # None
            THEN /\ refused' = refused \cup {turn.credential}
                 /\ denied' = denied \cup {turn.credential}
            ELSE UNCHANGED <<refused, denied>>
    BY DEF FailProof
<1>3. code \in Outcomes
    BY DEF Outcomes
<1>4. /\ turn' = None /\ TurnKeeps' /\ TurnFits' /\ TurnCredential' /\ WaitingValid'
      /\ NumbersApart'
      /\ Owed' = {} /\ \A h \in Hosts : ~Swapping(h)'
      /\ finished' \subseteq [request : Requests, number : 1..asked', outcome : Outcomes]
    BY <1>1, <1>2, <1>3, <1>0, Ended DEF Queue
<1>5. turn.credential \in minted \cup {None}
    BY <1>1 DEF Inv, TurnCredential
<1>6. TypeOK'
    BY <1>1, <1>2, <1>4, <1>5 DEF Queue, Saves, Inv, TypeOK
<1>7. Stored'
    <2>1. Named' = Named /\ Owed = {}
        BY <1>1 DEF Named, Found, Owed
    <2>. QED
        BY <1>0, <1>1, <1>2, <1>4, <2>1 DEF Queue, Inv, Stored, Found
<1>8. ClientsFollow'
    <2>1. \A h \in Hosts : ~Swapping(h)
        BY <1>1 DEF Swapping
    <2>2. \A h \in Hosts : Follows(h, known[h], live[h])'
        BY <1>0, <1>1, <2>1, FollowsKept DEF Queue, Inv
    <2>. QED
        BY <1>4, <2>2 DEF ClientsFollow
<1>. QED
    BY <1>0, <1>4, <1>6, <1>7, <1>8 DEF Inv

LEMMA FailMintStep == ASSUME Inv, FailMint PROVE Inv'
<1>1. /\ turn # None /\ turn.step = "prove" /\ Finish(turn.change, "registry_unavailable")
      /\ UNCHANGED <<Queue, Saves, store, secrets, live, refused, minted, left, denied>>
    BY DEF FailMint
<1>0. /\ Apart' /\ Presentable' = Presentable /\ Named' = Named
      /\ Missing' = Missing /\ UNCHANGED <<unbuilt, known, unanswered>>
      /\ \A n : Landed(n)' <=> Landed(n)
    BY <1>1, NothingSaved DEF Queue
<1>2. "registry_unavailable" \in Outcomes
    BY DEF Outcomes, ProofFailures
<1>3. /\ turn' = None /\ TurnKeeps' /\ TurnFits' /\ TurnCredential' /\ WaitingValid'
      /\ NumbersApart'
      /\ Owed' = {} /\ \A h \in Hosts : ~Swapping(h)'
      /\ finished' \subseteq [request : Requests, number : 1..asked', outcome : Outcomes]
    BY <1>1, <1>2, <1>0, Ended DEF Queue
<1>4. TypeOK'
    BY <1>1, <1>3 DEF Queue, Saves, Inv, TypeOK
<1>5. Stored'
    <2>1. Named' = Named /\ Owed = {}
        BY <1>1 DEF Named, Found, Owed
    <2>. QED
        BY <1>0, <1>1, <1>3, <2>1 DEF Queue, Inv, Stored, Found
<1>6. ClientsFollow'
    <2>1. \A h \in Hosts : ~Swapping(h)
        BY <1>1 DEF Swapping
    <2>2. \A h \in Hosts : Follows(h, known[h], live[h])'
        BY <1>0, <1>1, <2>1, FollowsKept DEF Queue, Inv
    <2>. QED
        BY <1>3, <2>2 DEF ClientsFollow
<1>. QED
    BY <1>0, <1>3, <1>4, <1>5, <1>6 DEF Inv

\* Proven: the id that is minted is nobody's yet.
LEMMA ProveStep == ASSUME Inv, Prove PROVE Inv'
<1>. DEFINE q == Request
<1>1. /\ turn # None /\ turn.step = "prove" /\ turn.credential \notin refused
      /\ UNCHANGED <<Queue, Saves, store, secrets, live, refused, left, denied, finished>>
    BY DEF Prove
<1>2. turn \in Turns /\ q \in Requests /\ q.host \in Hosts /\ turn.change.number \in 1..asked
    BY <1>1, TurnTyped DEF Inv
<1>3. \/ /\ q.op = "add_repository" /\ turn' = [turn EXCEPT !.step = "save"]
         /\ UNCHANGED minted
      \/ /\ q.op # "add_repository"
         /\ \E id \in SecretIds \ minted :
              /\ minted' = minted \cup {id}
              /\ turn' = [turn EXCEPT !.credential = id,
                              !.step = IF q.op = "register" /\ ~q.token THEN "save" ELSE "put"]
    BY DEF Prove, Request
<1>4. /\ turn' \in Turns /\ turn'.change = turn.change /\ turn'.before = turn.before
      /\ turn'.step = IF q.op = "add_repository" \/ (q.op = "register" /\ ~q.token)
                      THEN "save" ELSE "put"
      /\ minted \subseteq minted' /\ minted' \subseteq SecretIds
      /\ q.op = "add_repository" => turn'.credential = turn.credential
      /\ q.op # "add_repository" => turn'.credential \in minted' \ minted
    BY <1>2, <1>3 DEF Turns, Inv, TypeOK
<1>5. turn' # None /\ Request' = q /\ Before' = Before
    BY <1>4, Distinct DEF Request, Before
<1>6. q.op # "add_repository" => Mints(q)
    BY <1>1, <1>2, RequestFacts DEF Inv, TurnFits, Stops, Mints
<1>7. ~Stops(q)
    BY <1>6 DEF Stops, Mints
<1>8. TypeOK'
    BY <1>1, <1>2, <1>4, Distinct DEF Queue, Saves, Inv, TypeOK
<1>0. /\ Apart' /\ Presentable' = Presentable /\ Named' = Named
      /\ Missing' = Missing /\ UNCHANGED <<unbuilt, known, unanswered>>
      /\ \A n : Landed(n)' <=> Landed(n)
    BY <1>1, <1>4, NothingSaved DEF Queue
<1>9. Stored'
    <2>1. Named' = Named /\ Owed = {}
        BY <1>1 DEF Named, Found, Owed
    <2>. QED
        BY <1>0, <1>1, <1>4, <2>1 DEF Queue, Inv, Stored, Found
<1>10. \A h \in Hosts : ~Swapping(h) /\ ~Swapping(h)'
    BY <1>1, <1>5, <1>7 DEF Swapping, Stops
<1>11. ClientsFollow'
    <2>1. \A h \in Hosts : Follows(h, known[h], live[h])'
        BY <1>0, <1>1, <1>10, FollowsKept DEF Queue, Inv
    <2>. QED
        BY <1>0, <1>1, <1>5, <1>10, <2>1, BeforeFollows DEF ClientsFollow, Queue, Inv, Done
<1>12. TurnKeeps'
    BY <1>1, <1>2, <1>4, <1>5, <1>10 DEF Inv, TurnKeeps, Done
<1>13. TurnFits'
    <2>1. turn'.step = "put" => CarriesToken(q)
        BY <1>4, <1>6 DEF Mints, CarriesToken
    <2>. QED
        BY <1>1, <1>4, <1>5, <1>7, <2>1
        DEF Queue, Saves, Inv, TurnFits, Stops, CarriesToken, Rereads, EndpointDiffers, OnItsHost
<1>14. TurnCredential'
    <2>1. CASE q.op = "add_repository"
        BY <1>0, <1>1, <1>4, <1>5, <2>1
        DEF Queue, Inv, TurnCredential, Mints, CarriesToken, Stops, Rereads
    <2>2. CASE q.op # "add_repository"
        <3>1. \A h \in Hosts : Found(h)' => store'[h].secret # turn'.credential
            BY <1>1, <1>4, <2>2 DEF Inv, Stored, Found
        <3>1a. \A h \in Hosts : known'[h] # None => known'[h].secret # turn'.credential
            BY <1>0, <1>4, <2>2 DEF Inv, Apart
        <3>2. turn'.credential \notin denied' /\ turn'.credential # None
            BY <1>1, <1>4, <2>2, Distinct DEF Inv, TypeOK
        <3>. QED
            BY <1>4, <1>5, <1>6, <1>7, <2>2, <3>1, <3>1a, <3>2
            DEF TurnCredential, Mints, CarriesToken, Stops, Rereads
    <2>. QED
        BY <2>1, <2>2
<1>15. WaitingValid'
    BY <1>1 DEF Queue, Saves, Inv, WaitingValid, Invalid, ResolvesTo, Distribution, OnItsHost
<1>16. NumbersApart'
    BY <1>0, <1>1, <1>4 DEF Queue, Inv, NumbersApart
<1>. QED
    BY <1>0, <1>8, <1>9, <1>11, <1>12, <1>13, <1>14, <1>15, <1>16 DEF Inv

\* The credential is stored before the record that names it.
LEMMA PutSecretStep == ASSUME Inv, PutSecret PROVE Inv'
<1>. DEFINE q == Request
<1>1. /\ turn # None /\ turn.step = "put"
      /\ UNCHANGED <<Queue, Saves, store, live, refused, minted, denied>>
    BY DEF PutSecret
<1>0. /\ Apart' /\ Presentable' = Presentable /\ Named' = Named
      /\ Missing' = Missing /\ UNCHANGED <<unbuilt, known, unanswered>>
      /\ \A n : Landed(n)' <=> Landed(n)
    BY <1>1, NothingSaved DEF Queue
<1>2. /\ turn \in Turns /\ q \in Requests /\ q.host \in Hosts
      /\ turn.change.number \in 1..asked /\ CarriesToken(q) /\ Mints(q)
    BY <1>1, TurnTyped DEF Inv, TurnFits, CarriesToken, Mints
<1>3. turn.credential \in minted
    BY <1>1, <1>2 DEF Inv, TurnCredential
<1>4. Named' = Named /\ Owed = {} /\ \A h \in Hosts : ~Swapping(h)
    BY <1>1, <1>2 DEF Named, Found, Owed, Swapping
<1>5. \A h \in Hosts : Follows(h, known[h], live[h])'
    BY <1>0, <1>1, <1>4, FollowsKept DEF Queue, Inv
<1>6. CASE /\ secrets' = secrets \cup {turn.credential}
           /\ turn' = [turn EXCEPT !.step = "save"]
           /\ UNCHANGED <<finished, left>>
    <2>1. /\ turn' \in Turns /\ turn'.change = turn.change /\ turn'.before = turn.before
          /\ turn'.step = "save" /\ turn'.credential = turn.credential
        BY <1>2, <1>6 DEF Turns
    <2>2. turn' # None /\ Request' = q /\ Before' = Before
        BY <2>1, Distinct DEF Request, Before
    <2>3. Owed' = {turn.credential} /\ \A h \in Hosts : ~Swapping(h)'
        BY <1>2, <2>1, <2>2 DEF Owed, Swapping, Stops, Mints, CarriesToken
    <2>4. TypeOK'
        BY <1>1, <1>2, <1>3, <1>6, <2>1 DEF Queue, Saves, Inv, TypeOK
    <2>5. Stored'
        BY <1>0, <1>1, <1>4, <1>6, <2>3 DEF Queue, Inv, Stored, Found
    <2>6. ClientsFollow'
        BY <1>0, <1>1, <1>5, <2>2, <2>3, BeforeFollows DEF ClientsFollow, Queue, Inv, Done
    <2>7. TurnKeeps'
        BY <1>1, <1>2, <1>4, <2>1, <2>2 DEF Inv, TurnKeeps, Done
    <2>8. TurnFits'
        BY <1>1, <1>2, <2>1, <2>2
        DEF Queue, Saves, Inv, TurnFits, Stops, CarriesToken, Mints, Rereads, EndpointDiffers, OnItsHost
    <2>9. TurnCredential'
        BY <1>0, <1>1, <1>2, <1>6, <2>1, <2>2
        DEF Queue, Inv, TurnCredential, Mints, CarriesToken, Stops, Rereads, Found
    <2>10. WaitingValid'
        BY <1>1 DEF Queue, Saves, Inv, WaitingValid, Invalid, ResolvesTo, Distribution, OnItsHost
    <2>11. NumbersApart'
        BY <1>0, <1>1, <2>1, <2>2 DEF Queue, Inv, NumbersApart
    <2>. QED
        BY <1>0, <2>4, <2>5, <2>6, <2>7, <2>8, <2>9, <2>10, <2>11 DEF Inv
<1>7. ASSUME NEW written \in {{}, {turn.credential}},
             Finish(turn.change, "registries_unavailable"),
             secrets' = secrets \cup written, left' = left \cup written
      PROVE  Inv'
    <2>1. "registries_unavailable" \in Outcomes
        BY DEF Outcomes, StoreErrors
    <2>2. /\ turn' = None /\ TurnKeeps' /\ TurnFits' /\ TurnCredential' /\ WaitingValid'
          /\ NumbersApart'
          /\ Owed' = {} /\ \A h \in Hosts : ~Swapping(h)'
          /\ finished' \subseteq [request : Requests, number : 1..asked', outcome : Outcomes]
        BY <1>0, <1>1, <1>7, <2>1, Ended DEF Queue
    <2>3. TypeOK'
        BY <1>1, <1>3, <1>7, <2>2 DEF Queue, Saves, Inv, TypeOK
    <2>4. Stored'
        BY <1>0, <1>1, <1>4, <1>7, <2>2 DEF Queue, Inv, Stored, Found
    <2>5. ClientsFollow'
        BY <1>5, <2>2 DEF ClientsFollow
    <2>. QED
        BY <1>0, <2>2, <2>3, <2>4, <2>5 DEF Inv
<1>. QED
    BY <1>6, <1>7 DEF PutSecret

\* What is swapped in first is what the record will describe.
LEMMA SwapFirstStep == ASSUME Inv, SwapFirst PROVE Inv'
<1>. DEFINE q == Request  h == q.host
<1>1. /\ turn # None /\ turn.step = "swap" /\ turn' = [turn EXCEPT !.step = "save"]
      /\ live' = [live EXCEPT ![h] = SwappedIn(q, Before.record)]
      /\ UNCHANGED <<Queue, Saves, store, secrets, refused, minted, left, denied, finished>>
    BY DEF SwapFirst, Request, Before
<1>0. /\ Apart' /\ Presentable' = Presentable /\ Named' = Named
      /\ Missing' = Missing /\ UNCHANGED <<unbuilt, known, unanswered>>
      /\ \A n : Landed(n)' <=> Landed(n)
    BY <1>1, NothingSaved DEF Queue
<1>2. /\ turn \in Turns /\ q \in Requests /\ h \in Hosts
      /\ turn.change.number \in 1..asked /\ Stops(q)
      /\ Before.record \in Records
    BY <1>1, TurnTyped DEF Inv, TurnFits, Stops
<1>3. /\ turn' \in Turns /\ turn'.change = turn.change /\ turn'.before = turn.before
      /\ turn'.step = "save" /\ turn'.credential = turn.credential
    BY <1>1, <1>2 DEF Turns
<1>4. turn' # None /\ Request' = q /\ Before' = Before
    BY <1>3, Distinct DEF Request, Before
<1>5. ~CarriesToken(q) /\ ~Mints(q) /\ ~Rereads(q)
    BY <1>2 DEF Stops, CarriesToken, Mints, Rereads
<1>6. \A g \in Hosts : ~Swapping(g) /\ (Swapping(g)' <=> g = h)
    BY <1>1, <1>2, <1>3, <1>4 DEF Swapping, Stops
<1>7. SwappedIn(q, Before.record) \in Clients \cup {None}
    BY <1>2, ClientMade DEF SwappedIn
<1>8. live \in [Hosts -> Clients \cup {None}]
    BY DEF Inv, TypeOK
<1>9. live'[h] = SwappedIn(q, Before.record) /\ \A g \in Hosts \ {h} : live'[g] = live[g]
    BY <1>1, <1>2, <1>8
<1>10. TypeOK'
    <2>1. live' \in [Hosts -> Clients \cup {None}]
        BY <1>1, <1>7, <1>8
    <2>. QED
        BY <1>1, <1>2, <1>3, <2>1 DEF Queue, Saves, Inv, TypeOK
<1>11. Stored'
    <2>1. Named' = Named /\ Owed = {} /\ Owed' = {}
        BY <1>1, <1>3, <1>4, <1>5 DEF Named, Found, Owed, CarriesToken
    <2>. QED
        BY <1>0, <1>1, <2>1 DEF Queue, Inv, Stored, Found
<1>12. ClientsFollow'
    <2>1. \A g \in Hosts \ {h} : Follows(g, known[g], live[g])'
        BY <1>0, <1>1, <1>6, <1>9, FollowsKept DEF Queue, Inv
    <2>2. live'[h] = SwappedIn(Request, Before.record)'
        BY <1>1, <1>4, <1>9 DEF SwappedIn, EndpointDiffers, Queue
    <2>3. Follows(Request.host, known[Request.host], Before.client)'
        BY <1>0, <1>1, <1>4, BeforeFollows DEF Queue, Inv, Done
    <2>. QED
        BY <1>4, <1>6, <2>1, <2>2, <2>3 DEF ClientsFollow
<1>13. TurnKeeps'
    BY <1>1, <1>2, <1>3, <1>4, <1>6 DEF Inv, TurnKeeps, Done
<1>14. TurnFits'
    BY <1>1, <1>2, <1>3, <1>4, <1>5
    DEF Queue, Saves, Inv, TurnFits, Stops, CarriesToken, Mints, Rereads, EndpointDiffers, OnItsHost
<1>15. TurnCredential'
    BY <1>0, <1>1, <1>2, <1>3, <1>4, <1>5
    DEF Queue, Inv, TurnCredential, Mints, CarriesToken, Stops, Rereads
<1>16. WaitingValid'
    BY <1>1 DEF Queue, Saves, Inv, WaitingValid, Invalid, ResolvesTo, Distribution, OnItsHost
<1>17. NumbersApart'
    BY <1>0, <1>1, <1>3, <1>4 DEF Queue, Inv, NumbersApart
<1>. QED
    BY <1>0, <1>10, <1>11, <1>12, <1>13, <1>14, <1>15, <1>16, <1>17 DEF Inv

\* What is forgotten is presented by no client, and named by no record but one whose
\* save landed unanswered.
LEMMA ForgetStep == ASSUME Inv, Forget PROVE Inv'
<1>1. /\ turn # None /\ turn.step = "forget" /\ Finish(turn.change, turn.outcome)
      /\ refused' = refused \ {turn.forget}
      /\ left \subseteq left' /\ left' \subseteq left \cup {turn.forget}
      /\ secrets \ {turn.forget} \subseteq secrets' /\ secrets' \subseteq secrets
      /\ turn.forget \notin secrets' \ left'
      /\ UNCHANGED <<Queue, Saves, store, live, minted, denied>>
    BY DEF Forget
<1>0. /\ Apart' /\ Presentable' = Presentable /\ Named' = Named
      /\ Missing' = Missing /\ UNCHANGED <<unbuilt, known, unanswered>>
      /\ \A n : Landed(n)' <=> Landed(n)
    BY <1>1, NothingSaved DEF Queue
<1>2. turn.outcome \in Outcomes
    BY <1>1, TurnTyped DEF Inv
<1>3. /\ turn' = None /\ TurnKeeps' /\ TurnFits' /\ TurnCredential' /\ WaitingValid'
      /\ NumbersApart'
      /\ Owed' = {} /\ \A h \in Hosts : ~Swapping(h)'
      /\ finished' \subseteq [request : Requests, number : 1..asked', outcome : Outcomes]
    BY <1>0, <1>1, <1>2, Ended DEF Queue
<1>4. /\ turn.forget \in SecretIds /\ turn.forget \notin Presentable
      /\ turn.forget \in Named => turn.forget \in Missing \ denied
    BY <1>1, TurnTyped DEF Inv, TurnCredential
<1>5. TypeOK'
    BY <1>1, <1>3, <1>4 DEF Queue, Saves, Inv, TypeOK
<1>6. Stored'
    <2>1. Owed = {turn.forget}
        BY <1>1 DEF Owed
    <2>2. Named \subseteq secrets' \cup Missing
        BY <1>1, <1>4 DEF Inv, Stored
    <2>3. secrets' \subseteq Named \cup left'
        BY <1>1, <2>1 DEF Inv, Stored
    <2>4. (Named \cup Presentable) \cap denied \subseteq refused'
        BY <1>1, <1>4 DEF Inv, Stored
    <2>. QED
        BY <1>0, <1>1, <1>3, <2>2, <2>3, <2>4 DEF Queue, Inv, Stored, Found
<1>7. ClientsFollow'
    <2>1. \A h \in Hosts : ~Swapping(h)
        BY <1>1 DEF Swapping
    <2>2. \A h \in Hosts : Follows(h, known[h], live[h])'
        BY <1>0, <1>1, <2>1, FollowsKept DEF Queue, Inv
    <2>. QED
        BY <1>3, <2>2 DEF ClientsFollow
<1>. QED
    BY <1>0, <1>3, <1>5, <1>6, <1>7 DEF Inv

\* What follows a save: a credential is forgotten, or the turn is over.
LEMMA Continued ==
    ASSUME Inv, turn # None, turn.step = "save", NEW id \in SecretIds \cup {None},
           NEW outcome \in {"succeeded", "registries_unavailable"}, Continue(id, outcome),
           UNCHANGED <<waiting, asked, restore, deployment, refused, denied, minted>>,
           id # None => /\ id \notin Presentable'
                        /\ id \in Named' => id \in Missing' \ denied,
           NEW n, n = turn.change.number, \A m : Landed(m)' => Landed(m) \/ m = n,
           outcome # "succeeded" =>
              /\ live'[Request.host] = Before.client
              /\ store'[Request.host] =
                    IF Landed(n)' THEN NewRecord(Request, Before.record, turn.credential)
                    ELSE Before.record
    PROVE  /\ turn' \in Turns \cup {None}
           /\ turn' # None => turn'.change.number \in 1..asked'
           /\ TurnKeeps' /\ TurnFits' /\ TurnCredential' /\ WaitingValid'
           /\ NumbersApart'
           /\ Owed' = {id} \ {None} /\ \A h \in Hosts : ~Swapping(h)'
           /\ turn' # None => Request' = Request /\ Before' = Before
           /\ finished' \subseteq [request : Requests, number : 1..asked', outcome : Outcomes]
<1>1. outcome \in Outcomes
    BY DEF Outcomes, StoreErrors
<1>2. CASE id = None
    BY <1>1, <1>2, Ended DEF Continue
<1>3. CASE id # None
    <2>1. turn' = [turn EXCEPT !.step = "forget", !.forget = id, !.outcome = outcome]
          /\ finished' = finished
        BY <1>3 DEF Continue
    <2>2. turn \in Turns /\ turn.change.number \in 1..asked
        BY TurnTyped DEF Inv
    <2>3. /\ turn' \in Turns /\ turn'.change = turn.change /\ turn'.before = turn.before
          /\ turn'.step = "forget" /\ turn'.credential = turn.credential
          /\ turn'.forget = id /\ turn'.outcome = outcome
        BY <1>1, <2>1, <2>2 DEF Turns
    <2>4. turn' # None /\ Request' = Request /\ Before' = Before
        BY <2>3, Distinct DEF Request, Before
    <2>5. Owed' = {id} \ {None} /\ \A h \in Hosts : ~Swapping(h)'
        BY <1>3, <2>3, <2>4 DEF Owed, Swapping
    <2>6. TurnKeeps'
        <3>1. outcome # "succeeded" =>
                 /\ live'[Request'.host] = Before'.client
                 /\ store'[Request'.host] =
                       IF Landed(turn.change.number)'
                       THEN NewRecord(Request', Before'.record, turn'.credential)
                       ELSE Before'.record
            BY <2>3, <2>4 DEF Landed
        <3>. QED
            BY <2>3, <2>4, <2>5, <3>1
            DEF TurnKeeps, Done, NewRecord, Registered, CredentialSet, Withdrawn,
                RepositoryAdded, RepositoryRemoved, RepositoryNames
    <2>7. TurnFits'
        BY <2>3, <2>4
        DEF Inv, TurnFits, Stops, CarriesToken, Rereads, EndpointDiffers, OnItsHost
    <2>8. TurnCredential'
        BY <1>3, <2>3, <2>4
        DEF Inv, TurnCredential, Mints, CarriesToken, Stops, Rereads
    <2>9. WaitingValid'
        BY DEF Inv, WaitingValid, Invalid, ResolvesTo, Distribution, OnItsHost
    <2>10. NumbersApart'
        BY <2>3, <2>4 DEF Inv, NumbersApart
    <2>. QED
        BY <2>1, <2>2, <2>3, <2>4, <2>5, <2>6, <2>7, <2>8, <2>9, <2>10 DEF Inv, TypeOK
<1>. QED
    BY <1>2, <1>3

--------------------------------------------------------------------------------
(* A record is saved, or is not.                                           *)

\* The record a change saves, as the change was checked.
LEMMA NewRecordFits ==
    ASSUME Inv, turn # None, turn.step = "save",
           NEW new, new = NewRecord(Request, Before.record, turn.credential)
    PROVE  /\ new \in Records \cup {None}
           /\ new = None <=> Request.op = "remove"
           /\ new # None =>
                 /\ new.secret \in minted
                 /\ \A g \in Hosts \ {Request.host} :
                       /\ store[g] # None => store[g].secret # new.secret
                       /\ known[g] # None => known[g].secret # new.secret
                 /\ \A r \in RepositoryNames(new) :
                       /\ HostOf[r] = Request.host
                       /\ new.credential => new.proven[r] = new.secret
                 /\ new.credential =>
                       new.secret \in secrets \cup Missing /\ new.secret \notin denied \ refused
           /\ Request.op \notin {"remove", "remove_credential"} =>
                 ~EndpointDiffers(Request.host, new.endpoint)
<1>. DEFINE q == Request  h == q.host  record == Before.record  id == turn.credential
<1>1. /\ q \in Requests /\ h \in Hosts /\ record \in Records \cup {None}
      /\ id \in SecretIds \cup {None} /\ id \in minted \cup {None}
    BY TurnTyped DEF Inv, TurnCredential
<1>2. q.op = "register" <=> record = None
    BY DEF Inv, TurnFits
<1>3. Mints(q) => /\ id # None /\ \A g \in Hosts : Found(g) => store[g].secret # id
                  /\ \A g \in Hosts : known[g] # None => known[g].secret # id
    BY DEF Inv, TurnCredential
<1>4. Becomes(q, record, id, new)
    BY <1>1, <1>2, <1>3, NewRecordFacts
<1>5. store[h] = record
    BY DEF Inv, TurnKeeps, Done
<1>6. new \in Records \cup {None} /\ (new = None <=> q.op = "remove")
    BY <1>4, Distinct DEF Becomes
<1>7. record # None =>
         /\ record.secret \in minted
         /\ \A g \in Hosts \ {h} : /\ store[g] # None => store[g].secret # record.secret
                                   /\ known[g] # None => known[g].secret # record.secret
         /\ \A r \in RepositoryNames(record) :
               HostOf[r] = h /\ (record.credential => record.proven[r] = record.secret)
    BY <1>1, <1>5, RecordSetFacts DEF Inv, Stored, Apart, Found
<1>8. record # None /\ record.credential =>
         record.secret \in secrets \cup Missing /\ record.secret \notin denied \ refused
    BY <1>1, <1>5, NamedFacts DEF Inv, Stored, Found
<1>9. q.op # "remove" => new.secret \in minted
    BY <1>1, <1>2, <1>3, <1>4, <1>7 DEF Becomes, Mints
<1>10. q.op # "remove" =>
          \A g \in Hosts \ {h} : /\ store[g] # None => store[g].secret # new.secret
                                 /\ known[g] # None => known[g].secret # new.secret
    BY <1>2, <1>3, <1>4, <1>7 DEF Becomes, Mints, Found
<1>11. q.op # "remove" => \A r \in RepositoryNames(new) : HostOf[r] = h
    BY <1>1, <1>2, <1>4, <1>7, RequestFacts DEF Becomes, Inv, TurnFits, OnItsHost
<1>12. ASSUME q.op # "remove", new.credential, NEW r \in RepositoryNames(new)
       PROVE  new.proven[r] = new.secret
    <2>1. CASE q.op \in {"register", "set_credential", "remove_credential"}
        BY <1>4, <1>12, <2>1 DEF Becomes, Mints
    <2>2. CASE q.op = "add_repository"
        <3>1. new.credential = record.credential /\ new.secret = record.secret
            BY <1>4, <2>2 DEF Becomes, Mints
        <3>2. id = record.secret
            BY <1>12, <2>2, <3>1 DEF Inv, TurnCredential, Rereads
        <3>3. RepositoryNames(new) = RepositoryNames(record) \cup {q.repository}
              /\ new.proven[r] = IF r = q.repository THEN id ELSE record.proven[r]
            BY <1>4, <1>12, <2>2 DEF Becomes
        <3>. QED
            BY <1>2, <1>7, <1>12, <2>2, <3>1, <3>2, <3>3
    <2>3. CASE q.op = "remove_repository"
        BY <1>2, <1>4, <1>7, <1>12, <2>3 DEF Becomes, Mints
    <2>. QED
        BY <1>1, <1>12, <2>1, <2>2, <2>3, RequestFacts
<1>13. ASSUME q.op # "remove", new.credential
       PROVE  new.secret \in secrets \cup Missing /\ new.secret \notin denied \ refused
    <2>1. CASE Mints(q)
        <3>1. CarriesToken(q) /\ new.secret = id
            BY <1>4, <1>13, <2>1 DEF Becomes, Mints, CarriesToken
        <3>. QED
            BY <3>1 DEF Inv, TurnCredential, Missing
    <2>2. CASE ~Mints(q)
        <3>1. new.secret = record.secret /\ record # None /\ record.credential
            BY <1>1, <1>2, <1>4, <1>13, <2>2, RequestFacts DEF Becomes, Mints
        <3>. QED
            BY <1>8, <3>1
    <2>. QED
        BY <2>1, <2>2
<1>14. q.op \notin {"remove", "remove_credential"} => ~EndpointDiffers(h, new.endpoint)
    BY <1>1, <1>4, RequestFacts DEF Becomes, Inv, TurnFits, Rereads
<1>15. \A r \in RepositoryNames(new) :
          q.op # "remove" => HostOf[r] = h /\ (new.credential => new.proven[r] = new.secret)
    BY <1>11, <1>12
<1>. HIDE DEF q, record, id
<1>16. new # None =>
          /\ new.secret \in minted
          /\ \A g \in Hosts \ {h} : /\ store[g] # None => store[g].secret # new.secret
                                    /\ known[g] # None => known[g].secret # new.secret
          /\ \A r \in RepositoryNames(new) :
                HostOf[r] = h /\ (new.credential => new.proven[r] = new.secret)
          /\ new.credential =>
                new.secret \in secrets \cup Missing /\ new.secret \notin denied \ refused
    BY <1>6, <1>9, <1>10, <1>13, <1>15
<1>. QED
    BY <1>6, <1>14, <1>16 DEF q

\* A record set with one more record that is like them.
LEMMA RecordSetChanged ==
    ASSUME NEW s \in RecordSets, NEW h \in Hosts, NEW new \in Records \cup {None},
           new # None =>
              /\ \A g \in Hosts \ {h} : s[g] # None => s[g].secret # new.secret
              /\ \A r \in RepositoryNames(new) :
                    HostOf[r] = h /\ (new.credential => new.proven[r] = new.secret)
    PROVE  [s EXCEPT ![h] = new] \in RecordSets
<1>. DEFINE t == [s EXCEPT ![h] = new]
<1>1. s \in [Hosts -> Records \cup {None}]
    BY DEF RecordSets
<1>2. t \in [Hosts -> Records \cup {None}] /\ t[h] = new /\ \A g \in Hosts \ {h} : t[g] = s[g]
    BY <1>1
<1>. HIDE DEF t
<1>3. ASSUME NEW g \in Hosts, t[g] # None
      PROVE  /\ \A f \in Hosts \ {g} : t[f] # None => t[f].secret # t[g].secret
             /\ \A r \in RepositoryNames(t[g]) :
                   HostOf[r] = g /\ (t[g].credential => t[g].proven[r] = t[g].secret)
    <2>1. CASE g = h
        BY <1>2, <1>3, <2>1
    <2>2. CASE g # h
        BY <1>2, <1>3, <2>2, RecordSetFacts
    <2>. QED
        BY <2>1, <2>2
<1>4. t \in RecordSets
    BY <1>2, <1>3 DEF RecordSets
<1>. QED
    BY <1>4 DEF t

\* The record set is written with a host's new record.
Rewritten(h, new) == store' = [store EXCEPT ![h] = new]

\* What is stored once a record is saved, whether or not that was answered.
LEMMA RecordSaved ==
    ASSUME Inv, turn # None, turn.step = "save", NEW h, h = Request.host,
           NEW new, new = NewRecord(Request, Before.record, turn.credential),
           NEW id, id = Superseded(Request, Before.record),
           Rewritten(h, new)
    PROVE  /\ store' \in RecordSets /\ store' \in [Hosts -> Records \cup {None}]
           /\ h \in Hosts /\ store'[h] = new /\ \A g \in Hosts \ {h} : store'[g] = store[g]
           /\ \A g \in Hosts : Found(g)' => store'[g].secret \in minted
           /\ Named' \subseteq secrets \cup Missing
           /\ Named \subseteq Named' \cup ({id} \ {None})
           /\ Owed \subseteq Named'
           /\ Named' \cap denied \subseteq refused
           /\ id \in SecretIds \cup {None}
           /\ id # None =>
                 /\ id \notin Named'
                 /\ \A g \in Hosts \ {h} : known[g] # None => known[g].secret # id
           /\ new # None /\ new.credential => new.secret \in Named'
<1>. DEFINE q == Request  record == Before.record  credential == turn.credential
<1>3. /\ q \in Requests /\ record \in Records \cup {None} /\ h \in Hosts
      /\ credential \in SecretIds \cup {None}
      /\ q.op = "register" <=> record = None
    BY TurnTyped DEF Inv, TurnFits
<1>4. store \in [Hosts -> Records \cup {None}]
    BY DEF Inv, TypeOK
<1>7. /\ new \in Records \cup {None} /\ (new = None <=> q.op = "remove")
      /\ new # None =>
            /\ new.secret \in minted
            /\ \A g \in Hosts \ {h} : store[g] # None => store[g].secret # new.secret
            /\ \A r \in RepositoryNames(new) :
                  HostOf[r] = h /\ (new.credential => new.proven[r] = new.secret)
            /\ new.credential =>
                  new.secret \in secrets \cup Missing /\ new.secret \notin denied \ refused
    BY NewRecordFits
<1>5. /\ store'[h] = new /\ \A g \in Hosts \ {h} : store'[g] = store[g]
      /\ store' \in [Hosts -> Records \cup {None}]
    BY <1>3, <1>4, <1>7 DEF Rewritten
<1>6. store[h] = record
    BY DEF Inv, TurnKeeps
<1>8. Becomes(q, record, credential, new)
    BY <1>3, NewRecordFacts DEF Inv, TurnCredential
<1>9. id = IF (q.op = "set_credential" \/ Stops(q)) /\ record.credential
           THEN record.secret ELSE None
    BY DEF Superseded, Stops
<1>10. id # None => record \in Records /\ id = record.secret /\ id \in SecretIds
    BY <1>3, <1>9, RecordFacts DEF Stops
<1>. HIDE DEF q, record, credential
<1>11. \A g \in Hosts \ {h} : Found(g)' = Found(g)
    BY <1>5 DEF Found
<1>12. /\ new # None /\ new.credential => new.secret \in Named'
       /\ \A g \in Hosts \ {h} : Found(g) /\ store[g].credential => store[g].secret \in Named'
       /\ \A n \in Named' : \/ new # None /\ new.credential /\ n = new.secret
                            \/ \E g \in Hosts \ {h} :
                                  Found(g) /\ store[g].credential /\ n = store[g].secret
    BY <1>3, <1>5, <1>11 DEF Named, Found
<1>13. ASSUME id # None
       PROVE  /\ id \notin Named'
              /\ \A g \in Hosts \ {h} : known[g] # None => known[g].secret # id
    <2>1. id = record.secret /\ record # None /\ id \in SecretIds
        BY <1>10, <1>13, Distinct
    <2>2. \A g \in Hosts \ {h} : /\ Found(g) => store[g].secret # id
                                 /\ known[g] # None => known[g].secret # id
        BY <1>3, <1>6, <2>1, RecordSetFacts DEF Inv, Stored, Apart, Found
    <2>3. new # None /\ new.credential => new.secret # id
        <3>1. CASE q.op = "set_credential"
            <4>1. new.secret = credential
                BY <1>8, <3>1 DEF Becomes, Mints
            <4>2. store[h].secret # credential
                BY <1>3, <1>6, <2>1, <3>1 DEF q, credential, Inv, TurnCredential, Mints, Found
            <4>. QED
                BY <1>6, <2>1, <4>1, <4>2
        <3>2. CASE Stops(q)
            BY <1>8, <3>2 DEF Becomes, Stops
        <3>. QED
            BY <1>9, <1>13, <3>1, <3>2
    <2>. QED
        BY <1>12, <2>1, <2>2, <2>3
<1>14. store' \in RecordSets
    BY <1>3, <1>7, RecordSetChanged DEF Inv, Stored, Rewritten
<1>15. \A g \in Hosts : Found(g)' => store'[g].secret \in minted
    BY <1>5, <1>7 DEF Inv, Stored, Found
<1>16. Named' \subseteq secrets \cup Missing
    BY <1>7, <1>12, NamedFacts DEF Inv, Stored
<1>17. ASSUME NEW n \in Named PROVE n \in Named' \cup ({id} \ {None})
    <2>1. PICK g \in Hosts : Found(g) /\ store[g].credential /\ store[g].secret = n
        BY <1>17, NamedFacts
    <2>2. CASE g # h
        BY <1>12, <2>1, <2>2
    <2>3. CASE g = h
        <3>1. record # None /\ record.credential /\ record.secret = n /\ n # None
            BY <1>4, <1>6, <2>1, <2>3, RecordFacts, Distinct DEF Found
        <3>2. CASE q.op = "set_credential" \/ Stops(q)
            BY <1>9, <3>1, <3>2
        <3>3. CASE ~(q.op = "set_credential" \/ Stops(q))
            <4>1. new # None /\ new.credential /\ new.secret = n
                BY <1>3, <1>7, <1>8, <3>1, <3>3, RequestFacts DEF Becomes, Mints, Stops
            <4>. QED
                BY <1>12, <4>1
        <3>. QED
            BY <3>2, <3>3
    <2>. QED
        BY <2>2, <2>3
<1>18. Owed \subseteq Named'
    <2>1. CASE CarriesToken(q)
        <3>1. new # None /\ new.credential /\ new.secret = credential
            BY <1>7, <1>8, <2>1 DEF Becomes, Mints, CarriesToken
        <3>. QED
            BY <1>12, <3>1 DEF Owed, credential
    <2>2. CASE ~CarriesToken(q)
        BY <2>2 DEF Owed, q
    <2>. QED
        BY <2>1, <2>2
<1>19. Named' \cap denied \subseteq refused
    BY <1>7, <1>12, NamedFacts DEF Inv, Stored
<1>20. id \in SecretIds \cup {None}
    BY <1>10
<1>. QED
    BY <1>3, <1>5, <1>12, <1>13, <1>14, <1>15, <1>16, <1>17, <1>18, <1>19, <1>20

\* What was not saved leaves the registry read through as the change found it, and
\* recorded so, or as the change asked.
LEMMA NotSavedStep == ASSUME Inv, NotSaved PROVE Inv'
<1>. DEFINE q == Request  id == Unsaved(q, turn.credential)
<1>1. PICK h \in Hosts, n \in 1..asked, new \in Records \cup {None}, superseded \in SecretIds \cup {None} :
         /\ h = Request.host /\ n = turn.change.number
         /\ new = NewRecord(Request, Before.record, turn.credential)
         /\ superseded = Superseded(Request, Before.record)
    <2>1. turn # None /\ turn.step = "save"
        BY DEF NotSaved
    <2>2. Superseded(Request, Before.record) \in SecretIds \cup {None}
        BY <2>1, TurnTyped, RecordFacts DEF Superseded, Inv, TurnFits
    <2>. QED
        BY <2>1, <2>2, TurnTyped, NewRecordFits DEF Inv
<1>2. /\ turn # None /\ turn.step = "save"
      /\ live' = [live EXCEPT ![h] = Before.client]
      /\ Continue(id, "registries_unavailable")
      /\ UNCHANGED <<Queue, secrets, refused, minted, denied, known, unbuilt>>
    BY <1>1 DEF NotSaved, Request, Before
<1>3. \/ UNCHANGED <<store, left, unanswered>>
      \/ /\ store' = [store EXCEPT ![h] = new]
         /\ left' = left \cup ({superseded} \ {None})
         /\ unanswered' = unanswered \cup {[number |-> n, host |-> h, credential |-> id]}
    BY <1>1 DEF NotSaved, NotRecorded, Request, Before
<1>4. /\ turn \in Turns /\ q \in Requests /\ id \in SecretIds \cup {None}
      /\ Before.client \in Clients \cup {None} /\ turn.credential \in SecretIds \cup {None}
    BY <1>2, TurnTyped DEF Inv, Unsaved
<1>5. /\ live'[h] = Before.client /\ \A g \in Hosts \ {h} : live'[g] = live[g]
      /\ live' \in [Hosts -> Clients \cup {None}]
    BY <1>2, <1>4 DEF Inv, TypeOK
<1>6. store[h] = Before.record /\ ~Landed(n)
    BY <1>1, <1>2 DEF Inv, TurnKeeps, NumbersApart
<1>7. /\ Owed = {id} \ {None}
      /\ id # None => /\ id \notin Named /\ id \notin denied
                      /\ \A g \in Hosts : known[g] # None => known[g].secret # id
    <2>1. CASE CarriesToken(q)
        BY <1>2, <1>4, <2>1, NamedFacts
        DEF Unsaved, CarriesToken, Mints, Owed, Inv, TurnCredential
    <2>2. CASE ~CarriesToken(q)
        BY <1>2, <2>2 DEF Unsaved, Owed
    <2>. QED
        BY <2>1, <2>2
<1>. HIDE DEF q, id
<1>8. /\ Presentable' = Presentable /\ Missing \subseteq Missing'
      /\ id # None => id \notin Presentable
    BY <1>2, <1>3, <1>7, MissingGrows DEF Queue, Presentable
<1>10. ASSUME \A g \in Hosts : ~Swapping(g)', turn' # None => Request' = Request /\ Before' = Before
       PROVE  ClientsFollow'
    <2>1. \A g \in Hosts \ {h} : ~Swapping(g)
        BY <1>1 DEF Swapping
    <2>2. \A g \in Hosts \ {h} : Follows(g, known[g], live[g])'
        BY <1>2, <1>5, <1>8, <2>1, FollowsKept DEF Queue, Inv
    <2>3. ~Done
        BY <1>2 DEF Done
    <2>4. Follows(h, known[h], live[h])'
        <3>1. Follows(h, known[h], Before.client)
            BY <1>1, <1>2, <2>3 DEF Inv, ClientsFollow
        <3>. QED
            BY <1>2, <1>5, <1>8, <3>1
            DEF Queue, Follows, Describes, Complete, EndpointDiffers
    <2>5. turn' # None => Follows(Request.host, known[Request.host], Before.client)'
        BY <1>2, <1>8, <1>10, <2>3, BeforeFollows DEF Queue, Inv
    <2>. QED
        BY <1>10, <2>2, <2>4, <2>5 DEF ClientsFollow
\* What is stored, where the save did not land and where it did.
<1>9. CASE UNCHANGED <<store, left, unanswered>>
    <2>1. /\ Named' = Named /\ Apart' /\ Missing' = Missing
          /\ \A m : Landed(m)' <=> Landed(m)
        BY <1>2, <1>9, ApartKept DEF Queue, Named, Found, Missing, Landed, Inv
    <2>2. /\ turn' \in Turns \cup {None}
          /\ turn' # None => turn'.change.number \in 1..asked'
          /\ TurnKeeps' /\ TurnFits' /\ TurnCredential' /\ WaitingValid' /\ NumbersApart'
          /\ Owed' = {id} \ {None} /\ \A g \in Hosts : ~Swapping(g)'
          /\ turn' # None => Request' = Request /\ Before' = Before
          /\ finished' \subseteq [request : Requests, number : 1..asked', outcome : Outcomes]
        <3>1. store'[h] = IF Landed(n)' THEN NewRecord(Request, Before.record, turn.credential)
                          ELSE Before.record
            BY <1>6, <1>9, <2>1
        <3>. QED
            BY <1>1, <1>2, <1>4, <1>5, <1>7, <1>8, <2>1, <3>1, Continued DEF Queue
    <2>3. TypeOK'
        BY <1>2, <1>5, <1>9, <2>2 DEF Queue, Inv, TypeOK
    <2>4. Stored'
        BY <1>2, <1>7, <1>8, <1>9, <2>1, <2>2 DEF Queue, Inv, Stored, Found
    <2>. QED
        BY <1>10, <2>1, <2>2, <2>3, <2>4 DEF Inv
<1>11. CASE /\ store' = [store EXCEPT ![h] = new]
            /\ left' = left \cup ({superseded} \ {None})
            /\ unanswered' = unanswered \cup {[number |-> n, host |-> h, credential |-> id]}
    <2>. DEFINE u == [number |-> n, host |-> h, credential |-> id]
    <2>1. /\ store' \in RecordSets /\ store' \in [Hosts -> Records \cup {None}]
          /\ store'[h] = new /\ \A g \in Hosts \ {h} : store'[g] = store[g]
          /\ \A g \in Hosts : Found(g)' => store'[g].secret \in minted
          /\ Named' \subseteq secrets \cup Missing
          /\ Named \subseteq Named' \cup ({superseded} \ {None})
          /\ Owed \subseteq Named'
          /\ Named' \cap denied \subseteq refused
        <3>1. Rewritten(h, new)
            BY <1>11 DEF Rewritten
        <3>. QED
            BY <1>1, <1>2, <3>1, RecordSaved
    <2>2. /\ u \in unanswered' /\ u.number = n /\ u.host = h /\ u.credential = id
          /\ u \in [number : 1..asked, host : Hosts, credential : SecretIds \cup {None}]
        BY <1>4, <1>11
    <2>3. /\ Landed(n)' /\ \A m : Landed(m)' => Landed(m) \/ m = n
          /\ id \in Missing'
        BY <1>11, <2>2 DEF Landed, Missing
    <2>4. /\ turn' \in Turns \cup {None}
          /\ turn' # None => turn'.change.number \in 1..asked'
          /\ TurnKeeps' /\ TurnFits' /\ TurnCredential' /\ WaitingValid' /\ NumbersApart'
          /\ Owed' = {id} \ {None} /\ \A g \in Hosts : ~Swapping(g)'
          /\ turn' # None => Request' = Request /\ Before' = Before
          /\ finished' \subseteq [request : Requests, number : 1..asked', outcome : Outcomes]
        <3>1. store'[h] = IF Landed(n)' THEN NewRecord(Request, Before.record, turn.credential)
                          ELSE Before.record
            BY <1>1, <2>1, <2>3
        <3>. QED
            BY <1>1, <1>2, <1>4, <1>5, <1>7, <1>8, <2>3, <3>1, Continued DEF Queue
    <2>5. TypeOK'
        <3>1. /\ left' \cup lost' \subseteq SecretIds
              /\ unanswered' \subseteq
                    [number : 1..asked, host : Hosts, credential : SecretIds \cup {None}]
            BY <1>2, <1>11, <2>2 DEF Queue, Inv, TypeOK
        <3>. QED
            BY <1>2, <1>5, <2>1, <2>4, <3>1 DEF Queue, Inv, TypeOK
    <2>6. Stored'
        <3>1. Named' \subseteq secrets' \cup Missing'
            BY <1>2, <1>8, <2>1
        <3>2. secrets' \subseteq Named' \cup left' \cup Owed'
            BY <1>2, <1>11, <2>1 DEF Inv, Stored
        <3>3. (Named' \cup Presentable') \cap denied' \subseteq refused'
            BY <1>2, <1>8, <2>1 DEF Inv, Stored
        <3>. QED
            BY <1>2, <2>1, <3>1, <3>2, <3>3 DEF Stored
    <2>7. Apart'
        <3>1. ASSUME NEW g \in Hosts, NEW f \in Hosts, g # f, known[g] # None, Found(f)'
              PROVE  known[g].secret # store'[f].secret
            <4>1. CASE f = h
                BY <1>1, <1>2, <2>1, <3>1, <4>1, NewRecordFits DEF Found
            <4>2. CASE f # h
                BY <2>1, <3>1, <4>2 DEF Inv, Apart, Found
            <4>. QED
                BY <4>1, <4>2
        <3>2. ASSUME NEW g \in Hosts, known[g] # store'[g] PROVE \E v \in unanswered' : v.host = g
            <4>1. CASE g = h
                BY <2>2, <4>1
            <4>2. CASE g # h
                BY <1>11, <2>1, <3>2, <4>2 DEF Inv, Apart
            <4>. QED
                BY <4>1, <4>2
        <3>. QED
            BY <1>2, <3>1, <3>2 DEF Inv, Apart
    <2>. QED
        BY <1>10, <2>4, <2>5, <2>6, <2>7 DEF Inv
<1>. QED
    BY <1>3, <1>9, <1>11

\* A client made from a record with its credential follows it.
LEMMA ConnectedFollows ==
    ASSUME NEW h \in Hosts, NEW record \in Records, NEW client,
           client = Connect(record, IF record.credential THEN record.secret ELSE None,
                            RepositoryNames(record)),
           ~EndpointDiffers(h, record.endpoint)
    PROVE  Follows(h, record, client)
<1>1. record # None
    BY Distinct
<1>2. PICK id \in SecretIds \cup {None} :
         id = IF record.credential THEN record.secret ELSE None
    BY RecordFacts
<1>3. client = Connect(record, id, RepositoryNames(record))
    BY <1>2
<1>4. client \in Clients /\ ~client.unreadable
    BY <1>3, ClientMade
<1>5. client # None
    BY <1>4, Distinct
<1>6. Describes(h, record, client)
    BY <1>1 DEF Describes
<1>7. Complete(h, record, client)
    BY <1>4, <1>5 DEF Complete
<1>. QED
    BY <1>6, <1>7 DEF Follows

\* A saved record is the one its client was made for, and what it supersedes is the
\* one token that is owed.
LEMMA SavedStep == ASSUME Inv, Saved PROVE Inv'
<1>. DEFINE q == Request  record == Before.record  credential == turn.credential
<1>1. PICK h \in Hosts, new \in Records \cup {None} :
         h = q.host /\ new = NewRecord(q, record, credential)
    <2>1. turn # None /\ turn.step = "save"
        BY DEF Saved
    <2>. QED
        BY <2>1, TurnTyped, NewRecordFits DEF Inv
<1>1a. PICK client, id :
         client = NewClient(q, new, credential) /\ id = Superseded(q, record)
    OBVIOUS
<1>2. /\ turn # None /\ turn.step = "save"
      /\ store' = [store EXCEPT ![h] = new] /\ live' = [live EXCEPT ![h] = client]
      /\ known' = [known EXCEPT ![h] = new] /\ unbuilt' = unbuilt \ {h}
      /\ Continue(id, "succeeded")
      /\ UNCHANGED <<Queue, secrets, refused, minted, left, denied, unanswered>>
    BY <1>1, <1>1a DEF Saved, Request, Before
<1>3. /\ q \in Requests /\ record \in Records \cup {None}
      /\ credential \in SecretIds \cup {None}
      /\ q.op = "register" <=> record = None
    BY <1>2, TurnTyped DEF Inv, TurnFits
<1>4. /\ store \in [Hosts -> Records \cup {None}] /\ live \in [Hosts -> Clients \cup {None}]
      /\ known \in [Hosts -> Records \cup {None}]
    BY DEF Inv, TypeOK
<1>5. /\ live'[h] = client /\ \A g \in Hosts \ {h} : live'[g] = live[g]
      /\ known'[h] = new /\ \A g \in Hosts \ {h} : known'[g] = known[g]
      /\ known' \in [Hosts -> Records \cup {None}]
    BY <1>2, <1>4
<1>6. store[h] = record
    BY <1>1, <1>2 DEF Inv, TurnKeeps
<1>7. /\ new = None <=> q.op = "remove"
      /\ new # None =>
            /\ new.secret \in minted
            /\ \A g \in Hosts \ {h} : /\ store[g] # None => store[g].secret # new.secret
                                      /\ known[g] # None => known[g].secret # new.secret
            /\ \A r \in RepositoryNames(new) :
                  HostOf[r] = h /\ (new.credential => new.proven[r] = new.secret)
            /\ new.credential =>
                  new.secret \in secrets \cup Missing /\ new.secret \notin denied \ refused
      /\ q.op \notin {"remove", "remove_credential"} => ~EndpointDiffers(h, new.endpoint)
    BY <1>1, <1>2, NewRecordFits
<1>8. Becomes(q, record, credential, new)
    BY <1>1, <1>2, <1>3, NewRecordFacts DEF Inv, TurnCredential
<1>9. /\ store' \in RecordSets /\ store' \in [Hosts -> Records \cup {None}]
      /\ store'[h] = new /\ \A g \in Hosts \ {h} : store'[g] = store[g]
      /\ \A g \in Hosts : Found(g)' => store'[g].secret \in minted
      /\ Named' \subseteq secrets \cup Missing
      /\ Named \subseteq Named' \cup ({id} \ {None})
      /\ Owed \subseteq Named'
      /\ Named' \cap denied \subseteq refused
      /\ id \in SecretIds \cup {None}
      /\ id # None => /\ id \notin Named'
                      /\ \A g \in Hosts \ {h} : known[g] # None => known[g].secret # id
      /\ new # None /\ new.credential => new.secret \in Named'
    <2>1. Rewritten(h, new)
        BY <1>2 DEF Rewritten
    <2>2. /\ Inv /\ turn # None /\ turn.step = "save" /\ h = Request.host
          /\ new = NewRecord(Request, Before.record, turn.credential)
          /\ id = Superseded(Request, Before.record)
        BY <1>1, <1>1a, <1>2
    <2>. QED
        BY <2>1, <2>2, RecordSaved
<1>. HIDE DEF q, record, credential
<1>11. /\ \A g \in Hosts \ {h} : known'[g] # None /\ known'[g].credential =>
              known'[g].secret \in Presentable
       /\ \A n \in Presentable' :
              \/ new # None /\ new.credential /\ n = new.secret
              \/ \E g \in Hosts \ {h} : known[g] # None /\ known[g].credential /\ n = known[g].secret
    BY <1>1, <1>5 DEF Presentable
<1>12. id # None => id \notin Presentable'
    BY <1>9, <1>11
<1>13. Presentable' \subseteq Named' \cup Presentable
    BY <1>5, <1>9, <1>11
<1>10. Missing' = Missing
    BY <1>2 DEF Queue, Missing
<1>14. /\ turn' \in Turns \cup {None}
       /\ turn' # None => turn'.change.number \in 1..asked'
       /\ TurnKeeps' /\ TurnFits' /\ TurnCredential' /\ WaitingValid' /\ NumbersApart'
       /\ Owed' = {id} \ {None} /\ \A g \in Hosts : ~Swapping(g)'
       /\ turn' # None => Request' = Request /\ Before' = Before
       /\ finished' \subseteq [request : Requests, number : 1..asked', outcome : Outcomes]
    <2>1. PICK n : n = turn.change.number
        OBVIOUS
    <2>2. \A m : Landed(m)' => Landed(m) \/ m = n
        BY <1>2 DEF Landed
    <2>. QED
        BY <1>2, <1>9, <1>12, <2>1, <2>2, Continued DEF Queue
\* The client, and that it follows the record.
<1>15. /\ q.op = "remove" => client = None
       /\ q.op = "remove_credential" =>
             client = IF EndpointDiffers(h, new.endpoint) THEN None
                      ELSE Connect(new, None, RepositoryNames(new))
       /\ q.op \notin {"remove", "remove_credential"} =>
             client = Connect(new, IF new.credential THEN new.secret ELSE None,
                              RepositoryNames(new))
    <2>1. CASE Stops(q)
        <3>1. client = SwappedIn(q, record)
            BY <1>1, <1>1a, <1>2, <2>1
            DEF NewClient, Stops, Inv, ClientsFollow, Swapping, q, record
        <3>2. q.op = "remove_credential" =>
                 /\ new.endpoint = record.endpoint
                 /\ RepositoryNames(new) = RepositoryNames(record)
            BY <1>8 DEF Becomes
        <3>. QED
            BY <1>1, <2>1, <3>1, <3>2 DEF SwappedIn, Stops, Connect, q
    <2>2. CASE ~Stops(q)
        <3>1. client = Connect(new, IF q.op = "register" /\ ~q.token THEN None ELSE credential,
                               RepositoryNames(new))
            BY <1>1, <1>1a, <2>2 DEF NewClient, Stops, q, credential
        <3>2. (IF q.op = "register" /\ ~q.token THEN None ELSE credential)
                 = IF new.credential THEN new.secret ELSE None
            <4>1. CASE Mints(q)
                BY <1>3, <1>8, <4>1 DEF Becomes, Mints
            <4>2. CASE ~Mints(q)
                <5>1. Rereads(q)
                    BY <1>3, <2>2, <4>2, RequestFacts DEF Mints, Stops, Rereads
                <5>2. credential = IF record.credential THEN record.secret ELSE None
                    BY <1>2, <5>1 DEF Inv, TurnCredential, q, credential, record
                <5>. QED
                    BY <1>8, <4>2, <5>1, <5>2 DEF Becomes, Mints, Rereads
            <4>. QED
                BY <4>1, <4>2
        <3>. QED
            BY <2>2, <3>1, <3>2 DEF Stops
    <2>. QED
        BY <2>1, <2>2
<1>16. client \in Clients \cup {None}
    <2>1. new # None => \A n \in SecretIds \cup {None} :
             Connect(new, n, RepositoryNames(new)) \in Clients
        BY ClientMade
    <2>2. new # None => new.secret \in SecretIds
        BY RecordFacts
    <2>. QED
        BY <1>7, <1>15, <2>1, <2>2
<1>16a. client = None => new = None \/ EndpointDiffers(h, new.endpoint)
    <2>1. new # None => \A n \in SecretIds \cup {None} :
             Connect(new, n, RepositoryNames(new)) # None
        <3>1. ASSUME new # None, NEW n \in SecretIds \cup {None}
              PROVE  Connect(new, n, RepositoryNames(new)) # None
            <4>1. Connect(new, n, RepositoryNames(new)) \in Clients
                BY <3>1, ClientMade
            <4>. QED
                BY <4>1, Distinct
        <3>. QED
            BY <3>1
    <2>2. new # None => new.secret \in SecretIds
        BY RecordFacts
    <2>. QED
        BY <1>7, <1>15, <2>1, <2>2
<1>17. Follows(h, new, client)
    <2>1. CASE q.op = "remove"
        BY <1>7, <1>15, <2>1 DEF Follows, Describes, Complete
    <2>2. CASE q.op = "remove_credential"
        <3>1. new \in Records /\ new.credential = FALSE
            BY <1>8, <2>2 DEF Becomes
        <3>2. CASE EndpointDiffers(h, new.endpoint)
            BY <1>15, <2>2, <3>2 DEF Follows, Describes, Complete
        <3>3. CASE ~EndpointDiffers(h, new.endpoint)
            BY <1>15, <2>2, <3>1, <3>3, ConnectedFollows
        <3>. QED
            BY <3>2, <3>3
    <2>3. CASE q.op \notin {"remove", "remove_credential"}
        <3>1. new \in Records /\ ~EndpointDiffers(h, new.endpoint)
            BY <1>7, <1>8, <2>3 DEF Becomes
        <3>. QED
            BY <1>15, <2>3, <3>1, ConnectedFollows
    <2>. QED
        BY <2>1, <2>2, <2>3
<1>18. TypeOK'
    <2>1. live' \in [Hosts -> Clients \cup {None}]
        BY <1>2, <1>4, <1>16
    <2>. QED
        BY <1>2, <1>5, <1>9, <1>14, <2>1 DEF Queue, Inv, TypeOK
<1>19. Stored'
    <2>1. Named' \subseteq secrets' \cup Missing'
        BY <1>2, <1>9, <1>10
    <2>2. secrets' \subseteq Named' \cup left' \cup Owed'
        BY <1>2, <1>9, <1>14 DEF Inv, Stored
    <2>3. (Named' \cup Presentable') \cap denied' \subseteq refused'
        BY <1>2, <1>9, <1>13 DEF Inv, Stored
    <2>. QED
        BY <1>2, <1>9, <2>1, <2>2, <2>3 DEF Stored
<1>20. Apart'
    <2>1. known' \in RecordSets
        <3>1. [known EXCEPT ![h] = new] \in RecordSets
            BY <1>7, RecordSetChanged DEF Inv, Apart
        <3>. QED
            BY <1>2, <3>1
    <2>2. ASSUME NEW g \in Hosts, NEW f \in Hosts, g # f, known'[g] # None, Found(f)'
          PROVE  known'[g].secret # store'[f].secret
        <3>1. CASE g = h
            BY <1>5, <1>7, <1>9, <2>2, <3>1 DEF Found
        <3>2. CASE f = h
            BY <1>5, <1>7, <1>9, <2>2, <3>2 DEF Found
        <3>3. CASE g # h /\ f # h
            BY <1>5, <1>9, <2>2, <3>3 DEF Inv, Apart, Found
        <3>. QED
            BY <3>1, <3>2, <3>3
    <2>3. \A g \in Hosts : known'[g] # None => known'[g].secret \in minted'
        BY <1>2, <1>5, <1>7 DEF Inv, Apart
    <2>4. \A g \in Hosts : known'[g] # store'[g] => \E u \in unanswered' : u.host = g
        BY <1>2, <1>5, <1>9 DEF Inv, Apart
    <2>. QED
        BY <2>1, <2>2, <2>3, <2>4 DEF Apart
<1>21. ClientsFollow'
    <2>1. \A g \in Hosts \ {h} : Follows(g, known[g], live[g])'
        <3>1. \A g \in Hosts \ {h} : ~Swapping(g)
            BY <1>1 DEF Swapping, q
        <3>. QED
            BY <1>2, <1>5, <1>10, <3>1, FollowsKept DEF Queue, Inv
    <2>2. Follows(h, known[h], live[h])'
        BY <1>2, <1>5, <1>10, <1>16a, <1>17
        DEF Queue, Follows, Describes, Complete, EndpointDiffers
    <2>3. turn' # None => Done'
        <3>1. turn' # None => turn'.step = "forget" /\ turn'.outcome = "succeeded"
            <4>1. turn \in Turns
                BY <1>2, TurnTyped DEF Inv
            <4>. QED
                BY <1>2, <4>1 DEF Continue, Finish, Turns
        <3>. QED
            BY <3>1 DEF Done
    <2>. QED
        BY <1>14, <2>1, <2>2, <2>3 DEF ClientsFollow
<1>. QED
    BY <1>14, <1>18, <1>19, <1>20, <1>21 DEF Inv

--------------------------------------------------------------------------------
(* Restoring, reading, and what may happen to the process.                 *)

\* What a restore makes of one record.
LEMMA RestoredFacts ==
    ASSUME TypeOK, NEW h \in Hosts, NEW answered \in SUBSET Hosts,
           NEW client, client = Restored(h, h \in answered)
    PROVE  /\ client \in Clients \cup {None}
           /\ Describes(h, store[h], client)
           /\ Found(h) /\ ~EndpointDiffers(h, store[h].endpoint) =>
                 /\ client # None
                 /\ client.unreadable =>
                       store[h].credential /\ ~(h \in answered /\ store[h].secret \in secrets)
<1>. DEFINE record == store[h]
<1>1. record \in Records \cup {None}
    BY DEF TypeOK
<1>2. CASE record = None \/ EndpointDiffers(h, record.endpoint)
    BY <1>2 DEF Restored, Describes, Found
<1>3. CASE record # None /\ ~EndpointDiffers(h, record.endpoint)
    <2>1. PICK id \in SecretIds \cup {None}, readable \in BOOLEAN :
             /\ readable = (h \in answered /\ record.secret \in secrets)
             /\ id = IF record.credential /\ readable THEN record.secret ELSE None
        BY <1>1, <1>3, RecordFacts
    <2>2. record \in Records /\ record.credential \in BOOLEAN
        BY <1>1, <1>3, RecordFacts
    <2>3. PICK with \in Clients :
             /\ with = Connect(record, id, RepositoryNames(record))
             /\ ~with.unreadable /\ [with EXCEPT !.unreadable = TRUE] \in Clients
        BY <2>2, ClientMade
    <2>4. client = [with EXCEPT !.unreadable = record.credential /\ ~readable]
        BY <1>3, <2>1, <2>3 DEF Restored
    <2>5. CASE record.credential /\ ~readable
        <3>1. id = None /\ client = [with EXCEPT !.unreadable = TRUE]
            BY <2>1, <2>4, <2>5
        <3>2. client \in Clients /\ client # None
            BY <2>3, <3>1, Distinct
        <3>. QED
            BY <1>3, <2>1, <2>3, <2>5, <3>1, <3>2 DEF Describes
    <2>6. CASE ~(record.credential /\ ~readable)
        <3>1. id = IF record.credential THEN record.secret ELSE None
            BY <2>1, <2>6
        <3>2. client = with
            <4>1. with.unreadable = FALSE
                BY <2>3 DEF Clients
            <4>2. (record.credential /\ ~readable) = FALSE
                BY <2>6
            <4>3. client = [with EXCEPT !.unreadable = FALSE]
                BY <2>4, <4>2
            <4>. QED
                BY <2>3, <4>1, <4>3 DEF Clients
        <3>3. client \in Clients /\ client # None /\ ~client.unreadable
            BY <2>3, <3>2, Distinct
        <3>. QED
            BY <1>3, <2>3, <3>1, <3>2, <3>3 DEF Describes
    <2>. QED
        BY <2>5, <2>6
<1>. QED
    BY <1>2, <1>3

\* Between changes nothing is held for one.
LEMMA Between ==
    ASSUME turn = None, turn' = None
    PROVE  /\ TurnKeeps' /\ TurnFits' /\ TurnCredential' /\ Owed = {} /\ Owed' = {}
           /\ \A h \in Hosts : ~Swapping(h) /\ ~Swapping(h)'
           /\ NumbersApart /\ UNCHANGED <<waiting, unanswered>> => NumbersApart'
    BY DEF TurnKeeps, TurnFits, TurnCredential, Owed, Swapping, NumbersApart, Landed

\* A restore gives every record its client, the one it describes.
LEMMA RestoreWithStep == ASSUME Inv, NEW answered \in SUBSET Hosts, RestoreWith(answered) PROVE Inv'
<1>1. /\ turn = None /\ turn' = None
      /\ live' = [h \in Hosts |-> IF h \in unbuilt' THEN None ELSE Restored(h, h \in answered)]
      /\ unbuilt' \subseteq Hosts /\ known' = store
      /\ restore' = IF {h \in Hosts : AsksSecret(h)} \subseteq answered
                    THEN "complete" ELSE "due"
      /\ UNCHANGED <<store, secrets, refused, deployment, waiting, finished, audit, asked,
                     minted, faults, left, lost, cut, denied, unanswered>>
    BY DEF RestoreWith, Marked
<1>2. /\ TurnKeeps' /\ TurnFits' /\ TurnCredential' /\ Owed = {} /\ Owed' = {}
      /\ \A h \in Hosts : ~Swapping(h) /\ ~Swapping(h)'
      /\ NumbersApart'
    BY <1>1, Between DEF Inv
<1>3. TypeOK'
    <2>1. live' \in [Hosts -> Clients \cup {None}]
        <3>1. \A h \in Hosts : Restored(h, h \in answered) \in Clients \cup {None}
            BY RestoredFacts DEF Inv
        <3>. QED
            BY <1>1, <3>1
    <2>. QED
        BY <1>1, <2>1 DEF Inv, TypeOK
<1>4. Stored'
    <2>1. Named' = Named /\ Presentable' = Named /\ Missing' = Missing
        BY <1>1 DEF Named, Presentable, Found, Missing
    <2>. QED
        BY <1>1, <1>2, <2>1 DEF Inv, Stored, Found
<1>7. Apart'
    <2>1. \A g, h \in Hosts : g # h /\ store[g] # None /\ store[h] # None =>
             store[g].secret # store[h].secret
        BY RecordSetFacts DEF Inv, Stored
    <2>. QED
        BY <1>1, <2>1 DEF Inv, Stored, Apart, Found
<1>5. ClientsFollow'
    <2>1. ASSUME NEW h \in Hosts, h \notin unbuilt' PROVE Follows(h, known[h], live[h])'
        <3>1. PICK client : client = Restored(h, h \in answered)
            OBVIOUS
        <3>2. live'[h] = client /\ known'[h] = store[h]
            BY <1>1, <2>1, <3>1
        <3>3. /\ Describes(h, store[h], client)
              /\ Found(h) /\ ~EndpointDiffers(h, store[h].endpoint) =>
                    /\ client # None
                    /\ client.unreadable =>
                          store[h].credential /\ ~(h \in answered /\ store[h].secret \in secrets)
            BY <3>1, RestoredFacts DEF Inv
        <3>4. Describes(h, known[h], live[h])'
            BY <1>1, <3>2, <3>3 DEF Describes, EndpointDiffers
        <3>5. Found(h) /\ store[h].credential => store[h].secret \in secrets \cup Missing
            BY NamedFacts DEF Inv, Stored
        <3>6. restore' = "complete" /\ AsksSecret(h) => h \in answered
            BY <1>1
        <3>7. Complete(h, known[h], live[h])'
            <4>1. Missing' = Missing
                BY <1>1 DEF Missing
            <4>. QED
                BY <1>1, <3>2, <3>3, <3>5, <3>6, <4>1
                DEF Complete, AsksSecret, EndpointDiffers, Found
        <3>. QED
            BY <3>4, <3>7 DEF Follows
    <2>2. ASSUME NEW h \in Hosts, h \in unbuilt' PROVE Follows(h, known[h], live[h])'
        BY <1>1, <2>2 DEF Follows, Describes, Complete
    <2>. QED
        BY <1>1, <1>2, <2>1, <2>2 DEF ClientsFollow
<1>6. WaitingValid'
    BY <1>1 DEF Inv, WaitingValid, Invalid, ResolvesTo, Distribution, OnItsHost
<1>. QED
    BY <1>2, <1>3, <1>4, <1>5, <1>6, <1>7 DEF Inv

\* Records that could not be read are read through nothing.
LEMMA RestoreUnreadStep == ASSUME Inv, RestoreUnread PROVE Inv'
<1>1. /\ turn = None /\ turn' = None /\ live' = [h \in Hosts |-> None] /\ restore' = "due"
      /\ unbuilt' = {}
      /\ UNCHANGED <<store, secrets, refused, deployment, waiting, finished, audit, asked,
                     minted, faults, left, lost, cut, denied, known, unanswered>>
    BY DEF RestoreUnread
<1>2. /\ TurnKeeps' /\ TurnFits' /\ TurnCredential' /\ Owed = {} /\ Owed' = {}
      /\ \A h \in Hosts : ~Swapping(h) /\ ~Swapping(h)'
      /\ NumbersApart'
    BY <1>1, Between DEF Inv
<1>3. TypeOK'
    BY <1>1 DEF Inv, TypeOK
<1>7. Apart' /\ Presentable' = Presentable
    BY <1>1, ApartKept DEF Inv
<1>4. Stored'
    <2>1. Named' = Named /\ Missing' = Missing
        BY <1>1 DEF Named, Found, Missing
    <2>. QED
        BY <1>1, <1>2, <1>7, <2>1 DEF Inv, Stored, Found
<1>5. ClientsFollow'
    BY <1>1, <1>2 DEF ClientsFollow, Follows, Describes, Complete
<1>6. WaitingValid'
    BY <1>1 DEF Inv, WaitingValid, Invalid, ResolvesTo, Distribution, OnItsHost
<1>. QED
    BY <1>2, <1>3, <1>4, <1>5, <1>6, <1>7 DEF Inv

\* A process that starts again has no change under way and reads through nothing; what
\* no record names was left behind.
LEMMA CrashStep == ASSUME Inv, Crash PROVE Inv'
<1>1. /\ turn' = None /\ live' = [h \in Hosts |-> None] /\ refused' = {} /\ denied' = {}
      /\ left' = left \cup (secrets \ Named) /\ waiting' = {} /\ finished' = {}
      /\ restore' = "starting" /\ deployment' \in Endpoints
      /\ faults < MaxFaults /\ faults' = faults + 1 /\ unbuilt' = {}
      /\ UNCHANGED <<store, secrets, audit, asked, minted, lost, known, unanswered>>
    BY DEF Crash
<1>2. Named' = Named /\ Missing' = Missing
    BY <1>1 DEF Named, Found, Missing
<1>7. Apart' /\ Presentable' = Presentable
    BY <1>1, ApartKept DEF Inv
<1>3. TypeOK'
    <2>1. cut' \subseteq 1..asked
        <3>1. \A c \in waiting \cup finished : c.number \in 1..asked
            BY DEF Inv, TypeOK
        <3>2. turn # None => turn.change.number \in 1..asked
            BY DEF Inv, TypeOK
        <3>3. cut \subseteq 1..asked
            BY DEF Inv, TypeOK
        <3>. QED
            BY <3>1, <3>2, <3>3 DEF Crash
    <2>2. faults' \in 0..MaxFaults
        BY <1>1, Distinct DEF Inv, TypeOK
    <2>3. left' \cup lost' \subseteq SecretIds
        BY <1>1 DEF Inv, TypeOK
    <2>. QED
        BY <1>1, <2>1, <2>2, <2>3 DEF Inv, TypeOK
<1>4. Stored'
    BY <1>1, <1>2, <1>7 DEF Inv, Stored, Owed, Found
<1>5. ClientsFollow'
    BY <1>1 DEF ClientsFollow, Swapping, Follows, Describes, Complete
<1>6. TurnKeeps' /\ TurnFits' /\ TurnCredential' /\ WaitingValid' /\ NumbersApart'
    BY <1>1 DEF TurnKeeps, TurnFits, TurnCredential, WaitingValid, NumbersApart
<1>. QED
    BY <1>3, <1>4, <1>5, <1>6, <1>7 DEF Inv

\* The credential a client presents is the one of the record it was made for.
LEMMA ClientCredential ==
    ASSUME Inv, NEW h \in Hosts, live[h] # None, live[h].credential # None
    PROVE  /\ known[h] # None /\ known[h].credential /\ live[h].credential = known[h].secret
           /\ known[h].secret \in Presentable /\ known[h].secret \in minted
<1>1. live[h] \in Clients
    BY DEF Inv, TypeOK
<1>2. ~Swapping(h)
    <2>1. SUFFICES ASSUME Swapping(h) PROVE FALSE
        OBVIOUS
    <2>2. live[h] = SwappedIn(Request, Before.record)
        BY <2>1 DEF Inv, ClientsFollow
    <2>. QED
        BY <2>2 DEF SwappedIn, Connect
<1>3. Describes(h, known[h], live[h])
    BY <1>2 DEF Inv, ClientsFollow, Follows
<1>4. known[h] \in Records
    BY <1>3 DEF Describes, Inv, TypeOK
<1>5. known[h].credential /\ live[h].credential = known[h].secret
    <2>1. PICK id \in SecretIds \cup {None} :
             id = IF known[h].credential THEN known[h].secret ELSE None
        BY <1>4, RecordFacts
    <2>2. CASE live[h] = Connect(known[h], id, RepositoryNames(known[h]))
        <3>1. live[h].credential = id
            BY <2>2 DEF Connect
        <3>. QED
            BY <2>1, <3>1
    <2>3. CASE live[h] = [Connect(known[h], None, RepositoryNames(known[h]))
                            EXCEPT !.unreadable = TRUE]
        <3>1. live[h].credential = None
            BY <1>4, <2>3, ClientMade
        <3>. QED
            BY <3>1
    <2>. QED
        BY <1>3, <2>1, <2>2, <2>3 DEF Describes
<1>. QED
    BY <1>3, <1>5 DEF Describes, Presentable, Inv, Apart

LEMMA ReadRefusedStep ==
    ASSUME Inv, NEW r \in Repositories, ReadRefused(HostOf[r], r) PROVE Inv'
<1>1. PICK home \in Hosts : home = HostOf[r]
    BY Distinct
<1>2. PICK id \in minted :
         /\ id = live[home].credential /\ id \in Presentable
         /\ refused' = refused \cup {id} /\ denied' = denied \cup {id}
         /\ UNCHANGED <<store, secrets, live, deployment, waiting, turn, finished, audit, asked,
                        minted, restore, faults, left, lost, cut, Saves>>
    BY <1>1, ClientCredential DEF ReadRefused, Presents
<1>3. TypeOK'
    BY <1>2 DEF Inv, TypeOK, Saves
<1>4. /\ Named' = Named /\ Owed' = Owed /\ Apart' /\ Presentable' = Presentable
      /\ Missing' = Missing /\ \A n : Landed(n)' <=> Landed(n)
    BY <1>2, NothingSaved DEF Owed, Request
<1>5. Stored'
    BY <1>2, <1>4 DEF Inv, Stored, Found
<1>6. ClientsFollow'
    <2>1. /\ turn' = turn /\ Request' = Request /\ Before' = Before /\ Done' = Done
          /\ \A h \in Hosts : Swapping(h)' = Swapping(h)
          /\ UNCHANGED <<deployment, restore, unbuilt, known, live>>
        BY <1>2 DEF Request, Before, Done, Swapping, Saves
    <2>2. \A h \in Hosts : ~Swapping(h) => Follows(h, known[h], live[h])'
        BY <1>4, <2>1, FollowsKept DEF Inv
    <2>3. \A h \in Hosts : Swapping(h) => (live[h] = SwappedIn(Request, Before.record))'
        BY <2>1 DEF Inv, ClientsFollow, SwappedIn, EndpointDiffers
    <2>4. turn # None /\ ~Done => Follows(Request.host, known[Request.host], Before.client)'
        BY <1>4, <2>1, BeforeFollows DEF Inv
    <2>. QED
        BY <2>1, <2>2, <2>3, <2>4 DEF ClientsFollow
<1>7. TurnKeeps'
    BY <1>2, <1>4 DEF Inv, TurnKeeps, Done, Swapping, Request, Before
<1>8. TurnFits'
    BY <1>2 DEF Inv, TurnFits, Request, Before, EndpointDiffers
<1>9. TurnCredential'
    <2>1. turn # None /\ turn.step \in {"put", "save"} /\ Mints(Request) => turn.credential # id
        BY <1>2 DEF Inv, TurnCredential, Presentable
    <2>2. turn # None /\ turn.step = "forget" => turn.forget # id
        BY <1>2 DEF Inv, TurnCredential
    <2>3. turn' = turn /\ Request' = Request /\ Before' = Before
        BY <1>2 DEF Request, Before
    <2>. QED
        BY <1>2, <1>4, <2>1, <2>2, <2>3 DEF Inv, TurnCredential, Found, Saves
<1>10. WaitingValid'
    BY <1>2 DEF Inv, WaitingValid, Invalid, ResolvesTo, Distribution, OnItsHost
<1>11. NumbersApart'
    BY <1>2, <1>4 DEF Inv, NumbersApart
<1>. QED
    BY <1>3, <1>4, <1>5, <1>6, <1>7, <1>8, <1>9, <1>10, <1>11 DEF Inv

LEMMA LoseSecretStep == ASSUME Inv, NEW id \in SecretIds, LoseSecret(id) PROVE Inv'
<1>1. /\ faults < MaxFaults /\ faults' = faults + 1
      /\ id \in secrets /\ secrets' = secrets \ {id} /\ lost' = lost \cup {id}
      /\ UNCHANGED <<store, live, refused, deployment, waiting, turn, finished, audit, asked,
                     minted, restore, left, cut, denied, Saves>>
    BY DEF LoseSecret
<1>2. TypeOK'
    <2>1. faults' \in 0..MaxFaults
        BY <1>1, Distinct DEF Inv, TypeOK
    <2>. QED
        BY <1>1, <2>1 DEF Inv, TypeOK, Saves
<1>3. /\ Named' = Named /\ Owed' = Owed /\ Apart' /\ Presentable' = Presentable
      /\ Missing \subseteq Missing' /\ \A n : Landed(n)' <=> Landed(n)
    BY <1>1, NothingSaved DEF Owed, Request
<1>4. Stored'
    <2>1. id \in Missing'
        BY <1>1 DEF Missing
    <2>. QED
        BY <1>1, <1>3, <2>1 DEF Inv, Stored, Found
<1>5. ClientsFollow'
    <2>1. /\ turn' = turn /\ Request' = Request /\ Before' = Before /\ Done' = Done
          /\ \A h \in Hosts : Swapping(h)' = Swapping(h)
          /\ UNCHANGED <<deployment, restore, unbuilt, known, live>>
        BY <1>1 DEF Request, Before, Done, Swapping, Saves
    <2>2. \A h \in Hosts : ~Swapping(h) => Follows(h, known[h], live[h])'
        BY <1>3, <2>1, FollowsKept DEF Inv
    <2>3. \A h \in Hosts : Swapping(h) => (live[h] = SwappedIn(Request, Before.record))'
        BY <2>1 DEF Inv, ClientsFollow, SwappedIn, EndpointDiffers
    <2>4. turn # None /\ ~Done => Follows(Request.host, known[Request.host], Before.client)'
        BY <1>3, <2>1, BeforeFollows DEF Inv
    <2>. QED
        BY <2>1, <2>2, <2>3, <2>4 DEF ClientsFollow
<1>6. TurnKeeps'
    BY <1>1, <1>3 DEF Inv, TurnKeeps, Done, Swapping, Request, Before
<1>7. TurnFits'
    BY <1>1 DEF Inv, TurnFits, Request, Before, EndpointDiffers
<1>8. TurnCredential'
    BY <1>1, <1>3 DEF Inv, TurnCredential, Found, Request, Before, Saves
<1>9. WaitingValid'
    BY <1>1 DEF Inv, WaitingValid, Invalid, ResolvesTo, Distribution, OnItsHost
<1>10. NumbersApart'
    BY <1>1, <1>3 DEF Inv, NumbersApart
<1>. QED
    BY <1>2, <1>3, <1>4, <1>5, <1>6, <1>7, <1>8, <1>9, <1>10 DEF Inv

--------------------------------------------------------------------------------
(* What the registries guarantee.                                          *)

LEMMA InvNext ==
    ASSUME Inv, [ConnectionsNext]_connectionsVars PROVE Inv'
<1>1. CASE Ask
    BY <1>1, AskStep
<1>2. CASE \E c \in waiting : Take(c)
    BY <1>2, TakeStep
<1>3. CASE FailProof
    BY <1>3, FailProofStep
<1>4. CASE Prove
    BY <1>4, ProveStep
<1>5. CASE FailMint
    BY <1>5, FailMintStep
<1>6. CASE PutSecret
    BY <1>6, PutSecretStep
<1>7. CASE SwapFirst
    BY <1>7, SwapFirstStep
<1>8. CASE Saved
    BY <1>8, SavedStep
<1>9. CASE NotSaved
    BY <1>9, NotSavedStep
<1>10. CASE Forget
    BY <1>10, ForgetStep
<1>11. CASE \E f \in finished : Audit(f)
    BY <1>11, AuditStep
<1>12. CASE \E answered \in SUBSET Hosts : RestoreWith(answered)
    BY <1>12, RestoreWithStep
<1>13. CASE RestoreUnread
    BY <1>13, RestoreUnreadStep
<1>14. CASE \E r \in Repositories : ReadRefused(HostOf[r], r)
    BY <1>14, ReadRefusedStep
<1>15. CASE \E id \in SecretIds : LoseSecret(id)
    BY <1>15, LoseSecretStep
<1>16. CASE Crash
    BY <1>16, CrashStep
<1>17. CASE UNCHANGED connectionsVars
    BY <1>17, StutterStep
<1>. QED
    BY <1>1, <1>2, <1>3, <1>4, <1>5, <1>6, <1>7, <1>8, <1>9, <1>10, <1>11, <1>12, <1>13,
       <1>14, <1>15, <1>16, <1>17 DEF ConnectionsNext

\* A client read through, and the record it was made for.
LEMMA ClientFacts ==
    ASSUME Inv, turn = None, NEW h \in Hosts, live[h] # None
    PROVE  /\ known[h] # None /\ ~EndpointDiffers(h, known[h].endpoint)
           /\ live[h].repositories = RepositoryNames(known[h])
           /\ ~known[h].credential => live[h].credential = None /\ ~live[h].unreadable
           /\ known[h].credential =>
                 \/ live[h].credential = known[h].secret /\ ~live[h].unreadable
                 \/ live[h].credential = None /\ live[h].unreadable
<1>1. Describes(h, known[h], live[h])
    BY DEF Inv, ClientsFollow, Follows, Swapping
<1>2. /\ known[h] # None /\ ~EndpointDiffers(h, known[h].endpoint)
      /\ LET with(id) == Connect(known[h], id, RepositoryNames(known[h])) IN
         \/ live[h] = with(IF known[h].credential THEN known[h].secret ELSE None)
         \/ known[h].credential /\ live[h] = [with(None) EXCEPT !.unreadable = TRUE]
    BY <1>1 DEF Describes
<1>. QED
    BY <1>2 DEF Connect

\* The invariant implies what the runs check.
LEMMA InvAgrees == Inv => ConnectionsAgree
<1>. SUFFICES ASSUME Inv PROVE ConnectionsAgree
    OBVIOUS
<1>1. RecordedCredentialIsStored
    BY DEF Inv, Stored, RecordedCredentialIsStored
<1>2. LiveClientIsTheRecorded
    <2>1. SUFFICES ASSUME turn = None, restore = "complete", NEW h \in Hosts
                   PROVE  /\ known[h] # store[h] => \E u \in unanswered : u.host = h
                          /\ IF known[h] = None THEN live[h] = None
                             ELSE IF EndpointDiffers(h, known[h].endpoint) THEN live[h] = None
                             ELSE LET record == known[h]
                                      with(id) == Connect(record, id, RepositoryNames(record)) IN
                                  \/ live[h] = with(IF record.credential THEN record.secret ELSE None)
                                  \/ /\ record.credential /\ record.secret \in Missing
                                     /\ live[h] = [with(None) EXCEPT !.unreadable = TRUE]
                                  \/ h \in unbuilt /\ live[h] = None
        BY DEF LiveClientIsTheRecorded
    <2>2. Describes(h, known[h], live[h]) /\ Complete(h, known[h], live[h])
        BY <2>1 DEF Inv, ClientsFollow, Follows, Swapping
    <2>3. known[h] # None /\ ~EndpointDiffers(h, known[h].endpoint) =>
             \/ live[h] = None /\ h \in unbuilt
             \/ live[h] # None /\ (live[h].unreadable => known[h].secret \in Missing)
        BY <2>1, <2>2 DEF Complete
    <2>4. live[h] = [Connect(known[h], None, RepositoryNames(known[h])) EXCEPT !.unreadable = TRUE]
             => live[h].unreadable
        BY DEF Connect
    <2>5. known[h] # store[h] => \E u \in unanswered : u.host = h
        BY DEF Inv, Apart
    <2>. QED
        BY <2>2, <2>3, <2>4, <2>5 DEF Describes
<1>3. NoTokenLeftUnaccounted
    BY DEF Inv, Stored, Owed, NoTokenLeftUnaccounted
<1>4. RefusedIsNotPresentedAgain
    <2>1. ASSUME NEW h \in Hosts, live[h] # None, live[h].credential \in denied
          PROVE  live[h].credential \in refused
        <3>1. live[h].credential # None
            BY <2>1, Distinct DEF Inv, TypeOK
        <3>2. live[h].credential \in Presentable
            BY <2>1, <3>1, ClientCredential
        <3>. QED
            BY <2>1, <3>2 DEF Inv, Stored
    <2>2. turn # None /\ turn.step = "prove" /\ turn.credential \in denied =>
             turn.credential \in refused
        BY DEF Inv, TurnCredential
    <2>. QED
        BY <2>1, <2>2 DEF RefusedIsNotPresentedAgain
<1>5. ProvenWithItsCredential
    BY RecordSetFacts DEF Inv, Stored, ProvenWithItsCredential, Found
<1>6. ShownAsRead
    <2>1. SUFFICES ASSUME turn = None, NEW r \in Repositories,
                          known[HostOf[r]] = store[HostOf[r]]
                   PROVE  /\ (ImageRead(r) = "credential") <=> Presents(HostOf[r], r)
                          /\ RegisteredFor(r) => r \in live[HostOf[r]].repositories
                          /\ VersionsOf(HostOf[r], r) => r \in live[HostOf[r]].repositories
                          /\ \A h \in Hosts : VersionsOf(h, r) => OnItsHost(h, r)
        BY DEF ShownAsRead
    <2>2. PICK h \in Hosts : h = HostOf[r] /\ known[h] = store[h]
        BY <2>1, Distinct
    <2>3. (ImageRead(r) = "credential") <=> Presents(h, r)
        <3>1. CASE live[h] = None
            BY <2>2, <3>1 DEF ImageRead, ReadBy, Presents
        <3>2. CASE live[h] # None
            <4>1. store[h].secret # None
                <5>1. store[h] \in Records
                    BY <2>1, <2>2, <3>2, ClientFacts DEF Inv, TypeOK
                <5>. QED
                    BY <5>1, RecordFacts, Distinct
            <4>. QED
                BY <2>1, <2>2, <3>2, <4>1, ClientFacts
                DEF ImageRead, ReadBy, Presents, CredentialState, HoldsRepository, Found
        <3>. QED
            BY <3>1, <3>2
    <2>4. RegisteredFor(r) => r \in live[h].repositories
        BY <2>1, <2>2, ClientFacts DEF RegisteredFor, HoldsRepository
    <2>5. VersionsOf(h, r) => r \in live[h].repositories
        BY <2>1, <2>2, ClientFacts DEF VersionsOf, HoldsRepository
    <2>6. ASSUME NEW g \in Hosts, VersionsOf(g, r) PROVE OnItsHost(g, r)
        BY <2>6, RecordSetFacts
        DEF VersionsOf, HoldsRepository, OnItsHost, Inv, Stored, Found
    <2>. QED
        BY <2>2, <2>3, <2>4, <2>5, <2>6
<1>. QED
    BY <1>1, <1>2, <1>3, <1>4, <1>5, <1>6 DEF ConnectionsAgree, Inv

\* In every state a process reaches, whichever store fails, or answers an error for a
\* write that landed, the record set, the secret store and the installed clients agree: a
\* recorded credential is stored unless somebody removed it or the very save that recorded
\* it was not answered, no token is left that nothing accounts for, every registry is read
\* through the record its last answered change or restore saw, and a credential its realm
\* refused is not presented again (registries/service).
THEOREM RegistriesAgreeWithStores == ConnectionsSpec => []ConnectionsAgree
<1>1. ConnectionsInit => Inv
    BY InvInit
<1>2. Inv /\ [ConnectionsNext]_connectionsVars => Inv'
    BY InvNext
<1>3. Inv => ConnectionsAgree
    BY InvAgrees
<1>. QED
    BY <1>1, <1>2, <1>3, PTL DEF ConnectionsSpec

\* A change that ends in a refusal leaves its registry recorded and read through as it
\* was when its turn began, whichever of its steps was refused; where the refusal is a save
\* that landed without an answer, the whole change is recorded and nothing else, and the
\* registry is read through as it was (turn.rs, withdraw.rs).
THEOREM RefusedChangesLeaveNothing ==
    ConnectionsSpec => [][FailureLeavesItAsItWas]_connectionsVars
<1>1. ConnectionsInit => Inv
    BY InvInit
<1>2. Inv /\ [ConnectionsNext]_connectionsVars => Inv'
    BY InvNext
<1>3. Inv /\ [ConnectionsNext]_connectionsVars => [FailureLeavesItAsItWas]_connectionsVars
    <2>1. SUFFICES ASSUME Inv, ConnectionsNext, NEW f \in finished' \ finished, turn # None,
                          f.outcome # "succeeded"
                   PROVE  /\ live'[f.request.host] = turn.before.client
                          /\ store'[f.request.host] =
                                IF \E u \in unanswered' : u.number = f.number
                                THEN NewRecord(turn.change.request, turn.before.record,
                                               turn.credential)
                                ELSE turn.before.record
        BY DEF FailureLeavesItAsItWas
    <2>2. PICK h \in Hosts, n \in 1..asked : h = Request.host /\ n = turn.change.number
        BY <2>1, TurnTyped DEF Inv
    <2>3. ASSUME NEW outcome, Finish(turn.change, outcome)
          PROVE  f.request = Request /\ f.outcome = outcome /\ f.number = n
        BY <2>1, <2>2, <2>3 DEF Finish, Request
    <2>4. ASSUME ~Done, turn.step # "save", UNCHANGED <<store, live, unanswered>>,
                 NEW outcome, Finish(turn.change, outcome)
          PROVE  /\ live'[f.request.host] = Before.client
                 /\ store'[f.request.host] =
                       IF \E u \in unanswered' : u.number = f.number
                       THEN NewRecord(Request, Before.record, turn.credential)
                       ELSE Before.record
        <3>1. live[h] = Before.client /\ f.request.host = h /\ f.number = n
            BY <2>1, <2>2, <2>3, <2>4 DEF Inv, TurnKeeps, Swapping
        <3>2. store[h] = IF Landed(n) THEN NewRecord(Request, Before.record, turn.credential)
                         ELSE Before.record
            <4>1. CASE turn.step = "forget"
                BY <2>1, <2>2, <2>4, <4>1 DEF Inv, TurnKeeps
            <4>2. CASE turn.step # "forget"
                BY <2>1, <2>2, <4>2 DEF Inv, TurnKeeps, NumbersApart
            <4>. QED
                BY <4>1, <4>2
        <3>. QED
            BY <2>4, <3>1, <3>2 DEF Landed
    <2>5. CASE FailProof \/ FailMint
        BY <2>4, <2>5 DEF FailProof, FailMint, Done, Saves, Request, Before
    <2>6. CASE PutSecret
        BY <2>1, <2>4, <2>6 DEF PutSecret, Done, Saves, Request, Before
    <2>7. CASE NotSaved
        <3>1. f.request = Request /\ f.number = n /\ turn.step = "save"
            BY <2>1, <2>3, <2>7 DEF NotSaved, Continue
        <3>2. live'[h] = Before.client
            <4>1. live' = [live EXCEPT ![h] = Before.client]
                BY <2>2, <2>7 DEF NotSaved, Request, Before
            <4>2. live \in [Hosts -> Clients \cup {None}]
                BY <2>1 DEF Inv, TypeOK
            <4>. QED
                BY <4>1, <4>2
        <3>3. store[h] = Before.record /\ ~Landed(n)
            BY <2>1, <2>2, <3>1 DEF Inv, TurnKeeps, NumbersApart
        <3>4. CASE UNCHANGED <<store, unanswered>>
            BY <2>2, <3>1, <3>2, <3>3, <3>4 DEF Landed, Request, Before
        <3>5. PICK new : new = NewRecord(Request, Before.record, turn.credential)
            OBVIOUS
        <3>6. \/ UNCHANGED <<store, unanswered>>
              \/ /\ store' = [store EXCEPT ![h] = new]
                 /\ \E u \in unanswered' : u.number = n
            <4>1. PICK u : u = [number |-> n, host |-> h, credential |-> Unsaved(Request, turn.credential)]
                OBVIOUS
            <4>2. u.number = n
                BY <4>1
            <4>3. \/ UNCHANGED <<store, left, unanswered>>
                  \/ store' = [store EXCEPT ![h] = new] /\ unanswered' = unanswered \cup {u}
                BY <2>2, <2>7, <3>5, <4>1 DEF NotSaved, NotRecorded, Request, Before
            <4>. QED
                BY <4>2, <4>3
        <3>7. CASE /\ store' = [store EXCEPT ![h] = new]
                   /\ \E u \in unanswered' : u.number = n
            <4>1. store'[h] = new
                <5>1. store \in [Hosts -> Records \cup {None}]
                    BY <2>1 DEF Inv, TypeOK
                <5>. QED
                    BY <3>7, <5>1
            <4>. QED
                BY <2>2, <3>1, <3>2, <3>5, <3>7, <4>1 DEF Request, Before
        <3>. QED
            BY <3>4, <3>6, <3>7
    <2>8. CASE Saved
        BY <2>1, <2>3, <2>8 DEF Saved, Continue
    <2>9. CASE Forget
        BY <2>1, <2>3, <2>4, <2>9 DEF Forget, Done, Saves, Request, Before
    <2>10. CASE finished' \subseteq finished \/ turn = None
        BY <2>1, <2>10
    <2>. QED
        BY <2>1, <2>5, <2>6, <2>7, <2>8, <2>9, <2>10
        DEF ConnectionsNext, Ask, Refused, Take, Prove, SwapFirst, Audit, RestoreWith,
            RestoreUnread, ReadRefused, LoseSecret, Crash
<1>. QED
    BY <1>1, <1>2, <1>3, PTL DEF ConnectionsSpec

================================================================================
