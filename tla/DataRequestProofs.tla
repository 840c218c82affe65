-------------------------- MODULE DataRequestProofs --------------------------
(***************************************************************************)
(* Tenants kept apart, for every set of requests, tenants, generations,    *)
(* calls and rows, and any number of attempts: no interleaving of requests *)
(* with installed generations, failures of the wire and calls that run     *)
(* late makes a request reach, show or change another tenant's row, nor    *)
(* makes it be told what is not so.                                        *)
(*                                                                         *)
(* A request shares nothing with another but the table.  So what is known  *)
(* of one is an invariant of its own fields (Sound), kept by its own steps *)
(* and untouched by those of others; and of the table it is enough that    *)
(* every row is where its owner was placed (Kept).                         *)
(***************************************************************************)
EXTENDS DataRequest, FiniteSetTheorems, FunctionTheorems, TLAPS

\* A row of the table: of a tenant, written by it, where it was placed.
OwnRow(row) ==
  /\ DOMAIN row = {"db", "id", "disc", "owner", "by"}
  /\ row.owner \in Tenants /\ row.by = row.owner /\ WellPlaced(row)

Kept == IsFiniteSet(table) /\ \A row \in table : OwnRow(row)

\* The values the variables may have, the domains of all of them included.
Shape ==
  /\ DataTypeOK
  /\ DOMAIN granted = Requests /\ DOMAIN wire = Requests /\ DOMAIN answer = Requests
  /\ applied \in [Requests -> Nat]
  /\ \A r \in Requests : pc[r] = "idle" => attempt[r] = 0

\* Nothing was sent before its time, nothing came back of what did not run,
\* and nothing is answered before the answer.
Phased(r) ==
  /\ pc[r] \in {"idle", "routed", "authorizing", "authorized", "routing", "sending"} =>
       backend[r] = "none"
  /\ pc[r] # "answered" => answer[r] = NoAnswer
  /\ backend[r] # "ran" => ran[r] = "no" /\ wire[r] = NoWire /\ applied[r] = 0

\* Past the decision, the caller has the scope and the Check allowed what will
\* be executed.
Granted(r) ==
  pc[r] \in {"authorized", "routing", "sending", "waiting"} =>
    /\ call[r].scoped
    /\ RequiresCheck(call[r]) => granted[r] = CheckTarget(call[r])

\* What is routed, sent or held by the backend was refused by nothing, in the
\* generation it was pinned to.
Prepared(r) ==
  (pc[r] \in {"routing", "sending", "waiting"} \/ backend[r] # "none") => Refusal(r) = NoAnswer

\* What a page says of the collection.
PageOf(rows, count, asked) ==
  /\ IsFiniteSet(rows) /\ count \in Nat
  /\ Cardinality(rows) = IF count < asked THEN count ELSE asked

\* A row of the caller's tenant, where its generation places the tenant.
InPlace(r, row) == row.owner = call[r].tenant /\ row.db = Placement(r).db

\* What came back tells how much the backend ran, and of whose rows.
Relayed(r) ==
  backend[r] = "ran" =>
    /\ wire[r].kind \in {"rows", "count", "Rejected422", "Rejected500"}
    /\ wire[r].kind = "rows" =>
         /\ ~IsWrite(call[r].op)
         /\ PageOf(wire[r].rows, wire[r].count, AskedRows(call[r]))
         /\ \A row \in wire[r].rows : InPlace(r, row)
    /\ wire[r].kind = "count" =>
         /\ IsWrite(call[r].op) /\ ran[r] # "no"
         /\ ran[r] = "partly" => call[r].op = "create" /\ wire[r].count < call[r].count
    /\ wire[r].kind = "Rejected422" => ran[r] = "no"
    /\ ~IsWrite(call[r].op) => applied[r] = 0
    /\ call[r].op = "create" => applied[r] <= call[r].count

\* What was answered is so, and stays so whatever the backend still runs.
ToldTheTruth(r) ==
  pc[r] = "answered" =>
    /\ ~call[r].scoped => answer[r].code \in {"forbidden", "unknown_resource", "bad_request",
                                             "identity", "timeout"}
    /\ IsWrite(call[r].op) =>
         /\ answer[r].claim = "notApplied" => ran[r] = "no" /\ backend[r] # "pending"
         /\ answer[r].claim \in {"applied", "partial"} => ran[r] # "no"
         /\ answer[r].status = 200 => ran[r] = "fully"
         /\ answer[r].status = 503 => backend[r] = "none"
    /\ call[r].op = "list" /\ answer[r].status = 200 =>
         /\ backend[r] = "ran"
         /\ answer[r].more <=> wire[r].count > EffectiveLimit(call[r])
         /\ Cardinality(answer[r].rows) =
              IF wire[r].count > EffectiveLimit(call[r]) THEN EffectiveLimit(call[r])
              ELSE wire[r].count

\* What is shown is the caller's, in the columns its generation lets it see.
Disclosed(r) ==
  \A shown \in answer[r].rows :
    /\ InPlace(r, shown.row)
    /\ shown.columns = VisibleColumns(Entry(r), Placement(r))

Sound(r) == /\ Phased(r) /\ Granted(r) /\ Prepared(r) /\ Relayed(r) /\ ToldTheTruth(r)
            /\ Disclosed(r)

------------------------------------------------------------------------------
(* The steps, and whom they concern.                                       *)

Step(r) == \/ Arrive(r) \/ Pin(r) \/ Authorize(r) \/ Prepare(r) \/ Route(r) \/ Send(r)
           \/ TimeOut(r) \/ RequestTimeout(r) \/ RunBackend(r) \/ Decode(r)

\* Nothing of a request changed.
Same(r) == /\ pc'[r] = pc[r] /\ call'[r] = call[r] /\ pinned'[r] = pinned[r]
           /\ granted'[r] = granted[r] /\ backend'[r] = backend[r] /\ wire'[r] = wire[r]
           /\ answer'[r] = answer[r] /\ ran'[r] = ran[r] /\ applied'[r] = applied[r]

\* What authorizing comes to: the request goes on, or is refused for it.
LEMMA Decided ==
    ASSUME NEW r \in Requests, Authorize(r)
    PROVE  \/ /\ pc' = [pc EXCEPT ![r] = "authorized"] /\ UNCHANGED answer
              /\ call[r].scoped
              /\ RequiresCheck(call[r]) => granted' = [granted EXCEPT ![r] = CheckTarget(call[r])]
           \/ /\ pc' = [pc EXCEPT ![r] = "answered"]
              /\ \E a \in {Forbidden, Told(503, "authorization_unavailable", "none"),
                           Told(500, "internal", "none")} :
                   /\ answer' = [answer EXCEPT ![r] = a]
                   /\ ~call[r].scoped => a = Forbidden
<1>1. PICK decision \in Decisions(call[r]) :
        /\ granted' = IF decision = "allowed" THEN [granted EXCEPT ![r] = CheckTarget(call[r])]
                      ELSE granted
        /\ CASE decision \in {"permitted", "allowed"} ->
                  pc' = [pc EXCEPT ![r] = "authorized"] /\ UNCHANGED answer
             [] decision = "denied" -> Reply(r, Forbidden)
             [] decision = "unavailable" ->
                  Reply(r, Told(503, "authorization_unavailable", "none"))
             [] decision = "internal" -> Reply(r, Told(500, "internal", "none"))
    BY DEF Authorize
<1>2. /\ decision \in {"permitted", "denied", "allowed", "unavailable", "internal"}
      /\ ~call[r].scoped => decision = "denied"
      /\ decision = "permitted" => ~RequiresCheck(call[r])
    <2>1. CASE ~ScopePermits(call[r])
        <3>1. Decisions(call[r]) = {"denied"}
            BY <2>1 DEF Decisions
        <3>. QED
            BY <2>1, <3>1 DEF ScopePermits
    <2>2. CASE ScopePermits(call[r]) /\ ~RequiresCheck(call[r])
        <3>1. Decisions(call[r]) = {"permitted"}
            BY <2>2 DEF Decisions
        <3>. QED
            BY <2>2, <3>1 DEF ScopePermits
    <2>3. CASE ScopePermits(call[r]) /\ RequiresCheck(call[r])
        <3>1. Decisions(call[r]) \in {{"denied"}, CheckAnswers}
            BY <2>3 DEF Decisions
        <3>. QED
            BY <2>3, <3>1 DEF ScopePermits, CheckAnswers
    <2>. QED
        BY <2>1, <2>2, <2>3 DEF ScopePermits
<1>3. CASE decision \in {"permitted", "allowed"}
    <2>1. pc' = [pc EXCEPT ![r] = "authorized"] /\ UNCHANGED answer
        BY <1>1, <1>3
    <2>2. decision = "allowed" => granted' = [granted EXCEPT ![r] = CheckTarget(call[r])]
        BY <1>1
    <2>. QED
        BY <1>2, <1>3, <2>1, <2>2
<1>4. CASE decision = "denied"
    BY <1>1, <1>4 DEF Reply
<1>5. CASE decision = "unavailable"
    BY <1>1, <1>2, <1>5 DEF Reply
<1>6. CASE decision = "internal"
    BY <1>1, <1>2, <1>6 DEF Reply
<1>. QED
    BY <1>2, <1>3, <1>4, <1>5, <1>6

\* A step of one request leaves the others alone.
LEMMA OthersKeep ==
    ASSUME Shape, NEW r \in Requests, Step(r), NEW s \in Requests, s # r
    PROVE  Same(s)
<1>1. CASE Arrive(r)
    BY <1>1 DEF Arrive, Same, Shape, DataTypeOK
<1>2. CASE Pin(r)
    BY <1>2 DEF Pin, Reply, Same, Shape, DataTypeOK
<1>3. CASE Authorize(r)
    <2>1. granted' = granted \/ granted' = [granted EXCEPT ![r] = CheckTarget(call[r])]
        BY <1>3 DEF Authorize
    <2>2. /\ \E there \in {"authorized", "answered"} : pc' = [pc EXCEPT ![r] = there]
          /\ answer' = answer \/ \E a : answer' = [answer EXCEPT ![r] = a]
        BY <1>3, Decided
    <2>. QED
        BY <1>3, <2>1, <2>2 DEF Authorize, Same, Shape, DataTypeOK
<1>4. CASE Prepare(r) \/ Route(r) \/ Send(r) \/ TimeOut(r) \/ RequestTimeout(r)
    BY <1>4 DEF Prepare, Route, Send, TimeOut, RequestTimeout, Reply, Same, Shape, DataTypeOK
<1>5. CASE RunBackend(r)
    BY <1>5 DEF RunBackend, Same, Shape, DataTypeOK
<1>6. CASE Decode(r)
    BY <1>6 DEF Decode, Reply, Same, Shape, DataTypeOK
<1>. QED
    BY <1>1, <1>2, <1>3, <1>4, <1>5, <1>6 DEF Step

\* What a request is judged by depends on its call and its generation only.
LEMMA SameJudgement ==
    ASSUME NEW r \in Requests, call'[r] = call[r], pinned'[r] = pinned[r]
    PROVE  /\ Entry(r)' = Entry(r) /\ Placement(r)' = Placement(r) /\ Refusal(r)' = Refusal(r)
<1>1. Entry(r)' = Entry(r) /\ Placement(r)' = Placement(r)
    BY DEF Entry, Placement
<1>2. Accepted(r)' = Accepted(r)
    <2>1. ListAccepted(r)' = ListAccepted(r)
        BY <1>1 DEF ListAccepted, ParsedQuery
    <2>2. CreateAccepted(r)' = CreateAccepted(r) /\ UpdateAccepted(r)' = UpdateAccepted(r)
        BY <1>1 DEF CreateAccepted, UpdateAccepted, ToRow
    <2>. QED
        BY <2>1, <2>2 DEF Accepted
<1>. QED
    BY <1>1, <1>2 DEF Refusal

\* A request of which nothing changed is as sound as it was.
LEMMA Unmoved ==
    ASSUME NEW r \in Requests, Same(r), Sound(r)
    PROVE  Sound(r)'
<1>1. Entry(r)' = Entry(r) /\ Placement(r)' = Placement(r) /\ Refusal(r)' = Refusal(r)
    BY SameJudgement DEF Same
<1>2. Phased(r)' /\ Granted(r)' /\ Prepared(r)'
    BY <1>1 DEF Same, Sound, Phased, Granted, Prepared
<1>3. Relayed(r)' /\ ToldTheTruth(r)'
    BY <1>1 DEF Same, Sound, Relayed, InPlace, ToldTheTruth
<1>4. Disclosed(r)'
    BY <1>1 DEF Same, Sound, Disclosed, InPlace
<1>. QED
    BY <1>2, <1>3, <1>4 DEF Sound

------------------------------------------------------------------------------
(* What is told.                                                           *)

\* The ways a connector fails.
Kinds == {"UnknownConnector", "Unsupported", "SecretUnavailable", "Unreachable", "Rejected422",
          "OutcomeUnknown", "Rejected500", "ResultLost", "Malformed", "Invalid"}

\* A failed connector is answered without rows; a write is only told to retry
\* when it was not reached, and to have failed or happened when it did.
LEMMA ConnectorTells ==
    ASSUME NEW kind \in Kinds, NEW op \in Operations
    PROVE  /\ ConnectorAnswer(kind, op).rows = {}
           /\ ConnectorAnswer(kind, op).status \in {400, 500, 502, 503}
           /\ IsWrite(op) /\ ConnectorAnswer(kind, op).status = 503 => kind = "Unreachable"
           /\ ConnectorAnswer(kind, op).claim \in {"none", "notApplied", "unknown", "applied"}
           /\ ConnectorAnswer(kind, op).claim = "notApplied" =>
                kind \in {"UnknownConnector", "SecretUnavailable", "Unreachable", "Rejected422", "Invalid"}
           /\ ConnectorAnswer(kind, op).claim = "unknown" => kind \in {"OutcomeUnknown", "Rejected500"}
           /\ ConnectorAnswer(kind, op).claim = "applied" => kind \in {"ResultLost", "Malformed"}
<1>1. CASE kind = "Unreachable"
    BY <1>1 DEF ConnectorAnswer, Told
<1>2. CASE kind = "Unsupported"
    BY <1>2 DEF ConnectorAnswer, Told
<1>3. CASE kind \in {"OutcomeUnknown", "ResultLost"}
    BY <1>3 DEF ConnectorAnswer, Told
<1>4. CASE kind \in {"UnknownConnector", "SecretUnavailable", "Rejected422", "Rejected500", "Malformed",
                   "Invalid"}
    <2>1. ConnectorAnswer(kind, op) =
              Told(500, "execution_failed", IF IsWrite(op) THEN Effect(kind) ELSE "none")
        BY <1>4 DEF ConnectorAnswer
    <2>2. /\ kind \in {"UnknownConnector", "SecretUnavailable", "Rejected422", "Invalid"} =>
                Effect(kind) = "notApplied"
          /\ kind = "Rejected500" => Effect(kind) = "unknown"
          /\ kind = "Malformed" => Effect(kind) = "applied"
        BY DEF Effect
    <2>. QED
        BY <1>4, <2>1, <2>2 DEF Told
<1>. QED
    BY <1>1, <1>2, <1>3, <1>4 DEF Kinds

\* What is asked is one of the operations, of one of the tenants.
LEMMA OpOf ==
    ASSUME Shape, NEW r \in Requests
    PROVE  /\ call[r].op \in Operations /\ call[r].tenant \in Tenants
           /\ call[r].count \in Nat /\ call[r].limit \in Nat
    BY CallsAssumption DEF Shape, DataTypeOK, Operations

\* A request that nothing refuses is pinned, accepted, and placed.
LEMMA NotRefused ==
    ASSUME Shape, NEW r \in Requests, Refusal(r) = NoAnswer
    PROVE  /\ pinned[r] \in DOMAIN Views /\ Accepted(r) /\ Placement(r).kind = "bound"
<1>1. \A kind \in {"UnknownConnector", "Unsupported"} :
         ConnectorAnswer(kind, call[r].op) # NoAnswer
    <2>1. call[r].op \in Operations
        BY CallsAssumption DEF Shape, DataTypeOK, Operations
    <2>2. NoAnswer.status = 0
        BY DEF NoAnswer
    <2>. QED
        BY <2>1, <2>2, ConnectorTells DEF Kinds
<1>2. \A status \in Nat \ {0} : \A code, claim : Told(status, code, claim) # NoAnswer
    BY DEF Told, NoAnswer
<1>3. pinned[r] # 0 /\ Accepted(r) /\ Placement(r).kind \notin {"unknown", "unbound"}
    BY <1>1, <1>2 DEF Refusal
<1>4. pinned[r] \in DOMAIN Views
    BY <1>3, ViewsAssumption DEF Shape, DataTypeOK
<1>5. call[r].tenant \in Tenants
    BY CallsAssumption DEF Shape, DataTypeOK
<1>. QED
    BY <1>3, <1>4, <1>5, ViewsAssumption DEF Placement

\* A refusal shows nothing and claims no more than that nothing was applied.
LEMMA Refused ==
    ASSUME Shape, NEW r \in Requests, Refusal(r) # NoAnswer
    PROVE  /\ Refusal(r).rows = {} /\ Refusal(r).status # 200
           /\ Refusal(r).claim \in {"none", "notApplied"}
<1>1. call[r].op \in Operations
    BY CallsAssumption DEF Shape, DataTypeOK, Operations
<1>. DEFINE Harmless(a) == a.rows = {} /\ a.status # 200 /\ a.claim \in {"none", "notApplied"}
<1>2. \A kind \in {"UnknownConnector", "Unsupported"} : Harmless(ConnectorAnswer(kind, call[r].op))
    BY <1>1, ConnectorTells DEF Kinds
<1>3. \A status \in {400, 403, 405, 500, 503} : \A code : Harmless(Told(status, code, "none"))
    BY DEF Told
<1>. HIDE DEF Harmless
<1>4. Harmless(Refusal(r))
    BY <1>2, <1>3 DEF Refusal
<1>. QED
    BY <1>4 DEF Harmless

\* An answer without rows leaves a request sound if it tells the truth.
LEMMA Replied ==
    ASSUME Shape, NEW r \in Requests, Sound(r), NEW a, Reply(r, a),
           UNCHANGED <<call, backend, wire, ran, applied>>,
           backend[r] # "none" => pinned'[r] = pinned[r],
           a.rows = {}, a.status # 200,
           ~call[r].scoped => a.code \in {"forbidden", "unknown_resource", "bad_request",
                                          "identity", "timeout"},
           IsWrite(call[r].op) =>
               /\ a.claim = "notApplied" => ran[r] = "no" /\ backend[r] # "pending"
               /\ a.claim \in {"applied", "partial"} => ran[r] # "no"
               /\ a.status = 503 => backend[r] = "none"
    PROVE  Sound(r)'
<1>1. pc'[r] = "answered" /\ answer'[r] = a
    BY DEF Reply, Shape, DataTypeOK
<1>2. Phased(r)' /\ Granted(r)'
    BY <1>1 DEF Sound, Phased, Granted
<1>3. Prepared(r)'
    BY <1>1, SameJudgement DEF Sound, Prepared
<1>4. Relayed(r)'
    <2>1. CASE backend[r] # "none"
        BY <2>1, SameJudgement DEF Sound, Relayed, InPlace
    <2>2. CASE backend[r] = "none"
        BY <2>2 DEF Relayed
    <2>. QED
        BY <2>1, <2>2
<1>5. ToldTheTruth(r)'
    BY <1>1 DEF ToldTheTruth
<1>6. Disclosed(r)'
    BY <1>1 DEF Disclosed
<1>. QED
    BY <1>2, <1>3, <1>4, <1>5, <1>6 DEF Sound

------------------------------------------------------------------------------
(* The steps of a request, up to the wire.                                 *)

\* A request that is sent, or sent again, starts from nothing: what it repeats
\* was not applied.
LEMMA ArriveSound ==
    ASSUME Shape, NEW r \in Requests, Sound(r), Arrive(r)
    PROVE  Sound(r)'
<1>1. /\ pc'[r] = "routed" /\ answer'[r] = NoAnswer /\ backend'[r] = "none"
      /\ wire'[r] = NoWire /\ ran'[r] = "no" /\ applied' = applied
    BY DEF Arrive, Shape, DataTypeOK
<1>2. applied[r] = 0
    <2>1. CASE pc[r] = "idle"
        BY <2>1 DEF Sound, Phased
    <2>2. CASE pc[r] = "answered" /\ answer[r].status = 503 /\ IsWrite(call[r].op)
        BY <2>2 DEF Sound, Phased, ToldTheTruth
    <2>3. CASE pc[r] = "answered" /\ ~IsWrite(call[r].op)
        BY <2>3 DEF Sound, Phased, Relayed
    <2>. QED
        BY <2>1, <2>2, <2>3 DEF Arrive
<1>3. NoAnswer.rows = {}
    BY DEF NoAnswer
<1>4. Phased(r)' /\ Granted(r)' /\ Prepared(r)'
    BY <1>1, <1>2 DEF Phased, Granted, Prepared
<1>5. Relayed(r)' /\ ToldTheTruth(r)'
    BY <1>1 DEF Relayed, ToldTheTruth
<1>6. Disclosed(r)'
    BY <1>1, <1>3 DEF Disclosed
<1>. QED
    BY <1>4, <1>5, <1>6 DEF Sound

\* A request that goes on without an answer keeps what it had.
LEMMA GoesOn ==
    ASSUME Shape, NEW r \in Requests, Sound(r), NEW there,
           pc' = [pc EXCEPT ![r] = there],
           there \in {"authorizing", "authorized", "routing", "sending"},
           backend[r] = "none", pc[r] # "answered",
           UNCHANGED <<call, backend, wire, answer, ran, applied>>,
           Granted(r)', Prepared(r)'
    PROVE  Sound(r)'
<1>1. pc'[r] = there /\ answer[r] = NoAnswer
    BY DEF Shape, DataTypeOK, Sound, Phased
<1>2. NoAnswer.rows = {}
    BY DEF NoAnswer
<1>3. Phased(r)'
    BY <1>1 DEF Sound, Phased
<1>4. Relayed(r)' /\ ToldTheTruth(r)'
    BY <1>1 DEF Relayed, ToldTheTruth
<1>5. Disclosed(r)'
    BY <1>1, <1>2 DEF Disclosed
<1>. QED
    BY <1>3, <1>4, <1>5 DEF Sound

\* Pinning refuses what names nothing, or goes on to the decision.
LEMMA PinSound ==
    ASSUME Shape, NEW r \in Requests, Sound(r), Pin(r)
    PROVE  Sound(r)'
<1>1. backend[r] = "none" /\ ran[r] = "no" /\ pc[r] = "routed"
    BY DEF Pin, Sound, Phased
<1>2. CASE \E a \in {Told(401, "identity", "none"), Told(400, "bad_request", "none"),
                    Told(404, "unknown_resource", "none")} : Reply(r, a)
    <2>1. PICK a \in {Told(401, "identity", "none"), Told(400, "bad_request", "none"),
                     Told(404, "unknown_resource", "none")} : Reply(r, a)
        BY <1>2
    <2>2. /\ a.rows = {} /\ a.status \notin {200, 503} /\ a.claim = "none"
          /\ a.code \in {"unknown_resource", "bad_request", "identity"}
        BY DEF Told
    <2>. QED
        BY <1>1, <2>1, <2>2, Replied DEF Pin
<1>3. CASE pc' = [pc EXCEPT ![r] = "authorizing"] /\ UNCHANGED answer
    <2>1. Granted(r)' /\ Prepared(r)'
        BY <1>1, <1>3 DEF Granted, Prepared, Pin, Shape, DataTypeOK
    <2>. QED
        BY <1>1, <1>3, <2>1, GoesOn DEF Pin
<1>. QED
    BY <1>2, <1>3 DEF Pin

\* Without the scope there is no decision but the refusal.
LEMMA AuthorizeSound ==
    ASSUME Shape, NEW r \in Requests, Sound(r), Authorize(r)
    PROVE  Sound(r)'
<1>1. backend[r] = "none" /\ ran[r] = "no" /\ pc[r] = "authorizing"
    BY DEF Authorize, Sound, Phased
<1>2. UNCHANGED <<call, pinned, backend, wire, ran, applied>>
    BY DEF Authorize
<1>3. CASE /\ pc' = [pc EXCEPT ![r] = "authorized"] /\ UNCHANGED answer
           /\ call[r].scoped
           /\ RequiresCheck(call[r]) => granted' = [granted EXCEPT ![r] = CheckTarget(call[r])]
    <2>1. Granted(r)'
        BY <1>2, <1>3 DEF Granted, Shape
    <2>2. Prepared(r)'
        BY <1>1, <1>2, <1>3 DEF Prepared, Shape, DataTypeOK
    <2>. QED
        BY <1>1, <1>2, <1>3, <2>1, <2>2, GoesOn
<1>4. ASSUME NEW a \in {Forbidden, Told(503, "authorization_unavailable", "none"),
                       Told(500, "internal", "none")},
             Reply(r, a), ~call[r].scoped => a = Forbidden
      PROVE  Sound(r)'
    <2>1. a.rows = {} /\ a.status # 200 /\ a.claim = "none" /\ Forbidden.code = "forbidden"
        BY <1>4 DEF Told, Forbidden
    <2>. QED
        BY <1>1, <1>2, <1>4, <2>1, Replied
<1>. QED
    BY <1>3, <1>4, Decided DEF Reply

\* What nothing refuses goes on to be routed.
LEMMA PrepareSound ==
    ASSUME Shape, NEW r \in Requests, Sound(r), Prepare(r)
    PROVE  Sound(r)'
<1>1. backend[r] = "none" /\ ran[r] = "no" /\ pc[r] = "authorized" /\ call[r].scoped
    BY DEF Prepare, Sound, Phased, Granted
<1>2. UNCHANGED <<call, pinned, granted, backend, wire, ran, applied>>
    BY DEF Prepare
<1>3. CASE Refusal(r) # NoAnswer /\ Reply(r, Refusal(r))
    BY <1>1, <1>2, <1>3, Refused, Replied
<1>4. CASE Refusal(r) = NoAnswer /\ pc' = [pc EXCEPT ![r] = "routing"] /\ UNCHANGED answer
    <2>1. Granted(r)'
        BY <1>1, <1>2 DEF Granted, Sound
    <2>2. Prepared(r)'
        BY <1>2, <1>4, SameJudgement DEF Prepared
    <2>. QED
        BY <1>1, <1>2, <1>4, <2>1, <2>2, GoesOn
<1>. QED
    BY <1>3, <1>4 DEF Prepare

\* The request is routed and translated, or refused before it is sent.
LEMMA RouteSound ==
    ASSUME Shape, NEW r \in Requests, Sound(r), Route(r)
    PROVE  Sound(r)'
<1>1. backend[r] = "none" /\ ran[r] = "no" /\ pc[r] = "routing" /\ call[r].scoped
    BY DEF Route, Sound, Phased, Granted
<1>2. UNCHANGED <<call, pinned, granted, backend, wire, ran, applied>>
    BY DEF Route
<1>3. ASSUME NEW kind \in {"SecretUnavailable", "Invalid", "Unsupported"},
             Reply(r, ConnectorAnswer(kind, call[r].op))
      PROVE  Sound(r)'
    <2>. DEFINE a == ConnectorAnswer(kind, call[r].op)
    <2>1. a.rows = {} /\ a.status # 200 /\ a.claim \in {"none", "notApplied"}
        <3>1. call[r].op \in Operations
            BY OpOf
        <3>. QED
            BY <3>1, ConnectorTells DEF Kinds
    <2>. HIDE DEF a
    <2>. QED
        BY <1>1, <1>2, <1>3, <2>1, Replied DEF a
<1>4. CASE pc' = [pc EXCEPT ![r] = "sending"] /\ UNCHANGED answer
    <2>1. Granted(r)'
        BY <1>1, <1>2 DEF Granted, Sound
    <2>2. Prepared(r)'
        BY <1>1, <1>2, SameJudgement DEF Prepared, Sound
    <2>. QED
        BY <1>1, <1>2, <1>4, <2>1, <2>2, GoesOn
<1>. QED
    BY <1>3, <1>4 DEF Route, RoutingRefusals

\* The connect fails, or the call is out.
LEMMA SendSound ==
    ASSUME Shape, NEW r \in Requests, Sound(r), Send(r)
    PROVE  Sound(r)'
<1>1. backend[r] = "none" /\ ran[r] = "no" /\ pc[r] = "sending" /\ answer[r] = NoAnswer
    BY DEF Send, Sound, Phased
<1>2. UNCHANGED <<call, pinned, granted, wire, ran, applied>> /\ call[r].scoped
    BY <1>1 DEF Send, Sound, Granted
<1>3. CASE Reply(r, ConnectorAnswer("Unreachable", call[r].op)) /\ UNCHANGED backend
    <2>. DEFINE a == ConnectorAnswer("Unreachable", call[r].op)
    <2>1. a.rows = {} /\ a.status # 200 /\ a.claim \in {"none", "notApplied"}
        <3>1. call[r].op \in Operations
            BY OpOf
        <3>. QED
            BY <3>1, ConnectorTells DEF Kinds
    <2>. HIDE DEF a
    <2>. QED
        BY <1>1, <1>2, <1>3, <2>1, Replied DEF a
<1>4. CASE /\ pc' = [pc EXCEPT ![r] = "waiting"]
           /\ backend' = [backend EXCEPT ![r] = "pending"]
           /\ UNCHANGED answer
    <2>1. pc'[r] = "waiting" /\ backend'[r] = "pending" /\ NoAnswer.rows = {}
        BY <1>4 DEF Shape, DataTypeOK, NoAnswer
    <2>2. Phased(r)'
        BY <1>1, <1>2, <1>4, <2>1 DEF Sound, Phased
    <2>3. Granted(r)'
        BY <1>1, <1>2 DEF Sound, Granted
    <2>4. Prepared(r)'
        BY <1>1, <1>2, SameJudgement DEF Sound, Prepared
    <2>5. Relayed(r)' /\ ToldTheTruth(r)' /\ Disclosed(r)'
        BY <1>1, <1>4, <2>1 DEF Relayed, ToldTheTruth, Disclosed
    <2>. QED
        BY <2>2, <2>3, <2>4, <2>5 DEF Sound
<1>. QED
    BY <1>3, <1>4 DEF Send

\* What is given up on may still run, and nothing is said of it.
LEMMA TimeOutSound ==
    ASSUME Shape, NEW r \in Requests, Sound(r), TimeOut(r) \/ RequestTimeout(r)
    PROVE  Sound(r)'
<1>1. UNCHANGED <<call, pinned, backend, wire, ran, applied>>
    BY DEF TimeOut, RequestTimeout
<1>2. CASE TimeOut(r)
    <2>. DEFINE a == ConnectorAnswer("OutcomeUnknown", call[r].op)
    <2>1. /\ a.rows = {} /\ a.status # 200 /\ a.claim \in {"none", "unknown"}
          /\ IsWrite(call[r].op) => a.status # 503
        <3>1. call[r].op \in Operations
            BY OpOf
        <3>. QED
            BY <3>1, ConnectorTells DEF Kinds
    <2>2. call[r].scoped
        BY <1>2 DEF TimeOut, Sound, Granted
    <2>3. Reply(r, a)
        BY <1>2 DEF TimeOut
    <2>. HIDE DEF a
    <2>. QED
        BY <1>1, <2>1, <2>2, <2>3, Replied
<1>3. CASE RequestTimeout(r)
    <2>. DEFINE a == Told(504, "timeout", "none")
    <2>1. /\ a.rows = {} /\ a.status \notin {200, 503} /\ a.claim = "none" /\ a.code = "timeout"
        BY DEF Told
    <2>2. Reply(r, a)
        BY <1>3 DEF RequestTimeout
    <2>. HIDE DEF a
    <2>. QED
        BY <1>1, <2>1, <2>2, Replied
<1>. QED
    BY <1>2, <1>3

------------------------------------------------------------------------------
(* The backend.                                                            *)

\* The rows a request reaches are its own tenant's: elsewhere they are in
\* another database, or carry another value.
LEMMA OwnSelected ==
    ASSUME Shape, Kept, NEW r \in Requests, Refusal(r) = NoAnswer
    PROVE  /\ Selected(r) \subseteq table /\ IsFiniteSet(Selected(r))
           /\ \A row \in Selected(r) : row.owner = call[r].tenant
<1>1. Selected(r) \subseteq table
    BY DEF Selected
<1>2. IsFiniteSet(Selected(r))
    BY <1>1, FS_Subset DEF Kept
<1>3. ASSUME NEW row \in Selected(r)
      PROVE  row.owner = call[r].tenant
    <2>. DEFINE p == Placement(r)
    <2>1. pinned[r] \in DOMAIN Views /\ p.kind = "bound" /\ call[r].tenant \in Tenants
          /\ p = Views[pinned[r]].placement[call[r].tenant]
        BY NotRefused, OpOf DEF Placement
    <2>2. row.db = p.db
        BY DEF Selected
    <2>3. HasDiscriminator(p) => row.disc = p.value
        <3>1. SUFFICES ASSUME HasDiscriminator(p) PROVE row.disc = p.value
            OBVIOUS
        <3>2. <<Discriminator, p.value>> \in ForTarget(call[r], p)
            BY <3>1 DEF ForTarget, TenantPredicate
        <3>3. Matches(row, {<<Discriminator, p.value>>})
            BY <3>2 DEF Selected, Matches
        <3>. QED
            BY <3>3 DEF Matches, Discriminator, KeyField
    <2>4. row.owner \in Tenants /\ WellPlaced(row)
        BY <1>1 DEF Kept, OwnRow
    <2>5. PICK v \in DOMAIN Views :
            LET q == Views[v].placement[row.owner] IN
            /\ q.kind = "bound" /\ row.db = q.db
            /\ HasDiscriminator(q) => row.disc = q.value
            /\ ~HasDiscriminator(q) => row.disc = 0
        BY <2>4 DEF WellPlaced
    <2>. DEFINE q == Views[v].placement[row.owner]
    <2>. HIDE DEF p
    <2>6. ASSUME row.owner # call[r].tenant
          PROVE  HasDiscriminator(p) /\ HasDiscriminator(q) /\ p.value # q.value
        <3>1. \A P, Q : (/\ P = Views[pinned[r]].placement[call[r].tenant]
                         /\ Q = Views[v].placement[row.owner]
                         /\ P.kind = "bound" /\ Q.kind = "bound" /\ P.db = Q.db) =>
                      HasDiscriminator(P) /\ HasDiscriminator(Q) /\ P.value # Q.value
            BY <2>1, <2>4, <2>6, PartitionsApart
        <3>. HIDE DEF q
        <3>. QED
            BY <2>1, <2>2, <2>5, <3>1 DEF q
    <2>7. HasDiscriminator(q) => row.disc = q.value
        BY <2>5
    <2>. HIDE DEF q
    <2>. QED
        BY <2>3, <2>6, <2>7
<1>. QED
    BY <1>1, <1>2, <1>3

\* A finite set of rows changes into a finite set.
LEMMA FiniteChanged ==
    ASSUME NEW S, IsFiniteSet(S), NEW d, NEW c, NEW p
    PROVE  IsFiniteSet({Changed(row, d, c, p) : row \in S})
<1>. DEFINE T == {Changed(row, d, c, p) : row \in S}
            f == [row \in S |-> Changed(row, d, c, p)]
<1>1. f \in Surjection(S, T)
    BY Fun_IsSurj
<1>. QED
    BY <1>1, FS_Surjection

\* What an accepted write is stamped with in a shared table is the tenant's
\* value and no other, whatever the payload names.
LEMMA OwnStamp ==
    ASSUME NEW r \in Requests, Accepted(r), call[r].op \in {"create", "update"},
           NEW d \in Stamped(call[r], Placement(r))
    PROVE  IF HasDiscriminator(Placement(r)) THEN d = Placement(r).value ELSE d = 0
<1>1. ToRow(r)
    BY DEF Accepted, CreateAccepted, UpdateAccepted
<1>2. HasDiscriminator(Placement(r)) => \A f \in call[r].fields : Folded(f) # Discriminator
    BY <1>1 DEF ToRow, Writable
<1>. QED
    BY <1>2 DEF Stamped

\* A row its owner writes where its generation placed it is an own row.
LEMMA OwnWritten ==
    ASSUME Shape, NEW r \in Requests, Refusal(r) = NoAnswer,
           call[r].op \in {"create", "update"}, NEW d \in Stamped(call[r], Placement(r)), NEW id
    PROVE  OwnRow([db |-> Placement(r).db, id |-> id, disc |-> d, owner |-> call[r].tenant,
                   by |-> call[r].tenant])
<1>. DEFINE row == [db |-> Placement(r).db, id |-> id, disc |-> d, owner |-> call[r].tenant,
                    by |-> call[r].tenant]
<1>1. /\ pinned[r] \in DOMAIN Views /\ Placement(r).kind = "bound" /\ Accepted(r)
      /\ call[r].tenant \in Tenants
      /\ Placement(r) = Views[pinned[r]].placement[call[r].tenant]
    BY NotRefused, OpOf DEF Placement
<1>2. IF HasDiscriminator(Placement(r)) THEN d = Placement(r).value ELSE d = 0
    BY <1>1, OwnStamp
<1>3. WellPlaced(row)
    BY <1>1, <1>2 DEF WellPlaced
<1>. QED
    BY <1>1, <1>3 DEF OwnRow

\* A row changed by its owner is still an own row.
LEMMA OwnUpdated ==
    ASSUME Shape, Kept, NEW r \in Requests, Refusal(r) = NoAnswer, call[r].op = "update",
           NEW d \in Stamped(call[r], Placement(r)), NEW row \in Selected(r)
    PROVE  OwnRow(Changed(row, d, call[r], Placement(r)))
<1>. DEFINE new == Changed(row, d, call[r], Placement(r))
            p == Placement(r)
<1>1. row \in table /\ row.owner = call[r].tenant /\ row.db = p.db /\ OwnRow(row)
    BY OwnSelected DEF Selected, Kept
<1>2. /\ DOMAIN new = {"db", "id", "disc", "owner", "by"}
      /\ new.db = row.db /\ new.owner = row.owner /\ new.by = call[r].tenant
      /\ new.disc = IF HasDiscriminator(p) THEN d ELSE row.disc
    BY <1>1 DEF OwnRow, Changed
<1>. HIDE DEF new
<1>3. WellPlaced(new)
    <2>1. CASE HasDiscriminator(p)
        <3>1. /\ pinned[r] \in DOMAIN Views /\ p.kind = "bound" /\ Accepted(r)
              /\ p = Views[pinned[r]].placement[call[r].tenant]
            BY NotRefused DEF Placement
        <3>2. d = p.value
            BY <2>1, <3>1, OwnStamp
        <3>. HIDE DEF p
        <3>. QED
            BY <1>1, <1>2, <2>1, <3>1, <3>2 DEF WellPlaced
    <2>2. CASE ~HasDiscriminator(p)
        BY <1>1, <1>2, <2>2 DEF WellPlaced, OwnRow
    <2>. QED
        BY <2>1, <2>2
<1>4. OwnRow(new)
    BY <1>1, <1>2, <1>3 DEF OwnRow
<1>. QED
    BY <1>4 DEF new

\* Whatever is written, the table holds own rows.
LEMMA WrittenKept ==
    ASSUME Shape, Kept, NEW r \in Requests, Refusal(r) = NoAnswer, NEW t \in Written(r)
    PROVE  IsFiniteSet(t) /\ \A row \in t : OwnRow(row)
<1>1. Selected(r) \subseteq table /\ IsFiniteSet(Selected(r)) /\ IsFiniteSet(table)
      /\ \A row \in table : OwnRow(row)
    BY OwnSelected DEF Kept
<1>2. CASE call[r].op = "create"
    <2>1. PICK d \in Stamped(call[r], Placement(r)) :
            t = table \cup {[db |-> Placement(r).db, id |-> call[r].key, disc |-> d,
                             owner |-> call[r].tenant, by |-> call[r].tenant]}
        BY <1>2 DEF Written
    <2>2. OwnRow([db |-> Placement(r).db, id |-> call[r].key, disc |-> d,
                  owner |-> call[r].tenant, by |-> call[r].tenant])
        BY <1>2, OwnWritten
    <2>3. IsFiniteSet(t)
        BY <1>1, <2>1, FS_AddElement
    <2>. QED
        BY <1>1, <2>1, <2>2, <2>3
<1>3. CASE call[r].op = "update"
    <2>. DEFINE new(d) == {Changed(row, d, call[r], Placement(r)) : row \in Selected(r)}
    <2>1. PICK d \in Stamped(call[r], Placement(r)) : t = (table \ Selected(r)) \cup new(d)
        BY <1>3 DEF Written
    <2>2. \A row \in new(d) : OwnRow(row)
        BY <1>3, OwnUpdated
    <2>3. IsFiniteSet(new(d))
        BY <1>1, FiniteChanged
    <2>4. IsFiniteSet(table \ Selected(r))
        BY <1>1, FS_Subset
    <2>. HIDE DEF new
    <2>5. IsFiniteSet(t)
        BY <2>1, <2>3, <2>4, FS_Union
    <2>. QED
        BY <1>1, <2>1, <2>2, <2>5
<1>4. CASE call[r].op \notin {"create", "update"}
    <2>1. t \subseteq table
        BY <1>4 DEF Written
    <2>2. IsFiniteSet(t)
        BY <1>1, <2>1, FS_Subset
    <2>. QED
        BY <1>1, <2>1, <2>2
<1>. QED
    BY <1>2, <1>3, <1>4

\* The rows stay where they belong, whoever steps.
LEMMA KeptNext ==
    ASSUME Shape, Kept, \A r \in Requests : Sound(r), [DataNext]_dataVars
    PROVE  Kept'
<1>1. CASE table' = table
    BY <1>1 DEF Kept, OwnRow, WellPlaced
<1>2. ASSUME NEW r \in Requests, RunBackend(r), table' \in Written(r)
      PROVE  Kept'
    <2>1. Refusal(r) = NoAnswer
        BY <1>2 DEF RunBackend, Sound, Prepared
    <2>2. \A t \in Written(r) : IsFiniteSet(t) /\ \A row \in t : OwnRow(row)
        BY <2>1, WrittenKept
    <2>. QED
        BY <1>2, <2>2 DEF Kept
<1>3. ASSUME NEW r \in Requests, RunBackend(r)
      PROVE  table' = table \/ table' \in Written(r)
    BY <1>3 DEF RunBackend
<1>4. ASSUME NEW r \in Requests, Step(r), ~RunBackend(r)
      PROVE  table' = table
    BY <1>4 DEF Step, Arrive, Pin, Authorize, Prepare, Route, Send, TimeOut, RequestTimeout, Decode
<1>. QED
    BY <1>1, <1>2, <1>3, <1>4 DEF DataNext, Step, Install, dataVars

\* What the backend ran is what came back tells, whenever it runs.
LEMMA RunSound ==
    ASSUME Shape, Kept, NEW r \in Requests, Sound(r), RunBackend(r)
    PROVE  Sound(r)' /\ applied' \in [Requests -> Nat]
<1>1. /\ backend[r] = "pending" /\ ran[r] = "no" /\ applied[r] = 0 /\ wire[r] = NoWire
      /\ pc[r] \in {"waiting", "answered"} /\ Refusal(r) = NoAnswer
    BY DEF RunBackend, Sound, Phased, Prepared, Shape, DataTypeOK
<1>2. /\ UNCHANGED <<pc, call, pinned, granted, answer>> /\ backend'[r] = "ran"
      /\ Refusal(r)' = Refusal(r) /\ Entry(r)' = Entry(r) /\ Placement(r)' = Placement(r)
    BY SameJudgement DEF RunBackend, Shape, DataTypeOK
<1>3. /\ Selected(r) \subseteq table /\ IsFiniteSet(Selected(r))
      /\ \A row \in Selected(r) : row.owner = call[r].tenant
      /\ Cardinality(Selected(r)) \in Nat
    BY <1>1, OwnSelected, FS_CardinalityType
<1>4. /\ call[r].op \in Operations /\ call[r].count \in Nat
    BY OpOf
<1>. DEFINE n == IF call[r].op = "create" THEN call[r].count ELSE Cardinality(Selected(r))
<1>5. \/ /\ ~IsWrite(call[r].op)
         /\ \E page \in QueryPages(r) :
              wire'[r] = [kind |-> "rows", rows |-> page, count |-> Cardinality(Selected(r))]
         /\ ran'[r] = "fully" /\ applied' = applied
      \/ /\ IsWrite(call[r].op) /\ ran'[r] = "fully"
         /\ applied' = [applied EXCEPT ![r] = @ + n]
         /\ wire'[r].kind = "count"
      \/ /\ call[r].op = "create" /\ call[r].count > 1 /\ ran'[r] = "partly"
         /\ applied' = [applied EXCEPT ![r] = @ + 1]
         /\ wire'[r].kind \in {"count", "Rejected500"} /\ wire'[r].count = 1
      \/ /\ wire'[r].kind \in {"Rejected422", "Rejected500"}
         /\ ran'[r] = "no" /\ applied' = applied
    BY <1>1 DEF RunBackend, Shape, DataTypeOK
<1>6. n \in Nat /\ applied[r] = 0 /\ applied \in [Requests -> Nat]
    BY <1>1, <1>3, <1>4 DEF Shape
<1>7. applied' \in [Requests -> Nat]
    <2>. HIDE DEF n
    <2>. QED
        BY <1>5, <1>6
<1>8. Relayed(r)'
    <2>1. CASE /\ ~IsWrite(call[r].op)
               /\ \E page \in QueryPages(r) :
                    wire'[r] = [kind |-> "rows", rows |-> page, count |-> Cardinality(Selected(r))]
               /\ ran'[r] = "fully" /\ applied' = applied
        <3>1. PICK page \in QueryPages(r) :
                wire'[r] = [kind |-> "rows", rows |-> page, count |-> Cardinality(Selected(r))]
            BY <2>1
        <3>2. page \subseteq Selected(r)
              /\ Cardinality(page) = IF Cardinality(Selected(r)) < AskedRows(call[r])
                                     THEN Cardinality(Selected(r)) ELSE AskedRows(call[r])
            BY DEF QueryPages
        <3>3. PageOf(page, Cardinality(Selected(r)), AskedRows(call[r]))
            BY <1>3, <3>2, FS_Subset DEF PageOf
        <3>4. call[r].op # "create"
            BY <2>1 DEF IsWrite
        <3>5. \A row \in page : row.owner = call[r].tenant /\ row.db = Placement(r).db
            BY <1>3, <3>2 DEF Selected
        <3>. QED
            BY <1>1, <1>2, <2>1, <3>1, <3>3, <3>4, <3>5 DEF Relayed, InPlace
    <2>2. CASE /\ IsWrite(call[r].op) /\ ran'[r] = "fully"
               /\ applied' = [applied EXCEPT ![r] = @ + n]
               /\ wire'[r].kind = "count"
        <3>1. call[r].op = "create" => applied'[r] <= call[r].count
            BY <1>4, <1>6, <2>2
        <3>. QED
            BY <1>2, <2>2, <3>1 DEF Relayed
    <2>3. CASE /\ call[r].op = "create" /\ call[r].count > 1 /\ ran'[r] = "partly"
               /\ applied' = [applied EXCEPT ![r] = @ + 1]
               /\ wire'[r].kind \in {"count", "Rejected500"} /\ wire'[r].count = 1
        <3>1. applied'[r] <= call[r].count /\ IsWrite(call[r].op)
            BY <1>4, <1>6, <2>3 DEF IsWrite
        <3>. QED
            BY <1>2, <2>3, <3>1 DEF Relayed
    <2>4. CASE /\ wire'[r].kind \in {"Rejected422", "Rejected500"}
               /\ ran'[r] = "no" /\ applied' = applied
        BY <1>1, <1>2, <1>4, <2>4 DEF Relayed
    <2>. QED
        BY <1>5, <2>1, <2>2, <2>3, <2>4
<1>9. Phased(r)' /\ Granted(r)' /\ Prepared(r)'
    <2>1. Phased(r)'
        BY <1>1, <1>2 DEF Sound, Phased
    <2>2. Granted(r)' /\ Prepared(r)'
        BY <1>1, <1>2 DEF Sound, Granted, Prepared
    <2>. QED
        BY <2>1, <2>2
<1>10. ToldTheTruth(r)' /\ Disclosed(r)'
    <2>1. ToldTheTruth(r)'
        BY <1>1, <1>2 DEF Sound, ToldTheTruth
    <2>2. Disclosed(r)'
        BY <1>2 DEF Sound, Disclosed, InPlace
    <2>. QED
        BY <2>1, <2>2
<1>. QED
    BY <1>7, <1>8, <1>9, <1>10 DEF Sound

------------------------------------------------------------------------------
(* The answer.                                                             *)

\* A finite set has a part of every size up to its own.
LEMMA PartOfSize ==
    ASSUME NEW S, IsFiniteSet(S), NEW n \in Nat, n <= Cardinality(S)
    PROVE  \E T \in SUBSET S : Cardinality(T) = n
<1>1. Cardinality(S) \in Nat /\ ExistsBijection(1..Cardinality(S), S)
    BY FS_CardinalityType
<1>2. PICK f : f \in Bijection(1..Cardinality(S), S)
    BY <1>1 DEF ExistsBijection
<1>3. /\ f \in [1..Cardinality(S) -> S]
      /\ \A a, b \in 1..Cardinality(S) : f[a] = f[b] => a = b
    BY <1>2, Fun_BijectionProperties
<1>. DEFINE T == {f[k] : k \in 1..n}
            g == [k \in 1..n |-> f[k]]
<1>4. 1..n \subseteq 1..Cardinality(S)
    BY <1>1
<1>5. T \subseteq S
    BY <1>3, <1>4
<1>6. g \in Bijection(1..n, T)
    <2>1. g \in [1..n -> T] /\ \A t \in T : \E k \in 1..n : g[k] = t
        OBVIOUS
    <2>2. \A a, b \in 1..n : g[a] = g[b] => a = b
        BY <1>3, <1>4
    <2>. HIDE DEF g, T
    <2>. QED
        BY <2>1, <2>2, Fun_IsBij
<1>7. ExistsBijection(1..n, T)
    BY <1>6 DEF ExistsBijection
<1>8. Cardinality(T) = n
    BY <1>7, FS_CountingElements
<1>. QED
    BY <1>5, <1>8

\* Showing rows neither loses nor repeats one.
LEMMA AsManyShown ==
    ASSUME NEW S, IsFiniteSet(S), NEW columns
    PROVE  Cardinality({[row |-> row, columns |-> columns] : row \in S}) = Cardinality(S)
<1>. DEFINE T == {[row |-> row, columns |-> columns] : row \in S}
            f == [row \in S |-> [row |-> row, columns |-> columns]]
<1>1. f \in [S -> T] /\ \A t \in T : \E row \in S : f[row] = t
    OBVIOUS
<1>2. \A a, b \in S : f[a] = f[b] => a = b
    <2>. SUFFICES ASSUME NEW a \in S, NEW b \in S, f[a] = f[b] PROVE a = b
        OBVIOUS
    <2>1. f[a].row = a /\ f[b].row = b
        OBVIOUS
    <2>. QED
        BY <2>1
<1>. HIDE DEF f, T
<1>3. f \in Bijection(S, T)
    BY <1>1, <1>2, Fun_IsBij
<1>4. ExistsBijection(S, T)
    BY <1>3 DEF ExistsBijection
<1>. QED
    BY <1>4, FS_Bijection DEF T

\* An answer shows the tenant's rows, in the columns it may see, as many as there
\* are up to the limit, and says whether there are more.
TellsPage(r, a, count) ==
  /\ \A shown \in a.rows : /\ InPlace(r, shown.row)
                           /\ shown.columns = VisibleColumns(Entry(r), Placement(r))
  /\ call[r].op = "list" =>
       /\ a.more <=> count > EffectiveLimit(call[r])
       /\ Cardinality(a.rows) =
            IF count > EffectiveLimit(call[r]) THEN EffectiveLimit(call[r]) ELSE count
  /\ a.status \in {200, 404} /\ a.claim = "none"

\* A page that came back is shown for what it is.
LEMMA ReadTells ==
    ASSUME Shape, NEW r \in Requests, NEW rows, NEW count,
           PageOf(rows, count, AskedRows(call[r])), \A row \in rows : InPlace(r, row)
    PROVE  TellsPage(r, ReadAnswer(r, rows), count)
<1>. DEFINE limit == EffectiveLimit(call[r])
            columns == VisibleColumns(Entry(r), Placement(r))
            shown(page) == {[row |-> row, columns |-> columns] : row \in page}
            page == IF Cardinality(rows) <= limit THEN rows
                    ELSE CHOOSE s \in SUBSET rows : Cardinality(s) = limit
<1>1. limit \in Nat
    BY OpOf, BoundsAssumption DEF EffectiveLimit
<1>2. IsFiniteSet(rows) /\ Cardinality(rows) \in Nat
    BY FS_CardinalityType DEF PageOf
<1>3. page \subseteq rows /\ Cardinality(page) = IF Cardinality(rows) <= limit
                                                 THEN Cardinality(rows) ELSE limit
    <2>1. CASE Cardinality(rows) <= limit
        BY <2>1
    <2>2. CASE ~(Cardinality(rows) <= limit)
        <3>1. \E s \in SUBSET rows : Cardinality(s) = limit
            BY <1>1, <1>2, <2>2, PartOfSize
        <3>. QED
            BY <2>2, <3>1
    <2>. QED
        BY <2>1, <2>2
<1>4. \A s \in SUBSET rows : \A x \in shown(s) : InPlace(r, x.row) /\ x.columns = columns
    OBVIOUS
<1>5. CASE call[r].op = "list"
    <2>1. ReadAnswer(r, rows) = [Told(200, "ok", "none") EXCEPT !.rows = shown(page),
                                                               !.more = Cardinality(rows) > limit]
        BY <1>5 DEF ReadAnswer
    <2>2. /\ ReadAnswer(r, rows).rows = shown(page)
          /\ ReadAnswer(r, rows).more = (Cardinality(rows) > limit)
          /\ ReadAnswer(r, rows).status = 200 /\ ReadAnswer(r, rows).claim = "none"
        <3>1. \A p, m : LET a == [Told(200, "ok", "none") EXCEPT !.rows = p, !.more = m] IN
                        a.rows = p /\ a.more = m /\ a.status = 200 /\ a.claim = "none"
            BY DEF Told
        <3>. HIDE DEF page, shown, limit
        <3>. QED
            BY <2>1, <3>1
    <2>3. Cardinality(rows) = IF count < limit + 1 THEN count ELSE limit + 1
        BY <1>5 DEF PageOf, AskedRows
    <2>4. count \in Nat
        BY DEF PageOf
    <2>5. IsFiniteSet(page)
        BY <1>2, <1>3, FS_Subset
    <2>6. Cardinality(shown(page)) = Cardinality(page)
        <3>. HIDE DEF page, columns
        <3>. QED
            BY <2>5, AsManyShown
    <2>7. \A x \in shown(page) : InPlace(r, x.row) /\ x.columns = columns
        <3>. HIDE DEF shown, page
        <3>. QED
            BY <1>3, <1>4
    <2>. HIDE DEF page, shown, limit, columns
    <2>8. Cardinality(rows) > limit <=> count > limit
        BY <1>1, <2>3, <2>4
    <2>9. Cardinality(ReadAnswer(r, rows).rows) = IF count > limit THEN limit ELSE count
        BY <1>1, <1>3, <2>2, <2>3, <2>4, <2>6
    <2>10. ReadAnswer(r, rows).more <=> count > limit
        BY <2>2, <2>8, Zenon
    <2>. QED
        BY <2>2, <2>7, <2>9, <2>10 DEF TellsPage, limit, columns
<1>6. CASE call[r].op # "list" /\ rows = {}
    <2>1. ReadAnswer(r, rows) = Told(404, "not_found", "none")
        BY <1>6 DEF ReadAnswer
    <2>. QED
        BY <1>6, <2>1 DEF Told, TellsPage
<1>7. CASE call[r].op # "list" /\ rows # {}
    <2>. DEFINE first == {CHOOSE row \in rows : TRUE}
    <2>1. ReadAnswer(r, rows) = [Told(200, "ok", "none") EXCEPT !.rows = shown(first)]
        BY <1>7 DEF ReadAnswer
    <2>2. /\ ReadAnswer(r, rows).rows = shown(first)
          /\ ReadAnswer(r, rows).status = 200 /\ ReadAnswer(r, rows).claim = "none"
        <3>. HIDE DEF first, shown
        <3>. QED
            BY <2>1 DEF Told
    <2>3. first \subseteq rows
        BY <1>7
    <2>. HIDE DEF first, shown, columns
    <2>. QED
        BY <1>4, <1>7, <2>2, <2>3 DEF TellsPage, columns
<1>. QED
    BY <1>5, <1>6, <1>7

\* The answer to what came back says what the backend ran.
LEMMA DecodeSound ==
    ASSUME Shape, NEW r \in Requests, Sound(r), Decode(r)
    PROVE  Sound(r)'
<1>1. backend[r] = "ran" /\ pc[r] = "waiting" /\ call[r].scoped
    <2>1. wire[r].kind # "none" /\ pc[r] = "waiting" /\ backend[r] \in {"none", "pending", "ran"}
        BY DEF Decode, Shape, DataTypeOK
    <2>. QED
        BY <2>1 DEF Sound, Phased, Granted, NoWire
<1>2. UNCHANGED <<call, pinned, granted, backend, wire, ran, applied>> /\ Relayed(r)
    BY DEF Decode, Sound
<1>3. call[r].op \in Operations /\ call[r].count \in Nat
    BY OpOf
<1>4. CASE /\ wire[r].kind \in {"Rejected422", "Rejected500"}
           /\ Reply(r, ConnectorAnswer(wire[r].kind, call[r].op))
    <2>. DEFINE a == ConnectorAnswer(wire[r].kind, call[r].op)
    <2>1. /\ a.rows = {} /\ a.status # 200 /\ a.claim \in {"none", "notApplied", "unknown"}
          /\ a.claim = "notApplied" => wire[r].kind = "Rejected422"
          /\ IsWrite(call[r].op) => a.status # 503
        BY <1>3, <1>4, ConnectorTells DEF Kinds
    <2>2. a.claim = "notApplied" => ran[r] = "no"
        BY <1>1, <1>2, <2>1 DEF Relayed
    <2>. HIDE DEF a
    <2>. QED
        BY <1>1, <1>2, <1>4, <2>1, <2>2, Replied DEF a
<1>5. ASSUME wire[r].kind \in {"rows", "count"}, NEW k \in {"ResultLost", "Malformed"},
             Reply(r, ConnectorAnswer(k, call[r].op))
      PROVE  Sound(r)'
    <2>. DEFINE a == ConnectorAnswer(k, call[r].op)
    <2>1. /\ a.rows = {} /\ a.status # 200 /\ a.claim \in {"none", "applied"}
          /\ IsWrite(call[r].op) => a.status # 503
        BY <1>3, ConnectorTells DEF Kinds
    <2>2. IsWrite(call[r].op) => ran[r] # "no"
        BY <1>1, <1>2, <1>5 DEF Relayed
    <2>. HIDE DEF a
    <2>. QED
        BY <1>1, <1>2, <1>5, <2>1, <2>2, Replied DEF a
<1>6. CASE wire[r].kind = "rows" /\ Reply(r, ReadAnswer(r, wire[r].rows))
    <2>. DEFINE rows  == wire[r].rows
                count == wire[r].count
                a     == ReadAnswer(r, rows)
    <2>1. /\ ~IsWrite(call[r].op) /\ PageOf(rows, count, AskedRows(call[r]))
          /\ \A row \in rows : InPlace(r, row)
        BY <1>1, <1>2, <1>6 DEF Relayed
    <2>2. TellsPage(r, a, count)
        <3>. HIDE DEF rows, count
        <3>. QED
            BY <2>1, ReadTells
    <2>. HIDE DEF a
    <2>3. pc'[r] = "answered" /\ answer'[r] = a
        BY <1>6 DEF Reply, Shape, DataTypeOK, a
    <2>4. Entry(r)' = Entry(r) /\ Placement(r)' = Placement(r) /\ Refusal(r)' = Refusal(r)
        BY <1>2, SameJudgement
    <2>5. Phased(r)' /\ Granted(r)' /\ Prepared(r)'
        BY <1>1, <1>2, <2>3, <2>4 DEF Sound, Phased, Granted, Prepared
    <2>6. Relayed(r)' /\ ToldTheTruth(r)'
        BY <1>1, <1>2, <2>1, <2>2, <2>3, <2>4 DEF Relayed, InPlace, ToldTheTruth, TellsPage
    <2>7. Disclosed(r)'
        BY <1>2, <2>2, <2>3, <2>4 DEF Disclosed, InPlace, TellsPage
    <2>. QED
        BY <2>5, <2>6, <2>7 DEF Sound
<1>7. CASE wire[r].kind = "count" /\ Reply(r, WriteAnswer(call[r], wire[r].count))
    <2>. DEFINE a == WriteAnswer(call[r], wire[r].count)
    <2>1. /\ IsWrite(call[r].op) /\ ran[r] # "no" /\ ran[r] \in {"no", "partly", "fully"}
          /\ ran[r] = "partly" => call[r].op = "create" /\ wire[r].count < call[r].count
        BY <1>1, <1>2, <1>7 DEF Relayed, Shape, DataTypeOK
    <2>2. \/ a = ConnectorAnswer("Malformed", call[r].op)
          \/ a = Told(500, "partial_write", "partial")
          \/ a = Told(200, "ok", "applied") /\ ran[r] = "fully"
        BY <2>1 DEF WriteAnswer
    <2>3. /\ a.rows = {} /\ a.status # 503 /\ a.claim \notin {"notApplied"}
          /\ a.status = 200 => ran[r] = "fully"
        <3>1. LET m == ConnectorAnswer("Malformed", call[r].op) IN
              m.rows = {} /\ m.status \notin {200, 503} /\ m.claim # "notApplied"
            BY <1>3, <2>1, ConnectorTells DEF Kinds
        <3>. HIDE DEF a
        <3>. QED
            BY <2>2, <3>1 DEF Told
    <2>. HIDE DEF a
    <2>4. pc'[r] = "answered" /\ answer'[r] = a
        BY <1>7 DEF Reply, Shape, DataTypeOK, a
    <2>5. Refusal(r)' = Refusal(r)
        BY <1>2, SameJudgement
    <2>6. Phased(r)' /\ Granted(r)' /\ Prepared(r)'
        BY <1>1, <1>2, <2>4, <2>5 DEF Sound, Phased, Granted, Prepared
    <2>7. Relayed(r)' /\ ToldTheTruth(r)' /\ Disclosed(r)'
        <3>1. call[r].op # "list"
            BY <2>1 DEF IsWrite
        <3>. QED
            BY <1>1, <1>2, <2>1, <2>3, <2>4, <3>1 DEF Relayed, ToldTheTruth, Disclosed
    <2>. QED
        BY <2>6, <2>7 DEF Sound
<1>. QED
    BY <1>4, <1>5, <1>6, <1>7 DEF Decode

------------------------------------------------------------------------------
(* The invariant.                                                          *)

\* The first state: nothing was asked, and the rows are where they belong.
LEMMA SoundInit == DataInit => Shape /\ Kept /\ \A r \in Requests : Sound(r)
<1>. SUFFICES ASSUME DataInit PROVE Shape /\ Kept /\ \A r \in Requests : Sound(r)
    OBVIOUS
<1>1. DataTypeOK
    <2>1. call \in [Requests -> Calls]
        BY CallsAssumption DEF DataInit
    <2>. QED
        BY <2>1, BoundsAssumption, ViewsAssumption DEF DataInit, DataTypeOK
<1>2. Shape
    BY <1>1 DEF DataInit, Shape
<1>3. Kept
    BY SeedAssumption DEF DataInit, Kept, OwnRow
<1>4. ASSUME NEW r \in Requests
      PROVE  Sound(r)
    <2>1. NoAnswer.rows = {}
        BY DEF NoAnswer
    <2>. QED
        BY <2>1 DEF DataInit, Sound, Phased, Granted, Prepared, Relayed, ToldTheTruth, Disclosed
<1>. QED
    BY <1>2, <1>3, <1>4

\* A step that moves a handler on keeps the kinds of value where it keeps those
\* of what else it assigns.
LEMMA Moves ==
    ASSUME Shape, NEW r \in Requests,
           NEW k \in {"routed", "authorizing", "authorized", "routing", "sending", "waiting",
                      "answered"},
           pc' = [pc EXCEPT ![r] = k], DOMAIN answer' = Requests,
           pinned' \in [Requests -> 0..Len(Views)],
           backend' \in [Requests -> {"none", "pending", "ran"}],
           UNCHANGED <<installed, call, attempt, wire, ran, applied>>,
           DOMAIN granted' = Requests
    PROVE  Shape'
<1>1. /\ pc' \in [Requests -> {"idle", "routed", "authorizing", "authorized", "routing",
                               "sending", "waiting", "answered"}]
      /\ \A s \in Requests : pc'[s] = "idle" => pc[s] = "idle"
    BY DEF Shape, DataTypeOK
<1>. QED
    BY <1>1 DEF Shape, DataTypeOK

\* A step keeps the kinds of value, the row counts included.
LEMMA ShapeNext ==
    ASSUME Shape, Kept, \A r \in Requests : Sound(r), [DataNext]_dataVars
    PROVE  Shape'
<1>1. CASE Install
    BY <1>1, ViewsAssumption DEF Install, Shape, DataTypeOK
<1>2. CASE UNCHANGED dataVars
    BY <1>2 DEF dataVars, Shape, DataTypeOK
<1>3. ASSUME NEW r \in Requests, Arrive(r) PROVE Shape'
    <2>1. attempt' \in [Requests -> 0..MaxAttempts]
        <3>1. attempt[r] < MaxAttempts
            BY <1>3, BoundsAssumption DEF Arrive, Shape, DataTypeOK
        <3>. QED
            BY <1>3, <3>1, BoundsAssumption DEF Arrive, Shape, DataTypeOK
    <2>2. call' \in [Requests -> Calls]
        <3>1. UNCHANGED call \/ \E c \in Calls : call' = [call EXCEPT ![r] = c]
            BY <1>3 DEF Arrive
        <3>2. call \in [Requests -> Calls]
            BY DEF Shape, DataTypeOK
        <3>. QED
            BY <3>1, <3>2
    <2>3. /\ pc' = [pc EXCEPT ![r] = "routed"] /\ attempt' = [attempt EXCEPT ![r] = @ + 1]
          /\ backend' = [backend EXCEPT ![r] = "none"] /\ ran' = [ran EXCEPT ![r] = "no"]
          /\ UNCHANGED <<installed, pinned, applied>>
        BY <1>3 DEF Arrive
    <2>4. DOMAIN granted' = Requests /\ DOMAIN wire' = Requests /\ DOMAIN answer' = Requests
        BY <1>3 DEF Arrive, Shape
    <2>5. \A s \in Requests : pc'[s] = "idle" => attempt'[s] = 0
        BY <2>3 DEF Shape, DataTypeOK
    <2>6. /\ pc' \in [Requests -> {"idle", "routed", "authorizing", "authorized", "routing",
                                   "sending", "waiting", "answered"}]
          /\ backend' \in [Requests -> {"none", "pending", "ran"}]
          /\ ran' \in [Requests -> {"no", "partly", "fully"}]
          /\ installed' \in 0..Len(Views) /\ pinned' \in [Requests -> 0..Len(Views)]
          /\ applied' \in [Requests -> Nat]
        BY <2>3 DEF Shape, DataTypeOK
    <2>. QED
        BY <2>1, <2>2, <2>4, <2>5, <2>6 DEF Shape, DataTypeOK
<1>4. ASSUME NEW r \in Requests, Pin(r) PROVE Shape'
    <2>1. \E k \in {"authorizing", "answered"} : pc' = [pc EXCEPT ![r] = k]
        BY <1>4 DEF Pin, Reply
    <2>2. DOMAIN answer' = Requests
        BY <1>4 DEF Pin, Reply, Shape
    <2>3. pinned' \in [Requests -> 0..Len(Views)]
        BY <1>4 DEF Pin, Shape, DataTypeOK
    <2>4. /\ UNCHANGED <<installed, call, attempt, wire, ran, applied>>
          /\ DOMAIN granted' = Requests /\ backend' \in [Requests -> {"none", "pending", "ran"}]
        BY <1>4 DEF Pin, Shape, DataTypeOK
    <2>. QED
        BY <2>1, <2>2, <2>3, <2>4, Moves
<1>5. ASSUME NEW r \in Requests, Authorize(r) PROVE Shape'
    <2>1. /\ UNCHANGED <<installed, call, attempt, wire, ran, applied>>
          /\ DOMAIN granted' = Requests /\ pinned' \in [Requests -> 0..Len(Views)]
          /\ backend' \in [Requests -> {"none", "pending", "ran"}]
        BY <1>5 DEF Authorize, Shape, DataTypeOK
    <2>2. /\ \E k \in {"authorized", "answered"} : pc' = [pc EXCEPT ![r] = k]
          /\ UNCHANGED answer \/ \E a : answer' = [answer EXCEPT ![r] = a]
        BY <1>5, Decided
    <2>3. DOMAIN answer' = Requests
        BY <2>2 DEF Shape
    <2>. QED
        BY <2>1, <2>2, <2>3, Moves
<1>6. ASSUME NEW r \in Requests, Prepare(r) \/ Route(r) \/ Send(r) \/ TimeOut(r) \/ RequestTimeout(r)
      PROVE  Shape'
    <2>1. \E k \in {"routing", "sending", "waiting", "answered"} : pc' = [pc EXCEPT ![r] = k]
        BY <1>6 DEF Prepare, Route, Send, TimeOut, RequestTimeout, Reply
    <2>2. DOMAIN answer' = Requests
        BY <1>6 DEF Prepare, Route, Send, TimeOut, RequestTimeout, Reply, Shape
    <2>3. backend' \in [Requests -> {"none", "pending", "ran"}]
        BY <1>6 DEF Prepare, Route, Send, TimeOut, RequestTimeout, Shape, DataTypeOK
    <2>4. /\ UNCHANGED <<installed, call, attempt, wire, ran, applied>>
          /\ DOMAIN granted' = Requests /\ pinned' \in [Requests -> 0..Len(Views)]
        BY <1>6 DEF Prepare, Route, Send, TimeOut, RequestTimeout, Shape, DataTypeOK
    <2>. QED
        BY <2>1, <2>2, <2>3, <2>4, Moves
<1>7. ASSUME NEW r \in Requests, RunBackend(r) PROVE Shape'
    <2>1. applied' \in [Requests -> Nat]
        BY <1>7, RunSound
    <2>2. ran' \in [Requests -> {"no", "partly", "fully"}] /\ DOMAIN wire' = Requests
        BY <1>7 DEF RunBackend, Shape, DataTypeOK
    <2>3. /\ backend' \in [Requests -> {"none", "pending", "ran"}]
          /\ UNCHANGED <<installed, pc, call, attempt, pinned, granted, answer>>
        BY <1>7 DEF RunBackend, Shape, DataTypeOK
    <2>. QED
        BY <2>1, <2>2, <2>3 DEF Shape, DataTypeOK
<1>8. ASSUME NEW r \in Requests, Decode(r) PROVE Shape'
    <2>1. \E a : pc' = [pc EXCEPT ![r] = "answered"] /\ answer' = [answer EXCEPT ![r] = a]
        BY <1>8 DEF Decode, Reply
    <2>2. /\ UNCHANGED <<installed, call, attempt, wire, ran, applied>>
          /\ DOMAIN granted' = Requests /\ pinned' \in [Requests -> 0..Len(Views)]
          /\ backend' \in [Requests -> {"none", "pending", "ran"}]
        BY <1>8 DEF Decode, Shape, DataTypeOK
    <2>3. DOMAIN answer' = Requests
        BY <2>1 DEF Shape
    <2>. QED
        BY <2>1, <2>2, <2>3, Moves
<1>. QED
    BY <1>1, <1>2, <1>3, <1>4, <1>5, <1>6, <1>7, <1>8 DEF DataNext

\* A step keeps every request sound: the one whose it is, and the others.
LEMMA SoundNext ==
    ASSUME Shape, Kept, \A r \in Requests : Sound(r), [DataNext]_dataVars,
           NEW s \in Requests
    PROVE  Sound(s)'
<1>1. CASE Install \/ UNCHANGED dataVars
    BY <1>1, Unmoved DEF Install, dataVars, Same
<1>2. ASSUME NEW r \in Requests, Step(r)
      PROVE  Sound(s)'
    <2>1. CASE s # r
        BY <1>2, <2>1, OthersKeep, Unmoved
    <2>2. Sound(r)'
        BY <1>2, ArriveSound, PinSound, AuthorizeSound, PrepareSound, RouteSound, SendSound,
           TimeOutSound, RunSound, DecodeSound DEF Step
    <2>. QED
        BY <2>1, <2>2
<1>. QED
    BY <1>1, <1>2 DEF DataNext, Step

\* The invariant says all the run checks.
LEMMA SoundSuffices ==
    ASSUME Shape, Kept, \A r \in Requests : Sound(r)
    PROVE  RowsStayOwned
<1>1. DataTypeOK
    BY DEF Shape
<1>2. RowsKeepTheirOwner
    BY DEF RowsKeepTheirOwner, Kept, OwnRow, WellPlaced
<1>3. AnswersDiscloseOwnRows
    BY DEF AnswersDiscloseOwnRows, Sound, Disclosed, InPlace, VisibleColumns, Placement
<1>4. ExecutedWasGranted
    BY DEF ExecutedWasGranted, Sound, Granted, CheckTarget, IsCollectionOperation
<1>5. RefusalTellsNothing /\ AnswersClaimTheTruth
    BY DEF RefusalTellsNothing, AnswersClaimTheTruth, Sound, ToldTheTruth
<1>6. RetryNeverDuplicates
    <2>. SUFFICES ASSUME NEW r \in Requests, call[r].op = "create"
                  PROVE  applied[r] <= call[r].count
        BY DEF RetryNeverDuplicates
    <2>1. CASE backend[r] = "ran"
        BY <2>1 DEF Sound, Relayed
    <2>2. CASE backend[r] # "ran"
        BY <2>2, OpOf DEF Sound, Phased
    <2>. QED
        BY <2>1, <2>2
<1>7. PagesAreExact
    BY DEF PagesAreExact, Sound, ToldTheTruth
<1>. QED
    BY <1>1, <1>2, <1>3, <1>4, <1>5, <1>6, <1>7 DEF RowsStayOwned

\* A request reaches its own tenant's rows, in the generation it was pinned to,
\* and is told the truth of it, whatever else runs, is installed or fails.
THEOREM TenantsStayApart == DataSpec => []RowsStayOwned
<1>. DEFINE Inv == Shape /\ Kept /\ \A r \in Requests : Sound(r)
<1>1. DataInit => Inv
    BY SoundInit
<1>2. Inv /\ [DataNext]_dataVars => Inv'
    BY ShapeNext, KeptNext, SoundNext
<1>3. Inv => RowsStayOwned
    BY SoundSuffices
<1>. QED
    BY <1>1, <1>2, <1>3, PTL DEF DataSpec

\* No step removes or replaces a row but a call of its own tenant, run by the
\* backend.
THEOREM OwnersAloneChangeRows == DataSpec => [][OwnersChangeTheirRows]_dataVars
<1>. DEFINE Inv == Shape /\ Kept /\ \A r \in Requests : Sound(r)
<1>1. DataInit => Inv
    BY SoundInit
<1>2. Inv /\ [DataNext]_dataVars => Inv'
    BY ShapeNext, KeptNext, SoundNext
<1>3. Inv /\ [DataNext]_dataVars => [OwnersChangeTheirRows]_dataVars
    <2>. SUFFICES ASSUME Inv, DataNext, NEW row \in table \ table'
                  PROVE  \E r \in Requests : /\ backend[r] = "pending" /\ backend'[r] = "ran"
                                             /\ call[r].tenant = row.owner
        BY DEF OwnersChangeTheirRows
    <2>1. PICK r \in Requests : RunBackend(r)
        BY DEF DataNext, Install, Arrive, Pin, Authorize, Prepare, Route, Send, TimeOut,
               RequestTimeout, Decode
    <2>2. backend[r] = "pending" /\ backend'[r] = "ran" /\ Refusal(r) = NoAnswer
        BY <2>1 DEF RunBackend, Sound, Prepared, Shape, DataTypeOK
    <2>3. row \in Selected(r)
        <3>1. table' \in Written(r) /\ IsWrite(call[r].op)
            BY <2>1 DEF RunBackend, IsWrite
        <3>2. \A t \in Written(r) : table \ t \subseteq Selected(r)
            BY DEF Written
        <3>. QED
            BY <3>1, <3>2
    <2>. QED
        BY <2>2, <2>3, OwnSelected
<1>. QED
    BY <1>1, <1>2, <1>3, PTL DEF DataSpec

==============================================================================
