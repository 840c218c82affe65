----------------------------- MODULE MCRequests -----------------------------
(* What serves a request for data: the Data API, a connector over NDC, the   *)
(* authorization front and the runtime process, on small instances.  The     *)
(* components share no state, so a behaviour explores one with the others at *)
(* rest.  The request is this module's own state, at rest as it starts.      *)
EXTENDS Integers, DataRequest, TLC

CONSTANTS
    Scenarios, None, acme, bolt, other, alice, k1, k2, x1, x2

VARIABLES
    scenario,   \* what this behaviour explores
    config, schema, connectorPhase, index, connectorRequest,
    published, since, frontUp, entry, lock, frontRequest, called, outages, stepped,
    processPhase, refresh, retry, todo, conn, processUp, permit, registries, probe,
    ready

\* Callers only name one another.
Interchangeable == Permutations({x1, x2})

(* Two tenants in one shared table, one of which the second generation moves *)
(* to a database of its own; the catalogue then also hides a column.         *)

Bound(db, isolation, value) ==
    [kind |-> "bound", db |-> db, isolation |-> isolation, value |-> value,
     connector |-> "ndc", selector |-> "default", writable |-> TRUE]

Orders(columns) ==
    [operations |-> {"list", "read", "create", "update", "delete"}, fields |-> columns]
Prices == [operations |-> {"list", "read"}, fields |-> {}]

TwoGenerations == <<
    [catalogue |-> [orders |-> Orders({}), prices |-> Prices],
     placement |-> [acme |-> Bound("shared", "discriminator", 1),
                    bolt |-> Bound("shared", "discriminator", 2)]],
    [catalogue |-> [orders |-> Orders({"id", "total", "disc"}), prices |-> Prices],
     placement |-> [acme |-> [Bound("own", "database", 0) EXCEPT !.selector = "secret"],
                    bolt |-> [Bound("shared", "discriminator", 2) EXCEPT !.writable = FALSE]]] >>

OneConnector == [ndc |-> [verbs |-> {"create", "update", "delete"}, equality |-> TRUE]]

Ask(tenant, op, id, columns, count) ==
    [tenant |-> tenant, op |-> op, key |-> id, fields |-> columns, count |-> count, value |-> 2,
     limit |-> 1, resource |-> "orders", scoped |-> TRUE, fault |-> "none"]

\* acme names bolt's discriminator wherever a payload or a filter may.
SomeCalls ==
    {Ask("acme", "list", 0, {"disc"}, 0), Ask("bolt", "list", 0, {}, 0), Ask("acme", "read", 1, {}, 0),
     Ask("bolt", "read", 1, {}, 0), Ask("acme", "create", 7, {"total"}, 2),
     Ask("acme", "create", 7, {"DISC"}, 1), Ask("acme", "update", 1, {"total"}, 0),
     Ask("acme", "update", 1, {"id"}, 0), Ask("acme", "delete", 1, {}, 0),
     Ask("bolt", "delete", 9, {}, 0),
     [Ask("bolt", "delete", 1, {}, 0) EXCEPT !.scoped = FALSE, !.resource = "prices"],
     [Ask("bolt", "create", 7, {}, 3) EXCEPT !.resource = "nothing"],
     [Ask("bolt", "create", 7, {}, 3) EXCEPT !.fault = "body"],
     [Ask("bolt", "list", 0, {}, 0) EXCEPT !.fault = "nul"],
     [Ask("bolt", "read", 1, {}, 0) EXCEPT !.fault = "identity"]}

Row(db, id, disc, owner) == [db |-> db, id |-> id, disc |-> disc, owner |-> owner, by |-> owner]
SomeRows ==
    {Row("shared", 1, 1, "acme"), Row("shared", 1, 2, "bolt"), Row("shared", 2, 2, "bolt"),
     Row("own", 1, 0, "acme")}

(* Every mapping of one verb onto one procedure with two argument names, over *)
(* the schemas that declare them in each kind.                                *)

Named == {"-", "a", "b"}
KeyMaps == {[f \in {} |-> "a"]} \cup [{"id"} -> {"a", "b", "c"}] \cup {[id |-> "a", disc |-> "a"]}
Mappings == [procedure : {"p", "q"}, payload : Named, filter : Named, keys : KeyMaps, shape : {"values"}]
Shaped == [procedure |-> "p", payload |-> "a", filter |-> "b", keys |-> [f \in {} |-> "a"],
           shape |-> "set_operations"]

SomeConfigs ==
    {[procedures |-> [v \in {verb} |-> m], timeout |-> 2, connectTimeout |-> 1, routing |-> "-"] :
        verb \in {"insert", "update", "delete"}, m \in Mappings \cup {Shaped}}
    \cup {[procedures |-> [v \in {} |-> 0], timeout |-> 2, connectTimeout |-> n, routing |-> "r"] :
            n \in {0, 2, 3}}

Scalars ==
    {[id |-> <<"equal", "less_than">>, disc |-> <<"equal">>],
     [id |-> <<"contains_insensitive", "equal", "in", "contains">>]}
Declared ==
    [{"a", "b"} -> {"predicate", "predicate?", "value", "value?"}]
        \cup {[a |-> "predicate", b |-> "value", c |-> "value"]}

SomeSchemas ==
    {[procedures |-> [p |-> d], fields |-> {"id", "disc"}, scalars |-> s, version |-> <<2, 4>>,
      routing |-> {"query", "mutation"}] : d \in Declared, s \in Scalars}
    \cup {[procedures |-> [p |-> [a |-> "value"]], fields |-> {"id"},
           scalars |-> [id |-> <<"equal">>], version |-> v, routing |-> x] :
            v \in {<<2, 4>>, <<2, 3>>, <<3, 4>>}, x \in {{"query"}, {"query", "mutation"}}}
    \cup {[procedures |-> [p |-> [a |-> "value", b |-> "predicate", c |-> "value"]], fields |-> {},
            scalars |-> <<>>, version |-> <<2, 4>>, routing |-> {"query", "mutation"}]}

Clause(op, column, value) == [op |-> op, field |-> column, value |-> value, values |-> {value}]
SomeFilters ==
    {{Clause("equal", "id", 1), Clause("equal", "disc", 2)}, {Clause("equal", "id", 1)},
     {Clause("not_equal", "id", 1)}, {Clause("equal", "id", 1), Clause("equal", "id", 2)},
     {[Clause("in", "id", 1) EXCEPT !.values = {1, 2}], Clause("equal", "disc", 2)},
     {Clause("less_than", "id", 2)}, {Clause("is_null", "disc", 1)}}

(* Bearers of two tenants, signed by their own issuer, by another, or by none. *)

Token(iss, kid, key, sound, permitted) ==
    [iss |-> iss, kid |-> kid, key |-> key, sub |-> alice, sound |-> sound,
     permitted |-> permitted]

TwoKeys == {Token(acme, k, <<acme, k>>, TRUE, TRUE) : k \in {k1, k2}}
OneToken == {Token(acme, k1, <<acme, k1>>, TRUE, TRUE)}
AnyBearer ==
    {Token(acme, k1, <<acme, k1>>, TRUE, TRUE), Token(bolt, k1, <<bolt, k1>>, TRUE, TRUE),
     Token(bolt, k1, <<acme, k1>>, TRUE, TRUE), Token(acme, k1, None, TRUE, TRUE),
     Token(acme, k1, <<acme, k1>>, FALSE, TRUE), Token(acme, k1, <<acme, k1>>, TRUE, FALSE),
     Token(other, k1, <<other, k1>>, TRUE, TRUE)}

TwoTenants == {"acme", "bolt"}
OrdersOfBolt == {<<"bolt", "orders">>}

Connector == INSTANCE NdcConnector WITH
    Configs <- SomeConfigs, Schemas <- SomeSchemas, Filters <- SomeFilters,
    Fields <- {"id", "disc"}, Values <- {1, 2, 3}, phase <- connectorPhase,
    request <- connectorRequest

Front == INSTANCE AuthorizationFront WITH
    Issuers <- {acme}, Registered <- {acme}, Kids <- {k1}, Subjects <- {alice},
    Tokens <- OneToken, Grants <- {<<acme, alice>>}, Callers <- {x1, x2},
    MaxKeyAge <- 4, Freshness <- 3, Cooldown <- 1, FetchTimeout <- 1, Patience <- 2,
    MaxOutages <- 1, MaxStep <- 0, up <- frontUp, request <- frontRequest
Keys == INSTANCE AuthorizationFront WITH
    Issuers <- {acme}, Registered <- {acme}, Kids <- {k1, k2}, Subjects <- {alice},
    Tokens <- TwoKeys, Grants <- {<<acme, alice>>}, Callers <- {x1, x2},
    MaxKeyAge <- 3, Freshness <- 2, Cooldown <- 1, FetchTimeout <- 1, Patience <- 1,
    MaxOutages <- 0, MaxStep <- 0, up <- frontUp, request <- frontRequest
Realms == INSTANCE AuthorizationFront WITH
    Issuers <- {acme, bolt, other}, Registered <- {acme, bolt}, Kids <- {k1},
    Subjects <- {alice}, Tokens <- AnyBearer, Grants <- {<<acme, alice>>},
    Callers <- {x1}, MaxKeyAge <- 1, Freshness <- 1, Cooldown <- 1, FetchTimeout <- 0,
    Patience <- 1, MaxOutages <- 0, MaxStep <- 0, up <- frontUp,
    request <- frontRequest
Stepped == INSTANCE AuthorizationFront WITH
    Issuers <- {acme}, Registered <- {acme}, Kids <- {k1}, Subjects <- {alice},
    Tokens <- OneToken, Grants <- {<<acme, alice>>}, Callers <- {x1, x2},
    MaxKeyAge <- 2, Freshness <- 1, Cooldown <- 1, FetchTimeout <- 1, Patience <- 1,
    MaxOutages <- 0, MaxStep <- 1, up <- frontUp, request <- frontRequest
Clock == INSTANCE AuthorizationFront WITH
    Issuers <- {acme}, Registered <- {acme}, Kids <- {k1, k2}, Subjects <- {alice},
    Tokens <- TwoKeys, Grants <- {<<acme, alice>>}, Callers <- {x1, x2},
    MaxKeyAge <- 4, Freshness <- 3, Cooldown <- 1, FetchTimeout <- 1, Patience <- 2,
    MaxOutages <- 0, MaxStep <- 3, up <- frontUp, request <- frontRequest
HeldUp == INSTANCE AuthorizationFront WITH
    Issuers <- {acme}, Registered <- {acme}, Kids <- {k1, k2}, Subjects <- {alice},
    Tokens <- TwoKeys, Grants <- {<<acme, alice>>}, Callers <- {x1, x2},
    MaxKeyAge <- 7, Freshness <- 6, Cooldown <- 2, FetchTimeout <- 2, Patience <- 1,
    MaxOutages <- 1, MaxStep <- 0, up <- frontUp, request <- frontRequest

Process == INSTANCE RuntimeHost WITH
    Connectors <- {"pg", "mssql"}, phase <- processPhase, up <- processUp

ASSUME ScenarioAssumptions ==
    /\ Front!AuthorizationFrontAssumption
    /\ Keys!AuthorizationFrontAssumption
    /\ Realms!AuthorizationFrontAssumption
    /\ Stepped!AuthorizationFrontAssumption
    /\ Clock!AuthorizationFrontAssumption
    /\ HeldUp!AuthorizationFrontAssumption
    /\ Process!ConnectorsAssumption

connectorVars == <<config, schema, connectorPhase, index, connectorRequest>>

frontVars == <<published, since, frontUp, entry, lock, frontRequest, called, outages,
               stepped>>

processVars == <<processPhase, refresh, retry, todo, conn, processUp, permit,
                 registries, probe, ready>>

-----------------------------------------------------------------------------
(* Components at rest                                                      *)

Rest == "at rest"

ConnectorRest ==
    /\ config = Rest /\ schema = Rest /\ connectorPhase = Rest /\ index = Rest
    /\ connectorRequest = Rest
FrontRest ==
    /\ published = Rest /\ since = Rest /\ frontUp = Rest /\ entry = Rest /\ lock = Rest
    /\ frontRequest = Rest /\ called = Rest /\ outages = Rest /\ stepped = Rest
ProcessRest ==
    /\ processPhase = Rest /\ refresh = Rest /\ retry = Rest /\ todo = Rest
    /\ conn = Rest /\ processUp = Rest /\ permit = Rest /\ registries = Rest
    /\ probe = Rest /\ ready = Rest

Init ==
    /\ scenario \in Scenarios
    /\ DataInit
    /\ \/ scenario = "connector" /\ Connector!Init
       \/ scenario # "connector" /\ ConnectorRest
    /\ \/ scenario = "front" /\ Front!Init
       \/ scenario = "keys" /\ Keys!Init
       \/ scenario = "tenants" /\ Realms!Init
       \/ scenario = "stepped" /\ Stepped!Init
       \/ scenario = "clock" /\ Clock!Init
       \/ scenario = "heldup" /\ HeldUp!Init
       \/ scenario \notin {"front", "keys", "tenants", "stepped", "clock", "heldup"} /\ FrontRest
    /\ \/ scenario = "process" /\ Process!Init
       \/ scenario # "process" /\ ProcessRest

\* Two requests are sent once each, or the first of them again as it is told to.
MaySend(r) == IF scenario = "retries" THEN r = 1 ELSE attempt[r] = 0

InData(act) ==
    /\ scenario \in {"data", "retries"} /\ act
    /\ UNCHANGED <<scenario, connectorVars, frontVars, processVars>>

RequestNext ==
    \/ InData(Install)
    \/ InData(\E r \in Requests : MaySend(r) /\ Arrive(r))
    \/ InData(\E r \in Requests : Pin(r))
    \/ InData(\E r \in Requests : Authorize(r))
    \/ InData(\E r \in Requests : Prepare(r))
    \/ InData(\E r \in Requests : Route(r))
    \/ InData(\E r \in Requests : Send(r))
    \/ InData(\E r \in Requests : TimeOut(r))
    \/ InData(\E r \in Requests : RequestTimeout(r))
    \/ InData(\E r \in Requests : RunBackend(r))
    \/ InData(\E r \in Requests : Decode(r))

InConnector(here, act) ==
    /\ scenario = here /\ act
    /\ UNCHANGED <<scenario, dataVars, frontVars, processVars>>

ConnectorNext ==
    \/ InConnector("connector", Connector!CheckConfig)
    \/ InConnector("connector", Connector!Register)
    \/ InConnector("connector", Connector!Query)
    \/ InConnector("connector", Connector!Mutate)

InFront(here, act) ==
    /\ scenario = here /\ act
    /\ UNCHANGED <<scenario, dataVars, connectorVars, processVars>>

FrontVariant ==
    /\ \/ scenario = "keys" /\ Keys!Next
       \/ scenario = "tenants" /\ Realms!Next
       \/ scenario = "stepped" /\ Stepped!Next
       \/ scenario = "clock" /\ Clock!Next
       \/ scenario = "heldup" /\ HeldUp!Next
    /\ UNCHANGED <<scenario, dataVars, connectorVars, processVars>>

FrontNext ==
    \/ InFront("front", \E c \in {x1, x2}, t \in OneToken : Front!Present(c, t))
    \/ InFront("front", \E c \in {x1, x2} : Front!FromCache(c))
    \/ InFront("front", \E c \in {x1, x2} : Front!Suppressed(c))
    \/ InFront("front", \E c \in {x1, x2} : Front!Call(c))
    \/ InFront("front", \E c \in {x1, x2} : Front!Reply(c))
    \/ InFront("front", \E c \in {x1, x2} : Front!Fetched(c))
    \/ InFront("front", \E c \in {x1, x2} : Front!FetchFails(c))
    \/ InFront("front", \E c \in {x1, x2} : Front!Decide(c))
    \/ InFront("front", \E c \in {x1, x2} : Front!GiveUp(c))
    \/ InFront("front", Front!Rotate(acme, k1))
    \/ InFront("front", Front!GoesDown(acme))
    \/ InFront("front", Front!ComesBack(acme))
    \/ InFront("front", Front!Tick)
    \/ FrontVariant

InProcess(here, act) ==
    /\ scenario = here /\ act
    /\ UNCHANGED <<scenario, dataVars, connectorVars, frontVars>>

ProcessNext ==
    \/ InProcess("process", Process!BuildIdentity)
    \/ InProcess("process", Process!Prime)
    \/ InProcess("process", \E c \in {"pg", "mssql"} : Process!NegotiateOne(c))
    \/ InProcess("process", Process!Negotiated)
    \/ InProcess("process", Process!Route)
    \/ InProcess("process", Process!Unwind)
    \/ InProcess("process", Process!Bind)
    \/ InProcess("process", Process!StopRefreshers)
    \/ InProcess("process", Process!StopRetry)
    \/ InProcess("process", Process!Joined)
    \/ InProcess("process", Process!Decide)
    \/ InProcess("process", Process!Sleep)
    \/ InProcess("process", Process!PassEnds)
    \/ InProcess("process", Process!RetryEnds)
    \/ InProcess("process", \E c \in {"pg", "mssql"} : Process!TryOne(c))
    \/ InProcess("process", Process!Signal)
    \/ InProcess("process", Process!StartSweep)
    \/ InProcess("process", \E c \in {"pg", "mssql"} : Process!Check(c))
    \/ InProcess("process", Process!FinishSweep)
    \/ InProcess("process", \E c \in {"pg", "mssql"} : Process!Flip(c))
    \/ InProcess("process", Process!Refresh)

Next == RequestNext \/ ConnectorNext \/ FrontNext \/ ProcessNext

vars == <<scenario, dataVars, connectorVars, frontVars, processVars>>

Spec == Init /\ [][Next]_vars

-----------------------------------------------------------------------------
(* Properties                                                              *)

\* What a connector service is sent selects the rows the neutral filter means, in the
\* argument its procedure declares for it, with every required argument and a key that
\* agrees with the predicate, whatever an operator's mapping and a service's schema say
\* (connector_ndc).
FiltersArrive == scenario = "connector" =>
    /\ Connector!PredicateMeansFilter /\ Connector!PredicateArrives
    /\ Connector!RequiredArgumentsSent /\ Connector!KeyAgreesWithPredicate

\* The locks of the front are held by the request that calls the issuer, and a process
\* that stopped, or failed to start, left no task running (front/cache.rs, startup).
NothingLeftHeld ==
    /\ scenario = "front" => Front!TypeOK
    /\ scenario = "keys" => Keys!TypeOK
    /\ scenario = "tenants" => Realms!TypeOK
    /\ scenario = "stepped" => Stepped!TypeOK
    /\ scenario = "process" => Process!NothingLeftRunning

\* What a step may never do: accept a bearer on a key its issuer no longer published within
\* the permitted age, call a key unknown that was published a while ago, call an issuer
\* again too soon, decide about another realm's subject, replace a row of another owner,
\* or report a replica unready while one of its connectors served throughout the sweep.  The
\* age of a key is asked of a clock that is not set back, which the cache goes by; where it
\* is set back (`stepped`) only whom a decision is about is checked.
DecisionsAreFounded == [][
    /\ scenario = "data" => OwnersChangeTheirRows
    /\ scenario = "front" => /\ Front!TrustIsRecent /\ Front!RefusedOnEvidence
                             /\ Front!CallsAreSpaced
    /\ scenario = "keys" => Keys!TrustIsRecent /\ Keys!RefusedOnEvidence /\ Keys!CallsAreSpaced
    /\ scenario = "tenants" => Realms!DecidedAboutTheSigner
    /\ scenario = "stepped" => Stepped!DecidedAboutTheSigner
    /\ scenario = "process" => Process!UnreadyMeansNoneServes]_vars

\* What the documents and comments of the code say and a behaviour contradicts, each
\* checked by a configuration of its own.

\* cache.rs: a key is only called unknown when its issuer did not publish it a short while
\* ago, a clock that is set back included.
RefusedOnEvidence == [][scenario = "clock" => Clock!RefusedOnEvidence]_vars

\* cache.rs: "A cached key must keep working through a provider outage".
KnownKeyIsServed == [][scenario = "heldup" => HeldUp!KnownKeyIsServed]_vars

=============================================================================
