----------------------------- MODULE DataRequest -----------------------------
(***************************************************************************)
(* One data request from the route to its answer: the Data API's service  *)
(* (fabric-data-api), the connector contract (fabric-connector) and the    *)
(* NDC client that carries it over HTTP (fabric-connector-ndc).            *)
(*                                                                         *)
(* The handler suspends three times: at the relation Check, at the secret *)
(* lookup that routes the request, and at the connector's HTTP call.  A    *)
(* generation may be installed at each of them, other requests run, and    *)
(* the call may fail before, while or after the backend runs it.  A call   *)
(* that timed out is not withdrawn: the backend may still run it.          *)
(*                                                                         *)
(* A caller repeats a request exactly when it was told to (a 503, the one  *)
(* status that carries Retry-After).                                       *)
(***************************************************************************)
EXTENDS Naturals, FiniteSets, Sequences

CONSTANTS
  Requests,     \* the requests, numbered
  Tenants,      \* the tenants of the platform
  Views,        \* the generations, in the order they are installed
  Connectors,   \* connector id -> what it registered with
  Calls,        \* what a caller may ask for
  RelationChecked, \* <<tenant, resource>> pairs that need a relation Check
  Unnameable,   \* keys that cannot name an authorization object
  SeedRows,     \* the rows the databases start with
  MaxPage, MaxFilters, MaxBatch,  \* DataApiConfig
  MaxAttempts   \* bound: how often one caller sends one request

ASSUME BoundsAssumption == /\ MaxPage \in Nat /\ MaxFilters \in Nat
                           /\ MaxBatch \in Nat \ {0} /\ MaxAttempts \in Nat \ {0}

\* What a caller may ask for, as far as the answers depend on it.
ASSUME CallsAssumption ==
  /\ Calls # {}
  /\ \A c \in Calls : /\ c.op \in {"list", "read", "create", "update", "delete"}
                       /\ c.tenant \in Tenants /\ c.count \in Nat /\ c.limit \in Nat

\* A generation places every tenant, or says why it cannot.
ASSUME ViewsAssumption ==
  /\ Len(Views) \in Nat /\ DOMAIN Views = 1..Len(Views)
  /\ \A v \in DOMAIN Views, t \in Tenants :
       Views[v].placement[t].kind \in {"unknown", "unbound", "bound"}

VARIABLES
  installed,  \* how many generations were installed; 0: none yet
  pc,         \* where each request's handler is
  call,       \* what each request asks for
  attempt,    \* how often it was sent
  pinned,     \* the generation its handler pinned
  granted,    \* what the Check last allowed it, as the question that was asked
  backend,    \* whether the backend holds its call: none, pending, ran
  wire,       \* what came back over the wire
  answer,     \* what the caller was told
  table,      \* the rows of every database
  ran,        \* how much of the last attempt the backend ran: no, partly, fully
  applied     \* how many rows the backend wrote for the request, all attempts

dataVars == <<installed, pc, call, attempt, pinned, granted, backend, wire, answer,
          table, ran, applied>>

------------------------------------------------------------------------------
(* Names. *)

KeyField == "id"
Discriminator == "disc"
Columns == {KeyField, "total", "margin", Discriminator}

\* eq_ignore_ascii_case: the spelling with a capital is the same column to
\* the comparison, and to a backend that folds identifiers.
Folded(name) == IF name = "DISC" THEN Discriminator ELSE name

Operations == {"list", "read", "create", "update", "delete"}
IsWrite(op) == op \in {"create", "update", "delete"}
IsCollectionOperation(op) == op \in {"list", "create"}

NoAnswer == [status |-> 0, code |-> "none", claim |-> "none", rows |-> {}, more |-> FALSE]
Told(status, code, claim) ==
  [status |-> status, code |-> code, claim |-> claim, rows |-> {}, more |-> FALSE]
NoWire == [kind |-> "none", rows |-> {}, count |-> 0]
NoTarget == [kind |-> "none", key |-> 0]

------------------------------------------------------------------------------
(* What the pinned generation says. *)

\* pinned_resource.rs: the entry the pinned view's catalogue has.
Entry(r) == Views[pinned[r]].catalogue[call[r].resource]
InCatalogue(r) == call[r].resource \in DOMAIN Views[pinned[r]].catalogue

\* Mutant: the data source is resolved on the generation installed by now.
PlacementInstalled(r) == Views[installed].placement[call[r].tenant]

\* resolve_data_source on the same view.
Placement(r) == Views[pinned[r]].placement[call[r].tenant]

Allows(entry, op) == op \in entry.operations

\* An empty list permits any field.
PermitsField(entry, name) == entry.fields = {} \/ name \in entry.fields

\* The discriminator column of a shared placement; a dedicated one has none.
HasDiscriminator(place) == place.isolation = "discriminator"

\* Two tenants meet in a database only where both are told apart in it.  Within
\* one generation the resolver refuses anything else as far as configuration
\* shows it (destination_exclusivity.rs, isolation_enforceability.rs), and the
\* value is the tenant's own id (placements/select.rs); over generations it is
\* the operators' part not to hand one tenant's partition to another while its
\* rows are in it.
ASSUME PartitionsApart ==
  \A v, w \in DOMAIN Views, s, t \in Tenants :
    LET p == Views[v].placement[s] q == Views[w].placement[t] IN
    (s # t /\ p.kind = "bound" /\ q.kind = "bound" /\ p.db = q.db) =>
      HasDiscriminator(p) /\ HasDiscriminator(q) /\ p.value # q.value

\* A row is where some generation placed its owner, with its owner's value in
\* a shared table.
WellPlaced(row) ==
  \E v \in DOMAIN Views :
    LET p == Views[v].placement[row.owner] IN
    /\ p.kind = "bound" /\ row.db = p.db
    /\ HasDiscriminator(p) => row.disc = p.value
    /\ ~HasDiscriminator(p) => row.disc = 0

\* What the databases hold before the first request.
ASSUME SeedAssumption ==
  /\ IsFiniteSet(SeedRows)
  /\ \A row \in SeedRows :
       /\ DOMAIN row = {"db", "id", "disc", "owner", "by"}
       /\ row.owner \in Tenants /\ row.by = row.owner /\ WellPlaced(row)

VisibleColumns(entry, place) ==
  {c \in Columns : /\ ~(HasDiscriminator(place) /\ c = Discriminator)
                   /\ PermitsField(entry, c)}

Writable(entry, place, name) ==
  /\ ~(HasDiscriminator(place) /\ Folded(name) = Discriminator)
  /\ PermitsField(entry, name)

------------------------------------------------------------------------------
(* The scoped operation: for_target. *)

\* The caller's own predicate, as field-value equalities.
CallerFilter(c) ==
  IF c.op = "list" THEN {<<f, c.value>> : f \in c.fields}
  ELSE {<<KeyField, c.key>>}

\* Under discriminator isolation the tenant's equality is conjoined.
TenantPredicate(place) ==
  IF HasDiscriminator(place) THEN {<<Discriminator, place.value>>} ELSE {}

ForTarget(c, place) == CallerFilter(c) \cup TenantPredicate(place)

\* stamp: a written row carries the tenant's value, whatever the payload says;
\* a payload that names the column in another spelling is a second column
\* here, and the backend, which folds the names, may keep either.
Stamped(c, place) ==
  IF ~HasDiscriminator(place) THEN {0}
  ELSE {place.value} \cup
       (IF \E f \in c.fields : Folded(f) = Discriminator /\ f # Discriminator
        THEN {c.value} ELSE {})

Matches(row, predicate) ==
  \A e \in predicate : CASE e[1] = KeyField -> row.id = e[2]
                         [] e[1] = Discriminator -> row.disc = e[2]
                         [] OTHER -> TRUE

------------------------------------------------------------------------------
(* Validation, after authorization. *)

\* effective_limit: clamped, never refused; zero is an existence probe.
EffectiveLimit(c) == IF c.limit > MaxPage THEN MaxPage ELSE c.limit

\* The page asks for one row more than it shows.
AskedRows(c) == IF c.op = "list" THEN EffectiveLimit(c) + 1 ELSE 1

\* enforce_query, enforce_batch_size.
WithinLimits(c) == CASE c.op = "list"   -> Cardinality(c.fields) <= MaxFilters
                     [] c.op = "create" -> c.count <= MaxBatch
                     [] OTHER           -> TRUE

\* ListQuery::parse runs here, so its refusals come after authorization.
FieldReference(entry, f) == f \in Columns /\ PermitsField(entry, f)
ParsedQuery(r) == /\ call[r].fault # "nul"
                  /\ \A f \in call[r].fields : FieldReference(Entry(r), f)
ListAccepted(r) == ParsedQuery(r) /\ WithinLimits(call[r])

ToRow(r) == \A f \in call[r].fields : Writable(Entry(r), Placement(r), f)
RefuseKeyChange(c) == KeyField \notin {Folded(f) : f \in c.fields}

CreateAccepted(r) == call[r].count > 0 /\ WithinLimits(call[r]) /\ ToRow(r)
UpdateAccepted(r) == call[r].fields # {} /\ RefuseKeyChange(call[r]) /\ ToRow(r)

Accepted(r) == CASE call[r].op = "list"   -> ListAccepted(r)
                 [] call[r].op = "create" -> CreateAccepted(r)
                 [] call[r].op = "update" -> UpdateAccepted(r)
                 [] OTHER                 -> TRUE

\* RowBudget::ceiling: what the operation may honestly have affected.
Ceiling(c) == IF c.op = "create" THEN c.count ELSE 1

\* ConnectorRegistry::get.
HasConnector(connector) == connector \in DOMAIN Connectors

\* The capability check, before anything is looked up: writes at all, and an
\* equality operator when there is a predicate to send.
Supported(c, place) ==
  LET connector == Connectors[place.connector] IN
  /\ IsWrite(c.op) => connector.verbs # {}
  /\ (c.op # "create" /\ ForTarget(c, place) # {}) => connector.equality

------------------------------------------------------------------------------
(* What a failure becomes: errors/connector_mapping.rs. *)

\* operation_effect.rs and rejection_status.rs.
Effect(kind) ==
  CASE kind \in {"UnknownConnector", "Unsupported", "SecretUnavailable", "Unreachable",
                 "Rejected422", "Invalid"} -> "notApplied"
    [] kind \in {"OutcomeUnknown", "Rejected500"} -> "unknown"
    [] kind \in {"ResultLost", "Malformed"} -> "applied"

\* The table of answers; only Unreachable lets a write be repeated.
ConnectorAnswer(kind, op) ==
  CASE kind = "Unreachable" -> Told(503, "connector_unavailable", "notApplied")
    [] kind = "OutcomeUnknown" /\ IsWrite(op) -> Told(502, "write_outcome_unknown", "unknown")
    [] kind = "ResultLost" /\ IsWrite(op) -> Told(502, "write_result_unavailable", "applied")
    [] kind \in {"OutcomeUnknown", "ResultLost"} /\ ~IsWrite(op) ->
         Told(503, "connector_unavailable", "none")
    [] kind = "Unsupported" -> Told(400, "unsupported", "none")
    [] OTHER -> Told(500, "execution_failed", IF IsWrite(op) THEN Effect(kind) ELSE "none")

------------------------------------------------------------------------------
(* Actions. *)

DataInit ==
  /\ installed = 0
  /\ pc = [r \in Requests |-> "idle"]
  /\ call \in [Requests -> {CHOOSE c \in Calls : TRUE}]
  /\ attempt = [r \in Requests |-> 0]
  /\ pinned = [r \in Requests |-> 0]
  /\ granted = [r \in Requests |-> NoTarget]
  /\ backend = [r \in Requests |-> "none"]
  /\ wire = [r \in Requests |-> NoWire]
  /\ answer = [r \in Requests |-> NoAnswer]
  /\ table = SeedRows
  /\ ran = [r \in Requests |-> "no"]
  /\ applied = [r \in Requests |-> 0]

\* The published-state reader swaps a whole generation in.
Install ==
  /\ installed < Len(Views)
  /\ installed' = installed + 1
  /\ UNCHANGED <<pc, call, attempt, pinned, granted, backend, wire, answer, table, ran, applied>>

\* A request arrives, or is repeated because the caller was told to.
Arrive(r) ==
  /\ \/ pc[r] = "idle" /\ \E c \in Calls : call' = [call EXCEPT ![r] = c]
     \/ pc[r] = "answered" /\ answer[r].status = 503 /\ attempt[r] < MaxAttempts /\ UNCHANGED call
  /\ pc' = [pc EXCEPT ![r] = "routed"]
  /\ attempt' = [attempt EXCEPT ![r] = @ + 1]
  /\ answer' = [answer EXCEPT ![r] = NoAnswer]
  /\ backend' = [backend EXCEPT ![r] = "none"]
  /\ wire' = [wire EXCEPT ![r] = NoWire]
  /\ granted' = [granted EXCEPT ![r] = NoTarget]
  /\ ran' = [ran EXCEPT ![r] = "no"]
  /\ UNCHANGED <<installed, pinned, table, applied>>

\* The handler answers; nothing else of the request changes.
Reply(r, a) ==
  /\ pc' = [pc EXCEPT ![r] = "answered"]
  /\ answer' = [answer EXCEPT ![r] = a]

\* What is refused before anything of the resource is read, in this order: the
\* caller (whose tenant the credential names), the body's size and JSON, the
\* name in the path, NUL in any text, and a body that is no object or list.
IdentityFault(c) == c.fault = "identity"
BodyFault(c) == c.fault = "body" /\ c.op \in {"create", "update"}
NameFault(c) == c.fault = "name"
TextFault(c) == c.fault = "nul" /\ c.op # "list"
ShapeFault(c) == c.fault = "shape" /\ c.op = "create"
ChangesFault(c) == c.fault = "shape" /\ c.op = "update"
WellFormed(c) == ~(BodyFault(c) \/ NameFault(c) \/ TextFault(c) \/ ShapeFault(c) \/ ChangesFault(c))

\* The extractors and the handler's own parsing, which read no resource; then
\* the view and the catalogue entry are pinned.
Pin(r) ==
  /\ pc[r] = "routed"
  /\ IF IdentityFault(call[r]) THEN Reply(r, Told(401, "identity", "none")) /\ UNCHANGED pinned
     ELSE IF ~WellFormed(call[r])
     THEN Reply(r, Told(400, "bad_request", "none")) /\ UNCHANGED pinned
     ELSE /\ pinned' = [pinned EXCEPT ![r] = installed]
          /\ IF installed > 0 /\ call[r].resource \notin DOMAIN Views[installed].catalogue
             THEN Reply(r, Told(404, "unknown_resource", "none"))
             ELSE pc' = [pc EXCEPT ![r] = "authorizing"] /\ UNCHANGED answer
  /\ UNCHANGED <<installed, call, attempt, granted, backend, wire, table, ran, applied>>

\* Layer 1, and whether the tenant's posture and its declared relations ask
\* for layer 2.
ScopePermits(c) == c.scoped
RequiresCheck(c) == <<c.tenant, c.resource>> \in RelationChecked

\* DataAuthorization::target: list and create ask about the collection and
\* ignore a key; the others need a key that can name a record.
CheckTarget(c) == IF IsCollectionOperation(c.op)
                  THEN [kind |-> "collection", key |-> 0]
                  ELSE [kind |-> "record", key |-> c.key]
Nameable(c) == IsCollectionOperation(c.op) \/ c.key \notin Unnameable

Forbidden == Told(403, "forbidden", "none")

\* What the Check may answer; a Check that is not configured never allows.
CheckAnswers == {"allowed", "denied", "unavailable", "internal"}

\* Layer 1, then layer 2 where the tenant needs it.
Decisions(c) == IF ~ScopePermits(c) THEN {"denied"}
                ELSE IF ~RequiresCheck(c) THEN {"permitted"}
                ELSE IF ~Nameable(c) THEN {"denied"}
                ELSE CheckAnswers

\* A Check that could not be decided is refused too.
Authorize(r) ==
  /\ pc[r] = "authorizing"
  /\ \E decision \in Decisions(call[r]) :
       /\ granted' = IF decision = "allowed" THEN [granted EXCEPT ![r] = CheckTarget(call[r])]
                     ELSE granted
       /\ CASE decision \in {"permitted", "allowed"} ->
                 pc' = [pc EXCEPT ![r] = "authorized"] /\ UNCHANGED answer
            [] decision = "denied" -> Reply(r, Forbidden)
            [] decision = "unavailable" -> Reply(r, Told(503, "authorization_unavailable", "none"))
            [] decision = "internal" -> Reply(r, Told(500, "internal", "none"))
  /\ UNCHANGED <<installed, call, attempt, pinned, backend, wire, table, ran, applied>>

\* The first refusal the rest of the chain meets: the catalogue, the verb, the
\* tenant's placement, its write permission, the connector, the request itself.
Refusal(r) ==
  IF pinned[r] = 0 THEN Told(503, "runtime_unavailable", "none")
  ELSE IF ~Allows(Entry(r), call[r].op) THEN Told(405, "operation_not_allowed", "none")
  ELSE IF Placement(r).kind = "unknown" THEN Told(403, "unknown_tenant", "none")
  ELSE IF Placement(r).kind = "unbound" THEN Told(500, "internal", "none")
  ELSE IF IsWrite(call[r].op) /\ ~Placement(r).writable THEN Told(405, "read_only", "none")
  ELSE IF ~HasConnector(Placement(r).connector)
  THEN ConnectorAnswer("UnknownConnector", call[r].op)
  ELSE IF ~Accepted(r) THEN Told(400, "bad_request", "none")
  ELSE IF ~Supported(call[r], Placement(r)) THEN ConnectorAnswer("Unsupported", call[r].op)
  ELSE NoAnswer

\* The steps of prepare that follow the Check, and the operation's own.  They
\* run without suspending, up to the connector's secret lookup.
Prepare(r) ==
  /\ pc[r] = "authorized"
  /\ IF Refusal(r) # NoAnswer
     THEN Reply(r, Refusal(r))
     ELSE pc' = [pc EXCEPT ![r] = "routing"] /\ UNCHANGED answer
  /\ UNCHANGED <<installed, call, attempt, pinned, granted, backend, wire, table, ran, applied>>

\* The translation into a request: a write's verb has a procedure mapped.
Translated(c, place) == IsWrite(c.op) => c.op \in Connectors[place.connector].verbs

\* What may refuse the request while it is routed and translated.  Invalid:
\* the connector's configuration has no argument or no resolver for this
\* routing, or the request names a collection, a procedure or a key argument
\* its schema does not have.
RoutingRefusals(r) ==
  {"Invalid"} \cup (IF Placement(r).selector = "secret" THEN {"SecretUnavailable"} ELSE {})
              \cup (IF Translated(call[r], Placement(r)) THEN {} ELSE {"Unsupported"})

\* request_arguments: a placement reached through a secret resolves it now;
\* the request is translated after it.
Route(r) ==
  /\ pc[r] = "routing"
  /\ \/ /\ Translated(call[r], Placement(r))
        /\ pc' = [pc EXCEPT ![r] = "sending"] /\ UNCHANGED answer
     \/ \E kind \in RoutingRefusals(r) : Reply(r, ConnectorAnswer(kind, call[r].op))
  /\ UNCHANGED <<installed, call, attempt, pinned, granted, backend, wire, table, ran, applied>>

\* post: the connect fails, or the request goes out.
Send(r) ==
  /\ pc[r] = "sending"
  /\ \/ Reply(r, ConnectorAnswer("Unreachable", call[r].op)) /\ UNCHANGED backend
     \/ /\ pc' = [pc EXCEPT ![r] = "waiting"]
        /\ backend' = [backend EXCEPT ![r] = "pending"]
        /\ UNCHANGED answer
  /\ UNCHANGED <<installed, call, attempt, pinned, granted, wire, table, ran, applied>>

\* The call's timeout: whether it was delivered or run is not known.
TimeOut(r) ==
  /\ pc[r] = "waiting"
  /\ Reply(r, ConnectorAnswer("OutcomeUnknown", call[r].op))
  /\ UNCHANGED <<installed, call, attempt, pinned, granted, backend, wire, table, ran, applied>>

\* The host's own timeout drops the handler at whichever await it is; what the
\* backend holds stays there, and the 504 carries no claim and no Retry-After.
RequestTimeout(r) ==
  /\ pc[r] \in {"authorizing", "routing", "sending", "waiting"}
  /\ Reply(r, Told(504, "timeout", "none"))
  /\ UNCHANGED <<installed, call, attempt, pinned, granted, backend, wire, table, ran, applied>>

Selected(r) == {row \in table : row.db = Placement(r).db /\
                                Matches(row, ForTarget(call[r], Placement(r)))}

\* An update writes the tenant's value into a shared row; a dedicated row's
\* column is the table's own and stays as it is.
Changed(row, d, c, p) ==
  [row EXCEPT !.disc = IF HasDiscriminator(p) THEN d ELSE @, !.by = c.tenant]

\* The backend's rows after it ran the write.
Written(r) ==
  LET c == call[r] p == Placement(r) IN
  CASE c.op = "create" ->
         {table \cup {[db |-> p.db, id |-> c.key, disc |-> d, owner |-> c.tenant, by |-> c.tenant]} :
            d \in Stamped(c, p)}
    [] c.op = "update" ->
         {(table \ Selected(r)) \cup {Changed(row, d, c, p) : row \in Selected(r)} :
            d \in Stamped(c, p)}
    [] c.op = "delete" -> {table \ Selected(r)}
    [] OTHER -> {table}

\* What the backend sends: a page of rows, or the count of a write, possibly
\* one it cannot mean; or a refusal.  400 and 422 are answered before it runs.
QueryPages(r) ==
  {s \in SUBSET Selected(r) :
     Cardinality(s) = IF Cardinality(Selected(r)) < AskedRows(call[r])
                      THEN Cardinality(Selected(r)) ELSE AskedRows(call[r])}

\* A batch that is not transactional may stop half way.
RunBackend(r) ==
  /\ backend[r] = "pending"
  /\ backend' = [backend EXCEPT ![r] = "ran"]
  /\ \/ /\ ~IsWrite(call[r].op)
        /\ \E page \in QueryPages(r) :
             wire' = [wire EXCEPT ![r] = [kind |-> "rows", rows |-> page,
                                          count |-> Cardinality(Selected(r))]]
        /\ ran' = [ran EXCEPT ![r] = "fully"]
        /\ UNCHANGED <<table, applied>>
     \/ /\ IsWrite(call[r].op)
        /\ table' \in Written(r)
        /\ ran' = [ran EXCEPT ![r] = "fully"]
        /\ LET n == IF call[r].op = "create" THEN call[r].count ELSE Cardinality(Selected(r)) IN
           /\ applied' = [applied EXCEPT ![r] = @ + n]
           /\ \E k \in {n, n + 2} :
                wire' = [wire EXCEPT ![r] = [kind |-> "count", rows |-> {}, count |-> k]]
     \/ /\ call[r].op = "create" /\ call[r].count > 1
        /\ table' \in Written(r)
        /\ ran' = [ran EXCEPT ![r] = "partly"]
        /\ applied' = [applied EXCEPT ![r] = @ + 1]
        /\ \E k \in {"count", "Rejected500"} :
             wire' = [wire EXCEPT ![r] = [kind |-> k, rows |-> {}, count |-> 1]]
     \/ /\ \E k \in {"Rejected422", "Rejected500"} :
             wire' = [wire EXCEPT ![r] = [kind |-> k, rows |-> {}, count |-> 0]]
        /\ UNCHANGED <<table, applied, ran>>
  /\ UNCHANGED <<installed, pc, call, attempt, pinned, granted, answer>>

\* ensure_consistent: fewer rows than sent is a partial write, more than the
\* budget is an answer about something else.
WriteAnswer(c, count) ==
  CASE count > Ceiling(c) -> ConnectorAnswer("Malformed", c.op)
    [] c.op = "create" /\ count < c.count -> Told(500, "partial_write", "partial")
    [] OTHER -> Told(200, "ok", "applied")

\* ListResponse::from_outcome trims the probe row; read takes the first row.
ReadAnswer(r, rows) ==
  LET limit == EffectiveLimit(call[r])
      shown(page) == {[row |-> row, columns |-> VisibleColumns(Entry(r), Placement(r))] : row \in page}
      page == IF Cardinality(rows) <= limit THEN rows
              ELSE CHOOSE s \in SUBSET rows : Cardinality(s) = limit
  IN IF call[r].op = "list"
     THEN [Told(200, "ok", "none") EXCEPT !.rows = shown(page), !.more = Cardinality(rows) > limit]
     ELSE IF rows = {} THEN Told(404, "not_found", "none")
     ELSE [Told(200, "ok", "none") EXCEPT !.rows = shown({CHOOSE row \in rows : TRUE})]

\* The response is read: the success body may die or be unreadable after the
\* status; a refusal's status stands without its body.
Decode(r) ==
  /\ pc[r] = "waiting" /\ wire[r].kind # "none"
  /\ \/ /\ wire[r].kind \in {"Rejected422", "Rejected500"}
        /\ Reply(r, ConnectorAnswer(wire[r].kind, call[r].op))
     \/ /\ wire[r].kind \in {"rows", "count"}
        /\ \E k \in {"ResultLost", "Malformed"} : Reply(r, ConnectorAnswer(k, call[r].op))
     \/ wire[r].kind = "rows" /\ Reply(r, ReadAnswer(r, wire[r].rows))
     \/ wire[r].kind = "count" /\ Reply(r, WriteAnswer(call[r], wire[r].count))
  /\ UNCHANGED <<installed, call, attempt, pinned, granted, backend, wire, table, ran, applied>>

DataNext ==
  \/ Install
  \/ \E r \in Requests : \/ Arrive(r) \/ Pin(r) \/ Authorize(r) \/ Prepare(r) \/ Route(r)
                         \/ Send(r) \/ TimeOut(r) \/ RequestTimeout(r) \/ RunBackend(r) \/ Decode(r)

DataSpec == DataInit /\ [][DataNext]_dataVars

------------------------------------------------------------------------------
(* Properties. *)

\* The state keeps its types.
DataTypeOK ==
  /\ installed \in 0..Len(Views)
  /\ pc \in [Requests -> {"idle", "routed", "authorizing", "authorized", "routing", "sending",
                          "waiting", "answered"}]
  /\ call \in [Requests -> Calls]
  /\ attempt \in [Requests -> 0..MaxAttempts]
  /\ pinned \in [Requests -> 0..Len(Views)]
  /\ backend \in [Requests -> {"none", "pending", "ran"}]
  /\ ran \in [Requests -> {"no", "partly", "fully"}]

\* In every database, shared tables included, a row carries its owner's
\* discriminator and only its owner's requests wrote it (for_target, to_row):
\* no payload, predicate or generation swapped mid-request changes that.
RowsKeepTheirOwner ==
  \A row \in table : /\ row.by = row.owner
                     /\ row.disc # 0 => \E v \in DOMAIN Views :
                          /\ Views[v].placement[row.owner].kind = "bound"
                          /\ Views[v].placement[row.owner].value = row.disc

\* A row is removed or replaced by a request of its owner only: in a shared
\* table two tenants use the same keys, and a key alone reaches both rows.
OwnersChangeTheirRows ==
  \A row \in table \ table' :
    \E r \in Requests : /\ backend[r] = "pending" /\ backend'[r] = "ran"
                        /\ call[r].tenant = row.owner

\* A caller is shown its own tenant's rows only, from where the generation its request
\* was pinned to places the tenant, and never the column that separates tenants there
\* nor one that generation's resource hides (VisibleFields), whatever was installed
\* while it waited on the Check, the secret or the backend.
AnswersDiscloseOwnRows ==
  \A r \in Requests : \A shown \in answer[r].rows :
    LET place == Views[pinned[r]].placement[call[r].tenant] IN
    /\ shown.row.owner = call[r].tenant /\ shown.row.db = place.db
    /\ HasDiscriminator(place) => Discriminator \notin shown.columns
    /\ \A c \in shown.columns : PermitsField(Entry(r), c)

\* What reaches the connector was allowed, for exactly the record or the
\* collection it addresses, when the tenant's resource declares relations; and
\* always for the caller's scope.
ExecutedWasGranted ==
  \A r \in Requests : pc[r] \in {"routing", "sending", "waiting"} =>
    /\ call[r].scoped
    /\ RequiresCheck(call[r]) =>
         granted[r] = IF call[r].op \in {"list", "create"}
                      THEN [kind |-> "collection", key |-> 0]
                      ELSE [kind |-> "record", key |-> call[r].key]

\* A caller without the scope learns only which names the API routes: never
\* whether a verb, a field or a placement exists.
RefusalTellsNothing ==
  \A r \in Requests : (pc[r] = "answered" /\ ~call[r].scoped) =>
    answer[r].code \in {"forbidden", "unknown_resource", "bad_request", "identity", "timeout"}

\* A caller that repeats a request exactly when a 503 tells it to never has
\* its rows written twice, late backend runs included.
RetryNeverDuplicates ==
  \A r \in Requests : call[r].op = "create" => applied[r] <= call[r].count

\* What a write's answer claims is so, and stays so when a call that timed out
\* is still run: not applied means it never runs, a success means all of it did.
AnswersClaimTheTruth ==
  \A r \in Requests : (pc[r] = "answered" /\ IsWrite(call[r].op)) =>
    /\ answer[r].claim = "notApplied" => ran[r] = "no" /\ backend[r] # "pending"
    /\ answer[r].claim \in {"applied", "partial"} => ran[r] # "no"
    /\ answer[r].status = 200 => ran[r] = "fully"

\* A page says there is more exactly when the tenant's collection held more
\* than it shows, and shows all it may.
PagesAreExact ==
  \A r \in Requests : (pc[r] = "answered" /\ call[r].op = "list" /\ answer[r].status = 200) =>
    LET limit == EffectiveLimit(call[r]) IN
    /\ answer[r].more <=> wire[r].count > limit
    /\ Cardinality(answer[r].rows) = IF wire[r].count > limit THEN limit ELSE wire[r].count

\* A request reaches its own tenant's rows, in the generation it was pinned to,
\* and is told the truth of it.
RowsStayOwned ==
  /\ DataTypeOK /\ RowsKeepTheirOwner /\ AnswersDiscloseOwnRows /\ ExecutedWasGranted
  /\ RefusalTellsNothing /\ AnswersClaimTheTruth /\ RetryNeverDuplicates /\ PagesAreExact
==============================================================================
