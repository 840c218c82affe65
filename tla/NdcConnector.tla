---------------------------- MODULE NdcConnector -----------------------------
(***************************************************************************)
(* The NDC connector of fabric-connector-ndc: the checks it makes of its   *)
(* configuration and of the schema the connector service declares, and the *)
(* translation of a scoped filter or mutation into an NDC request.         *)
(*                                                                         *)
(* The tenant predicate of a shared table reaches the backend as one       *)
(* argument of one procedure.  An argument a procedure never declared may  *)
(* be ignored, and two settings that name one argument overwrite each      *)
(* other: either would run the write over every tenant's rows.             *)
(***************************************************************************)
EXTENDS Naturals, Sequences, FiniteSets

CONSTANTS Configs,   \* connector configurations an operator may write
          Schemas,   \* schemas a connector service may declare
          Filters,   \* scoped filters the Data API may send
          Fields,    \* the collection's columns
          Values     \* column values

VARIABLES config, schema, phase, index, request

vars == <<config, schema, phase, index, request>>

Verbs == {"insert", "update", "delete"}
Absent == "-"                        \* an optional setting left out
NoRequest == [kind |-> "none"]

------------------------------------------------------------------------------
(* Configuration: config/*.rs.  A binding is the mapping of one verb; a verb  *)
(* that is not mapped is not in the domain.                                   *)

Bindings == {<<v, config.procedures[v]>> : v \in DOMAIN config.procedures}

PredicateArguments == \A b \in Bindings : b[1] \in {"update", "delete"} => b[2].filter # Absent
PayloadArguments == \A b \in Bindings : b[1] \in {"insert", "update"} => b[2].payload # Absent
DeleteHasNoPayload == \A b \in Bindings : b[1] = "delete" => b[2].payload = Absent
DistinctArguments ==
  \A b \in Bindings : b[2].payload # Absent => b[2].payload # b[2].filter
NoKeyOnInsert == \A b \in Bindings : b[1] = "insert" => DOMAIN b[2].keys = {}
KeyArgumentsDistinct ==
  \A b \in Bindings : \A f \in DOMAIN b[2].keys :
    /\ b[2].keys[f] \notin {b[2].payload, b[2].filter}
    /\ \A g \in DOMAIN b[2].keys : g # f => b[2].keys[g] # b[2].keys[f]
\* Only an update may shape its payload as set operations.
PayloadShape == \A b \in Bindings : b[1] # "update" => b[2].shape = "values"
TransportUsable == config.connectTimeout \in 1..config.timeout

Validate == /\ TransportUsable /\ PredicateArguments /\ PayloadArguments /\ DeleteHasNoPayload
            /\ DistinctArguments /\ NoKeyOnInsert /\ KeyArgumentsDistinct
            /\ PayloadShape

------------------------------------------------------------------------------
(* The index built from the declared schema: schema_index/*.rs. *)

\* kind_of and is_nullable: a nullable predicate is still a predicate, and an
\* argument is required when its type is not nullable.
ArgumentInfo(type) == [kind |-> IF type \in {"predicate", "predicate?"} THEN "predicate" ELSE "value",
                       required |-> type \in {"predicate", "value"}]

ProcedureIndex(s) ==
  [p \in DOMAIN s.procedures |->
     [a \in DOMAIN s.procedures[p] |-> ArgumentInfo(s.procedures[p][a])]]

\* from_definition: a case-insensitive contains stands in for contains.
Semantic(definition) == IF definition = "contains_insensitive" THEN "contains" ELSE definition
Exact(definition) == definition # "contains_insensitive"

\* best_names: the definitions in name order; an exact one replaces a widened
\* one and nothing else replaces anything.
BestName(definitions, semantic) ==
  LET fits == {i \in DOMAIN definitions : Semantic(definitions[i]) = semantic}
      exact == {i \in fits : Exact(definitions[i])}
      first(s) == CHOOSE i \in s : \A j \in s : i <= j
  IN IF fits = {} THEN 0 ELSE IF exact # {} THEN first(exact) ELSE first(fits)

SemanticOperators == {"equal", "in", "less_than", "contains"}

\* schema_index_type.rs: a field whose type names no scalar has no operators.
OperatorName(i, field, semantic) == IF field \in DOMAIN i.scalars
                                    THEN BestName(i.scalars[field], semantic) ELSE 0

Build(s) == [procedures |-> ProcedureIndex(s), fields |-> s.fields, scalars |-> s.scalars]

Declares(i, p, a) == p \in DOMAIN i.procedures /\ a \in DOMAIN i.procedures[p]

------------------------------------------------------------------------------
(* The checks at registration: registration/*.rs. *)

\* A supported version: the minor of the floor, at its patch or later.
CheckVersion(s) == s.version[1] = 2 /\ s.version[2] >= 4

\* A routing argument is declared for queries and for mutations alike.
CheckRouting(s) == config.routing = Absent \/ s.routing = {"query", "mutation"}

CheckProcedureArguments(i) ==
  \A b \in Bindings :
    /\ b[2].procedure \in DOMAIN i.procedures
    /\ b[2].payload # Absent => /\ Declares(i, b[2].procedure, b[2].payload)
                                /\ i.procedures[b[2].procedure][b[2].payload].kind = "value"
    /\ b[2].filter # Absent => /\ Declares(i, b[2].procedure, b[2].filter)
                               /\ i.procedures[b[2].procedure][b[2].filter].kind = "predicate"

\* A schema that does not declare the collection at all has no fields here, and
\* is not asked about them.
CheckKeyArguments(i) ==
  \A b \in Bindings : \A f \in DOMAIN b[2].keys :
    /\ Declares(i, b[2].procedure, b[2].keys[f])
    /\ i.procedures[b[2].procedure][b[2].keys[f]].kind = "value"
    /\ i.fields = {} \/ f \in i.fields

Keys(b) == {b.keys[f] : f \in DOMAIN b.keys}
SuppliedArguments(v, b) ==
  CASE v = "insert" -> {b.payload}
    [] v = "update" -> {b.payload, b.filter} \cup Keys(b)
    [] v = "delete" -> {b.filter} \cup Keys(b)

CheckRequiredArguments(i) ==
  \A b \in Bindings : LET declared == i.procedures[b[2].procedure] IN
    \A a \in DOMAIN declared : declared[a].required => a \in SuppliedArguments(b[1], b[2])

\* What the neutral capabilities say is supported at all.
Capabilities(i) ==
  [mutations |-> Bindings # {},
   comparisons |-> {o \in SemanticOperators : \E f \in DOMAIN i.scalars : BestName(i.scalars[f], o) # 0}]

------------------------------------------------------------------------------
(* Translation: translate/*.rs.  A filter is a conjunction of clauses; a      *)
(* clause compares a field or tests membership.                               *)

\* NotEqual is the negation of equality; in falls back to a disjunction.
Compare(i, field, semantic, value) ==
  [op |-> semantic, field |-> field, values |-> {value}, negated |-> FALSE,
   known |-> OperatorName(i, field, semantic) # 0]

Membership(i, c) ==
  IF OperatorName(i, c.field, "in") # 0
  THEN [op |-> "in", field |-> c.field, values |-> c.values, negated |-> FALSE, known |-> c.values # {}]
  ELSE [op |-> "any_equal", field |-> c.field, values |-> c.values, negated |-> FALSE,
        known |-> c.values # {} /\ OperatorName(i, c.field, "equal") # 0]

NullCheck(i, c) == [op |-> "is_null", field |-> c.field, values |-> {}, negated |-> FALSE,
                    known |-> c.field \in i.fields]

\* Mutant: not-equal is sent as the comparison it is made of.
ToPositiveExpression(i, c) ==
  CASE c.op = "in" -> Membership(i, c)
    [] c.op = "is_null" -> NullCheck(i, c)
    [] c.op = "not_equal" -> Compare(i, c.field, "equal", c.value)
    [] OTHER -> Compare(i, c.field, c.op, c.value)

ToExpression(i, c) ==
  CASE c.op = "in" -> Membership(i, c)
    [] c.op = "is_null" -> NullCheck(i, c)
    [] c.op = "not_equal" -> [Compare(i, c.field, "equal", c.value) EXCEPT !.negated = TRUE]
    [] OTHER -> Compare(i, c.field, c.op, c.value)

Translated(filter) == {ToExpression(index, c) : c \in filter}

\* The capability check: every operator the filter uses is offered somewhere.
NeutralOperator(c) == IF c.op \in {"not_equal", "in"} THEN "equal" ELSE c.op
SupportsFilter(filter) ==
  \A c \in filter : c.op = "is_null" \/ NeutralOperator(c) \in Capabilities(index).comparisons

\* The values the conjunction's direct clauses equate a field with; a keyed
\* procedure needs exactly one.
Equalities(filter, field) == {c.value : c \in {d \in filter : d.op = "equal" /\ d.field = field}}

SingleEquality(filter, field) == Cardinality(Equalities(filter, field)) = 1

\* One argument map: a later entry for a name replaces an earlier one.
Arguments(v, b, filter) ==
  LET payload == IF v = "delete" THEN <<>> ELSE <<b.payload>>
      written == payload \o (IF v = "insert" THEN <<>> ELSE <<b.filter>>)
  IN [a \in {written[n] : n \in DOMAIN written} \cup (IF v = "insert" THEN {} ELSE Keys(b)) |->
        IF v # "insert" /\ a \in Keys(b)
        THEN [carries |-> "key",
              value |-> Equalities(filter, CHOOSE f \in DOMAIN b.keys : b.keys[f] = a)]
        ELSE IF v # "insert" /\ a = b.filter THEN [carries |-> "filter", value |-> {}]
        ELSE [carries |-> "payload", value |-> {}]]

------------------------------------------------------------------------------
(* Actions. *)

Init == /\ config \in Configs /\ schema \in Schemas
        /\ phase = "validating" /\ index = [procedures |-> <<>>, fields |-> {}, scalars |-> <<>>]
        /\ request = NoRequest

Refused == phase' = "refused" /\ UNCHANGED <<config, schema, index, request>>

\* build_ndc_connector, up to the first request.
CheckConfig ==
  /\ phase = "validating"
  /\ IF Validate THEN phase' = "negotiating" /\ UNCHANGED <<config, schema, index, request>>
     ELSE Refused

Register ==
  /\ phase = "negotiating"
  /\ LET i == Build(schema) IN
     IF /\ CheckVersion(schema) /\ CheckRouting(schema) /\ CheckProcedureArguments(i)
        /\ CheckKeyArguments(i) /\ CheckRequiredArguments(i)
     THEN phase' = "ready" /\ index' = i /\ UNCHANGED <<config, schema, request>>
     ELSE Refused

Answer(a) == request' = a /\ UNCHANGED <<config, schema, phase, index>>

\* query: the capability check, then the translation; either may refuse.
Query ==
  /\ phase = "ready" /\ request.kind = "none"
  /\ \E filter \in Filters :
       IF SupportsFilter(filter) /\ \A x \in Translated(filter) : x.known
       THEN Answer([kind |-> "query", filter |-> filter, predicate |-> Translated(filter)])
       ELSE Answer([kind |-> "unsupported"])

\* mutate: the verb's binding, its arguments, and once more what the procedure
\* accepts.
Mutate ==
  /\ phase = "ready" /\ request.kind = "none"
  /\ \E v \in Verbs, filter \in Filters :
       IF v \notin DOMAIN config.procedures
       THEN Answer([kind |-> "unsupported"])
       ELSE LET b == config.procedures[v] IN
            IF v # "insert" /\ ~(SupportsFilter(filter) /\ \A x \in Translated(filter) : x.known)
            THEN Answer([kind |-> "unsupported"])
            ELSE IF v # "insert" /\ \E f \in DOMAIN b.keys : ~SingleEquality(filter, f)
            THEN Answer([kind |-> "invalid"])
            ELSE Answer([kind |-> "mutation", verb |-> v, filter |-> filter, binding |-> b,
                         predicate |-> IF v = "insert" THEN {} ELSE Translated(filter),
                         arguments |-> Arguments(v, b, filter)])

Next == CheckConfig \/ Register \/ Query \/ Mutate

Spec == Init /\ [][Next]_vars

------------------------------------------------------------------------------
(* Properties. *)

\* What a row of column values satisfies, by the meaning of a neutral clause.
Holds(c, row) == CASE c.op = "equal" -> row[c.field] = c.value
                   [] c.op = "not_equal" -> row[c.field] # c.value
                   [] c.op = "less_than" -> row[c.field] < c.value
                   [] c.op = "in" -> row[c.field] \in c.values
                   [] OTHER -> TRUE

\* What the backend selects with the expression it is sent.
Selects(x, row) ==
  LET plain == CASE x.op = "equal" -> row[x.field] \in x.values
                 [] x.op = "less_than" -> \A v \in x.values : row[x.field] < v
                 [] x.op \in {"in", "any_equal"} -> row[x.field] \in x.values
                 [] OTHER -> TRUE
  IN IF x.negated THEN ~plain ELSE plain

\* A request selects the rows its neutral filter means, whatever operators the
\* schema offers: the tenant's clause is never weakened in translation.
PredicateMeansFilter ==
  request.kind \in {"query", "mutation"} =>
    \A row \in [Fields -> Values] :
      (request.kind = "mutation" => request.verb # "insert") =>
        ((\A c \in request.filter : Holds(c, row)) <=> \A x \in request.predicate : Selects(x, row))

\* An update or delete that is sent carries its predicate in an argument the
\* procedure declares as one, and no key or payload has taken its place.
PredicateArrives ==
  (request.kind = "mutation" /\ request.verb # "insert") =>
    LET b == request.binding declared == schema.procedures[b.procedure] IN
    /\ b.filter \in DOMAIN request.arguments
    /\ request.arguments[b.filter].carries = "filter"
    /\ b.filter \in DOMAIN declared /\ declared[b.filter] \in {"predicate", "predicate?"}

\* What is sent holds everything the procedure requires, and a write always
\* holds its rows: a connector that registered never sends a call the service
\* must refuse.
RequiredArgumentsSent ==
  request.kind = "mutation" =>
    LET b == request.binding declared == schema.procedures[b.procedure] IN
    /\ \A a \in DOMAIN declared : declared[a] \in {"predicate", "value"} => a \in DOMAIN request.arguments
    /\ request.verb # "delete" => request.arguments[b.payload].carries = "payload"
    /\ \A a \in DOMAIN request.arguments : a \in DOMAIN declared

\* A keyed procedure is called with one key, the one its own predicate selects;
\* a predicate that contradicts itself on the key is not sent.
KeyAgreesWithPredicate ==
  (request.kind = "mutation" /\ request.verb # "insert") =>
    \A f \in DOMAIN request.binding.keys :
      LET key == request.arguments[request.binding.keys[f]].value IN
      /\ Cardinality(key) = 1
      /\ \A row \in [Fields -> Values] : (\A c \in request.filter : Holds(c, row)) => key = {row[f]}
==============================================================================
