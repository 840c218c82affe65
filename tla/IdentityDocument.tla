-------------------------- MODULE IdentityDocument --------------------------
(***************************************************************************)
(* The identity half of a client document: which callbacks a client may    *)
(* declare (fabric-client-model identity, redirect_uri, redirect_strategy) *)
(* and how a document is read, migrated from v1 and written back           *)
(* (document parse, migration, render).                                    *)
(*                                                                         *)
(* A callback is the record of what its text splits into; a host is the    *)
(* sequence of its labels, drawn from the spellings the rules tell apart.  *)
(***************************************************************************)
EXTENDS Naturals, Sequences, FiniteSets

CONSTANTS Callbacks,    \* every callback a single-client document may declare
          Usual,        \* the ones documents of several clients declare
          None

VARIABLE stored

---------------------------------------------------------------------------
(* Labels                                                                  *)

Decimal == {"0", "1", "127", "256", "2001", "2130706433"}

\* `parse_c_integer`: decimal, 0x and leading-0 octal; "08" is none of them.
CInteger(label) ==
    CASE label = "0" -> 0 [] label = "1" -> 1 [] label = "127" -> 127 [] label = "256" -> 256
      [] label = "2001" -> 2001 [] label = "2130706433" -> 2130706433
      [] label = "0x7f" -> 127 [] label = "0177" -> 127
      [] OTHER -> None

\* IPv6 literals, which hold colons and so are one label each.
IPv6 == {"::1", "::ffff:127.0.0.1", "2001:db8::1"}

Names == {"shop", "nz", "localhost", "internal", "test", "-x", "a_b", "non-ascii"}
Labels == Names \cup Decimal \cup IPv6 \cup {"", "08", "0x7f", "0xg", "0177"}

Last(s) == s[Len(s)]

\* `parse`, `parse_ipv4`: the first octet of the address a host spells, or None.
Octet(host) ==
    LET n == Len(host)
        value == [i \in 1..n |-> CInteger(host[i])]
    IN  IF \/ n > 4 \/ \E i \in 1..n : value[i] = None THEN None
        ELSE IF n = 1 THEN value[1] \div 16777216
        ELSE IF \/ \E i \in 1..(n - 1) : value[i] > 255
                \/ value[n] >= 256 ^ (5 - n)
             THEN None ELSE value[1]

\* `is_loopback`
AddressIsLoopback(host) ==
    \/ host \in {<<"::1">>, <<"::ffff:127.0.0.1">>}
    \/ host[1] \notin IPv6 /\ Octet(host) = 127

\* `is_private_network`
IsPrivateNetwork(host) == Last(host) = "internal"

\* `special_use::check`: the names that can never be registered.
SpecialUse(host) == Last(host) = "test"

\* `registered_domain::label::check`
LabelCheck(label) == label \notin {"-x", "a_b"}

\* `registered_domain::check`
RegisteredDomain(host) ==
    /\ \A i \in DOMAIN host : host[i] # "non-ascii" /\ host[i] \notin IPv6
    /\ Len(host) >= 2
    /\ \A i \in DOMAIN host : LabelCheck(host[i])
    /\ Last(host) \notin Decimal \cup {"08", "0177", "0x7f", "0xg"}

Loopback == {<<"localhost">>, <<"127", "0", "0", "1">>, <<"::1">>}

\* Mutant: only addresses are looked at.
ReachesLoopbackByAddress(host) == AddressIsLoopback(host)

\* `reaches_loopback`
ReachesLoopback(host) ==
    IF host[1] \in IPv6 \/ Octet(host) # None THEN AddressIsLoopback(host)
    ELSE Len(host) > 1 /\ "localhost" \in {host[1], Last(host)}

\* `host_kind::classify`
HostKind(host, secure) ==
    IF \E i \in DOMAIN host : host[i] = "" THEN None
    ELSE IF host \in Loopback THEN "loopback"
    ELSE IF ReachesLoopback(host) THEN None
    ELSE IF IsPrivateNetwork(host) THEN "privateNetwork"
    ELSE IF secure /\ ~SpecialUse(host) /\ RegisteredDomain(host) THEN "https" ELSE None

---------------------------------------------------------------------------
(* Callbacks                                                               *)

\* `host_and_port`: an unbracketed authority is cut at its first colon.
AuthorityHost(uri) ==
    IF uri.bracket = "none" /\ uri.labels[1] \in IPv6
    THEN <<IF uri.labels[1] = "2001:db8::1" THEN "2001" ELSE "">> ELSE uri.labels

\* `reject_userinfo`, `reject_brackets`
WellFormedAuthority(uri) ==
    /\ ~uri.userinfo
    /\ uri.bracket # "none" => uri.bracket = "closed" /\ uri.labels[1] \in IPv6

\* `AppScheme::check`, `is_private_use`: a digit after the colon reads as a port.
AppSchemes == {"nz.fieldstate.slipway", "com.example.other"}
PrivateUse(uri) ==
    IF uri.scheme \notin AppSchemes THEN "no" ELSE IF uri.rest = "digit" THEN "refused" ELSE "yes"

\* `kind::classify`
Classify(uri) ==
    IF PrivateUse(uri) = "yes" THEN "privateUseScheme"
    ELSE IF \/ PrivateUse(uri) = "refused" \/ uri.scheme \notin {"http", "https"}
            \/ uri.rest # "slashes" \/ ~WellFormedAuthority(uri)
         THEN None
         ELSE HostKind(AuthorityHost(uri), uri.scheme = "https")

\* `characters::check`: no space, and a wildcard only at the very end.
CheckCharacters(uri) ==
    /\ uri.tail \in {"path", "wildcard"}
    /\ ~(uri.rest = "slashes" /\ uri.port = "wildcard")

HasPathWildcard(uri) == uri.tail = "wildcard"

\* `RedirectUri::try_new`: the kind of a callback that may be declared, or None.
TryNew(uri) == IF CheckCharacters(uri) THEN Classify(uri) ELSE None

---------------------------------------------------------------------------
(* Strategies and clients                                                  *)

Strategies == {"claimedHttps", "privateNetwork", "development"} \cup AppSchemes

\* `rules::admits`
Admits(strategy, uri) ==
    CASE strategy = "claimedHttps"   -> TryNew(uri) = "https"
      [] strategy = "privateNetwork" -> TryNew(uri) = "privateNetwork"
      [] strategy = "development"    -> TryNew(uri) = "loopback"
      [] OTHER -> TryNew(uri) = "privateUseScheme" /\ uri.scheme = strategy

\* `first_complaint`
NoComplaint(redirect) ==
    /\ redirect.uris # {}
    /\ \A uri \in redirect.uris :
          /\ Admits(redirect.strategy, uri)
          /\ HasPathWildcard(uri) => redirect.strategy = "development"

\* `client_rules::check`: a private-use scheme is representable and not yet carried.
ClientRules(client) == client.redirect.strategy \notin AppSchemes /\ NoComplaint(client.redirect)

\* `first_missing`
RequiredRoles == {"Client Realm Administrator", "Client Realm User"}
CheckRoles(roles) ==
    /\ \A i, j \in DOMAIN roles : roles[i] = roles[j] => i = j
    /\ \A role \in RequiredRoles : \E i \in DOMAIN roles : roles[i] = role

\* `IdentityConfiguration::validate`
Validate(identity) ==
    /\ CheckRoles(identity.roles)
    /\ \A i, j \in DOMAIN identity.clients : identity.clients[i].id = identity.clients[j].id => i = j
    /\ \A i \in DOMAIN identity.clients : ClientRules(identity.clients[i])

---------------------------------------------------------------------------
(* Reading a document, in either schema                                    *)

\* `mislabelled::reject`: a v1 document has neither field.
Mislabelled(raw) == raw.redirect # None \/ raw.pkce

\* `strategy::of`: the one kind all of a v1 client's callbacks agree on.
StrategyOf(uris) ==
    LET kinds == {TryNew(uri) : uri \in uris} IN
    IF Cardinality(kinds) > 1 THEN None
    ELSE IF kinds \subseteq {"loopback"} THEN "development"
    ELSE IF kinds = {"https"} THEN "claimedHttps"
    ELSE IF kinds = {"privateNetwork"} THEN "privateNetwork" ELSE None

\* `migrate_client`
Migrates(raw) == ~Mislabelled(raw) /\ raw.redirectUris # None /\ StrategyOf(raw.redirectUris) # None
MigrateClient(raw) ==
    [id |-> raw.id, redirect |-> [strategy |-> StrategyOf(raw.redirectUris), uris |-> raw.redirectUris]]

\* `reject_replaced_field`, and the fields a v2 client must have.
ReadsAsV2(raw) == raw.redirectUris = None /\ raw.redirect # None /\ raw.pkce
                     /\ \A uri \in raw.redirect.uris : TryNew(uri) # None
Shape(raw) == [id |-> raw.id, redirect |-> raw.redirect]

\* `check_document_kind`, `to_v2`
Reads(doc, raw) == CASE doc.version = "v1" -> Migrates(raw) [] doc.version = "v2" -> ReadsAsV2(raw) [] OTHER -> FALSE

\* `parse`
Reading(doc) == [roles |-> doc.roles,
                 clients |-> [i \in DOMAIN doc.clients |->
                                 IF doc.version = "v1" THEN MigrateClient(doc.clients[i]) ELSE Shape(doc.clients[i])]]
Readable(doc) ==
    /\ doc.version \in {"v1", "v2"}
    /\ \A i \in DOMAIN doc.clients : Reads(doc, doc.clients[i])
    /\ Validate(Reading(doc))

\* `with_identity`: always v2.
WithIdentity(doc, identity) ==
    [version |-> "v2", roles |-> identity.roles,
     clients |-> [i \in DOMAIN identity.clients |->
                    [id |-> identity.clients[i].id, redirectUris |-> None,
                     redirect |-> identity.clients[i].redirect, pkce |-> TRUE]]]

---------------------------------------------------------------------------
(* Documents                                                               *)

Complete == <<"Client Realm Administrator", "Client Realm User">>
RolesTried == {Complete, <<"Client Realm User">>, Complete \o <<"Client Realm User">>}

RawV1(id, uris) == [id |-> id, redirectUris |-> uris, redirect |-> None, pkce |-> FALSE]
RawV2(id, strategy, uris) ==
    [id |-> id, redirectUris |-> None, redirect |-> [strategy |-> strategy, uris |-> uris], pkce |-> TRUE]

Raw(ids, uriSets) ==
    {RawV1(id, uris) : id \in ids, uris \in uriSets} \cup
    {RawV2(id, strategy, uris) : id \in ids, strategy \in Strategies, uris \in uriSets}

Small == {uris \in SUBSET Usual : Cardinality(uris) <= 2}

\* Documents as people write them: one client with any callback, or several clients.
Init ==
    \/ \E raw \in Raw({"web"}, {{uri} : uri \in Callbacks}), version \in {"v1", "v2"} :
          stored = [version |-> version, roles |-> Complete, clients |-> <<raw>>]
    \/ \E raw \in Raw({"web"}, Small), version \in {"v1", "v2", "other"}, roles \in RolesTried :
          stored = [version |-> version, roles |-> roles, clients |-> <<raw>>]
    \/ \E version \in {"v1", "v2"}, one \in Raw({"web"}, {{uri} : uri \in Usual}),
          two \in Raw({"web", "desk"}, {{uri} : uri \in Usual}) :
          stored = [version |-> version, roles |-> Complete, clients |-> <<one, two>>]

\* Any save of the document: the identity read is the identity written.
Save ==
    /\ Readable(stored)
    /\ stored' = WithIdentity(stored, Reading(stored))

\* `set_identity` with one client's callbacks replaced.
Edit(i, redirect) ==
    LET identity == [Reading(stored) EXCEPT !.clients[i].redirect = redirect] IN
    /\ Readable(stored)
    /\ Validate(identity)
    /\ stored' = WithIdentity(stored, identity)

\* The version is corrected by hand.
Relabel ==
    /\ stored.version \in {"v1", "v2"}
    /\ stored' = [stored EXCEPT !.version = IF @ = "v1" THEN "v2" ELSE "v1"]

Next ==
    \/ Save
    \/ \E i \in DOMAIN stored.clients, strategy \in Strategies : \E uris \in Small :
          Edit(i, [strategy |-> strategy, uris |-> uris])
    \/ Relabel

Spec == Init /\ [][Next]_stored

---------------------------------------------------------------------------
(* Properties                                                              *)

Declared == IF Readable(stored)
            THEN UNION {Reading(stored).clients[i].redirect.uris : i \in DOMAIN stored.clients} ELSE {}

\* The type invariant.
TypeOK ==
    /\ stored.version \in {"v1", "v2", "other"}
    /\ \A i \in DOMAIN stored.clients :
          /\ DOMAIN stored.clients[i] = {"id", "redirectUris", "redirect", "pkce"}
          /\ stored.clients[i].redirectUris # None \/ stored.clients[i].redirect # None

\* What a resolver makes of a host: every numeric spelling of 127/8, read as a number
\* with one byte per label and the rest in the last.
Spelt(host) == {n \in 1..4 : n = Len(host) /\ \A i \in 1..n : CInteger(host[i]) # None}
ResolvesToLoopback(host) ==
    \/ host \in {<<"::1">>, <<"::ffff:127.0.0.1">>}
    \/ host[1] = "localhost" \/ Last(host) = "localhost"
    \/ Spelt(host) = {1} /\ CInteger(host[1]) \in 2130706432..2147483647
    \/ \E n \in Spelt(host) : n > 1 /\ CInteger(host[1]) = 127
           /\ (\A i \in 2..(n - 1) : CInteger(host[i]) \in 0..255)
           /\ CInteger(host[n]) < 256 ^ (5 - n)

\* A callback that reaches the user's own machine is only ever one of the three spellings
\* of loopback, and only a development client has it (host_kind.rs): no other way to write
\* the address is accepted as a public or private-network host.
LoopbackByNameOnly ==
    \A uri \in Declared :
        uri.scheme \in {"http", "https"} /\ ResolvesToLoopback(uri.labels) => TryNew(uri) = "loopback"

\* A public callback is on a registered name reached over TLS: never on an address, a
\* numeric candidate for one, a reserved name or a single label (registered_domain.rs).
PublicIsRegistered ==
    \A uri \in Declared : TryNew(uri) = "https" =>
        /\ uri.scheme = "https" /\ Len(uri.labels) >= 2
        /\ Last(uri.labels) \in {"shop", "nz"}
        /\ \A i \in DOMAIN uri.labels : uri.labels[i] \notin {"", "-x", "a_b", "non-ascii"}

\* Every client that is read has callbacks of one kind, the kind its strategy names, and a
\* path wildcard only on loopback (rules.rs).
OneEntitlement ==
    Readable(stored) => \A i \in DOMAIN stored.clients :
        LET uris == Reading(stored).clients[i].redirect.uris IN
        /\ Cardinality({TryNew(uri) : uri \in uris}) = 1
        /\ \A uri \in uris : HasPathWildcard(uri) => TryNew(uri) = "loopback"

\* A document read in either schema and saved is read back the same: migrating it grants
\* and drops no callback, and the control plane never writes what it cannot read.
SavedReadsTheSame ==
    ~Relabel => /\ Readable(stored')
                /\ Save => Reading(stored') = Reading(stored)

=============================================================================
