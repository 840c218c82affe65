--------------------------- MODULE ClientProduct ---------------------------
(***************************************************************************)
(* A client document's two halves: the product it was assigned and the     *)
(* identity clients that product projects (fabric-client-model document,   *)
(* fabric-control-plane set_product, set_identity, projection).            *)
(*                                                                         *)
(* A product save replaces every projected identity client; an identity    *)
(* edit may change any other.  Documents are also edited by hand in the    *)
(* repository, and some were written before a private-network scheme was   *)
(* declared.  Every save is conditional on the revision it was worked out  *)
(* from, so it reads and writes in one step (ProductCatalogue checks the   *)
(* conditional write itself).                                              *)
(***************************************************************************)
EXTENDS Naturals, FiniteSets

CONSTANTS Applications,
          Domains,    \* applications whose release names a domain of its own
          Manual,     \* ids of identity clients declared by hand
          Hosts,
          Internal,   \* the .internal hosts among them
          Other,      \* a redirect no projection produces
          None,
          MaxHandEdits  \* bound: hand edits of the stored document

ProductAssumption ==
    /\ Domains \subseteq Applications /\ Internal \subseteq Hosts
    /\ Applications \cap Manual = {} /\ MaxHandEdits \in Nat

VARIABLES document, handEdits, legacy

vars == <<document, handEdits, legacy>>

Ids == Applications \cup Manual
Schemes == {"http", "https"}

---------------------------------------------------------------------------
(* Projection                                                              *)

\* `check_scheme`
CheckScheme(hosts, scheme) == scheme # None => hosts # {} /\ hosts \subseteq Internal

\* `redirect`: what an assigned application may call back to, or None for a refusal.
Redirect(hosts, scheme, application) ==
    LET private == hosts \cap Internal
        kind == IF private # {} THEN "privateNetwork" ELSE "claimedHttps"
        by == IF private # {} THEN scheme ELSE "https"
        domain == IF kind = "claimedHttps" /\ application \in Domains THEN {"domain"} ELSE {}
    IN  IF \/ private # {} /\ private # hosts
           \/ ~CheckScheme(hosts, scheme)
           \/ private # {} /\ scheme = None
           \/ hosts = {} /\ domain = {}
        THEN None
        ELSE [kind |-> kind, scheme |-> by, hosts |-> hosts, domain |-> domain]

\* `with_application_identity_over`: every assigned application's client, replaced.
Projection(doc, scheme) == [a \in doc.assigned |-> Redirect(doc.hosts, scheme, a)]
Projects(doc, scheme) == \A a \in doc.assigned : Redirect(doc.hosts, scheme, a) # None

\* `projected_clients`: an error if any of them cannot be worked out.
ProjectedClients(doc) == IF Projects(doc, doc.scheme) THEN Projection(doc, doc.scheme) ELSE None

\* `divergences_over`
Divergences(doc, scheme) == {a \in doc.assigned : doc.clients[a] # Redirect(doc.hosts, scheme, a)}

\* `projection_check`
ProjectionCheck(doc) ==
    IF ~Projects(doc, doc.scheme) THEN "unverifiable"
    ELSE IF Divergences(doc, doc.scheme) = {} THEN "consistent" ELSE "diverged"

\* `undeclared_scheme_is_otherwise_consistent`
OtherwiseConsistent(doc) ==
    /\ doc.scheme = None /\ ~Projects(doc, None)
    /\ \E scheme \in Schemes : Projects(doc, scheme) /\ Divergences(doc, scheme) = {}

WithApplicationIdentity(doc) ==
    [doc EXCEPT !.clients = [i \in Ids |-> IF i \in doc.assigned
                                           THEN Redirect(doc.hosts, doc.scheme, i) ELSE doc.clients[i]]]

---------------------------------------------------------------------------
(* What a save may do                                                      *)

\* `require_for_save`: the stored projection holds, or the save declares the scheme
\* the stored clients were projected with.
RequireForSave(doc, scheme) ==
    \/ scheme # None /\ OtherwiseConsistent(doc)
    \/ ProjectionCheck(doc) = "consistent"

\* "Application removal requires deprovisioning and is not supported."
KeepsAssignments(doc, assigned) == doc.assigned \subseteq assigned

\* `with_product`: an application newly assigned must not find its id taken.
UnownedFree(doc, assigned) == \A a \in assigned \ doc.assigned : doc.clients[a] = None

\* `with_product`
WithProduct(doc, hosts, scheme, assigned) ==
    WithApplicationIdentity([doc EXCEPT !.hosts = hosts, !.scheme = scheme, !.assigned = assigned])

\* Mutant: an identity edit may change any client.
AdmitsAnyIdentity(doc, clients) == TRUE

\* `refuse_projected_change`: a projected client changes only to what the stored
\* document projects.
AdmitsIdentity(doc, clients) ==
    LET projection == ProjectedClients(doc) IN
    \A a \in doc.assigned :
        \/ clients[a] = doc.clients[a]
        \/ projection # None /\ clients[a] # None /\ clients[a] = projection[a]

---------------------------------------------------------------------------
(* Operations                                                              *)

Fresh == [hosts |-> {}, scheme |-> None, assigned |-> {}, clients |-> [i \in Ids |-> None],
          retired |-> FALSE]

\* `ClientDocument::create`, and documents written before a scheme could be declared:
\* assigned on .internal hosts, projected over one or the other.
Init ==
    /\ handEdits = 0
    /\ \/ /\ legacy = FALSE
          /\ \E hosts \in SUBSET Hosts, scheme \in Schemes \cup {None}, assigned \in SUBSET Applications :
                LET new == [Fresh EXCEPT !.hosts = hosts, !.scheme = scheme, !.assigned = assigned] IN
                CheckScheme(hosts, scheme) /\ Projects(new, scheme) /\ document = WithApplicationIdentity(new)
       \/ /\ legacy = TRUE
          /\ \E scheme \in Schemes, assigned \in SUBSET Applications :
                LET old == [Fresh EXCEPT !.hosts = Internal, !.scheme = scheme, !.assigned = assigned] IN
                assigned # {} /\ document = [WithApplicationIdentity(old) EXCEPT !.scheme = None]

\* `set_product`
SetProduct(hosts, scheme, assigned) ==
    /\ ~document.retired
    /\ RequireForSave(document, scheme)
    /\ KeepsAssignments(document, assigned)
    /\ UnownedFree(document, assigned)
    /\ CheckScheme(hosts, scheme)
    /\ \A a \in assigned : Redirect(hosts, scheme, a) # None
    /\ document' = WithProduct(document, hosts, scheme, assigned)
    /\ UNCHANGED <<handEdits, legacy>>

\* `set_identity`: the realm is immutable, and on a client in use projected clients are
\* the product's; an edit that changes nothing writes nothing.
SetIdentity(i, redirect) ==
    LET clients == [document.clients EXCEPT ![i] = redirect] IN
    /\ clients # document.clients
    /\ document.retired \/ AdmitsIdentity(document, clients)
    /\ document' = [document EXCEPT !.clients = clients]
    /\ UNCHANGED <<handEdits, legacy>>

\* Retiring and restoring a client leave both halves alone (ClientLifecycle).
Retire ==
    /\ document' = [document EXCEPT !.retired = ~@]
    /\ UNCHANGED <<handEdits, legacy>>

\* The document is edited in the repository, outside the control plane.
HandEdit ==
    /\ handEdits < MaxHandEdits /\ handEdits' = handEdits + 1
    /\ \/ \E i \in Ids, redirect \in {None, Other} : document' = [document EXCEPT !.clients[i] = redirect]
       \/ \E hosts \in SUBSET Hosts : document' = [document EXCEPT !.hosts = hosts]
       \/ \E scheme \in Schemes \cup {None} : document' = [document EXCEPT !.scheme = scheme]
    /\ UNCHANGED legacy

\* The redirects an operator sends: none, another one, or what the product projects.
Redirects == {None, Other} \cup {Redirect(document.hosts, document.scheme, a) : a \in document.assigned}

Next ==
    \/ \E hosts \in SUBSET Hosts, scheme \in Schemes \cup {None}, assigned \in SUBSET Applications :
          SetProduct(hosts, scheme, assigned)
    \/ \E i \in Ids : \E redirect \in Redirects : SetIdentity(i, redirect)
    \/ Retire
    \/ HandEdit

Spec == Init /\ [][Next]_vars

---------------------------------------------------------------------------
(* Properties                                                              *)

\* The type invariant: a document is what `parse` accepts.
TypeOK ==
    /\ document.hosts \subseteq Hosts /\ document.scheme \in Schemes \cup {None}
    /\ document.assigned \subseteq Applications /\ DOMAIN document.clients = Ids
    /\ document.retired \in BOOLEAN /\ handEdits <= MaxHandEdits

ProductSave == document'.assigned # document.assigned \/ document'.hosts # document.hosts
                   \/ document'.scheme # document.scheme

\* Every product save leaves the identity its product projects, whatever the two halves
\* were before (product.rs): a save can never leave a client diverged.
SavedProductIsProjected ==
    handEdits' = handEdits /\ ProductSave => ProjectionCheck(document') = "consistent"

\* On a client in use, no identity edit makes a sound projection diverge or takes a
\* diverged entry elsewhere than back to it (projected_clients.rs).
EditsDoNotDiverge ==
    handEdits' = handEdits /\ ~document.retired /\ ~document'.retired /\ ~ProductSave
       => \A a \in document'.assigned :
             document'.clients[a] = document.clients[a]
                 \/ document'.clients[a] = Redirect(document'.hosts, document'.scheme, a)

\* An identity client declared by hand is never touched by a product save, even one that
\* assigns an application of its name.
HandDeclaredIsKept ==
    handEdits' = handEdits /\ ProductSave
       => \A i \in Ids \ document.assigned :
             document.clients[i] # None => document'.clients[i] = document.clients[i]

\* However a client in use came to diverge, the edit that restores its projection is
\* admitted, and the next product save with it.
DivergenceIsRepairable ==
    ProjectionCheck(document) = "diverged" =>
        LET repaired == WithApplicationIdentity(document) IN
        /\ AdmitsIdentity(document, repaired.clients)
        /\ RequireForSave(repaired, repaired.scheme)

\* A document from before schemes were declared can be saved by declaring the one it was
\* projected with, and by nothing else.
LegacyMigrates ==
    legacy /\ handEdits = 0 /\ ProjectionCheck(document) = "unverifiable" /\ ~document.retired
      /\ (\E scheme \in Schemes : Divergences(document, scheme) = {}) =>
        /\ \E scheme \in Schemes : RequireForSave(document, scheme)
        /\ ~RequireForSave(document, None)

=============================================================================
