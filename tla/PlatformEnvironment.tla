-------------------------- MODULE PlatformEnvironment --------------------------
(***************************************************************************)
(* Desired platform state: the data sources an environment declares and    *)
(* the placements of its tenants, two files on the branch of a platform    *)
(* repository (fabric-platform-management: data_sources, placements,       *)
(* binding; fabric-platform-git: port, atomic).                            *)
(*                                                                         *)
(* Operators declare, remove and place through requests that overlap.  A   *)
(* request reads, plans and then commits with no lock: what protects it is *)
(* the revision its operator read (`at`), compared before planning and     *)
(* again at the branch, and the generation of the binding, which changes   *)
(* when another repository is connected.                                   *)
(*                                                                         *)
(* A file's revision is its blob hash, so it is the content itself, and    *)
(* None for a file that is absent; a commit is identified by its number.  Data source ids  *)
(* are numbers because ties are broken by the lowest id.                   *)
(***************************************************************************)
EXTENDS Naturals, FiniteSets, FiniteSetsExt

CONSTANTS
    Requests,       \* requests in flight at once
    Tenants,        \* tenant ids
    Logicals,       \* logical data source names
    DataSources,    \* data source ids
    Offers,         \* for each id, the [class, body] an operator may declare
    Repositories,   \* platform repositories that may be connected
    MaxRevision,    \* bound on a declaration's revision
    MaxCommits,     \* bound on the commits of a repository
    MaxBindings,    \* bound on the times the binding is replaced
    ATTEMPTS,       \* ref updates tried before giving up
    None

EnvironmentAssumption ==
    /\ DataSources \subseteq Nat
    /\ MaxRevision \in Nat /\ MaxCommits \in Nat /\ MaxBindings \in Nat
    /\ ATTEMPTS \in Nat \ {0}

VARIABLES
    branch,     \* the files at each repository's head, and its commit count
    live,       \* the binding: its generation and what is bound
    request,    \* what each request is doing
    published   \* per id, the highest published [revision, body] and if current

environmentVars == <<branch, live, request, published>>

Classes == {"Shared", "Dedicated"}

Bodies == {"open", "closed"}

Declaration == [revision : 1 .. MaxRevision, class : Classes, body : Bodies]

Declarations == [DataSources -> Declaration \cup {None}]

PlacementRecord ==
    [tenant : Tenants, logical : Logicals, data_source : DataSources,
     isolation : {"Discriminator", "Database"}]

Files == {"data_sources", "placements", "other"}

\* What a file at a revision holds: an absent one holds nothing.
Content(file, revision) ==
    IF revision # None THEN revision
    ELSE IF file = "placements" THEN {} ELSE [d \in DataSources |-> None]

Ids(declared) == {d \in DataSources : declared[d] # None}

--------------------------------------------------------------------------------
(* What the services check and decide.                                     *)

IsolationMatchesClass(class, isolation) ==
    (class = "Shared") <=> (isolation = "Discriminator")

\* check_held_placements.  A discriminator value is the tenant's own id, so
\* two tenants never share one.
CheckHeldPlacements(placements, declared) ==
    /\ \A p, q \in placements :
          /\ p.tenant = q.tenant /\ p.logical = q.logical => p = q
          /\ p.isolation = "Database" /\ p.data_source = q.data_source => p = q
    /\ \A p \in placements :
          /\ p.data_source \in Ids(declared)
          /\ IsolationMatchesClass(declared[p.data_source].class, p.isolation)

\* The published revision of an id and whether the document still holds it.
Floor(id) == published[id].revision

Keeps(id) == IF Floor(id) > 0 /\ ~published[id].current THEN Floor(id) + 1 ELSE Floor(id)

\* The revision a declaration is written at.
NextRevision(held, id) ==
    IF held[id] = None THEN Floor(id) + 1
    ELSE Max({held[id].revision, Floor(id)}) + 1

DeclarationUnchanged(held, id, offer) ==
    /\ held[id] # None
    /\ held[id].class = offer.class /\ held[id].body = offer.body
    /\ held[id].revision >= Keeps(id)

\* The candidates for an intent, and the one `select` takes.
Candidates(class, declared) ==
    {d \in Ids(declared) : declared[d].class = class /\ declared[d].body = "open"}

Held(placements, d) == {p \in placements : p.data_source = d}

PickShared(candidates, placements) ==
    CHOOSE d \in candidates : \A e \in candidates :
        LET n(s) == Cardinality(Held(placements, s))
        IN  n(d) < n(e) \/ (n(d) = n(e) /\ d <= e)

\* Seeded fault: an exclusive data source is picked as a shared one is.
Crowded(candidates, placements) == candidates

Free(candidates, placements) ==
    {d \in candidates : Held(placements, d) = {}}

Selectable(class, declared, placements) ==
    IF class = "Shared" THEN Candidates(class, declared)
    ELSE Free(Candidates(class, declared), placements)

Select(tenant, logical, class, declared, placements) ==
    LET from == Selectable(class, declared, placements)
    IN  [tenant |-> tenant, logical |-> logical,
         data_source |-> IF class = "Shared" THEN PickShared(from, placements) ELSE Min(from),
         isolation |-> IF class = "Shared" THEN "Discriminator" ELSE "Database"]

--------------------------------------------------------------------------------
(* The binding: reads are tagged with its generation, writes must carry it.*)

Tagged(revision) == [generation |-> live.generation, revision |-> revision]

Connected == live.bound \in Repositories

\* What a read through the binding returns.
Read(file) == Tagged(branch[live.bound].files[file])

At(g, file) == Content(file, branch[g].files[file])

Untags(at) == at.generation = live.generation

\* A port call holds the binding until it ends; a request between two calls
\* does not.
InCall(r) == request[r].pc \in {"locate", "commit"}

Idle == [pc |-> "idle"]

EnvironmentInit ==
    /\ branch = [g \in Repositories |->
                    [commits |-> 0,
                     files |-> [data_sources |-> None, placements |-> None, other |-> 0]]]
    /\ live = [generation |-> 0, bound |-> None]
    /\ request = [r \in Requests |-> Idle]
    /\ published = [d \in DataSources |-> [revision |-> 0, body |-> None, current |-> FALSE]]

\* Connecting, reconnecting or disconnecting a repository: set() waits for
\* the write lock.
Swap(bound) ==
    /\ live.generation < MaxBindings
    /\ bound # live.bound
    /\ \A r \in Requests : ~InCall(r)
    /\ live' = [generation |-> live.generation + 1, bound |-> bound]
    /\ UNCHANGED <<branch, request, published>>

--------------------------------------------------------------------------------
(* Requests.  The operator's view is the If-Match that comes with it.      *)

\* The console lists a document; its ETag is what the operator sends back.
View(r, file) ==
    /\ request[r].pc = "idle"
    /\ Connected
    /\ request' = [request EXCEPT ![r] = [pc |-> "viewed", file |-> file, at |-> Read(file)]]
    /\ UNCHANGED <<branch, live, published>>

End(r) ==
    /\ request' = [request EXCEPT ![r] = Idle]
    /\ UNCHANGED <<branch, live, published>>

\* A first read that finds another revision than the operator saw, no
\* repository, or an incoherent document.
Refused(r, file) == ~Connected \/ Read(file) # request[r].at

Start(r, op, next) ==
    request' = [request EXCEPT ![r] = [pc |-> next, op |-> op, at |-> request[r].at]]

\* declare: compare, read what is published, plan.
Declare(r, id, offer) ==
    /\ request[r].pc = "viewed" /\ request[r].file = "data_sources"
    /\ LET held == At(live.bound, "data_sources")
       IN  IF Refused(r, "data_sources") \/ DeclarationUnchanged(held, id, offer)
           THEN End(r)
           ELSE /\ NextRevision(held, id) <= MaxRevision
                /\ LET text == [held EXCEPT ![id] =
                                  [revision |-> NextRevision(held, id),
                                   class |-> offer.class, body |-> offer.body]]
                   IN  Start(r, [changes |-> [data_sources |-> text],
                                 at |-> [data_sources |-> request[r].at]], "write")
                /\ UNCHANGED <<branch, live, published>>

\* remove: compare the data sources, then read the placements.
Remove(r, id) ==
    /\ request[r].pc = "viewed" /\ request[r].file = "data_sources"
    /\ IF Refused(r, "data_sources") THEN End(r)
       ELSE /\ Start(r, [id |-> id, held |-> At(live.bound, "data_sources")], "remove")
            /\ UNCHANGED <<branch, live, published>>

RemovePlan(r) ==
    /\ request[r].pc = "remove"
    /\ LET op == request[r].op
           placed == At(live.bound, "placements")
       IN  IF \/ ~Connected
              \/ ~CheckHeldPlacements(placed, op.held)
              \/ Held(placed, op.id) # {}
              \/ op.held[op.id] = None
           THEN End(r)
           ELSE /\ Start(r, [changes |-> [data_sources |-> [op.held EXCEPT ![op.id] = None],
                                          placements |-> placed],
                             at |-> [data_sources |-> request[r].at,
                                     placements |-> Read("placements")]], "write")
                /\ UNCHANGED <<branch, live, published>>

\* place: compare the placements, then read the data sources.
Place(r, tenant, logical, class) ==
    /\ request[r].pc = "viewed" /\ request[r].file = "placements"
    /\ IF Refused(r, "placements") THEN End(r)
       ELSE /\ Start(r, [tenant |-> tenant, logical |-> logical, class |-> class,
                         held |-> At(live.bound, "placements")], "place")
            /\ UNCHANGED <<branch, live, published>>

PlacePlan(r) ==
    /\ request[r].pc = "place"
    /\ LET op == request[r].op
           declared == At(live.bound, "data_sources")
       IN  IF \/ ~Connected
              \/ ~CheckHeldPlacements(op.held, declared)
              \/ \E p \in op.held : p.tenant = op.tenant /\ p.logical = op.logical
              \/ Selectable(op.class, declared, op.held) = {}
           THEN End(r)
           ELSE /\ LET record == Select(op.tenant, op.logical, op.class, declared, op.held)
                   IN  Start(r, [changes |-> [data_sources |-> declared,
                                              placements |-> op.held \cup {record}],
                                 at |-> [data_sources |-> Read("data_sources"),
                                         placements |-> request[r].at]], "write")
                /\ UNCHANGED <<branch, live, published>>

--------------------------------------------------------------------------------
(* The write: one commit of every changed file, or none.                   *)

Paths(r) == DOMAIN request[r].op.changes

Expected(r, file) == request[r].op.at[file].revision

\* The port takes the binding, untags each revision and reads the first
\* file, whose head becomes the base.
Write(r) ==
    /\ request[r].pc = "write"
    /\ IF \/ ~Connected
          \/ \E file \in Paths(r) : ~Untags(request[r].op.at[file])
          \/ branch[live.bound].files.data_sources # Expected(r, "data_sources")
       THEN End(r)
       ELSE /\ request' = [request EXCEPT ![r] =
                              [pc |-> "locate", op |-> request[r].op,
                               base |-> branch[live.bound].commits, attempt |-> 1]]
            /\ UNCHANGED <<branch, live, published>>

\* The second file is read at its own head.
Locate(r) ==
    /\ request[r].pc = "locate"
    /\ IF \E file \in Paths(r) \ {"data_sources"} :
             branch[live.bound].files[file] # Expected(r, file)
       THEN End(r)
       ELSE /\ request' = [request EXCEPT ![r].pc = "commit"]
            /\ UNCHANGED <<branch, live, published>>

\* refuse_if_a_written_path_moved.
APathMoved(r) ==
    \E file \in Paths(r) : branch[live.bound].files[file] # Expected(r, file)

\* The blobs, tree and commit built on the base, once the ref points at it.
Landed(r) ==
    [branch EXCEPT ![live.bound].commits = @ + 1,
                   ![live.bound].files = [file \in Files |->
                        IF file \in Paths(r) THEN request[r].op.changes[file] ELSE @[file]]]

\* The branch is still at the base: the ref update is a fast-forward.  The
\* answer may be lost, which ends the request all the same.
Commit(r) ==
    /\ request[r].pc = "commit"
    /\ request[r].base = branch[live.bound].commits
    /\ branch[live.bound].commits < MaxCommits
    /\ branch' = Landed(r)
    /\ request' = [request EXCEPT ![r] = Idle]
    /\ UNCHANGED <<live, published>>

OutOfAttempts(r) == request[r].attempt = ATTEMPTS

\* The head moved: rebuild on it unless a written path moved too.
Rebase(r) ==
    /\ request[r].pc = "commit"
    /\ request[r].base # branch[live.bound].commits
    /\ IF APathMoved(r) \/ OutOfAttempts(r)
       THEN End(r)
       ELSE /\ request' = [request EXCEPT ![r].base = branch[live.bound].commits,
                                          ![r].attempt = @ + 1]
            /\ UNCHANGED <<branch, live, published>>

\* A transport failure, or the budget spent, before the branch moved.
Unavailable(r) ==
    /\ request[r].pc # "idle"
    /\ End(r)

--------------------------------------------------------------------------------
(* The world around them.                                                  *)

\* Somebody commits to another file of the branch.
OtherCommit(g) ==
    /\ branch[g].commits < MaxCommits
    /\ branch' = [branch EXCEPT ![g].commits = @ + 1, ![g].files.other = @ + 1]
    /\ UNCHANGED <<live, request, published>>

\* The publisher takes a resource past every revision it was published at,
\* or the published one again.
Publishable(id, declared) ==
    \/ declared.revision > Floor(id)
    \/ /\ published[id].current
       /\ declared.revision = Floor(id)
       /\ <<declared.class, declared.body>> = published[id].body

\* A publication pass publishes what the connected repository declares.
Publish ==
    /\ Connected
    /\ LET declared == At(live.bound, "data_sources")
       IN  /\ \A d \in Ids(declared) : Publishable(d, declared[d])
           /\ published' = [d \in DataSources |->
                  IF declared[d] = None
                  THEN [published[d] EXCEPT !.current = FALSE]
                  ELSE [revision |-> declared[d].revision,
                        body |-> <<declared[d].class, declared[d].body>>,
                        current |-> TRUE]]
    /\ UNCHANGED <<branch, live, request>>

EnvironmentNext ==
    \/ \E bound \in Repositories \cup {None} : Swap(bound)
    \/ \E r \in Requests :
          \/ \E file \in {"data_sources", "placements"} : View(r, file)
          \/ \E id \in DataSources : \E offer \in Offers[id] : Declare(r, id, offer)
          \/ \E id \in DataSources : Remove(r, id)
          \/ RemovePlan(r)
          \/ \E tenant \in Tenants, logical \in Logicals, class \in Classes :
                Place(r, tenant, logical, class)
          \/ PlacePlan(r)
          \/ Write(r) \/ Locate(r) \/ Commit(r) \/ Rebase(r) \/ Unavailable(r)
    \/ \E g \in Repositories : OtherCommit(g)
    \/ Publish

EnvironmentSpec == EnvironmentInit /\ [][EnvironmentNext]_environmentVars

--------------------------------------------------------------------------------
(* Properties.                                                             *)

\* The files and requests are well formed, and a write tries the branch at
\* most ATTEMPTS times (atomic.rs).
EnvironmentTypeOK ==
    /\ \A g \in Repositories :
          /\ branch[g].commits \in 0 .. MaxCommits
          /\ At(g, "data_sources") \in Declarations
          /\ At(g, "placements") \subseteq PlacementRecord
    /\ live \in [generation : 0 .. MaxBindings, bound : Repositories \cup {None}]
    /\ \A r \in Requests :
          request[r].pc \in {"idle", "viewed", "remove", "place", "write", "locate", "commit"}
    /\ \A r \in Requests : InCall(r) => request[r].attempt \in 1 .. ATTEMPTS

\* However declare, remove and place interleave, the branch never holds a
\* placement on a data source nothing declares, two tenants on an exclusive
\* one, or an isolation the data source does not serve: write_environment
\* checks and commits both files together (placements/held.rs).
PlacementsCoherent ==
    \A g \in Repositories :
        CheckHeldPlacements(At(g, "placements"), At(g, "data_sources"))

\* A commit of a request replaces exactly what the request was planned from:
\* nobody's change to a written file is overwritten, on however many heads
\* the write was rebuilt (atomic.rs).
NoLostUpdate ==
    \A r \in Requests :
       request[r].pc = "commit" /\ branch' # branch /\ request'[r] # request[r] =>
           \A file \in Paths(r) : branch[live.bound].files[file] = Expected(r, file)
      

\* A request that planned against one repository never commits to another,
\* nor to the same one after it was reconnected: revisions carry the
\* binding's generation (binding/generation.rs).
WritesWhereItRead ==
    \A r \in Requests :
        InCall(r) => \A file \in Paths(r) :
            request[r].op.at[file].generation = live.generation

\* plan.rs: "an id removed and declared again, or held lower after a Git
\* revert, comes back above every revision a reader may still hold".
RedeclaredAbove ==
    \A g \in Repositories : live.bound = g =>
        \A d \in Ids(At(g, "data_sources")) : Publishable(d, At(g, "data_sources")[d])

================================================================================
