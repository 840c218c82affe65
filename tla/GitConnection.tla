--------------------------- MODULE GitConnection ---------------------------
(***************************************************************************)
(* Connecting the platform to a Git application (fabric-control-plane      *)
(* git_integration) and the desired state it then reads and writes through *)
(* (fabric-platform-management binding).                                   *)
(*                                                                         *)
(* An operator creates an application on the host, installs it and settles *)
(* on a repository.  The record and the private key are two entries of the *)
(* secret store and the live binding is a third place; each change of them *)
(* is one transition, run in a task of its own, one at a time, and refused *)
(* if the integration moved since its reads.  Pointing the binding anywhere *)
(* waits for the operations that run against where it pointed.             *)
(*                                                                         *)
(* A private key is named by the application it was minted for.            *)
(***************************************************************************)
EXTENDS Naturals, FiniteSets

CONSTANTS Apps,          \* applications the host may create
          Repositories,  \* repositories an installation may reach
          None,
          MaxFlows,      \* bound: connection flows started in one process
          MaxTurns,      \* bound: transitions asked for
          MaxFaults      \* bound: failed writes and crashes

GitAssumption ==
    /\ None \notin Apps \cup Repositories
    /\ MaxFlows \in Nat /\ MaxTurns \in Nat /\ MaxFaults \in Nat

VARIABLES record,      \* the stored integration, or None
          key,         \* the stored private key, or None
          bound,       \* Nothing, Unusable, or what the platform reads through
          operations,  \* operations holding the binding, by where they act
          generation,  \* transitions that ran in this process
          turn,        \* the transition holding the turn, or None
          queue,       \* transitions whose task waits for the turn
          flows,       \* pending browser round trips
          preparing,   \* the request reading before it queues, or None
          started,     \* "starting" until the restore at startup settled
          turns, faults,
          created,     \* history: applications the host created
          begun,       \* history: creation flows started
          deleted,     \* history: applications a disconnect deleted the key of
          forgotten,   \* history: applications a disconnect cleared the record of
          torn         \* history: a transition ended between its writes

stores == <<record, key>>
history == <<created, begun, deleted, forgotten, torn>>
vars == <<record, key, bound, operations, generation, turn, queue, flows, preparing, started,
          turns, faults, created, begun, deleted, forgotten, torn>>

Nothing == [state |-> "nothing", app |-> None, repository |-> None, key |-> None]
Unusable == [state |-> "unusable", app |-> None, repository |-> None, key |-> None]
Reading(app, repository, held) ==
    [state |-> "repository", app |-> app, repository |-> repository, key |-> held]

\* `GitIntegration`: an application, whether it is installed, and where.
Integrations ==
    [app : Apps, installed : BOOLEAN, repository : Repositories \cup {None}]

\* `GitIntegration::created`
Created(app) == [app |-> app, installed |-> FALSE, repository |-> None]

\* `is_usable`
IsUsable(integration) == integration.installed /\ integration.repository # None

\* `as_selected`: the conventional layout of a repository; the layout is fixed.
AsSelected(repository) == repository

\* `settle`: the only repository an installation reaches, or none.
Settle(reachable) ==
    IF Cardinality(reachable) = 1 THEN AsSelected(CHOOSE r \in reachable : TRUE) ELSE None

Init ==
    /\ record = None /\ key = None
    /\ bound = Nothing /\ operations = {} /\ generation = 0
    /\ turn = None /\ queue = {} /\ flows = {} /\ preparing = None
    /\ started = "starting" /\ turns = 0 /\ faults = 0
    /\ created = {} /\ begun = 0 /\ deleted = {} /\ forgotten = {} /\ torn = FALSE

---------------------------------------------------------------------------
(* The browser round trips                                                 *)

\* `PendingFlows::begin`: expired flows are dropped, a new one is added.
Retained == {f \in flows : f.live}

BeginFlow(step) ==
    /\ started = "started" /\ begun < MaxFlows
    /\ flows' = Retained \cup {[token |-> begun + 1, step |-> step, live |-> TRUE]}
    /\ begun' = begun + 1

\* `begin_connection`
BeginConnection ==
    /\ BeginFlow("creation")
    /\ UNCHANGED <<stores, bound, operations, generation, turn, queue, preparing, started, turns,
                   faults, created, deleted, forgotten, torn>>

\* `begin_install`: only for an application that was created.
BeginInstall ==
    /\ record # None /\ BeginFlow("installation")
    /\ UNCHANGED <<stores, bound, operations, generation, turn, queue, preparing, started, turns,
                   faults, created, deleted, forgotten, torn>>

\* FLOW_LIFETIME_SECONDS pass.
Expire(f) ==
    /\ f.live /\ flows' = (flows \ {f}) \cup {[f EXCEPT !.live = FALSE]}
    /\ UNCHANGED <<stores, bound, operations, generation, turn, queue, preparing, started, turns,
                   faults, history>>

\* `consume`: a token is taken away whatever it then turns out to be.
Consume(f) == flows' = flows \ {f}
Names(f, step) == f.step = step /\ f.live

Queue(t) == queue' = queue \cup {t} /\ turns' = turns + 1

\* `settling`: the whole transition in a task of its own.
Transition(kind, against, integration, held) ==
    [kind |-> kind, against |-> against, integration |-> integration, key |-> held,
     number |-> turns + 1]

\* A transition that depends on nothing it read carries no generation.
Unprepared == None

\* `complete_creation`: the code is redeemed for an application and its key.
CompleteCreation(f) ==
    /\ turns < MaxTurns
    /\ Consume(f)
    /\ \/ /\ Names(f, "creation")
          /\ \E app \in Apps \ created :
                /\ created' = created \cup {app}
                /\ Queue(Transition("create", Unprepared, Created(app), app))
       \/ UNCHANGED <<created, queue, turns>>   \* not our flow, or the host refused
    /\ UNCHANGED <<stores, bound, operations, generation, turn, preparing, started, faults, begun,
                   deleted, forgotten, torn>>

\* `complete_install` and `choose_repository` start by reading what they
\* depend on: the generation first.
StartPreparing(kind, wanted) ==
    preparing' = [kind |-> kind, wanted |-> wanted, step |-> "record",
                  generation |-> generation, integration |-> None, key |-> None]

CompleteInstall(f) ==
    /\ preparing = None /\ turns < MaxTurns
    /\ Consume(f)
    /\ IF Names(f, "installation") THEN StartPreparing("install", None) ELSE UNCHANGED preparing
    /\ UNCHANGED <<stores, bound, operations, generation, turn, queue, started, turns, faults, history>>

ChooseRepository ==
    /\ preparing = None /\ turns < MaxTurns /\ started = "started"
    /\ \E r \in Repositories : StartPreparing("choose", r)
    /\ UNCHANGED <<stores, bound, operations, generation, turn, queue, flows, started, turns,
                   faults, history>>

\* `current`: the record; none is an answer that ends the request.
ReadRecord ==
    /\ preparing # None /\ preparing.step = "record"
    /\ preparing' = IF record = None THEN None
                    ELSE [preparing EXCEPT !.integration = record, !.step = "key"]
    /\ UNCHANGED <<stores, bound, operations, generation, turn, queue, flows, started, turns,
                   faults, history>>

\* `private_key`
ReadKey ==
    /\ preparing # None /\ preparing.step = "key"
    /\ preparing' = IF key = None \/ (preparing.kind = "choose" /\ ~preparing.integration.installed)
                    THEN None
                    ELSE [preparing EXCEPT !.key = key, !.step = "inspect"]
    /\ UNCHANGED <<stores, bound, operations, generation, turn, queue, flows, started, turns,
                   faults, history>>

\* What the request would record, given what the installation reaches; or
\* None if it does not reach the repository the operator chose.
Wanted(reachable) ==
    IF preparing.kind = "install"
    THEN [preparing.integration EXCEPT !.installed = TRUE, !.repository = Settle(reachable)]
    ELSE IF preparing.wanted \in reachable
         THEN [preparing.integration EXCEPT !.repository = AsSelected(preparing.wanted)]
         ELSE None

\* `inspect_installation`: the host answers only the application's own key.
\* Then the request queues, with the generation it read first.
Inspect ==
    /\ preparing # None /\ preparing.step = "inspect"
    /\ preparing' = None
    /\ \/ \E reachable \in SUBSET Repositories :
            /\ preparing.key = preparing.integration.app
            /\ Wanted(reachable) # None
            /\ Queue(Transition("bind", preparing.generation, Wanted(reachable), preparing.key))
       \/ UNCHANGED <<queue, turns>>
    /\ UNCHANGED <<stores, bound, operations, generation, turn, flows, started, faults, history>>

\* `disconnect` depends on nothing it read.
Disconnect ==
    /\ turns < MaxTurns /\ started = "started"
    /\ Queue(Transition("disconnect", Unprepared, None, None))
    /\ UNCHANGED <<stores, bound, operations, generation, turn, flows, preparing, started, faults,
                   history>>

---------------------------------------------------------------------------
(* The order, and the transitions                                          *)

\* `Order::settle`: the compare is made under the turn.
Admitted(t) == t.against \in {Unprepared, generation}

FirstStep(kind) ==
    CASE kind = "create" -> "put" [] kind = "bind" -> "save"
      [] kind = "disconnect" -> "unbind" [] kind = "restore" -> "point"

Take(t) ==
    /\ turn = None
    /\ queue' = queue \ {t}
    /\ turn' = IF Admitted(t) THEN [transition |-> t, step |-> FirstStep(t.kind)] ELSE None
    /\ UNCHANGED <<stores, bound, operations, generation, flows, preparing, started, turns, faults,
                   history>>

\* `Bumped`: the generation moves however the transition ended, and then the
\* turn is released.
Release ==
    /\ turn' = None /\ generation' = generation + 1
    /\ started' = "started"

Advance(step) == turn' = [turn EXCEPT !.step = step] /\ UNCHANGED <<generation, started>>

At(step) == turn # None /\ turn.step = step
Unmoved == <<operations, queue, flows, preparing, turns>>

\* The key before the record that names its application.
PutKey ==
    /\ At("put")
    /\ key' = turn.transition.key /\ Advance("save")
    /\ UNCHANGED <<Unmoved, record, bound, faults, history>>

SaveRecord ==
    /\ At("save")
    /\ record' = turn.transition.integration
    /\ IF turn.transition.kind = "create" THEN Release ELSE Advance("point")
    /\ torn' = IF turn.transition.kind = "create" THEN FALSE ELSE torn
    /\ UNCHANGED <<Unmoved, key, bound, faults, created, begun, deleted, forgotten>>

\* A store that does not take a write ends the transition where it is.
FailWrite ==
    /\ turn # None /\ turn.step \in {"put", "save", "delete", "clear"}
    /\ faults < MaxFaults /\ faults' = faults + 1
    /\ Release
    /\ torn' = (torn \/ (turn.transition.kind = "create" /\ turn.step = "save")
                     \/ turn.step = "clear")
    /\ UNCHANGED <<Unmoved, stores, bound, created, begun, deleted, forgotten>>

\* Mutant: the binding is swapped without waiting.
DrainedAtOnce == TRUE

\* `PlatformDesiredState::set`: the write lock is granted once no operation
\* holds the binding.
Drained == operations = {}

\* `point`: a repository to build a client for, or nothing to read through.
Point ==
    LET t == turn.transition IN
    /\ At("point") /\ Drained
    /\ bound' = IF ~IsUsable(t.integration) THEN Nothing
                ELSE Reading(t.integration.app, t.integration.repository, t.key)
    /\ Release
    /\ UNCHANGED <<Unmoved, stores, faults, history>>

\* The client could not be built: the target is told it is unusable.
PointUnusable ==
    /\ At("point") /\ Drained /\ IsUsable(turn.transition.integration)
    /\ bound' = Unusable
    /\ Release
    /\ UNCHANGED <<Unmoved, stores, faults, history>>

\* `disconnect`: the binding first, which waits; then the key; then the record.
Unbind ==
    /\ At("unbind") /\ Drained
    /\ bound' = Nothing /\ Advance("delete")
    /\ UNCHANGED <<Unmoved, stores, faults, history>>

DeleteKey ==
    /\ At("delete")
    /\ key' = None /\ Advance("clear")
    /\ deleted' = deleted \cup ({key} \ {None})
    /\ UNCHANGED <<Unmoved, record, bound, faults, created, begun, forgotten, torn>>

ClearRecord ==
    /\ At("clear")
    /\ record' = None /\ Release
    /\ forgotten' = forgotten \cup (IF record = None THEN {} ELSE {record.app})
    /\ torn' = FALSE
    /\ UNCHANGED <<Unmoved, key, bound, faults, created, begun, deleted>>

---------------------------------------------------------------------------
(* Reading and writing through the binding                                 *)

\* A writer that waits keeps new readers back.
Draining == turn # None /\ turn.step \in {"point", "unbind"}

\* `held`, `writing`, `outliving`: an operation holds the binding until it has
\* an outcome, in a task of its own.
BeginOperation ==
    /\ bound.state = "repository" /\ ~Draining /\ operations = {}
    /\ operations' = {bound}
    /\ UNCHANGED <<stores, bound, generation, turn, queue, flows, preparing, started, turns, faults,
                   history>>

\* Mutant: an operation has no budget, and may never have an outcome.
EndOperationNever(o) == FALSE /\ UNCHANGED vars

EndOperation(o) ==
    /\ operations' = operations \ {o}
    /\ UNCHANGED <<stores, bound, generation, turn, queue, flows, preparing, started, turns, faults,
                   history>>

---------------------------------------------------------------------------
(* Starting, and dying                                                     *)

\* `restore`: fails at nothing.  A record whose key is gone is reported as
\* connected and failing; one that can be read is pointed at, in its turn.
Restore ==
    /\ started = "starting" /\ turn = None
    /\ IF record # None /\ key # None
       THEN /\ turn' = [transition |-> Transition("restore", Unprepared, record, key), step |-> "point"]
            /\ UNCHANGED <<bound, started>>
       ELSE /\ bound' = IF record = None THEN Nothing ELSE Unusable
            /\ started' = "started" /\ UNCHANGED turn
    /\ UNCHANGED <<stores, operations, generation, queue, flows, preparing, turns, faults, history>>

\* The record could not be read: nothing is claimed about it.
RestoreUnread ==
    /\ started = "starting" /\ turn = None /\ faults < MaxFaults /\ faults' = faults + 1
    /\ started' = "started"
    /\ UNCHANGED <<stores, bound, operations, generation, turn, queue, flows, preparing, turns,
                   history>>

Crash ==
    /\ faults < MaxFaults /\ faults' = faults + 1
    /\ bound' = Nothing /\ operations' = {} /\ generation' = 0
    /\ torn' = (torn \/ At("clear") \/ (At("save") /\ turn.transition.kind = "create"))
    /\ turn' = None /\ queue' = {} /\ flows' = {} /\ preparing' = None /\ started' = "starting"
    /\ UNCHANGED <<stores, turns, created, begun, deleted, forgotten>>

Settling == PutKey \/ SaveRecord \/ Point \/ PointUnusable \/ Unbind \/ DeleteKey \/ ClearRecord

Next ==
    \/ BeginConnection \/ BeginInstall
    \/ \E f \in flows : Expire(f) \/ CompleteCreation(f) \/ CompleteInstall(f)
    \/ ChooseRepository \/ ReadRecord \/ ReadKey \/ Inspect \/ Disconnect
    \/ \E t \in queue : Take(t)
    \/ PutKey \/ SaveRecord \/ FailWrite \/ Point \/ PointUnusable
    \/ Unbind \/ DeleteKey \/ ClearRecord
    \/ BeginOperation \/ (\E o \in operations : EndOperation(o))
    \/ Restore \/ RestoreUnread \/ Crash

Spec == Init /\ [][Next]_vars

\* Every task is run, and an operation has an outcome within its budget.
FairSpec ==
    /\ Spec
    /\ WF_vars(Settling) /\ WF_vars(\E t \in queue : Take(t))
    /\ WF_vars(\E o \in operations : EndOperation(o))
    /\ WF_vars(Restore)

---------------------------------------------------------------------------
(* Properties                                                              *)

\* Every variable holds a value of its kind.
TypeOK ==
    /\ record \in Integrations \cup {None} /\ key \in Apps \cup {None}
    /\ bound.state \in {"nothing", "unusable", "repository"}
    /\ operations \subseteq {Reading(a, r, k) : a \in Apps, r \in Repositories, k \in Apps}
    /\ generation \in Nat /\ created \subseteq Apps
    /\ deleted \subseteq created /\ forgotten \subseteq created
    /\ record # None => record.app \in created

\* A disconnect wins over everything prepared before it: what it cleared is
\* never recorded again, nor read through, by a request that read it earlier.
DisconnectIsNotUndone ==
    /\ record = None \/ record.app \notin forgotten
    /\ bound.app \notin forgotten

\* No operation runs against a repository with a key a disconnect deleted:
\* each has its outcome before the deletion, and none starts after it.
NoOperationOutlivesItsKey ==
    /\ \A o \in operations : o.key \notin deleted
    /\ bound.key \notin deleted

\* Between transitions, an installed application that is read through is read
\* through where its record says, whichever transition ran last.
ReadsWhereRecorded ==
    turn = None /\ bound.state = "repository" /\ record # None /\ record.installed =>
        bound.app = record.app /\ bound.repository = record.repository

\* Between transitions the stored key is the recorded application's, and the
\* platform reads through with the key of the application it reads as, unless
\* a transition ended between its two writes.
KeyIsTheRecordedOnes ==
    ~torn =>
        /\ turn = None => (record = None \/ key = record.app)
        /\ bound.key = bound.app

\* A callback repeated or forged redeems nothing: the host has created no more
\* applications than operators started flows for.
OneApplicationPerFlow == Cardinality(created) <= begun

\* Between transitions the platform reads through a repository exactly where
\* the record names one.
PlatformEndsOnTheLastTransition ==
    turn = None /\ bound.state = "repository" =>
        record # None /\ IsUsable(record) /\ bound.repository = record.repository

\* Every transition gets its turn and ends, whoever stopped waiting for it,
\* and the drain it waits for ends.
TransitionsSettle == [](queue # {} \/ turn # None => <>(queue = {} /\ turn = None))
====
