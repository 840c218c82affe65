----------------------- MODULE MCControlPlaneSettles ------------------------
(* What the control plane and the runtime must some time reach, under the    *)
(* fairness the async runtime and the services it calls give, on small          *)
(* instances.  The components share no state, so a behaviour explores one    *)
(* with the others at rest.                                                  *)
EXTENDS Integers, FiniteSets, Sequences, TLC

CONSTANTS
    Scenarios, None, acme, bolt, alice, ghcr, e1, e2, i1, k1, s1, s2, r1, x1, x2

VARIABLES
    scenario,   \* what this behaviour explores
    store, secrets, registriesLive, refused, deployment, waiting, registriesTurn,
    finished, audit, asked, registriesMinted, restore, registriesFaults, left, lost,
    unbuilt, cut, denied, known, unanswered,
    record, key, bound, operations, generation, gitTurn, gitQueue, flows, preparing,
    started, turns, gitFaults, created, begun, deleted, forgotten, gitTorn,
    log, auditTorn, synced, named, head, kept, trail, owner, heads, broken, auditQueue,
    append, reading, given, auditFaults, stops, power, damage, appended, reported,
    lastRead,
    posture, now, cached, hostLock, hostMinted, hostLive, revision, granted, call,
    calls, hostFaults,
    published, since, frontUp, entry, frontLock, request, called, outages, stepped,
    phase, refresh, retry, todo, conn, processUp, permit, registries, probe, ready

\* What an earlier process may have left recorded for ghcr.
LeftRecords ==
    {None} \cup
    {[endpoint |-> e1, secret |-> s1, credential |-> c, proven |-> p] :
        c \in BOOLEAN, p \in {<< >>, i1 :> s1}}

Bearer == [iss |-> acme, kid |-> k1, key |-> <<acme, k1>>, sub |-> alice, sound |-> TRUE,
           permitted |-> TRUE]

Registries == INSTANCE RegistryConnections WITH
    Hosts <- {ghcr}, Repositories <- {i1}, HostOf <- i1 :> ghcr, Endpoints <- {e1, e2},
    Hosted <- ghcr :> e1, DeploymentHost <- ghcr, SecretIds <- {s1, s2},
    Earlier <- {ghcr :> r : r \in LeftRecords}, MaxChanges <- 1, MaxFaults <- 1,
    live <- registriesLive, turn <- registriesTurn,
    minted <- registriesMinted, faults <- registriesFaults

Git == INSTANCE GitConnection WITH
    Apps <- {x1}, Repositories <- {r1}, MaxFlows <- 2, MaxTurns <- 3, MaxFaults <- 1,
    turn <- gitTurn, queue <- gitQueue, faults <- gitFaults, torn <- gitTorn

Audit == INSTANCE AuditTrail WITH
    Streams <- {acme, bolt}, MaxRecords <- 2, MaxFaults <- 1, MaxStops <- 1,
    MaxPower <- 0, MaxDamage <- 0, torn <- auditTorn, queue <- auditQueue,
    faults <- auditFaults

Host == INSTANCE GitHost WITH
    Callers <- {x1, x2}, Postures <- {"app"}, Operations <- {"get"}, Lifetimes <- {1},
    Margin <- 1, Minimum <- 1, Maximum <- 3, Unreadable <- 1, MaxCalls <- 2,
    MaxTokens <- 2, MaxClock <- 1, MaxRevision <- 1, MaxFaults <- 1, lock <- hostLock,
    minted <- hostMinted, live <- hostLive, faults <- hostFaults

Front == INSTANCE AuthorizationFront WITH
    Issuers <- {acme}, Registered <- {acme}, Kids <- {k1}, Subjects <- {alice},
    Tokens <- {Bearer}, Grants <- {<<acme, alice>>}, Callers <- {x1, x2},
    MaxKeyAge <- 2, Freshness <- 1, Cooldown <- 1, FetchTimeout <- 1, Patience <- 2,
    MaxOutages <- 1, MaxStep <- 0, up <- frontUp, lock <- frontLock

Process == INSTANCE RuntimeHost WITH
    Connectors <- {"pg", "mssql"}, up <- processUp

ASSUME ScenarioAssumptions ==
    /\ Registries!ConnectionsAssumption
    /\ Git!GitAssumption
    /\ Audit!AuditAssumption
    /\ Host!GitHostAssumption
    /\ Front!AuthorizationFrontAssumption
    /\ Process!ConnectorsAssumption

registriesVars == <<store, secrets, registriesLive, refused, deployment, waiting,
                    registriesTurn, finished, audit, asked, registriesMinted, restore,
                    registriesFaults, unbuilt, left, lost, cut, denied, known, unanswered>>

gitVars == <<record, key, bound, operations, generation, gitTurn, gitQueue, flows,
             preparing, started, turns, gitFaults, created, begun, deleted, forgotten,
             gitTorn>>

auditVars == <<log, auditTorn, synced, named, head, kept, trail, owner, heads, broken,
               auditQueue, append, reading, given, auditFaults, stops, power, damage,
               appended, reported, lastRead>>

hostVars == <<posture, now, cached, hostLock, hostMinted, hostLive, revision, granted,
              call, calls, hostFaults>>

frontVars == <<published, since, frontUp, entry, frontLock, request, called, outages,
               stepped>>

processVars == <<phase, refresh, retry, todo, conn, processUp, permit, registries,
                 probe, ready>>

-----------------------------------------------------------------------------
(* Components at rest                                                      *)

Rest == "at rest"

RegistriesRest ==
    /\ store = Rest /\ secrets = Rest /\ registriesLive = Rest /\ refused = Rest
    /\ deployment = Rest /\ waiting = Rest /\ registriesTurn = Rest /\ finished = Rest
    /\ audit = Rest /\ asked = Rest /\ registriesMinted = Rest /\ restore = Rest
    /\ registriesFaults = Rest /\ left = Rest /\ lost = Rest /\ cut = Rest
    /\ denied = Rest /\ unbuilt = Rest /\ known = Rest /\ unanswered = Rest
GitRest ==
    /\ record = Rest /\ key = Rest /\ bound = Rest /\ operations = Rest
    /\ generation = Rest /\ gitTurn = Rest /\ gitQueue = Rest /\ flows = Rest
    /\ preparing = Rest /\ started = Rest /\ turns = Rest /\ gitFaults = Rest
    /\ created = Rest /\ begun = Rest /\ deleted = Rest /\ forgotten = Rest
    /\ gitTorn = Rest
AuditRest ==
    /\ log = Rest /\ auditTorn = Rest /\ synced = Rest /\ named = Rest /\ head = Rest
    /\ kept = Rest /\ trail = Rest /\ owner = Rest /\ heads = Rest /\ broken = Rest
    /\ auditQueue = Rest /\ append = Rest /\ reading = Rest /\ given = Rest
    /\ auditFaults = Rest /\ stops = Rest /\ power = Rest /\ damage = Rest
    /\ appended = Rest /\ reported = Rest /\ lastRead = Rest
HostRest ==
    /\ posture = Rest /\ now = Rest /\ cached = Rest /\ hostLock = Rest
    /\ hostMinted = Rest /\ hostLive = Rest /\ revision = Rest /\ granted = Rest
    /\ call = Rest /\ calls = Rest /\ hostFaults = Rest
FrontRest ==
    /\ published = Rest /\ since = Rest /\ frontUp = Rest /\ entry = Rest
    /\ frontLock = Rest /\ request = Rest /\ called = Rest /\ outages = Rest
    /\ stepped = Rest
ProcessRest ==
    /\ phase = Rest /\ refresh = Rest /\ retry = Rest /\ todo = Rest /\ conn = Rest
    /\ processUp = Rest /\ permit = Rest /\ registries = Rest /\ probe = Rest
    /\ ready = Rest

Init ==
    /\ scenario \in Scenarios
    /\ \/ scenario = "registries" /\ Registries!ConnectionsInit
       \/ scenario # "registries" /\ RegistriesRest
    /\ \/ scenario = "git" /\ Git!Init
       \/ scenario # "git" /\ GitRest
    /\ \/ scenario = "audit" /\ Audit!TrailInit
       \/ scenario # "audit" /\ AuditRest
    /\ \/ scenario = "host" /\ Host!Init
       \/ scenario # "host" /\ HostRest
    /\ \/ scenario = "front" /\ Front!Init
       \/ scenario # "front" /\ FrontRest
    /\ \/ scenario = "process" /\ Process!Init
       \/ scenario # "process" /\ ProcessRest

InRegistries(here, act) ==
    /\ scenario = here /\ act
    /\ UNCHANGED <<scenario, gitVars, auditVars, hostVars, frontVars, processVars>>

RegistriesNext ==
    \/ InRegistries("registries", Registries!ConnectionsNext)

InGit(here, act) ==
    /\ scenario = here /\ act
    /\ UNCHANGED <<scenario, registriesVars, auditVars, hostVars, frontVars,
                   processVars>>

GitNext ==
    \/ InGit("git", Git!Next)

InAudit(here, act) ==
    /\ scenario = here /\ act
    /\ UNCHANGED <<scenario, registriesVars, gitVars, hostVars, frontVars, processVars>>

AuditNext ==
    \/ InAudit("audit", Audit!TrailNext)

InHost(here, act) ==
    /\ scenario = here /\ act
    /\ UNCHANGED <<scenario, registriesVars, gitVars, auditVars, frontVars, processVars>>

HostNext ==
    \/ InHost("host", Host!Next)

InFront(here, act) ==
    /\ scenario = here /\ act
    /\ UNCHANGED <<scenario, registriesVars, gitVars, auditVars, hostVars, processVars>>

FrontNext ==
    \/ InFront("front", Front!Next)

InProcess(here, act) ==
    /\ scenario = here /\ act
    /\ UNCHANGED <<scenario, registriesVars, gitVars, auditVars, hostVars, frontVars>>

\* The readiness sweeps and refreshes of the process change nothing it waits for.
ProcessNext ==
    \/ InProcess("process", Process!Host \/ Process!RetryTask \/ Process!Signal)
    \/ InProcess("process", \E c \in {"pg", "mssql"} : Process!TryOne(c) \/ Process!Flip(c))

Next == RegistriesNext \/ GitNext \/ AuditNext \/ HostNext \/ FrontNext \/ ProcessNext

vars == <<scenario, registriesVars, gitVars, auditVars, hostVars, frontVars,
          processVars>>

Spec == Init /\ [][Next]_vars

(* A behaviour keeps its scenario, so what is fair of a union of their actions *)
(* is fair of each.                                                          *)

\* A step that stays possible is taken: tasks and blocking threads run, the host of
\* the runtime too.
Runs ==
    \/ InRegistries("registries", Registries!Step)
    \/ InGit("git", Git!Settling)
    \/ InAudit("audit", Audit!WriteLine \/ Audit!SyncLine \/ Audit!RenameHead \/ Audit!SyncHead)
    \/ InProcess("process", Process!Host)

\* The tasks beside them: outcomes are audited, an operation has one within its budget, records
\* handed over are taken, the retry task of the runtime goes on.
GoesOn ==
    \/ InRegistries("registries", \E f \in finished : Registries!Audit(f))
    \/ InGit("git", \E o \in operations : Git!EndOperation(o))
    \/ InAudit("audit", \E handed \in auditQueue : Audit!Take(handed))
    \/ InProcess("process", Process!RetryTask)

\* The turns of the Git connection are taken, and what its record names is restored.
TakesTurn == InGit("git", \E t \in gitQueue : Git!Take(t))
Restores == InGit("git", Git!Restore)

\* What each of two does: a caller of the front, a connector that is tried.
Steps(c) ==
    \/ InFront("front", Front!FetchFails(c) \/ Front!Decide(c) \/ Front!GiveUp(c))
    \/ InProcess("process", Process!TryOne(IF c = x1 THEN "pg" ELSE "mssql"))

\* A mutex serves its waiters in turn, and a caller's request is answered or times out.
ServedInTurn(c) ==
    \/ InHost("host", Host!Works(c))
    \/ InFront("front", Front!FromCache(c) \/ Front!Suppressed(c) \/ Front!Call(c))

\* A turn comes, time passes, and a wait offered its notification again and again takes it.
TurnComes ==
    \/ InRegistries("registries", \E c \in waiting : Registries!Take(c))
    \/ InProcess("process", Process!RetryEnds)
    \/ InFront("front", Front!Tick)

\* Stores that answer some time answer a restore.
StoresAnswer ==
    InRegistries("registries",
        \E answered \in SUBSET {ghcr} :
            Registries!RestoreWith(answered) /\ restore' = "complete")

FairSpec ==
    /\ Spec
    /\ WF_vars(Runs) /\ WF_vars(GoesOn) /\ WF_vars(TakesTurn) /\ WF_vars(Restores)
    /\ \A c \in {x1, x2} :
           /\ WF_vars(Steps(c)) /\ SF_vars(ServedInTurn(c))
    /\ SF_vars(TurnComes) /\ SF_vars(StoresAnswer)

-----------------------------------------------------------------------------
(* Properties                                                              *)

\* The control plane's connections come to rest (registries, git_connection, audit, git_host):
\* the clients of every record are restored, every change asked for is audited, a refused one
\* too, unless the process dies first; every transition of the Git connection gets its turn and
\* ends, with the drain it waits for; a record handed to the trail is reported, appended or
\* failed; and every call to the Git host ends, whatever fails while its mutex is held.
ConnectionsSettle ==
    /\ []<>(scenario = "registries" =>
               /\ restore = "complete"
               /\ asked >= 1 => 1 \in audit \cup cut)
    /\ []<>(scenario = "git" => gitQueue = {} /\ gitTurn = None)
    /\ []<>(scenario = "audit" =>
               /\ trail \in {"open", "closing"} => auditQueue = {} /\ append = None
               /\ stops = 0 => 1 .. given \subseteq reported)
    /\ \A c \in {x1, x2} : []<>(scenario = "host" => call[c].pc \in {"idle", "done"})

\* The lock of the front is given back however a call ends, and every request is answered or
\* dropped by its caller, also behind a call that fails (front/cache.rs).
AnswersEnd ==
    /\ []<>(scenario = "front" => frontLock[acme] = None)
    /\ \A c \in {x1, x2} : []<>(scenario = "front" => request[c].pc \in {"idle", "done"})

\* A connector whose service stays reachable is served eventually, without a restart, whichever
\* others keep failing; and a shutdown ends with both tasks joined, also in the middle of a pass
\* of the retry task, and so does a start that is unwound (startup/connectors/retry.rs).
HostRecovers ==
    /\ \A c \in {"pg", "mssql"} :
           <>[](scenario = "process" => processUp[c] /\ Process!Serving) =>
           []<>(scenario = "process" => conn[c] = "resolved")
    /\ []<>(scenario = "process" => phase \notin {"stopping", "joining", "unwinding"})

=============================================================================
