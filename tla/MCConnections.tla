--------------------------- MODULE MCConnections ----------------------------
(* The Git connection, Git host access and the audit trail of the control    *)
(* plane, on small instances.                                                *)
(* The components share no state, so a behaviour explores one of them with  *)
(* the others at rest: no interleaving of two of them is left out.  The     *)
(* trail is this module's own, and its scenarios differ by what they bound. *)
EXTENDS AuditTrail, TLC

CONSTANTS
    Scenarios, acme, catalogue, x1, x2, r1, r2

VARIABLES
    scenario,   \* what this behaviour explores
    record, key, bound, operations, generation, gitTurn, gitQueue, flows, preparing,
    started, turns, gitFaults, created, begun, deleted, forgotten, gitTorn,
    posture, now, cached, lock, hostMinted, hostLive, revision, granted, call, calls,
    hostFaults

\* x1 and x2 stand for two applications or two callers; like the
\* repositories r1 and r2, they only name one another.
Interchangeable == Permutations({x1, x2}) \cup Permutations({r1, r2})

Git == INSTANCE GitConnection WITH
    Apps <- {x1, x2}, Repositories <- {r1, r2}, MaxFlows <- 2, MaxTurns <- 4,
    MaxFaults <- 1, turn <- gitTurn, queue <- gitQueue, faults <- gitFaults,
    torn <- gitTorn
Reconnected == INSTANCE GitConnection WITH
    Apps <- {x1, x2}, Repositories <- {r1}, MaxFlows <- 3, MaxTurns <- 3,
    MaxFaults <- 0, turn <- gitTurn, queue <- gitQueue, faults <- gitFaults,
    torn <- gitTorn

Host == INSTANCE GitHost WITH
    Callers <- {x1, x2}, Postures <- {"app"}, Operations <- {"update", "create"},
    Lifetimes <- {1, 3}, Margin <- 1, Minimum <- 1, Maximum <- 3, Unreadable <- 1,
    MaxCalls <- 2, MaxTokens <- 2, MaxClock <- 1, MaxRevision <- 2, MaxFaults <- 1,
    minted <- hostMinted, live <- hostLive, faults <- hostFaults
Reading == INSTANCE GitHost WITH
    Callers <- {x1, x2}, Postures <- {"app", "token"},
    Operations <- {"catalogue", "get"}, Lifetimes <- {1}, Margin <- 1, Minimum <- 1,
    Maximum <- 3, Unreadable <- 1, MaxCalls <- 2, MaxTokens <- 2, MaxClock <- 1,
    MaxRevision <- 1, MaxFaults <- 2, minted <- hostMinted, live <- hostLive,
    faults <- hostFaults

ASSUME ScenarioAssumptions ==
    /\ Git!GitAssumption
    /\ Reconnected!GitAssumption
    /\ Host!GitHostAssumption
    /\ Reading!GitHostAssumption

gitVars == <<record, key, bound, operations, generation, gitTurn, gitQueue, flows,
             preparing, started, turns, gitFaults, created, begun, deleted, forgotten,
             gitTorn>>

hostVars == <<posture, now, cached, lock, hostMinted, hostLive, revision, granted,
              call, calls, hostFaults>>

-----------------------------------------------------------------------------
(* Components at rest                                                      *)

Rest == "at rest"

GitRest ==
    /\ record = Rest /\ key = Rest /\ bound = Rest /\ operations = Rest
    /\ generation = Rest /\ gitTurn = Rest /\ gitQueue = Rest /\ flows = Rest
    /\ preparing = Rest /\ started = Rest /\ turns = Rest /\ gitFaults = Rest
    /\ created = Rest /\ begun = Rest /\ deleted = Rest /\ forgotten = Rest
    /\ gitTorn = Rest
HostRest ==
    /\ posture = Rest /\ now = Rest /\ cached = Rest /\ lock = Rest /\ hostMinted = Rest
    /\ hostLive = Rest /\ revision = Rest /\ granted = Rest /\ call = Rest
    /\ calls = Rest /\ hostFaults = Rest
Init ==
    /\ scenario \in Scenarios
    /\ \/ scenario = "git" /\ Git!Init
       \/ scenario = "reconnected" /\ Reconnected!Init
       \/ scenario \notin {"git", "reconnected"} /\ GitRest
    /\ \/ scenario = "host" /\ Host!Init
       \/ scenario = "reading" /\ Reading!Init
       \/ scenario \notin {"host", "reading"} /\ HostRest
    /\ TrailInit

InGit(here, act) ==
    /\ scenario = here /\ act
    /\ UNCHANGED <<scenario, hostVars, trailVars>>

GitVariant ==
    /\ scenario = "reconnected" /\ Reconnected!Next
    /\ UNCHANGED <<scenario, hostVars, trailVars>>

GitNext ==
    \/ InGit("git", Git!BeginConnection)
    \/ InGit("git", Git!BeginInstall)
    \/ InGit("git", \E f \in flows : Git!Expire(f))
    \/ InGit("git", \E f \in flows : Git!CompleteCreation(f))
    \/ InGit("git", \E f \in flows : Git!CompleteInstall(f))
    \/ InGit("git", Git!ChooseRepository)
    \/ InGit("git", Git!ReadRecord)
    \/ InGit("git", Git!ReadKey)
    \/ InGit("git", Git!Inspect)
    \/ InGit("git", Git!Disconnect)
    \/ InGit("git", \E t \in gitQueue : Git!Take(t))
    \/ InGit("git", Git!PutKey)
    \/ InGit("git", Git!SaveRecord)
    \/ InGit("git", Git!FailWrite)
    \/ InGit("git", Git!Point)
    \/ InGit("git", Git!PointUnusable)
    \/ InGit("git", Git!Unbind)
    \/ InGit("git", Git!DeleteKey)
    \/ InGit("git", Git!ClearRecord)
    \/ InGit("git", Git!BeginOperation)
    \/ InGit("git", \E o \in operations : Git!EndOperation(o))
    \/ InGit("git", Git!Restore)
    \/ InGit("git", Git!RestoreUnread)
    \/ InGit("git", Git!Crash)
    \/ GitVariant

InHost(here, act) ==
    /\ scenario = here /\ act
    /\ UNCHANGED <<scenario, gitVars, trailVars>>

HostVariant ==
    /\ scenario = "reading" /\ Reading!Next
    /\ UNCHANGED <<scenario, gitVars, trailVars>>

HostNext ==
    \/ InHost("host", \E c \in {x1, x2} : Host!Works(c))
    \/ InHost("host", Host!Others)
    \/ HostVariant

\* Two streams and two records; one stream and three; one stream and an edit from
\* outside, without a power loss.
AuditBounds ==
    /\ scenario = "audit" => given' <= 2
    /\ scenario \in {"long", "edited"} =>
           /\ \A handed \in queue' : handed.stream = acme
           /\ reading' # None => reading'.stream = acme
    /\ scenario = "edited" => power' = 0
    /\ scenario # "edited" => damage' = 0

InAudit(act) ==
    /\ scenario \in {"audit", "long", "edited"} /\ act /\ AuditBounds
    /\ UNCHANGED <<scenario, gitVars, hostVars>>

AuditNext ==
    \/ InAudit(\E s \in Streams, fits \in BOOLEAN : Record(s, fits))
    \/ InAudit(\E handed \in queue : Take(handed))
    \/ InAudit(WriteLine)
    \/ InAudit(SyncLine)
    \/ InAudit(RenameHead)
    \/ InAudit(SyncHead)
    \/ InAudit(HeadFails)
    \/ InAudit(\E part \in BOOLEAN : WriteFails(part))
    \/ InAudit(\E part \in BOOLEAN : SyncFails(part))
    \/ InAudit(\E part \in BOOLEAN : Kill(part))
    \/ InAudit(\E s \in Streams : BeginRead(s))
    \/ InAudit(EndRead)
    \/ InAudit(Open)
    \/ InAudit(OpenRefused)
    \/ InAudit(OpenCut)
    \/ InAudit(Close)
    \/ InAudit(PowerLoss)
    \/ InAudit(\E s \in Streams, i \in 1..MaxRecords : Damage(s, i))

Next == GitNext \/ HostNext \/ AuditNext

vars == <<scenario, gitVars, hostVars, trailVars>>

Spec == Init /\ [][Next]_vars

-----------------------------------------------------------------------------
(* Properties                                                              *)

\* The stored integration, its key and the repository the platform reads through agree
\* (git_integration/service): what a disconnect cleared is never recorded or read
\* again, no operation runs with a key that was deleted, and between transitions the
\* platform reads where the record says with the recorded application's key.
GitConnectionAgrees ==
    /\ scenario = "git" =>
           /\ Git!TypeOK /\ Git!DisconnectIsNotUndone /\ Git!NoOperationOutlivesItsKey
           /\ Git!ReadsWhereRecorded /\ Git!KeyIsTheRecordedOnes
           /\ Git!OneApplicationPerFlow
    /\ scenario = "reconnected" =>
           Reconnected!DisconnectIsNotUndone /\ Reconnected!OneApplicationPerFlow

\* What a caller of the Git host is told is what happened there (github/sending.rs,
\* mint.rs, lifetime.rs): a write reported landed, landed once, and one reported refused
\* did not; a token is not presented in the margin of its life, and a second attempt
\* presents another one.
OutcomeIsTrue ==
    /\ scenario = "host" =>
           Host!TypeOK /\ Host!OutcomeIsTrue /\ Host!KeepsMargin /\ Host!RetryUsesAnother
    /\ scenario = "reading" => Reading!OutcomeIsTrue /\ Reading!KeepsMargin

\* What a step may never do: extend a stream whose append failed before it was verified
\* again, or open a trail that lost an entry it had reported, an edit from outside
\* included.
TrailIsOpenedWhole == [][
    /\ BrokenStreamIsNotExtended
    /\ OpenedTrailIsWhole]_vars

\* What the documents and comments of the code say and a behaviour contradicts, each
\* checked by a configuration of its own.

\* github/catalogue.rs: a catalogue reported absent was absent when it was read.
AbsentIsAbsent == scenario = "reading" => Reading!AbsentIsAbsent

\* git_integration/service/settling.rs: between transitions the platform is where the last
\* one put it, one that created an application over a connected one included.
EndsOnTheLastTransition == scenario = "reconnected" =>
    Reconnected!PlatformEndsOnTheLastTransition

=============================================================================
