----------------------------- MODULE RuntimeHost ------------------------------
(***************************************************************************)
(* The runtime host of fabric-api: the order in which it starts, the       *)
(* connectors it keeps negotiating after it serves, the readiness it       *)
(* reports, and how it stops.                                              *)
(*                                                                         *)
(* Three activities run beside the requests: the refreshers of the         *)
(* published state, the task that retries connectors which failed to       *)
(* negotiate, and a readiness probe that asks every connector at once and  *)
(* stops listening after half a second.  Dropping a handle would leave its *)
(* task running, so every way out stops both tasks and waits for them.     *)
(***************************************************************************)
EXTENDS Naturals, FiniteSets

CONSTANTS Connectors

ConnectorsAssumption == IsFiniteSet(Connectors) /\ Connectors # {}

VARIABLES
  phase,     \* how far the process has come
  refresh,   \* the refreshers: off, running, stopped
  retry,     \* the retry task: off, deciding, sleeping, trying, parked, stopped
  todo,      \* connectors this pass of the retry task has still to try
  conn,      \* each registry entry: unset, resolved, pending
  up,        \* whether each connector service would negotiate and answer now
  permit,    \* the retry task's Notify holds a permit
  registries, \* what the tenant and data-source registries hold
  probe,     \* a readiness sweep: whether one is under way, its answers, and (history)
             \* the connectors resolved and reachable ever since it began
  ready      \* what the last readiness probe reported: none, yes, no

vars == <<phase, refresh, retry, todo, conn, up, permit, registries, probe, ready>>

Serving == phase = "serving"
Pending == {c \in Connectors : conn[c] = "pending"}

Init ==
  /\ phase = "identity" /\ refresh = "off" /\ retry = "off" /\ todo = {}
  /\ conn = [c \in Connectors |-> "unset"]
  /\ up \in [Connectors -> BOOLEAN]
  /\ permit = FALSE
  /\ registries = [primed |-> FALSE, tenants |-> 0, sources |-> 0]
  /\ probe = [active |-> FALSE, answers |-> [c \in Connectors |-> "none"], steady |-> {}]
  /\ ready = "none"

------------------------------------------------------------------------------
(* Startup. *)

\* The token reader and the identity resolver; a bad configuration stops here.
BuildIdentity ==
  /\ phase = "identity"
  /\ phase' \in {"priming", "failed"}
  /\ UNCHANGED <<refresh, retry, todo, conn, up, permit, registries, probe, ready>>

\* A complete generation is installed.
Install == \E t, s \in 0..1 : registries' = [primed |-> TRUE, tenants |-> t, sources |-> s]

\* The first published state is loaded before anything is served, and the refreshers
\* then run; a load that failed ends the start, or leaves it unprimed where
\* `fail_fast_on_prime` is off.
Prime ==
  /\ phase = "priming"
  /\ \/ phase' = "negotiating" /\ refresh' = "running" /\ (Install \/ UNCHANGED registries)
     \/ phase' = "failed" /\ UNCHANGED <<refresh, registries>>
  /\ UNCHANGED <<retry, todo, conn, up, permit, probe, ready>>

\* Each configured connector is negotiated once; one that fails is registered
\* as a placeholder.
NegotiateOne(c) ==
  /\ phase = "negotiating" /\ conn[c] = "unset"
  /\ conn' = [conn EXCEPT ![c] = IF up[c] THEN "resolved" ELSE "pending"]
  /\ UNCHANGED <<phase, refresh, retry, todo, up, permit, registries, probe, ready>>

\* With none negotiated the host gives up, and stops the refreshers it started.
Negotiated ==
  /\ phase = "negotiating" /\ \A c \in Connectors : conn[c] # "unset"
  /\ IF Pending = Connectors
     THEN phase' = "failed" /\ refresh' = "stopped" /\ UNCHANGED retry
     ELSE phase' = "routing" /\ retry' = "deciding" /\ UNCHANGED refresh
  /\ UNCHANGED <<todo, conn, up, permit, registries, probe, ready>>

\* Mutant: notify_waiters wakes who waits and stores no permit.
NotifyWaiters == retry \in {"sleeping", "parked"}

\* notify_one stores a permit when nobody waits.
NotifyOne == TRUE

\* The Data API and the probes are built; without them the retry task is stopped ...
Route ==
  /\ phase = "routing"
  /\ \/ phase' = "binding" /\ UNCHANGED permit
     \/ phase' = "unwinding" /\ permit' = NotifyOne
  /\ UNCHANGED <<refresh, retry, todo, conn, up, registries, probe, ready>>

\* ... and, once it was joined, the refreshers.
Unwind ==
  /\ phase = "unwinding" /\ retry = "stopped"
  /\ phase' = "failed" /\ refresh' = "stopped"
  /\ UNCHANGED <<retry, todo, conn, up, permit, registries, probe, ready>>

\* Both listeners are bound or the tasks are stopped before the error returns.
Bind ==
  /\ phase = "binding" /\ phase' \in {"serving", "stopping"}
  /\ UNCHANGED <<refresh, retry, todo, conn, up, permit, registries, probe, ready>>

------------------------------------------------------------------------------
(* The retry task. *)

\* The top of the loop: with nothing pending it waits for the shutdown alone.
Decide ==
  /\ retry = "deciding"
  /\ retry' = IF Pending = {} THEN "parked" ELSE "sleeping"
  /\ UNCHANGED <<phase, refresh, todo, conn, up, permit, registries, probe, ready>>

\* notified(): ready when the Notify holds a permit.
Notified == permit

\* The select: the interval passed, which may be chosen though the shutdown was notified.
Sleep ==
  /\ retry = "sleeping"
  /\ retry' = "trying" /\ todo' = Pending
  /\ UNCHANGED <<phase, refresh, conn, up, permit, registries, probe, ready>>

\* retry_once: one connector after another, each an await.
TryOne(c) ==
  /\ retry = "trying" /\ c \in todo
  /\ todo' = todo \ {c}
  /\ conn' = [conn EXCEPT ![c] = IF up[c] THEN "resolved" ELSE @]
  /\ UNCHANGED <<phase, refresh, retry, up, permit, registries, probe, ready>>

PassEnds ==
  /\ retry = "trying" /\ todo = {}
  /\ retry' = "deciding"
  /\ UNCHANGED <<phase, refresh, todo, conn, up, permit, registries, probe, ready>>

\* A wait that finds the permit consumes it, and the task ends.
RetryEnds ==
  /\ retry \in {"sleeping", "parked"} /\ Notified
  /\ retry' = "stopped" /\ permit' = FALSE
  /\ UNCHANGED <<phase, refresh, todo, conn, up, registries, probe, ready>>

------------------------------------------------------------------------------
(* Shutdown. *)

\* SIGTERM or an interrupt: the listeners drain, then the tasks are stopped.
Signal ==
  /\ Serving
  /\ phase' = "stopping"
  /\ UNCHANGED <<refresh, retry, todo, conn, up, permit, registries, probe, ready>>

\* The refreshers first.
StopRefreshers ==
  /\ phase = "stopping" /\ refresh = "running"
  /\ refresh' = "stopped"
  /\ UNCHANGED <<phase, retry, todo, conn, up, permit, registries, probe, ready>>

\* ConnectorRetryHandle::shutdown.
StopRetry ==
  /\ phase = "stopping" /\ refresh = "stopped"
  /\ permit' = NotifyOne
  /\ phase' = "joining"
  /\ UNCHANGED <<refresh, retry, todo, conn, up, registries, probe, ready>>

\* The handle's join.
Joined ==
  /\ phase = "joining" /\ retry = "stopped"
  /\ phase' = "stopped"
  /\ UNCHANGED <<refresh, retry, todo, conn, up, permit, registries, probe, ready>>

------------------------------------------------------------------------------
(* Readiness. *)

\* One check is spawned per registered connector.
StartSweep ==
  /\ Serving /\ ~probe.active
  /\ probe' = [active |-> TRUE, answers |-> [c \in Connectors |-> "none"],
               steady |-> {c \in Connectors : conn[c] = "resolved" /\ up[c]}]
  /\ UNCHANGED <<phase, refresh, retry, todo, conn, up, permit, registries, ready>>

\* A placeholder answers that it is unavailable; a resolved one asks its
\* service.
Health(c) == IF conn[c] = "resolved" /\ up[c] THEN "healthy" ELSE "unhealthy"

Check(c) ==
  /\ probe.active /\ probe.answers[c] = "none"
  /\ probe' = [probe EXCEPT !.answers[c] = Health(c)]
  /\ UNCHANGED <<phase, refresh, retry, todo, conn, up, permit, registries, ready>>

\* The facts at the end of the sweep; what did not answer is unknown.
Count(a) == Cardinality({c \in Connectors : probe.answers[c] = a})
RegistriesCanServe == /\ registries.primed
                      /\ registries.tenants = 0 \/ registries.sources > 0
ConnectorsCanServe == Count("healthy") > 0 \/ Count("none") > 0

\* All answered, or the budget is spent.
FinishSweep ==
  /\ probe.active
  /\ ready' = IF RegistriesCanServe /\ ConnectorsCanServe THEN "yes" ELSE "no"
  /\ probe' = [probe EXCEPT !.active = FALSE, !.steady = {}]
  /\ UNCHANGED <<phase, refresh, retry, todo, conn, up, permit, registries>>

------------------------------------------------------------------------------
(* Environment. *)

\* A connector service starts, restarts or goes away.
Flip(c) ==
  /\ phase \notin {"stopped", "failed"}
  /\ up' = [up EXCEPT ![c] = ~@]
  /\ probe' = [probe EXCEPT !.steady = @ \ {c}]
  /\ UNCHANGED <<phase, refresh, retry, todo, conn, permit, registries, ready>>

\* A refresh installs a generation, the first one where the start was unprimed.
Refresh ==
  /\ refresh = "running" /\ Install
  /\ UNCHANGED <<phase, refresh, retry, todo, conn, up, permit, probe, ready>>

Host == \/ BuildIdentity \/ Prime \/ (\E c \in Connectors : NegotiateOne(c)) \/ Negotiated
        \/ Route \/ Unwind \/ Bind \/ StopRefreshers \/ StopRetry \/ Joined
RetryTask == Decide \/ Sleep \/ PassEnds \/ RetryEnds
Next ==
  \/ Host \/ RetryTask \/ \E c \in Connectors : TryOne(c)
  \/ Signal \/ StartSweep \/ (\E c \in Connectors : Check(c)) \/ FinishSweep
  \/ (\E c \in Connectors : Flip(c)) \/ Refresh

\* The process and its tasks are scheduled by the async runtime: a step that stays
\* possible is taken, and a wait that is offered its notification again and again takes
\* it (`select!` chooses at random among what is ready).  Nothing is assumed of services,
\* probes or signals.
Fairness ==
  /\ WF_vars(Host) /\ WF_vars(RetryTask) /\ \A c \in Connectors : WF_vars(TryOne(c))
  /\ SF_vars(RetryEnds)

Spec == Init /\ [][Next]_vars /\ Fairness

------------------------------------------------------------------------------
(* Properties. *)

\* A start that fails leaves no task behind it, and a process that has stopped
\* joined both.
NothingLeftRunning ==
  phase \in {"failed", "stopped"} => refresh # "running" /\ retry \in {"off", "stopped"}

\* A replica whose registries can serve is not reported unready while a connector was
\* resolved and reachable for the whole sweep, whichever others failed, came, went or
\* were resolved meanwhile, and however few answered within the budget.
UnreadyMeansNoneServes ==
  probe.active /\ ~probe'.active /\ ready' = "no" /\ RegistriesCanServe => probe.steady = {}

\* A connector whose service stays reachable is served eventually, without a
\* restart, whichever others keep failing.
PendingConnectorsRecover ==
  \A c \in Connectors : <>[](up[c] /\ Serving) => <>(conn[c] = "resolved")

\* A shutdown ends, also when it is asked while the retry task is in the middle of a
\* pass, and so does a start that has to be unwound.
ShutdownEnds ==
  /\ (phase \in {"stopping", "joining"}) ~> (phase = "stopped")
  /\ (phase = "unwinding") ~> (phase = "failed")
==============================================================================
