------------------------------ MODULE GitHost ------------------------------
(***************************************************************************)
(* The client repository on a Git host: how a call gets a bearer           *)
(* (fabric-git-host), sends it and retries once (fabric-client-git         *)
(* github::sending), and what each answer is reported as (github::errors,  *)
(* operations, catalogue; fabric-control-plane create_client).             *)
(*                                                                         *)
(* Calls share one cache of an installation token behind an asynchronous   *)
(* mutex, held while a token is minted.  The host forgets tokens, hides a  *)
(* repository it no longer grants, limits rates and loses answers.  The    *)
(* repository is one file, by its revision; 0 when there is none.          *)
(***************************************************************************)
EXTENDS Integers, FiniteSets

CONSTANTS Callers, None,
          Postures,         \* "app", "token": how the platform was given the repository
          Operations,       \* the calls made
          Lifetimes,        \* how long a minted token lives
          Margin, Minimum, Maximum, Unreadable,
          MaxCalls, MaxTokens, MaxClock, MaxRevision, MaxFaults  \* bounds

GitHostAssumption ==
    /\ Postures \subseteq {"app", "token"}
    /\ Operations \subseteq {"get", "catalogue", "update", "create"}
    /\ Lifetimes \subseteq Nat /\ {Margin, Minimum, Maximum, Unreadable} \subseteq Nat
    /\ Minimum <= Maximum

VARIABLES posture, now, cached, lock,
          minted,     \* tokens the host has issued: their expiry
          live,       \* the ones it still honours
          revision,   \* of the file, 0 when there is none
          granted,    \* the installation still reaches the repository
          call,       \* what each caller is doing
          calls, faults

vars == <<posture, now, cached, lock, minted, live, revision, granted, call, calls, faults>>
host == <<minted, live, revision, granted>>

Static == 0   \* the bearer of the token posture, which is never minted
Tokens == 1..MaxTokens

---------------------------------------------------------------------------
(* Lifetimes and failures                                                  *)

Clamp(n) == IF n < Minimum THEN Minimum ELSE IF n > Maximum THEN Maximum ELSE n

\* `usable_for`: None is an expiry that could not be read.
UsableFor(remaining) == IF remaining = None THEN Unreadable ELSE Clamp(remaining - Margin)

\* `fabric_git_host::status_failure` and `token_failure`
TokenFailure(status) ==
    CASE status \in {"403 quota", "429", "500", "lost"} -> "Unavailable"
      [] status \in {"401", "403"} -> "NotPermitted"
      [] OTHER -> "Rejected"

\* `github::errors::status_failure`; a client is named only when one is read.
StatusFailure(status, named) ==
    CASE status = "404" -> IF named THEN "NotFound" ELSE "Unavailable"
      [] status \in {"401", "403"} -> "NotPermitted"
      [] status \in {"409", "422"} -> "Conflict"
      [] status \in {"403 quota", "429", "500", "lost"} -> "Unavailable"
      [] OTHER -> "Rejected"

\* `create_status_failure`: without a revision nothing is stale, so a 422 is no conflict.
CreateStatusFailure(status) == IF status = "422" THEN "Rejected" ELSE StatusFailure(status, FALSE)

---------------------------------------------------------------------------
(* Bearers                                                                 *)

Idle == [pc |-> "idle", op |-> None, step |-> None, attempt |-> 0, bearer |-> None, first |-> None,
         expected |-> 0, status |-> None, applied |-> 0, race |-> None, absent |-> FALSE, outcome |-> None]

To(c, pc) == call' = [call EXCEPT ![c].pc = pc]
Ends(c, outcome) == call' = [call EXCEPT ![c].pc = "done", ![c].outcome = outcome]

\* `BearerSource::new`, `GitHost::new`
Init ==
    /\ posture \in Postures /\ now = 0 /\ cached = None /\ lock = None
    /\ minted = [t \in {} |-> 0] /\ live = {Static} /\ granted = TRUE
    /\ revision \in {0, 1}
    /\ call = [c \in Callers |-> Idle] /\ calls = 0 /\ faults = 0

\* A repository operation begins; an update carries a revision read some time before.
Begin(c) ==
    /\ call[c].pc \in {"idle", "done"} /\ calls < MaxCalls /\ calls' = calls + 1
    /\ \E op \in Operations : \E expected \in IF op = "update" THEN 1..revision ELSE {0} :
          call' = [call EXCEPT ![c] = [Idle EXCEPT !.pc = "bearer", !.op = op, !.step = "file",
                                                   !.attempt = 1, !.expected = expected]]
    /\ UNCHANGED <<now, cached, lock, faults, host>>

Fresh == cached # None /\ now < cached.goodUntil

\* A bearer in hand; the first one of a request is remembered, for RetryUsesAnother.
Presents(c, t) ==
    call' = [call EXCEPT ![c].pc = "send", ![c].bearer = t,
                         ![c].first = IF call[c].attempt = 1 THEN t ELSE @]

\* `bearer`: a static token, the cached one, or the mutex kept to mint another.
Bearer(c) ==
    /\ call[c].pc = "bearer"
    /\ \/ posture = "token" /\ Presents(c, Static) /\ UNCHANGED lock
       \/ posture = "app" /\ lock = None /\ Fresh /\ Presents(c, cached.token) /\ UNCHANGED lock
       \/ posture = "app" /\ lock = None /\ ~Fresh /\ lock' = c /\ To(c, "minting")
    /\ UNCHANGED <<now, cached, calls, faults, host>>

\* `mint` answered: the token is cached for as long as it may be used.
Mint(c) ==
    /\ call[c].pc = "minting" /\ Cardinality(DOMAIN minted) < MaxTokens
    /\ LET t == Cardinality(DOMAIN minted) + 1 IN
       \E life \in Lifetimes : \E said \in {life, None} :
          /\ minted' = [u \in DOMAIN minted \cup {t} |-> IF u = t THEN now + life ELSE minted[u]]
          /\ live' = live \cup {t}
          /\ cached' = [token |-> t, goodUntil |-> now + UsableFor(said), said |-> said]
          /\ Presents(c, t)
    /\ lock' = None
    /\ UNCHANGED <<now, revision, granted, calls, faults>>

\* `mint`, `sign_app_assertion`: refused, limited, unreachable.
MintFails(c) ==
    /\ call[c].pc = "minting"
    /\ \E status \in {"403", "500", "404"} : Ends(c, TokenFailure(status))
    /\ lock' = None
    /\ UNCHANGED <<now, cached, calls, faults, host>>

\* `invalidate`, which waits for the mutex, and the second attempt.
Invalidate(c) ==
    /\ call[c].pc = "invalidate" /\ lock = None
    /\ cached' = None
    /\ call' = [call EXCEPT ![c].pc = "bearer", ![c].attempt = 2]
    /\ UNCHANGED <<now, lock, calls, faults, host>>

---------------------------------------------------------------------------
(* The host's answers                                                      *)

Honoured(t) == t \in live /\ (t \in DOMAIN minted => now < minted[t])

\* What the host does with a request it lets in: `get`, the contents API's put with and
\* without a revision, and a look at the repository's root.
Answer(k) ==
    IF k.step = "root" THEN "200"
    ELSE IF k.step = "again" \/ k.op \in {"get", "catalogue"}
    THEN IF revision = 0 THEN "404" ELSE "200"
    ELSE IF k.op = "update" THEN IF k.expected = revision THEN "200" ELSE "409"
    ELSE IF revision = 0 THEN "200" ELSE "422"

Writes(k, status) == k.step = "file" /\ k.op \in {"update", "create"} /\ status = "200"

\* A request reaches the host and is answered; the answer to any of them may be lost.
Handle(c) ==
    LET k == call[c]
        status == IF ~Honoured(k.bearer) THEN "401" ELSE IF ~granted THEN "404" ELSE Answer(k)
    IN
    /\ k.pc = "send"
    /\ revision' = IF Writes(k, status) THEN revision + 1 ELSE revision
    /\ Writes(k, status) => revision < MaxRevision
    /\ \E lost \in BOOLEAN :
          /\ lost => faults < MaxFaults
          /\ faults' = IF lost THEN faults + 1 ELSE faults
          /\ call' = [call EXCEPT ![c].pc = "answered", ![c].status = IF lost THEN "lost" ELSE status,
                                  ![c].applied = IF Writes(k, status) THEN @ + 1 ELSE @,
                                  ![c].absent = IF k.step = "file" THEN revision = 0 ELSE @]
    /\ UNCHANGED <<now, cached, lock, minted, live, granted, calls>>

\* The host does nothing: no connection, limited, over quota, in trouble, or the branch moved.
Declined(c) ==
    /\ call[c].pc = "send" /\ faults < MaxFaults /\ faults' = faults + 1
    /\ \E status \in {"lost", "403 quota", "500", "409"} :
          /\ status = "409" => call[c].step = "file" /\ call[c].op \in {"update", "create"}
          /\ call' = [call EXCEPT ![c].pc = "answered", ![c].status = status]
    /\ UNCHANGED <<now, cached, lock, calls, host>>

\* Mutant: a request whose answer never came is sent again too.
RetriesUnanswered(k) == k.attempt = 1 /\ k.status \in {"401", "lost"}

\* `send`: one more attempt after a 401, with another bearer.
Retries(k) == k.attempt = 1 /\ k.status = "401"

\* `read_catalogue`: a missing file, once the repository itself is found to be there.
ReceiveCatalogue(c) ==
    LET k == call[c] IN
    IF k.step = "root" THEN Ends(c, IF k.status = "200" THEN "Absent" ELSE StatusFailure(k.status, FALSE))
    ELSE IF k.status = "404" THEN call' = [call EXCEPT ![c].pc = "bearer", ![c].step = "root", ![c].attempt = 1]
    ELSE Ends(c, IF k.status = "200" THEN "Found" ELSE StatusFailure(k.status, FALSE))

\* `create_document` and `write_created`: a refused create is read back to say why.
ReceiveCreate(c) ==
    LET k == call[c]
        failure == CreateStatusFailure(k.status)
        read == StatusFailure(k.status, TRUE)
    IN
    IF k.step = "again"
    THEN Ends(c, CASE k.status = "200" -> "ClientExists"
                   [] read = "NotFound" -> IF k.race = "Conflict" THEN "RevisionConflict" ELSE k.race
                   [] OTHER -> read)
    ELSE IF k.status = "200" THEN Ends(c, "Written")
    ELSE IF failure \in {"Conflict", "Rejected"}
         THEN call' = [call EXCEPT ![c].pc = "bearer", ![c].step = "again", ![c].attempt = 1, ![c].race = failure]
    ELSE Ends(c, failure)

\* `read_document`, `write_document`
ReceiveDocument(c) ==
    LET k == call[c] IN
    Ends(c, IF k.status # "200" THEN StatusFailure(k.status, k.op = "get")
            ELSE IF k.op = "get" THEN "Found" ELSE "Written")

Receive(c) ==
    /\ call[c].pc = "answered"
    /\ IF Retries(call[c]) THEN To(c, "invalidate")
       ELSE CASE call[c].op = "catalogue" -> ReceiveCatalogue(c)
              [] call[c].op = "create" -> ReceiveCreate(c)
              [] OTHER -> ReceiveDocument(c)
    /\ UNCHANGED <<now, cached, lock, calls, faults, host>>

---------------------------------------------------------------------------
(* Everything else                                                         *)

Tick ==
    /\ now < MaxClock /\ now' = now + 1
    /\ UNCHANGED <<cached, lock, call, calls, faults, host>>

\* The installation is suspended, reinstated, or a token revoked; someone else commits.
Outside ==
    /\ faults < MaxFaults /\ faults' = faults + 1
    /\ \/ granted' = ~granted /\ UNCHANGED <<live, revision>>
       \/ \E t \in live : live' = live \ {t} /\ UNCHANGED <<granted, revision>>
       \/ revision < MaxRevision /\ revision' = revision + 1 /\ UNCHANGED <<granted, live>>
    /\ UNCHANGED <<now, cached, lock, minted, call, calls>>

Works(c) ==
    /\ Bearer(c) \/ Mint(c) \/ MintFails(c) \/ Invalidate(c) \/ Handle(c) \/ Declined(c) \/ Receive(c)
    /\ UNCHANGED posture

Others == ((\E c \in Callers : Begin(c)) \/ Tick \/ Outside) /\ UNCHANGED posture

Next == (\E c \in Callers : Works(c)) \/ Others

Spec == Init /\ [][Next]_vars

\* Every request is answered or times out (http_timeout_seconds), and a waiter gets the
\* mutex in its turn.
FairSpec == Spec /\ \A c \in Callers : SF_vars(Works(c))

---------------------------------------------------------------------------
(* Properties                                                              *)

\* The type invariant.
TypeOK ==
    /\ cached = None \/ cached.token \in DOMAIN minted
    /\ lock \in Callers \cup {None} /\ revision \in 0..MaxRevision
    /\ \A c \in Callers : (lock = c) = (call[c].pc = "minting")

\* A call writes at most once, a write it reports landed, and one it reports refused did
\* not: only "unavailable" leaves a caller not knowing (sending.rs retries nothing else).
OutcomeIsTrue ==
    \A c \in Callers : call[c].pc = "done" =>
        /\ call[c].outcome = "Written" => call[c].applied = 1
        /\ call[c].outcome \notin {"Written", "Unavailable"} => call[c].applied = 0
        /\ call[c].applied <= 1

\* A cached token is never presented in the last Margin of its life, as long as the host
\* granted it for longer than the margin and the floor, and said so (lifetime.rs).
KeepsMargin ==
    cached # None /\ cached.said # None /\ cached.said >= Margin + Minimum
        => cached.goodUntil + Margin <= minted[cached.token]

\* The second attempt presents another token than the one just refused, whoever minted
\* it meanwhile: a call that ends unauthorised has tried two.
RetryUsesAnother ==
    posture = "app" => \A c \in Callers :
        call[c].attempt = 2 /\ call[c].pc \in {"send", "answered"} => call[c].bearer # call[c].first

\* Every call ends, whatever fails while the mutex is held.
CallsEnd == \A c \in Callers : call[c].pc # "idle" ~> call[c].pc = "done"

\* What the catalogue's reader says it tells apart: a catalogue reported absent was
\* absent when it was read.
AbsentIsAbsent == \A c \in Callers : call[c].outcome = "Absent" => call[c].absent

=============================================================================
