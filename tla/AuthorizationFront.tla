------------------------- MODULE AuthorizationFront -------------------------
(***************************************************************************)
(* The authorization front (fabric-fga-auth), asked by the Data API        *)
(* (fabric-fga-check): which key a bearer is verified against, when the    *)
(* keys of an issuer are fetched again, and whom a decision is about.      *)
(*                                                                         *)
(* The keys of an issuer are cached behind one asynchronous mutex, held    *)
(* across the fetch that renews them.  An issuer rotates its keys and is   *)
(* out of reach at times; a caller stops waiting, which drops its request  *)
(* wherever it stands.                                                     *)
(*                                                                         *)
(* Time passes in ticks of the size of the smallest window, and a moment   *)
(* is kept as its age.  A key is known by the issuer that made it and the  *)
(* id it is published under; everything else that a token may get wrong is *)
(* `sound`.                                                                *)
(***************************************************************************)
EXTENDS Integers, FiniteSets

CONSTANTS None,
          Issuers,       \* the registered ones are the tenants
          Registered,
          Kids, Subjects,
          Tokens,        \* what callers present
          Grants,        \* principals the embedded service answers yes for
          Callers,
          MaxKeyAge,     \* `max_key_age_seconds`
          Freshness,     \* UNKNOWN_KID_FRESHNESS_SECONDS
          Cooldown,      \* REFRESH_MIN_INTERVAL_SECONDS
          FetchTimeout,  \* of `HttpKeySource`
          Patience,      \* of the caller: `FrontCheck`
          MaxOutages, MaxStep   \* bounds: outages, and ticks the clock is set back

Keys == Issuers \X Kids

AuthorizationFrontAssumption ==
    /\ Registered \subseteq Issuers /\ Registered # {}
    /\ Grants \subseteq Issuers \X Subjects
    /\ {MaxKeyAge, Freshness, Cooldown} \subseteq Nat \ {0} /\ {FetchTimeout, Patience, MaxOutages, MaxStep} \subseteq Nat
    /\ \A t \in Tokens : t.iss \in Issuers /\ t.kid \in Kids /\ t.key \in Keys \cup {None} /\ t.sub \in Subjects

VARIABLES published,  \* the ids an issuer publishes
          since,      \* how long each id has been published or gone
          up,         \* the issuer's keys can be fetched
          entry,      \* what is cached for each issuer
          lock,       \* who holds that entry
          request,    \* what each caller's request is doing
          called,     \* how long ago each issuer was last called
          outages, stepped

vars == <<published, since, up, entry, lock, request, called, outages, stepped>>
world == <<published, since, up, outages>>

\* Ages beyond this are not told apart.
Cap == MaxKeyAge + MaxStep + 1
Older(age) == IF age < Cap THEN age + 1 ELSE Cap

---------------------------------------------------------------------------
(* What is cached, and what it is evidence of                              *)

\* `saturating_sub`: a moment still to come is no time ago.
Elapsed(age) == IF age < 0 THEN 0 ELSE age

\* `last_attempt_at`, noted before the call.
Attempted(i) == [entry[i] EXCEPT !.attempt = 0]

\* Seeded fault: keys are only too old once they could be fetched again.
IsStaleIfRefreshable(i) == Elapsed(entry[i].age) > MaxKeyAge /\ Elapsed(entry[i].attempt) >= Cooldown

\* `Snapshot::is_stale`
IsStale(i) == Elapsed(entry[i].age) > MaxKeyAge

\* `Snapshot::proves_absence`
ProvesAbsence(i) == Elapsed(entry[i].age) < Freshness

\* `Entry::may_refresh`
MayRefresh(i) == Elapsed(entry[i].attempt) >= Cooldown

Usable(i) == entry[i].keys # None /\ ~IsStale(i)
Held(i, kid) == IF Usable(i) THEN {k \in entry[i].keys : k[2] = kid} ELSE {}

\* `entry_for`
EntryFor(iss) == iss

---------------------------------------------------------------------------
(* One request                                                             *)

Idle == [pc |-> "idle", token |-> None, waited |-> 0, elapsed |-> 0, got |-> None,
         principal |-> None, answer |-> None]

Init ==
    /\ published \in [Issuers -> SUBSET Kids]
    /\ since = [i \in Issuers |-> [k \in Kids |-> Cap]]
    /\ up = [i \in Issuers |-> TRUE]
    /\ entry = [i \in Issuers |-> [keys |-> None, age |-> 0, attempt |-> Cap]]
    /\ lock = [i \in Issuers |-> None]
    /\ request = [c \in Callers |-> Idle]
    /\ called = [i \in Issuers |-> Cap]
    /\ outages = 0 /\ stepped = 0

At(c, pc) == request[c].pc = pc
Calling(c) == request[c].pc \in {"fetching", "fetched"}
Cell(c) == EntryFor(request[c].token.iss)
Answered(c, answer) == [request EXCEPT ![c] = [Idle EXCEPT !.pc = "done", !.answer = answer]]

\* `SubjectId::from_verified`, with the tenant of the registration.
Principal(token) == <<token.iss, token.sub>>

\* `use_key` and what follows in `verify`: the signature, the audience, the window and the subject.
Verified(c, key) ==
    LET t == request[c].token
    IN  request' = IF t.key = key /\ t.sound
                   THEN [request EXCEPT ![c].pc = "verified", ![c].principal = Principal(t), ![c].got = None]
                   ELSE Answered(c, "unauthorized")

\* `RuntimeSurface::check`, `bearer::from`, `verify` up to the keys
Present(c, t) ==
    /\ At(c, "idle") \/ At(c, "done")
    /\ request' = IF t.iss \in Registered /\ t.permitted
                  THEN [request EXCEPT ![c] = [Idle EXCEPT !.pc = "waiting", !.token = t]]
                  ELSE Answered(c, "unauthorized")
    /\ UNCHANGED <<world, entry, lock, called, stepped>>

\* `with_key`, answered from what is held: the lock is taken and given back in one step.
FromCache(c) ==
    LET i == Cell(c)
    IN  /\ At(c, "waiting") /\ lock[i] = None
        /\ \/ \E key \in Held(i, request[c].token.kid) : Verified(c, key)
           \/ /\ Usable(i) /\ Held(i, request[c].token.kid) = {} /\ ProvesAbsence(i)
              /\ request' = Answered(c, "unknown key")
        /\ UNCHANGED <<world, entry, lock, called, stepped>>

\* What is held cannot answer.
Silent(i, kid) == Held(i, kid) = {} /\ ~(Usable(i) /\ ProvesAbsence(i))

\* `with_key`: a call is suppressed.
Suppressed(c) ==
    LET i == Cell(c)
    IN  /\ At(c, "waiting") /\ lock[i] = None /\ Silent(i, request[c].token.kid) /\ ~MayRefresh(i)
        /\ request' = Answered(c, "unavailable")
        /\ UNCHANGED <<world, entry, lock, called, stepped>>

\* `with_key`: the issuer is called, with the lock held and the attempt noted before it.
Call(c) ==
    LET i == Cell(c)
    IN  /\ At(c, "waiting") /\ lock[i] = None /\ Silent(i, request[c].token.kid) /\ MayRefresh(i)
        /\ lock' = [lock EXCEPT ![i] = c]
        /\ entry' = [entry EXCEPT ![i] = Attempted(i)]
        /\ called' = [called EXCEPT ![i] = 0]
        /\ request' = [request EXCEPT ![c].pc = "fetching", ![c].elapsed = 0]
        /\ UNCHANGED <<world, stepped>>

\* The issuer answers with what it publishes at some moment of the call.
Reply(c) ==
    LET i == request[c].token.iss
    IN  /\ At(c, "fetching") /\ up[i]
        /\ request' = [request EXCEPT ![c].pc = "fetched", ![c].got = {i} \X published[i]]
        /\ UNCHANGED <<world, entry, lock, called, stepped>>

\* `now` was read before the call.
FetchedAt(c) == request[c].elapsed

\* `with_key`: decided against the set just fetched, which is then stored.
Fetched(c) ==
    LET i == Cell(c)
        found == {k \in request[c].got : k[2] = request[c].token.kid}
    IN  /\ At(c, "fetched")
        /\ IF found = {} THEN request' = Answered(c, "unknown key") ELSE \E key \in found : Verified(c, key)
        /\ entry' = [entry EXCEPT ![i].keys = request[c].got, ![i].age = FetchedAt(c)]
        /\ lock' = [lock EXCEPT ![i] = None]
        /\ UNCHANGED <<world, called, stepped>>

\* Nothing was learned.
KeptAsItWas(i) == entry[i]

\* Seeded fault: a failed fetch does not give the lock back.
FailsHolding(c) == request' = Answered(c, "unavailable") /\ UNCHANGED <<entry, lock>>

\* `with_key`: the call failed or timed out.
Fails(c) ==
    LET i == Cell(c)
    IN  /\ request' = Answered(c, "unavailable")
        /\ entry' = [entry EXCEPT ![i] = KeptAsItWas(i)]
        /\ lock' = [lock EXCEPT ![i] = None]

FetchFails(c) ==
    /\ Calling(c) /\ (~up[request[c].token.iss] \/ request[c].elapsed = FetchTimeout)
    /\ Fails(c)
    /\ UNCHANGED <<world, called, stepped>>

\* The body, read before anything else, only counts now; `Check::run` and the answer it is reported as. The
\* embedded service may be out of reach or refuse what it was sent.
Decide(c) ==
    /\ At(c, "verified")
    /\ \E answer \in {"bad request", "unavailable", "internal",
                      IF request[c].principal \in Grants THEN "allowed" ELSE "denied"} :
         request' = Answered(c, answer)
    /\ UNCHANGED <<world, entry, lock, called, stepped>>

\* `FrontCheck` times out: the connection closes and the request is dropped with the lock it holds.
GiveUp(c) ==
    /\ ~At(c, "idle") /\ ~At(c, "done") /\ request[c].waited = Patience
    /\ request' = Answered(c, "dropped")
    /\ lock' = [i \in Issuers |-> IF lock[i] = c THEN None ELSE lock[i]]
    /\ UNCHANGED <<world, entry, called, stepped>>

---------------------------------------------------------------------------
(* The world                                                               *)

\* An issuer starts or stops publishing a key.
Rotate(i, k) ==
    /\ published' = [published EXCEPT ![i] = IF k \in @ THEN @ \ {k} ELSE @ \cup {k}]
    /\ since' = [since EXCEPT ![i][k] = 0]
    /\ UNCHANGED <<up, entry, lock, request, called, outages, stepped>>

GoesDown(i) ==
    /\ up[i] /\ outages < MaxOutages
    /\ up' = [up EXCEPT ![i] = FALSE] /\ outages' = outages + 1
    /\ UNCHANGED <<published, since, entry, lock, request, called, stepped>>

ComesBack(i) ==
    /\ ~up[i]
    /\ up' = [up EXCEPT ![i] = TRUE]
    /\ UNCHANGED <<published, since, entry, lock, request, called, outages, stepped>>

\* Nothing takes time but waiting: for the issuer, the lock or the next request.
Tick ==
    /\ \A c \in Callers :
         /\ At(c, "waiting") => lock[Cell(c)] # None
         /\ Calling(c) => request[c].elapsed < FetchTimeout
         /\ ~At(c, "idle") /\ ~At(c, "done") => request[c].waited < Patience
    /\ since' = [i \in Issuers |-> [k \in Kids |-> Older(since[i][k])]]
    /\ entry' = [i \in Issuers |-> [entry[i] EXCEPT !.age = IF entry[i].keys = None THEN 0 ELSE Older(@), !.attempt = Older(@)]]
    /\ called' = [i \in Issuers |-> Older(called[i])]
    /\ request' = [c \in Callers |->
           IF At(c, "idle") \/ At(c, "done") THEN request[c]
           ELSE [request[c] EXCEPT !.waited = @ + 1, !.elapsed = IF Calling(c) THEN @ + 1 ELSE @]]
    /\ UNCHANGED <<published, up, lock, outages, stepped>>

\* The wall clock is corrected while no call is under way: every age read from it shrinks.
SetBack(n) ==
    /\ stepped + n <= MaxStep /\ \A i \in Issuers : lock[i] = None
    /\ stepped' = stepped + n
    /\ entry' = [i \in Issuers |-> [entry[i] EXCEPT !.age = IF entry[i].keys = None THEN 0 ELSE @ - n, !.attempt = @ - n]]
    /\ UNCHANGED <<world, lock, request, called>>

Next ==
    \/ \E c \in Callers :
         \/ \E t \in Tokens : Present(c, t)
         \/ FromCache(c) \/ Suppressed(c) \/ Call(c) \/ Reply(c) \/ Fetched(c) \/ FetchFails(c)
         \/ Decide(c) \/ GiveUp(c)
    \/ \E i \in Registered, k \in Kids : Rotate(i, k)
    \/ \E i \in Registered : GoesDown(i) \/ ComesBack(i)
    \/ Tick
    \/ \E n \in 1..MaxStep : SetBack(n)

Spec == Init /\ [][Next]_vars

\* The mutex is served in turn and the runtime polls what can go on; time passes, an issuer within reach
\* some time answers in time, and the caller with a sound token keeps asking.
Fairness ==
    /\ \A c \in Callers :
         /\ SF_vars(FromCache(c) \/ Suppressed(c) \/ Call(c))
         /\ SF_vars(Reply(c)) /\ SF_vars(Fetched(c)) /\ WF_vars(FetchFails(c)) /\ WF_vars(Decide(c))
         /\ WF_vars(\E t \in Tokens : Present(c, t))
    /\ SF_vars(Tick)
FairSpec == Spec /\ Fairness

---------------------------------------------------------------------------
(* Properties                                                              *)

\* Types; the lock of an entry is held exactly by the request that calls its issuer.
TypeOK ==
    /\ published \in [Issuers -> SUBSET Kids] /\ up \in [Issuers -> BOOLEAN]
    /\ \A i \in Issuers : entry[i].keys = None \/ entry[i].keys \subseteq Keys
    /\ \A c \in Callers : request[c].answer \in {None, "unauthorized", "unknown key", "unavailable", "internal",
                                                 "allowed", "denied", "bad request", "dropped"}
    /\ \A i \in Issuers : lock[i] \in Callers \cup {None}
    /\ \A c \in Callers : Calling(c) <=> \E i \in Issuers : lock[i] = c

Becomes(c, pc) == ~At(c, pc) /\ request'[c].pc = pc

\* `is_stale`: a bearer is accepted on a key its own issuer published within the permitted age, a slow
\* answer and an outage included.
TrustIsRecent ==
    \A c \in Callers : Becomes(c, "verified") =>
      LET t == request[c].token
      IN  /\ t.key = <<t.iss, t.kid>> /\ t.sound
          /\ t.kid \in published[t.iss] \/ since[t.iss][t.kid] <= MaxKeyAge

\* The rule of cache.rs: a key is only called unknown when its issuer did not publish it a short while ago.
RefusedOnEvidence ==
    \A c \in Callers : ~At(c, "idle") /\ ~At(c, "done") =>
      LET t == request[c].token
      IN  request'[c].answer = "unknown key"
          => t.kid \notin published[t.iss] \/ since[t.iss][t.kid] < Freshness

\* REFRESH_MIN_INTERVAL_SECONDS: whatever the calls came to, an issuer is not called again too soon.
CallsAreSpaced ==
    \A i \in Issuers : lock[i] = None /\ lock'[i] # None => called[i] >= Cooldown

\* ADR 0016: a decision is about the subject in the realm whose key signed the token, and nobody else.
DecidedAboutTheSigner ==
    \A c \in Callers : At(c, "verified") /\ request'[c].answer \in {"allowed", "denied"} =>
      LET t == request[c].token
      IN  /\ t.key # None /\ t.key[1] \in Registered
          /\ request'[c].answer = "allowed" <=> <<t.key[1], t.sub>> \in Grants

\* The lock is given back however a call ends: a request that waits for it is answered.
AnswersEnd == \A c \in Callers : At(c, "waiting") ~> At(c, "done")

\* "A cached key must keep working through a provider outage": its caller is not left waiting behind a call.
KnownKeyIsServed ==
    \A c \in Callers : At(c, "waiting") /\ request'[c].answer = "dropped"
      => Held(Cell(c), request[c].token.kid) = {}
=============================================================================
