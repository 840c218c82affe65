-------------------------- MODULE PlatformReleases --------------------------
(***************************************************************************)
(* Advancing one component of an environment to what its registry          *)
(* publishes: discovery, the selector, the sweep, pause, resume and        *)
(* rollback (fabric-platform-management), written to the environment's     *)
(* manifest in one commit (fabric-platform-git desired, hold, atomic).     *)
(*                                                                         *)
(* A build is known by the commit it came from, so a digest is the role,   *)
(* the tag and the build.  Images are published one role at a time and a   *)
(* tag may be built again; sweepers, operators and people committing by    *)
(* hand share the branch.  Listing tags only nominates versions, so the    *)
(* repositories are listed in one step.                                    *)
(***************************************************************************)
EXTENDS Integers, Sequences, FiniteSets

LOCAL SeqExt == INSTANCE SequencesExt

CONSTANTS Sweepers, Operators, None,
          Tags, Parsed,      \* the tags there may be, and what each parses to, or None
          Roles, Primary,    \* the component's images, and the one that carries descriptors
          Builds,            \* source commits
          Provenances,       \* what a pushed image says it was built from
          Sources,           \* "oci", "helm", "described": how the component is published
          Policies,          \* policies the manifest may state
          Start, Floor,      \* the version the environment starts at, and its rollback floor
          Examined, Attempts,
          MaxPushes, MaxCommits, MaxFaults, MaxRequests   \* bounds

Actors == Sweepers \cup Operators
Versions == {t \in Tags : Parsed[t] # None}
Unplaced == {"absent", "disagreed"}   \* provenance that names no one commit

PlatformReleasesAssumption ==
    /\ Primary \in Roles /\ IsFiniteSet(Roles)
    /\ Start \in Versions /\ Floor \in Versions
    /\ Provenances \subseteq Builds \cup Unplaced
    /\ Sources \subseteq {"oci", "helm", "described"}
    /\ Policies \subseteq {"Automatic", "Manual", "Locked"}
    /\ {Examined, Attempts} \subseteq Nat \ {0}
    /\ {MaxPushes, MaxCommits, MaxFaults, MaxRequests} \subseteq Nat

VARIABLES source,     \* how the component is published
          images,     \* what each role's repository has under each tag
          attached,   \* descriptors attached to a build of the primary image
          head, manifest, pins,   \* the branch, the manifest, and what the file with the pins
                                  \* says besides the release the manifest names
          running,    \* the flag of the sweeps
          op,         \* what each actor is doing
          pushes, commits, faults, requests

vars == <<source, images, attached, head, manifest, pins, running, op, pushes, commits, faults, requests>>
registry == <<source, images, attached>>
branch == <<head, manifest, pins>>
bounds == <<pushes, commits, faults, requests>>

---------------------------------------------------------------------------
(* Versions                                                                *)

LexLess(s, t, less(_, _)) ==
    \/ \E i \in 1..Len(s) : i <= Len(t) /\ less(s[i], t[i]) /\ \A j \in 1..i-1 : s[j] = t[j]
    \/ Len(s) < Len(t) /\ \A j \in 1..Len(s) : s[j] = t[j]

NumLess(a, b) == a < b
Numeric(part) == \A i \in 1..Len(part) : part[i] \in 0..9

\* One identifier of `Version::key`: digits by length and then text, before anything else.
PartLess(a, b) ==
    \/ Numeric(a) /\ ~Numeric(b)
    \/ Numeric(a) /\ Numeric(b) /\ (Len(a) < Len(b) \/ (Len(a) = Len(b) /\ LexLess(a, b, NumLess)))
    \/ ~Numeric(a) /\ ~Numeric(b) /\ LexLess(a, b, NumLess)

ChannelOf(v) == IF Parsed[v].pre = <<>> THEN "Stable" ELSE "Preview"
IsSeries(v, w) == Parsed[v].core = Parsed[w].core

\* `Version::cmp`
Less(v, w) ==
    LET a == Parsed[v]
        b == Parsed[w]
    IN  \/ a.core < b.core
        \/ a.core = b.core /\ a.pre # <<>> /\ b.pre = <<>>
        \/ a.core = b.core /\ a.pre # <<>> /\ b.pre # <<>> /\ LexLess(a.pre, b.pre, PartLess)

Channel == ChannelOf(Start)

\* `series_of`: a preview stays on its line.
InSeries(v, w) == Channel = "Stable" \/ IsSeries(v, w)

\* What `candidates` keeps of the tags, above or below the version.
Above(v, w) == Less(w, v) /\ ChannelOf(v) = Channel /\ InSeries(v, w)
Beneath(v, w) == Less(v, w) /\ ChannelOf(v) = Channel /\ InSeries(v, w)

\* Newest first.
Descending(S) ==
    CHOOSE s \in [1..Cardinality(S) -> S] : \A i, j \in 1..Cardinality(S) : i < j => Less(s[j], s[i])

---------------------------------------------------------------------------
(* What a version is                                                       *)

\* Mutant: images built from different commits make a release.
AssembledMixed(got) == IF None \in {got[r] : r \in Roles} THEN "Incomplete" ELSE "Complete"

\* `unit::assemble`, of what each role resolved to.
Assembled(got) ==
    LET found == {got[r] : r \in Roles}
    IN  IF "disagreed" \in found THEN "Incoherent"
        ELSE IF None \in found \/ "absent" \in found THEN "Incomplete"
        ELSE IF Cardinality(found) = 1 THEN "Complete" ELSE "Incoherent"

\* `Attached`: the descriptors of one build of the primary image.
AttachedTo(tag, build) == {d \in attached : d.tag = tag /\ d.build = build}

\* `described::evaluate` once there is one descriptor: it names the version, its images are still
\* what the tag stands for, and all of it was built from one commit.
Evaluated(tag, primary, d, others) ==
    IF d.names # tag \/ others # [r \in Roles \ {Primary} |-> d.images[r]] THEN "Invalid"
    ELSE IF ({primary, d.own} \cup {others[r] : r \in DOMAIN others}) \cap Unplaced # {} THEN "Invalid"
    ELSE IF Cardinality({primary, d.own} \cup {others[r] : r \in DOMAIN others}) = 1 THEN "Complete"
    ELSE "Incoherent"

\* `candidates`, `chart versions`: which repositories nominate a version.
Listed ==
    IF source = "oci" THEN {t \in Versions : \E r \in Roles : images[r][t] # None}
    ELSE {t \in Versions : images[Primary][t] # None}

\* What the registry would answer of a version, all at once.
Publishes(tag) ==
    CASE source = "oci" -> Assembled([r \in Roles |-> images[r][tag]]) = "Complete"
      [] source = "helm" -> images[Primary][tag] # None
      [] source = "described" ->
           /\ Cardinality(AttachedTo(tag, images[Primary][tag])) = 1
           /\ \E d \in AttachedTo(tag, images[Primary][tag]) :
                Evaluated(tag, images[Primary][tag], d, [r \in Roles \ {Primary} |-> images[r][tag]]) = "Complete"

---------------------------------------------------------------------------
(* Rollback floors                                                         *)

\* `RollbackFloors::of`: a chart has none.
HasFloor == source # "helm"

\* `RollbackFloors::admit`
Admit(v) == ~HasFloor \/ ~Less(v, Floor)

\* `history`, `chart_history`, `described_history` below the version w
HistoryOf(w) ==
    LET below == {t \in Listed : Beneath(t, w)}
        all == Descending(below)
        examined == {all[i] : i \in {j \in 1..Len(all) : j <= Examined}}
    IN  [releases |-> {t \in examined : Publishes(t)}, more |-> Len(all) > Examined]

\* `RollbackFloors::cut`, `History::at_or_above`
Cut(h) ==
    IF ~HasFloor THEN h
    ELSE LET kept == {t \in h.releases : ~Less(t, Floor)}
         IN  [releases |-> kept, more |-> h.more /\ kept = h.releases /\ Floor \notin kept]

\* What `resolve` would accept of a version: below the present one, in its channel and line.
Rollable(v, w) == Beneath(v, w)

---------------------------------------------------------------------------
(* Actors                                                                  *)

Idle == [pc |-> "idle", act |-> None, seen |-> None, list |-> <<>>, got |-> [r \in Roles |-> None],
         descriptor |-> None, release |-> None, base |-> 0, pinned |-> 0, attempt |-> 0]

NoImages == [r \in Roles |-> None]

Init ==
    /\ source \in Sources
    /\ \E b \in Builds :
         /\ images = [r \in Roles |-> [t \in Tags |-> IF t = Start THEN b ELSE None]]
         /\ attached = IF source = "described"
                       THEN {[tag |-> Start, build |-> b, names |-> Start, own |-> b, images |-> [r \in Roles |-> b]]}
                       ELSE {}
         /\ \E p \in Policies :
              manifest = [rest |-> 0, version |-> Start, images |-> [r \in Roles |-> b], hold |-> None, policy |-> p]
    /\ head = 0 /\ pins = 0 /\ running = FALSE
    /\ op = [a \in Actors |-> Idle]
    /\ pushes = 0 /\ commits = 0 /\ faults = 0 /\ requests = 0

\* A build publishes, or publishes again, one image under one tag; "absent" while its push is in flight.
Push(r, t, b) ==
    /\ pushes < MaxPushes /\ pushes' = pushes + 1
    /\ images' = [images EXCEPT ![r][t] = b]
    /\ UNCHANGED <<source, attached, branch, running, op, commits, faults, requests>>

\* A tag is withdrawn.
Withdraw(r, t) ==
    /\ images[r][t] # None
    /\ pushes < MaxPushes /\ pushes' = pushes + 1
    /\ images' = [images EXCEPT ![r][t] = None]
    /\ UNCHANGED <<source, attached, branch, running, op, commits, faults, requests>>

\* A build describes the image it pushed, naming the others as they stand under the tag.
Describe(t, own) ==
    /\ source = "described" /\ images[Primary][t] \in Builds
    /\ pushes < MaxPushes /\ pushes' = pushes + 1
    /\ attached' = attached \cup
           {[tag |-> t, build |-> images[Primary][t], names |-> t, own |-> own,
             images |-> [r \in Roles |-> images[r][t]]]}
    /\ UNCHANGED <<source, images, branch, running, op, commits, faults, requests>>

\* Somebody commits by hand: elsewhere, to the file with the pins, or to the manifest, and there
\* to the component's policy or to something else.
HandCommit(what) ==
    /\ commits < MaxCommits /\ commits' = commits + 1
    /\ head' = head + 1
    /\ pins' = IF what = "pins" THEN 1 - pins ELSE pins
    /\ \/ what \in {"elsewhere", "pins"} /\ UNCHANGED manifest
       \/ what = "manifest" /\ manifest' = [manifest EXCEPT !.rest = 1 - @]
       \/ what = "policy" /\ \E p \in Policies : manifest' = [manifest EXCEPT !.policy = p]
    /\ UNCHANGED <<registry, running, op, pushes, faults, requests>>

At(a, pc) == op[a].pc = pc
SetOp(a, rec) == op' = [op EXCEPT ![a] = rec]

\* The operation is over; a sweep drops its guard however it ended.
Ends(a) == /\ SetOp(a, Idle)
           /\ running' = IF a \in Sweepers THEN FALSE ELSE running

Continues(a, rec) == SetOp(a, rec) /\ UNCHANGED running

\* `try_enter`: a second sweep finds the flag set and answers AlreadyRunning.
Sweep(a) ==
    /\ a \in Sweepers /\ At(a, "idle") /\ ~running
    /\ running' = TRUE
    /\ SetOp(a, [Idle EXCEPT !.pc = "read", !.act = "advance"])
    /\ UNCHANGED <<registry, branch, bounds>>

Request(a, act, v) ==
    /\ a \in Operators /\ At(a, "idle")
    /\ requests < MaxRequests /\ requests' = requests + 1
    /\ SetOp(a, [Idle EXCEPT !.pc = "read", !.act = act, !.list = IF act = "rollback" THEN <<v>> ELSE <<>>])
    /\ UNCHANGED <<registry, branch, running, pushes, commits, faults>>

Pause(a) == Request(a, "pause", None)
Resume(a) == Request(a, "resume", None)
RollBack(a, v) == Request(a, "rollback", v)

\* `DesiredState::component`, and what each operation refuses from it before doing anything.
ReadComponent(a) ==
    LET next(pc) == [op[a] EXCEPT !.pc = pc, !.seen = manifest]
        v == op[a].list[1]
    IN  /\ At(a, "read")
        /\ CASE op[a].act = "advance" -> Continues(a, next("list"))
             [] op[a].act = "pause" -> IF manifest.policy = "Automatic" THEN Continues(a, next("write")) ELSE Ends(a)
             [] op[a].act = "resume" -> IF manifest.hold # None THEN Continues(a, next("write")) ELSE Ends(a)
             [] op[a].act = "rollback" ->
                  IF Admit(v) /\ Rollable(v, manifest.version) THEN Continues(a, next("resolve")) ELSE Ends(a)
        /\ UNCHANGED <<registry, branch, bounds>>

\* `decide`
Decides(seen, release) == seen.policy = "Automatic" /\ seen.hold = None /\ Channel # "Stable" /\ release # None

\* The search is over: the selector stays, or the release is written.
Selected(a, rec) ==
    IF \/ rec.act = "advance" /\ Decides(rec.seen, rec.release)
       \/ rec.act = "rollback" /\ rec.release # None
    THEN Continues(a, [rec EXCEPT !.pc = "write", !.list = <<>>])
    ELSE Ends(a)

\* The listing: candidates above what is desired, newest first.
List(a) ==
    LET found == {t \in Listed : Above(t, op[a].seen.version)}
        all == Descending(found)
    IN  /\ At(a, "list")
        /\ IF found = {} THEN Ends(a)
           ELSE IF source = "helm"
           THEN Selected(a, [op[a] EXCEPT !.release = [version |-> all[1], images |-> NoImages]])
           ELSE Continues(a, [op[a] EXCEPT !.pc = "resolve", !.list = all])
        /\ UNCHANGED <<registry, branch, bounds>>

\* `discover`: the newest complete release is kept, and every candidate is looked at.
NextCandidate(a, verdict, got) ==
    LET release == IF verdict = "Complete" /\ op[a].release = None
                   THEN [version |-> Head(op[a].list), images |-> got] ELSE op[a].release
        rec == [op[a] EXCEPT !.pc = "resolve", !.release = release, !.list = Tail(@), !.got = NoImages, !.descriptor = None]
    IN  IF Len(op[a].list) > 1 THEN Continues(a, rec) ELSE Selected(a, rec)

\* `registry.resolve` of the next role, always in the same order.
ResolveRole(a) ==
    LET tag == Head(op[a].list)
        r == CHOOSE q \in Roles : op[a].got[q] = None
        got == [op[a].got EXCEPT ![r] = images[r][tag]]
        open == {q \in Roles : got[q] = None}
    IN  /\ At(a, "resolve") /\ source = "oci"
        /\ IF got[r] \in Unplaced \cup {None} \/ open = {}
           THEN NextCandidate(a, IF got[r] = None THEN "Incomplete" ELSE Assembled(got), got)
           ELSE Continues(a, [op[a] EXCEPT !.got = got])
        /\ UNCHANGED <<registry, branch, bounds>>

\* `resolve_chart`: the version, if it is still listed.
ResolveChart(a) ==
    /\ At(a, "resolve") /\ source = "helm"
    /\ NextCandidate(a, IF images[Primary][Head(op[a].list)] # None THEN "Complete" ELSE "Incomplete", NoImages)
    /\ UNCHANGED <<registry, branch, bounds>>

\* The primary image, and what is attached to its digest.
ResolvePrimary(a) ==
    LET build == images[Primary][Head(op[a].list)] IN
    /\ At(a, "resolve") /\ source = "described"
    /\ IF build = None THEN NextCandidate(a, "NotTagged", NoImages)
       ELSE Continues(a, [op[a] EXCEPT !.pc = "descriptor", !.got[Primary] = build])
    /\ UNCHANGED <<registry, branch, bounds>>

ReadDescriptor(a) ==
    LET found == AttachedTo(Head(op[a].list), op[a].got[Primary]) IN
    /\ At(a, "descriptor")
    /\ IF Cardinality(found) # 1 THEN NextCandidate(a, "Undescribed", NoImages)
       ELSE \E d \in found : Continues(a, [op[a] EXCEPT !.pc = "others", !.descriptor = d])
    /\ UNCHANGED <<registry, branch, bounds>>

\* `standing::found`: the other images are asked for at once and answer in any order; the
\* first that is not what the descriptor names decides.
ReadOther(a, r) ==
    LET tag == Head(op[a].list)
        d == op[a].descriptor
        got == [op[a].got EXCEPT ![r] = images[r][tag]]
        all == None \notin {got[q] : q \in Roles}
    IN  /\ At(a, "others") /\ op[a].got[r] = None
        /\ IF all \/ got[r] \notin {d.images[r]} \ {None}
           THEN NextCandidate(a, Evaluated(tag, got[Primary], d, [q \in Roles \ {Primary} |-> got[q]]), got)
           ELSE Continues(a, [op[a] EXCEPT !.got = got])
        /\ UNCHANGED <<registry, branch, bounds>>

---------------------------------------------------------------------------
(* Writing                                                                 *)

\* Mutant: the manifest is written as it stands, whatever was decided from.
WriteUnchecked(a) ==
    /\ At(a, "write")
    /\ Continues(a, [op[a] EXCEPT !.pc = "commit", !.base = head, !.pinned = pins, !.attempt = 1,
                                  !.seen = manifest])
    /\ UNCHANGED <<registry, branch, bounds>>

\* `write_desired`, `set_component_hold`: the manifest must still be what was decided from.
\* A revision is the digest of the file, so one changed and changed back is the same again.
Write(a) ==
    /\ At(a, "write")
    /\ IF manifest # op[a].seen THEN Ends(a)
       ELSE Continues(a, [op[a] EXCEPT !.pc = "commit", !.base = head, !.pinned = pins, !.attempt = 1])
    /\ UNCHANGED <<registry, branch, bounds>>

\* The entry as each operation leaves it; an advance keeps the hold, a rollback sets one.
Rewritten(o) ==
    CASE o.act = "pause" -> [o.seen EXCEPT !.hold = "paused"]
      [] o.act = "resume" -> [o.seen EXCEPT !.hold = None]
      [] o.act = "advance" -> [o.seen EXCEPT !.version = o.release.version, !.images = o.release.images]
      [] o.act = "rollback" -> [o.seen EXCEPT !.version = o.release.version, !.images = o.release.images,
                                              !.hold = "rollback"]

MovesPins(o) == o.act \in {"advance", "rollback"}

\* `update_ref`: applied on the head it was built on; the answer may be lost.
Commit(a) ==
    /\ At(a, "commit") /\ head = op[a].base
    /\ head' = head + 1
    /\ manifest' = Rewritten(op[a])
    /\ Ends(a)
    /\ UNCHANGED <<registry, pins, bounds>>

\* The head moved: only an untouched file is written again, on the new head, so many times.
Rebuild(a) ==
    /\ At(a, "commit") /\ head # op[a].base
    /\ IF \/ manifest # op[a].seen
          \/ MovesPins(op[a]) /\ pins # op[a].pinned
          \/ op[a].attempt = Attempts
       THEN Ends(a)
       ELSE Continues(a, [op[a] EXCEPT !.base = head, !.attempt = @ + 1])
    /\ UNCHANGED <<registry, branch, bounds>>

\* A registry or the Git host could not be asked, or did not answer in time.
Fails(a) ==
    /\ ~At(a, "idle") /\ faults < MaxFaults /\ faults' = faults + 1
    /\ Ends(a)
    /\ UNCHANGED <<registry, branch, pushes, commits, requests>>

Restart ==
    /\ faults < MaxFaults /\ faults' = faults + 1
    /\ op' = [a \in Actors |-> Idle] /\ running' = FALSE
    /\ UNCHANGED <<registry, branch, pushes, commits, requests>>

Step(a) ==
    \/ ReadComponent(a) \/ List(a)
    \/ ResolveRole(a) \/ ResolveChart(a) \/ ResolvePrimary(a) \/ ReadDescriptor(a)
    \/ (\E r \in Roles : ReadOther(a, r))
    \/ Write(a) \/ Commit(a) \/ Rebuild(a) \/ Fails(a)

Next ==
    \/ \E r \in Roles, t \in Tags, b \in Provenances : Push(r, t, b)
    \/ \E r \in Roles, t \in Tags : Withdraw(r, t)
    \/ \E t \in Versions, b \in Builds : Describe(t, b)
    \/ \E what \in {"elsewhere", "pins", "manifest", "policy"} : HandCommit(what)
    \/ \E a \in Actors : Sweep(a) \/ Pause(a) \/ Resume(a) \/ Step(a)
    \/ \E a \in Operators, v \in Versions : RollBack(a, v)
    \/ Restart

Spec == Init /\ [][Next]_vars

---------------------------------------------------------------------------
(* Properties                                                              *)

Value(part) == LET RECURSIVE Digits(_)
                   Digits(n) == IF n = 0 THEN 0 ELSE 10 * Digits(n - 1) + part[n]
               IN  Digits(Len(part))

\* Types; a sweep under way holds the flag, and never two of them.
TypeOK ==
    /\ source \in Sources
    /\ images \in [Roles -> [Tags -> Builds \cup Unplaced \cup {None}]]
    /\ head \in Nat /\ {manifest.rest, pins} \subseteq 0..1
    /\ manifest.version \in Versions /\ manifest.hold \in {None, "paused", "rollback"} /\ manifest.policy \in Policies
    /\ running <=> \E a \in Sweepers : ~At(a, "idle")
    /\ Cardinality({a \in Sweepers : ~At(a, "idle")}) <= 1

\* Previews of one release that differ in a trailing number.
Numbered(v, w) ==
    LET p == Parsed[v].pre
        q == Parsed[w].pre
    IN  /\ IsSeries(v, w) /\ Len(p) = Len(q) /\ p # <<>>
        /\ \A i \in 1..Len(p) - 1 : p[i] = q[i]
        /\ Numeric(SeqExt!Last(p)) /\ Numeric(SeqExt!Last(q))

\* `version::ordering`: from build 9 the way up is to 10, and only a rollback goes to a lower number,
\* whatever the digits look like as text.
MovesFollowNumbers ==
    LET p == Parsed[manifest.version].pre
        q == Parsed[manifest'.version].pre
    IN  manifest'.version # manifest.version /\ Numbered(manifest.version, manifest'.version)
        => (manifest'.hold = "rollback" <=> Value(SeqExt!Last(q)) < Value(SeqExt!Last(p)))

\* `reconcile`, `roll_back`: the version goes up only while nothing holds it and the policy says so, on its
\* own line; it goes down only in the commit that records why.
MovesAreDecided ==
    manifest'.version # manifest.version =>
      \/ /\ Above(manifest'.version, manifest.version)
         /\ manifest.hold = None /\ manifest'.hold = None /\ manifest.policy = "Automatic"
      \/ Beneath(manifest'.version, manifest.version) /\ manifest'.hold = "rollback"

\* D01-21: below the floor a release misreads what newer ones wrote, so no environment is put there.
AboveFloor == HasFloor => ~Less(manifest.version, Floor)

\* `assemble`, `evaluate`: what an environment runs was built from one commit.
CoherentRelease ==
    source # "helm" => \E b \in Builds : \A r \in Roles : manifest.images[r] = b

\* `rollback_candidates`: what is offered would be accepted, and `more` is only cleared when nothing else would.
HistoryHonest ==
    LET h == Cut(HistoryOf(manifest.version))
        accepted == {v \in Versions : Admit(v) /\ Rollable(v, manifest.version) /\ Publishes(v)}
    IN  /\ h.releases \subseteq accepted
        /\ ~h.more => accepted \subseteq h.releases

\* `rollback`: a later reader can tell that a rollback stopped the environment.
RollbackHoldKept == manifest.hold = "rollback" => manifest'.hold \in {"rollback", None}

=============================================================================
