----------------------------- MODULE AuditTrail -----------------------------
(***************************************************************************)
(* The audit trail: what the recorder of the control plane hands to it     *)
(* (fabric-control-plane audit, audit_trail) and the local adapter that    *)
(* stores it (fabric-control-plane-api local_audit_trail).                 *)
(*                                                                         *)
(* Every stream is a file of lines, each sealed over the one before, and   *)
(* beside it a head naming the last line.  An append runs whole under one  *)
(* lock; what it wrote is durable only once it was synced, and a power     *)
(* loss takes any part of what was not.                                    *)
(*                                                                         *)
(* A hash is what it is taken over: the identifiers of the records up to   *)
(* and including its own, after the stream they belong to.                 *)
(***************************************************************************)
EXTENDS Naturals, Sequences, FiniteSets

CONSTANTS Streams,
          None,
          MaxRecords,  \* bound: records handed over
          MaxFaults,   \* bound: failed writes and syncs
          MaxStops,    \* bound: stops of the process
          MaxPower,    \* bound: power losses
          MaxDamage    \* bound: edits of a stored log from outside

Positive == Nat \ {0}

\* `ChainHash`, `ChainHead`, `AuditRecord`, `AuditEntry`
Hashes == Seq(Nat)
Heads == [sequence : Positive, hash : Hashes]
Records == [id : Nat, stream : Streams, fits : BOOLEAN]
Entries == [sequence : Positive, previous : Hashes, record : Records, hash : Hashes]

\* `Inner::append`, by the step it is at.
Appends == [entry : Entries, stream : Streams, step : {"write", "sync", "head", "headSync"},
            owner : Nat, created : BOOLEAN]

AuditAssumption ==
    /\ None \notin Streams \cup Heads \cup Appends
    /\ MaxRecords \in Nat /\ MaxFaults \in Nat /\ MaxStops \in Nat
    /\ MaxPower \in Nat /\ MaxDamage \in Nat

ASSUME AuditAssumptions == AuditAssumption

VARIABLES log,       \* the lines of each stream, as the operating system shows them
          torn,      \* streams whose last line is incomplete
          synced,    \* lines of each stream that are on storage
          named,     \* streams whose log has a durable name
          head,      \* the recorded head of each stream, as shown
          kept,      \* the heads that are on storage
          trail,     \* "closed", "open", "closing" (dropped with appends left), "refused"
          owner,     \* how often the trail was opened: whose the in-memory state is
          heads,     \* the in-memory heads
          broken,    \* streams an append failed on
          queue,     \* records whose task waits for the lock
          append,    \* the append holding the lock, or None
          reading,   \* a read between its two files, or None
          given, faults, stops, power, damage,
          appended,  \* history: entries reported as appended
          reported,  \* history: records whose end was reported
          lastRead   \* history: what the last read verified to

files == <<log, torn, synced, named, head, kept>>
counters == <<given, faults, stops, power, damage>>
history == <<appended, reported>>
trailVars == <<log, torn, synced, named, head, kept, trail, owner, heads, broken, queue, append, reading,
               given, faults, stops, power, damage, appended, reported, lastRead>>

---------------------------------------------------------------------------
(* The chain                                                               *)

\* `ChainHash::GENESIS` and `ChainHash::of`
Genesis == <<>>
ChainHashOf(previous, record) == Append(previous, record.id)

\* `AuditEntry::head`
HeadOf(entry) == [sequence |-> entry.sequence, hash |-> entry.hash]

\* `AuditEntry::seal`
Seal(last, record) ==
    LET previous == IF last = None THEN Genesis ELSE last.hash IN
    [sequence |-> IF last = None THEN 1 ELSE last.sequence + 1, previous |-> previous,
     record |-> record, hash |-> ChainHashOf(previous, record)]

\* `encode`: an entry over MAX_AUDIT_ENTRY_BYTES is refused whole.
Encodes(record) == record.fits

\* `expected_hash`
ExpectedHash(entry) == ChainHashOf(entry.previous, entry.record)

\* One entry of `verify`'s loop: what is wrong with entry `i`, or "ok".
LinkBreak(stream, entries, i) ==
    LET entry == entries[i]
        previous == IF i = 1 THEN Genesis ELSE entries[i - 1].hash
    IN  IF entry.record.stream # stream THEN "ForeignEntry"
        ELSE IF entry.sequence # i
        THEN IF \E j \in i + 1..Len(entries) : entries[j].sequence = i THEN "OutOfOrder"
                                                                       ELSE "Missing"
        ELSE IF entry.previous # previous THEN "BrokenLink"
        ELSE IF ExpectedHash(entry) # entry.hash THEN "Tampered" ELSE "ok"

\* The anchor's part of `verify`.
AnchorBreak(entries, anchor) ==
    LET at == {i \in 1..Len(entries) : entries[i].sequence = anchor.sequence} IN
    IF at = {} THEN "Truncated"
    ELSE IF \E i \in at : entries[i].hash # anchor.hash THEN "AnchorMismatch" ELSE "ok"

\* `verify`: the first break found, the anchor last.
Verify(stream, entries, anchor) ==
    LET bad == {i \in 1..Len(entries) : LinkBreak(stream, entries, i) # "ok"} IN
    IF bad # {} THEN LinkBreak(stream, entries, CHOOSE i \in bad : \A j \in bad : i <= j)
    ELSE IF anchor = None THEN "ok" ELSE AnchorBreak(entries, anchor)

\* `read_stream` of what the files show: malformed if the last line is incomplete.
ReadStream(stream, anchor) ==
    IF stream \in torn THEN "Malformed" ELSE Verify(stream, log[stream], anchor)

LastHead(entries) == IF entries = <<>> THEN None ELSE HeadOf(entries[Len(entries)])

---------------------------------------------------------------------------
(* Recording                                                               *)

TrailInit ==
    /\ log = [s \in Streams |-> <<>>] /\ torn = {} /\ synced = [s \in Streams |-> 0]
    /\ named = {} /\ head = [s \in Streams |-> None] /\ kept = [s \in Streams |-> None]
    /\ trail = "closed" /\ owner = 0 /\ heads = [s \in Streams |-> None] /\ broken = {}
    /\ queue = {} /\ append = None /\ reading = None
    /\ given = 0 /\ faults = 0 /\ stops = 0 /\ power = 0 /\ damage = 0
    /\ appended = {} /\ reported = {} /\ lastRead = "ok"

\* `AuditRecorder::record` spawns the append as a task of its own: what becomes of
\* the request that waits for it changes nothing.  `fits` is whether it encodes.
Record(s, fits) ==
    /\ trail = "open" /\ given < MaxRecords
    /\ given' = given + 1
    /\ queue' = queue \cup {[id |-> given + 1, stream |-> s, fits |-> fits]}
    /\ UNCHANGED <<owner, files, trail, heads, broken, append, reading, faults, stops, power, damage, history,
                   lastRead>>

\* `report` and `failed`
Report(record) == reported' = reported \cup {record.id}

\* Mutant: a stream an append failed on is extended all the same.
TakeBroken(record) ==
    /\ append = None /\ trail \in {"open", "closing"} /\ record \in queue
    /\ queue' = queue \ {record}
    /\ IF ~Encodes(record) THEN Report(record) /\ append' = None
         ELSE /\ append' = [entry |-> Seal(heads[record.stream], record), stream |-> record.stream,
                            step |-> "write", owner |-> owner, created |-> Len(log[record.stream]) = 0]
              /\ UNCHANGED reported
    /\ UNCHANGED <<owner, files, trail, heads, broken, reading, counters, appended, lastRead>>

\* `Inner::append` up to the seal: the lock is taken, a broken stream and an
\* oversize entry are refused, any other is sealed after the stream's head.
Take(record) ==
    /\ append = None /\ trail \in {"open", "closing"} /\ record \in queue
    /\ queue' = queue \ {record}
    /\ IF record.stream \in broken \/ ~Encodes(record)
         THEN Report(record) /\ append' = None
         ELSE /\ append' = [entry |-> Seal(heads[record.stream], record), stream |-> record.stream,
                            step |-> "write", owner |-> owner, created |-> Len(log[record.stream]) = 0]
              /\ UNCHANGED reported
    /\ UNCHANGED <<owner, files, trail, heads, broken, reading, counters, appended, lastRead>>

\* The line is not known to be durable: the stream is closed to appends.
FailAppend ==
    /\ broken' = broken \cup {append.stream} /\ append' = None /\ Report(append.entry.record)
    /\ UNCHANGED <<appended, heads>>

\* `append_line`: one write at the end of the file.
WriteLine ==
    /\ append # None /\ append.step = "write"
    /\ log' = [log EXCEPT ![append.stream] = Append(@, append.entry)]
    /\ append' = [append EXCEPT !.step = "sync"]
    /\ UNCHANGED <<owner, torn, synced, named, head, kept, trail, heads, broken, queue, reading,
                   counters, history, lastRead>>

\* The write fails, with nothing or a part of the line in the file.
WriteFails(part) ==
    /\ append # None /\ append.step = "write" /\ faults < MaxFaults
    /\ faults' = faults + 1
    /\ torn' = IF part THEN torn \cup {append.stream} ELSE torn
    /\ FailAppend
    /\ UNCHANGED <<owner, log, synced, named, head, kept, trail, queue, reading, given, stops, power, damage,
                   lastRead>>

\* Mutant: the entry that creates a log is reported before the log's name is durable,
\* and its line before it is synced.
SyncLineLater ==
    /\ append # None /\ append.step = "sync"
    /\ heads' = IF append.owner # owner THEN heads
                ELSE [heads EXCEPT ![append.stream] = HeadOf(append.entry)]
    /\ append' = [append EXCEPT !.step = "head"]
    /\ UNCHANGED <<owner, files, trail, broken, queue, reading, counters, history, lastRead>>

\* The file is synced, and its directory if this append created it; then the
\* in-memory head moves.
SyncLine ==
    /\ append # None /\ append.step = "sync"
    /\ synced' = [synced EXCEPT ![append.stream] = Len(log[append.stream])]
    /\ named' = IF append.created THEN named \cup {append.stream} ELSE named
    /\ heads' = IF append.owner # owner THEN heads
                ELSE [heads EXCEPT ![append.stream] = HeadOf(append.entry)]
    /\ append' = [append EXCEPT !.step = "head"]
    /\ UNCHANGED <<owner, log, torn, head, kept, trail, broken, queue, reading, counters, history, lastRead>>

\* Either sync fails; the line itself may have reached storage.
SyncFails(reached) ==
    /\ append # None /\ append.step = "sync" /\ faults < MaxFaults
    /\ faults' = faults + 1
    /\ synced' = IF reached THEN [synced EXCEPT ![append.stream] = Len(log[append.stream])] ELSE synced
    /\ FailAppend
    /\ UNCHANGED <<owner, log, torn, named, head, kept, trail, queue, reading, given, stops, power, damage, lastRead>>

\* The entry is reported as appended, whatever became of its head.
Appended ==
    /\ append' = None /\ Report(append.entry.record)
    /\ appended' = appended \cup {append.entry}

\* `write_head`: staged, synced and renamed, so one head or the other is shown ...
RenameHead ==
    /\ append # None /\ append.step = "head"
    /\ head' = [head EXCEPT ![append.stream] = HeadOf(append.entry)]
    /\ append' = [append EXCEPT !.step = "headSync"]
    /\ UNCHANGED <<owner, log, torn, synced, named, kept, trail, heads, broken, queue, reading, counters,
                   history, lastRead>>

\* ... and the directory synced, which also settles the log's name.
SyncHead ==
    /\ append # None /\ append.step = "headSync"
    /\ kept' = head /\ named' = {s \in Streams : log[s] # <<>>}
    /\ Appended
    /\ UNCHANGED <<owner, log, torn, synced, head, trail, heads, broken, queue, reading, counters, lastRead>>

\* A head that was not written or not synced is only logged.
HeadFails ==
    /\ append # None /\ append.step \in {"head", "headSync"} /\ faults < MaxFaults
    /\ faults' = faults + 1
    /\ Appended
    /\ UNCHANGED <<owner, files, trail, heads, broken, queue, reading, given, stops, power, damage, lastRead>>

---------------------------------------------------------------------------
(* Reading                                                                 *)

\* `read` takes no lock: the log first ...
BeginRead(s) ==
    /\ trail = "open" /\ reading = None
    /\ reading' = [stream |-> s, verdict |-> IF s \in torn THEN "Malformed" ELSE "entries",
                   entries |-> log[s]]
    /\ UNCHANGED <<owner, files, trail, heads, broken, queue, append, counters, history, lastRead>>

\* ... and the head after it; the caller verifies one against the other.
EndRead ==
    /\ reading # None
    /\ lastRead' = IF reading.verdict = "Malformed" THEN "Malformed"
                   ELSE Verify(reading.stream, reading.entries, head[reading.stream])
    /\ reading' = None
    /\ UNCHANGED <<owner, files, trail, heads, broken, queue, append, counters, history>>

---------------------------------------------------------------------------
(* Opening, closing, stopping                                              *)

\* The directory lock lives with every operation the trail started.
LockFree == trail \in {"closed", "refused"} \/ (trail = "closing" /\ append = None /\ queue = {})

\* `streams`: every stream a log or a head names.
Stored == {s \in Streams : log[s] # <<>> \/ s \in torn \/ head[s] # None}

\* `open`: every stored stream is read and verified, a head behind its log is caught
\* up, and the directory synced.
Open ==
    /\ LockFree
    /\ \A s \in Stored : ReadStream(s, head[s]) = "ok"
    /\ head' = [s \in Streams |-> LastHead(log[s])]
    /\ kept' = head' /\ named' = {s \in Streams : log[s] # <<>>}
    /\ heads' = head' /\ broken' = {} /\ trail' = "open" /\ owner' = owner + 1
    /\ UNCHANGED <<log, torn, synced, queue, append, reading, counters, history, lastRead>>

\* `open` reads one stream after the other and catches each head up at once; a head
\* it writes is synced with the directory.  `done`: the streams it came through.
CatchUp(done) ==
    /\ head' = [s \in Streams |-> IF s \in done THEN LastHead(log[s]) ELSE head[s]]
    /\ \/ head' = head /\ UNCHANGED <<kept, named>>
       \/ head' # head /\ kept' = head' /\ named' = {s \in Streams : log[s] # <<>>}

Sound == {s \in Stored : ReadStream(s, head[s]) = "ok"}

\* One stream does not read back or verify: the trail is refused, and with it the start.
OpenRefused ==
    /\ LockFree /\ trail # "refused" /\ Sound # Stored
    /\ \E done \in SUBSET Sound : CatchUp(done)
    /\ trail' = "refused"
    /\ UNCHANGED <<owner, log, torn, synced, heads, broken, queue, append, reading, counters, history,
                   lastRead>>

\* The trail is dropped; appends it started go on.
Close ==
    /\ trail = "open" /\ stops < MaxStops
    /\ stops' = stops + 1 /\ trail' = "closing" /\ reading' = None
    /\ UNCHANGED <<owner, files, heads, broken, queue, append, given, faults, power, damage, history, lastRead>>

\* The process is gone: the files show all it wrote, perhaps a part of a line.
Gone ==
    /\ trail' = "closed" /\ heads' = [s \in Streams |-> None] /\ broken' = {}
    /\ queue' = {} /\ append' = None /\ reading' = None

Kill(part) ==
    /\ trail \in {"open", "closing"} /\ stops < MaxStops
    /\ stops' = stops + 1 /\ Gone
    /\ torn' = IF part /\ append # None /\ append.step = "write" THEN torn \cup {append.stream} ELSE torn
    /\ UNCHANGED <<owner, log, synced, named, head, kept, given, faults, power, damage, history, lastRead>>

\* `open` is cut off between two streams: the process stops, or a file cannot be
\* written and the start is given up.
OpenCut ==
    /\ LockFree /\ stops < MaxStops
    /\ stops' = stops + 1 /\ Gone
    /\ \E done \in SUBSET Sound : CatchUp(done)
    /\ UNCHANGED <<owner, log, torn, synced, given, faults, power, damage, history, lastRead>>

\* The power fails: of what was not synced, any part is lost, also of a line.
PowerLoss ==
    /\ power < MaxPower /\ power' = power + 1 /\ Gone
    /\ \E left \in [Streams -> 0..MaxRecords], shown \in [Streams -> BOOLEAN] :
         /\ \A s \in Streams :
              /\ left[s] <= Len(log[s])
              /\ left[s] >= synced[s] \/ (s \notin named /\ left[s] = 0)
         /\ log' = [s \in Streams |-> SubSeq(log[s], 1, left[s])]
         /\ synced' = left
         /\ named' = {s \in Streams : left[s] > 0}
         /\ torn' \in SUBSET {s \in Streams : s \in torn \/ left[s] < Len(log[s])}
         /\ head' = [s \in Streams |-> IF shown[s] THEN head[s] ELSE kept[s]]
         /\ kept' = head'
    /\ UNCHANGED <<owner, given, faults, stops, damage, history, lastRead>>

\* A stored log is edited from outside while no trail has it open: an entry is taken
\* out or its record replaced by another.
Damage(s, i) ==
    /\ trail \in {"closed", "refused"} /\ damage < MaxDamage /\ i \in 1..Len(log[s])
    /\ damage' = damage + 1
    /\ \/ /\ log' = [log EXCEPT ![s] = SubSeq(@, 1, i - 1) \o SubSeq(@, i + 1, Len(@))]
          /\ synced' = [synced EXCEPT ![s] = Len(log[s]) - 1]
       \/ /\ log' = [log EXCEPT ![s][i].record.id = 0]
          /\ synced' = [synced EXCEPT ![s] = Len(log[s])]
    /\ UNCHANGED <<owner, torn, named, head, kept, trail, heads, broken, queue, append, reading, given,
                   faults, stops, power, history, lastRead>>

TrailNext ==
    \/ \E s \in Streams, fits \in BOOLEAN : Record(s, fits)
    \/ \E record \in queue : Take(record)
    \/ WriteLine \/ SyncLine \/ RenameHead \/ SyncHead \/ HeadFails
    \/ \E part \in BOOLEAN : WriteFails(part) \/ SyncFails(part) \/ Kill(part)
    \/ \E s \in Streams : BeginRead(s)
    \/ EndRead
    \/ Open \/ OpenRefused \/ OpenCut \/ Close \/ PowerLoss
    \/ \E s \in Streams, i \in 1..MaxRecords : Damage(s, i)

TrailSpec == TrailInit /\ [][TrailNext]_trailVars

\* Tasks and the blocking threads they run on are scheduled.
TrailFairness ==
    /\ WF_trailVars(\E record \in queue : Take(record))
    /\ WF_trailVars(WriteLine) /\ WF_trailVars(SyncLine)
    /\ WF_trailVars(RenameHead) /\ WF_trailVars(SyncHead)

FairTrailSpec == TrailSpec /\ TrailFairness

---------------------------------------------------------------------------
(* Properties                                                              *)

\* What `verify` can answer, and a file that does not read back.
Verdicts == {"ok", "ForeignEntry", "OutOfOrder", "Missing", "BrokenLink", "Tampered",
             "Truncated", "AnchorMismatch", "Malformed"}

Readings == [stream : Streams, verdict : {"Malformed", "entries"}, entries : Seq(Entries)]

\* The type invariant: files, in-memory heads and the append under way have the
\* shape the adapter keeps, and no file has more durable lines than lines.
TrailTypeOK ==
    /\ log \in [Streams -> Seq(Entries)] /\ synced \in [Streams -> Nat]
    /\ \A s \in Streams : synced[s] <= Len(log[s])
    /\ torn \subseteq Streams /\ named \subseteq Streams /\ broken \subseteq Streams
    /\ head \in [Streams -> Heads \cup {None}] /\ kept \in [Streams -> Heads \cup {None}]
    /\ heads \in [Streams -> Heads \cup {None}]
    /\ trail \in {"closed", "open", "closing", "refused"} /\ owner \in Nat
    /\ queue \subseteq Records /\ append \in Appends \cup {None}
    /\ reading \in Readings \cup {None} /\ lastRead \in Verdicts
    /\ given \in 0..MaxRecords /\ faults \in 0..MaxFaults /\ stops \in 0..MaxStops
    /\ power \in 0..MaxPower /\ damage \in 0..MaxDamage
    /\ appended \subseteq Entries /\ reported \subseteq 1..given

\* An entry reported as appended (recorder.rs, `report`) is on storage under a durable
\* name, so no stop and no power loss takes it; only an edit from outside does.
AppendedIsDurable ==
    damage = 0 => \A entry \in appended :
        LET s == entry.record.stream IN
        /\ s \in named /\ entry.sequence <= synced[s] /\ log[s][entry.sequence] = entry

\* port.rs: two appends never claim one sequence.  Whatever failed, stopped or was
\* reopened, the lines of a stream chain one to the next.
ChainNeverForks ==
    damage = 0 => \A s \in Streams : Verify(s, log[s], None) = "ok"

\* A stop of the process, between any two steps of an append, never makes the trail
\* refuse to open unless it tore a line: with no power loss and no edit, the head of a
\* stream names a line of it.
StopsDoNotRefuse ==
    damage = 0 /\ power = 0 => \A s \in Streams : s \notin torn /\ head[s] # None
        => head[s].sequence <= Len(log[s]) /\ log[s][head[s].sequence].hash = head[s].hash

\* The stored trail keeps what was reported (audit_trail, local_audit_trail): an entry
\* reported as appended survives stops and power losses, the lines of a stream chain
\* one to the next, and a stop alone never makes a stream refuse to open.
TrailKeepsWhatWasReported ==
    TrailTypeOK /\ AppendedIsDurable /\ ChainNeverForks /\ StopsDoNotRefuse

\* The head was recorded over a chain that holds the entry.
Covers(anchor, entry) ==
    /\ anchor # None /\ entry.sequence <= anchor.sequence
    /\ entry.hash = SubSeq(anchor.hash, 1, entry.sequence)

\* An opened trail holds every entry reported as appended that the head it was opened
\* on covers: a log that lost or changed one of them is refused (verify.rs, open.rs).
OpenedTrailIsWhole ==
    Open => \A entry \in appended :
     LET s == entry.record.stream IN
     Covers(head[s], entry)
         => /\ entry.sequence <= Len(log[s]) /\ log[s][entry.sequence] = entry

\* local_audit_trail.rs: once an append of a stream failed, no line is added to it
\* until the trail was reopened and the stream verified.
BrokenStreamIsNotExtended ==
    \A s \in broken : Len(log'[s]) <= Len(log[s])

\* recorder.rs: a record handed over is reported, appended or failed, unless the
\* process stops first; a request that is cut off stops neither.
EveryRecordReported ==
    \A i \in 1..MaxRecords :
        (\E record \in queue : record.id = i)
            ~> (i \in reported \/ trail \in {"closed", "refused"})

\* verify.rs: the entry is written before its head, so a stop leaves the stream ahead of
\* its anchor.  On storage, a head never names a line that is not there.
HeadNeverPassesLog ==
    damage = 0 => \A s \in Streams : kept[s] # None => kept[s].sequence <= synced[s]

\* port.rs: a read answers every stored entry with the head recorded for it; reading
\* a sound stream never reports a break.
ReadReportsNoBreak ==
    damage = 0 => lastRead \in {"ok", "Malformed"}

=============================================================================
