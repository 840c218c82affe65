--------------------------- MODULE AuditTrailProofs ---------------------------
(***************************************************************************)
(* What the audit trail keeps, for any streams and any number of records,  *)
(* failed writes, stops, power losses and edits: an entry reported as      *)
(* appended survives every stop and power loss, a stream never forks, and  *)
(* an edit that took or changed an entry the head covers refuses the open. *)
(***************************************************************************)
EXTENDS AuditTrail, TLAPS, WellFoundedInduction, SequenceTheorems

-----------------------------------------------------------------------------
(* The invariant                                                           *)

\* The trail has a log open, or appends of one that was dropped.
Live == trail \in {"open", "closing"}

\* An append has written its line of a stream and not yet synced it.
Syncing(s) == append # None /\ append.stream = s /\ append.step = "sync"

\* What `verify` checks of entry i.
Linked(stream, entries, i) ==
    /\ entries[i].record.stream = stream
    /\ entries[i].sequence = i
    /\ entries[i].previous = IF i = 1 THEN Genesis ELSE entries[i - 1].hash
    /\ ExpectedHash(entries[i]) = entries[i].hash

Chained(stream, entries) == \A i \in 1..Len(entries) : Linked(stream, entries, i)

\* A line that was sealed: its hash is taken over as many records as its sequence says.
Sealed(entry) == entry.record.fits /\ Len(entry.hash) = entry.sequence

\* A line was sealed over those that came before it.
Follows(later, earlier) ==
    /\ earlier.sequence <= later.sequence
    /\ earlier.hash = SubSeq(later.hash, 1, earlier.sequence)

\* Without an edit from outside, or once it was verified, a log is the chain that was
\* sealed.
LogsChain == damage = 0 \/ Live => \A s \in Streams : Chained(s, log[s])

\* Edited or not, the lines a log still has were sealed one over the other.
LinesFollow ==
    \A s \in Streams :
        /\ \A i \in 1..Len(log[s]) : Sealed(log[s][i])
        /\ \A i, j \in 1..Len(log[s]) : i <= j => Follows(log[s][j], log[s][i])

\* An entry reported as appended was sealed.
AppendedSealed ==
    \A entry \in appended : Sealed(entry) /\ ExpectedHash(entry) = entry.hash

\* In memory, a stream that no append failed on is where its log is; and its log has a
\* durable name, unless the append that created it is under way.
MemoryFollows ==
    Live => \A s \in Streams \ broken :
        /\ s \notin torn
        /\ ~Syncing(s) => heads[s] = LastHead(log[s]) /\ (log[s] # <<>> => s \in named)

\* The append holding the lock: sealed over the last line, or the last line itself,
\* durable once it was synced.
AppendPlaced ==
    append # None =>
        LET s == append.stream
            entry == append.entry
        IN  /\ Live /\ append.owner = owner /\ s \notin broken
            /\ entry.record.stream = s /\ entry.record.fits
            /\ append.step = "write" =>
                  /\ entry = Seal(LastHead(log[s]), entry.record)
                  /\ append.created = (log[s] = <<>>)
            /\ append.step # "write" => log[s] # <<>> /\ log[s][Len(log[s])] = entry
            /\ append.step = "sync" => append.created \/ s \in named
            /\ append.step \in {"head", "headSync"} => s \in named /\ synced[s] = Len(log[s])

\* Only what was handed over is waiting, appended or reported.
Handed ==
    /\ \A record \in queue : record.id \in 1..given
    /\ append # None => append.entry.record.id \in 1..given

\* The invariant: AppendPlaced and MemoryFollows say where the append under way and
\* the in-memory heads stand against the files, LogsChain and LinesFollow what the
\* files hold, AppendedSealed and Handed what was reported and what waits.
TrailInv ==
    /\ TrailTypeOK /\ Handed /\ LogsChain /\ LinesFollow /\ AppendedSealed /\ MemoryFollows
    /\ AppendPlaced /\ AppendedIsDurable /\ StopsDoNotRefuse

-----------------------------------------------------------------------------
(* Sequences                                                               *)

\* The first lines of a file.
LEMMA PrefixProperties ==
    ASSUME NEW S, NEW seq \in Seq(S), NEW n \in 0..Len(seq)
    PROVE  /\ SubSeq(seq, 1, n) \in Seq(S) /\ Len(SubSeq(seq, 1, n)) = n
           /\ \A i \in 1..n : SubSeq(seq, 1, n)[i] = seq[i]
<1>1. Len(seq) \in Nat /\ \A i \in 1..Len(seq) : seq[i] \in S
    BY LenProperties, ElementOfSeq
<1>. QED
    BY <1>1, SubSeqProperties

\* A file with one line taken out.
LEMMA WithoutProperties ==
    ASSUME NEW S, NEW seq \in Seq(S), NEW i \in 1..Len(seq)
    PROVE  LET rest == SubSeq(seq, 1, i - 1) \o SubSeq(seq, i + 1, Len(seq)) IN
           /\ rest \in Seq(S) /\ Len(rest) = Len(seq) - 1
           /\ \A j \in 1..Len(rest) : rest[j] = IF j < i THEN seq[j] ELSE seq[j + 1]
<1>. DEFINE before == SubSeq(seq, 1, i - 1)
            after == SubSeq(seq, i + 1, Len(seq))
<1>1. Len(seq) \in Nat /\ \A j \in 1..Len(seq) : seq[j] \in S
    BY LenProperties, ElementOfSeq
<1>2. before \in Seq(S) /\ Len(before) = i - 1 /\ \A j \in 1..i - 1 : before[j] = seq[j]
    BY <1>1, SubSeqProperties
<1>3. /\ after \in Seq(S) /\ Len(after) = Len(seq) - i
      /\ \A j \in 1..Len(seq) - i : after[j] = seq[i + 1 + j - 1]
    BY <1>1, SubSeqProperties
<1>. HIDE DEF before, after
<1>a. /\ before \o after \in Seq(S) /\ Len(before \o after) = Len(before) + Len(after)
      /\ \A j \in 1..Len(before) + Len(after) : (before \o after)[j] =
            IF j <= Len(before) THEN before[j] ELSE after[j - Len(before)]
    BY <1>2, <1>3, ConcatProperties
<1>4. /\ before \o after \in Seq(S) /\ Len(before \o after) = Len(seq) - 1
      /\ \A j \in 1..Len(seq) - 1 : (before \o after)[j] =
            IF j <= i - 1 THEN before[j] ELSE after[j - (i - 1)]
    BY <1>a, <1>1, <1>2, <1>3
<1>5. \A j \in 1..Len(seq) - 1 : (before \o after)[j] = IF j < i THEN seq[j] ELSE seq[j + 1]
    <2>1. SUFFICES ASSUME NEW j \in 1..Len(seq) - 1
                   PROVE  (before \o after)[j] = IF j < i THEN seq[j] ELSE seq[j + 1]
        OBVIOUS
    <2>2. CASE j < i
        BY <1>1, <1>2, <1>4, <2>2
    <2>3. CASE ~(j < i)
        <3>1. (before \o after)[j] = after[j - (i - 1)] /\ j - (i - 1) \in 1..Len(seq) - i
            BY <1>1, <1>2, <1>4, <2>3
        <3>2. i + 1 + (j - (i - 1)) - 1 = j + 1
            BY <1>1
        <3>. QED
            BY <1>3, <2>3, <3>1, <3>2
    <2>. QED
        BY <2>2, <2>3
<1>. QED
    BY <1>4, <1>5 DEF before, after

\* A line at the end leaves the first ones.
LEMMA PrefixOfAppend ==
    ASSUME NEW S, NEW seq \in Seq(S), NEW elt \in S, NEW n \in 0..Len(seq)
    PROVE  SubSeq(Append(seq, elt), 1, n) = SubSeq(seq, 1, n)
<1>1. /\ Append(seq, elt) \in Seq(S) /\ Len(Append(seq, elt)) = Len(seq) + 1
      /\ \A i \in 1..Len(seq) : Append(seq, elt)[i] = seq[i]
    BY AppendProperties
<1>2. n \in 0..Len(Append(seq, elt)) /\ Len(seq) \in Nat
    BY <1>1, LenProperties
<1>3. /\ SubSeq(Append(seq, elt), 1, n) \in Seq(S) /\ Len(SubSeq(Append(seq, elt), 1, n)) = n
      /\ \A i \in 1..n : SubSeq(Append(seq, elt), 1, n)[i] = Append(seq, elt)[i]
    BY <1>1, <1>2, PrefixProperties
<1>4. /\ SubSeq(seq, 1, n) \in Seq(S) /\ Len(SubSeq(seq, 1, n)) = n
      /\ \A i \in 1..n : SubSeq(seq, 1, n)[i] = seq[i]
    BY PrefixProperties
<1>. QED
    BY <1>1, <1>2, <1>3, <1>4, SeqEqual

\* Of the places a break may have, one comes first.
LEMMA FirstBreak ==
    ASSUME NEW S \in SUBSET Nat, S # {}
    PROVE  \E i \in S : \A j \in S : i <= j
<1>1. \E i \in S : \A j \in S : ~ (<<j, i>> \in OpToRel(<, Nat))
    BY NatLessThanWellFounded, WFMin
<1>2. PICK i \in S : \A j \in S : ~ (<<j, i>> \in OpToRel(<, Nat))
    BY <1>1
<1>3. \A j \in S : ~ (j < i)
    BY <1>2 DEF OpToRel
<1>. QED
    BY <1>3

-----------------------------------------------------------------------------
(* The chain                                                               *)

\* What verify answers is one of its verdicts.
LEMMA VerdictTyped ==
    ASSUME NEW stream, NEW entries, NEW anchor
    PROVE  Verify(stream, entries, anchor) \in Verdicts \ {"Malformed"}
<1>1. \A i : LinkBreak(stream, entries, i) \in Verdicts \ {"Malformed"}
    BY DEF LinkBreak, Verdicts
<1>2. AnchorBreak(entries, anchor) \in Verdicts \ {"Malformed"}
    BY DEF AnchorBreak, Verdicts
<1>. QED
    BY <1>1, <1>2 DEF Verify, Verdicts

\* No break is found at an entry that is linked to the one before, and only there.
LEMMA LinkBreakOk ==
    ASSUME NEW stream, NEW entries, NEW i
    PROVE  LinkBreak(stream, entries, i) = "ok" <=> Linked(stream, entries, i)
BY DEF LinkBreak, Linked

\* A log verifies only if it is a chain that reaches the entry it is anchored to.
LEMMA VerifiedChains ==
    ASSUME NEW stream, NEW entries \in Seq(Entries), NEW anchor
    PROVE  /\ Verify(stream, entries, None) = "ok" <=> Chained(stream, entries)
           /\ Verify(stream, entries, anchor) = "ok" =>
                /\ Chained(stream, entries)
                /\ anchor # None => \E i \in 1..Len(entries) :
                      entries[i].sequence = anchor.sequence /\ entries[i].hash = anchor.hash
<1>. DEFINE bad == {i \in 1..Len(entries) : LinkBreak(stream, entries, i) # "ok"}
            first == CHOOSE i \in bad : \A j \in bad : i <= j
<1>1. bad = {} <=> Chained(stream, entries)
    BY LinkBreakOk DEF Chained
<1>2. bad # {} => LinkBreak(stream, entries, first) # "ok"
    <2>1. bad \in SUBSET Nat
        BY LenProperties
    <2>2. bad # {} => first \in bad
        BY <2>1, FirstBreak
    <2>. QED
        BY <2>2
<1>3. Verify(stream, entries, anchor) = "ok" /\ anchor # None => AnchorBreak(entries, anchor) = "ok"
    BY <1>2 DEF Verify
<1>4. AnchorBreak(entries, anchor) = "ok" => \E i \in 1..Len(entries) :
          entries[i].sequence = anchor.sequence /\ entries[i].hash = anchor.hash
    BY DEF AnchorBreak
<1>. QED
    BY <1>1, <1>2, <1>3, <1>4 DEF Verify

\* Nothing is before an empty log.
LEMMA LastHeadTyped ==
    ASSUME AuditAssumption, NEW entries \in Seq(Entries)
    PROVE  /\ LastHead(entries) \in Heads \cup {None}
           /\ LastHead(entries) = None <=> entries = <<>>
           /\ entries # <<>> =>
                /\ entries[Len(entries)] \in Entries /\ Len(entries) \in Positive
                /\ LastHead(entries) = HeadOf(entries[Len(entries)])
<1>1. CASE entries = <<>>
    BY <1>1 DEF LastHead
<1>2. CASE entries # <<>>
    <2>1. Len(entries) \in Positive
        BY <1>2, EmptySeq, LenProperties DEF Positive
    <2>2. entries[Len(entries)] \in Entries
        BY <2>1, ElementOfSeq DEF Positive
    <2>3. HeadOf(entries[Len(entries)]) \in Heads
        BY <2>2 DEF HeadOf, Heads, Entries
    <2>. QED
        BY <1>2, <2>1, <2>2, <2>3 DEF LastHead, AuditAssumption
<1>. QED
    BY <1>1, <1>2

\* An entry sealed over the last line comes next in the chain.
LEMMA SealTyped ==
    ASSUME AuditAssumption, NEW last \in Heads \cup {None}, NEW record \in Records
    PROVE  /\ Seal(last, record) \in Entries
           /\ Seal(last, record).record = record
           /\ ExpectedHash(Seal(last, record)) = Seal(last, record).hash
           /\ last = None => Seal(last, record).sequence = 1 /\ Seal(last, record).previous = Genesis
                             /\ Len(Seal(last, record).hash) = 1
           /\ last # None => /\ Seal(last, record).sequence = last.sequence + 1
                             /\ Seal(last, record).previous = last.hash
                             /\ Len(Seal(last, record).hash) = Len(last.hash) + 1
<1>. DEFINE previous == IF last = None THEN Genesis ELSE last.hash
            sequence == IF last = None THEN 1 ELSE last.sequence + 1
<1>1. previous \in Seq(Nat) /\ sequence \in Positive /\ Len(Genesis) = 0
    BY EmptySeq DEF Heads, Hashes, Positive, Genesis
<1>2. /\ Append(previous, record.id) \in Seq(Nat)
      /\ Len(Append(previous, record.id)) = Len(previous) + 1
    BY <1>1, AppendProperties DEF Records
<1>3. Seal(last, record) = [sequence |-> sequence, previous |-> previous, record |-> record,
                            hash |-> Append(previous, record.id)]
    BY DEF Seal, ChainHashOf
<1>. HIDE DEF sequence, previous
<1>4. Seal(last, record) \in Entries
    BY <1>1, <1>2, <1>3 DEF Entries, Hashes
<1>5. ExpectedHash(Seal(last, record)) = Seal(last, record).hash
    BY <1>3 DEF ExpectedHash, ChainHashOf
<1>6. /\ Seal(last, record).sequence = sequence /\ Seal(last, record).previous = previous
      /\ Seal(last, record).record = record /\ Len(Seal(last, record).hash) = Len(previous) + 1
    BY <1>2, <1>3
<1>7. CASE last = None
    BY <1>1, <1>4, <1>5, <1>6, <1>7 DEF previous, sequence
<1>8. CASE last # None
    BY <1>4, <1>5, <1>6, <1>8 DEF previous, sequence
<1>. QED
    BY <1>7, <1>8

-----------------------------------------------------------------------------
(* What the steps do to a log                                              *)

\* An append adds, after the last line, the entry sealed over it.
LEMMA WrittenLine ==
    ASSUME AuditAssumption, TrailTypeOK, AppendPlaced, WriteLine
    PROVE  LET s == append.stream
               entry == append.entry
               last == log[s][Len(log[s])]
           IN  /\ s \in Streams /\ s \notin broken /\ entry \in Entries
               /\ log' \in [Streams -> Seq(Entries)]
               /\ log'[s] # <<>> /\ Len(log'[s]) = Len(log[s]) + 1
               /\ \A i \in 1..Len(log[s]) : log'[s][i] = log[s][i]
               /\ log'[s][Len(log[s]) + 1] = entry
               /\ \A t \in Streams \ {s} : log'[t] = log[t]
               /\ entry.record.stream = s /\ entry.record.fits /\ ExpectedHash(entry) = entry.hash
               /\ log[s] = <<>> => /\ entry.sequence = 1 /\ entry.previous = Genesis
                                   /\ Len(entry.hash) = 1
               /\ log[s] # <<>> =>
                     /\ last \in Entries /\ Len(log[s]) \in Positive
                     /\ entry.sequence = last.sequence + 1 /\ entry.previous = last.hash
                     /\ Len(entry.hash) = Len(last.hash) + 1
                     /\ entry.hash = Append(last.hash, entry.record.id)
<1>. DEFINE s == append.stream
            entry == append.entry
<1>1. append \in Appends /\ append # None /\ append.step = "write"
    BY DEF TrailTypeOK, WriteLine
<1>2. s \in Streams /\ entry \in Entries /\ log[s] \in Seq(Entries) /\ entry.record \in Records
    BY <1>1 DEF TrailTypeOK, Appends, Entries
<1>3. /\ s \notin broken /\ entry.record.stream = s /\ entry.record.fits
      /\ entry = Seal(LastHead(log[s]), entry.record)
    BY <1>1 DEF AppendPlaced
<1>4. log' = [log EXCEPT ![s] = Append(log[s], entry)]
    BY DEF WriteLine
<1>5. /\ Append(log[s], entry) \in Seq(Entries) /\ Append(log[s], entry) # <<>>
      /\ Len(Append(log[s], entry)) = Len(log[s]) + 1
      /\ \A i \in 1..Len(log[s]) : Append(log[s], entry)[i] = log[s][i]
      /\ Append(log[s], entry)[Len(log[s]) + 1] = entry
    BY <1>2, AppendProperties
<1>6. /\ log' \in [Streams -> Seq(Entries)] /\ log'[s] = Append(log[s], entry)
      /\ \A t \in Streams \ {s} : log'[t] = log[t]
    BY <1>2, <1>4, <1>5 DEF TrailTypeOK
<1>. DEFINE last == log[s][Len(log[s])]
            sealed == Seal(LastHead(log[s]), entry.record)
<1>7. /\ LastHead(log[s]) \in Heads \cup {None}
      /\ LastHead(log[s]) = None <=> log[s] = <<>>
      /\ log[s] # <<>> => /\ last \in Entries /\ Len(log[s]) \in Positive
                          /\ LastHead(log[s]) = HeadOf(last)
    BY <1>2, LastHeadTyped
<1>8. /\ ExpectedHash(sealed) = sealed.hash
      /\ LastHead(log[s]) = None => sealed.sequence = 1 /\ sealed.previous = Genesis
                                    /\ Len(sealed.hash) = 1
      /\ LastHead(log[s]) # None => /\ sealed.sequence = LastHead(log[s]).sequence + 1
                                    /\ sealed.previous = LastHead(log[s]).hash
                                    /\ Len(sealed.hash) = Len(LastHead(log[s]).hash) + 1
    BY <1>2, <1>7, SealTyped
<1>9. log[s] # <<>> =>
          /\ entry.sequence = last.sequence + 1 /\ entry.previous = last.hash
          /\ Len(entry.hash) = Len(last.hash) + 1
          /\ entry.hash = Append(last.hash, entry.record.id)
    <2>1. SUFFICES ASSUME log[s] # <<>>
                   PROVE  /\ entry.sequence = last.sequence + 1 /\ entry.previous = last.hash
                          /\ Len(entry.hash) = Len(last.hash) + 1
                          /\ entry.hash = Append(last.hash, entry.record.id)
        OBVIOUS
    <2>2. LastHead(log[s]).sequence = last.sequence /\ LastHead(log[s]).hash = last.hash
        BY <1>7, <2>1 DEF HeadOf
    <2>3. /\ entry.sequence = last.sequence + 1 /\ entry.previous = last.hash
          /\ Len(entry.hash) = Len(last.hash) + 1 /\ ExpectedHash(entry) = entry.hash
        BY <1>3, <1>7, <1>8, <2>1, <2>2
    <2>. QED
        BY <2>3 DEF ExpectedHash, ChainHashOf
<1>10. /\ ExpectedHash(entry) = entry.hash
       /\ log[s] = <<>> => entry.sequence = 1 /\ entry.previous = Genesis /\ Len(entry.hash) = 1
    BY <1>3, <1>7, <1>8
<1>. QED
    <2>1. /\ s \in Streams /\ s \notin broken /\ entry \in Entries
          /\ log'[s] = Append(log[s], entry)
          /\ log[s] # <<>> => last \in Entries /\ Len(log[s]) \in Positive
        BY <1>2, <1>3, <1>6, <1>7
    <2>2. /\ log'[s] # <<>> /\ Len(log'[s]) = Len(log[s]) + 1
          /\ \A i \in 1..Len(log[s]) : log'[s][i] = log[s][i]
          /\ log'[s][Len(log[s]) + 1] = entry
        BY <1>5, <2>1
    <2>. QED
        BY <1>3, <1>6, <1>9, <1>10, <2>1, <2>2

\* A power loss leaves the first lines of every stream, those that were synced at
\* least, unless the log had no durable name.
LEMMA PowerCut ==
    ASSUME TrailTypeOK, PowerLoss
    PROVE  \E left \in [Streams -> Nat] :
              /\ synced' = left /\ named' = {s \in Streams : left[s] > 0}
              /\ log' \in [Streams -> Seq(Entries)]
              /\ \A s \in Streams :
                    /\ left[s] <= Len(log[s])
                    /\ left[s] >= synced[s] \/ (s \notin named /\ left[s] = 0)
                    /\ Len(log'[s]) = left[s]
                    /\ \A i \in 1..left[s] : log'[s][i] = log[s][i]
<1>1. PICK left \in [Streams -> 0..MaxRecords] :
          /\ \A s \in Streams :
               /\ left[s] <= Len(log[s])
               /\ left[s] >= synced[s] \/ (s \notin named /\ left[s] = 0)
          /\ log' = [s \in Streams |-> SubSeq(log[s], 1, left[s])]
          /\ synced' = left /\ named' = {s \in Streams : left[s] > 0}
    BY DEF PowerLoss
<1>2. \A s \in Streams :
         /\ log'[s] \in Seq(Entries) /\ Len(log'[s]) = left[s]
         /\ \A i \in 1..left[s] : log'[s][i] = log[s][i]
    <2>1. TAKE s \in Streams
    <2>2. log[s] \in Seq(Entries) /\ left[s] \in 0..Len(log[s])
        BY <1>1, LenProperties DEF TrailTypeOK
    <2>3. log'[s] = SubSeq(log[s], 1, left[s])
        BY <1>1
    <2>. QED
        BY <2>2, <2>3, PrefixProperties
<1>3. log' \in [Streams -> Seq(Entries)] /\ left \in [Streams -> Nat]
    BY <1>1, <1>2
<1>. QED
    BY <1>1, <1>2, <1>3

\* An edit takes a line out, or leaves every line its place and its hash.
LEMMA EditedLog ==
    ASSUME TrailTypeOK, NEW s \in Streams, NEW i \in 1..MaxRecords, Damage(s, i)
    PROVE  /\ log' \in [Streams -> Seq(Entries)] /\ synced' \in [Streams -> Nat]
           /\ synced'[s] <= Len(log'[s])
           /\ \A t \in Streams \ {s} : log'[t] = log[t] /\ synced'[t] = synced[t]
           /\ \/ /\ Len(log'[s]) = Len(log[s]) - 1
                 /\ \A j \in 1..Len(log'[s]) :
                       log'[s][j] = IF j < i THEN log[s][j] ELSE log[s][j + 1]
              \/ /\ Len(log'[s]) = Len(log[s])
                 /\ \A j \in 1..Len(log'[s]) :
                       /\ log'[s][j].sequence = log[s][j].sequence
                       /\ log'[s][j].hash = log[s][j].hash
                       /\ log'[s][j].record.fits = log[s][j].record.fits
<1>1. i \in 1..Len(log[s]) /\ log[s] \in Seq(Entries) /\ Len(log[s]) \in Nat
    BY LenProperties DEF TrailTypeOK, Damage
<1>2. CASE /\ log' = [log EXCEPT ![s] = SubSeq(@, 1, i - 1) \o SubSeq(@, i + 1, Len(@))]
           /\ synced' = [synced EXCEPT ![s] = Len(log[s]) - 1]
    <2>. DEFINE rest == SubSeq(log[s], 1, i - 1) \o SubSeq(log[s], i + 1, Len(log[s]))
    <2>1. /\ rest \in Seq(Entries) /\ Len(rest) = Len(log[s]) - 1
          /\ \A j \in 1..Len(rest) : rest[j] = IF j < i THEN log[s][j] ELSE log[s][j + 1]
        BY <1>1, WithoutProperties
    <2>2. log' = [log EXCEPT ![s] = rest]
        BY <1>2
    <2>. HIDE DEF rest
    <2>3. log'[s] = rest /\ \A t \in Streams \ {s} : log'[t] = log[t]
        BY <2>2 DEF TrailTypeOK
    <2>4. log' \in [Streams -> Seq(Entries)]
        BY <2>1, <2>2 DEF TrailTypeOK
    <2>5. /\ synced' \in [Streams -> Nat] /\ synced'[s] = Len(log[s]) - 1
          /\ \A t \in Streams \ {s} : synced'[t] = synced[t]
        BY <1>1, <1>2 DEF TrailTypeOK
    <2>. QED
        BY <1>1, <2>1, <2>3, <2>4, <2>5
<1>3. CASE /\ log' = [log EXCEPT ![s][i].record.id = 0]
           /\ synced' = [synced EXCEPT ![s] = Len(log[s])]
    <2>. DEFINE line == [log[s][i] EXCEPT !.record.id = 0]
                edited == [log[s] EXCEPT ![i] = line]
    <2>1. log[s][i] \in Entries
        BY <1>1, ElementOfSeq
    <2>2. /\ line \in Entries /\ line.sequence = log[s][i].sequence
          /\ line.hash = log[s][i].hash /\ line.record.fits = log[s][i].record.fits
        BY <2>1 DEF Entries, Records
    <2>3. log' = [log EXCEPT ![s] = edited]
        BY <1>3
    <2>. HIDE DEF line
    <2>4. /\ edited \in Seq(Entries) /\ Len(edited) = Len(log[s])
          /\ \A j \in 1..Len(log[s]) : edited[j] = IF j = i THEN line ELSE log[s][j]
        BY <1>1, <2>2, ExceptSeq
    <2>. HIDE DEF edited
    <2>5. log'[s] = edited /\ \A t \in Streams \ {s} : log'[t] = log[t]
        BY <2>3 DEF TrailTypeOK
    <2>6. log' \in [Streams -> Seq(Entries)]
        BY <2>3, <2>4 DEF TrailTypeOK
    <2>7. /\ synced' \in [Streams -> Nat] /\ synced'[s] = Len(log[s])
          /\ \A t \in Streams \ {s} : synced'[t] = synced[t]
        BY <1>1, <1>3 DEF TrailTypeOK
    <2>. QED
        BY <1>1, <2>2, <2>4, <2>5, <2>6, <2>7
<1>. QED
    BY <1>2, <1>3 DEF Damage

\* The other steps leave the logs alone.
LEMMA LogUntouched ==
    ASSUME TrailNext
    PROVE  \/ WriteLine \/ PowerLoss
           \/ \E s \in Streams, i \in 1..MaxRecords : Damage(s, i)
           \/ UNCHANGED <<log, damage>>
BY DEF TrailNext, Record, Take, SyncLine, RenameHead, SyncHead, HeadFails, WriteFails, SyncFails,
       Kill, BeginRead, EndRead, Open, OpenRefused, OpenCut, Close, files, counters

\* A trail is live because it was, or because it is opened.
LEMMA LiveBefore ==
    ASSUME TrailNext, Live'
    PROVE  Live \/ Open
BY DEF TrailNext, Record, Take, WriteLine, SyncLine, RenameHead, SyncHead, HeadFails, WriteFails,
       SyncFails, Kill, BeginRead, EndRead, OpenRefused, OpenCut, Close, PowerLoss, Damage, Gone, Live

\* Heads caught up at opening name the last lines of logs, and every log is named once
\* one was.
LEMMA CaughtUp ==
    ASSUME AuditAssumption, TrailTypeOK, NEW done \in SUBSET Sound, CatchUp(done)
    PROVE  /\ head' \in [Streams -> Heads \cup {None}] /\ kept' \in [Streams -> Heads \cup {None}]
           /\ named' \subseteq Streams
           /\ \A s \in Streams : log[s] # <<>> /\ s \in named => s \in named'
<1>1. \A s \in Streams : LastHead(log[s]) \in Heads \cup {None}
    BY LastHeadTyped DEF TrailTypeOK
<1>2. head' \in [Streams -> Heads \cup {None}]
    BY <1>1 DEF CatchUp, TrailTypeOK
<1>. QED
    BY <1>2 DEF CatchUp, TrailTypeOK

-----------------------------------------------------------------------------
(* Types                                                                   *)

\* An append that is reported frees the lock, and what is reported is an entry.
LEMMA AppendedTyped ==
    ASSUME TrailTypeOK, append # None, Appended
    PROVE  append' = None /\ appended' \subseteq Entries
BY DEF TrailTypeOK, Appended, Appends

\* What is waiting, appended or reported was handed over before.
LEMMA HandedStep ==
    ASSUME TrailTypeOK, Handed, TrailNext
    PROVE  Handed' /\ reported' \subseteq 1..given'
<1>0. given \in Nat
    BY DEF TrailTypeOK
<1>1. ASSUME NEW s \in Streams, NEW fits \in BOOLEAN, Record(s, fits)
      PROVE  Handed' /\ reported' \subseteq 1..given'
    BY SMTT(30), <1>0, <1>1 DEF Record, Handed, TrailTypeOK, history
<1>2. ASSUME NEW record \in queue, Take(record)
      PROVE  Handed' /\ reported' \subseteq 1..given'
    <2>1. Seal(heads[record.stream], record).record = record
        BY DEF Seal
    <2>2. append' # None => append'.entry = Seal(heads[record.stream], record)
        BY <1>2 DEF Take
    <2>. QED
        BY <1>2, <2>1, <2>2 DEF Take, Report, Handed, TrailTypeOK, counters
<1>3. CASE WriteLine \/ SyncLine \/ RenameHead
    <2>1. append'.entry = append.entry /\ append # None
        BY <1>3 DEF WriteLine, SyncLine, RenameHead, TrailTypeOK, Appends
    <2>. QED
        BY <1>3, <2>1 DEF WriteLine, SyncLine, RenameHead, Handed, TrailTypeOK, counters, history
<1>4. CASE SyncHead \/ HeadFails \/ \E part \in BOOLEAN : WriteFails(part) \/ SyncFails(part)
    BY <1>4 DEF SyncHead, HeadFails, WriteFails, SyncFails, FailAppend, Appended, Report, Handed,
                TrailTypeOK, counters
<1>5. CASE \/ EndRead \/ Open \/ OpenRefused \/ OpenCut \/ Close \/ PowerLoss
           \/ \E part \in BOOLEAN : Kill(part)
           \/ \E s \in Streams : BeginRead(s)
           \/ \E s \in Streams, i \in 1..MaxRecords : Damage(s, i)
    BY <1>5 DEF EndRead, Open, OpenRefused, OpenCut, Close, PowerLoss, Kill, Gone, BeginRead, Damage, Handed,
                TrailTypeOK, counters, history
<1>. QED
    BY <1>1, <1>2, <1>3, <1>4, <1>5 DEF TrailNext

\* More of a stream is synced, up to its end.
LEMMA SyncedTyped ==
    ASSUME TrailTypeOK, NEW s \in Streams,
           synced' = synced \/ synced' = [synced EXCEPT ![s] = Len(log[s])]
    PROVE  synced' \in [Streams -> Nat] /\ \A t \in Streams : synced'[t] <= Len(log[t])
<1>1. \A t \in Streams : Len(log[t]) \in Nat /\ synced[t] \in Nat /\ synced[t] <= Len(log[t])
    BY LenProperties DEF TrailTypeOK
<1>2. synced \in [Streams -> Nat]
    BY DEF TrailTypeOK
<1>3. CASE synced' = synced
    BY <1>1, <1>2, <1>3
<1>4. CASE synced' = [synced EXCEPT ![s] = Len(log[s])]
    <2>1. /\ synced' \in [Streams -> Nat] /\ synced'[s] = Len(log[s])
          /\ \A t \in Streams \ {s} : synced'[t] = synced[t]
        BY <1>1, <1>2, <1>4
    <2>. QED
        BY <1>1, <2>1
<1>. QED
    BY <1>3, <1>4

\* The types, through a write of the sealed line, a power loss and an edit.
LEMMA TypeStep ==
    ASSUME AuditAssumption, TrailTypeOK, Handed, AppendPlaced, TrailNext
    PROVE  TrailTypeOK'
<1>0. reported' \subseteq 1..given'
    BY HandedStep
<1>1. ASSUME NEW s \in Streams, NEW fits \in BOOLEAN, Record(s, fits)
      PROVE  TrailTypeOK'
    <2>1. [id |-> given + 1, stream |-> s, fits |-> fits] \in Records
        BY DEF TrailTypeOK, Records
    <2>2. queue' \subseteq Records /\ given' \in 0..MaxRecords
        BY <1>0, <1>1, <2>1 DEF TrailTypeOK, Record, AuditAssumption
    <2>. QED
        BY <1>0, <1>1, <2>2 DEF TrailTypeOK, Record, files, history
<1>2. ASSUME NEW record \in queue, Take(record)
      PROVE  TrailTypeOK'
    <2>1. record \in Records /\ record.stream \in Streams
        BY DEF TrailTypeOK, Records
    <2>2. heads[record.stream] \in Heads \cup {None}
        BY <2>1 DEF TrailTypeOK
    <2>3. Seal(heads[record.stream], record) \in Entries
        BY <2>1, <2>2, SealTyped
    <2>. DEFINE sealed == [entry |-> Seal(heads[record.stream], record), stream |-> record.stream,
                           step |-> "write", owner |-> owner,
                           created |-> Len(log[record.stream]) = 0]
    <2>a. sealed \in Appends
        BY <2>1, <2>3 DEF Appends, TrailTypeOK
    <2>b. append' = None \/ append' = sealed
        BY <1>2 DEF Take
    <2>4. append' \in Appends \cup {None}
        BY <2>a, <2>b
    <2>5. queue' \subseteq Records
        BY <1>2 DEF Take, TrailTypeOK
    <2>. QED
        BY <1>0, <1>2, <2>4, <2>5 DEF TrailTypeOK, Take, files, counters
<1>3. CASE WriteLine
    <2>1. /\ append.stream \in Streams /\ log' \in [Streams -> Seq(Entries)]
          /\ Len(log'[append.stream]) = Len(log[append.stream]) + 1
          /\ \A t \in Streams \ {append.stream} : log'[t] = log[t]
        BY <1>3, WrittenLine
    <2>2. \A t \in Streams : synced[t] <= Len(log'[t])
        <3>1. TAKE t \in Streams
        <3>2. synced[t] <= Len(log[t]) /\ synced[t] \in Nat /\ Len(log[t]) \in Nat
            BY LenProperties DEF TrailTypeOK
        <3>. QED
            BY <2>1, <3>2
    <2>3. append' \in Appends
        BY <1>3 DEF WriteLine, TrailTypeOK, Appends
    <2>. QED
        BY <1>0, <1>3, <2>1, <2>2, <2>3 DEF TrailTypeOK, WriteLine, counters, history
<1>4. CASE SyncLine \/ RenameHead
    <2>1. append \in Appends /\ append.stream \in Streams /\ append.entry \in Entries
        BY <1>4 DEF SyncLine, RenameHead, TrailTypeOK, Appends
    <2>2. HeadOf(append.entry) \in Heads /\ Len(log[append.stream]) \in Nat
        BY <2>1, LenProperties DEF HeadOf, Entries, Heads, TrailTypeOK
    <2>3. append' \in Appends
        BY <1>4, <2>1 DEF SyncLine, RenameHead, Appends
    <2>4. heads' \in [Streams -> Heads \cup {None}] /\ head' \in [Streams -> Heads \cup {None}]
        <3>1. heads \in [Streams -> Heads \cup {None}] /\ head \in [Streams -> Heads \cup {None}]
            BY DEF TrailTypeOK
        <3>2. /\ heads' \in {heads, [heads EXCEPT ![append.stream] = HeadOf(append.entry)]}
              /\ head' \in {head, [head EXCEPT ![append.stream] = HeadOf(append.entry)]}
            BY <1>4 DEF SyncLine, RenameHead
        <3>. QED
            BY <2>2, <3>1, <3>2
    <2>5. synced' \in [Streams -> Nat] /\ \A s \in Streams : synced'[s] <= Len(log[s])
        <3>1. synced' = synced \/ synced' = [synced EXCEPT ![append.stream] = Len(log[append.stream])]
            BY <1>4 DEF SyncLine, RenameHead
        <3>. QED
            BY <2>1, <3>1, SyncedTyped
    <2>6. named' \subseteq Streams
        BY <1>4, <2>1 DEF SyncLine, RenameHead, TrailTypeOK
    <2>. QED
        BY <1>0, <1>4, <2>3, <2>4, <2>5, <2>6 DEF TrailTypeOK, SyncLine, RenameHead, counters, history
<1>5. CASE SyncHead
    <2>1. append' = None /\ appended' \subseteq Entries
        BY <1>5, AppendedTyped DEF SyncHead
    <2>. QED
        BY <1>0, <1>5, <2>1 DEF TrailTypeOK, SyncHead, counters
<1>6. CASE HeadFails
    <2>1. append' = None /\ appended' \subseteq Entries
        BY <1>6, AppendedTyped DEF HeadFails
    <2>2. faults' \in 0..MaxFaults
        BY <1>6 DEF HeadFails, TrailTypeOK, AuditAssumption
    <2>. QED
        BY <1>0, <1>6, <2>1, <2>2 DEF TrailTypeOK, HeadFails, files
<1>7. ASSUME NEW part \in BOOLEAN, WriteFails(part) \/ SyncFails(part)
      PROVE  TrailTypeOK'
    <2>1. append.stream \in Streams /\ append' = None
        BY <1>7 DEF WriteFails, SyncFails, FailAppend, TrailTypeOK, Appends
    <2>2. faults' \in 0..MaxFaults
        BY <1>7 DEF WriteFails, SyncFails, TrailTypeOK, AuditAssumption
    <2>3. torn' \subseteq Streams /\ broken' \subseteq Streams
        BY <1>7, <2>1 DEF WriteFails, SyncFails, FailAppend, TrailTypeOK
    <2>4. synced' \in [Streams -> Nat] /\ \A s \in Streams : synced'[s] <= Len(log[s])
        <3>2. synced' = synced \/ synced' = [synced EXCEPT ![append.stream] = Len(log[append.stream])]
            BY <1>7 DEF WriteFails, SyncFails
        <3>. QED
            BY <2>1, <3>2, SyncedTyped
    <2>. QED
        BY <1>0, <1>7, <2>1, <2>2, <2>3, <2>4 DEF TrailTypeOK, WriteFails, SyncFails, FailAppend
<1>8. ASSUME NEW part \in BOOLEAN, Kill(part)
      PROVE  TrailTypeOK'
    <2>1. stops' \in 0..MaxStops
        BY <1>8 DEF Kill, TrailTypeOK, AuditAssumption
    <2>2. torn' \subseteq Streams
        BY <1>8 DEF Kill, TrailTypeOK, Appends
    <2>. QED
        BY <1>0, <1>8, <2>1, <2>2 DEF TrailTypeOK, Kill, Gone, history
<1>9. ASSUME NEW s \in Streams, BeginRead(s)
      PROVE  TrailTypeOK'
    <2>1. reading' \in Readings
        BY <1>9 DEF BeginRead, Readings, TrailTypeOK
    <2>. QED
        BY <1>0, <1>9, <2>1 DEF TrailTypeOK, BeginRead, files, counters, history
<1>10. CASE EndRead
    <2>1. lastRead' \in Verdicts
        BY <1>10, VerdictTyped DEF EndRead, Verdicts
    <2>. QED
        BY <1>0, <1>10, <2>1 DEF TrailTypeOK, EndRead, files, counters, history
<1>11. CASE Open
    <2>1. \A s \in Streams : LastHead(log[s]) \in Heads \cup {None}
        BY LastHeadTyped DEF TrailTypeOK
    <2>2. head' \in [Streams -> Heads \cup {None}]
        BY <1>11, <2>1 DEF Open
    <2>. QED
        BY <1>0, <1>11, <2>2 DEF TrailTypeOK, Open, counters, history
<1>12. CASE OpenRefused \/ OpenCut
    <2>1. stops' \in 0..MaxStops
        BY <1>12 DEF OpenRefused, OpenCut, TrailTypeOK, AuditAssumption, counters
    <2>2. PICK done \in SUBSET Sound : CatchUp(done)
        BY <1>12 DEF OpenRefused, OpenCut
    <2>3. /\ head' \in [Streams -> Heads \cup {None}] /\ kept' \in [Streams -> Heads \cup {None}]
          /\ named' \subseteq Streams
        BY <2>2, CaughtUp
    <2>. QED
        BY <1>0, <1>12, <2>1, <2>3 DEF TrailTypeOK, OpenRefused, OpenCut, Gone, counters, history
<1>13. CASE Close
    <2>1. stops' \in 0..MaxStops
        BY <1>13 DEF Close, TrailTypeOK, AuditAssumption
    <2>. QED
        BY <1>0, <1>13, <2>1 DEF TrailTypeOK, Close, files, history
<1>14. CASE PowerLoss
    <2>1. /\ log' \in [Streams -> Seq(Entries)] /\ synced' \in [Streams -> Nat]
          /\ \A s \in Streams : synced'[s] <= Len(log'[s])
          /\ named' \subseteq Streams
        BY <1>14, PowerCut
    <2>2. power' \in 0..MaxPower
        BY <1>14 DEF PowerLoss, TrailTypeOK, AuditAssumption
    <2>3. torn' \subseteq Streams
        BY <1>14 DEF PowerLoss
    <2>4. head' \in [Streams -> Heads \cup {None}] /\ kept' = head'
        BY <1>14 DEF PowerLoss, TrailTypeOK
    <2>. QED
        BY <1>0, <1>14, <2>1, <2>2, <2>3, <2>4 DEF TrailTypeOK, PowerLoss, Gone, history
<1>15. ASSUME NEW s \in Streams, NEW i \in 1..MaxRecords, Damage(s, i)
       PROVE  TrailTypeOK'
    <2>1. /\ log' \in [Streams -> Seq(Entries)] /\ synced' \in [Streams -> Nat]
          /\ synced'[s] <= Len(log'[s])
          /\ \A t \in Streams \ {s} : log'[t] = log[t] /\ synced'[t] = synced[t]
        BY <1>15, EditedLog
    <2>a. \A t \in Streams : synced'[t] <= Len(log'[t])
        <3>1. \A t \in Streams : synced[t] <= Len(log[t])
            BY DEF TrailTypeOK
        <3>. QED
            BY <2>1, <3>1
    <2>2. damage' \in 0..MaxDamage
        <3>1. damage < MaxDamage /\ damage' = damage + 1
            BY <1>15 DEF Damage
        <3>. QED
            BY <3>1 DEF TrailTypeOK, AuditAssumption
    <2>. QED
        BY <1>0, <1>15, <2>1, <2>a, <2>2 DEF TrailTypeOK, Damage, history
<1>. QED
    BY <1>1, <1>2, <1>3, <1>4, <1>5, <1>6, <1>7, <1>8, <1>9, <1>10, <1>11, <1>12, <1>13, <1>14,
       <1>15 DEF TrailNext

-----------------------------------------------------------------------------
(* Chains                                                                  *)

\* The first lines of a chain are one.
LEMMA PrefixChained ==
    ASSUME NEW s, NEW before \in Seq(Entries), NEW after \in Seq(Entries), Chained(s, before),
           Len(after) <= Len(before), \A i \in 1..Len(after) : after[i] = before[i]
    PROVE  Chained(s, after)
<1>1. SUFFICES ASSUME NEW i \in 1..Len(after)
               PROVE  Linked(s, after, i)
    BY DEF Chained
<1>2. Len(after) \in Nat /\ Len(before) \in Nat
    BY LenProperties
<1>3. after[i] = before[i] /\ (i # 1 => after[i - 1] = before[i - 1]) /\ Linked(s, before, i)
    BY <1>2 DEF Chained
<1>. QED
    BY <1>3 DEF Linked

\* A chain goes on with an entry sealed over its last.
LEMMA ChainGoesOn ==
    ASSUME AuditAssumption, TrailTypeOK, AppendPlaced, WriteLine,
           Chained(append.stream, log[append.stream])
    PROVE  Chained(append.stream, log'[append.stream])
<1>. DEFINE s == append.stream
            entry == append.entry
            n == Len(log[s])
            last == log[s][n]
<1>1. /\ s \in Streams /\ log'[s] \in Seq(Entries) /\ Len(log'[s]) = n + 1
      /\ \A i \in 1..n : log'[s][i] = log[s][i]
      /\ log'[s][n + 1] = entry
      /\ entry.record.stream = s /\ ExpectedHash(entry) = entry.hash
      /\ log[s] = <<>> => entry.sequence = 1 /\ entry.previous = Genesis
      /\ log[s] # <<>> => n \in Positive /\ entry.sequence = last.sequence + 1
                          /\ entry.previous = last.hash
    BY WrittenLine
<1>2. n \in Nat /\ (log[s] = <<>> <=> n = 0)
    BY <1>1, EmptySeq, LenProperties DEF TrailTypeOK
<1>3. SUFFICES ASSUME NEW i \in 1..n + 1
               PROVE  Linked(s, log'[s], i)
    BY <1>1 DEF Chained
<1>4. CASE i \in 1..n
    <2>0. i # 1 => i - 1 \in 1..n
        BY <1>2, <1>4
    <2>1. /\ log'[s][i] = log[s][i] /\ (i # 1 => log'[s][i - 1] = log[s][i - 1])
          /\ Linked(s, log[s], i)
        BY <1>1, <1>4, <2>0 DEF Chained
    <2>. QED
        BY <2>1 DEF Linked
<1>5. CASE i = n + 1 /\ n = 0
    BY <1>1, <1>2, <1>5 DEF Linked
<1>6. CASE i = n + 1 /\ n # 0
    <2>1. n \in 1..n /\ i - 1 = n /\ i # 1
        BY <1>2, <1>6
    <2>2. Linked(s, log[s], n) /\ log'[s][i - 1] = last
        BY <1>1, <2>1 DEF Chained
    <2>3. last.sequence = n
        BY <2>2 DEF Linked
    <2>4. entry.sequence = n + 1 /\ entry.previous = log'[s][i - 1].hash
        BY <1>1, <1>2, <1>6, <2>2, <2>3
    <2>. QED
        BY <1>1, <1>6, <2>1, <2>4 DEF Linked
<1>. QED
    BY <1>2, <1>4, <1>5, <1>6

\* A log stays a chain: a line is written only where it was sealed over the last one, a
\* power loss keeps a prefix, and an edited log is only opened once it verified.
LEMMA LogsChainStep ==
    ASSUME AuditAssumption, TrailTypeOK, LogsChain, AppendPlaced, TrailNext
    PROVE  LogsChain'
<1>1. SUFFICES ASSUME damage' = 0 \/ Live', NEW s \in Streams
               PROVE  Chained(s, log'[s])
    BY DEF LogsChain
<1>2. CASE WriteLine
    <2>1. Live
        BY <1>2 DEF AppendPlaced, WriteLine
    <2>2. /\ Chained(append.stream, log'[append.stream])
          /\ \A t \in Streams \ {append.stream} : log'[t] = log[t]
        <3>1. append.stream \in Streams
            BY <1>2, WrittenLine
        <3>2. Chained(append.stream, log[append.stream])
            BY <2>1, <3>1 DEF LogsChain
        <3>. QED
            BY <1>2, <3>2, ChainGoesOn, WrittenLine
    <2>. QED
        BY <2>1, <2>2 DEF LogsChain
<1>3. CASE PowerLoss
    <2>1. damage = 0 /\ Chained(s, log[s])
        BY <1>1, <1>3 DEF PowerLoss, Gone, Live, LogsChain
    <2>2. log'[s] \in Seq(Entries) /\ Len(log'[s]) <= Len(log[s])
          /\ \A i \in 1..Len(log'[s]) : log'[s][i] = log[s][i]
        BY <1>3, PowerCut
    <2>. QED
        BY <2>1, <2>2, PrefixChained DEF TrailTypeOK
<1>4. CASE \E t \in Streams, i \in 1..MaxRecords : Damage(t, i)
    <2>0. PICK t \in Streams, i \in 1..MaxRecords : Damage(t, i)
        BY <1>4
    <2>1. damage' = damage + 1 /\ trail' = trail /\ trail \in {"closed", "refused"}
        BY <2>0 DEF Damage
    <2>2. damage \in Nat
        BY DEF TrailTypeOK
    <2>. QED
        BY <1>1, <2>1, <2>2 DEF Live
<1>5. CASE UNCHANGED <<log, damage>> /\ (damage = 0 \/ Live)
    BY <1>5 DEF LogsChain
<1>6. CASE Open
    <2>1. log' = log
        BY <1>6 DEF Open
    <2>2. CASE s \in Stored
        <3>1. Verify(s, log[s], head[s]) = "ok"
            BY <1>6, <2>2 DEF Open, ReadStream
        <3>. QED
            BY <2>1, <3>1, VerifiedChains DEF TrailTypeOK
    <2>3. CASE s \notin Stored
        <3>1. log[s] = <<>>
            BY <2>3 DEF Stored
        <3>2. Len(log'[s]) = 0
            BY <2>1, <3>1
        <3>. QED
            BY <3>2 DEF Chained
    <2>. QED
        BY <2>2, <2>3
<1>. QED
    BY <1>1, <1>2, <1>3, <1>4, <1>5, <1>6, LogUntouched, LiveBefore

-----------------------------------------------------------------------------
(* Lines                                                                   *)

\* A line is sealed over those before its own.
LEMMA LineFollows ==
    ASSUME AuditAssumption, TrailTypeOK, LinesFollow, AppendPlaced, WriteLine
    PROVE  LET s == append.stream IN
           /\ Sealed(append.entry)
           /\ Follows(append.entry, append.entry)
           /\ \A i \in 1..Len(log[s]) : Follows(append.entry, log[s][i])
<1>. DEFINE s == append.stream
            entry == append.entry
            n == Len(log[s])
            last == log[s][n]
<1>1. /\ s \in Streams /\ entry \in Entries /\ entry.record.fits
      /\ log[s] = <<>> => entry.sequence = 1 /\ Len(entry.hash) = 1
      /\ log[s] # <<>> => /\ last \in Entries /\ n \in Positive
                          /\ entry.sequence = last.sequence + 1
                          /\ Len(entry.hash) = Len(last.hash) + 1
                          /\ entry.hash = Append(last.hash, entry.record.id)
    BY WrittenLine
<1>2. log[s] \in Seq(Entries) /\ n \in Nat /\ (log[s] = <<>> <=> n = 0)
    BY <1>1, EmptySeq, LenProperties DEF TrailTypeOK
<1>3. log[s] # <<>> => n \in 1..n /\ Sealed(last)
    BY <1>1, <1>2 DEF LinesFollow, Positive
<1>4. Sealed(entry)
    BY <1>1, <1>3 DEF Sealed
<1>5. entry.hash \in Seq(Nat) /\ entry.sequence \in Nat /\ entry.record.id \in Nat
    BY <1>1 DEF Entries, Hashes, Positive, Records
<1>6. Follows(entry, entry)
    BY <1>4, <1>5, SubSeqFull DEF Sealed, Follows
<1>7. ASSUME NEW i \in 1..n
      PROVE  Follows(entry, log[s][i])
    <2>1. log[s] # <<>> /\ n \in 1..n /\ i <= n
        BY <1>2, <1>7
    <2>2. Follows(last, log[s][i]) /\ Sealed(last) /\ log[s][i] \in Entries
        BY <1>1, <1>2, <2>1, ElementOfSeq DEF LinesFollow
    <2>3. last.hash \in Seq(Nat) /\ last.sequence \in Nat /\ log[s][i].sequence \in Nat
        BY <1>1, <2>1, <2>2 DEF Entries, Hashes, Positive
    <2>4. log[s][i].sequence \in 0..Len(last.hash)
        BY <2>2, <2>3 DEF Follows, Sealed
    <2>a. entry.hash = Append(last.hash, entry.record.id)
        BY <1>1, <2>1
    <2>b. SubSeq(Append(last.hash, entry.record.id), 1, log[s][i].sequence)
              = SubSeq(last.hash, 1, log[s][i].sequence)
        BY <1>5, <2>3, <2>4, PrefixOfAppend
    <2>5. SubSeq(entry.hash, 1, log[s][i].sequence) = SubSeq(last.hash, 1, log[s][i].sequence)
        BY <2>a, <2>b
    <2>6. log[s][i].sequence <= entry.sequence
        <3>1. entry.sequence = last.sequence + 1 /\ log[s][i].sequence <= last.sequence
            BY <1>1, <2>1, <2>2 DEF Follows
        <3>. QED
            BY <2>3, <3>1
    <2>7. log[s][i].hash = SubSeq(entry.hash, 1, log[s][i].sequence)
        BY <2>2, <2>5 DEF Follows
    <2>. QED
        BY <2>6, <2>7 DEF Follows
<1>. QED
    BY <1>4, <1>6, <1>7

\* The lines left after an edit still follow one another; a verified log is what is
\* written to again.
LEMMA LinesFollowStep ==
    ASSUME AuditAssumption, TrailTypeOK, LinesFollow, AppendPlaced, TrailNext
    PROVE  LinesFollow'
<1>0. \A s \in Streams : Len(log[s]) \in Nat /\ log[s] \in Seq(Entries)
    BY LenProperties DEF TrailTypeOK
<1>1. SUFFICES ASSUME NEW s \in Streams
               PROVE  /\ \A i \in 1..Len(log'[s]) : Sealed(log'[s][i])
                      /\ \A i, j \in 1..Len(log'[s]) : i <= j => Follows(log'[s][j], log'[s][i])
    BY DEF LinesFollow
<1>2. /\ \A i \in 1..Len(log[s]) : Sealed(log[s][i])
      /\ \A i, j \in 1..Len(log[s]) : i <= j => Follows(log[s][j], log[s][i])
    BY DEF LinesFollow
<1>3. CASE log'[s] = log[s]
    BY <1>2, <1>3
<1>4. CASE WriteLine
    <2>1. CASE s = append.stream
        <3>. DEFINE n == Len(log[s])
        <3>1. /\ Len(log'[s]) = n + 1 /\ log'[s][n + 1] = append.entry
              /\ \A i \in 1..n : log'[s][i] = log[s][i]
            BY <1>4, <2>1, WrittenLine
        <3>2. /\ Sealed(append.entry) /\ Follows(append.entry, append.entry)
              /\ \A i \in 1..n : Follows(append.entry, log[s][i])
            BY <1>4, <2>1, LineFollows
        <3>3. n \in Nat
            BY <1>0
        <3>. HIDE DEF n
        <3>4. \A i \in 1..n + 1 : Sealed(log'[s][i])
            BY <1>2, <3>1, <3>2, <3>3 DEF n
        <3>5. ASSUME NEW i \in 1..n + 1, NEW j \in 1..n + 1, i <= j
              PROVE  Follows(log'[s][j], log'[s][i])
            <4>1. CASE j = n + 1 /\ i = n + 1
                BY <3>1, <3>2, <4>1
            <4>2. CASE j = n + 1 /\ i # n + 1
                BY <3>1, <3>2, <3>3, <4>2
            <4>3. CASE j # n + 1
                <5>1. i \in 1..n /\ j \in 1..n
                    BY <3>3, <3>5, <4>3
                <5>. QED
                    BY <1>2, <3>1, <3>5, <5>1 DEF n
            <4>. QED
                BY <4>1, <4>2, <4>3
        <3>. QED
            BY <3>1, <3>4, <3>5
    <2>2. CASE s # append.stream
        BY <1>3, <1>4, <2>2, WrittenLine
    <2>. QED
        BY <2>1, <2>2
<1>5. CASE PowerLoss
    <2>1. Len(log'[s]) <= Len(log[s]) /\ Len(log'[s]) \in Nat
          /\ \A i \in 1..Len(log'[s]) : log'[s][i] = log[s][i]
        BY <1>5, PowerCut
    <2>. QED
        BY SMTT(30), <1>0, <1>2, <2>1
<1>6. ASSUME NEW t \in Streams, NEW k \in 1..MaxRecords, Damage(t, k)
      PROVE  /\ \A i \in 1..Len(log'[s]) : Sealed(log'[s][i])
             /\ \A i, j \in 1..Len(log'[s]) : i <= j => Follows(log'[s][j], log'[s][i])
    <2>1. CASE s # t
        BY <1>3, <1>6, <2>1, EditedLog
    <2>2. CASE /\ s = t /\ Len(log'[s]) = Len(log[s]) - 1
               /\ \A j \in 1..Len(log'[s]) :
                       log'[s][j] = IF j < k THEN log[s][j] ELSE log[s][j + 1]
        <3>. DEFINE at(j) == IF j < k THEN j ELSE j + 1
        <3>1. \A j \in 1..Len(log[s]) - 1 : at(j) \in 1..Len(log[s]) /\ log'[s][j] = log[s][at(j)]
            BY <1>0, <2>2
        <3>2. \A i, j \in 1..Len(log[s]) - 1 : i <= j => at(i) <= at(j)
            BY <1>0
        <3>. HIDE DEF at
        <3>3. \A j \in 1..Len(log'[s]) : Sealed(log'[s][j])
            BY <1>2, <2>2, <3>1
        <3>4. ASSUME NEW i \in 1..Len(log'[s]), NEW j \in 1..Len(log'[s]), i <= j
              PROVE  Follows(log'[s][j], log'[s][i])
            <4>1. i \in 1..Len(log[s]) - 1 /\ j \in 1..Len(log[s]) - 1
                BY <2>2, <3>4
            <4>2. /\ log'[s][i] = log[s][at(i)] /\ log'[s][j] = log[s][at(j)]
                  /\ at(i) \in 1..Len(log[s]) /\ at(j) \in 1..Len(log[s]) /\ at(i) <= at(j)
                BY <3>1, <3>2, <3>4, <4>1
            <4>3. Follows(log[s][at(j)], log[s][at(i)])
                BY <1>2, <4>2
            <4>. QED
                BY <4>2, <4>3
        <3>. QED
            BY <3>3, <3>4
    <2>3. CASE /\ s = t /\ Len(log'[s]) = Len(log[s])
               /\ \A j \in 1..Len(log'[s]) :
                       /\ log'[s][j].sequence = log[s][j].sequence
                       /\ log'[s][j].hash = log[s][j].hash
                       /\ log'[s][j].record.fits = log[s][j].record.fits
        <3>1. \A j \in 1..Len(log'[s]) : Sealed(log'[s][j])
            BY <1>2, <2>3 DEF Sealed
        <3>2. ASSUME NEW i \in 1..Len(log'[s]), NEW j \in 1..Len(log'[s]), i <= j
              PROVE  Follows(log'[s][j], log'[s][i])
            <4>1. /\ i \in 1..Len(log[s]) /\ j \in 1..Len(log[s])
                  /\ Follows(log[s][j], log[s][i])
                BY <1>2, <2>3, <3>2
            <4>. QED
                BY <2>3, <4>1 DEF Follows
        <3>. QED
            BY <3>1, <3>2
    <2>. QED
        BY <1>6, <2>1, <2>2, <2>3, EditedLog
<1>. QED
    BY <1>3, <1>4, <1>5, <1>6, LogUntouched

-----------------------------------------------------------------------------
(* Memory and the append under way                                         *)

\* An append whose line is durable: the entry is the last of its stream.
LEMMA EntryDurable ==
    ASSUME TrailTypeOK, LogsChain, AppendPlaced, append # None, append.step \in {"head", "headSync"}
    PROVE  LET s == append.stream
               entry == append.entry
           IN  /\ s \in Streams /\ s \in named /\ entry.record.stream = s
               /\ entry \in Entries /\ entry.sequence = Len(log[s]) /\ synced[s] = Len(log[s])
               /\ Len(log[s]) \in 1..Len(log[s]) /\ log[s][entry.sequence] = entry
               /\ ExpectedHash(entry) = entry.hash
<1>. DEFINE s == append.stream
            entry == append.entry
<1>1. append \in Appends /\ append.step # "write"
    BY DEF TrailTypeOK
<1>2. s \in Streams /\ entry \in Entries
    BY <1>1 DEF Appends
<1>3. /\ Live /\ s \in named /\ entry.record.stream = s /\ synced[s] = Len(log[s])
      /\ log[s] # <<>> /\ log[s][Len(log[s])] = entry
    BY <1>1 DEF AppendPlaced
<1>4. log[s] \in Seq(Entries) /\ Len(log[s]) \in 1..Len(log[s])
    BY <1>2, <1>3, EmptySeq, LenProperties DEF TrailTypeOK
<1>5. Linked(s, log[s], Len(log[s]))
    BY <1>2, <1>3, <1>4 DEF LogsChain, Chained
<1>6. entry.sequence = Len(log[s]) /\ ExpectedHash(entry) = entry.hash
    BY <1>3, <1>5 DEF Linked
<1>. QED
    BY <1>2, <1>3, <1>4, <1>6

\* An entry is reported once its line was written, so it was sealed.
LEMMA AppendedSealedStep ==
    ASSUME TrailTypeOK, LogsChain, LinesFollow, AppendedSealed, AppendPlaced, TrailNext
    PROVE  AppendedSealed'
<1>1. CASE SyncHead \/ HeadFails
    <2>1. append # None /\ append.step \in {"head", "headSync"}
          /\ appended' = appended \cup {append.entry}
        BY <1>1 DEF SyncHead, HeadFails, Appended
    <2>2. Sealed(append.entry) /\ ExpectedHash(append.entry) = append.entry.hash
        BY <2>1, EntryDurable DEF LinesFollow
    <2>. QED
        BY <2>1, <2>2 DEF AppendedSealed
<1>2. CASE UNCHANGED appended
    BY <1>2 DEF AppendedSealed
<1>. QED
    BY <1>1, <1>2 DEF TrailNext, Record, Take, WriteLine, SyncLine, RenameHead, WriteFails, SyncFails,
       FailAppend, Kill, BeginRead, EndRead, Open, OpenRefused, OpenCut, Close, PowerLoss, Damage, history

\* A stream whose line was written and synced is where its log is.
LEMMA SyncedLine ==
    ASSUME AuditAssumption, TrailTypeOK, AppendPlaced, SyncLine
    PROVE  LET s == append.stream IN
           /\ s \in Streams /\ append # None /\ append.step = "sync" /\ append'.stream = s
           /\ append'.step = "head" /\ append'.entry = append.entry /\ append'.owner = append.owner
           /\ heads'[s] = LastHead(log[s]) /\ s \in named' /\ synced'[s] = Len(log[s])
           /\ \A t \in Streams \ {s} : heads'[t] = heads[t] /\ synced'[t] = synced[t]
           /\ named \subseteq named' /\ log[s] # <<>> /\ log[s][Len(log[s])] = append.entry
<1>. DEFINE s == append.stream
<1>1. append \in Appends /\ append # None /\ append.step = "sync"
    BY DEF TrailTypeOK, SyncLine
<1>2. /\ append.owner = owner /\ log[s] # <<>> /\ log[s][Len(log[s])] = append.entry
      /\ append.created \/ s \in named
    BY <1>1 DEF AppendPlaced
<1>3. s \in Streams
    BY <1>1 DEF Appends
<1>4. heads' = [heads EXCEPT ![s] = HeadOf(append.entry)]
    BY <1>2 DEF SyncLine
<1>5. heads'[s] = LastHead(log[s]) /\ \A t \in Streams \ {s} : heads'[t] = heads[t]
    BY <1>2, <1>3, <1>4 DEF TrailTypeOK, LastHead
<1>6. synced'[s] = Len(log[s]) /\ \A t \in Streams \ {s} : synced'[t] = synced[t]
    BY <1>3 DEF SyncLine, TrailTypeOK
<1>7. s \in named' /\ named \subseteq named'
    BY <1>2 DEF SyncLine
<1>8. append'.stream = s /\ append'.step = "head" /\ append'.entry = append.entry
      /\ append'.owner = append.owner
    BY <1>1 DEF SyncLine, Appends
<1>. QED
    BY <1>1, <1>2, <1>3, <1>5, <1>6, <1>7, <1>8

\* Memory follows the files: it moves only after the sync, and is dropped or read back
\* whenever the files may have moved without it.
LEMMA MemoryStep ==
    ASSUME AuditAssumption, TrailTypeOK, MemoryFollows, AppendPlaced, TrailNext
    PROVE  MemoryFollows'
<1>1. SUFFICES ASSUME Live', NEW s \in Streams, s \notin broken'
               PROVE  /\ s \notin torn'
                      /\ ~Syncing(s)' => /\ heads'[s] = LastHead(log'[s])
                                         /\ log'[s] # <<>> => s \in named'
    BY DEF MemoryFollows
<1>2. CASE Open
    <2>1. s \notin torn
        BY <1>2 DEF Open, Stored, ReadStream
    <2>. QED
        BY <1>2, <2>1 DEF Open
<1>3. ASSUME Live, s \notin broken
      PROVE  /\ s \notin torn
             /\ ~Syncing(s) => heads[s] = LastHead(log[s]) /\ (log[s] # <<>> => s \in named)
    BY <1>3 DEF MemoryFollows
<1>4. ASSUME NEW record \in queue, Take(record)
      PROVE  /\ s \notin torn'
             /\ heads'[s] = LastHead(log'[s]) /\ (log'[s] # <<>> => s \in named')
    <2>1. Live /\ s \notin broken /\ ~Syncing(s)
        BY <1>1, <1>4 DEF Take, Live, Syncing
    <2>. QED
        BY <1>3, <1>4, <2>1 DEF Take, files
<1>5. CASE WriteLine
    <2>1. Live /\ s \notin broken /\ append # None /\ append.step = "write" /\ torn' = torn
        BY <1>1, <1>5 DEF WriteLine, Live
    <2>2. CASE s = append.stream
        <3>1. append' = [append EXCEPT !.step = "sync"] /\ append \in Appends
            BY <1>5, <2>1 DEF WriteLine, TrailTypeOK
        <3>2. append' \in Appends /\ append'.stream = s /\ append'.step = "sync"
            BY <2>2, <3>1 DEF Appends
        <3>3. append' # None
            BY <2>1, <3>1 DEF Appends, AuditAssumption
        <3>. QED
            BY <1>3, <2>1, <3>2, <3>3 DEF Syncing
    <2>3. CASE s # append.stream
        <3>1. log'[s] = log[s] /\ ~Syncing(s)
            BY <1>5, <2>3, WrittenLine DEF Syncing
        <3>. QED
            BY <1>3, <1>5, <2>1, <3>1 DEF WriteLine
    <2>. QED
        BY <2>2, <2>3
<1>6. CASE SyncLine
    <2>1. Live /\ s \notin broken /\ torn' = torn /\ log' = log
        BY <1>1, <1>6 DEF SyncLine, Live
    <2>2. CASE s = append.stream
        BY <1>3, <1>6, <2>1, <2>2, SyncedLine
    <2>3. CASE s # append.stream
        <3>1. ~Syncing(s) /\ heads'[s] = heads[s] /\ named \subseteq named'
            BY <1>6, <2>3, SyncedLine DEF Syncing
        <3>. QED
            BY <1>3, <2>1, <3>1
    <2>. QED
        BY <2>2, <2>3
<1>7. CASE RenameHead \/ HeadFails \/ SyncHead
    <2>1. Live /\ s \notin broken /\ torn' = torn /\ log' = log /\ heads' = heads /\ ~Syncing(s)
        BY <1>1, <1>7 DEF RenameHead, HeadFails, SyncHead, Live, Syncing, files
    <2>2. log[s] # <<>> /\ s \in named => s \in named'
        BY <1>7 DEF RenameHead, HeadFails, SyncHead, files
    <2>. QED
        BY <1>3, <2>1, <2>2
<1>8. ASSUME NEW part \in BOOLEAN, WriteFails(part) \/ SyncFails(part)
      PROVE  /\ s \notin torn'
             /\ heads'[s] = LastHead(log'[s]) /\ (log'[s] # <<>> => s \in named')
    <2>1. Live /\ s \notin broken /\ s # append.stream /\ log' = log /\ heads' = heads
          /\ named' = named /\ ~Syncing(s)
        BY <1>1, <1>8 DEF WriteFails, SyncFails, FailAppend, Live, Syncing
    <2>2. s \in torn' => s \in torn
        BY <1>8, <2>1 DEF WriteFails, SyncFails
    <2>. QED
        BY <1>3, <2>1, <2>2
<1>9. CASE \/ \E t \in Streams, fits \in BOOLEAN : Record(t, fits)
           \/ \E t \in Streams : BeginRead(t)
           \/ EndRead \/ Close
    <2>1. Live /\ UNCHANGED <<log, torn, named, heads, broken, append>>
        BY <1>1, <1>9 DEF Record, BeginRead, EndRead, Close, Live, files
    <2>. QED
        BY <1>1, <1>3, <2>1 DEF Syncing
<1>10. CASE \/ OpenRefused \/ OpenCut \/ PowerLoss \/ \E part \in BOOLEAN : Kill(part)
            \/ \E t \in Streams, i \in 1..MaxRecords : Damage(t, i)
    BY <1>1, <1>10 DEF OpenRefused, OpenCut, PowerLoss, Kill, Gone, Damage, Live
<1>. QED
    BY <1>2, <1>4, <1>5, <1>6, <1>7, <1>8, <1>9, <1>10 DEF TrailNext

\* The trail is opened, or refused, only when no append is under way.
LEMMA OpensIdle ==
    ASSUME AppendPlaced, LockFree
    PROVE  append = None
BY DEF AppendPlaced, LockFree, Live

\* The append under way, step by step.
LEMMA AppendPlacedStep ==
    ASSUME AuditAssumption, TrailTypeOK, MemoryFollows, AppendPlaced, TrailNext
    PROVE  AppendPlaced'
<1>1. ASSUME NEW record \in queue, Take(record), append' # None
      PROVE  AppendPlaced'
    <2>. DEFINE s == record.stream
    <2>1. /\ append = None /\ Live /\ Live' /\ s \notin broken /\ broken' = broken
          /\ record.fits /\ owner' = owner /\ log' = log
          /\ append' = [entry |-> Seal(heads[s], record), stream |-> s, step |-> "write",
                        owner |-> owner, created |-> Len(log[s]) = 0]
        BY <1>1 DEF Take, Live, Encodes, files
    <2>2. s \in Streams
        BY DEF TrailTypeOK, Records
    <2>3. heads[s] = LastHead(log[s])
        BY <2>1, <2>2 DEF MemoryFollows, Syncing
    <2>4. Seal(heads[s], record).record = record
        BY DEF Seal
    <2>5. (Len(log[s]) = 0) = (log[s] = <<>>)
        BY <2>2, EmptySeq, LenProperties DEF TrailTypeOK
    <2>. QED
        BY <2>1, <2>3, <2>4, <2>5 DEF AppendPlaced
<1>2. CASE WriteLine
    <2>. DEFINE s == append.stream
    <2>1. append \in Appends /\ append # None /\ append.step = "write"
        BY <1>2 DEF WriteLine, TrailTypeOK
    <2>2. /\ append'.stream = s /\ append'.entry = append.entry /\ append'.step = "sync"
          /\ append'.owner = append.owner /\ append'.created = append.created
        BY <1>2, <2>1 DEF WriteLine, Appends
    <2>3. /\ Live /\ append.owner = owner /\ s \notin broken /\ append.entry.record.stream = s
          /\ append.entry.record.fits /\ append.created = (log[s] = <<>>)
        BY <2>1 DEF AppendPlaced
    <2>4. s \in Streams /\ log'[s] # <<>> /\ log'[s][Len(log'[s])] = append.entry
        BY <1>2, WrittenLine
    <2>5. append.created \/ s \in named
        BY <2>1, <2>3, <2>4 DEF MemoryFollows, Syncing
    <2>6. UNCHANGED <<trail, owner, broken, named, synced>>
        BY <1>2 DEF WriteLine
    <2>. QED
        BY <2>2, <2>3, <2>4, <2>5, <2>6 DEF AppendPlaced, Live
<1>3. CASE SyncLine
    <2>1. /\ append # None /\ append.stream \notin broken /\ append.owner = owner /\ Live
          /\ append.entry.record.stream = append.stream /\ append.entry.record.fits
        BY <1>3 DEF SyncLine, AppendPlaced
    <2>2. UNCHANGED <<trail, owner, broken, log>>
        BY <1>3 DEF SyncLine
    <2>. QED
        BY <1>3, <2>1, <2>2, SyncedLine DEF AppendPlaced, Live
<1>4. CASE RenameHead
    <2>1. append \in Appends /\ append # None /\ append.step = "head"
        BY <1>4 DEF RenameHead, TrailTypeOK
    <2>2. /\ append'.stream = append.stream /\ append'.entry = append.entry
          /\ append'.step = "headSync" /\ append'.owner = append.owner
        BY <1>4, <2>1 DEF RenameHead, Appends
    <2>3. UNCHANGED <<trail, owner, broken, log, named, synced>>
        BY <1>4 DEF RenameHead
    <2>. QED
        BY <2>1, <2>2, <2>3 DEF AppendPlaced, Live
<1>5. CASE append' = None
    BY <1>5 DEF AppendPlaced
<1>6. CASE Open \/ OpenRefused
    BY <1>5, <1>6, OpensIdle DEF Open, OpenRefused
<1>7. CASE \/ \E t \in Streams, fits \in BOOLEAN : Record(t, fits)
           \/ \E t \in Streams : BeginRead(t)
           \/ EndRead
    BY <1>7 DEF Record, BeginRead, EndRead, AppendPlaced, Live, files
<1>8. CASE Close
    BY <1>8 DEF Close, AppendPlaced, Live, files
<1>9. CASE \E t \in Streams, i \in 1..MaxRecords : Damage(t, i)
    <2>1. append = None /\ append' = append
        BY <1>9 DEF Damage, AppendPlaced, Live
    <2>. QED
        BY <1>5, <2>1
<1>10. CASE \/ SyncHead \/ HeadFails \/ PowerLoss \/ OpenCut
            \/ \E part \in BOOLEAN : WriteFails(part) \/ SyncFails(part) \/ Kill(part)
    BY <1>5, <1>10 DEF SyncHead, HeadFails, PowerLoss, OpenCut, WriteFails, SyncFails, Kill, Gone,
                       Appended, FailAppend
<1>. QED
    BY <1>1, <1>2, <1>3, <1>4, <1>5, <1>6, <1>7, <1>8, <1>9, <1>10 DEF TrailNext

-----------------------------------------------------------------------------
(* What is kept                                                            *)

\* What is reported was synced under a durable name, and nothing but an edit shortens a
\* log below what is synced.
LEMMA DurableStep ==
    ASSUME AuditAssumption, TrailTypeOK, LogsChain, AppendPlaced, AppendedIsDurable, TrailNext
    PROVE  AppendedIsDurable'
<1>1. SUFFICES ASSUME damage' = 0, NEW entry \in appended'
               PROVE  LET s == entry.record.stream IN
                      /\ s \in named' /\ entry.sequence <= synced'[s]
                      /\ log'[s][entry.sequence] = entry
    BY DEF AppendedIsDurable
<1>. DEFINE s == entry.record.stream
<1>2. CASE \E t \in Streams, i \in 1..MaxRecords : Damage(t, i)
    <2>1. damage' = damage + 1 /\ damage \in Nat
        BY <1>2 DEF Damage, TrailTypeOK
    <2>. QED
        BY <1>1, <2>1
<1>3. CASE damage = 0 /\ entry \in appended
    <2>1. /\ entry \in Entries /\ s \in Streams /\ entry.sequence \in Positive
          /\ s \in named /\ entry.sequence <= synced[s] /\ log[s][entry.sequence] = entry
        BY <1>3 DEF AppendedIsDurable, TrailTypeOK, Entries, Records
    <2>2. /\ synced[s] \in Nat /\ synced[s] <= Len(log[s]) /\ Len(log[s]) \in Nat
          /\ entry.sequence \in 1..Len(log[s]) /\ log[s] # <<>>
        BY <2>1, EmptySeq, LenProperties DEF TrailTypeOK, Positive
    <2>3. CASE WriteLine
        <3>1. log'[s][entry.sequence] = log[s][entry.sequence]
            BY <2>1, <2>2, <2>3, WrittenLine
        <3>. QED
            BY <2>1, <2>3, <3>1 DEF WriteLine
    <2>4. CASE SyncLine
        <3>1. log' = log
            BY <2>4 DEF SyncLine
        <3>. QED
            BY <2>1, <2>2, <2>4, <3>1, SyncedLine
    <2>5. ASSUME NEW part \in BOOLEAN, SyncFails(part)
          PROVE  /\ s \in named' /\ entry.sequence <= synced'[s]
                 /\ log'[s][entry.sequence] = entry
        <3>1. append.stream \in Streams /\ log' = log /\ named' = named
            BY <2>5 DEF SyncFails, TrailTypeOK, Appends
        <3>2. synced' = synced \/ synced' = [synced EXCEPT ![append.stream] = Len(log[append.stream])]
            BY <2>5 DEF SyncFails
        <3>3. synced'[s] = synced[s] \/ synced'[s] = Len(log[s])
            BY <2>1, <3>1, <3>2 DEF TrailTypeOK
        <3>. QED
            BY <2>1, <2>2, <3>1, <3>3
    <2>6. CASE SyncHead \/ Open
        BY <2>1, <2>2, <2>6 DEF SyncHead, Open
    <2>7. CASE PowerLoss
        <3>1. PICK left \in [Streams -> Nat] :
                  /\ synced' = left /\ named' = {t \in Streams : left[t] > 0}
                  /\ left[s] >= synced[s] \/ (s \notin named /\ left[s] = 0)
                  /\ \A i \in 1..left[s] : log'[s][i] = log[s][i]
            BY <2>1, <2>7, PowerCut
        <3>2. left[s] \in Nat /\ left[s] >= synced[s] /\ entry.sequence \in 1..left[s]
            BY <2>1, <2>2, <3>1 DEF Positive
        <3>. QED
            BY <2>1, <3>1, <3>2
    <2>8. CASE UNCHANGED <<log, synced, named>>
        BY <2>1, <2>8
    <2>9. CASE OpenRefused \/ OpenCut
        BY <2>1, <2>2, <2>9, CaughtUp DEF OpenRefused, OpenCut
    <2>. QED
        BY <1>2, <2>3, <2>4, <2>5, <2>6, <2>7, <2>8, <2>9 DEF TrailNext, Record, Take, RenameHead,
           HeadFails, WriteFails, Kill, BeginRead, EndRead, Close, files
<1>4. CASE entry \notin appended
    <2>1. (SyncHead \/ HeadFails) /\ entry = append.entry
        BY <1>1, <1>4 DEF TrailNext, Record, Take, WriteLine, SyncLine, RenameHead, SyncHead, HeadFails,
           Appended, WriteFails, SyncFails, FailAppend, Kill, BeginRead, EndRead, Open, OpenRefused,
           OpenCut, Close, PowerLoss, Damage, history
    <2>2. /\ append # None /\ append.step \in {"head", "headSync"} /\ log' = log /\ synced' = synced
          /\ log[s] # <<>> /\ s \in Streams /\ s \in named => s \in named'
        BY <2>1 DEF SyncHead, HeadFails, files
    <2>3. /\ s \in Streams /\ s \in named /\ entry.sequence = Len(log[s]) /\ synced[s] = Len(log[s])
          /\ Len(log[s]) \in 1..Len(log[s]) /\ log[s][entry.sequence] = entry
        BY <2>1, <2>2, EntryDurable
    <2>4. log[s] # <<>>
        BY <2>3, EmptySeq
    <2>. QED
        BY <2>2, <2>3, <2>4
<1>5. damage' = damage \/ \E t \in Streams, i \in 1..MaxRecords : Damage(t, i)
    BY DEF TrailNext, Record, Take, WriteLine, SyncLine, RenameHead, SyncHead, HeadFails, WriteFails,
       SyncFails, Kill, BeginRead, EndRead, Open, OpenRefused, OpenCut, Close, PowerLoss, counters
<1>. QED
    BY <1>1, <1>2, <1>3, <1>4, <1>5

\* Without a power loss a head names a line that was written before it.
LEMMA HeadsStep ==
    ASSUME AuditAssumption, TrailTypeOK, LogsChain, AppendPlaced, StopsDoNotRefuse, TrailNext
    PROVE  StopsDoNotRefuse'
<1>1. SUFFICES ASSUME damage' = 0, power' = 0, NEW s \in Streams, s \notin torn', head'[s] # None
               PROVE  /\ head'[s].sequence <= Len(log'[s])
                      /\ log'[s][head'[s].sequence].hash = head'[s].hash
    BY DEF StopsDoNotRefuse
<1>2. CASE PowerLoss \/ \E t \in Streams, i \in 1..MaxRecords : Damage(t, i)
    <2>1. damage' = damage + 1 \/ power' = power + 1
        BY <1>2 DEF PowerLoss, Damage
    <2>. QED
        BY <1>1, <2>1 DEF TrailTypeOK
<1>3. CASE RenameHead
    <2>1. append # None /\ append.step = "head" /\ log' = log /\ torn' = torn /\ damage' = damage
          /\ power' = power /\ head' = [head EXCEPT ![append.stream] = HeadOf(append.entry)]
        BY <1>3 DEF RenameHead, counters
    <2>2. CASE s = append.stream
        <3>1. /\ append.entry.sequence = Len(log[s]) /\ Len(log[s]) \in Nat
              /\ log[s][append.entry.sequence] = append.entry
            BY <2>1, <2>2, EntryDurable, LenProperties DEF TrailTypeOK
        <3>2. head'[s] = HeadOf(append.entry)
            BY <2>1, <2>2 DEF TrailTypeOK
        <3>. QED
            BY <2>1, <3>1, <3>2 DEF HeadOf
    <2>3. CASE s # append.stream
        <3>1. head'[s] = head[s]
            BY <2>1, <2>3 DEF TrailTypeOK
        <3>. QED
            BY <1>1, <2>1, <3>1 DEF StopsDoNotRefuse
    <2>. QED
        BY <2>2, <2>3
<1>4. CASE Open
    <2>1. head'[s] = LastHead(log[s]) /\ log' = log /\ damage' = damage
        BY <1>4 DEF Open, counters
    <2>2. log[s] \in Seq(Entries)
        BY DEF TrailTypeOK
    <2>3. /\ log[s] # <<>> /\ Len(log[s]) \in Positive
          /\ LastHead(log[s]) = HeadOf(log[s][Len(log[s])])
        BY <1>1, <2>1, <2>2, LastHeadTyped
    <2>4. Linked(s, log[s], Len(log[s]))
        BY <1>1, <2>1, <2>3 DEF LogsChain, Chained, Positive
    <2>. QED
        BY <2>1, <2>3, <2>4 DEF Linked, HeadOf, Positive
<1>5. CASE WriteLine
    <2>1. UNCHANGED <<head, torn, damage, power>>
        BY <1>5 DEF WriteLine, counters
    <2>2. head[s].sequence <= Len(log[s]) /\ log[s][head[s].sequence].hash = head[s].hash
        BY <1>1, <2>1 DEF StopsDoNotRefuse
    <2>3. head[s].sequence \in Nat /\ head[s].sequence # 0 /\ Len(log[s]) \in Nat
        BY <1>1, <2>1, LenProperties DEF TrailTypeOK, Heads, Positive
    <2>4. /\ log'[s] = log[s] \/ Len(log'[s]) = Len(log[s]) + 1
          /\ \A i \in 1..Len(log[s]) : log'[s][i] = log[s][i]
        BY <1>5, WrittenLine
    <2>. QED
        BY <2>1, <2>2, <2>3, <2>4
<1>6. CASE UNCHANGED <<log, head, damage, power>> /\ torn \subseteq torn'
    BY <1>1, <1>6 DEF StopsDoNotRefuse
<1>7. CASE OpenRefused \/ OpenCut
    <2>1. /\ log' = log /\ torn' = torn /\ damage' = damage /\ power' = power
          /\ \E done \in SUBSET Sound : CatchUp(done)
        BY <1>7 DEF OpenRefused, OpenCut, counters
    <2>2. PICK done \in SUBSET Sound : CatchUp(done)
        BY <2>1
    <2>3. CASE s \in done
        <3>1. head'[s] = LastHead(log[s]) /\ Verify(s, log[s], head[s]) = "ok"
            BY <2>2, <2>3 DEF CatchUp, Sound, ReadStream
        <3>2. log[s] \in Seq(Entries) /\ Chained(s, log[s])
            BY <3>1, VerifiedChains DEF TrailTypeOK
        <3>3. /\ log[s] # <<>> /\ Len(log[s]) \in Positive
              /\ LastHead(log[s]) = HeadOf(log[s][Len(log[s])])
            BY <1>1, <3>1, <3>2, LastHeadTyped
        <3>4. Linked(s, log[s], Len(log[s]))
            BY <3>2, <3>3 DEF Chained, Positive
        <3>. QED
            BY <2>1, <3>1, <3>3, <3>4 DEF Linked, HeadOf, Positive
    <2>4. CASE s \notin done
        <3>1. head'[s] = head[s]
            BY <2>2, <2>4 DEF CatchUp
        <3>. QED
            BY <1>1, <2>1, <3>1 DEF StopsDoNotRefuse
    <2>. QED
        BY <2>3, <2>4
<1>. QED
    BY <1>2, <1>3, <1>4, <1>5, <1>6, <1>7 DEF TrailNext, Record, Take, SyncLine, SyncHead, HeadFails,
       WriteFails, SyncFails, Kill, BeginRead, EndRead, Close, files, counters

-----------------------------------------------------------------------------
(* The theorems                                                            *)

\* Nothing is stored at first.
LEMMA TrailStart ==
    ASSUME AuditAssumption, TrailInit
    PROVE  TrailInv
<1>1. \A s \in Streams : log[s] = <<>> /\ Len(log[s]) = 0 /\ log[s] \in Seq(Entries)
    BY EmptySeq DEF TrailInit
<1>2. TrailTypeOK
    BY <1>1 DEF TrailInit, TrailTypeOK, AuditAssumption, Verdicts
<1>3. LogsChain /\ LinesFollow
    BY <1>1 DEF LogsChain, Chained, LinesFollow
<1>. QED
    BY <1>2, <1>3 DEF TrailInit, TrailInv, Handed, AppendedSealed, MemoryFollows, Live, AppendPlaced,
       AppendedIsDurable, StopsDoNotRefuse

\* The invariant reads the state and nothing else.
LEMMA TrailStutters ==
    ASSUME TrailInv, UNCHANGED trailVars
    PROVE  TrailInv'
BY DEF TrailInv, trailVars, TrailTypeOK, Handed, LogsChain, LinesFollow, AppendedSealed, MemoryFollows,
       AppendPlaced, AppendedIsDurable, StopsDoNotRefuse, Live, Syncing

\* The invariant holds of every behaviour of the trail.
LEMMA TrailInvariant == TrailSpec => []TrailInv
<1>1. TrailInit => TrailInv
    BY TrailStart, AuditAssumptions
<1>2. TrailInv /\ [TrailNext]_trailVars => TrailInv'
    <2>1. SUFFICES ASSUME TrailInv, [TrailNext]_trailVars
                   PROVE  TrailInv'
        OBVIOUS
    <2>2. CASE TrailNext
        <3>1. TrailTypeOK' /\ Handed'
            BY <2>1, <2>2, AuditAssumptions, TypeStep, HandedStep DEF TrailInv
        <3>2. LogsChain' /\ LinesFollow'
            BY <2>1, <2>2, AuditAssumptions, LogsChainStep, LinesFollowStep DEF TrailInv
        <3>3. MemoryFollows' /\ AppendPlaced'
            BY <2>1, <2>2, AuditAssumptions, MemoryStep, AppendPlacedStep DEF TrailInv
        <3>4. AppendedSealed' /\ AppendedIsDurable' /\ StopsDoNotRefuse'
            BY <2>1, <2>2, AuditAssumptions, AppendedSealedStep, DurableStep, HeadsStep DEF TrailInv
        <3>. QED
            BY <3>1, <3>2, <3>3, <3>4 DEF TrailInv
    <2>3. CASE UNCHANGED trailVars
        BY <2>1, <2>3, TrailStutters
    <2>. QED
        BY <2>1, <2>2, <2>3
<1>. QED
    BY <1>1, <1>2, PTL DEF TrailSpec

\* What was reported as appended is on storage under a durable name, the lines of a stream
\* chain one to the next, and a stop alone never makes a stream refuse to open
\* (local_audit_trail.rs, recorder.rs).
THEOREM WhatWasReportedIsKept == TrailSpec => []TrailKeepsWhatWasReported
<1>1. TrailInv => TrailKeepsWhatWasReported
    <2>1. SUFFICES ASSUME TrailInv
                   PROVE  TrailKeepsWhatWasReported
        OBVIOUS
    <2>2. ChainNeverForks
        BY <2>1, VerifiedChains DEF TrailInv, TrailTypeOK, LogsChain, ChainNeverForks
    <2>. QED
        BY <2>1, <2>2 DEF TrailInv, TrailKeepsWhatWasReported
<1>. QED
    BY <1>1, TrailInvariant, PTL

\* Whatever fails, stops or is edited, no line is added to a stream an append failed on
\* until the trail was opened again (local_audit_trail.rs).
THEOREM BrokenStreamsRest == TrailSpec => [][BrokenStreamIsNotExtended]_trailVars
<1>1. TrailInv /\ [TrailNext]_trailVars => [BrokenStreamIsNotExtended]_trailVars
    <2>1. SUFFICES ASSUME TrailInv, TrailNext, NEW s \in broken
                   PROVE  Len(log'[s]) <= Len(log[s])
        BY DEF BrokenStreamIsNotExtended
    <2>2. TrailTypeOK /\ AppendPlaced /\ s \in Streams /\ Len(log[s]) \in Nat
        BY <2>1, LenProperties DEF TrailInv, TrailTypeOK
    <2>3. CASE WriteLine
        BY <2>1, <2>2, <2>3, WrittenLine, AuditAssumptions
    <2>4. CASE PowerLoss
        BY <2>2, <2>4, PowerCut
    <2>5. ASSUME NEW t \in Streams, NEW i \in 1..MaxRecords, Damage(t, i)
          PROVE  Len(log'[s]) <= Len(log[s])
        <3>1. \/ s # t /\ log'[s] = log[s]
              \/ s = t /\ Len(log'[s]) \in {Len(log[s]) - 1, Len(log[s])}
            BY <2>2, <2>5, EditedLog
        <3>. QED
            BY <2>2, <3>1
    <2>6. CASE log' = log
        BY <2>2, <2>6
    <2>. QED
        BY <2>1, <2>3, <2>4, <2>5, <2>6, LogUntouched
<1>. QED
    BY <1>1, TrailInvariant, PTL DEF TrailSpec

\* A hash taken over one more record keeps the ones before it ...
LEMMA HashExtended ==
    ASSUME NEW S, NEW hash \in Seq(S), NEW id \in S
    PROVE  /\ Len(Append(hash, id)) = Len(hash) + 1 /\ Len(hash) \in Nat
           /\ Append(hash, id)[Len(hash) + 1] = id
           /\ \A n \in 1..Len(hash) : Append(hash, id)[n] = hash[n]
BY AppendProperties, LenProperties

\* ... so a hash names the records it is taken over.
LEMMA HashNamesItsRecords ==
    ASSUME NEW S, NEW previous, NEW other, NEW i, NEW j,
           previous \in Seq(S), other \in Seq(S), i \in S, j \in S,
           Append(previous, i) = Append(other, j)
    PROVE  previous = other /\ i = j
<1>a. /\ Len(Append(previous, i)) = Len(previous) + 1 /\ Len(previous) \in Nat
      /\ Append(previous, i)[Len(previous) + 1] = i
      /\ \A n \in 1..Len(previous) : Append(previous, i)[n] = previous[n]
    BY HashExtended
<1>b. /\ Len(Append(other, j)) = Len(other) + 1 /\ Len(other) \in Nat
      /\ Append(other, j)[Len(other) + 1] = j
      /\ \A n \in 1..Len(other) : Append(other, j)[n] = other[n]
    BY HashExtended
<1>2. Len(previous) = Len(other)
    BY <1>a, <1>b
<1>3. i = j /\ \A n \in 1..Len(previous) : previous[n] = other[n]
    BY <1>a, <1>b, <1>2
<1>. QED
    BY <1>2, <1>3, SeqEqual

\* Two lines with one hash record the same, over the same lines.
LEMMA OneHashOneLine ==
    ASSUME NEW one \in Entries, NEW other \in Entries, ExpectedHash(one) = ExpectedHash(other)
    PROVE  one.previous = other.previous /\ one.record.id = other.record.id
<1>. DEFINE N == Nat
            previous == one.previous
            before == other.previous
            i == one.record.id
            j == other.record.id
<1>1. previous \in Seq(N) /\ before \in Seq(N) /\ i \in N /\ j \in N
    BY DEF Entries, Hashes, Records
<1>2. Append(previous, i) = Append(before, j)
    BY DEF ExpectedHash, ChainHashOf
<1>. HIDE DEF N, previous, before, i, j
<1>3. previous = before /\ i = j
    BY <1>1, <1>2, HashNamesItsRecords
<1>. QED
    BY <1>3 DEF previous, before, i, j

\* A log has the line an anchor names; one that verifies against it does, and chains.
Reaches(entries, anchor) ==
    \E i \in 1..Len(entries) :
        entries[i].sequence = anchor.sequence /\ entries[i].hash = anchor.hash

LEMMA VerifiedReachesAnchor ==
    ASSUME NEW stream, NEW entries \in Seq(Entries), NEW anchor, anchor # None,
           Verify(stream, entries, anchor) = "ok"
    PROVE  Chained(stream, entries) /\ Reaches(entries, anchor)
BY VerifiedChains DEF Reaches

\* An edited log that lost or changed an entry its head covers is refused: what is opened
\* holds every such entry exactly as it was reported (verify.rs, open.rs).
THEOREM OpenedTrailsAreWhole == TrailSpec => [][OpenedTrailIsWhole]_trailVars
<1>1. TrailInv /\ [TrailNext]_trailVars => [OpenedTrailIsWhole]_trailVars
    <2>1. SUFFICES ASSUME TrailInv, Open, NEW entry \in appended, Covers(head[entry.record.stream], entry)
                   PROVE  LET s == entry.record.stream IN
                          entry.sequence <= Len(log[s]) /\ log[s][entry.sequence] = entry
        BY DEF OpenedTrailIsWhole
    <2>. DEFINE s == entry.record.stream
                k == entry.sequence
    <2>2. /\ TrailTypeOK /\ LinesFollow /\ entry \in Entries /\ entry.record \in Records
          /\ Sealed(entry) /\ ExpectedHash(entry) = entry.hash
        BY <2>1 DEF TrailInv, TrailTypeOK, AppendedSealed, Entries
    <2>3. /\ s \in Streams /\ log[s] \in Seq(Entries) /\ Len(log[s]) \in Nat
          /\ k \in Positive
        BY <2>2, LenProperties DEF TrailTypeOK, Records, Entries
    <2>4. /\ head[s] # None /\ head[s] \in Heads /\ k <= head[s].sequence
          /\ entry.hash = SubSeq(head[s].hash, 1, k)
        BY <2>1, <2>2, <2>3 DEF Covers, TrailTypeOK
    <2>5. Verify(s, log[s], head[s]) = "ok"
        BY <2>1, <2>3, <2>4 DEF Open, Stored, ReadStream
    <2>6. Chained(s, log[s]) /\ Reaches(log[s], head[s])
        BY <2>3, <2>4, <2>5, VerifiedReachesAnchor
    <2>7. PICK i \in 1..Len(log[s]) :
              log[s][i].sequence = head[s].sequence /\ log[s][i].hash = head[s].hash
        BY <2>6 DEF Reaches
    <2>8. log[s][i].sequence = i
        BY <2>6 DEF Chained, Linked
    <2>9. k \in 1..Len(log[s]) /\ k <= i
        BY <2>3, <2>4, <2>7, <2>8 DEF Positive
    <2>. DEFINE line == log[s][k]
    <2>10. /\ line \in Entries /\ line.record \in Records /\ Sealed(line) /\ Follows(log[s][i], line)
           /\ line.record.stream = s /\ line.sequence = k /\ ExpectedHash(line) = line.hash
        <3>. HIDE DEF s, k
        <3>1. line \in Entries
            BY <2>3, <2>9, ElementOfSeq
        <3>2. Sealed(line) /\ Follows(log[s][i], line)
            BY <2>2, <2>3, <2>7, <2>9 DEF LinesFollow
        <3>3. line.record.stream = s /\ line.sequence = k /\ ExpectedHash(line) = line.hash
            BY <2>6, <2>9 DEF Chained, Linked
        <3>. QED
            BY <3>1, <3>2, <3>3 DEF Entries
    <2>11. line.hash = entry.hash
        BY <2>4, <2>7, <2>10 DEF Follows
    <2>12. line.previous = entry.previous /\ line.record.id = entry.record.id
        BY <2>2, <2>10, <2>11, OneHashOneLine
    <2>13. line.record = entry.record
        <3>. HIDE DEF s, k, line
        <3>1. line.record \in Records /\ entry.record \in Records
            BY <2>2, <2>10
        <3>2. /\ line.record.id = entry.record.id /\ line.record.stream = entry.record.stream
              /\ line.record.fits = entry.record.fits
            BY <2>2, <2>10, <2>12 DEF Sealed, s
        <3>. QED
            BY <3>1, <3>2 DEF Records
    <2>14. line = entry
        <3>. HIDE DEF s, k, line
        <3>1. line \in Entries /\ entry \in Entries
            BY <2>2, <2>10
        <3>2. line.sequence = entry.sequence
            BY <2>10 DEF k
        <3>. QED
            BY <2>11, <2>12, <2>13, <3>1, <3>2 DEF Entries
    <2>. QED
        BY <2>9, <2>14
<1>. QED
    BY <1>1, TrailInvariant, PTL DEF TrailSpec

===============================================================================
