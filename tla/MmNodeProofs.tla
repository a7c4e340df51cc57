------------------------------ MODULE MmNodeProofs ------------------------------
(***************************************************************************)
(* Proofs about the logs of MmNode for every block tree, every set of      *)
(* seeds and every number of crashes and failed writes.                    *)
(***************************************************************************)
EXTENDS MmNode, WellFoundedInduction, NaturalsInduction, TLAPS

Record == Block \cup {Torn}

\* No record is cut short.
Whole(log) == \A i \in DOMAIN log : log[i] # Torn

\* The parts of the state that the logs depend on.
LogTypes ==
  /\ blockLog \in Seq(Record)
  /\ witnessLog \in Seq(Record)
  /\ mode \in {"down", "up", "refused"}
  /\ saving \subseteq Block
  /\ current \in saving \cup {Genesis}
  /\ claims \in [Seed -> Id]
  /\ writeFailed \in BOOLEAN

\* What a running node has recorded covers its logs, and the block in hand
\* went first.
RecordedInv ==
  /\ mode = "down" => current = Genesis
  /\ mode = "up" =>
       /\ Records(blockLog) \subseteq recorded
       /\ Records(witnessLog) \subseteq recordedWitnesses
       /\ current \in recorded \cup {Genesis}

\* As long as every write of a live node succeeded, only a crash leaves a torn
\* record, at the end of one log, and boot cuts it off.
CleanInv ==
  ~ writeFailed =>
    /\ mode # "refused"
    /\ Readable(blockLog)
    /\ Readable(witnessLog)
    /\ Records(witnessLog) \subseteq Records(blockLog)
    /\ mode = "up" =>
         Whole(blockLog) /\ Whole(witnessLog) /\ recorded \subseteq Records(blockLog)

LogInv ==
  /\ LogTypes
  /\ Once(blockLog)
  /\ Once(witnessLog)
  /\ RecordedInv
  /\ CleanInv

--------------------------------------------------------------------------------
(* Logs *)

\* One more record.
LEMMA AppendLog ==
  ASSUME NEW log \in Seq(Record), NEW x \in Record
  PROVE  /\ Append(log, x) \in Seq(Record)
         /\ Records(Append(log, x)) = Records(log) \cup ({x} \ {Torn})
         /\ Whole(log) => Readable(Append(log, x))
         /\ Whole(log) /\ x # Torn => Whole(Append(log, x))
         /\ Once(log) /\ x \notin Records(log) => Once(Append(log, x))
<1>1. /\ Append(log, x) \in Seq(Record)
      /\ DOMAIN Append(log, x) = 1 .. Len(log) + 1
      /\ Len(Append(log, x)) = Len(log) + 1
      /\ \A i \in 1 .. Len(log) : Append(log, x)[i] = log[i]
      /\ Append(log, x)[Len(log) + 1] = x
      /\ DOMAIN log = 1 .. Len(log)
      /\ Len(log) \in Nat
  OBVIOUS
<1>2. DOMAIN Append(log, x) = DOMAIN log \cup {Len(log) + 1}
  BY <1>1
<1>3. Records(Append(log, x)) = Records(log) \cup ({x} \ {Torn})
  BY <1>1, <1>2 DEF Records
<1>4. Whole(log) => Readable(Append(log, x))
  BY <1>1 DEF Whole, Readable
<1>5. Whole(log) /\ x # Torn => Whole(Append(log, x))
  BY <1>1, <1>2 DEF Whole
<1>6. Once(log) /\ x \notin Records(log) => Once(Append(log, x))
  BY <1>1, <1>2 DEF Once, Records
<1>. QED
  BY <1>1, <1>3, <1>4, <1>5, <1>6

\* read_records keeps what precedes the first record that was cut short.
LEMMA CompletePrefix ==
  ASSUME NEW log \in Seq(Record)
  PROVE  \E n \in 0 .. Len(log) :
           /\ Complete(log) = SubSeq(log, 1, n)
           /\ \A i \in 1 .. n : log[i] # Torn
           /\ n < Len(log) => log[n + 1] = Torn
<1>1. Len(log) \in Nat /\ DOMAIN log = 1 .. Len(log)
  OBVIOUS
<1>2. CASE Whole(log)
  <2>1. Complete(log) = log /\ log = SubSeq(log, 1, Len(log))
    BY <1>2 DEF Complete, Whole
  <2>2. \A i \in 1 .. Len(log) : log[i] # Torn
    BY <1>1, <1>2 DEF Whole
  <2>3. Len(log) \in 0 .. Len(log) /\ ~ Len(log) < Len(log)
    BY <1>1
  <2>. QED
    BY <2>1, <2>2, <2>3, Zenon
<1>3. CASE ~ Whole(log)
  <2>. DEFINE Cut == {i \in DOMAIN log : log[i] = Torn}
              First(i) == log[i] = Torn /\ \A j \in 1 .. i - 1 : log[j] # Torn
              cut == CHOOSE i \in DOMAIN log : First(i)
  <2>1. Cut \subseteq Nat /\ Cut # {}
    BY <1>1, <1>3 DEF Whole
  <2>2. PICK i \in Cut : \A j \in Cut : ~ (<<j, i>> \in OpToRel(<, Nat))
    BY <2>1, NatLessThanWellFounded, WFMin
  <2>3. \A j \in Cut : ~ (j < i)
    BY <2>1, <2>2 DEF OpToRel
  <2>4. First(i)
    <3>1. i \in 1 .. Len(log) /\ log[i] = Torn
      BY <1>1
    <3>2. ASSUME NEW j \in 1 .. i - 1
          PROVE  log[j] # Torn
      <4>1. j \in DOMAIN log /\ j < i
        BY <1>1, <3>1
      <4>. QED
        BY <2>3, <4>1
    <3>. QED
      BY <3>1, <3>2
  <2>5. cut \in DOMAIN log /\ First(cut)
    BY <2>4
  <2>6. Complete(log) = SubSeq(log, 1, cut - 1)
    BY <1>3 DEF Complete, Whole
  <2>7. /\ cut - 1 \in 0 .. Len(log)
        /\ \A j \in 1 .. cut - 1 : log[j] # Torn
        /\ log[cut - 1 + 1] = Torn
    BY <1>1, <2>5, SMTT(30)
  <2>. HIDE DEF cut
  <2>8. cut - 1 < Len(log) => log[cut - 1 + 1] = Torn
    BY <2>7
  <2>. QED
    BY <2>6, <2>7, <2>8, Zenon
<1>. QED
  BY <1>2, <1>3

\* What read_records keeps is whole, and all of it if the log was readable.
LEMMA CompleteLog ==
  ASSUME NEW log \in Seq(Record)
  PROVE  /\ Complete(log) \in Seq(Record)
         /\ Whole(Complete(log))
         /\ Readable(Complete(log))
         /\ Records(Complete(log)) \subseteq Records(log)
         /\ Readable(log) => Records(Complete(log)) = Records(log)
         /\ Once(log) => Once(Complete(log))
<1>1. PICK n \in 0 .. Len(log) :
        /\ Complete(log) = SubSeq(log, 1, n)
        /\ \A i \in 1 .. n : log[i] # Torn
        /\ n < Len(log) => log[n + 1] = Torn
  BY CompletePrefix
<1>. DEFINE kept == SubSeq(log, 1, n)
<1>2. /\ kept \in Seq(Record)
      /\ Len(kept) = n
      /\ DOMAIN kept = 1 .. n
      /\ \A i \in 1 .. n : kept[i] = log[i]
      /\ DOMAIN log = 1 .. Len(log)
      /\ Len(log) \in Nat
      /\ 1 .. n \subseteq 1 .. Len(log)
  OBVIOUS
<1>. HIDE DEF kept
<1>3. Whole(kept)
  BY <1>1, <1>2 DEF Whole
<1>4. Readable(kept)
  BY <1>2, <1>3 DEF Readable, Whole
<1>5. Records(kept) \subseteq Records(log)
  BY <1>2 DEF Records
<1>6. ASSUME Readable(log)
      PROVE  Records(log) \subseteq Records(kept)
  <2>1. ASSUME n + 1 < Len(log)
        PROVE  FALSE
    <3>1. n + 1 \in 1 .. Len(log) - 1 /\ n < Len(log)
      BY <1>2, <2>1
    <3>2. log[n + 1] # Torn
      BY <1>6, <3>1, Zenon DEF Readable
    <3>3. log[n + 1] = Torn
      BY <1>1, <3>1, Zenon
    <3>. QED
      BY <3>2, <3>3
  <2>2. ASSUME NEW i \in DOMAIN log, log[i] # Torn
        PROVE  i \in 1 .. n
    <3>1. i \in Nat /\ n \in Nat /\ Len(log) \in Nat /\ 1 <= i /\ i <= Len(log) /\ n <= Len(log)
      BY <1>2
    <3>2. n < Len(log) => i # n + 1
      BY <1>1, <2>2, Zenon
    <3>3. n + 1 >= Len(log)
      BY <2>1, <3>1
    <3>. QED
      BY <3>1, <3>2, <3>3
  <2>. QED
    BY <1>2, <2>2 DEF Records
<1>7. Once(log) => Once(kept)
  BY <1>2 DEF Once
<1>8. Complete(log) = kept
  BY <1>1 DEF kept
<1>. QED
  BY <1>2, <1>3, <1>4, <1>5, <1>6, <1>7, <1>8

\* What append_record does to a log, whatever comes of it.
LEMMA AppendedLog ==
  ASSUME NEW log \in Seq(Record), NEW b \in Block, NEW outcome \in Outcomes
  PROVE  /\ Appended(log, b, outcome) \in Seq(Record)
         /\ Records(log) \subseteq Records(Appended(log, b, outcome))
         /\ Records(Appended(log, b, outcome)) \subseteq Records(log) \cup {b}
         /\ Once(log) /\ b \notin Records(log) => Once(Appended(log, b, outcome))
         /\ outcome = "saved" =>
              /\ b \in Records(Appended(log, b, outcome))
              /\ Whole(log) => /\ Whole(Appended(log, b, outcome))
                               /\ Readable(Appended(log, b, outcome))
<1>1. b \in Record /\ Torn \in Record /\ b # Torn /\ Torn \notin Records(log)
  BY NodeAssumption DEF Record, Id, Records
<1>2. CASE outcome = "saved"
  BY <1>1, <1>2, AppendLog DEF Appended
<1>3. CASE outcome = "partial"
  BY <1>1, <1>3, AppendLog DEF Appended
<1>4. CASE outcome = "failed"
  BY <1>4 DEF Appended
<1>. QED
  BY <1>2, <1>3, <1>4 DEF Outcomes

--------------------------------------------------------------------------------
(* One lemma per kind of step *)

LEMMA LogInit == Init => LogInv
<1>. SUFFICES ASSUME Init PROVE LogInv
  OBVIOUS
<1>1. LogTypes
  <2>1. Genesis \in Id
    BY DEF Id
  <2>2. claims \in [Seed -> Id]
    BY <2>1 DEF Init
  <2>3. blockLog \in Seq(Record) /\ witnessLog \in Seq(Record)
    BY DEF Init
  <2>. QED
    BY <2>2, <2>3 DEF Init, LogTypes
<1>2. /\ DOMAIN blockLog = {} /\ DOMAIN witnessLog = {}
      /\ Len(blockLog) = 0 /\ Len(witnessLog) = 0
  BY DEF Init
<1>3. /\ Once(blockLog) /\ Once(witnessLog)
      /\ Readable(blockLog) /\ Readable(witnessLog)
      /\ Records(blockLog) = {} /\ Records(witnessLog) = {}
  BY <1>2 DEF Once, Readable, Records
<1>4. mode = "down" /\ current = Genesis
  BY DEF Init
<1>. QED
  BY <1>1, <1>3, <1>4 DEF LogInv, RecordedInv, CleanInv

\* A step that leaves logs and records alone.
LEMMA KeepLogs ==
  ASSUME LogInv, LogTypes', current' = current,
         UNCHANGED <<blockLog, witnessLog, mode, recorded, recordedWitnesses, writeFailed>>
  PROVE  LogInv'
BY DEF LogInv, RecordedInv, CleanInv

\* After boot both logs are whole and what is recorded is what they hold.
LEMMA BootStep ==
  ASSUME LogInv, Boot
  PROVE  LogInv'
<1>1. /\ blockLog' = Complete(blockLog) /\ witnessLog' = Complete(witnessLog)
      /\ mode = "down" /\ mode' = "up"
      /\ recorded' = Records(blockLog') /\ recordedWitnesses' = Records(witnessLog')
      /\ UNCHANGED <<saving, current, claims, writeFailed>>
  BY DEF Boot, Truncate, ReplayArchive, savingVars, worldVars, faultVars
<1>2. blockLog \in Seq(Record) /\ witnessLog \in Seq(Record)
  BY DEF LogInv, LogTypes
<1>3. LogTypes'
  BY <1>1, <1>2, CompleteLog DEF LogInv, LogTypes
<1>4. Once(blockLog') /\ Once(witnessLog')
  BY <1>1, <1>2, CompleteLog DEF LogInv
<1>5. RecordedInv'
  BY <1>1 DEF LogInv, RecordedInv
<1>6. CleanInv'
  <2>. SUFFICES ASSUME ~ writeFailed PROVE CleanInv'
    BY <1>1 DEF CleanInv
  <2>1. /\ Readable(blockLog) /\ Readable(witnessLog)
        /\ Records(witnessLog) \subseteq Records(blockLog)
    BY DEF LogInv, CleanInv
  <2>2. /\ Whole(blockLog') /\ Whole(witnessLog')
        /\ Readable(blockLog') /\ Readable(witnessLog')
        /\ Records(blockLog') = Records(blockLog)
        /\ Records(witnessLog') = Records(witnessLog)
    BY <1>1, <1>2, <2>1, CompleteLog
  <2>. QED
    BY <1>1, <2>1, <2>2 DEF CleanInv
<1>. QED
  BY <1>3, <1>4, <1>5, <1>6 DEF LogInv

\* Boot refuses a log only if a live node failed to write.
LEMMA BootRefusedStep ==
  ASSUME LogInv, BootRefused
  PROVE  LogInv'
<1>1. /\ mode' = "refused"
      /\ UNCHANGED <<blockLog, witnessLog, saving, current, claims, writeFailed>>
  BY DEF BootRefused, diskVars, savingVars, worldVars, faultVars
<1>2. writeFailed
  BY DEF BootRefused, LogInv, CleanInv
<1>. QED
  BY <1>1, <1>2 DEF LogInv, LogTypes, RecordedInv, CleanInv

\* A crash outside of an append.
LEMMA CrashStep ==
  ASSUME LogInv, Crash
  PROVE  LogInv'
<1>1. /\ mode' = "down" /\ saving' = {} /\ current' = Genesis
      /\ UNCHANGED <<blockLog, witnessLog, claims, writeFailed>>
  BY DEF Crash, Forget, diskVars, worldVars
<1>. QED
  BY <1>1 DEF LogInv, LogTypes, RecordedInv, CleanInv

\* A crash inside an append leaves one torn record, at the end.
LEMMA CrashInAppendStep ==
  ASSUME LogInv, CrashInAppend
  PROVE  LogInv'
<1>1. /\ mode = "up" /\ mode' = "down" /\ saving' = {} /\ current' = Genesis
      /\ UNCHANGED <<claims, writeFailed>>
  BY DEF CrashInAppend, Forget, worldVars
<1>2. \/ blockLog' = Append(blockLog, Torn) /\ witnessLog' = witnessLog
      \/ blockLog' = blockLog /\ witnessLog' = Append(witnessLog, Torn)
  BY DEF CrashInAppend
<1>3. /\ blockLog \in Seq(Record) /\ witnessLog \in Seq(Record)
      /\ Torn \in Record
      /\ Torn \notin Records(blockLog) /\ Torn \notin Records(witnessLog)
  BY DEF LogInv, LogTypes, Record, Records
<1>4. LogTypes'
  <2>1. Append(blockLog, Torn) \in Seq(Record) /\ Append(witnessLog, Torn) \in Seq(Record)
    BY <1>3
  <2>2. blockLog' \in Seq(Record) /\ witnessLog' \in Seq(Record)
    BY <1>2, <1>3, <2>1, Zenon
  <2>. QED
    BY <1>1, <2>2 DEF LogInv, LogTypes
<1>5. Once(blockLog') /\ Once(witnessLog')
  <2>1. Once(blockLog) /\ Once(witnessLog)
    BY DEF LogInv
  <2>2. Once(Append(blockLog, Torn)) /\ Once(Append(witnessLog, Torn))
    BY <1>3, <2>1, AppendLog, Zenon
  <2>. QED
    BY <1>2, <2>1, <2>2, Zenon
<1>6. /\ Records(blockLog') = Records(blockLog)
      /\ Records(witnessLog') = Records(witnessLog)
  <2>1. /\ Records(Append(blockLog, Torn)) = Records(blockLog)
        /\ Records(Append(witnessLog, Torn)) = Records(witnessLog)
    BY <1>3, AppendLog
  <2>. QED
    BY <1>2, <2>1, Zenon
<1>7. CleanInv'
  <2>. SUFFICES ASSUME ~ writeFailed PROVE CleanInv'
    BY <1>1 DEF CleanInv
  <2>1. /\ Whole(blockLog) /\ Whole(witnessLog)
        /\ Readable(blockLog) /\ Readable(witnessLog)
        /\ Records(witnessLog) \subseteq Records(blockLog)
    BY <1>1 DEF LogInv, CleanInv
  <2>2. Readable(blockLog') /\ Readable(witnessLog')
    BY <1>2, <1>3, <2>1, AppendLog
  <2>. QED
    BY <1>1, <1>6, <2>1, <2>2 DEF CleanInv
<1>. QED
  BY <1>1, <1>4, <1>5, <1>7 DEF LogInv, RecordedInv

--------------------------------------------------------------------------------
(* persist_one *)

\* The block goes first, once.
LEMMA PersistBlockStep ==
  ASSUME LogInv, PersistBlock
  PROVE  LogInv'
<1>1. /\ mode = "up" /\ mode' = "up"
      /\ UNCHANGED <<witnessLog, recordedWitnesses, saving, claims>>
  BY DEF PersistBlock, worldVars
<1>2. PICK b \in saving :
        /\ current' = b
        /\ \/ b \in recorded /\ UNCHANGED <<recorded, blockLog, faultVars>>
           \/ /\ b \notin recorded
              /\ recorded' = recorded \cup {b}
              /\ \E outcome \in Outcomes :
                   blockLog' = Appended(blockLog, b, outcome) /\ CountFault(outcome)
  BY DEF PersistBlock
<1>3. LogTypes /\ b \in Block /\ blockLog \in Seq(Record)
  BY DEF LogInv, LogTypes
<1>4. CASE b \in recorded
  <2>1. UNCHANGED <<recorded, blockLog, writeFailed>>
    BY <1>2, <1>4 DEF faultVars
  <2>2. LogTypes'
    BY <1>1, <1>2, <1>3, <2>1 DEF LogTypes
  <2>3. RecordedInv'
    BY <1>1, <1>2, <1>4, <2>1 DEF LogInv, RecordedInv
  <2>4. CleanInv'
    BY <1>1, <2>1 DEF LogInv, CleanInv
  <2>. QED
    BY <1>1, <2>1, <2>2, <2>3, <2>4 DEF LogInv
<1>5. CASE b \notin recorded
  <2>1. PICK outcome \in Outcomes :
          /\ blockLog' = Appended(blockLog, b, outcome)
          /\ CountFault(outcome)
          /\ recorded' = recorded \cup {b}
    BY <1>2, <1>5
  <2>2. /\ blockLog' \in Seq(Record)
        /\ Records(blockLog) \subseteq Records(blockLog')
        /\ Records(blockLog') \subseteq Records(blockLog) \cup {b}
    BY <1>3, <2>1, AppendedLog
  <2>3. b \notin Records(blockLog)
    BY <1>1, <1>5 DEF LogInv, RecordedInv
  <2>4. Once(blockLog')
    BY <1>3, <2>1, <2>3, AppendedLog DEF LogInv
  <2>5. LogTypes'
    BY <1>1, <1>2, <1>3, <2>1, <2>2 DEF LogTypes, CountFault, faultVars
  <2>6. RecordedInv'
    BY <1>1, <1>2, <2>1, <2>2 DEF LogInv, RecordedInv
  <2>7. CleanInv'
    <3>. SUFFICES ASSUME ~ writeFailed' PROVE CleanInv'
      BY DEF CleanInv
    <3>1. outcome = "saved" /\ ~ writeFailed
      BY <2>1 DEF CountFault, faultVars
    <3>2. /\ Whole(blockLog) /\ Whole(witnessLog) /\ Readable(witnessLog)
          /\ Records(witnessLog) \subseteq Records(blockLog)
          /\ recorded \subseteq Records(blockLog)
      BY <1>1, <3>1 DEF LogInv, CleanInv
    <3>3. Whole(blockLog') /\ Readable(blockLog') /\ b \in Records(blockLog')
      BY <1>3, <2>1, <3>1, <3>2, AppendedLog
    <3>. QED
      BY <1>1, <2>1, <2>2, <3>2, <3>3 DEF CleanInv
  <2>. QED
    BY <1>1, <2>4, <2>5, <2>6, <2>7 DEF LogInv
<1>. QED
  BY <1>4, <1>5

\* The witness follows, once, its block being recorded.
LEMMA PersistWitnessStep ==
  ASSUME LogInv, PersistWitness
  PROVE  LogInv'
<1>1. /\ mode = "up" /\ mode' = "up" /\ current # Genesis /\ current' = Genesis
      /\ saving' = saving \ {current}
      /\ UNCHANGED <<blockLog, recorded, claims>>
  BY DEF PersistWitness, worldVars
<1>2. \/ /\ current \in recordedWitnesses
         /\ UNCHANGED <<recordedWitnesses, witnessLog, faultVars>>
      \/ /\ current \notin recordedWitnesses
         /\ recordedWitnesses' = recordedWitnesses \cup {current}
         /\ \E outcome \in Outcomes :
              witnessLog' = Appended(witnessLog, current, outcome) /\ CountFault(outcome)
  BY DEF PersistWitness
<1>3. LogTypes /\ current \in Block /\ witnessLog \in Seq(Record)
  BY <1>1 DEF LogInv, LogTypes
<1>4. CASE current \in recordedWitnesses
  <2>1. UNCHANGED <<recordedWitnesses, witnessLog, writeFailed>>
    BY <1>2, <1>4 DEF faultVars
  <2>2. LogTypes'
    BY <1>1, <1>3, <2>1 DEF LogTypes
  <2>. QED
    BY <1>1, <2>1, <2>2 DEF LogInv, RecordedInv, CleanInv
<1>5. CASE current \notin recordedWitnesses
  <2>1. PICK outcome \in Outcomes :
          /\ witnessLog' = Appended(witnessLog, current, outcome)
          /\ CountFault(outcome)
          /\ recordedWitnesses' = recordedWitnesses \cup {current}
    BY <1>2, <1>5
  <2>2. /\ witnessLog' \in Seq(Record)
        /\ Records(witnessLog) \subseteq Records(witnessLog')
        /\ Records(witnessLog') \subseteq Records(witnessLog) \cup {current}
    BY <1>3, <2>1, AppendedLog
  <2>3. current \notin Records(witnessLog)
    BY <1>1, <1>5 DEF LogInv, RecordedInv
  <2>4. Once(witnessLog')
    BY <1>3, <2>1, <2>3, AppendedLog DEF LogInv
  <2>5. LogTypes'
    BY <1>1, <1>3, <2>1, <2>2 DEF LogTypes, CountFault, faultVars
  <2>6. RecordedInv'
    BY <1>1, <2>1, <2>2 DEF LogInv, RecordedInv
  <2>7. CleanInv'
    <3>. SUFFICES ASSUME ~ writeFailed' PROVE CleanInv'
      BY DEF CleanInv
    <3>1. outcome = "saved" /\ ~ writeFailed
      BY <2>1 DEF CountFault, faultVars
    <3>2. /\ Whole(blockLog) /\ Whole(witnessLog) /\ Readable(blockLog)
          /\ Records(witnessLog) \subseteq Records(blockLog)
          /\ recorded \subseteq Records(blockLog)
      BY <1>1, <3>1 DEF LogInv, CleanInv
    <3>3. Whole(witnessLog') /\ Readable(witnessLog')
      BY <1>3, <2>1, <3>1, <3>2, AppendedLog
    <3>4. current \in Records(blockLog)
      BY <1>1, <3>2 DEF LogInv, RecordedInv
    <3>. QED
      BY <1>1, <2>2, <3>2, <3>3, <3>4 DEF CleanInv
  <2>. QED
    BY <1>1, <2>4, <2>5, <2>6, <2>7 DEF LogInv
<1>. QED
  BY <1>4, <1>5

--------------------------------------------------------------------------------
(* The steps that write nothing *)

\* A sync pass hands over blocks other than genesis.
LEMMA SyncStep ==
  ASSUME LogInv, NEW s \in Seed, NEW missing, SyncFrom(s, missing)
  PROVE  LogInv'
<1>1. UNCHANGED <<blockLog, witnessLog, mode, recorded, recordedWitnesses, current,
                  claims, writeFailed>>
  BY DEF SyncFrom, diskVars, archiveVars, worldVars, faultVars
<1>2. saving = {} /\ saving' \subseteq Anc(claims[s]) \ {Genesis}
  BY DEF SyncFrom, Seen, Idle
<1>3. Anc(claims[s]) \subseteq Id
  <2>1. claims[s] \in Id
    BY DEF LogInv, LogTypes
  <2>2. Path[claims[s]] \in Seq(Id)
    BY <2>1, NodeAssumption
  <2>. QED
    BY <2>2 DEF Anc, TC!Anc
<1>4. LogTypes'
  BY <1>1, <1>2, <1>3 DEF LogInv, LogTypes, Id
<1>. QED
  BY <1>1, <1>4, KeepLogs

\* The watch, the producer and the seeds move without touching the logs.
LEMMA WorldStep ==
  ASSUME LogInv,
         \/ \E b \in Block : WatchActivates(b) \/ Produce(b)
         \/ \E s \in Seed, b \in Block : SeedMoves(s, b)
         \/ UNCHANGED vars
  PROVE  LogInv'
<1>1. ASSUME NEW b \in Block, WatchActivates(b)
      PROVE  LogInv'
  <2>1. UNCHANGED <<blockLog, witnessLog, mode, recorded, recordedWitnesses, saving,
                    current, claims, writeFailed>>
    BY <1>1 DEF WatchActivates, diskVars, archiveVars, savingVars, worldVars, faultVars
  <2>2. LogTypes'
    BY <2>1 DEF LogInv, LogTypes
  <2>. QED
    BY <2>1, <2>2, KeepLogs
<1>2. ASSUME NEW b \in Block, Produce(b)
      PROVE  LogInv'
  <2>1. /\ UNCHANGED <<blockLog, witnessLog, mode, recorded, recordedWitnesses,
                       current, claims, writeFailed>>
        /\ saving = {} /\ saving' = {b}
    BY <1>2 DEF Produce, Idle, diskVars, archiveVars, faultVars
  <2>2. LogTypes'
    BY <2>1 DEF LogInv, LogTypes
  <2>. QED
    BY <2>1, <2>2, KeepLogs
<1>3. ASSUME NEW s \in Seed, NEW b \in Block, SeedMoves(s, b)
      PROVE  LogInv'
  <2>1. /\ UNCHANGED <<blockLog, witnessLog, mode, recorded, recordedWitnesses, saving,
                       current, writeFailed>>
        /\ claims' = [claims EXCEPT ![s] = b]
    BY <1>3 DEF SeedMoves, diskVars, archiveVars, savingVars, faultVars
  <2>2. LogTypes'
    BY <2>1 DEF LogInv, LogTypes, Id
  <2>. QED
    BY <2>1, <2>2, KeepLogs
<1>4. ASSUME UNCHANGED vars
      PROVE  LogInv'
  <2>1. UNCHANGED <<blockLog, witnessLog, mode, recorded, recordedWitnesses, saving,
                    current, claims, writeFailed>>
    BY <1>4 DEF vars, diskVars, archiveVars, savingVars, worldVars, faultVars
  <2>2. LogTypes'
    BY <2>1 DEF LogInv, LogTypes
  <2>. QED
    BY <2>1, <2>2, KeepLogs
<1>. QED
  BY <1>1, <1>2, <1>3, <1>4

--------------------------------------------------------------------------------
\* The invariant that relates logs and records across crashes and failed writes.
THEOREM LogCorrect == Spec => []LogInv
<1>1. Init => LogInv
  BY LogInit
<1>2. LogInv /\ [Next]_vars => LogInv'
  BY BootStep, BootRefusedStep, CrashStep, CrashInAppendStep, PersistBlockStep,
     PersistWitnessStep, SyncStep, WorldStep DEF Next
<1>. QED
  BY <1>1, <1>2, PTL DEF Spec

\* persist_one and boot: a log names a block once, and a witness is on disk only
\* with its block, whatever the crashes, unless a live node failed to write.
THEOREM PairedCorrect == Spec => []LogsPaired
<1>1. LogInv => LogsPaired
  BY DEF LogInv, CleanInv, LogsPaired
<1>. QED
  BY <1>1, LogCorrect, PTL

\* read_records: no number of crashes makes boot refuse the logs.
THEOREM BootCorrect == Spec => []CrashNeverRefuses
<1>1. LogInv => CrashNeverRefuses
  BY DEF LogInv, CleanInv, CrashNeverRefuses
<1>. QED
  BY <1>1, LogCorrect, PTL
================================================================================
