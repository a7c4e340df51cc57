--------------------------------- MODULE MmNode ---------------------------------
(***************************************************************************)
(* The merge-mined node around its fork choice (aegis-node/src/node.rs):   *)
(* boot from the block log and the witness log (store.rs), the archive it  *)
(* serves from (SeedCore, seed.rs), the seed schedule (fresh_sync.rs), the *)
(* dev producer, and the two appends that persist an accepted block.       *)
(*                                                                         *)
(* The fork choice enters through TipChoice, which MmForkChoice implements:*)
(* every block here is valid and reaches it parent first, so what it holds *)
(* is a set of validated blocks and its tip a function of that set.        *)
(*                                                                         *)
(* A call of the node keeps its thread; the seeds move and the process     *)
(* dies meanwhile.  What a call does in memory only is one step, since a   *)
(* crash forgets it in any case; each append is a step of its own.         *)
(***************************************************************************)
EXTENDS Integers, Sequences, FiniteSets, SequencesExt

CONSTANTS
  Block,        \* ids of the blocks that may ever be heard of
  Genesis,
  Parent,       \* header.prev_id
  Path,         \* ids from genesis to a block, root first
  SumWork,      \* total work of a set of blocks
  Rank,         \* order of ids
  ErgoAt,       \* Ergo height of a block's share
  Mine,         \* blocks this node produces
  Seed,         \* seeds the node is configured with
  FirstSeed,    \* the seed that chain_page asks first
  Torn,         \* a record whose append was cut short
  PENDING_WITNESS_RETENTION,
  MaxFaults     \* bound on crashes and failed writes

Id == Block \cup {Genesis}

ASSUME NodeAssumption ==
  /\ Genesis \notin Block
  /\ Torn \notin Id
  /\ Parent \in [Block -> Id]
  /\ Path \in [Id -> Seq(Id)]
  /\ Path[Genesis] = <<Genesis>>
  /\ \A b \in Block : Path[b] = Append(Path[Parent[b]], b)
  /\ Mine \subseteq Block
  /\ FirstSeed \in Seed
  /\ {PENDING_WITNESS_RETENTION, MaxFaults} \subseteq Nat

\* On disk.
VARIABLES
  blockLog,         \* blocks.log: its records in order
  witnessLog        \* witnesses.log

\* In memory.
VARIABLES
  mode,             \* "down" | "up" | "refused": boot reported a StoreError
  validated,        \* the fork choice's tree
  recorded,         \* recorded_blocks; these are also the keys of SeedCore.bodies
  recordedWitnesses,\* recorded_witnesses
  order,            \* SeedCore.canonical, entry i at height i
  witnesses,        \* SeedCore.witnesses: id -> seen_at_height
  saving,           \* blocks persist_one still has to go through, lowest first
  current           \* the one whose witness comes next; Genesis: none

\* Around the node.
VARIABLES
  claims,           \* canonical tip of every seed
  made,             \* blocks produced so far: no two have the same timestamp
  faults,           \* crashes and failed writes so far
  writeFailed       \* observer: did an append of a live node ever fail

diskVars == <<blockLog, witnessLog>>
archiveVars == <<recorded, recordedWitnesses, order, witnesses>>
savingVars == <<saving, current>>
worldVars == <<claims, made>>
faultVars == <<faults, writeFailed>>
vars == <<diskVars, mode, validated, archiveVars, savingVars, worldVars, faultVars>>

TC == INSTANCE TipChoice WITH
        shares <- [b \in validated \ {Genesis} |-> ErgoAt[b]],
        offered <- validated \X {"good"},
        tip <- Genesis,
        due <- FALSE,
        Fault <- [b \in Block |-> "none"],
        ErgoHeight <- {ErgoAt[b] : b \in Block},
        Bodies <- {"good"}

Anc(b) == TC!Anc(b)

\* canonical_tip_id
CanonicalTip == CHOOSE n \in validated : \A m \in validated : ~ TC!Beats(m, n)

HeightOf(b) == Len(Path[b]) - 1

Lowest(b) == b \in saving /\ \A c \in saving : HeightOf(b) <= HeightOf(c)

\* A peer has a block of this node once the archive served it.
Reachable(b) ==
  b \in Mine => b \in recorded \/ \E s \in Seed : b \in Anc(claims[s])

--------------------------------------------------------------------------------
(* SeedCore *)

\* Mutant: a block recorded at an occupied height is not placed.
KeepFirst(o, b) == IF HeightOf(b) - 1 = Len(o) THEN Append(o, b) ELSE o

\* record_canonical: what stands at the height of b or above makes way; a block
\* more than one past the tip is not placed.
RecordCanonical(o, b) ==
  IF HeightOf(b) - 1 <= Len(o) THEN Append(SubSeq(o, 1, HeightOf(b) - 1), b) ELSE o

\* prune_stale_witnesses
Prune(ws, o) ==
  LET kept == {x \in DOMAIN ws :
                 \/ Len(o) < PENDING_WITNESS_RETENTION
                 \/ \E i \in DOMAIN o : o[i] = x
                 \/ ws[x] >= Len(o) - PENDING_WITNESS_RETENTION}
  IN [b \in kept |-> ws[b]]

--------------------------------------------------------------------------------
(* The logs *)

Records(log) == {log[i] : i \in DOMAIN log} \ {Torn}

\* A log is readable when only its last record may be cut short.
Readable(log) == \A i \in 1 .. Len(log) - 1 : log[i] # Torn

\* read_records up to the first record that was cut short.
Complete(log) ==
  IF \E i \in DOMAIN log : log[i] = Torn
  THEN SubSeq(log, 1, (CHOOSE i \in DOMAIN log :
                         log[i] = Torn /\ \A j \in 1 .. i - 1 : log[j] # Torn) - 1)
  ELSE log

\* append_record: written and synced, refused before a byte was written, or
\* broken off half way.
Appended(log, b, outcome) ==
  CASE outcome = "saved" -> Append(log, b)
    [] outcome = "partial" -> Append(log, Torn)
    [] outcome = "failed" -> log

Outcomes == {"saved", "partial", "failed"}

CountFault(outcome) ==
  \/ outcome = "saved" /\ UNCHANGED faultVars
  \/ /\ outcome # "saved"
     /\ faults < MaxFaults
     /\ faults' = faults + 1
     /\ writeFailed' = TRUE

--------------------------------------------------------------------------------
Init ==
  /\ blockLog = <<>>
  /\ witnessLog = <<>>
  /\ mode = "down"
  /\ validated = {Genesis}
  /\ recorded = {}
  /\ recordedWitnesses = {}
  /\ order = <<>>
  /\ witnesses = [b \in {} |-> 0]
  /\ saving = {}
  /\ current = Genesis
  /\ claims = [s \in Seed |-> Genesis]
  /\ made = {}
  /\ faults = 0
  /\ writeFailed = FALSE

\* sync_from_seeds over a schedule of ids whose witnesses in got are there: an id
\* whose parent is not validated is skipped.
Synced(v, schedule, got) ==
  FoldLeft(LAMBDA acc, b : IF b \in got /\ Parent[b] \in acc THEN acc \cup {b} ELSE acc,
           v, schedule)

\* boot: the archive is indexed from the records of both logs, then the fork choice
\* syncs from it.
ReplayArchive(blocks, proofs) ==
  LET o == FoldLeft(RecordCanonical, <<>>, blocks)
  IN /\ mode' = "up"
     /\ recorded' = Records(blocks)
     /\ order' = o
     /\ witnesses' = [b \in Records(proofs) |-> Len(o)]
     /\ validated' = Synced({Genesis}, o, Records(proofs))
     /\ UNCHANGED <<savingVars, worldVars, faultVars>>

Truncate ==
  /\ blockLog' = Complete(blockLog)
  /\ witnessLog' = Complete(witnessLog)

\* Mutants: torn tails stay where they are; the witnesses found on disk are not
\* marked as recorded.
BootUntruncated ==
  /\ mode = "down"
  /\ UNCHANGED diskVars
  /\ ReplayArchive(Complete(blockLog), Complete(witnessLog))
  /\ recordedWitnesses' = Records(Complete(witnessLog))

BootForgetful ==
  /\ mode = "down"
  /\ Truncate
  /\ ReplayArchive(Complete(blockLog), Complete(witnessLog))
  /\ recordedWitnesses' = {}

\* read_records cuts a torn tail off before anything else.  A record cut short
\* inside a log misframes what follows: its length swallows the rest, which is cut
\* off too, or ends in bytes that do not decode (BootRefused).  The sources, the
\* seed server and the API are set up then; the catch-up boot ends with is the
\* first tick.
Boot ==
  /\ mode = "down"
  /\ Truncate
  /\ ReplayArchive(Complete(blockLog), Complete(witnessLog))
  /\ recordedWitnesses' = Records(Complete(witnessLog))

BootRefused ==
  /\ mode = "down"
  /\ ~ (Readable(blockLog) /\ Readable(witnessLog))
  /\ mode' = "refused"
  /\ UNCHANGED <<diskVars, validated, archiveVars, savingVars, worldVars, faultVars>>

Forget ==
  /\ mode' = "down"
  /\ validated' = {Genesis}
  /\ recorded' = {}
  /\ recordedWitnesses' = {}
  /\ order' = <<>>
  /\ witnesses' = [b \in {} |-> 0]
  /\ saving' = {}
  /\ current' = Genesis
  /\ faults < MaxFaults
  /\ faults' = faults + 1
  /\ UNCHANGED <<worldVars, writeFailed>>

Crash ==
  /\ mode = "up"
  /\ Forget
  /\ UNCHANGED diskVars

\* The process dies inside an append.
CrashInAppend ==
  /\ mode = "up"
  /\ \/ /\ current = Genesis
        /\ \E b \in saving \ recorded : Lowest(b)
        /\ blockLog' = Append(blockLog, Torn)
        /\ UNCHANGED witnessLog
     \/ /\ current \notin recordedWitnesses \cup {Genesis}
        /\ witnessLog' = Append(witnessLog, Torn)
        /\ UNCHANGED blockLog
  /\ Forget

--------------------------------------------------------------------------------
(* One tick: watch, seed schedule, producer; any of them may have nothing to do *)

Idle == mode = "up" /\ saving = {}

\* lookup: the archive is asked first, then the seeds.
LookupFinds(b) == b \in recorded \/ \E s \in Seed : b \in Anc(claims[s])

\* The anchor watch activates a block of the archive or of a seed.  Nothing is
\* persisted: there is no witness to keep.
WatchActivates(b) ==
  /\ Idle
  /\ b \notin validated
  /\ Parent[b] \in validated
  /\ LookupFinds(b)
  /\ validated' = validated \cup {b}
  /\ UNCHANGED <<diskVars, mode, archiveVars, savingVars, worldVars, faultVars>>

\* The witnesses of the branch of s that a pass fetched, and remembers.
Seen(s, missing) == Anc(claims[s]) \ ({Genesis} \cup missing \cup validated)

\* Mutant: an id that the archive holds is not fetched again.
SyncFromUnrecorded(s, missing) ==
  /\ Idle
  /\ LET schedule == Tail(Path[claims[s]])
         got == Seen(s, missing) \ recorded
     IN /\ validated' = Synced(validated, schedule, got)
        /\ saving' = got \cap validated'
  /\ UNCHANGED <<diskVars, mode, archiveVars, current, worldVars, faultVars>>

\* drive_seed_sync: the pages come from one seed s, the first that answers; no
\* seed serves the witnesses in missing.  What was fetched and then validated is
\* persisted in the order of the schedule, which is by height (persist_witnessed).
SyncFrom(s, missing) ==
  /\ Idle
  /\ LET schedule == Tail(Path[claims[s]])
         got == Seen(s, missing)
     IN /\ validated' = Synced(validated, schedule, got)
        /\ saving' = got \cap validated'
  /\ UNCHANGED <<diskVars, mode, archiveVars, current, worldVars, faultVars>>

\* produce_one: a new block on the tip.
Produce(b) ==
  /\ Idle
  /\ b \in Mine \ made
  /\ Parent[b] = CanonicalTip
  /\ made' = made \cup {b}
  /\ validated' = validated \cup {b}
  /\ saving' = {b}
  /\ UNCHANGED <<diskVars, mode, archiveVars, current, claims, faultVars>>

\* persist_one, first half: archive and block log, once per id.
PersistBlock ==
  /\ mode = "up"
  /\ current = Genesis
  /\ \E b \in saving :
       /\ Lowest(b)
       /\ current' = b
       /\ \/ /\ b \in recorded
             /\ UNCHANGED <<recorded, order, witnesses, blockLog, faultVars>>
          \/ /\ b \notin recorded
             /\ recorded' = recorded \cup {b}
             /\ order' = RecordCanonical(order, b)
             /\ witnesses' = Prune(witnesses, order')
             /\ \E outcome \in Outcomes :
                  /\ blockLog' = Appended(blockLog, b, outcome)
                  /\ CountFault(outcome)
  /\ UNCHANGED <<mode, validated, recordedWitnesses, saving, worldVars, witnessLog>>

\* persist_one, second half: the witness.
PersistWitness ==
  /\ mode = "up"
  /\ current # Genesis
  /\ current' = Genesis
  /\ saving' = saving \ {current}
  /\ \/ /\ current \in recordedWitnesses
        /\ UNCHANGED <<recordedWitnesses, witnesses, witnessLog, faultVars>>
     \/ /\ current \notin recordedWitnesses
        /\ recordedWitnesses' = recordedWitnesses \cup {current}
        /\ witnesses' = [x \in DOMAIN witnesses \cup {current} |->
                           IF x = current THEN Len(order) ELSE witnesses[x]]
        /\ \E outcome \in Outcomes :
             /\ witnessLog' = Appended(witnessLog, current, outcome)
             /\ CountFault(outcome)
  /\ UNCHANGED <<mode, validated, recorded, order, worldVars, blockLog>>

\* A seed moves to another tip, which may build on this node's blocks.
SeedMoves(s, b) ==
  /\ \A x \in Anc(b) : Reachable(x)
  /\ claims' = [claims EXCEPT ![s] = b]
  /\ UNCHANGED <<diskVars, mode, validated, archiveVars, savingVars, made, faultVars>>

Next ==
  \/ Boot
  \/ BootRefused
  \/ Crash
  \/ CrashInAppend
  \/ PersistBlock
  \/ PersistWitness
  \/ \E b \in Block : WatchActivates(b) \/ Produce(b)
  \/ \E s \in Seed, b \in Block : SeedMoves(s, b)
  \/ \E s \in Seed : \E missing \in SUBSET (Anc(claims[s]) \ validated) : SyncFrom(s, missing)

\* A process that died is started again and a call ends.  The schedule runs on
\* every tick, so in the end a pass over the first seed gets all it asks for.
Fairness ==
  /\ WF_vars(Boot \/ BootRefused)
  /\ WF_vars(PersistBlock)
  /\ WF_vars(PersistWitness)
  /\ SF_vars(SyncFrom(FirstSeed, {}))

Spec == Init /\ [][Next]_vars /\ Fairness
--------------------------------------------------------------------------------
(* Properties *)

\* Types of disk, memory and world.
TypeOK ==
  /\ blockLog \in Seq(Block \cup {Torn})
  /\ witnessLog \in Seq(Block \cup {Torn})
  /\ mode \in {"down", "up", "refused"}
  /\ validated \subseteq Id
  /\ recorded \subseteq Block
  /\ recordedWitnesses \subseteq Block
  /\ order \in Seq(Block)
  /\ DOMAIN witnesses \subseteq recordedWitnesses
  /\ saving \subseteq Block
  /\ current \in saving \cup {Genesis}
  /\ claims \in [Seed -> Id]
  /\ made \subseteq Mine
  /\ faults \in 0 .. MaxFaults
  /\ writeFailed \in BOOLEAN

Once(log) ==
  \A i, j \in DOMAIN log : log[i] = log[j] /\ log[i] # Torn => i = j

\* Across crashes and restarts each log names a block once, and a witness is never
\* there without its block ("Idempotent by id", node.rs:704; persist_one writes the
\* block first), unless an append of a live node failed.
LogsPaired ==
  /\ Once(blockLog)
  /\ Once(witnessLog)
  /\ ~ writeFailed => Records(witnessLog) \subseteq Records(blockLog)

\* store.rs:22: a crash in an append costs the record it cut short and nothing
\* else; whatever the crashes, boot accepts the logs.
CrashNeverRefuses == ~ writeFailed => mode # "refused"

\* What the node serves is what a restart would rebuild: the canonical order and
\* the ids of a live SeedCore are the replay of the log, and pruning has dropped
\* no witness of a block that order names.
ArchiveIsLog ==
  mode = "up" /\ ~ writeFailed =>
    /\ recorded = Records(blockLog)
    /\ order = FoldLeft(RecordCanonical, <<>>, Complete(blockLog))
    /\ recordedWitnesses = Records(witnessLog)
    /\ \A i \in DOMAIN order :
         order[i] \in recordedWitnesses => order[i] \in DOMAIN witnesses

\* Blocks whose branch lies on disk in full, proofs of work included.
Durable ==
  {b \in Block : Anc(b) \ {Genesis} \subseteq Records(blockLog) \cap Records(witnessLog)}

\* node_runner_merge_mining.rs:107 "resumes at the persisted tip", with a crash
\* anywhere: a producer without seeds, at constant difficulty, comes back with
\* everything it persisted.
SoloResumes ==
  mode = "up" /\ ~ writeFailed /\ (\A s \in Seed : claims[s] = Genesis) =>
    Durable \subseteq validated

\* What a node comes up with is what its logs hold.
NodeResumes == TypeOK /\ ArchiveIsLog /\ SoloResumes

\* The node ends up with the chain that the seed it asks first stays on, whatever
\* was cut short on the way; a block on disk without its witness is fetched again.
FollowsFirstSeed ==
  \A b \in Block :
    <>[](claims[FirstSeed] = b) => <>[](b \in validated \/ mode = "refused")
================================================================================
