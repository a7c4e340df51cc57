-------------------------------- MODULE SeedTier --------------------------------
(***************************************************************************)
(* The body-availability tier (aegis-node/src/seed.rs): one seed, Home,    *)
(* whose archive its node writes and whose single thread answers requests  *)
(* under the archive's lock, and a client that asks the configured seeds   *)
(* one after the other.  Every other seed answers whatever it likes.       *)
(*                                                                         *)
(* A body is a header id and what its other parts recompute to; bytes that *)
(* do not decode and bytes of another block are dropped alike, so both are *)
(* bodies that do not authenticate.                                        *)
(***************************************************************************)
EXTENDS Integers, Sequences, FiniteSets, SequencesExt

CONSTANTS
  Block, Genesis,
  Parent, Height,             \* header.prev_id, header.height
  Seeds,                      \* SeedClientConfig.seed_urls, in preference order
  Home,                       \* the seed whose server is modelled
  Requests,                   \* what the client may ask: <<kind, ids>>
  Served,                     \* bodies the other seeds serve, under any id
  TIPS_RECENT_LEN, CHAIN_PAGE_MAX, MAX_BODIES_PER_BATCH, PENDING_WITNESS_RETENTION,
  MaxConnections,             \* bound on connections of other clients
  MaxRecords                  \* bound on writes to the archive

VARIABLES
  canonical,   \* SeedCore.canonical
  bodies,      \* ids SeedCore.bodies has
  witnesses,   \* SeedCore.witnesses: id -> seen_at_height
  writer,      \* the node's thread: <<>>, or <<a write waiting for the lock>>
  backlog,     \* accepted by the kernel, not yet by the thread
  handling,    \* the connection in handle_connection: <<>> or <<it>>
  stage,       \* "accept" | "head" | "lock" | "body" | "respond" | "joined"
  stop,        \* SeedServer.stop
  job,         \* the client's call: <<>> or <<it>>
  strangers, records

archiveVars == <<canonical, bodies, witnesses, writer, records>>
serverVars == <<backlog, handling, stage, stop, strangers>>
seedVars == <<archiveVars, serverVars, job>>

--------------------------------------------------------------------------------
(* SeedCore *)

HeightNow == Len(canonical)

\* record_canonical: ids, in height order, with what stood there or above displaced
RecordCanonical(b) ==
  IF Height[b] - 1 <= HeightNow
  THEN Append(SubSeq(canonical, 1, Height[b] - 1), b) ELSE canonical

\* prune_stale_witnesses
Prune(ws, order) ==
  LET kept == {b \in DOMAIN ws : \/ Len(order) < PENDING_WITNESS_RETENTION
                                 \/ b \in ToSet(order)
                                 \/ ws[b] >= Len(order) - PENDING_WITNESS_RETENTION}
  IN [b \in kept |-> ws[b]]

Write(w) ==
  IF w.kind = "body"
  THEN /\ canonical' = RecordCanonical(w.block)
       /\ bodies' = bodies \cup {w.block}
       /\ witnesses' = Prune(witnesses, canonical')
  ELSE /\ witnesses' = [b \in DOMAIN witnesses \cup {w.block} |->
                          IF b = w.block THEN HeightNow ELSE witnesses[b]]
       /\ UNCHANGED <<canonical, bodies>>

Tips ==
  [tip |-> IF canonical = <<>> THEN Genesis ELSE Last(canonical),
   height |-> HeightNow,
   recent |-> SubSeq(canonical, IF HeightNow > TIPS_RECENT_LEN
                                THEN HeightNow - TIPS_RECENT_LEN + 1 ELSE 1, HeightNow)]

\* chain_page, from height h on, which counts from one
ChainPage(h, limit) ==
  LET start == IF h = 0 THEN 1 ELSE h
      end == start - 1 + (IF limit < CHAIN_PAGE_MAX THEN limit ELSE CHAIN_PAGE_MAX)
  IN SubSeq(canonical, start, IF end < HeightNow THEN end ELSE HeightNow)

--------------------------------------------------------------------------------
(* Bodies, witnesses, responses *)

Body(b) == [id |-> b, tx_root_fits |-> TRUE, claim_fits |-> TRUE]

\* body_self_authenticates
BodySelfAuthenticates(id, body) == body.id = id /\ body.tx_root_fits /\ body.claim_fits

\* A share witness carries a block; whether its work counts is for its ingestion.
Witness(b) == [block |-> Body(b)]

Status(s) == [status |-> s]
Ok(data) == [status |-> "ok", data |-> data]

\* The routes of a request: serve_item, tips, chain, bodies.
Answer(req) ==
  CASE req.kind = "body" ->
         IF req.ids[1] \in bodies THEN Ok(<<Body(req.ids[1])>>) ELSE Status("not_found")
    [] req.kind = "witness" ->
         IF req.ids[1] \in DOMAIN witnesses
         THEN Ok(<<Witness(req.ids[1])>>) ELSE Status("not_found")
    [] req.kind = "tips" -> Ok(<<Tips>>)
    [] req.kind = "chain" -> Ok(<<ChainPage(1, CHAIN_PAGE_MAX)>>)
    [] req.kind = "bodies" ->
         IF Len(req.ids) > MAX_BODIES_PER_BATCH THEN Status("bad_request")
         ELSE Ok([i \in DOMAIN req.ids |->
                    IF req.ids[i] \in bodies THEN <<Body(req.ids[i])>> ELSE <<>>])
    [] OTHER -> Status("not_found")

\* Whatever a seed may answer: no response, an error, bytes past the cap or not of the
\* kind asked for, or items of its choice.
AnyAnswer(req) ==
  {Status(s) : s \in {"network", "not_found", "server_error", "junk"}}
    \cup CASE req.kind = "body" -> {Ok(<<x>>) : x \in Served}
           [] req.kind = "witness" -> {Ok(<<[block |-> x]>>) : x \in Served}
           [] req.kind = "tips" ->
                {Ok(<<[tip |-> b, height |-> Height[b], recent |-> <<b>>]>>) : b \in Block}
           [] req.kind = "chain" -> {Ok(<<ids>>) : ids \in {<<>>} \cup {<<b>> : b \in Block}}
           [] req.kind = "bodies" ->
                {Ok(fs) : fs \in UNION {[1 .. n -> {<<>>} \cup {<<x>> : x \in Served}] :
                                          n \in {Len(req.ids), Len(req.ids) - 1}}}

--------------------------------------------------------------------------------
(* RestAegisSource: one call, which asks the seeds from the first on *)

Call(kind, ids) ==
  [kind |-> kind, ids |-> ids,
   chunk |-> 0,                            \* ids before the batch being asked for
   seed |-> 1,                             \* the next seed to ask
   waiting |-> FALSE,
   out |-> [i \in DOMAIN ids |-> <<>>],
   hints |-> <<>>,                         \* tips claims so far, or the page
   all404 |-> TRUE, answered |-> FALSE,
   verdict |-> "none",                     \* "ok" | "not_found" | "failed"
   held |-> {}, lost |-> FALSE]            \* observers: what Home had at the start,
                                           \* and whether a request to it was lost

Min2(a, b) == IF a < b THEN a ELSE b

\* Positions of the batch that no seed has filled yet.
Missing(j) ==
  SelectSeq([k \in 1 .. Min2(MAX_BODIES_PER_BATCH, Len(j.ids) - j.chunk) |-> j.chunk + k],
            LAMBDA i : j.out[i] = <<>>)

AskedOf(j) == IF j.kind = "bodies" THEN Missing(j) ELSE [i \in DOMAIN j.ids |-> i]

Request(j) ==
  [kind |-> j.kind, ids |-> [k \in DOMAIN AskedOf(j) |-> j.ids[AskedOf(j)[k]]]]

NextSeed(j) == [j EXCEPT !.seed = @ + 1, !.waiting = FALSE]

\* decode_body_for, decode_witness_for: anything else is an error of the seed's bytes
DecodeBodyFor(id, body) == IF BodySelfAuthenticates(id, body) THEN <<body>> ELSE <<>>
DecodeWitnessFor(id, witness) == IF witness.block.id = id THEN <<witness>> ELSE <<>>

\* fetch_body and fetch_witness on what one seed answered, out of which d was decoded
TakeItem(j, r, d) ==
  CASE r.status = "not_found" -> NextSeed(j)
    [] r.status = "ok" /\ d # <<>> ->
         [NextSeed(j) EXCEPT !.out = [@ EXCEPT ![1] = d], !.verdict = "ok"]
    [] OTHER -> [NextSeed(j) EXCEPT !.all404 = FALSE]

FetchBody(j, r) ==
  TakeItem(j, r, IF r.status = "ok" THEN DecodeBodyFor(j.ids[1], r.data[1]) ELSE <<>>)
FetchWitness(j, r) ==
  TakeItem(j, r, IF r.status = "ok" THEN DecodeWitnessFor(j.ids[1], r.data[1]) ELSE <<>>)

\* Mutant: a frame that does not authenticate is kept by its header id alone.
FramesById(asked, j, r) ==
  [i \in DOMAIN j.out |->
     IF \E k \in DOMAIN asked : asked[k] = i
     THEN LET frame == r.data[CHOOSE k \in DOMAIN asked : asked[k] = i]
          IN IF frame # <<>> /\ frame[1].id = j.ids[i] THEN frame ELSE <<>>
     ELSE j.out[i]]

\* The frames that authenticate, each for the position it answers.
Frames(asked, j, r) ==
  [i \in DOMAIN j.out |->
     IF \E k \in DOMAIN asked : asked[k] = i
     THEN LET frame == r.data[CHOOSE k \in DOMAIN asked : asked[k] = i]
          IN IF frame = <<>> THEN <<>> ELSE DecodeBodyFor(j.ids[i], frame[1])
     ELSE j.out[i]]

\* parse_bodies_frames: one frame for each id that was asked for, and nothing after them
ParseBodiesFrames(r, asked) == r.status = "ok" /\ Len(r.data) = Len(asked)

TakeFrames(j, r) ==
  LET asked == AskedOf(j)
  IN IF ParseBodiesFrames(r, asked)
     THEN [NextSeed(j) EXCEPT !.answered = TRUE, !.out = Frames(asked, j, r)]
     ELSE NextSeed(j)

\* tips keeps what every seed claims, chain_page the page of the first that answers.
TakeTips(j, r) ==
  [NextSeed(j) EXCEPT !.hints = IF r.status = "ok" THEN @ \o r.data ELSE @]
TakePage(j, r) ==
  IF r.status # "ok" THEN NextSeed(j)
  ELSE [NextSeed(j) EXCEPT !.hints = r.data, !.verdict = "ok"]

Take(j, r) ==
  CASE j.kind = "body" -> FetchBody(j, r)
    [] j.kind = "witness" -> FetchWitness(j, r)
    [] j.kind = "bodies" -> TakeFrames(j, r)
    [] j.kind = "tips" -> TakeTips(j, r)
    [] j.kind = "chain" -> TakePage(j, r)

\* The loop over the seeds, of this batch, is over.
Through(j) ==
  j.seed > Len(Seeds) \/ (j.kind = "bodies" /\ Missing(j) = <<>>)

Exhausted(j) == IF j.all404 /\ Seeds # <<>> THEN "not_found" ELSE "failed"

\* What follows it: exhausted, the next batch, or the answer.
Finish(j) ==
  CASE j.kind \in {"body", "witness"} -> [j EXCEPT !.verdict = Exhausted(j)]
    [] j.kind \in {"tips", "chain"} ->
         [j EXCEPT !.verdict = IF j.kind = "tips" /\ j.hints # <<>> THEN "ok" ELSE "failed"]
    [] j.kind = "bodies" ->
         LET next == j.chunk + MAX_BODIES_PER_BATCH
         IN CASE ~ j.answered /\ Missing(j) # <<>> -> [j EXCEPT !.verdict = "failed"]
              [] next >= Len(j.ids) -> [j EXCEPT !.verdict = "ok"]
              [] OTHER -> [j EXCEPT !.chunk = next, !.seed = 1, !.answered = FALSE]

Start ==
  /\ job = <<>>
  /\ \E q \in Requests : job' = <<[Call(q[1], q[2]) EXCEPT !.held = bodies]>>
  /\ UNCHANGED <<archiveVars, serverVars>>

Asking(j) == j.verdict = "none" /\ ~ j.waiting

AskHome(j) ==
  /\ Asking(j) /\ ~ Through(j) /\ Seeds[j.seed] = Home
  /\ job' = <<[j EXCEPT !.waiting = TRUE]>>
  /\ backlog' = Append(backlog, [who |-> "job", stalls |-> "no", req |-> Request(j)])
  /\ UNCHANGED <<archiveVars, handling, stage, stop, strangers>>

AskOther(j) ==
  /\ Asking(j) /\ ~ Through(j) /\ Seeds[j.seed] # Home
  /\ \E r \in AnyAnswer(Request(j)) : job' = <<Take(j, r)>>
  /\ UNCHANGED <<archiveVars, serverVars>>

EndOfSeeds(j) ==
  /\ Asking(j) /\ Through(j)
  /\ job' = <<Finish(j)>>
  /\ UNCHANGED <<archiveVars, serverVars>>

\* The client's own timeout, or no connection at all.
Unreached(j) ==
  /\ j.waiting
  /\ job' = <<[Take(j, Status("network")) EXCEPT !.lost = TRUE]>>
  /\ backlog' = [i \in DOMAIN backlog |-> [backlog[i] EXCEPT !.who = "gone"]]
  /\ handling' = [i \in DOMAIN handling |-> [handling[i] EXCEPT !.who = "gone"]]
  /\ UNCHANGED <<archiveVars, stage, stop, strangers>>

Client == \E i \in DOMAIN job : \/ AskHome(job[i]) \/ AskOther(job[i])
                                \/ EndOfSeeds(job[i]) \/ Unreached(job[i])

--------------------------------------------------------------------------------
(* SeedServer: one thread, one connection at a time *)

Reply(r) ==
  /\ handling' = <<>>
  /\ stage' = "accept"
  /\ job' = IF handling[1].who = "job" THEN <<Take(job[1], r)>> ELSE job

\* Another client, which may send nothing, or a head and then nothing.
Connect ==
  /\ strangers < MaxConnections
  /\ strangers' = strangers + 1
  /\ \E c \in {<<"malformed", "no">>} \cup {"bodies"} \X {"no", "head", "body"} :
       backlog' = Append(backlog, [who |-> "stranger", stalls |-> c[2],
                                   req |-> [kind |-> c[1], ids |-> <<CHOOSE b \in Block : TRUE>>]])
  /\ UNCHANGED <<archiveVars, handling, stage, stop, job>>

\* Drop: the flag, and a connection of its own to wake the thread.
Drop ==
  /\ ~ stop
  /\ stop' = TRUE
  /\ backlog' = Append(backlog, [who |-> "wake", stalls |-> "head",
                                 req |-> [kind |-> "malformed", ids |-> <<>>]])
  /\ UNCHANGED <<archiveVars, handling, stage, strangers, job>>

Accept ==
  /\ stage = "accept" /\ backlog # <<>>
  /\ backlog' = Tail(backlog)
  /\ IF stop THEN stage' = "joined" /\ UNCHANGED handling
             ELSE stage' = "head" /\ handling' = <<Head(backlog)>>
  /\ UNCHANGED <<archiveVars, stop, strangers, job>>

\* read_head, parse_head: what is malformed, or late, is answered without the lock.
ReadHead ==
  /\ stage = "head"
  /\ IF handling[1].stalls = "head" \/ handling[1].req.kind = "malformed"
     THEN Reply(Status("bad_request"))
     ELSE stage' = "lock" /\ UNCHANGED <<handling, job>>
  /\ UNCHANGED <<archiveVars, backlog, stop, strangers>>

\* core.read(): behind a writer that waits.
ReadLock ==
  /\ stage = "lock" /\ writer = <<>>
  /\ stage' = IF handling[1].req.kind = "bodies" THEN "body" ELSE "respond"
  /\ UNCHANGED <<archiveVars, backlog, handling, stop, strangers, job>>

\* Mutant: the ids of a batch are waited for however long they take.
ReadBodyPatiently ==
  /\ stage = "body"
  /\ handling[1].stalls # "body"
  /\ stage' = "respond"
  /\ UNCHANGED <<archiveVars, backlog, handling, stop, strangers, job>>

\* The ids of a batch are read from the socket under the lock.
ReadBody ==
  /\ stage = "body"
  /\ IF handling[1].stalls = "body"
     THEN Reply(Status("bad_request"))
     ELSE stage' = "respond" /\ UNCHANGED <<handling, job>>
  /\ UNCHANGED <<archiveVars, backlog, stop, strangers>>

Respond ==
  /\ stage = "respond"
  /\ Reply(Answer(handling[1].req))
  /\ UNCHANGED <<archiveVars, backlog, stop, strangers>>

Server == Accept \/ ReadHead \/ ReadLock \/ ReadBody \/ Respond

\* persist_one: every accepted block once, parents first, then its witness
WantWrite ==
  /\ writer = <<>> /\ records < MaxRecords
  /\ records' = records + 1
  /\ \E b \in Block :
       \/ /\ b \notin bodies /\ Parent[b] \in bodies \cup {Genesis}
          /\ writer' = <<[kind |-> "body", block |-> b]>>
       \/ /\ b \in bodies \ DOMAIN witnesses
          /\ writer' = <<[kind |-> "witness", block |-> b]>>
  /\ UNCHANGED <<canonical, bodies, witnesses, serverVars, job>>

WriteLock ==
  /\ writer # <<>> /\ stage \notin {"body", "respond"}
  /\ Write(writer[1])
  /\ writer' = <<>>
  /\ UNCHANGED <<records, serverVars, job>>

SeedInit ==
  /\ canonical = <<>> /\ bodies = {} /\ witnesses = <<>>
  /\ writer = <<>> /\ records = 0
  /\ backlog = <<>> /\ handling = <<>> /\ stage = "accept" /\ stop = FALSE /\ strangers = 0
  /\ job = <<>>

SeedNext ==
  \/ Start \/ Client
  \/ Connect \/ Drop \/ Server
  \/ WantWrite \/ WriteLock

\* The thread and the node's loop run; a call times out at the latest.
SeedFairness ==
  WF_seedVars(Server) /\ WF_seedVars(WriteLock) /\ WF_seedVars(Client)

SeedSpec == SeedInit /\ [][SeedNext]_seedVars /\ SeedFairness

--------------------------------------------------------------------------------
(* Properties *)

\* A seed can withhold, never forge (seed.rs:15-17): what a call returns for an id is
\* that block's body, whole, or a witness that carries its header, from whichever seeds
\* answered what; and a body the modelled seed had when the call began is found, whatever
\* the seeds before and after it answer, unless the request to it was lost.
WithholdNeverForge ==
  \A i \in DOMAIN job :
    LET j == job[i]
    IN j.verdict # "none" =>
         \A k \in DOMAIN j.out :
           /\ j.out[k] # <<>> =>
                CASE j.kind \in {"body", "bodies"} -> j.out[k][1] = Body(j.ids[k])
                  [] j.kind = "witness" -> j.out[k][1].block.id = j.ids[k]
           /\ (j.kind \in {"body", "bodies"} /\ j.ids[k] \in j.held /\ ~ j.lost) =>
                j.verdict = "ok" /\ j.out[k] # <<>>

\* A client that stops sending holds the thread, and the archive's lock with it, only
\* until the socket's timeout: the node's write returns, a call returns, and a server
\* that is dropped is joined (seed.rs:446-455, :466-484).
NobodyWaitsForever ==
  /\ (writer # <<>>) ~> (writer = <<>>)
  /\ (job # <<>>) ~> (\A i \in DOMAIN job : job[i].verdict # "none")
  /\ stop ~> (stage = "joined")
================================================================================
