------------------------------ MODULE AnchorWatch ------------------------------
(***************************************************************************)
(* The Ergo anchor watch (aegis-node/src/anchor_watch.rs) with the header  *)
(* follower (ergo_follow.rs) it drives, the seed schedule (fresh_sync.rs)  *)
(* that runs between its passes, and the fork choice both feed.            *)
(*                                                                         *)
(* The fork choice is MmForkChoice, which this module extends: a share,    *)
(* anchor or body call is one of its actions and runs to its end before    *)
(* the pass goes on.  A pass holds the node alone; the Ergo node and the   *)
(* seeds move meanwhile.                                                   *)
(*                                                                         *)
(* Ergo headers are a fixed tree of PoW-valid headers of equal difficulty, *)
(* so cumulative work compares as height.  The header source is the live   *)
(* one: a page of the Ergo node's best chain, ascending (poll_http).       *)
(***************************************************************************)
EXTENDS MmForkChoice, Selection

CONSTANTS
  Header,       \* Ergo headers that may ever be mined
  NoHeader,
  ErgoParent,   \* parent_id; NoHeader below the followed root
  Height,
  ErgoAnc,      \* a header and the headers below it
  Commits,      \* the Aegis block a header's extension commits to
  NoBlock,      \* no AEGIS_MM_KEY field, or a malformed one
  Refused,      \* headers whose commitment verify_share rejects
  START,        \* ergo_start_height
  PAGE,         \* headers per batch
  K_LAG,        \* half-width of the C2 height window
  N_MINT,       \* confirmations of the settled reference
  MaxReorg      \* bound on the depth of an Ergo reorg

\* Parent links only lead down, to the followed root height, so they determine
\* the headers below a header.
ASSUME ErgoAssumption ==
  /\ NoHeader \notin Header
  /\ NoBlock \notin Block
  /\ ErgoParent \in [Header -> Header \cup {NoHeader}]
  /\ Height \in [Header -> ErgoHeight]
  /\ \A e \in Header :
       IF ErgoParent[e] = NoHeader THEN Height[e] = START
                                   ELSE Height[e] = Height[ErgoParent[e]] + 1
  /\ ErgoAnc \in [Header -> SUBSET Header]
  /\ \A e \in Header :
       ErgoAnc[e] =
         {e} \cup (IF ErgoParent[e] = NoHeader THEN {} ELSE ErgoAnc[ErgoParent[e]])
  /\ Commits \in [Header -> Block \cup {NoBlock}]
  /\ Refused \subseteq Header
  /\ {START, K_LAG, N_MINT, MaxReorg} \subseteq Nat
  /\ PAGE \in Nat \ {0}
  /\ "good" \in Bodies

VARIABLES
  ergoTip,      \* tip of the Ergo node's best chain
  served,       \* Aegis blocks the archive or a seed serves in full
  followed,     \* Follower.headers
  followTip,    \* Follower.best_tip
  unscanned,    \* headers whose extension fields were not obtained yet
  unresolved,   \* commitments without Aegis block or validated parent
  pass,         \* where a drive is: "idle", "rescan", "resolve", "fetch", "apply"
  todo,         \* what the current stage of the pass has left
  calls         \* fork-choice calls of the item at hand

ergoVars == <<ergoTip, served>>
followVars == <<followed, followTip>>
bufferVars == <<unscanned, unresolved>>
passVars == <<pass, todo>>
watchVars == <<vars, ergoVars, followVars, bufferVars, passVars, calls>>

--------------------------------------------------------------------------------
(* The follower *)

BestChain(tip) == IF tip = NoHeader THEN {} ELSE ErgoAnc[tip]

TipHeight == Height[followTip]

\* apply_verified_header of a header that is not a duplicate.
Accepted(e) ==
  \/ followed = {}
  \/ ErgoParent[e] \in followed

HeavierTip(e) == followTip = NoHeader \/ Height[e] > TipHeight

\* Mutant: the newest followed header is taken for settled.
TipAsSettled(h) ==
  /\ followTip # NoHeader
  /\ h = TipHeight

\* settled_reference: h is the height N_MINT below the tip, if followed so far.
SettledHeight(h) ==
  /\ followTip # NoHeader
  /\ h = TipHeight - N_MINT
  /\ \E e \in BestChain(followTip) : Height[e] = h

--------------------------------------------------------------------------------
(* Resolving a commitment *)

Item(e, best) == [header |-> e, best |-> best]

AboveWindow(u) == Height[u.header] >= TipHeight - K_LAG
Recent(items) == Picked(items, {i \in DOMAIN items : AboveWindow(items[i])})

\* verify_share with the window around tip; without the parent's DAA view there
\* is nothing to check the target against.
VerifyShare(e, tip) ==
  /\ e \notin Refused
  /\ Height[tip] - K_LAG <= Height[e]
  /\ Height[e] <= Height[tip] + 1
  /\ Parent[Commits[e]] \in nodes

\* Mutant: a commitment whose parent is not validated is given up.
DeferredIfUnknown(b) == b \notin served

\* No block to verify the share with, or no DAA view to verify it against.
Deferred(b) == b \notin served \/ Parent[b] \notin nodes

FeedShare(e) == [op |-> "share", id |-> Commits[e], height |-> Height[e]]
FeedAnchor(e) == [op |-> "anchor", id |-> Commits[e], height |-> Height[e]]
FeedBody(e) == [op |-> "body", id |-> Commits[e], height |-> Height[e]]

WatchFeed(u) ==
  IF u.best THEN <<FeedShare(u.header), FeedAnchor(u.header), FeedBody(u.header)>>
            ELSE <<FeedShare(u.header), FeedBody(u.header)>>

\* resolve_and_feed; the calls it makes on the fork choice follow one by one.
ResolveAndFeed(u, tip) ==
  \/ /\ Deferred(Commits[u.header])
     /\ unresolved' = Append(unresolved, u)
     /\ calls' = <<>>
  \/ /\ ~ Deferred(Commits[u.header])
     /\ unresolved' = unresolved
     /\ calls' = IF VerifyShare(u.header, tip) THEN WatchFeed(u) ELSE <<>>

\* scan_one once the extension fields are there and authenticate.
Scan(u, tip) ==
  \/ /\ Commits[u.header] = NoBlock
     /\ UNCHANGED <<unresolved, calls>>
  \/ /\ Commits[u.header] # NoBlock
     /\ ResolveAndFeed(u, tip)

--------------------------------------------------------------------------------
WatchInit ==
  /\ Init
  /\ ergoTip = NoHeader
  /\ served = {}
  /\ followed = {}
  /\ followTip = NoHeader
  /\ unscanned = <<>>
  /\ unresolved = <<>>
  /\ pass = "idle"
  /\ todo = <<>>
  /\ calls = <<>>

(* The world around the node *)

\* The Ergo node moves to a heavier tip, at most MaxReorg blocks of its chain back.
ErgoMoves(e) ==
  /\ ergoTip # NoHeader => Height[e] > Height[ergoTip]
  /\ Cardinality(BestChain(ergoTip) \ ErgoAnc[e]) <= MaxReorg
  /\ ergoTip' = e
  /\ UNCHANGED <<vars, served, followVars, bufferVars, passVars, calls>>

\* A block comes to be served in full.
Serve(b) ==
  /\ b \notin served
  /\ served' = served \cup {b}
  /\ UNCHANGED <<vars, ergoTip, followVars, bufferVars, passVars, calls>>

--------------------------------------------------------------------------------
(* The calls into the fork choice *)

Free == calls = <<>> /\ phase = "idle"

\* ingest_share that changes nothing: dead, or known with no later height.
IngestOldShare(b, h) ==
  /\ b \in dead \/ (b \in nodes /\ ergo[b] <= h)
  /\ UNCHANGED vars

IngestOldBody(b) ==
  /\ b \in nodes \cup dead
  /\ UNCHANGED vars

Call ==
  /\ calls # <<>>
  /\ phase = "idle"
  /\ LET c == Head(calls)
     IN \/ /\ c.op = "share"
           /\ \/ IngestNewShare(c.id, c.height)
              \/ IngestKnownShare(c.id, c.height)
              \/ IngestOldShare(c.id, c.height)
        \/ /\ c.op = "anchor"
           /\ RecordAnchor(c.id, c.height)
        \/ /\ c.op = "body"
           /\ \/ IngestBody(c.id, "good")
              \/ IngestDeadBody(c.id, "good")
              \/ IngestOldBody(c.id)
  /\ calls' = Tail(calls)
  /\ UNCHANGED <<ergoVars, followVars, bufferVars, passVars>>

\* The fork choice works on the call in progress.
ForkChoiceStep ==
  /\ Steps
  /\ UNCHANGED <<ergoVars, followVars, bufferVars, passVars, calls>>

--------------------------------------------------------------------------------
(* One drive *)

\* retry_inner: expire what the window has passed, then rescan the rest.  An
\* empty follower has nothing to retry.
BeginDrive ==
  /\ Free
  /\ pass = "idle"
  /\ IF followTip = NoHeader
     THEN /\ pass' = "fetch"
          /\ UNCHANGED <<bufferVars, todo>>
     ELSE /\ pass' = "rescan"
          /\ todo' = Recent(unscanned)
          /\ unscanned' = <<>>
          /\ unresolved' = Recent(unresolved)
  /\ UNCHANGED <<vars, ergoVars, followVars, calls>>

Rescan ==
  /\ Free
  /\ pass = "rescan"
  /\ todo # <<>>
  /\ Scan(Head(todo), followTip)
  /\ todo' = Tail(todo)
  /\ UNCHANGED <<vars, ergoVars, followVars, unscanned, pass>>

\* The block source fails: this header and the ones behind it are kept, and the
\* error ends the pass before it fetches new headers.
RescanFails ==
  /\ Free
  /\ pass = "rescan"
  /\ todo # <<>>
  /\ unscanned' = unscanned \o todo
  /\ pass' = "idle"
  /\ todo' = <<>>
  /\ UNCHANGED <<vars, ergoVars, followVars, unresolved, calls>>

RescanDone ==
  /\ Free
  /\ pass = "rescan"
  /\ todo = <<>>
  /\ pass' = "resolve"
  /\ todo' = unresolved
  /\ unresolved' = <<>>
  /\ UNCHANGED <<vars, ergoVars, followVars, unscanned, calls>>

Resolve ==
  /\ Free
  /\ pass = "resolve"
  /\ todo # <<>>
  /\ ResolveAndFeed(Head(todo), followTip)
  /\ todo' = Tail(todo)
  /\ UNCHANGED <<vars, ergoVars, followVars, unscanned, pass>>

ResolveDone ==
  /\ Free
  /\ pass = "resolve"
  /\ todo = <<>>
  /\ pass' = "fetch"
  /\ UNCHANGED <<vars, ergoVars, followVars, bufferVars, todo, calls>>

\* next_headers from the height after the tip, or the start height.
Batch ==
  LET from == IF followTip = NoHeader THEN START ELSE TipHeight + 1
      best == IF ergoTip = NoHeader THEN START - 1 ELSE Height[ergoTip]
      last == MinOf(from + PAGE - 1, best)
  IN [i \in 1 .. last - from + 1 |->
        CHOOSE e \in BestChain(ergoTip) : Height[e] = from + i - 1]

Fetch ==
  /\ Free
  /\ pass = "fetch"
  /\ pass' = "apply"
  /\ todo' = Batch
  /\ UNCHANGED <<vars, ergoVars, followVars, bufferVars, calls>>

FetchFails ==
  /\ Free
  /\ pass = "fetch"
  /\ pass' = "idle"
  /\ UNCHANGED <<vars, ergoVars, followVars, bufferVars, todo, calls>>

NextTip(e) == IF HeavierTip(e) THEN e ELSE followTip

\* apply_verified_header of an accepted header; an equal branch keeps the tip.
Follow(e) ==
  /\ Accepted(e)
  /\ followed' = followed \cup {e}
  /\ followTip' = NextTip(e)

\* A header joins the follower and its extension is scanned, against the window
\* of the new tip.
Apply ==
  /\ Free
  /\ pass = "apply"
  /\ todo # <<>>
  /\ LET e == Head(todo)
     IN /\ Follow(e)
        /\ Scan(Item(e, HeavierTip(e)), NextTip(e))
  /\ todo' = Tail(todo)
  /\ UNCHANGED <<vars, ergoVars, unscanned, pass>>

\* Mutant: the header is followed and not kept.
ApplyForgotten ==
  /\ Free
  /\ pass = "apply"
  /\ todo # <<>>
  /\ Follow(Head(todo))
  /\ pass' = "idle"
  /\ todo' = <<>>
  /\ UNCHANGED <<vars, ergoVars, bufferVars, calls>>

\* The block source fails: the header is followed and kept for a rescan, the
\* rest of the batch is fetched again from the new tip.
ApplyUnscanned ==
  /\ Free
  /\ pass = "apply"
  /\ todo # <<>>
  /\ LET e == Head(todo)
     IN /\ Follow(e)
        /\ unscanned' = Append(unscanned, Item(e, HeavierTip(e)))
  /\ pass' = "idle"
  /\ todo' = <<>>
  /\ UNCHANGED <<vars, ergoVars, unresolved, calls>>

\* FollowError::UnknownParent: the header after the tip is on another branch.
ApplyFails ==
  /\ Free
  /\ pass = "apply"
  /\ todo # <<>>
  /\ ~ Accepted(Head(todo))
  /\ pass' = "idle"
  /\ todo' = <<>>
  /\ UNCHANGED <<vars, ergoVars, followVars, bufferVars, calls>>

ApplyDone ==
  /\ Free
  /\ pass = "apply"
  /\ todo = <<>>
  /\ pass' = "idle"
  /\ UNCHANGED <<vars, ergoVars, followVars, bufferVars, todo, calls>>

--------------------------------------------------------------------------------
(* Between two drives *)

\* Mutant: the Ergo block of a seed's witness is taken for an inclusion.
SyncFeedAnchor(e) == <<FeedShare(e), FeedAnchor(e), FeedBody(e)>>

SyncFeed(e) == <<FeedShare(e), FeedBody(e)>>

\* sync_one: a seed serves block and witness; e need not be on the Ergo chain,
\* only not ahead of the follower.
SyncOne(e) ==
  /\ Free
  /\ pass = "idle"
  /\ Commits[e] \in served \ (nodes \cup dead)
  /\ Parent[Commits[e]] \in nodes
  /\ e \notin Refused
  /\ followTip # NoHeader => Height[e] <= TipHeight + 1
  /\ calls' = SyncFeed(e)
  /\ UNCHANGED <<vars, ergoVars, followVars, bufferVars, passVars>>

\* settled_is_final
ApproveSettled(b) ==
  /\ Free
  /\ pass = "idle"
  /\ \E h \in ErgoHeight : SettledHeight(h) /\ Approve(b, h)
  /\ UNCHANGED <<ergoVars, followVars, bufferVars, passVars, calls>>

PassSteps ==
  \/ BeginDrive
  \/ Rescan
  \/ RescanDone
  \/ Resolve
  \/ ResolveDone
  \/ Fetch
  \/ Apply
  \/ ApplyFails
  \/ ApplyDone

Failures ==
  \/ RescanFails
  \/ FetchFails
  \/ ApplyUnscanned

WatchNext ==
  \/ \E e \in Header : ErgoMoves(e) \/ SyncOne(e)
  \/ \E b \in Block : Serve(b) \/ ApproveSettled(b)
  \/ Call
  \/ ForkChoiceStep
  \/ PassSteps
  \/ Failures

\* The node ticks for ever and calls end; a source that fails is not down for
\* ever, so a scan and a fetch that are tried again and again succeed.
Fairness ==
  /\ WF_watchVars(Call)
  /\ WF_watchVars(ForkChoiceStep)
  /\ WF_watchVars(PassSteps \/ Failures)
  /\ SF_watchVars(Rescan)
  /\ SF_watchVars(Fetch)
  /\ SF_watchVars(Apply)

WatchSpec == WatchInit /\ [][WatchNext]_watchVars /\ Fairness
--------------------------------------------------------------------------------
(* Properties *)

Headers(items) == {items[i].header : i \in DOMAIN items}

OpType ==
  [op : {"share", "anchor", "body"}, id : Block, height : ErgoHeight]

\* Types of the watch, its follower and the fork choice.
WatchTypeOK ==
  /\ TypeOK
  /\ ergoTip \in Header \cup {NoHeader}
  /\ served \subseteq Block
  /\ followed \subseteq Header
  /\ followTip \in followed \cup {NoHeader}
  /\ unscanned \in Seq([header : followed, best : BOOLEAN])
  /\ unresolved \in Seq([header : followed, best : BOOLEAN])
  /\ pass \in {"idle", "rescan", "resolve", "fetch", "apply"}
  /\ calls \in Seq(OpType)

\* Headers whose commitment is still to be dealt with.
Held ==
  Headers(unscanned) \cup Headers(unresolved)
    \cup (IF pass \in {"rescan", "resolve"} THEN Headers(todo) ELSE {})

BeingFed(e) ==
  \E i \in DOMAIN calls : calls[i] = FeedShare(e)

Fed(e) ==
  \/ Commits[e] \in dead
  \/ Commits[e] \in DOMAIN shares /\ shares[Commits[e]] <= Height[e]

\* No commitment falls between the buffers, whatever fails and wherever a pass
\* ends: every followed header has been fed, waits in a buffer, or has left the
\* window (drive: "all fork-choice and buffer effects up to the failure are
\* applied and consistent").
NoCommitmentLost ==
  \A e \in followed \ Refused :
    Commits[e] # NoBlock =>
      Fed(e) \/ BeingFed(e) \/ e \in Held \/ Height[e] < TipHeight - K_LAG

\* Nothing is lost, and what is kept is well formed.
CommitmentsKept == WatchTypeOK /\ NoCommitmentLost

\* Every anchor is an inclusion on the chain the follower is on, never a mere
\* candidate a seed's witness carried (record_anchor only when on_best_chain).
AnchorIsInclusion ==
  \A b \in DOMAIN anchors :
    \E e \in BestChain(followTip) : Commits[e] = b /\ Height[e] = anchors[b]

\* What settled_is_final approved has an inclusion, of it or of a descendant, in
\* the chain the Ergo node follows now, although that chain reorganises by up to
\* MaxReorg = N_MINT blocks and the follower may be behind or cut off.
ApprovedIsSettled ==
  \A a \in approved :
    \E e \in BestChain(ergoTip) : Commits[e] # NoBlock /\ a.id \in Anc(Commits[e])

\* A branch all of whose blocks are served and committed to by followed headers.
Complete(b) ==
  \A x \in Anc(b) \ {Genesis} :
    /\ x \in served
    /\ \E e \in followed \ Refused : Commits[e] = x

SomeExpired(b) ==
  \E e \in followed :
    Commits[e] \in Anc(b) /\ Height[e] < TipHeight - K_LAG

\* A branch that is served and committed to is validated in the end, in whatever
\* order its commitments and blocks turned up and whatever failed on the way,
\* unless a commitment of it left the window first (retry buffers).
CommittedActivates ==
  \A b \in Block : Complete(b) ~> (b \in nodes \/ SomeExpired(b))

===============================================================================
