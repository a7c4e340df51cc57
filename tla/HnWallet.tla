-------------------------------- MODULE HnWallet --------------------------------
(***************************************************************************)
(* The hash-native wallet (engine/wallet/src/wallet.rs) against a node: in *)
(* the node's own process, where a call sees one chain, or over HTTP,      *)
(* where every query of a call is a request of its own and blocks arrive   *)
(* between them (aegis-node/src/hn/http_client.rs).  The tools open a new  *)
(* wallet for every call (bridge-tools/src/hn.rs); a long-lived one scans  *)
(* from its cursor.                                                        *)
(*                                                                         *)
(* A nullifier is named by the leaf it belongs to, a root by the height it *)
(* is the root of.                                                         *)
(***************************************************************************)
EXTENDS Integers, Sequences, FiniteSets, SequencesExt, TLC

CONSTANTS
    Wallets,            \* wallet instances
    Remote,             \* those that reach the node over HTTP
    SeedOf,             \* the seed each instance opens
    Strangers,          \* seeds of no instance
    COINBASE_MATURITY, ROOT_WINDOW,
    Coinbase,           \* value of a coinbase note
    FlatFee, PegFee,
    Amounts,            \* amounts paid or withdrawn
    Genesis,            \* the notes of the genesis block: [owner, value]
    MaxHeight, MaxTxs   \* bounds of the model

VARIABLES
    outputs,   \* committed outputs, by leaf index
    spent,     \* leaves whose nullifier is on the chain
    tip,       \* height of the chain
    pool,      \* the mempool: transactions [in, root, out]
    made,      \* how many transactions were made
    notes,     \* per wallet: its notes, in the order found
    cursor,    \* per wallet: scan_cursor
    call,      \* per wallet: where its call is
    ownSpends  \* per wallet: the inputs of the transactions it made since opened

chainVars == <<outputs, spent, tip>>
vars == <<outputs, spent, tip, pool, made, notes, cursor, call, ownSpends>>

Seeds == {SeedOf[w] : w \in Wallets} \union Strangers

-----------------------------------------------------------------------------
(* Notes and their ciphertexts *)

(* owner: whose key the commitment names; to: who can open the ciphertext; *)
(* opening: what it says. A commitment is what it commits to. *)
Output(owner, to, value, coinbase, height) ==
  [cm |-> <<owner, value>>, ct |-> [to |-> to, value |-> value, aad |-> <<owner, value>>],
   coinbase |-> coinbase, height |-> height]

(* try_decrypt: the opening must give the commitment under the own owner. *)
TryDecrypt(seed, o) ==
  IF o.ct.to = seed /\ o.ct.aad = o.cm /\ <<seed, o.ct.value>> = o.cm
  THEN {o.ct.value} ELSE {}

(* outputs_since: the leaves from a cursor on. *)
OutputsSince(from) == [k \in 1 .. Len(outputs) - from |-> from + k]

Known(w, leaf) == \E k \in DOMAIN notes[w] : notes[w][k].leaf = leaf

(* scan, its first part: the notes among the outputs that came. *)
Found(w) ==
  LET seed == SeedOf[w]
      new  == SelectSeq(OutputsSince(cursor[w]),
                        LAMBDA i : ~Known(w, i) /\ TryDecrypt(seed, outputs[i]) # {})
  IN  [k \in DOMAIN new |->
         LET o == outputs[new[k]]
         IN  [leaf |-> new[k], value |-> CHOOSE v \in TryDecrypt(seed, o) : TRUE,
              spent |-> FALSE, mined |-> o.height, coinbase |-> o.coinbase]]

(* refresh_spent; a query that fails reads as unspent. *)
RefreshSpent(mine, failed) ==
  [k \in DOMAIN mine |->
     [mine[k] EXCEPT !.spent = @ \/ mine[k].leaf \in spent \ failed]]

IsSpendable(n, height) ==
  ~n.spent /\ (n.coinbase => height - n.mined >= COINBASE_MATURITY)

(* Larger first, then the earlier leaf. *)
Before(a, b) == a.value > b.value \/ (a.value = b.value /\ a.leaf < b.leaf)

(* select: the notes to spend, none if two do not cover need. *)
Select(w, need, height) ==
  LET usable == SortSeq(SelectSeq(notes[w], LAMBDA n : IsSpendable(n, height)), Before)
      k == Len(usable)
  IN  IF k < 2 THEN <<>>
      ELSE IF usable[1].value >= need THEN <<usable[1], usable[k]>>
      ELSE IF usable[1].value + usable[2].value >= need THEN <<usable[1], usable[2]>>
      ELSE <<>>

Unmarked(w, sel) == notes[w]

MarkSpent(w, sel) ==
  [k \in DOMAIN notes[w] |->
     [notes[w][k] EXCEPT !.spent = @ \/ notes[w][k].leaf \in {sel[1].leaf, sel[2].leaf}]]

-----------------------------------------------------------------------------
(* The node: its mempool and its blocks *)

Inputs(tx) == {tx.in[1], tx.in[2]}

RootInWindow(root, height) == height - root < ROOT_WINDOW

Admissible(tx) ==
  /\ RootInWindow(tx.root, tip)
  /\ Inputs(tx) \intersect spent = {}
  /\ \A other \in pool : Inputs(tx) \intersect Inputs(other) = {}

(* A block of txs, its coinbase note to miner. *)
Mine(txs, miner) ==
  LET order  == SetToSeq(txs)
      leaves == FoldSeq(LAMBDA tx, ls : tx.out \o ls, <<>>, order)
      minted == <<Output(miner, miner, Coinbase, TRUE, tip + 1)>>
      now    == spent \union UNION {Inputs(tx) : tx \in txs}
  IN  /\ tip < MaxHeight
      /\ \A tx \in txs : RootInWindow(tx.root, tip)
      /\ outputs' = outputs \o [i \in DOMAIN leaves |-> [leaves[i] EXCEPT !.height = tip + 1]]
                            \o minted
      /\ spent' = now
      /\ tip' = tip + 1
      /\ pool' = {tx \in pool \ txs : Inputs(tx) \intersect now = {}}
      /\ UNCHANGED <<made, notes, cursor, call, ownSpends>>

(* A node that restarts comes up with an empty mempool. *)
Restart ==
  /\ pool # {}
  /\ pool' = {}
  /\ UNCHANGED <<chainVars, made, notes, cursor, call, ownSpends>>

-----------------------------------------------------------------------------
(* Calls of a wallet *)

Idle == [at |-> "idle"]

Go(w, next) == call' = [call EXCEPT ![w] = next]

(* scan in the node's process. *)
Scan(w) ==
  /\ w \notin Remote /\ call[w] = Idle
  /\ notes' = [notes EXCEPT ![w] = RefreshSpent(@ \o Found(w), {})]
  /\ cursor' = [cursor EXCEPT ![w] = Len(outputs)]
  /\ UNCHANGED <<chainVars, pool, made, call, ownSpends>>

(* scan over HTTP: GET outputs, GET count, then a GET for each nullifier. *)
ScanOutputs(w) ==
  /\ w \in Remote /\ call[w] = Idle
  /\ notes' = [notes EXCEPT ![w] = @ \o Found(w)]
  /\ Go(w, [at |-> "count"])
  /\ UNCHANGED <<chainVars, pool, made, cursor, ownSpends>>

ScanCount(w) ==
  /\ call[w].at = "count"
  /\ cursor' = [cursor EXCEPT ![w] = Len(outputs)]
  /\ Go(w, [at |-> "refresh"])
  /\ UNCHANGED <<chainVars, pool, made, notes, ownSpends>>

ScanRefresh(w) ==
  /\ call[w].at = "refresh"
  /\ \E failed \in SUBSET spent :
       notes' = [notes EXCEPT ![w] = RefreshSpent(@, failed)]
  /\ Go(w, Idle)
  /\ UNCHANGED <<chainVars, pool, made, cursor, ownSpends>>

(* What pay and burn_spend build before they need the chain: the notes      *)
(* selected at the height of the tip for a payment to a seed or for a burn. *)
Asked(w, to, amount) ==
  LET value == IF to = "burn" THEN amount + PegFee ELSE amount
      need  == value + FlatFee
      sel   == Select(w, need, tip)
  IN  [at |-> "root", sel |-> sel, to |-> to, value |-> value,
       change |-> IF sel = <<>> THEN 0 ELSE sel[1].value + sel[2].value - need]

(* The transaction: a burn note is encrypted to the payer itself. *)
TxOf(w, ask, root) ==
  [in   |-> <<ask.sel[1].leaf, ask.sel[2].leaf>>,
   root |-> root,
   out  |-> <<Output(ask.to, IF ask.to = "burn" THEN SeedOf[w] ELSE ask.to, ask.value, FALSE, 0),
              Output(SeedOf[w], SeedOf[w], ask.change, FALSE, 0)>>]

(* The proof is made, the notes are spent for this wallet, and the caller   *)
(* will submit. *)
Proved(w, ask, root) ==
  /\ notes' = [notes EXCEPT ![w] = MarkSpent(w, ask.sel)]
  /\ made' = made + 1
  /\ ownSpends' = [ownSpends EXCEPT ![w] = Append(@, Inputs(TxOf(w, ask, root)))]
  /\ Go(w, [at |-> "submit", tx |-> TxOf(w, ask, root)])
  /\ UNCHANGED <<chainVars, pool, cursor>>

Pay(w) ==
  /\ made < MaxTxs
  /\ w \notin Remote /\ call[w] = Idle
  /\ \E amount \in Amounts, to \in Seeds \union {"burn"} :
       LET ask == Asked(w, to, amount)
       IN  ask.sel # <<>> /\ Proved(w, ask, tip)

(* Over HTTP: GET tipheight, GET root, then a GET for each path. *)
PaySelect(w) ==
  /\ made < MaxTxs
  /\ w \in Remote /\ call[w] = Idle
  /\ \E amount \in Amounts, to \in Seeds \union {"burn"} :
       Asked(w, to, amount).sel # <<>> /\ Go(w, Asked(w, to, amount))
  /\ UNCHANGED <<chainVars, pool, made, notes, cursor, ownSpends>>

PayRoot(w) ==
  /\ call[w].at = "root"
  /\ Go(w, [call[w] EXCEPT !.at = "paths"] @@ [root |-> tip])
  /\ UNCHANGED <<chainVars, pool, made, notes, cursor, ownSpends>>

PayProve(w) ==
  /\ made < MaxTxs
  /\ call[w].at = "paths" /\ call[w].root = tip
  /\ Proved(w, call[w], call[w].root)

(* from_seed: a process opens the wallet anew. *)
Opened(w) ==
  /\ notes' = [notes EXCEPT ![w] = <<>>]
  /\ cursor' = [cursor EXCEPT ![w] = 0]
  /\ ownSpends' = [ownSpends EXCEPT ![w] = <<>>]
  /\ UNCHANGED <<chainVars, pool, made>>

(* A block came between the root and the paths: the trace builder panics. *)
PayPanics(w) ==
  /\ call[w].at = "paths" /\ call[w].root # tip
  /\ Go(w, Idle) /\ Opened(w)

(* The transaction reaches the node, which admits it or not, or is lost. *)
Submit(w) ==
  /\ call[w].at = "submit"
  /\ \/ Admissible(call[w].tx) /\ pool' = pool \union {call[w].tx}
     \/ UNCHANGED pool
  /\ Go(w, Idle)
  /\ UNCHANGED <<chainVars, made, notes, cursor, ownSpends>>

Reopen(w) ==
  /\ call[w] = Idle /\ notes[w] # <<>>
  /\ Opened(w) /\ UNCHANGED call

Init ==
  /\ outputs = [i \in DOMAIN Genesis |->
                  Output(Genesis[i].owner, Genesis[i].owner, Genesis[i].value, FALSE, 0)]
  /\ spent = {} /\ tip = 0
  /\ pool = {} /\ made = 0
  /\ notes = [w \in Wallets |-> <<>>]
  /\ cursor = [w \in Wallets |-> 0]
  /\ call = [w \in Wallets |-> Idle]
  /\ ownSpends = [w \in Wallets |-> <<>>]

Next ==
  \/ \E txs \in SUBSET pool, miner \in Seeds : Mine(txs, miner)
  \/ Restart
  \/ \E w \in Wallets :
       \/ Scan(w) \/ ScanOutputs(w) \/ ScanCount(w) \/ ScanRefresh(w)
       \/ Pay(w) \/ PaySelect(w) \/ PayRoot(w) \/ PayProve(w) \/ PayPanics(w)
       \/ Submit(w) \/ Reopen(w)

Spec == Init /\ [][Next]_vars

-----------------------------------------------------------------------------
(* Properties *)

TypeOK ==
  /\ spent \subseteq DOMAIN outputs
  /\ tip \in 0 .. MaxHeight /\ made \in 0 .. MaxTxs
  /\ cursor \in [Wallets -> 0 .. Len(outputs)]
  /\ \A w \in Wallets : call[w].at \in {"idle", "count", "refresh", "root", "paths", "submit"}

(* What a wallet holds is on the chain under its own key and at its value,   *)
(* each leaf once: a burn note, which is encrypted to the payer itself, is   *)
(* never taken for one of its own. *)
NotesAreOurs ==
  \A w \in Wallets : \A k, l \in DOMAIN notes[w] :
    /\ outputs[notes[w][k].leaf].cm = <<SeedOf[w], notes[w][k].value>>
    /\ k # l => notes[w][k].leaf # notes[w][l].leaf

(* No two transactions one opened wallet makes spend the same note, whatever *)
(* became of the first: lost, still in the mempool, or in a block.           *)
OwnTxsDisjoint ==
  \A w \in Wallets : \A k, l \in DOMAIN ownSpends[w] :
    k # l => ownSpends[w][k] \intersect ownSpends[w][l] = {}

(* Every output below the cursor that pays the wallet is among its notes. *)
FindsAll(w) ==
  \A leaf \in 1 .. cursor[w] :
    outputs[leaf].cm[1] = SeedOf[w] => Known(w, leaf)

(* A scan in the node's own process misses nothing; one over HTTP may: the   *)
(* outputs of a block between its first two requests. *)
ScanFinds == \A w \in Wallets \ Remote : FindsAll(w)
================================================================================
