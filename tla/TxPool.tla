------------------------------- MODULE TxPool -------------------------------
(***************************************************************************)
(* The transaction pool, cryptonote_core/tx_pool.cpp, with the part of the *)
(* block handling that moves transactions between the pool and the chain.  *)
(*                                                                         *)
(* The pool keeps each transaction's metadata in the database and three    *)
(* indices of it in memory: which transactions spend a key image, the      *)
(* transactions by fee and receive time, and their total weight.  Nothing  *)
(* but the order of the statements keeps the two in step, and a database   *)
(* transaction that is aborted (LockedTXN's destructor, batch_abort, a     *)
(* crash) takes back the first and not the second.                         *)
(*                                                                         *)
(* A transaction is what the pool can tell of it: its key images, the      *)
(* transactions whose outputs its rings use, its weight and its fee per    *)
(* byte.  A block is the sequence of its transactions and stands for its   *)
(* own id together with the blocks under it, as a hash chain does.         *)
(***************************************************************************)
EXTENDS Integers, Sequences, FiniteSetsExt, Functions

CONSTANTS
    Tx,             \* transactions
    KeyImages,      \* the key images each transaction spends
    Needs,          \* the transactions whose outputs its rings use
    Weight,         \* its weight
    FeeRate,        \* its fee per unit of weight
    Methods,        \* the relay methods transactions arrive with
    MaxPoolWeight,  \* m_txpool_max_weight
    SizeMod,        \* size_t counts modulo this number
    LiveTime,       \* CRYPTONOTE_MEMPOOL_TX_LIVETIME
    AltLiveTime,    \* CRYPTONOTE_MEMPOOL_TX_FROM_ALT_BLOCK_LIVETIME
    Blocks,         \* bound: the blocks that may be mined
    Skips,          \* bound: what the weight and reward limits may leave out
    MaxHeight,      \* bound: blocks above the genesis block
    MaxTime,        \* bound: the clock stops here
    DbErrors        \* whether m_db->add_block may throw

VARIABLES
    chain,  \* blocks of the main chain above the genesis block, in the database
    pool,   \* the pool: metas is in the database, the rest in memory
    batch,  \* << >>, or what an open database batch would be rolled back to
    clock,  \* time(nullptr)
    aborted \* history: a batch was aborted since the node started

vars == <<chain, pool, batch, clock, aborted>>

(***************************************************************************)
(* Sequences: what this module needs of SequencesExt, without the rest of  *)
(* it, which the proofs would have to carry along.                         *)
(***************************************************************************)

Front(s) == SubSeq(s, 1, Len(s) - 1)

Last(s) == s[Len(s)]

Reverse(s) == [i \in 1 .. Len(s) |-> s[Len(s) - i + 1]]

IsPrefix(s, t) == Len(s) <= Len(t) /\ s = SubSeq(t, 1, Len(s))

\* The elements of a finite set, one after the other.
SetToSeq(S) == CHOOSE f \in [1 .. Cardinality(S) -> S] : IsInjective(f)

\* From the first element to the last.
FoldLeft(op(_, _), base, s) ==
    MapThenFoldSet(LAMBDA e, acc : op(acc, e), base, LAMBDA i : s[i], Max, DOMAIN s)

(***************************************************************************)
(* Relay methods.                                                          *)
(***************************************************************************)

relay_method == <<"none", "local", "forward", "stem", "fluff", "block">>

ASSUME TxPoolAssumption ==
    /\ IsFiniteSet(Tx)
    /\ Blocks \subseteq Seq(Tx)
    /\ Methods \subseteq Range(relay_method)

rank(m) == CHOOSE i \in DOMAIN relay_method : relay_method[i] = m

matches_legacy(m) == m \in {"none", "fluff", "block"}

\* Mutant: the new method replaces the old one.
overwriting_upgrade_relay_method(old, new) == new

\* upgrade_relay_method moves up the order and never down.
upgrade_relay_method(old, new) == IF rank(old) < rank(new) THEN new ELSE old

(***************************************************************************)
(* The chain as the pool sees it.                                          *)
(***************************************************************************)

Mined(c) == UNION {Range(c[h]) : h \in DOMAIN c}

SpentIn(c) == UNION {KeyImages[t] : t \in Mined(c)}

\* Blockchain::check_tx_inputs: the rings' outputs exist, the key images are
\* unspent; and the height of the newest block a ring uses.
chain_check_tx_inputs(c, t) ==
    [ok |-> Needs[t] \subseteq Mined(c) /\ KeyImages[t] \cap SpentIn(c) = {},
     max_used |-> Max({0} \cup {h \in DOMAIN c : Range(c[h]) \cap Needs[t] /= {}})]

(***************************************************************************)
(* The pool's fields.                                                      *)
(***************************************************************************)

without(f, t) == [s \in DOMAIN f \ {t} |-> f[s]]

with(f, t, v) == [s \in DOMAIN f \cup {t} |-> IF s = t THEN v ELSE f[s]]

\* metas: the rows of the database, with the relay method, receive time, whether
\* the inputs were checked and up to which height (max_used_block_id, _height),
\* and the chain up to the block of the last failure ({} for the null hash).
NoPool == [metas |-> << >>, spent |-> [k \in UNION {KeyImages[t] : t \in Tx} |-> {}],
           sorted |-> {}, weight |-> 0, timed_out |-> {}, cache |-> << >>]

in_pool(p, t) == t \in DOMAIN p.metas

\* txCompare: greatest fee first, then oldest.
txCompare(a, b) ==
    \/ FeeRate[a.tx] > FeeRate[b.tx]
    \/ FeeRate[a.tx] = FeeRate[b.tx] /\ a.time < b.time

\* The entries in this order; it leaves open which of two goes first that came
\* at the same time and pay the same.
by_fee_and_receive_time(p) ==
    LET s            == SetToSeq(p.sorted)
        before(i, j) == txCompare(s[i], s[j]) \/ (i < j /\ ~txCompare(s[j], s[i]))
        place(i)     == Cardinality({j \in DOMAIN s : before(j, i)}) + 1
    IN  [k \in 1 .. Cardinality(p.sorted) |-> s[CHOOSE i \in DOMAIN s : place(i) = k]]

\* One entry of t, the first in the order, leaves the sorted container.
erase_sorted(p, t) ==
    LET mine == {e \in p.sorted : e.tx = t}
    IN  IF mine = {} THEN p
        ELSE [p EXCEPT !.sorted = @ \ {CHOOSE e \in mine : \A f \in mine : ~txCompare(f, e)}]

(***************************************************************************)
(* Key images.                                                             *)
(***************************************************************************)

have_tx_keyimges_as_spent(p, t) ==
    \E k \in KeyImages[t] :
        \/ p.spent[k] \ {t} /= {}
        \/ p.spent[k] = {t} /\ in_pool(p, t) /\ matches_legacy(p.metas[t].method)

can_insert_key_images(p, t, m) ==
    \A k \in KeyImages[t] :
        /\ m /= "block" => p.spent[k] \subseteq {t}
        /\ t \in p.spent[k] => ~(in_pool(p, t) /\ matches_legacy(p.metas[t].method))

insert_key_images(p, t) ==
    [p EXCEPT !.spent = [k \in DOMAIN @ |-> IF k \in KeyImages[t] THEN @[k] \cup {t} ELSE @[k]]]

\* It takes the images one after the other and returns at the first that it does
\* not find.
remove_transaction_keyimages(p, t) ==
    LET vin      == SetToSeq(KeyImages[t])
        found(i) == \A j \in 1 .. i : t \in p.spent[vin[j]]
        removed  == {vin[i] : i \in {j \in DOMAIN vin : found(j)}}
    IN  [p EXCEPT !.spent = [k \in DOMAIN @ |-> IF k \in removed THEN @[k] \ {t} ELSE @[k]]]

\* Mutant: a removal forgets the weight.
heavy_remove_txpool_tx(p, t) ==
    remove_transaction_keyimages([p EXCEPT !.metas = without(@, t)], t)

\* remove_txpool_tx, the weight and the key images: the part every removal shares.
remove_txpool_tx(p, t) ==
    remove_transaction_keyimages(
        [p EXCEPT !.metas = without(@, t), !.weight = (@ - Weight[t]) % SizeMod], t)

(***************************************************************************)
(* prune walks from the cheapest transaction to the second dearest.  An    *)
(* entry without metadata makes it return without committing: the database *)
(* keeps what it removed, unless a batch was already open.                 *)
(***************************************************************************)

\* Mutant: prune stops only below the limit and takes block transactions too.
eager_prune(p, in_batch) ==
    LET step(s, e) ==
            IF s.weight <= MaxPoolWeight \/ ~in_pool(s, e.tx) THEN s
            ELSE [remove_txpool_tx(s, e.tx) EXCEPT !.sorted = @ \ {e}]
        entries == by_fee_and_receive_time(p)
    IN  FoldLeft(step, p, IF entries = << >> THEN << >> ELSE Reverse(Tail(entries)))

\* One turn of its loop.
prune_entry(s, e, in_batch) ==
    LET left == remove_txpool_tx(s.p, e.tx)
    IN  IF s.stop \/ s.p.weight <= MaxPoolWeight THEN [s EXCEPT !.stop = TRUE]
        ELSE IF ~in_pool(s.p, e.tx) THEN [s EXCEPT !.stop = TRUE, !.abort = ~in_batch]
        ELSE IF s.p.metas[e.tx].method = "block" THEN s
        ELSE [s EXCEPT !.p = [left EXCEPT !.sorted = left.sorted \ {e}]]

prune(p, in_batch) ==
    LET entries == by_fee_and_receive_time(p)
        end == FoldLeft(LAMBDA s, e : prune_entry(s, e, in_batch),
                        [p |-> p, stop |-> FALSE, abort |-> FALSE],
                        IF entries = << >> THEN << >> ELSE Reverse(Tail(entries)))
    IN  IF end.abort THEN [end.p EXCEPT !.metas = p.metas] ELSE end.p

(***************************************************************************)
(* add_tx.                                                                 *)
(***************************************************************************)

\* tx_memory_pool::check_tx_inputs: a verdict is cached unless the
\* transaction comes with a block.
check_tx_inputs(p, c, t) ==
    IF t \in DOMAIN p.cache THEN p.cache[t] ELSE chain_check_tx_inputs(c, t)

cache_verdict(p, c, t) == [p EXCEPT !.cache = with(@, t, check_tx_inputs(p, c, t))]

\* Mutant: a transaction kept for its block gets no sorted entry.
unsorted_store(p, t, now, m, checked, max_used) ==
    [insert_key_images(p, t) EXCEPT
        !.metas = with(@, t, [method |-> m, receive_time |-> now, checked |-> checked,
                              max_used |-> max_used, last_failed |-> {}]),
        !.sorted = IF checked THEN @ \cup {[tx |-> t, time |-> now]} ELSE @]

\* The transaction's metadata and sorted entry are written at time now.
store(p, t, now, m, checked, max_used) ==
    [insert_key_images(p, t) EXCEPT
        !.metas = with(@, t, [method |-> m, receive_time |-> now, checked |-> checked,
                              max_used |-> max_used, last_failed |-> {}]),
        !.sorted = @ \cup {[tx |-> t, time |-> now]}]

\* The tail of add_tx: the weight counts, then the pool is cut to its limit.
count(p, t, in_batch) == prune([p EXCEPT !.weight = (@ + Weight[t]) % SizeMod], in_batch)

\* A transaction of a block; one whose inputs fail is kept, unless it is there.
add_block_tx(p, c, now, t, in_batch) ==
    LET verdict == chain_check_tx_inputs(c, t)
        old     == IF in_pool(p, t) THEN p.metas[t].method ELSE "none"
    IN  IF ~verdict.ok
        THEN IF in_pool(p, t) \/ ~can_insert_key_images(p, t, "block") THEN p
             ELSE count(store(p, t, now, "block", FALSE, 0), t, in_batch)
        ELSE IF old = "block" THEN count(p, t, in_batch)
        ELSE IF ~can_insert_key_images(p, t, "block") THEN p
        ELSE count(store(p, t, now, "block", TRUE, verdict.max_used), t, in_batch)

\* A transaction from a peer, the wallet or the RPC interface.
add_loose_tx(p, c, now, t, m) ==
    LET existing == in_pool(p, t)
        verdict  == check_tx_inputs(p, c, t)
        q        == cache_verdict(p, c, t)
        looped   == existing /\ m = "stem" /\ p.metas[t].method = "stem"
        relay    == IF looped THEN "fluff" ELSE m
        old      == IF existing THEN p.metas[t].method ELSE "none"
        new      == upgrade_relay_method(old, relay)
    IN  IF t \in p.timed_out \/ have_tx_keyimges_as_spent(p, t) THEN p
        ELSE IF ~verdict.ok THEN q
        ELSE IF existing /\ new = old THEN count(q, t, FALSE)
        ELSE IF ~can_insert_key_images(q, t, relay) THEN q
        ELSE count(store(q, t, now, new, TRUE, verdict.max_used), t, FALSE)

add_tx(p, c, now, t, m, in_batch) ==
    IF m = "block" THEN add_block_tx(p, c, now, t, in_batch) ELSE add_loose_tx(p, c, now, t, m)

\* Each of txs goes back to the pool, in order.
add_txs(p, c, now, txs) ==
    FoldLeft(LAMBDA q, t : add_tx(q, c, now, t, "block", TRUE), p, txs)

\* Mutant: the key images of a taken transaction stay behind.
leaky_take_tx(p, t) ==
    IF in_pool(p, t) THEN [erase_sorted(remove_txpool_tx(p, t), t) EXCEPT !.spent = p.spent] ELSE p

take_tx(p, t) == IF in_pool(p, t) THEN erase_sorted(remove_txpool_tx(p, t), t) ELSE p

take_txs(p, txs) == FoldLeft(take_tx, p, txs)

on_blockchain_inc(p) == [p EXCEPT !.cache = << >>]

\* Mutant: popping a block keeps the cached verdicts.
stale_on_blockchain_dec(p) == p

on_blockchain_dec(p) == [p EXCEPT !.cache = << >>]

remove_stuck_transactions(p, now) ==
    LET old == {t \in DOMAIN p.metas : now - p.metas[t].receive_time >
                   IF p.metas[t].method = "block" THEN AltLiveTime ELSE LiveTime}
    IN  [take_txs(p, SetToSeq(old)) EXCEPT !.timed_out = @ \cup old]

set_relayed(p, t, m) ==
    IF in_pool(p, t) THEN [p EXCEPT !.metas[t].method = upgrade_relay_method(@, m)] ELSE p

(***************************************************************************)
(* Filling a block template.                                               *)
(***************************************************************************)

\* "We are sure this transaction is broken": it failed on a block that is
\* still in the chain.
failed_before(p, c, t) == \E b \in p.metas[t].last_failed : IsPrefix(b, c)

\* The checks is_transaction_ready_to_go makes, before it asks the chain.
is_worth_checking(p, c, t) ==
    /\ ~failed_before(p, c, t)
    /\ p.metas[t].checked => p.metas[t].max_used <= Len(c)

is_transaction_ready_to_go(p, c, t) ==
    is_worth_checking(p, c, t) /\ check_tx_inputs(p, c, t).ok
        /\ KeyImages[t] \cap SpentIn(c) = {}

\* What the check writes to the metadata and the cache.
after_check(p, c, t) ==
    LET verdict == check_tx_inputs(p, c, t)
    IN  IF ~is_worth_checking(p, c, t) THEN p
        ELSE IF verdict.ok
        THEN [cache_verdict(p, c, t) EXCEPT
                 !.metas[t].checked = TRUE, !.metas[t].max_used = verdict.max_used]
        ELSE [cache_verdict(p, c, t) EXCEPT !.metas[t].last_failed = {c}]

\* Mutant: the relay method is not looked at.
indiscreet_fill_block_template(p, c, skip) ==
    LET look(s, e) ==
            IF ~in_pool(s.p, e.tx) \/ e.tx \in skip THEN s
            ELSE [p |-> after_check(s.p, c, e.tx),
                  txs |-> IF /\ is_transaction_ready_to_go(s.p, c, e.tx)
                             /\ \A i \in DOMAIN s.txs : KeyImages[s.txs[i]] \cap KeyImages[e.tx] = {}
                          THEN Append(s.txs, e.tx) ELSE s.txs]
    IN  FoldLeft(look, [p |-> p, txs |-> << >>], by_fee_and_receive_time(p))

\* The transaction of one entry is checked, and taken unless it shares a key
\* image with one taken before; skip holds those that the weight and reward
\* limits leave out.  m_mine_stem_txes, a switch for tests, is off.
consider(s, e, c, skip) ==
    LET t == e.tx
    IN  IF ~in_pool(s.p, t) \/ t \in skip THEN s
        ELSE IF ~matches_legacy(s.p.metas[t].method) THEN s
        ELSE [p |-> after_check(s.p, c, t),
              txs |-> IF /\ is_transaction_ready_to_go(s.p, c, t)
                         /\ \A i \in DOMAIN s.txs : KeyImages[s.txs[i]] \cap KeyImages[t] = {}
                      THEN Append(s.txs, t) ELSE s.txs]

fill_block_template(p, c, skip) ==
    FoldLeft(LAMBDA s, e : consider(s, e, c, skip), [p |-> p, txs |-> << >>],
             by_fee_and_receive_time(p))

(***************************************************************************)
(* Starting the node: init rebuilds the indices from the database, the     *)
(* transactions not kept by a block first; validate then drops the ones    *)
(* the chain already has.                                                  *)
(***************************************************************************)

\* insert_key_images refuses no transaction, in either pass.
init_succeeds(metas) ==
    \A s, t \in DOMAIN metas :
        (s /= t /\ metas[s].method /= "block" /\ metas[t].method /= "block")
            => KeyImages[s] \cap KeyImages[t] = {}

init(metas) ==
    [NoPool EXCEPT
        !.metas  = metas,
        !.spent  = [k \in DOMAIN @ |-> {t \in DOMAIN metas : k \in KeyImages[t]}],
        !.sorted = {[tx |-> t, time |-> metas[t].receive_time] : t \in DOMAIN metas},
        !.weight = FoldFunctionOnSet(+, 0, Weight, DOMAIN metas) % SizeMod]

validate(p, c) == take_txs(p, SetToSeq(DOMAIN p.metas \cap Mined(c)))

(***************************************************************************)
(* Actions.  A batch of incoming blocks holds the pool's lock from         *)
(* prepare_handle_incoming_blocks to cleanup_handle_incoming_blocks, so    *)
(* nothing else touches the pool while one is open.                        *)
(***************************************************************************)

Idle == batch = << >>

\* Mutant: the chain is not asked.
careless_ReceiveTx(t, m) ==
    /\ Idle \/ m = "block"
    /\ ~(in_pool(pool, t) /\ matches_legacy(pool.metas[t].method))
    /\ pool' = add_tx(pool, chain, clock, t, m, ~Idle)
    /\ UNCHANGED <<chain, batch, clock, aborted>>

\* core::add_new_tx passes on what neither the pool nor the chain has.
ReceiveTx(t, m) ==
    /\ Idle \/ m = "block"
    /\ ~(in_pool(pool, t) /\ matches_legacy(pool.metas[t].method))
    /\ t \notin Mined(chain)
    /\ pool' = add_tx(pool, chain, clock, t, m, ~Idle)
    /\ UNCHANGED <<chain, batch, clock, aborted>>

SetRelayed(t, m) ==
    /\ Idle
    /\ pool' = set_relayed(pool, t, m)
    /\ UNCHANGED <<chain, batch, clock, aborted>>

RemoveStuck ==
    /\ Idle
    /\ pool' = remove_stuck_transactions(pool, clock)
    /\ UNCHANGED <<chain, batch, clock, aborted>>

FillTemplate(skip) ==
    /\ Idle
    /\ pool' = fill_block_template(pool, chain, skip).p
    /\ UNCHANGED <<chain, batch, clock, aborted>>

\* prepare_handle_incoming_blocks opens a batch.
OpenBatch ==
    /\ Idle
    /\ batch' = <<[chain |-> chain, metas |-> pool.metas]>>
    /\ UNCHANGED <<chain, pool, clock, aborted>>

\* cleanup_handle_incoming_blocks after blocks that raised no exception.
CloseBatch ==
    /\ ~Idle
    /\ batch' = << >>
    /\ UNCHANGED <<chain, pool, clock, aborted>>

\* The transactions of block b that handle_block_to_main_chain trips over.
Problems(b) ==
    {i \in DOMAIN b : \/ b[i] \in Mined(chain)
                      \/ ~in_pool(pool, b[i])
                      \/ ~chain_check_tx_inputs(chain, b[i]).ok}

\* What it has taken by then: the transaction with failing inputs included.
Taken(b) ==
    LET first == Min(Problems(b))
    IN  IF Problems(b) = {} THEN b
        ELSE SubSeq(b, 1, IF b[first] \notin Mined(chain) /\ in_pool(pool, b[first])
                          THEN first ELSE first - 1)

\* Every transaction is taken from the pool and the block joins the chain.
AddBlock(b) ==
    /\ ~Idle
    /\ Len(chain) < MaxHeight
    /\ Problems(b) = {}
    /\ \A i, j \in DOMAIN b : i /= j => KeyImages[b[i]] \cap KeyImages[b[j]] = {}
    /\ chain' = Append(chain, b)
    /\ pool' = on_blockchain_inc(take_txs(pool, b))
    /\ UNCHANGED <<batch, clock, aborted>>

\* A transaction or the block itself does not verify: return_tx_to_pool.
RejectBlock(b) ==
    /\ ~Idle
    /\ pool' = add_txs(take_txs(pool, Taken(b)), chain, clock, Taken(b))
    /\ UNCHANGED <<chain, batch, clock, aborted>>

\* Mutant: the exception is forgotten and the batch is committed as it is.
committing_AbortBatch(b) ==
    /\ DbErrors
    /\ ~Idle
    /\ Problems(b) = {}
    /\ chain' = chain
    /\ pool' = take_txs(pool, b)
    /\ batch' = << >>
    /\ aborted' = TRUE
    /\ UNCHANGED clock

\* m_db->add_block throws: the transactions return to the pool, m_batch_success
\* is cleared and cleanup_handle_incoming_blocks aborts the batch.
AbortBatch(b) ==
    /\ DbErrors
    /\ ~Idle
    /\ Problems(b) = {}
    /\ chain' = Head(batch).chain
    /\ pool' = [add_txs(take_txs(pool, b), chain, clock, b) EXCEPT !.metas = Head(batch).metas]
    /\ batch' = << >>
    /\ aborted' = TRUE
    /\ UNCHANGED clock

\* pop_block_from_blockchain, inside a batch of its own or of a chain switch.
PopBlock ==
    /\ chain /= << >>
    /\ chain' = Front(chain)
    /\ pool' = on_blockchain_dec(add_txs(pool, Front(chain), clock, Reverse(Last(chain))))
    /\ UNCHANGED <<batch, clock, aborted>>

\* The node stops, in the middle of a batch or not, and starts again.
Restart ==
    LET db == IF Idle THEN [chain |-> chain, metas |-> pool.metas] ELSE Head(batch)
    IN  /\ init_succeeds(db.metas)
        /\ chain' = db.chain
        /\ pool' = validate(init(db.metas), db.chain)
        /\ batch' = << >>
        /\ aborted' = FALSE
        /\ UNCHANGED clock

Tick ==
    /\ Idle
    /\ clock < MaxTime
    /\ clock' = clock + 1
    /\ UNCHANGED <<chain, pool, batch, aborted>>

Init ==
    /\ chain = << >>
    /\ pool = NoPool
    /\ batch = << >>
    /\ clock = 0
    /\ aborted = FALSE

Next ==
    \/ \E t \in Tx, m \in Methods : ReceiveTx(t, m)
    \/ \E t \in Tx, m \in Methods \ {"none", "block"} : SetRelayed(t, m)
    \/ \E skip \in Skips : FillTemplate(skip)
    \/ \E b \in Blocks : AddBlock(b) \/ RejectBlock(b) \/ AbortBatch(b)
    \/ RemoveStuck
    \/ OpenBatch
    \/ CloseBatch
    \/ PopBlock
    \/ Restart
    \/ Tick

Spec == Init /\ [][Next]_vars

(***************************************************************************)
(* Properties.                                                             *)
(***************************************************************************)

\* m_spent_key_images is the index of the transactions in the database:
\* "container for spent key images from the transactions in the pool".  Every
\* double spend check of the pool rests on it.
KeyImagesMatchDb ==
    \A k \in DOMAIN pool.spent : pool.spent[k] = {t \in DOMAIN pool.metas : k \in KeyImages[t]}

\* The same, and a transaction is found by its fee too, as long as no batch was
\* aborted since the node started: only an abort parts the memory and the
\* database, and a restart mends it.  Even after an abort the key images of a
\* transaction are all there or all missing, so that the early return of
\* remove_transaction_keyimages, which its FIXME warns of, leaves none behind.
IndexedUnlessAborted ==
    /\ ~aborted => /\ KeyImagesMatchDb
                   /\ DOMAIN pool.metas \subseteq {e.tx : e \in pool.sorted}
    /\ \A t \in Tx : {k \in KeyImages[t] : t \in pool.spent[k]} \in {{}, KeyImages[t]}

\* m_txs_by_fee_and_receive_time has one entry per transaction of the pool, so
\* that removing one entry removes the transaction from it.
SortedMatchesDb ==
    /\ {e.tx : e \in pool.sorted} = DOMAIN pool.metas
    /\ Cardinality(pool.sorted) = Cardinality(DOMAIN pool.metas)

\* Both indices the pool keeps in memory are those of the database.
IndexesMatchDb == KeyImagesMatchDb /\ SortedMatchesDb

\* get_txpool_weight: "get the cumulative txpool weight in bytes".
WeightIsCumulative ==
    pool.weight = SumFunctionOnSet(Weight, DOMAIN pool.metas) % SizeMod

\* What the database holds if the node stops now.
OnDisk == IF Idle THEN pool.metas ELSE Head(batch).metas

\* A node that stops, wherever it is, starts again: no step leaves a database
\* with two transactions of which init refuses one.  The exception is a step
\* after an aborted batch, which gives back the rows of transactions and not
\* their key images: the pool may then take another that spends one of these.
CanRestart ==
    /\ init_succeeds(OnDisk)
    /\ [][init_succeeds(OnDisk) =>
            \/ init_succeeds(OnDisk')
            \/ aborted /\ \E t \in DOMAIN pool.metas : \E k \in KeyImages[t] : t \notin pool.spent[k]]_vars

\* The same without the exception.
CanAlwaysRestart == init_succeeds(OnDisk)

\* A transaction is never in the pool and in the chain at once, in the
\* database as it is and as it would be after a crash.
PoolOffChain ==
    /\ DOMAIN pool.metas \cap Mined(chain) = {}
    /\ ~Idle => DOMAIN Head(batch).metas \cap Mined(Head(batch).chain) = {}

\* A cached verdict of check_tx_inputs is the verdict of the chain as it is.
CacheFresh ==
    Idle => \A t \in DOMAIN pool.cache : pool.cache[t].ok = chain_check_tx_inputs(chain, t).ok

\* A block template holds no transaction twice, none that shares a key image
\* with another, none the chain would refuse and none that is still private.
TemplateSound ==
    Idle => \A skip \in Skips :
        LET txs == fill_block_template(pool, chain, skip).txs
        IN  /\ \A i, j \in DOMAIN txs : i /= j => KeyImages[txs[i]] \cap KeyImages[txs[j]] = {}
            /\ \A i \in DOMAIN txs : /\ chain_check_tx_inputs(chain, txs[i]).ok
                                     /\ matches_legacy(pool.metas[txs[i]].method)

\* "if the transaction was valid before (kept_by_block), then it may become
\* valid again": a public transaction of the pool that the chain would accept
\* is worth a new check when a template is filled.
RecheckedWhenValid ==
    \A t \in DOMAIN pool.metas :
        chain_check_tx_inputs(chain, t).ok => is_worth_checking(pool, chain, t)

\* A transaction that stays in the pool is never made more private again.
NeverLessPublic ==
    [][\A t \in DOMAIN pool.metas \cap DOMAIN pool'.metas :
          \/ rank(pool.metas[t].method) <= rank(pool'.metas[t].method)
          \/ batch /= << >> /\ batch' = << >>]_vars

\* Whatever blocks a batch connected, popped, refused or failed on, and however
\* it ended, what the chain held and what blocks had brought to the pool when it
\* began is in the pool or the chain when it is over.
BatchKeepsTxs ==
    [][(batch /= << >> /\ batch' = << >>) =>
          LET start == Head(batch)
          IN  {t \in DOMAIN start.metas : start.metas[t].method = "block"} \cup Mined(start.chain)
                 \subseteq DOMAIN pool'.metas \cup Mined(chain')]_vars

\* A transaction known to the network from a block leaves the pool and the
\* chain only by old age, by an abort of the batch that brought it or by the
\* restart that drops such a batch.
BlockTxNotLost ==
    [][LET held  == {t \in DOMAIN pool.metas : pool.metas[t].method = "block"} \cup Mined(chain)
           after == DOMAIN pool'.metas \cup Mined(chain')
       IN  \A t \in held \ after : t \in pool'.timed_out \/ (batch /= << >> /\ batch' = << >>)]_vars

============================================================================
