------------------------------ MODULE HardFork ------------------------------
(* The hard fork object (src/src/cryptonote_basic/hardfork.cpp) and the steps *)
(* of Blockchain that drive it: connecting and popping blocks, switching to   *)
(* an alternative chain and rolling back, and start-up, where a new release   *)
(* may bring a longer fork table.                                            *)
(*                                                                           *)
(* All of them run under the blockchain lock, so each is one step.  A block  *)
(* is its version (major_version) and its vote (minor_version, 0 read as 1). *)
EXTENDS Integers, SequencesExt

CONSTANTS
  Tables,        \* fork tables of successive releases: sequences of forks
  window_size,   \* blocks whose votes count
  MaxVersion,    \* bound on block versions (255 in the code)
  MaxHeight,     \* bound on the chain's height
  MaxAlt         \* bound on the length of an alternative chain

Version == 1 .. MaxVersion
Fork == [version : Version, height : Nat, threshold : 0 .. 100]
Block == [version : Version, vote : Version]

\* What add_fork accepts.
WellFormedTable(t) ==
  /\ t \in Seq(Fork) \ {<<>>}
  /\ \A m, n \in DOMAIN t : m < n => /\ t[m].version < t[n].version
                                     /\ t[m].height < t[n].height

original_version == 1

ASSUME HardForkAssumption ==
  /\ \A t \in Tables : WellFormedTable(t) /\ t[1].version = original_version
  /\ window_size \in Nat \ {0}
  /\ {MaxVersion, MaxHeight, MaxAlt} \subseteq Nat \ {0}

VARIABLES
  chain,   \* the main chain; the block at height h is chain[h + 1]
  hf       \* the object, with the database's hf_versions table
vars == <<chain, hf>>

-----------------------------------------------------------------------------
(* HardFork.  The object is s; current_fork_index counts from 1.             *)

get_effective_version(s, vote) == Min({vote, Last(s.heights).version})
get_current_version(s) == s.heights[s.current_fork_index].version

get_ideal_version(s, height) ==
  LET past == {n \in 2 .. Len(s.heights) : height >= s.heights[n].height}
  IN  IF past = {} THEN original_version ELSE s.heights[Max(past)].version

\* The newest fork past its height whose supporters, which are the votes for it
\* or any later one, reach its threshold.
get_voted_fork_index(s, height) ==
  LET votes(n)     == MapThenSumSet(LAMBDA m : s.last_versions[s.heights[m].version],
                                    n .. Len(s.heights))
      threshold(n) == (window_size * s.heights[n].threshold + 99) \div 100
      won          == {n \in DOMAIN s.heights : /\ height >= s.heights[n].height
                                                /\ votes(n) >= threshold(n)}
  IN  IF won = {} THEN s.current_fork_index ELSE Max(won)

\* The index follows the vote upwards only.
follow_vote(s, height) ==
  [s EXCEPT !.current_fork_index = Max({@, get_voted_fork_index(s, height)})]

supports(s, index, b) == /\ b.version = s.heights[index].version
                         /\ b.vote >= s.heights[index].version
check(s, b) == supports(s, s.current_fork_index, b)
check_for_height(s, b, height) == supports(s, get_voted_fork_index(s, height), b)

Bumped(counts, v, d) == [counts EXCEPT ![v] = @ + d]
NoCounts == [v \in Version |-> 0]

\* The votes of the blocks from height first to height last, scanned anew.
scan(s, c, first, last) ==
  LET votes == [i \in 1 .. last - first + 1 |-> get_effective_version(s, c[first + i].vote)]
  IN  [s EXCEPT !.versions = votes,
                !.last_versions = FoldLeft(LAMBDA counts, v : Bumped(counts, v, 1), NoCounts, votes)]

set_hard_fork_version(s, height, v) ==
  [s EXCEPT !.hf_versions = [h \in DOMAIN @ \cup {height} |-> IF h = height THEN v ELSE @[h]]]

add(s, b, height) ==
  LET vote == get_effective_version(s, b.vote)
      full == Len(s.versions) >= window_size
      left == IF full THEN Tail(s.versions) ELSE s.versions
      less == IF full THEN Bumped(s.last_versions, Head(s.versions), -1) ELSE s.last_versions
      db   == set_hard_fork_version(s, height, get_current_version(s))
  IN  IF check(s, b)
      THEN follow_vote([db EXCEPT !.versions = Append(left, vote),
                                  !.last_versions = Bumped(less, vote, 1)], height + 1)
      ELSE s

\* rescan_from_block_height.
rescan(s, c, height) ==
  LET lastv == s.hf_versions[Len(c) - 1]
      at    == {n \in DOMAIN s.heights : s.heights[n].version = lastv}
      start == IF at = {} THEN Len(s.heights) ELSE Min(at)
  IN  IF height >= Len(c)
      THEN s
      ELSE follow_vote([scan(s, c, height, Len(c) - 1) EXCEPT !.current_fork_index = start],
                       Len(c))

\* The object of a fresh process, with a fork table and what the database holds.
init(table, c, hf_versions) ==
  LET s == [heights |-> table, versions |-> <<>>, last_versions |-> NoCounts,
            current_fork_index |-> 1, hf_versions |-> hf_versions]
      first == IF Len(c) > window_size THEN Len(c) - (window_size - 1) ELSE 1
  IN  rescan(s, c, first - 1)

\* Mutant: the rescanned window is one block short.
short_reorganize(s, c, height) ==
  LET first == IF height >= window_size - 1 THEN height - (window_size - 2) ELSE 0
      top   == IF height = 0 THEN original_version ELSE s.hf_versions[height]
      low   == {n \in 1 .. s.current_fork_index : s.heights[n].version <= top}
      base  == [scan(s, c, first, height) EXCEPT
                  !.current_fork_index = IF low = {} THEN 1 ELSE Max(low)]
      from[h \in height .. Len(c) - 1] ==
        IF h = height THEN follow_vote(base, height + 1) ELSE add(from[h - 1], c[h + 1], h)
  IN  IF height >= Len(c) THEN s ELSE from[Len(c) - 1]

\* reorganize_from_block_height: rescans the window that ends at the given height
\* and adds the blocks above it again.
reorganize(s, c, height) ==
  LET first == IF height >= window_size - 1 THEN height - (window_size - 1) ELSE 0
      top   == IF height = 0 THEN original_version ELSE s.hf_versions[height]
      low   == {n \in 1 .. s.current_fork_index : s.heights[n].version <= top}
      base  == [scan(s, c, first, height) EXCEPT
                  !.current_fork_index = IF low = {} THEN 1 ELSE Max(low)]
      from[h \in height .. Len(c) - 1] ==
        IF h = height THEN follow_vote(base, height + 1) ELSE add(from[h - 1], c[h + 1], h)
  IN  IF height >= Len(c) THEN s ELSE from[Len(c) - 1]

\* Mutant: the fork index survives the pop.
stuck_on_block_popped(s, new_height) ==
  LET back == Last(s.versions)
  IN  [s EXCEPT !.versions = <<s.hf_versions[new_height]>> \o Front(s.versions),
                !.last_versions = Bumped(Bumped(@, back, -1), s.hf_versions[new_height], 1)]

\* Mutant: the version that enters the window is not counted.
uncounted_on_block_popped(s, new_height) ==
  LET past == {n \in 2 .. Len(s.heights) : new_height >= s.heights[n].height}
  IN  [s EXCEPT !.versions = <<s.hf_versions[new_height]>> \o Front(s.versions),
                !.last_versions = Bumped(@, Last(s.versions), -1),
                !.current_fork_index = Max(past \cup {1})]

\* One block was popped.  Its vote leaves the window, the version recorded at its
\* height enters it in front, and the index goes back to the schedule.
on_block_popped(s, new_height) ==
  LET back == Last(s.versions)
      v    == s.hf_versions[new_height]
      past == {n \in 2 .. Len(s.heights) : new_height >= s.heights[n].height}
  IN  [s EXCEPT !.versions = <<v>> \o Front(s.versions),
                !.last_versions = Bumped(Bumped(@, back, -1), v, 1),
                !.current_fork_index = Max(past \cup {1})]

-----------------------------------------------------------------------------
(* Blockchain.  A state is st, the chain and the object.                     *)
State == [chain |-> chain, hf |-> hf]

\* handle_block_to_main_chain, as far as the object is concerned.
connect(st, b) ==
  [chain |-> Append(st.chain, b), hf |-> add(st.hf, b, Len(st.chain))]

\* pop_block_from_blockchain, n times.
pop(st, n) ==
  LET after[k \in 0 .. n] ==
        IF k = 0 THEN st
        ELSE [chain |-> Front(after[k - 1].chain),
              hf    |-> on_block_popped(after[k - 1].hf, Len(after[k - 1].chain) - 1)]
  IN  after[n]

connect_all(st, blocks) == FoldLeft(connect, st, blocks)

\* Each block of the sequence passes the check when its turn comes.
AllPass(st, blocks) ==
  \A i \in DOMAIN blocks : check(connect_all(st, SubSeq(blocks, 1, i - 1)).hf, blocks[i])

reorganize_from_chain_height(st, height) ==
  IF height = 0 THEN st ELSE [st EXCEPT !.hf = reorganize(@, st.chain, height - 1)]

\* rollback_blockchain_switching; re-adding the old blocks must pass the check.
rollback(st, original, height) ==
  LET back == reorganize_from_chain_height(pop(st, Len(st.chain) - height), height)
      old  == {n \in 0 .. Len(original) : AllPass(back, SubSeq(original, 1, n))}
      all  == connect_all(back, SubSeq(original, 1, Max(old)))
  IN  IF Max(old) = Len(original) THEN reorganize_from_chain_height(all, height) ELSE all

Apply(st) == chain' = st.chain /\ hf' = st.hf

AddBlock ==
  /\ Len(chain) < MaxHeight
  /\ \E b \in Block : check(hf, b) /\ Apply(connect(State, b))

PopBlocks == \E n \in 1 .. Len(chain) - 1 : Apply(pop(State, n))

\* switch_to_alternative_blockchain: the alternative blocks passed check_for_height
\* when they arrived; the first ok of them connect, and the next one, if there is
\* one, fails the version check or some other one.
Switch ==
  \E split \in 1 .. Len(chain), n \in 1 .. MaxAlt :
    \E alt \in [1 .. n -> Block], ok \in 0 .. n :
      LET st     == pop(State, Len(chain) - split)
          joined == connect_all(st, SubSeq(alt, 1, ok))
          old    == SubSeq(chain, split + 1, Len(chain))
      IN  /\ split + n <= MaxHeight
          /\ \A i \in 1 .. n : check_for_height(hf, alt[i], split + i - 1)
          /\ AllPass(st, SubSeq(alt, 1, ok))
          /\ Apply(IF ok = n THEN reorganize_from_chain_height(joined, split)
                             ELSE rollback(joined, old, split))

\* Mutant: start-up keeps blocks that a new table disowns.
lenient_Restart ==
  \E table \in Tables :
    /\ IsPrefix(hf.heights, table)
    /\ Apply([chain |-> chain, hf |-> init(table, chain, hf.hf_versions)])

\* Blockchain::init with the same or a newer table: blocks whose version is not
\* the one scheduled for them are popped, from the top.
Restart ==
  \E table \in Tables :
    LET s     == init(table, chain, hf.hf_versions)
        right == {n \in 1 .. Len(chain) :
                    get_ideal_version(s, n - 1) \in {1, chain[n].version}}
        kept  == SubSeq(chain, 1, Max(right))
    IN  /\ IsPrefix(hf.heights, table)
        /\ Apply(IF Len(kept) = Len(chain)
                 THEN [chain |-> chain, hf |-> s]
                 ELSE reorganize_from_chain_height([chain |-> kept, hf |-> s], Len(kept)))

Genesis == [version |-> 1, vote |-> 1]
Init ==
  \E table \in Tables :
    /\ chain = <<Genesis>>
    /\ hf = add(init(table, <<>>, [h \in {} |-> 1]), Genesis, 0)

Next == AddBlock \/ PopBlocks \/ Switch \/ Restart
Spec == Init /\ [][Next]_vars

-----------------------------------------------------------------------------
\* What a fresh object makes of the chain when it is given it block by block.
Replayed ==
  FoldLeft(LAMBDA s, b : [n |-> s.n + 1, hf |-> add(s.hf, b, s.n)],
           [n |-> 0, hf |-> init(hf.heights, <<>>, [h \in {} |-> 1])], chain).hf

\* The version in force depends on the chain alone and not on the blocks popped,
\* chains tried and processes restarted on the way: consensus between nodes that
\* arrived at the same chain by different paths needs it.
VersionFromChain == hf.current_fork_index = Replayed.current_fork_index

\* The counts are those of the window, whatever moved in and out of it: otherwise
\* the unsigned counters would wrap or a fork be voted in by blocks long gone.
CountsMatchWindow ==
  \A v \in Version : hf.last_versions[v] = Len(SelectSeq(hf.versions, LAMBDA w : w = v))

\* Every block of the main chain has the version its height is scheduled for,
\* also after a late upgrade whose new fork lies below the top of the chain, and
\* so has the version recorded for it in the database.
ChainFollowsSchedule ==
  \A h \in 0 .. Len(chain) - 1 :
    /\ chain[h + 1].version = get_ideal_version(hf, h)
    /\ hf.hf_versions[h] = chain[h + 1].version

\* The votes of the last window_size blocks of a chain.
WindowOf(c) == scan(hf, c, Max({0, Len(c) - window_size}), Len(c) - 1).versions

\* reorganize and init rebuild the window from the blocks, however popping
\* distorted it before: after a switch, a rollback or a restart it holds the
\* votes of the last blocks.
RebuiltWindow == [][Switch \/ Restart => hf'.versions = WindowOf(chain)']_vars
=============================================================================
