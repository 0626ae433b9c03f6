------------------------------ MODULE MCTxPool ------------------------------
(***************************************************************************)
(* Three transactions: a and b spend the same key image, and b uses an     *)
(* output of c.  a pays the highest fee, b the lowest.                     *)
(***************************************************************************)
EXTENDS TxPool

MCTx == {"a", "b", "c"}

MCKeyImages == [a |-> {1}, b |-> {1, 2}, c |-> {3}]

MCNeeds == [a |-> {}, b |-> {"c"}, c |-> {}]

MCWeight == [a |-> 1, b |-> 1, c |-> 1]

\* Weightless transactions: the pool never reaches its limit.
MCWeightless == [t \in MCTx |-> 0]

MCFeeRate == [a |-> 3, b |-> 1, c |-> 2]

MCBlocks == {<<"a">>, <<"b">>, <<"c">>, <<"c", "b">>}

MCFewBlocks == {<<"a">>, <<"c">>}

MCSkips == {{}, {"a"}}

MCPublic == {"fluff", "block"}

MCPrivate == {"stem", "fluff", "block"}

============================================================================
