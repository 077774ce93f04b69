------------------------------ MODULE MCMempool ------------------------------
(***************************************************************************)
(* Two mature funds and one that matures at height 3.  "pay" and "rival"   *)
(* spend the same fund, "child" spends "pay", "late" the third fund and    *)
(* "mint" overspends; "gift" leaves everything to the fee.                 *)
(***************************************************************************)
EXTENDS Mempool

MCTx == {"pay", "rival", "child", "late", "mint"}
MCTxGift == {"pay", "child", "gift"}
MCTxReturn == {"pay", "child"}
Fund(i) == <<"fund", i, 0>>

MCInputs == [t \in Tx |->
  CASE t = "pay" -> {Fund(1)} [] t = "rival" -> {Fund(1), Fund(2)}
    [] t = "child" -> {<<"tx", "pay", 1>>} [] t = "late" -> {Fund(3)}
    [] t = "mint" -> {Fund(2)} [] t = "gift" -> {Fund(2)}]
MCOutputs == [t \in Tx |->
  CASE t = "pay" -> <<6, 2>> [] t = "rival" -> <<11>> [] t = "child" -> <<3>>
    [] t = "late" -> <<4, 0>> [] t = "mint" -> <<12>> [] t = "gift" -> <<>>]
MCSize == [t \in Tx |-> IF t = "rival" THEN 2 ELSE 1]
MCFunds == [c \in {Fund(1), Fund(2), Fund(3)} |->
  CASE c = Fund(1) -> [value |-> 10, height |-> 0, coinbase |-> FALSE]
    [] c = Fund(2) -> [value |-> 5, height |-> 1, coinbase |-> FALSE]
    [] c = Fund(3) -> [value |-> 7, height |-> 1, coinbase |-> TRUE]]
MCBodies ==
  {<<>>, <<"pay">>, <<"pay", "child">>, <<"rival">>, <<"late">>, <<"child">>,
   <<"mint">>}
MCBodiesReturn == {<<>>, <<"pay">>}
MCWorks == {[m \in {1} |-> 1], [m \in {1, 2} |-> m + 1]}
MCOneWork == {[m \in {1} |-> 1]}
==============================================================================
