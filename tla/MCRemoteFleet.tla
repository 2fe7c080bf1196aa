---------------------------- MODULE MCRemoteFleet ---------------------------
(***************************************************************************)
(* Two leaves with one hub each and two of the four exports, among the     *)
(* configurations that are refused; one crash and one remote query, or no  *)
(* crash and two queries; or two orders that change while the quotes move  *)
(* and the fleet reconnects.                                               *)
(***************************************************************************)
EXTENDS FleetQuotes

CONSTANTS Dh1, Dh2, LikeDh2, A, B, Orders, Ids, X, Y, LowerY, O1, O2

Leaf(name, hubs) == [name |-> name, hubs |-> hubs]
MCConfigs == { <<>>, <<Leaf(Dh1, <<A>>), Leaf(Dh2, <<B>>)>>,
               <<Leaf(Dh1, <<A>>), Leaf(Dh1, <<B>>)>>, <<Leaf(Dh1, <<A>>), Leaf(Dh2, <<B, A>>)>>,
               <<Leaf(Dh1, <<A, A>>), Leaf(Dh2, <<>>)>>, <<Leaf(Dh2, <<A>>), Leaf(LikeDh2, <<B>>)>> }
MCSuffix  == [name \in {Dh1, Dh2, LikeDh2} |-> IF name = LikeDh2 THEN Dh2 ELSE name]
MCHubs    == {A, B}
MCExports == <<Orders, Ids>>
MCBudget  == ((0..1) \X (0..1)) \cup {<<0, 2>>}

Order(symbol, price, open) ==
    [symbol |-> symbol, price |-> price, avg |-> 2, cum |-> 2 - open, leaves |-> open,
     buy |-> symbol = X]
MCUniverses == { << <<X, 2>> >>, << <<X, 0>> >>, << <<Y, 1>>, <<LowerY, 2>> >> }
MCUpper == [s \in {X, Y, LowerY} |-> IF s = LowerY THEN Y ELSE s]
MCOrderStates == { <<O1, Order(X, 3, 2)>>, <<O1, Order(Y, Null, 2)>>, <<O2, Order(Y, 3, 1)>>,
                   <<O2, Order(LowerY, 2, 2)>> }

-----------------------------------------------------------------------------
\* Leaves that crash and are queried, or orders and quotes over leaves that stay up.
MCInit == Init /\ QuoteInit

MCNext ==
    \/ FleetMoves /\ (rows # <<>> => crashes' = 0 /\ queries' = 0)
    \/ crashes = 0 /\ queries = 0 /\ OrdersMove
    \/ rows # <<>> /\ QuotesMove

MCSpec == MCInit /\ [][MCNext]_allVars /\ FleetFairness
=============================================================================
