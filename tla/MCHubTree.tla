----------------------------- MODULE MCHubTree ------------------------------
(***************************************************************************)
(* Three hubs for HubTree, in a row or with two below one, and topologies  *)
(* that must be refused.  An order of hub A amended and filled, two orders *)
(* of hub B that name it by client order id and by order id, one of which  *)
(* names another parent later, and orders of hub C that are linked, that   *)
(* dangle or that have no link.                                            *)
(***************************************************************************)
EXTENDS BlotterDesk, TLC

CONSTANTS A, B, C, K1, K2, X, Y, NewId, AmendedId, OrderId, BadId

Hub(n, up) == [name |-> n, topic |-> n, upstream |-> up,
               tag |-> IF up = Nothing THEN Nothing ELSE "5001"]

MCConfigs == { <<Hub(A, Nothing), Hub(B, A), Hub(C, B)>>,
               <<Hub(B, A), Hub(C, A), Hub(A, Nothing)>>,
               <<Hub(A, B), Hub(B, A), Hub(C, Nothing)>>,
               <<Hub(A, Nothing), Hub(A, Nothing)>>,
               <<Hub(A, Nothing), [Hub(B, A) EXCEPT !.tag = Nothing]>>,
               <<Hub(B, A), Hub(C, B)>> }

Fix(key, id, ext, cum, leaves) ==
    [kind |-> "fix", key |-> key, id |-> id, orderId |-> IF key = K1 THEN OrderId ELSE Nothing,
     ext |-> ext, cum |-> cum, leaves |-> leaves]
Bad == [Fix(K1, BadId, Nothing, 0, 0) EXCEPT !.kind = "bad"]

\* For the page: a chain of three and an order that is not linked.
DeskTape == A :> << Fix(K1, NewId, Nothing, 2, 0) >>
              @@ B :> << Fix(K1, NewId, NewId, 0, 2), Fix(K2, AmendedId, Nothing, 0, 1) >>
              @@ C :> << Fix(K1, NewId, NewId, 0, 0) >>

MCTapes ==
    {A :> << Fix(K1, NewId, NewId, 0, 4), Fix(K1, AmendedId, Nothing, 4, 0) >>
       @@ B :> << Fix(K1, NewId, ext, 0, 2), Bad, Fix(K2, AmendedId, OrderId, cum, 2 - cum),
                  Fix(K1, NewId, BadId, 2, 0) >>
       @@ C :> << Fix(K1, NewId, third, 1, 1), Fix(K2, AmendedId, AmendedId, cum, 0) >> :
        ext \in {NewId, AmendedId}, cum \in {0, 2}, third \in {NewId, BadId, Nothing}}
    \cup {DeskTape}

MCAccounts == K1 :> X @@ K2 :> Y
MCRanks == <<A, K1>> :> 1 @@ <<A, K2>> :> 2 @@ <<B, K1>> :> 3 @@ <<B, K2>> :> 4
             @@ <<C, K1>> :> 5 @@ <<C, K2>> :> 6

-----------------------------------------------------------------------------
\* The hubs with a stream that may fail, or a trader at the page.
MCInit == Init /\ PageInit(tape = DeskTape) /\ (tape = DeskTape => Linear)

MCNext ==
    \/ \E hub \in Names(config), failing \in SUBSET Streams :
          \E n \in 1..Len(tape[hub]) :
             /\ tape = DeskTape => failing = {} /\ n = 1
             /\ Batch(hub, n, failing) /\ UNCHANGED pageVars
    \/ tape = DeskTape /\ PageNext

MCSpec == MCInit /\ [][MCNext]_<<hubVars, pageVars>>
=============================================================================
