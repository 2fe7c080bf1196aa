----------------------------- MODULE MCMockVenue -----------------------------
(***************************************************************************)
(* Small baskets for the order core, its mock venue and its dashboard.     *)
(***************************************************************************)
EXTENDS MockVenue, BasketDesk

CONSTANTS L1

Num(n)  == [number |-> n]
Wd(w)   == [word |-> w]
Line(side, qty, rest) == [side |-> side, qty |-> qty, rest |-> rest]

\* A purchase of three at the market, a sale of one at 2 or better, at once or not at all,
\* and two pastes that are refused.
MCPastes == { << Line("BUY", 3, <<Wd("LMT"), Num(9), Wd("MKT")>>) >>,
              << Line("SELL", 1, <<Wd("IOC"), Wd("LMT"), Num(2)>>) >>,
              << Line("BUY", 2, <<>>), Line("BUY", 1, <<Wd("LMT")>>) >>,
              << Line("BUY", 0, <<>>) >> }

MCQuotes == { [bid |-> 1, ask |-> 2], [bid |-> 2, ask |-> 3] }

\* A staged order of two, alone or with a routed one of one in its basket or in another.
MCSeedBooks ==
    LET order(b, side, qty) == NewOrder(b, 0, [side |-> side, qty |-> qty, type |-> "LMT",
                                               limit |-> 2, tif |-> "DAY"])
        book(os, bs) == [orders |-> os, baskets |-> bs, executions |-> <<>>]
        staged == order(1, "BUY", 2)
    IN  {book(<<staged>>, <<"STAGED">>),
         book(<<staged, RoutedTo(order(1, "SELL", 1), Dark)>>, <<"WORKING">>),
         book(<<staged, RoutedTo(order(2, "SELL", 1), Dark)>>, <<"STAGED", "WORKING">>)}

-----------------------------------------------------------------------------
\* The simulator with traders at the console, or traders at the dashboard.
MCInit == VenueInit /\ (DeskInit \/ (CoreInit /\ NoDesk))

MCNext ==
    \/ ~desk /\ BasketNext /\ UNCHANGED deskVars
    \/ DeskNext /\ UNCHANGED <<venueVars, simVars>>

allVars == <<basketVars, deskVars>>

MCSpec ==
    /\ MCInit /\ [][MCNext]_allVars
    /\ \A v \in Loops :
         WF_allVars(~desk /\ (LoopBegins(v) \/ LeaveLoop(v) \/ Round(v))
                          /\ UNCHANGED <<simVars, deskVars>>)
=============================================================================
