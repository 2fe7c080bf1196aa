---------------------------- MODULE MCOrderChain ----------------------------
(***************************************************************************)
(* A small instance of OrderChain: an order of three lots under C1, the    *)
(* replace requests C2 and C3 and the cancel request C4, two of which may  *)
(* overlap, with every kind of answer, in every order, replayed and        *)
(* missing at will.                                                        *)
(***************************************************************************)
EXTENDS OrderChain

CONSTANTS C1, C2, C3, C4, E1, E2

Blank == [type |-> "8", clordid |-> None, origClordid |-> None, qty |-> None,
          execId |-> None, execRefId |-> None, trans |-> None, execType |-> None,
          status |-> None, cum |-> None, shares |-> None, responseTo |-> None]

Order(id, qty)     == [Blank EXCEPT !.type = "D", !.clordid = id, !.qty = qty]
Amend(id, orig, qty) == [Blank EXCEPT !.type = "G", !.clordid = id, !.origClordid = orig, !.qty = qty]
Cancel(id, orig)   == [Blank EXCEPT !.type = "F", !.clordid = id, !.origClordid = orig]
Report(id, exec, type, status, cum) ==
    [Blank EXCEPT !.clordid = id, !.execId = exec, !.execType = type,
                  !.status = status, !.cum = cum, !.qty = 3, !.shares = 1]
Restates(report, trans, ref) == [report EXCEPT !.trans = trans, !.execRefId = ref]
Reject(id, action, status) ==
    [Blank EXCEPT !.type = "9", !.clordid = id, !.responseTo = action, !.status = status]
DontKnow(exec)     == [Blank EXCEPT !.type = "Q", !.execId = exec]

\* The confirmations are of when one lot was filled, and late once two are.
MCMessages ==
    { Order(C1, 3),
      Amend(C2, C1, 2),
      Amend(C3, C2, 2),
      Cancel(C4, C1),
      Report(C1, E1, "PARTIALLY_FILLED", "PARTIALLY_FILLED", 2),
      Restates(Report(C1, E2, "PARTIALLY_FILLED", "PARTIALLY_FILLED", 1), "CANCEL", E1),
      Report(C2, None, "REPLACED", "PARTIALLY_FILLED", 1),
      Report(C3, None, "REPLACED", "PARTIALLY_FILLED", 1),
      Report(C1, None, "CANCELED", "CANCELED", 1),
      Reject(C3, "REPLACE", None),
      DontKnow(E1) }
=============================================================================
