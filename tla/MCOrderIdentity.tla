-------------------------- MODULE MCOrderIdentity --------------------------
(***************************************************************************)
(* Small instances of OrderIdentity: an order that is acknowledged,        *)
(* amended, traded and DK'd, in every order of arrival, and a second one   *)
(* beside it.                                                              *)
(***************************************************************************)
EXTENDS OrderIdentity

CONSTANTS O1, C1, C2, C3, E1, C9, O9, a, b   \* identifiers of orders a and b

MCIds     == {O1, C1, C2, C3, E1, C9, O9}
MCOwnerOf == [i \in MCIds |-> IF i \in {C9, O9} THEN b ELSE a]

Msg(h, o, c, g, e) ==
    [handled |-> h, orderId |-> o, clordid |-> c, origClordid |-> g, execId |-> e]

MCMessages ==
    { Msg(TRUE, NoId, C1, NoId, NoId),   \* D
      Msg(TRUE, O1, C1, NoId, E1),       \* 8, acknowledging or filling
      Msg(TRUE, O1, NoId, NoId, E1),     \* 8 or Q without a ClOrdID
      Msg(TRUE, NoId, C2, C1, NoId),     \* G, or 9 with 37=NONE
      Msg(TRUE, O1, C2, C1, NoId),       \* G or 8 for it
      Msg(TRUE, NoId, C2, NoId, NoId),   \* 9 with 37=NONE and no 41
      Msg(TRUE, NoId, NoId, NoId, E1),   \* Q that names the execution only
      Msg(FALSE, NoId, C2, NoId, E1),    \* an unsupported MsgType
      Msg(TRUE, NoId, C9, NoId, NoId),   \* the other order's D
      Msg(TRUE, O9, C9, NoId, NoId) }    \* and its acknowledgement
=============================================================================
