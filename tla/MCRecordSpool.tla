--------------------------- MODULE MCRecordSpool ---------------------------
(***************************************************************************)
(* Small instances of RecordSpool.  A small entry fits the write buffer,   *)
(* and two of them fit memory; a big one fits neither memory nor buffer.   *)
(***************************************************************************)
EXTENDS RecordSpool

MCSizeOf  == [small |-> 1, big |-> 3]
MCFrameOf == [small |-> 1, big |-> 3]
MCKinds   == {"small", "big"}
=============================================================================
