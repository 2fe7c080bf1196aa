----------------------------- MODULE OrderChain -----------------------------
(***************************************************************************)
(* One order chain of the FIX 4.2 cache: what each of the six handled      *)
(* message types (35 = D, G, F, 8, 9, Q) does to its published state and   *)
(* to the requests it keeps in flight.  OrderIdentity says which chain a   *)
(* message goes to.                                                        *)
(*                                                                         *)
(* Quantities stand for every order term (38, 44, 99, 59), which the code  *)
(* stages, applies and fills alike; cumQty for the snapshot of 14, 151 and *)
(* 6; a row of execRows for a stored executions row.  None is an absent tag or *)
(* an empty string; a quantity of 0 is the empty one, as in the code.      *)
(*                                                                         *)
(* The messages are records of one shape.  Which of them arrive is a       *)
(* constant here; OrderSession has a client and a venue send them.         *)
(***************************************************************************)
EXTENDS Naturals, Sequences, FiniteSets, SequencesExt

CONSTANTS ClOrdIDs, ExecIDs, None,
          MaxQty,          \* bound: largest quantity
          MaxPending,      \* bound: requests in flight in one chain
          Messages         \* what the feed may carry

Qtys     == 0..MaxQty
Statuses == {"PENDING_NEW", "NEW", "PARTIALLY_FILLED", "FILLED", "CANCELED", "REJECTED",
             "REPLACED", "PENDING_CANCEL", "PENDING_REPLACE"}
ExecTypes == Statuses
Actions  == {"REPLACE", "CANCEL"}
Optional(S) == S \cup {None}

Message == [type    : {"D", "G", "F", "8", "9", "Q"},
            clordid : Optional(ClOrdIDs), origClordid : Optional(ClOrdIDs),
            qty     : Optional(Qtys),
            execId  : Optional(ExecIDs), execRefId : Optional(ExecIDs),
            trans   : Optional({"NEW", "CANCEL", "CORRECT"}),
            execType : Optional(ExecTypes), status : Optional(Statuses),
            cum     : Optional(Qtys), shares : Optional(Qtys),
            responseTo : Optional(Actions)]

ASSUME ChainAssumption == /\ Messages \subseteq Message
                          /\ MaxQty \in Nat /\ MaxPending \in Nat

VARIABLES
    open,            \* the chain exists
    ordStatus, cumQty, orderQty, clordid,
    pendingAction, pendingClordid,     \* the published summary of what is in flight
    pending,         \* in-flight F and G requests, oldest first
    priorStatus,     \* request ClOrdID -> status when it was sent, "unset" if none
    newPending,      \* a D waits for the venue's answer
    execIds,         \* ExecIDs seen as tag 17 of an 8
    execRows         \* ExecID -> its stored executions row, None if there is none

published == <<ordStatus, cumQty, orderQty, clordid>>
flight    == <<pendingAction, pendingClordid, pending, priorStatus, newPending>>
rows      == <<execIds, execRows>>
chainVars == <<open, published, flight, rows>>

ExecRow == [fill : BOOLEAN, shares : Qtys, disposition : {"NORMAL", "BUSTED", "CORRECTED", "DK"}]

Request == [action : Actions, clordid : Optional(ClOrdIDs), qty : Optional(Qtys)]

ChainInit ==
        /\ open = FALSE
        /\ ordStatus = None /\ cumQty = 0 /\ orderQty = 0 /\ clordid = None
        /\ pendingAction = "NONE" /\ pendingClordid = None
        /\ pending = <<>>
        /\ priorStatus = [c \in Optional(ClOrdIDs) |-> "unset"]
        /\ newPending = FALSE
        /\ execIds = {}
        /\ execRows = [e \in Optional(ExecIDs) |-> None]

-----------------------------------------------------------------------------
\* Shared helpers

OrElse(a, b) == IF a # None THEN a ELSE b

\* The terms a message carries, taken over, or only into an empty field.
Terms(m)       == OrElse(m.qty, orderQty)
FillTerms(m)   == IF orderQty = 0 THEN Terms(m) ELSE orderQty

\* The published summary follows the newest request, else the open D.
RecomputePending ==
    /\ pendingAction'  = IF pending' # <<>> THEN Last(pending').action
                         ELSE IF newPending' THEN "NEW" ELSE "NONE"
    /\ pendingClordid' = IF pending' # <<>> THEN Last(pending').clordid ELSE None

\* Which request an answer is for: the newest of its action with its ClOrdID,
\* else the newest of its action; 0 if there is none.
Newest(indices) == IF indices = {} THEN 0 ELSE CHOOSE i \in indices : \A j \in indices : j <= i

InFlight(requests, action) == {i \in DOMAIN requests : requests[i].action = action}

\* Mutant: an answer is for the newest request of its action, whatever its ClOrdID.
Answered_Newest(requests, action, id) == Newest(InFlight(requests, action))

Answered(requests, action, id) ==
    LET exact == {i \in InFlight(requests, action) : id # None /\ requests[i].clordid = id}
    IN  IF exact # {} THEN Newest(exact) ELSE Newest(InFlight(requests, action))

Without(requests, i) == IF i = 0 THEN requests ELSE RemoveAt(requests, i)

-----------------------------------------------------------------------------
\* 35=D.  A new chain takes everything; a late D fills gaps only.
NewOrder(m) ==
    /\ m.type = "D"
    /\ open' = TRUE
    /\ \/ /\ ~open
          /\ clordid' = m.clordid
          /\ orderQty' = Terms(m)
          /\ ordStatus' = "PENDING_NEW"
          /\ cumQty' = 0
          /\ newPending' = TRUE
       \/ /\ open
          /\ clordid' = OrElse(clordid, m.clordid)
          /\ orderQty' = FillTerms(m)
          /\ UNCHANGED <<ordStatus, cumQty, newPending>>
    /\ UNCHANGED <<pending, priorStatus, rows>>
    /\ RecomputePending

\* A request is in flight from now on; the status it found is kept for its
\* rejection.  Its terms are staged, not applied.
Register(m, action, staged) ==
    /\ Len(pending) < MaxPending
    /\ priorStatus' = [priorStatus EXCEPT ![m.clordid] = ordStatus]
    /\ pending' = Append(pending, [action |-> action, clordid |-> m.clordid, qty |-> staged])
    /\ UNCHANGED newPending
    /\ RecomputePending

\* The order a request speaks of was never seen: the chain starts with it.
SeedFromRequest(m) == /\ open' = TRUE
                      /\ clordid' = IF open THEN clordid ELSE OrElse(m.origClordid, m.clordid)
                      /\ orderQty' = IF open THEN orderQty ELSE Terms(m)

\* 35=G
ReplaceRequest(m) == /\ m.type = "G"
                     /\ SeedFromRequest(m)
                     /\ Register(m, "REPLACE", m.qty)
                     /\ ordStatus' = "PENDING_REPLACE"
                     /\ UNCHANGED <<cumQty, rows>>

\* 35=F
CancelRequest(m) == /\ m.type = "F"
                    /\ SeedFromRequest(m)
                    /\ Register(m, "CANCEL", None)
                    /\ ordStatus' = "PENDING_CANCEL"
                    /\ UNCHANGED <<cumQty, rows>>

-----------------------------------------------------------------------------
\* 35=8

IsBust(m)     == m.trans = "CANCEL"
IsCorrect(m)  == m.trans = "CORRECT"

Duplicate(m)  == m.execId # None /\ m.execId \in execIds

\* A report whose CumQty went backwards carries no economic truth, unless it
\* busts or corrects.
Stale(m) == /\ ~IsBust(m) /\ ~IsCorrect(m)
            /\ m.cum # None /\ m.cum < cumQty

\* The identity a chain takes from the report that opens it.
SeededId(m) == IF open THEN clordid ELSE m.clordid

\* What a report resolves: a cancel confirmation one CANCEL request, a replace
\* confirmation one REPLACE request, whose staged terms take effect and whose
\* ClOrdID becomes the order's.
AfterCancel(m) ==
    IF m.execType = "CANCELED" \/ m.status = "CANCELED"
    THEN Without(pending, Answered(pending, "CANCEL", m.clordid))
    ELSE pending

ResolvePending(m) ==
    LET left     == AfterCancel(m)
        i        == Answered(left, "REPLACE", m.clordid)
        staged   == IF i = 0 THEN None ELSE left[i].qty
        rotated  == OrElse(m.clordid, IF i = 0 THEN None ELSE left[i].clordid)
    IN  /\ newPending' = (newPending /\ m.execType = "PENDING_NEW")
        /\ \/ /\ m.execType = "REPLACED"
              /\ pending' = Without(left, i)
              /\ orderQty' = OrElse(staged, FillTerms(m))
              /\ clordid' = OrElse(rotated, SeededId(m))
           \/ /\ m.execType # "REPLACED"
              /\ pending' = left
              /\ orderQty' = FillTerms(m)
              /\ clordid' = SeededId(m)
        /\ UNCHANGED priorStatus
        /\ RecomputePending

\* The row of the report itself
BuildExecRow(m) == [fill |-> m.trans \in {None, "NEW"} /\ m.execType \in {"PARTIALLY_FILLED", "FILLED"},
                    shares |-> OrElse(m.shares, 0), disposition |-> "NORMAL"]

\* The row of an execution that a message busts, corrects or does not know, made up if that
\* execution was never seen; a correction's shares become its own.
Reemitted(row, disposition, shares) ==
    LET stored == IF row = None THEN [fill |-> FALSE, shares |-> 0] ELSE row
    IN  [fill |-> stored.fill, shares |-> OrElse(shares, stored.shares), disposition |-> disposition]

\* Mutant: a bust shows on its own row only.
Dispositions_OwnOnly(m) ==
    IF m.execId = None THEN execRows ELSE [execRows EXCEPT ![m.execId] = BuildExecRow(m)]

Dispositions(m) ==
    LET own == IF m.execId = None THEN execRows
               ELSE [execRows EXCEPT ![m.execId] = BuildExecRow(m)]
    IN  IF m.execRefId # None /\ (IsBust(m) \/ IsCorrect(m))
        THEN [own EXCEPT ![m.execRefId] = IF IsBust(m) THEN Reemitted(@, "BUSTED", None)
                                          ELSE Reemitted(@, "CORRECTED", m.shares)]
        ELSE own

\* A replayed ExecID binds and counts and fills empty terms, and that is all.
ReportDuplicate(m) ==
    /\ Duplicate(m)
    /\ orderQty' = FillTerms(m)
    /\ clordid' = SeededId(m)
    /\ UNCHANGED <<ordStatus, cumQty, flight, rows>>

\* A stale report still sets the status, and resolves nothing.
ReportStale(m) ==
    /\ ~Duplicate(m) /\ Stale(m)
    /\ ordStatus' = OrElse(m.status, ordStatus)
    /\ execIds' = execIds \cup ({m.execId} \ {None})
    /\ execRows' = Dispositions(m)
    /\ orderQty' = FillTerms(m)
    /\ clordid' = SeededId(m)
    /\ UNCHANGED <<cumQty, flight>>

\* Any other report: its snapshot is adopted and it resolves what it answers.
ReportCurrent(m) ==
    /\ ~Duplicate(m) /\ ~Stale(m)
    /\ ordStatus' = OrElse(m.status, ordStatus)
    /\ cumQty' = OrElse(m.cum, cumQty)
    /\ execIds' = execIds \cup ({m.execId} \ {None})
    /\ execRows' = Dispositions(m)
    /\ ResolvePending(m)

ExecutionReport(m) ==
    /\ m.type = "8"
    /\ open' = TRUE
    /\ ReportDuplicate(m) \/ ReportStale(m) \/ ReportCurrent(m)

-----------------------------------------------------------------------------
\* 35=9.  Tag 434 says which kind of request was rejected; without it, the
\* kind of the newest request with the rejected ClOrdID.
RejectedAction(m) ==
    LET named == Newest({i \in DOMAIN pending : pending[i].clordid = m.clordid})
    IN  OrElse(m.responseTo, IF named = 0 THEN None ELSE pending[named].action)

\* The venue's status wins over the one the request found.
StatusAfterReject(m) ==
    OrElse(m.status,
           IF priorStatus[m.clordid] # "unset" THEN priorStatus[m.clordid] ELSE ordStatus)

CancelReject(m) ==
    /\ m.type = "9"
    /\ open' = TRUE
    /\ pending' = LET action == RejectedAction(m)
                  IN  IF action = None THEN pending
                      ELSE Without(pending, Answered(pending, action, m.clordid))
    /\ ordStatus' = StatusAfterReject(m)
    /\ UNCHANGED <<cumQty, orderQty, clordid, newPending, priorStatus, rows>>
    /\ RecomputePending

\* 35=Q marks the execution it names, whatever is known of it.
DontKnowTrade(m) ==
    /\ m.type = "Q"
    /\ open' = TRUE
    /\ execRows' = [execRows EXCEPT ![m.execId] = Reemitted(@, "DK", None)]
    /\ UNCHANGED <<published, flight, execIds>>

Handle(m) == \/ NewOrder(m)
             \/ ReplaceRequest(m)
             \/ CancelRequest(m)
             \/ ExecutionReport(m)
             \/ CancelReject(m)
             \/ DontKnowTrade(m)

ChainNext == \E m \in Messages : Handle(m)

ChainSpec == ChainInit /\ [][ChainNext]_chainVars

-----------------------------------------------------------------------------
\* Properties

ChainTypeOK ==
    /\ open \in BOOLEAN /\ newPending \in BOOLEAN
    /\ ordStatus \in Optional(Statuses)
    /\ cumQty \in Qtys /\ orderQty \in Qtys
    /\ clordid \in Optional(ClOrdIDs)
    /\ pendingAction \in Actions \cup {"NEW", "NONE"}
    /\ pendingClordid \in Optional(ClOrdIDs)
    /\ pending \in Seq(Request)
    /\ priorStatus \in [Optional(ClOrdIDs) -> Optional(Statuses) \cup {"unset"}]
    /\ execIds \in SUBSET ExecIDs
    /\ execRows \in [Optional(ExecIDs) -> Optional(ExecRow)]

\* PendingAction and PendingClOrdID are what the dashboard shows of the
\* in-flight list: after every message they say what its newest entry says.
PendingShown ==
    /\ pending # <<>> => /\ pendingAction = Last(pending).action
                         /\ pendingClordid = Last(pending).clordid
    /\ pending = <<>> => /\ pendingAction = IF newPending THEN "NEW" ELSE "NONE"
                         /\ pendingClordid = None

\* "A non-bust/correct 8 whose CumQty is lower than current is stale": the
\* filled quantity goes down by a bust or a correction only.
CumFallsByBustOnly(m) == cumQty' < cumQty => m.type = "8" /\ (IsBust(m) \/ IsCorrect(m))

\* "Apply no economic or status changes" for an ExecID already seen: a replayed
\* report leaves status, fills, dispositions and requests as they are, however
\* much happened since it first came.
ReplayChangesNothing(m) ==
    m.type = "8" /\ m.execId \in execIds =>
        /\ UNCHANGED <<ordStatus, cumQty, flight, rows>>
        /\ open => UNCHANGED clordid

\* "Do not apply until the confirming 8": terms once known change only to
\* those of a replace request in flight, which is in flight no longer.
TermsChangeOnConfirm(m) ==
    orderQty # 0 /\ orderQty' # orderQty =>
        \E i \in DOMAIN pending : /\ pending[i].action = "REPLACE"
                                  /\ pending[i].qty = orderQty'
                                  /\ Len(pending') < Len(pending)

\* The requests of an action in flight that carry a ClOrdID.
Carrying(requests, a, id) == {i \in InFlight(requests, a) : requests[i].clordid = id}

\* What may settle a request of an action: a rejection, or a report that confirms it.
MaySettle(m, a) ==
    \/ m.type = "9"
    \/ /\ m.type = "8"
       /\ IF a = "REPLACE" THEN m.execType = "REPLACED"
          ELSE "CANCELED" \in {m.execType, m.status}

\* "Multiple in-flight F/G don't clobber each other": a message settles one request of an action at
\* most, and while the one it names is in flight that one.  An answer to no request in flight, a
\* repeated rejection for instance, is taken for one to the newest of its kind.
SettlesItsOwn(m) ==
    pending' # pending => \A a \in Actions :
        /\ Cardinality(InFlight(pending', a)) + 1 >= Cardinality(InFlight(pending, a))
        /\ \A id \in Optional(ClOrdIDs) :
             Cardinality(Carrying(pending', a, id)) < Cardinality(Carrying(pending, a, id)) =>
                /\ MaySettle(m, a)
                /\ \/ id = m.clordid
                   \/ /\ m.clordid = None \/ Carrying(pending, a, m.clordid) = {}
                      /\ id = pending[Newest(InFlight(pending, a))].clordid

\* A message that busts, corrects or does not know an execution.
Marks(m, e) == \/ m.type = "Q" /\ m.execId = e
               \/ m.type = "8" /\ m.execRefId = e /\ ~Duplicate(m) /\ (IsBust(m) \/ IsCorrect(m))

\* The row of an execution that was seen changes only by what marks it, and not to a good one: no
\* replay of the fill, nor of a bust with its ExecID, brings an old disposition back.  A repeated Q
\* carries no ExecID of its own and marks again.
SeenRowsStand(m) ==
    \A e \in execIds : execRows'[e] # execRows[e] =>
        Marks(m, e) /\ execRows'[e].disposition # "NORMAL"

\* A report that says nothing current of the order must not settle what is in
\* flight: as long as the filled quantity it shows is behind, requests stay.
StaleSettlesNothing(m) ==
    m.type = "8" /\ ~IsBust(m) /\ ~IsCorrect(m) /\ m.cum # None /\ m.cum < cumQty =>
        UNCHANGED <<cumQty, pending, newPending>>

\* What no feed can do to an order, however many messages are replayed, missing or out of order: no
\* quantity, terms or disposition comes back but by a message that states it, and an answer leaves
\* the other requests alone while its own is in flight.
\* state_machine.py: _handle_execution_report, _handle_replace_request, _clear_pending.
HistoryStands ==
    [][\A m \in Messages : Handle(m) =>
         /\ CumFallsByBustOnly(m) /\ ReplayChangesNothing(m) /\ TermsChangeOnConfirm(m)
         /\ SettlesItsOwn(m) /\ SeenRowsStand(m) /\ StaleSettlesNothing(m)]_chainVars
=============================================================================
