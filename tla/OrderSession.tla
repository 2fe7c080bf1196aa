---------------------------- MODULE OrderSession ----------------------------
(***************************************************************************)
(* An order's whole conversation, and the cache that overhears it.  The    *)
(* client sends a new order, then amendments and cancellations, several of *)
(* them in flight at once; the venue answers in its own time; an audit     *)
(* feed captures both sides in the order they speak and the cache applies  *)
(* it message by message (OrderChain).  The feed may hand the cache a      *)
(* report again that it already had.                                       *)
(*                                                                         *)
(* The venue's messages and the state it restates in them are those of the *)
(* mock venue; how freely the actors interleave is what FIX allows, where  *)
(* the mock runs one script per order.                                     *)
(***************************************************************************)
EXTENDS OrderChain, FiniteSets, FiniteSetsExt

CONSTANTS RejectsCarryStatus,   \* tag 39 is present on cancel rejects
          Unsolicited,          \* what the venue does unasked: some of Actions
          MaxRequests,          \* bound: F and G sent
          MaxWire               \* bound: captured messages not yet applied

ASSUME SessionAssumption == /\ RejectsCarryStatus \in BOOLEAN
                            /\ Unsolicited \subseteq Actions
                            /\ MaxRequests \in Nat /\ MaxWire \in Nat
                            /\ ClOrdIDs = 1..(MaxRequests + 1)
                            /\ IsFiniteSet(ExecIDs) /\ ExecIDs = 1..Cardinality(ExecIDs)
                            /\ None \notin ClOrdIDs /\ None \notin ExecIDs /\ None \notin Qtys
                            /\ None \notin Statuses /\ None \notin Actions /\ None \notin ExecRow
                            /\ None \notin {"NEW", "CANCEL", "CORRECT"}

VARIABLES
    wire,          \* captured, not yet applied
    phase,         \* the order at the venue: "none", "asked", "live", "canceled", "rejected"
    vCum, vQty, vClordid,
    vStatus,       \* the last tag 39 the venue sent
    unanswered,    \* requests the venue has not answered
    sent, execs,   \* ClOrdIDs and ExecIDs used so far
    lastFill,      \* ExecID and size of the fill a bust or correction would name
    unasked,       \* history: the venue cancelled or replaced of its own accord
    heard          \* reports the cache has had

venueVars   == <<phase, vCum, vQty, vClordid, vStatus, unanswered, sent, execs, lastFill,
                 unasked>>
sessionVars == <<chainVars, wire, venueVars, heard>>

NoFill == [execId |-> None, shares |-> 0]

Init == /\ ChainInit
        /\ wire = <<>>
        /\ phase = "none" /\ vCum = 0 /\ vQty = 0 /\ vClordid = None /\ vStatus = None
        /\ unanswered = {} /\ sent = 0 /\ execs = 0 /\ lastFill = NoFill
        /\ unasked = FALSE /\ heard = {}

-----------------------------------------------------------------------------
Blank == [type |-> "8", clordid |-> None, origClordid |-> None, qty |-> None,
          execId |-> None, execRefId |-> None, trans |-> None, execType |-> None,
          status |-> None, cum |-> None, shares |-> None, responseTo |-> None]

Capture(m) == /\ Len(wire) < MaxWire
              /\ wire' = Append(wire, m)
              /\ UNCHANGED <<chainVars, heard>>

\* buildExec: the venue numbers its reports and remembers the status it gave.
Report(m) == /\ execs' = execs + 1
             /\ execs' \in ExecIDs
             /\ vStatus' = m.status
             /\ Capture([m EXCEPT !.execId = execs', !.qty = vQty', !.cum = vCum',
                                  !.trans = IF m.trans = None THEN "NEW" ELSE m.trans])

\* restatedOrdStatus
Working == IF vCum' = 0 THEN "NEW"
           ELSE IF vCum' >= vQty' THEN "FILLED" ELSE "PARTIALLY_FILLED"

-----------------------------------------------------------------------------
\* The client

SendNew == /\ phase = "none"
           /\ \E q \in 1..MaxQty :
                /\ vQty' = q
                /\ Capture([Blank EXCEPT !.type = "D", !.clordid = 1, !.qty = q])
           /\ phase' = "asked" /\ vClordid' = 1 /\ sent' = 1
           /\ UNCHANGED <<vCum, vStatus, unanswered, execs, lastFill, unasked, heard>>

Ask(m) == /\ phase = "live" /\ sent <= MaxRequests
          /\ sent' = sent + 1
          /\ unanswered' = unanswered \cup {m}
          /\ Capture(m)
          /\ UNCHANGED <<phase, vCum, vQty, vClordid, vStatus, execs, lastFill, unasked>>

SendAmend == \E q \in 1..MaxQty :
    Ask([Blank EXCEPT !.type = "G", !.clordid = sent + 1, !.origClordid = vClordid, !.qty = q])

SendCancel ==
    Ask([Blank EXCEPT !.type = "F", !.clordid = sent + 1, !.origClordid = vClordid, !.qty = vQty])

SendDontKnow == /\ lastFill # NoFill
                /\ Capture([Blank EXCEPT !.type = "Q", !.execId = lastFill.execId])
                /\ UNCHANGED venueVars

-----------------------------------------------------------------------------
\* The venue

PendingNew == /\ phase = "asked" /\ vStatus = None
              /\ UNCHANGED <<phase, vCum, vQty, vClordid, unanswered, sent, lastFill, unasked>>
              /\ Report([Blank EXCEPT !.clordid = 1, !.execType = "PENDING_NEW",
                                      !.status = "PENDING_NEW"])

Acknowledge == /\ phase = "asked"
               /\ phase' = "live"
               /\ UNCHANGED <<vCum, vQty, vClordid, unanswered, sent, lastFill, unasked>>
               /\ Report([Blank EXCEPT !.clordid = 1, !.execType = "NEW", !.status = "NEW"])

RejectNew == /\ phase = "asked"
             /\ phase' = "rejected"
             /\ UNCHANGED <<vCum, vQty, vClordid, unanswered, sent, lastFill, unasked>>
             /\ Report([Blank EXCEPT !.clordid = 1, !.execType = "REJECTED",
                                     !.status = "REJECTED"])

Fill == /\ phase = "live"
        /\ \E n \in 1..(vQty - vCum) :
             /\ vCum' = vCum + n
             /\ lastFill' = [execId |-> execs + 1, shares |-> n]
        /\ UNCHANGED <<phase, vQty, vClordid, unanswered, sent, unasked>>
        /\ Report([Blank EXCEPT !.clordid = vClordid, !.execType = Working, !.status = Working,
                                !.shares = vCum' - vCum])

\* The request reached the venue and waits there: 150=E or 150=6.
Received(r) ==
    LET status == IF r.type = "G" THEN "PENDING_REPLACE" ELSE "PENDING_CANCEL"
    IN  /\ phase = "live"
        /\ UNCHANGED <<phase, vCum, vQty, vClordid, unanswered, sent, lastFill, unasked>>
        /\ Report([Blank EXCEPT !.clordid = r.clordid, !.origClordid = vClordid,
                                !.execType = status, !.status = status])

Replace(r) == /\ r.type = "G" /\ phase = "live" /\ r.qty > vCum
              /\ unanswered' = unanswered \ {r}
              /\ vQty' = r.qty /\ vClordid' = r.clordid
              /\ UNCHANGED <<phase, vCum, sent, lastFill, unasked>>
              /\ Report([Blank EXCEPT !.clordid = r.clordid, !.origClordid = vClordid,
                                      !.execType = "REPLACED", !.status = Working])

CancelOrder(r) == /\ r.type = "F" /\ phase = "live" /\ vCum < vQty
                  /\ unanswered' = unanswered \ {r}
                  /\ phase' = "canceled"
                  /\ UNCHANGED <<vCum, vQty, vClordid, sent, lastFill, unasked>>
                  /\ Report([Blank EXCEPT !.clordid = r.clordid, !.origClordid = vClordid,
                                          !.execType = "CANCELED", !.status = "CANCELED"])

RejectRequest(r) ==
    /\ unanswered' = unanswered \ {r}
    /\ UNCHANGED <<phase, vCum, vQty, vClordid, sent, execs, lastFill, unasked>>
    /\ vStatus' = IF phase = "canceled" THEN "CANCELED" ELSE Working
    /\ Capture([Blank EXCEPT !.type = "9", !.clordid = r.clordid, !.origClordid = vClordid,
                             !.responseTo = IF r.type = "G" THEN "REPLACE" ELSE "CANCEL",
                             !.status = IF RejectsCarryStatus THEN vStatus' ELSE None])

\* 20=1 and 20=2 name the last fill and restate the order.
Bust == /\ phase = "live" /\ lastFill # NoFill
        /\ vCum' = vCum - lastFill.shares
        /\ lastFill' = NoFill
        /\ UNCHANGED <<phase, vQty, vClordid, unanswered, sent, unasked>>
        /\ Report([Blank EXCEPT !.clordid = vClordid, !.trans = "CANCEL",
                                !.execRefId = lastFill.execId,
                                !.execType = Working, !.status = Working])

Correct == /\ phase = "live" /\ lastFill # NoFill
           /\ UNCHANGED <<phase, vCum, vQty, vClordid, unanswered, sent, lastFill, unasked>>
           /\ Report([Blank EXCEPT !.clordid = vClordid, !.trans = "CORRECT",
                                   !.execRefId = lastFill.execId, !.shares = lastFill.shares,
                                   !.execType = Working, !.status = Working])

\* Unasked: the venue cancels the order, or replaces its terms.
CancelUnasked == /\ "CANCEL" \in Unsolicited
                 /\ phase = "live" /\ vCum < vQty
                 /\ phase' = "canceled" /\ unasked' = TRUE
                 /\ UNCHANGED <<vCum, vQty, vClordid, unanswered, sent, lastFill>>
                 /\ Report([Blank EXCEPT !.clordid = vClordid, !.execType = "CANCELED",
                                         !.status = "CANCELED"])

ReplaceUnasked == /\ "REPLACE" \in Unsolicited
                  /\ phase = "live" /\ vCum < vQty
                  /\ vQty' \in (vCum + 1)..MaxQty /\ unasked' = TRUE
                  /\ UNCHANGED <<phase, vCum, vClordid, unanswered, sent, lastFill>>
                  /\ Report([Blank EXCEPT !.clordid = vClordid, !.execType = "REPLACED",
                                          !.status = Working])

-----------------------------------------------------------------------------
\* The cache

Apply == /\ wire # <<>>
         /\ Handle(Head(wire))
         /\ wire' = Tail(wire)
         /\ heard' = heard \cup (IF Head(wire).type = "8" THEN {Head(wire)} ELSE {})
         /\ UNCHANGED venueVars

\* A report comes in once more, any time later.
Redelivered == \E m \in heard : Handle(m) /\ UNCHANGED <<wire, venueVars, heard>>

Next == \/ SendNew \/ SendAmend \/ SendCancel \/ SendDontKnow
        \/ PendingNew \/ Acknowledge \/ RejectNew \/ Fill
        \/ \E r \in unanswered : Received(r) \/ Replace(r) \/ CancelOrder(r) \/ RejectRequest(r)
        \/ Bust \/ Correct \/ CancelUnasked \/ ReplaceUnasked
        \/ Apply \/ Redelivered

Spec == Init /\ [][Next]_sessionVars

-----------------------------------------------------------------------------
\* Properties

\* The answer to the request with ClOrdID r.
Answers(m, r) == /\ m.clordid = r /\ m.origClordid # None
                 /\ m.type = "9" \/ m.execType \in {"REPLACED", "CANCELED"}

SessionTypeOK ==
    /\ ChainTypeOK
    /\ wire \in Seq(Message) /\ heard \in SUBSET Message /\ unanswered \in SUBSET Message
    /\ phase \in {"none", "asked", "live", "canceled", "rejected"}
    /\ vCum \in Qtys /\ vQty \in Qtys /\ vStatus \in Optional(Statuses)
    /\ sent \in 0..(MaxRequests + 1) /\ execs \in {0} \cup ExecIDs

\* "Pending flags remain until 8(4/5) or 9": at every moment the cache holds
\* exactly the requests it has seen and whose answer it has not, however they
\* overlap and whatever fills, busts or replays come between; a confirmation
\* nobody asked for may be taken for another request's.
PendingExact ==
    ~unasked => {pending[i].clordid : i \in DOMAIN pending}
        = {id \in ClOrdIDs :
             /\ \/ \E r \in unanswered : r.clordid = id
                \/ \E i \in DOMAIN wire : Answers(wire[i], id)
             /\ ~\E i \in DOMAIN wire : wire[i].type \in {"G", "F"} /\ wire[i].clordid = id}

\* Nothing captured is left to apply and no request to answer.
Settled == wire = <<>> /\ unanswered = {} /\ phase # "none"

\* When the conversation has come to rest, the cache shows the status the
\* venue last stated, whoever asked for what in between.
StatusAgrees == Settled /\ vStatus # None => ordStatus = vStatus

\* It shows the filled quantity as the fills, busts and corrections left it.
FillsAgree == Settled => cumQty = vCum

\* It shows the terms and the ClOrdID of the last amendment the venue made,
\* if it made none unasked.
TermsAgree == Settled /\ ~unasked => orderQty = vQty /\ clordid = vClordid

\* And it shows no request as pending that was answered long ago.
NothingInFlight == Settled => pending = <<>>

\* A busted execution is never shown as a good one again, however often its
\* fill or its bust comes back.
BustsStay == \A m \in heard : m.trans = "CANCEL" => execRows[m.execRefId].disposition # "NORMAL"

\* The executions table explains the order's filled quantity: the shares of the fills that were
\* not busted add up to it.  state_machine.py: _reemit_reference; model.py: ExecutionRow.
ExecutionsExplainCum ==
    Settled =>
        LET counted == {e \in ExecIDs : /\ execRows[e] # None
                                        /\ execRows[e].fill /\ execRows[e].disposition # "BUSTED"}
        IN  cumQty = MapThenSumSet(LAMBDA e : execRows[e].shares, counted)

\* The cache follows the conversation of client and venue: its open requests at every moment; and
\* at rest its status, filled quantity, terms and executions are the venue's.
\* state_machine.py: the six handlers.
CacheFollows ==
    /\ SessionTypeOK /\ PendingExact /\ PendingShown /\ BustsStay
    /\ StatusAgrees /\ FillsAgree /\ TermsAgree /\ NothingInFlight /\ ExecutionsExplainCum
=============================================================================
