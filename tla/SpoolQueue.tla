----------------------------- MODULE SpoolQueue -----------------------------
(***************************************************************************)
(* What a spool promises whoever stands at its two ends: one first-in      *)
(* first-out queue.  Entries are numbered in the order they were let in;   *)
(* they come out in that order, each at most once.  A fault may cost the   *)
(* newest entries of the queue, never one from the middle, and a queue     *)
(* that takes no more input never takes input again.                       *)
(***************************************************************************)
EXTENDS Naturals, Sequences

CONSTANT Kinds          \* what distinguishes one entry from another

VARIABLES queue,        \* the entries let in and not yet handed out
          admitted,     \* how many entry numbers have been given out
          delivered,    \* the number of the last entry handed out, 0 at first
          accepting     \* whether input is still taken

qvars == <<queue, admitted, delivered, accepting>>

QueueEntry == [id : Nat, kind : Kinds]

QInit == /\ queue = <<>>
         /\ admitted = 0
         /\ delivered = 0
         /\ accepting = TRUE

\* One entry is let in behind all the others.
Admit(k) == /\ accepting
            /\ admitted' = admitted + 1
            /\ queue' = Append(queue, [id |-> admitted + 1, kind |-> k])
            /\ UNCHANGED <<delivered, accepting>>

\* The oldest entry is handed out.
Deliver == /\ queue # <<>>
           /\ delivered' = Head(queue).id
           /\ queue' = Tail(queue)
           /\ UNCHANGED <<admitted, accepting>>

\* The n oldest entries survive a fault, those behind them do not.
LoseNewest(n) == /\ queue' = SubSeq(queue, 1, n)
                 /\ UNCHANGED <<admitted, delivered, accepting>>

\* A caller gives up before its entry was let in: its number is never used.
Forgo == /\ admitted' = admitted + 1
         /\ UNCHANGED <<queue, delivered, accepting>>

\* No more input; whatever is queued stays, or all of it is thrown away.
Refuse == /\ accepting' = FALSE
          /\ queue' \in {queue, <<>>}
          /\ UNCHANGED <<admitted, delivered>>

QNext == \/ \E k \in Kinds : Admit(k)
         \/ Deliver
         \/ \E n \in 0..Len(queue) : LoseNewest(n)
         \/ Forgo
         \/ Refuse

QSpec == QInit /\ [][QNext]_qvars

-----------------------------------------------------------------------------
\* Whatever comes out is newer than everything that came out before it, and
\* the queue itself is in order.  RecordSpool's javadoc: "Order is preserved
\* across the tiers".
InOrder == /\ \A i \in 1..Len(queue) : delivered < queue[i].id /\ queue[i].id <= admitted
           /\ \A i, j \in 1..Len(queue) : i < j => queue[i].id < queue[j].id
=============================================================================
