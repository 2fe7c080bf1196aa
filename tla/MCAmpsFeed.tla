----------------------------- MODULE MCAmpsFeed -----------------------------
(***************************************************************************)
(* Five messages for AmpsFeed: an order, a message without a payload, two  *)
(* reports of the order under a new id and a message that does not parse;  *)
(* a row refused by the full buffer of two would have one behind it.       *)
(***************************************************************************)
EXTENDS AmpsFeed, TLC

CONSTANTS K, C1, C2

MCLog == << [kind |-> "fix", key |-> K, id |-> C1, exec |-> FALSE],
            [kind |-> "empty", key |-> K, id |-> C1, exec |-> FALSE],
            [kind |-> "fix", key |-> K, id |-> C2, exec |-> TRUE],
            [kind |-> "fix", key |-> K, id |-> C2, exec |-> TRUE],
            [kind |-> "bad", key |-> K, id |-> C1, exec |-> FALSE] >>
MCLiteral == "2|1|" :> 2
=============================================================================
