----------------------------- MODULE Admission -----------------------------
(***************************************************************************)
(* What the mempool promises about the transactions it takes in: the       *)
(* sequence numbers of a sender are used in increasing order, each at most *)
(* once.  A number may also be used up without its transaction entering.   *)
(***************************************************************************)
EXTENDS Naturals

CONSTANTS Txs, Senders, Sender, Number

VARIABLES
  last,      \* last[s]: the highest number of sender s used so far
  admitted   \* the transactions that have entered the pool

Init ==
  /\ last = [s \in Senders |-> 0]
  /\ admitted = {}

\* The number of t is used: it is higher than any number of its sender.
UseNumber(t) ==
  /\ Number[t] > last[Sender[t]]
  /\ last' = [last EXCEPT ![Sender[t]] = Number[t]]

Admit(t) == UseNumber(t) /\ admitted' = admitted \cup {t}

Spend(t) == UseNumber(t) /\ UNCHANGED admitted

Next == \E t \in Txs : Admit(t) \/ Spend(t)

Spec == Init /\ [][Next]_<<last, admitted>>
=============================================================================
