------------------------------ MODULE Election ------------------------------
(***************************************************************************)
(* What a node's election promises, whatever the order of the messages:    *)
(* candidates have revealed their seeds, a schedule lists candidates of    *)
(* its epoch only and never becomes empty again, and a node that stops     *)
(* forgets everything at once.                                             *)
(***************************************************************************)
CONSTANTS Epochs, Pubs

VARIABLES
  revealed,    \* pairs of an epoch and a publisher that revealed its seed
  candidates,  \* those whose output was verified as well
  listed       \* listed[e]: whom the schedule of e lists

vars == <<revealed, candidates, listed>>

Init ==
  /\ revealed = {}
  /\ candidates = {}
  /\ listed = [e \in Epochs |-> {}]

CandidatesOf(e) == {p \in Pubs : <<e, p>> \in candidates}

\* A seed is revealed; the output may have been waiting for it.
Reveal(e, p) ==
  /\ revealed' = revealed \cup {<<e, p>>}
  /\ candidates' \in {candidates, candidates \cup {<<e, p>>}}
  /\ UNCHANGED listed

\* The output of a publisher that has revealed its seed is verified.
Admit(e, p) ==
  /\ <<e, p>> \in revealed
  /\ candidates' = candidates \cup {<<e, p>>}
  /\ UNCHANGED <<revealed, listed>>

Schedule(e) ==
  /\ \E S \in (SUBSET CandidatesOf(e)) \ {{}} : listed' = [listed EXCEPT ![e] = S]
  /\ UNCHANGED <<revealed, candidates>>

Forget == revealed' = {} /\ candidates' = {} /\ listed' = [e \in Epochs |-> {}]

Next ==
  \/ \E e \in Epochs : Schedule(e) \/ \E p \in Pubs : Reveal(e, p) \/ Admit(e, p)
  \/ Forget

Spec == Init /\ [][Next]_vars
=============================================================================
