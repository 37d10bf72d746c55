---------------------------- MODULE InProcessMC ----------------------------
(***************************************************************************)
(* An instance of InProcess for TLC: the answers Engine speaks of are the  *)
(* ones the simulator gives.                                               *)
(***************************************************************************)
EXTENDS InProcess

SimulatedAnswers ==
  [role \in AssignedRole |->
     IF role \in ServedRole
     THEN Replies(role) \cup {Unstored(a) : a \in {b \in Replies(role) : HasFiles(b)}}
     ELSE {}]

NoOrder == {}
=============================================================================
