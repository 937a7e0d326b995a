---------------------------- MODULE MCAdmission ----------------------------
(***************************************************************************)
(* One event, two managers, two scanners, two processes and two keys.      *)
(***************************************************************************)
EXTENDS AdmissionProperties, TLC

OneEvent == [t \in Tickets |-> CHOOSE e \in Events : TRUE]
Alike == Permutations(Managers) \cup Permutations(Scanners) \cup Permutations(Processes) \cup Permutations(Tickets)
==============================================================================
