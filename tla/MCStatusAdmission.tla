-------------------------- MODULE MCStatusAdmission --------------------------
(* StatusAdmission for TLC: calls and cache objects are interchangeable. *)
EXTENDS StatusAdmission, TLC

CallSymmetry == Permutations(Requests) \cup Permutations(Objects)

(* A bound: entries do not get old, every call reports a usage, and no two of
   them are for one namespace. *)
YoungAndApart ==
  /\ \A o \in Objects, n \in Namespaces : quotas[o][n].age # "old"
  /\ \A r \in Requests : pc[r] # "idle" => req[r].used > 0
  /\ \A r, s \in Requests :
       r # s /\ pc[r] # "idle" /\ pc[s] # "idle" => req[r].ns # req[s].ns
=============================================================================
