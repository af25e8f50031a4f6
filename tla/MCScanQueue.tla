---------------------------- MODULE MCScanQueue ----------------------------
(* Instances of ScanQueue for TLC: run IDs are interchangeable, and so are *)
(* the libraries.                                                          *)
EXTENDS ScanQueue, TLC

RunSymmetry == Permutations(Runs) \cup Permutations(Libs)

(* Symmetry is not sound for liveness.  There runs and libraries are       *)
(* numbers instead, under an action constraint: an ID is drawn after the   *)
(* smaller ones, which only names the runs, and StartAll takes its         *)
(* libraries in order, as the query it asks returns them.  All libraries   *)
(* are there from the start, since no admin takes part.                    *)
InOrder ==
    \A p \in Requests :
        /\ request[p].pc = "next" /\ request'[p].pc = "reserve" =>
              \A l \in request[p].todo : request'[p].lib <= l
        /\ request[p].pc = "reserve" /\ request'[p].pc = "insert" =>
              \A r \in Runs : r < request'[p].run => ~Fresh(r)

OrderedInit == Init /\ \A l \in Libs : library[l].exists
OrderedSpec == OrderedInit /\ [][Next]_vars /\ Fairness
=============================================================================
