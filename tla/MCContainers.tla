---------------------------- MODULE MCContainers ----------------------------
(* The sequential containers of src/index, one of them in each behaviour. *)
EXTENDS ContainerMaps, ContainerSeqs

Init == MapsInit \/ SeqsInit

Next == (Art \/ Rbt \/ Avl \/ Skl \/ Tri \/ Spa \/ Strs \/ List \/ Ring \/ Flat \/ Pq) /\ UNCHANGED which

Spec == Init /\ [][Next]_vars
=============================================================================
