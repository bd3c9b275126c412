---------------------------- MODULE MCOrganisations ----------------------------
(* TLC instances of Organisations. *)
EXTENDS InMemoryOrganisations, TLC

\* PUTs, servers and secondaries are interchangeable in safety runs.
Symmetry ==
    Permutations(Editors) \cup Permutations(Servers) \cup Permutations(Secondaries)
================================================================================
