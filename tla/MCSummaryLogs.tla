----------------------------- MODULE MCSummaryLogs -----------------------------
(* TLC instances of SummaryLogs. *)
EXTENDS InMemorySummaryLogs, TLC

\* Callbacks, servers, secondaries and files are interchangeable in safety runs.
Symmetry ==
    Permutations(Requests) \cup Permutations(Servers) \cup
    Permutations(Secondaries) \cup Permutations(FileIds)
================================================================================
