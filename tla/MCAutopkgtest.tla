--------------------------- MODULE MCAutopkgtest ---------------------------
(***************************************************************************)
(* Two packages, b depending on a, each with one new version to come, and  *)
(* three systems: debci with references (kali.conf), and swift without, as *)
(* in the tests: with requests in a file (their configuration) or by AMQP. *)
(* References, and what the file of jobs shows, are one unit of time old at *)
(* most, so that both pass out of use within a run of the model.           *)
(***************************************************************************)
EXTENDS Autopkgtest

MCPackages == {"a", "b"}
MCRDepends == [p \in MCPackages |-> IF p = "a" THEN {"b"} ELSE {}]
MCMoreTriggers == [p \in MCPackages |-> {}]
MCTestVersions == [p \in MCPackages |-> IF p = "a" THEN {} ELSE {1, 2}]

Debci == [swift |-> FALSE, amqp |-> FALSE, reference |-> TRUE, retry |-> 1, max_age |-> 1,
          window |-> 1, ignore_new |-> FALSE, penalty |-> FALSE,
          skiptest |-> {}, badtest |-> [p \in MCPackages |-> 0], new |-> {},
          referenced |-> {"b"}, max_jobs |-> 4, max_time |-> 3]
Swift == [Debci EXCEPT !.swift = TRUE, !.reference = FALSE, !.referenced = {},
                          !.max_jobs = 3, !.max_time = 2]
Amqp == [Swift EXCEPT !.amqp = TRUE]
MCConfigs == {Debci, Swift, Amqp}
MCDebciOnly == {Debci}
=============================================================================
