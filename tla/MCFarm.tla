------------------------------- MODULE MCFarm -------------------------------
(* Two miners; a job of a pool without an extranonce, one of a pool that    *)
(* gives one digit, and one of the next epoch.                              *)
EXTENDS Farm

MCJobs == << [epoch |-> 1, ex |-> 0, start |-> 0],
             [epoch |-> 1, ex |-> 1, start |-> 16],
             [epoch |-> 2, ex |-> 0, start |-> 0] >>
\* a pool that is an epoch behind takes over
MCJobsBack == << [epoch |-> 1, ex |-> 0, start |-> 0],
                 [epoch |-> 2, ex |-> 0, start |-> 0],
                 [epoch |-> 1, ex |-> 0, start |-> 0] >>
MCScopes == { {"collect", "main"}, {"find", "restart", "main"},
              {"api", "width", "restart"}, {"fault", "api"},
              {"sequential"}, {"sim", "api"} }
MCScopesStop == { {"sequential"} }
MCScramblers == {24}
=============================================================================
