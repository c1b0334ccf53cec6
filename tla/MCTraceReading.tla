--------------------------- MODULE MCTraceReading ---------------------------
(* Instances of TraceReading for TLC.                                      *)
EXTENDS TraceReading

CONSTANTS q1, q2, q3, alice, bob, api, other

OwnerOfTrace(q) == IF q = q2 THEN bob ELSE alice

Base == [running |-> {api}, fails |-> FALSE, stops |-> FALSE,
         written |-> {q1, q2}, defective |-> {q1}, gates |-> {"pass"},
         windows |-> {}, elapses |-> TRUE]

(* One loop: more traces in a window than Limit; failures and stops.       *)
Crowd   == [Base EXCEPT !.written = {q1, q2, q3}, !.gates = {}]
Trouble == [Base EXCEPT !.fails = TRUE, !.stops = TRUE]
(* A second loop, or the command, beside the loop: with two traces one     *)
(* indexer is still busy when the other takes its verdict back.            *)
Several == [Base EXCEPT !.running = {api, other}, !.written = {q1},
                        !.fails = TRUE, !.stops = TRUE]
Manual  == [Base EXCEPT !.running = {api, Command}, !.defective = {},
                        !.windows = BOOLEAN]
(* Calls while rows are written and indexed.                               *)
Calling == [Base EXCEPT !.fails = TRUE, !.elapses = FALSE,
                        !.gates = {"fail", "skip"}]
Serviced == [Calling EXCEPT !.fails = FALSE, !.stops = TRUE, !.written = {q1}]

Everyone == {[subject |-> alice, roles |-> {"user", "unknown"}],
             [subject |-> alice, roles |-> {"user", "observer"}],
             [subject |-> bob, roles |-> {"observability_admin"}],
             [subject |-> bob, roles |-> {"observer", "document_admin"}]}

Tried == {NoFilter, [NoFilter EXCEPT !.limit = 2], [NoFilter EXCEPT !.offset = 1],
          [NoFilter EXCEPT !.defects = FALSE, !.limit = 2],
          [NoFilter EXCEPT !.defects = TRUE, !.gate = "fail"],
          [NoFilter EXCEPT !.gate = "skip"],
          [NoFilter EXCEPT !.trace = q1], [NoFilter EXCEPT !.trace = q2]}

ReadersOf(s) == IF s \in {Calling, Serviced} THEN Everyone ELSE {}

HistorySettings == {Crowd, Trouble, Several, Manual, Calling, Serviced}
MetaSettings    == {Serviced}
=============================================================================
