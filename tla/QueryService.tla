---------------------------- MODULE QueryService ----------------------------
(***************************************************************************)
(* What the query endpoint promises, without saying how: a query is        *)
(* refused, answered or failed, once; its trace and its defects become     *)
(* visible together, at most once, and are the ones that its client is     *)
(* told; a failed query leaves nothing behind; a verdict is attached to    *)
(* an answered and recorded query only, at most once.                      *)
(***************************************************************************)
CONSTANT Requests

(* The last three are sets of at most one element: {} while there is none. *)
VARIABLES
    status,   \* request -> what its client knows
    record,   \* request -> the defects stored with its trace
    reply,    \* request -> the defects in the answer
    verdict   \* request -> the stored verdict of the judge

serviceVars == <<status, record, reply, verdict>>

Init ==
    /\ status  = [r \in Requests |-> "new"]
    /\ record  = [r \in Requests |-> {}]
    /\ reply   = [r \in Requests |-> {}]
    /\ verdict = [r \in Requests |-> {}]

Become(r, from, to) ==
    /\ status[r] = from
    /\ status' = [status EXCEPT ![r] = to]

Accept(r) == Become(r, "new", "pending") /\ UNCHANGED <<record, reply, verdict>>
Refuse(r) == Become(r, "new", "refused") /\ UNCHANGED <<record, reply, verdict>>

(* A variable changes for one request only, from nothing to something.     *)
Set(var, r, new) ==
    /\ var[r] = {}
    /\ new[r] # {}
    /\ new = [var EXCEPT ![r] = new[r]]

Record(r) ==
    /\ status[r] = "pending"
    /\ Set(record, r, record')
    /\ UNCHANGED <<status, reply, verdict>>

Answer(r) ==
    /\ Become(r, "pending", "answered")
    /\ Set(reply, r, reply')
    /\ record[r] \in {{}, reply'[r]}
    /\ UNCHANGED <<record, verdict>>

Fail(r) ==
    /\ Become(r, "pending", "failed")
    /\ record[r] = {}
    /\ UNCHANGED <<record, reply, verdict>>

Attach(r) ==
    /\ status[r] = "answered" /\ record[r] # {}
    /\ Set(verdict, r, verdict')
    /\ UNCHANGED <<status, record, reply>>

(* The process stops: who waits for an answer gets none.                   *)
Stop ==
    /\ status' = [r \in Requests |->
                    IF status[r] = "pending" THEN "dropped" ELSE status[r]]
    /\ UNCHANGED <<record, reply, verdict>>

Next ==
    \/ \E r \in Requests : \/ Accept(r) \/ Refuse(r) \/ Fail(r)
                           \/ Record(r) \/ Answer(r) \/ Attach(r)
    \/ Stop

Spec == Init /\ [][Next]_serviceVars
=============================================================================
