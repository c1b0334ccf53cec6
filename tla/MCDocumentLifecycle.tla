------------------------ MODULE MCDocumentLifecycle ------------------------
(* Instances of DocumentLifecycle for TLC.  Grantees and request slots are *)
(* interchangeable; the owner is not.                                      *)
EXTENDS DocumentAccess, TLC

Symmetry == Permutations(Users \ {Owner}) \cup Permutations(Requests)

(* The environments: faults and crashes of every kind at once; then, for   *)
(* the properties that some fault excuses, everything but that fault.      *)
Faults(failing, losing, crashes, serial) ==
    [failing |-> failing, losing |-> losing,
     crashes |-> crashes, serial |-> serial]

Anything         == Faults(Services, Stores, TRUE, FALSE)
AnythingInTurn   == Faults(Services, Stores, TRUE, TRUE)
NothingLost      == Faults(Services, {"objects"}, TRUE, FALSE)
ObjectsReliable  == Faults({"db", "qdrant", "pipeline"}, {"db", "qdrant"},
                           FALSE, FALSE)
DatabaseReliable == Faults({"qdrant", "objects", "pipeline"}, {}, FALSE, FALSE)
DatabaseOnly     == Faults({"qdrant", "objects", "pipeline"},
                           {"qdrant", "objects"}, FALSE, FALSE)
PipelineFails    == Faults({"pipeline"}, {}, FALSE, FALSE)
Undisturbed      == Faults({}, {}, FALSE, TRUE)

SafetyEnvironments   == {Anything, AnythingInTurn, NothingLost,
                         ObjectsReliable, DatabaseReliable}
LivenessEnvironments == {DatabaseOnly, PipelineFails}
Calm                 == {Undisturbed}
QdrantFails          == {Faults({"qdrant"}, {}, FALSE, TRUE)}
=============================================================================
