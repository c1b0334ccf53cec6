------------------------- MODULE MCScopedRetrieval -------------------------
(* Instances of ScopedRetrieval for TLC.                                   *)
EXTENDS ScopedRetrieval

InTurn(raises, admins) ==
    [overlap |-> FALSE, raises |-> raises, admins |-> admins]
AtOnce == [overlap |-> TRUE, raises |-> {}, admins |-> {}]

ScopeSettings == {InTurn({1}, {}), InTurn({}, Users \ {Owner}), AtOnce}
RaceSettings  == {InTurn({}, {}), AtOnce}
=============================================================================
