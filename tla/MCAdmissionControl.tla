------------------------ MODULE MCAdmissionControl ------------------------
(* Instances of AdmissionControl for TLC.                                  *)
EXTENDS AdmissionControl, TLC

Backend(redis, faults, slow) ==
    [redis |-> redis, faults |-> faults, slow |-> slow]

Memory    == Backend(FALSE, FALSE, FALSE)
Redis     == Backend(TRUE, FALSE, FALSE)
RedisBad  == Backend(TRUE, TRUE, FALSE)
RedisSlow == Backend(TRUE, FALSE, TRUE)

AllSettings == {Memory, Redis, RedisBad, RedisSlow}

Symmetry == Permutations(Requests) \cup Permutations(Users)
=============================================================================
