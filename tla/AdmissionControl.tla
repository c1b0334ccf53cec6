------------------------- MODULE AdmissionControl -------------------------
(***************************************************************************)
(* The gate in front of a model call: a fixed-window rate per user and per *)
(* address, a daily budget per user, and a bound on the requests that run  *)
(* at the same time, in total and per user.  The counters live in the      *)
(* process (development) or in Redis; a Redis script is one step, and so   *)
(* is what the process does under its lock.                                *)
(***************************************************************************)
EXTENDS Naturals, FiniteSets

CONSTANTS
    Users, Addresses,
    Requests,      \* request slots
    MaxGlobal,     \* rate_limit.max_concurrent_global
    MaxPerUser,    \* rate_limit.max_concurrent_per_user
    RateLimit,     \* requests per window of an endpoint
    Budget,        \* resources.daily_llm_cost_units_per_user
    Costs,         \* what a request is estimated to cost
    LastWindow,    \* bound: windows (minutes) of the day that are explored
    Arrivals,      \* bound: requests that arrive in all
    Settings       \* a behaviour picks one and keeps it

ASSUME BoundsAssumption ==
    /\ MaxGlobal \in Nat /\ MaxPerUser \in Nat /\ RateLimit \in Nat
    /\ Budget \in Nat /\ Costs \subseteq Nat
    /\ LastWindow \in Nat /\ Arrivals \in Nat
    /\ IsFiniteSet(Requests)
ASSUME CallersAssumption == Users \cap Addresses = {}

(* redis: which backend; faults: a Redis call may raise before or after it *)
(* takes effect, or the process stop; slow: a request may run for longer   *)
(* than the 300 s after which its concurrency keys expire.                 *)
Setting == [redis : BOOLEAN, faults : BOOLEAN, slow : BOOLEAN]

ASSUME SettingsAssumption == Settings \subseteq Setting

Windows  == 0..LastWindow
Subjects == Users \cup Addresses

VARIABLES
    setting,
    now,        \* the current window
    arrived,    \* how many requests have arrived
    hits,       \* window, subject -> the rate counter
    spent,      \* user -> the units of today
    globalUsed, \* concurrency slots taken: in total
    userUsed,   \* and by user
    request,    \* slot -> a request: its counter, caller and window
    passed      \* ghost: window, subject -> requests that passed the gate

vars == <<setting, now, arrived, hits, spent, globalUsed, userUsed, request,
          passed>>

Stages  == {"idle", "rateUser", "rateAddress", "reserve", "acquire",
            "acquireUser", "running", "over"}
Request == [pc : Stages, user : Users, address : Addresses, window : Windows]

TypeOK ==
    /\ setting    \in Setting
    /\ now        \in Windows
    /\ arrived    \in 0..Arrivals
    /\ hits       \in [Windows \X Subjects -> Nat]
    /\ spent      \in [Users -> Nat]
    /\ globalUsed \in Nat
    /\ userUsed   \in [Users -> Nat]
    /\ DOMAIN request = Requests
    /\ \A r \in Requests : request[r].pc = "idle" \/ request[r] \in Request
    /\ passed     \in [Windows \X Subjects -> Nat]

Init ==
    /\ setting \in Settings
    /\ now = 0 /\ arrived = 0
    /\ hits = [k \in Windows \X Subjects |-> 0]
    /\ spent = [u \in Users |-> 0]
    /\ globalUsed = 0 /\ userUsed = [u \in Users |-> 0]
    /\ request = [r \in Requests |-> [pc |-> "idle"]]
    /\ passed = [k \in Windows \X Subjects |-> 0]

At(r, pc)   == request[r].pc = pc
Goto(r, pc) == request' = [request EXCEPT ![r].pc = pc]

(* The request is over, with 429, 500 or an answer; rates and units that   *)
(* it has used up stay used.                                               *)
Leave(r)   == request' = [request EXCEPT ![r] = [pc |-> "idle"]]

rates == <<hits, passed>>
slots == <<globalUsed, userUsed>>
clock == <<setting, now>>

Tick ==
    /\ now < LastWindow /\ now' = now + 1
    /\ UNCHANGED <<setting, arrived, rates, spent, slots, request>>

(* The window is computed once, at the start of enforce_endpoint_rate.     *)
Arrive(r, u, a) ==
    /\ At(r, "idle") /\ arrived < Arrivals /\ arrived' = arrived + 1
    /\ request' = [request EXCEPT ![r] =
          [pc |-> "rateUser", user |-> u, address |-> a, window |-> now]]
    /\ UNCHANGED <<clock, rates, spent, slots>>

-----------------------------------------------------------------------------
(* enforce_endpoint_rate                                                   *)

UserKey(r)    == <<request[r].window, request[r].user>>
AddressKey(r) == <<request[r].window, request[r].address>>

Bump(counters, keys) ==
    [k \in Windows \X Subjects |-> counters[k] + IF k \in keys THEN 1 ELSE 0]

(* Wrong: the counter is compared with the limit after the fact, off by    *)
(* one.                                                                    *)
RateAddressLate(r) ==
    /\ At(r, "rateAddress")
    /\ hits' = Bump(hits, {AddressKey(r)})
    /\ IF hits[AddressKey(r)] > RateLimit
          THEN Leave(r) /\ UNCHANGED passed
          ELSE /\ Goto(r, "reserve")
               /\ passed' = Bump(passed, {UserKey(r), AddressKey(r)})
    /\ UNCHANGED <<clock, arrived, spent, slots>>

(* In memory both counters are looked at before either is raised.          *)
RateInMemory(r) ==
    LET keys == {UserKey(r), AddressKey(r)} IN
    /\ ~setting.redis /\ At(r, "rateUser")
    /\ IF \E k \in keys : hits[k] >= RateLimit
          THEN Leave(r) /\ UNCHANGED rates
          ELSE /\ Goto(r, "reserve")
               /\ hits' = Bump(hits, keys) /\ passed' = Bump(passed, keys)
    /\ UNCHANGED <<clock, arrived, spent, slots>>

(* In Redis each counter is raised, then compared: one script a counter.   *)
RateUserInRedis(r) ==
    /\ setting.redis /\ At(r, "rateUser")
    /\ hits' = Bump(hits, {UserKey(r)})
    /\ IF hits'[UserKey(r)] > RateLimit THEN Leave(r)
                                        ELSE Goto(r, "rateAddress")
    /\ UNCHANGED <<clock, arrived, passed, spent, slots>>

(* A call for a rate or for the budget raises, having taken effect or not. *)
RedisRaises(r) ==
    LET u == request[r].user IN
    /\ setting.redis /\ setting.faults
    /\ Leave(r)
    /\ \/ /\ At(r, "rateUser") /\ hits' = Bump(hits, {UserKey(r)})
          /\ UNCHANGED spent
       \/ /\ At(r, "rateAddress") /\ hits' = Bump(hits, {AddressKey(r)})
          /\ UNCHANGED spent
       \/ /\ At(r, "reserve")
          /\ \E units \in Costs :
                /\ spent[u] + units <= Budget
                /\ spent' = [spent EXCEPT ![u] = @ + units]
          /\ UNCHANGED hits
       \/ /\ request[r].pc \in {"rateUser", "rateAddress", "reserve"}
          /\ UNCHANGED <<hits, spent>>
    /\ UNCHANGED <<clock, arrived, passed, slots>>

RateAddressInRedis(r) ==
    /\ At(r, "rateAddress")
    /\ hits' = Bump(hits, {AddressKey(r)})
    /\ IF hits'[AddressKey(r)] > RateLimit
          THEN Leave(r) /\ UNCHANGED passed
          ELSE /\ Goto(r, "reserve")
               /\ passed' = Bump(passed, {UserKey(r), AddressKey(r)})
    /\ UNCHANGED <<clock, arrived, spent, slots>>

-----------------------------------------------------------------------------
(* Wrong: the budget is compared before the charge.                        *)
ReserveUnchecked(r) ==
    /\ At(r, "reserve")
    /\ \E units \in Costs :
          LET u == request[r].user IN
          IF spent[u] >= Budget
             THEN Leave(r) /\ UNCHANGED spent
             ELSE /\ Goto(r, "acquire")
                  /\ spent' = [spent EXCEPT ![u] = @ + units]
    /\ UNCHANGED <<clock, arrived, rates, slots>>

(* reserve_llm_cost: charged for the estimate, before there is a slot, and *)
(* never given back.  The two backends come to the same.                   *)
Reserve(r) ==
    /\ At(r, "reserve")
    /\ \E units \in Costs :
          LET updated == spent[request[r].user] + units IN
          IF updated > Budget
             THEN Leave(r) /\ UNCHANGED spent
             ELSE /\ Goto(r, "acquire")
                  /\ spent' = [spent EXCEPT ![request[r].user] = updated]
    /\ UNCHANGED <<clock, arrived, rates, slots>>

-----------------------------------------------------------------------------
(* request_capacity                                                        *)

(* In memory: two semaphores, the global one first; a wait of 50 ms may    *)
(* time out whenever the semaphore was found empty.                        *)
AcquireGlobal(r) ==
    /\ ~setting.redis /\ At(r, "acquire") /\ globalUsed < MaxGlobal
    /\ globalUsed' = globalUsed + 1
    /\ Goto(r, "acquireUser")
    /\ UNCHANGED <<clock, arrived, rates, spent, userUsed>>

GlobalTimeout(r) ==
    /\ ~setting.redis /\ At(r, "acquire") /\ globalUsed = MaxGlobal
    /\ Leave(r)
    /\ UNCHANGED <<clock, arrived, rates, spent, slots>>

AcquireUser(r) ==
    LET u == request[r].user IN
    /\ At(r, "acquireUser") /\ userUsed[u] < MaxPerUser
    /\ userUsed' = [userUsed EXCEPT ![u] = @ + 1]
    /\ Goto(r, "running")
    /\ UNCHANGED <<clock, arrived, rates, spent, globalUsed>>

(* Wrong: the global slot is not given back.                               *)
UserTimeoutKeepsSlot(r) ==
    /\ At(r, "acquireUser") /\ userUsed[request[r].user] = MaxPerUser
    /\ Leave(r)
    /\ UNCHANGED <<clock, arrived, rates, spent, slots>>

UserTimeout(r) ==
    /\ At(r, "acquireUser") /\ userUsed[request[r].user] = MaxPerUser
    /\ globalUsed' = globalUsed - 1
    /\ Leave(r)
    /\ UNCHANGED <<clock, arrived, rates, spent, userUsed>>

(* Wrong: the user's count is not compared.                                *)
FitsGlobally(u) == globalUsed < MaxGlobal

(* What the Redis script does to the two keys.                             *)
FitsInRedis(u) == globalUsed < MaxGlobal /\ userUsed[u] < MaxPerUser

Take(u) ==
    /\ globalUsed' = globalUsed + 1
    /\ userUsed' = [userUsed EXCEPT ![u] = @ + 1]

AcquireInRedis(r) ==
    LET u == request[r].user IN
    /\ setting.redis /\ At(r, "acquire")
    /\ \/ FitsInRedis(u) /\ Take(u) /\ Goto(r, "running")
       \/ ~FitsInRedis(u) /\ Leave(r) /\ UNCHANGED slots
       \/ /\ setting.faults /\ Leave(r)
          /\ UNCHANGED slots \/ (FitsInRedis(u) /\ Take(u))
    /\ UNCHANGED <<clock, arrived, rates, spent>>

(* Wrong: a counter that expired meanwhile falls below zero.               *)
DecrementPlain(n) == n - 1

Decrement(n) == IF n > 0 THEN n - 1 ELSE 0

Give(u) ==
    /\ globalUsed' = Decrement(globalUsed)
    /\ userUsed' = [userUsed EXCEPT ![u] = Decrement(@)]

(* The request is done, or raised: the slots are given back either way.    *)
Release(r) ==
    /\ At(r, "running")
    /\ Leave(r)
    /\ \/ Give(request[r].user)
       \/ setting.redis /\ setting.faults /\ UNCHANGED slots
    /\ UNCHANGED <<clock, arrived, rates, spent>>

(* Redis drops a key that nobody has touched for 300 s.  Unless requests   *)
(* are slow, that is a key none of whose holders is still running.         *)
Running == {r \in Requests : At(r, "running")}
RunningOf(u) == {r \in Running : request[r].user = u}

ExpireGlobal ==
    /\ setting.redis /\ globalUsed > 0 /\ (setting.slow \/ Running = {})
    /\ globalUsed' = 0
    /\ UNCHANGED <<clock, arrived, rates, spent, userUsed, request>>

ExpireUser(u) ==
    /\ setting.redis /\ userUsed[u] > 0 /\ (setting.slow \/ RunningOf(u) = {})
    /\ userUsed' = [userUsed EXCEPT ![u] = 0]
    /\ UNCHANGED <<clock, arrived, rates, spent, globalUsed, request>>

Step(r) ==
    \/ RateInMemory(r) \/ RateUserInRedis(r) \/ RateAddressInRedis(r)
    \/ RedisRaises(r)
    \/ Reserve(r)
    \/ AcquireGlobal(r) \/ GlobalTimeout(r)
    \/ AcquireUser(r) \/ UserTimeout(r)
    \/ AcquireInRedis(r)
    \/ Release(r)

Next ==
    \/ Tick
    \/ \E r \in Requests : \/ \E u \in Users, a \in Addresses : Arrive(r, u, a)
                           \/ Step(r)
    \/ ExpireGlobal
    \/ \E u \in Users : ExpireUser(u)

Spec == Init /\ [][Next]_vars

-----------------------------------------------------------------------------
(* Properties                                                              *)

(* No more requests run at the same time than allowed, in total and for    *)
(* each user: for the semaphores, and for the Redis counters through lost  *)
(* calls and stopped processes, which only ever count too many -- as long  *)
(* as no request outlives its keys.                                        *)
CapacityBound ==
    ~setting.slow =>
        /\ Cardinality(Running) <= MaxGlobal
        /\ \A u \in Users : Cardinality(RunningOf(u)) <= MaxPerUser

(* Without faults every slot taken is held by a request: a request refused *)
(* half way through gives back what it has, so an idle server admits.      *)
TakenIsHeld ==
    ~setting.slow /\ ~setting.faults =>
        /\ globalUsed = Cardinality(Running)
                      + Cardinality({r \in Requests : At(r, "acquireUser")})
        /\ \A u \in Users : userUsed[u] = Cardinality(RunningOf(u))

(* A window lets no more requests of one user, nor from one address, pass  *)
(* than its limit, whoever interleaves and in whichever window they end.   *)
RateRespected == \A k \in Windows \X Subjects : passed[k] <= RateLimit

(* Concurrent reservations never take a user's day beyond the budget.      *)
BudgetRespected == \A u \in Users : spent[u] <= Budget
=============================================================================
