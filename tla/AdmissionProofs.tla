-------------------------- MODULE AdmissionProofs --------------------------
(* Proofs about AdmissionControl, for any callers, limits, costs and       *)
(* number of requests.                                                     *)
EXTENDS AdmissionControl, FiniteSetTheorems, TLAPS

(* Requests that hold a global slot and wait for one of their user, and    *)
(* requests counted for their user but not yet for their address.          *)
Entering   == {r \in Requests : At(r, "acquireUser")}
Waiting(k) == {r \in Requests : At(r, "rateAddress") /\ UserKey(r) = k}

(* Where a slot taken can be relied on: no key expires under its holder.   *)
Reliable == ~setting.redis \/ ~setting.slow
Exact    == ~setting.redis \/ (~setting.slow /\ ~setting.faults)

SlotInv ==
    /\ setting.redis => \A r \in Requests : ~At(r, "acquireUser")
    /\ Reliable =>
          /\ Cardinality(Running) + Cardinality(Entering) <= globalUsed
          /\ globalUsed <= MaxGlobal
          /\ \A u \in Users : /\ Cardinality(RunningOf(u)) <= userUsed[u]
                              /\ userUsed[u] <= MaxPerUser
    /\ Exact =>
          /\ globalUsed = Cardinality(Running) + Cardinality(Entering)
          /\ \A u \in Users : userUsed[u] = Cardinality(RunningOf(u))

(* A request has been counted for its user before it passes, so that the   *)
(* counters stay ahead of those who passed and of those who may still.     *)
RateInv ==
    \A k \in Windows \X Subjects :
        /\ passed[k] + Cardinality(Waiting(k)) <= hits[k]
        /\ passed[k] + Cardinality(Waiting(k)) <= RateLimit

GateInv == TypeOK /\ SlotInv /\ RateInv /\ BudgetRespected

-----------------------------------------------------------------------------
One(b) == IF b THEN 1 ELSE 0

(* Two sets that differ in one element at most.                            *)
LEMMA Count ==
    ASSUME NEW S, NEW T, IsFiniteSet(S), IsFiniteSet(T), NEW r,
           S \ {r} = T \ {r}
    PROVE  /\ Cardinality(S) \in Nat /\ Cardinality(T) \in Nat
           /\ Cardinality(T) + One(r \in S) = Cardinality(S) + One(r \in T)
<1>1. Cardinality(S) \in Nat /\ Cardinality(T) \in Nat
      BY FS_CardinalityType
<1>2. /\ Cardinality(S \ {r}) = Cardinality(S) - One(r \in S)
      /\ Cardinality(T \ {r}) = Cardinality(T) - One(r \in T)
  <2>1. /\ Cardinality(S \ {r}) =
              IF r \in S THEN Cardinality(S) - 1 ELSE Cardinality(S)
        /\ Cardinality(T \ {r}) =
              IF r \in T THEN Cardinality(T) - 1 ELSE Cardinality(T)
        BY FS_RemoveElement
  <2> QED BY <1>1, <2>1 DEF One
<1> QED BY <1>1, <1>2 DEF One

(* One request goes from one stage to another and stays the same request.  *)
Turn(r, from, to) ==
    /\ request[r].pc = from /\ request'[r].pc = to
    /\ DOMAIN request' = Requests
    /\ \A s \in Requests \ {r} : request'[s] = request[s]
    /\ to # "idle" => /\ request'[r].user = request[r].user
                      /\ request'[r].address = request[r].address
                      /\ request'[r].window = request[r].window
                      /\ request'[r] \in Request

(* A request that leaves or ends passes its turn on.                       *)
LEMMA LeaveTurns ==
    ASSUME TypeOK, NEW r \in Requests, Leave(r)
    PROVE  Turn(r, request[r].pc, "idle")
BY DEF TypeOK, Leave, Turn

(* A request that goes to its next step takes that turn.                   *)
LEMMA GotoTurns ==
    ASSUME TypeOK, NEW r \in Requests, ~At(r, "idle"), NEW to \in Stages, Goto(r, to)
    PROVE  Turn(r, request[r].pc, to)
BY DEF TypeOK, Goto, At, Turn, Request

(* How a turn changes who is counted where.                                *)
LEMMA TurnCounts ==
    ASSUME TypeOK, NEW r \in Requests, NEW from \in Stages, NEW to \in Stages,
           Turn(r, from, to)
    PROVE  /\ Cardinality(Running) \in Nat /\ Cardinality(Running)' \in Nat
           /\ Cardinality(Running)' + One(from = "running")
                = Cardinality(Running) + One(to = "running")
           /\ Cardinality(Entering) \in Nat /\ Cardinality(Entering)' \in Nat
           /\ Cardinality(Entering)' + One(from = "acquireUser")
                = Cardinality(Entering) + One(to = "acquireUser")
           /\ \A u : /\ Cardinality(RunningOf(u)) \in Nat
                     /\ Cardinality(RunningOf(u))' \in Nat
                     /\ Cardinality(RunningOf(u))'
                          + One(from = "running" /\ request[r].user = u)
                        = Cardinality(RunningOf(u))
                          + One(to = "running" /\ request[r].user = u)
           /\ \A k : /\ Cardinality(Waiting(k)) \in Nat
                     /\ Cardinality(Waiting(k))' \in Nat
                     /\ Cardinality(Waiting(k))'
                          + One(from = "rateAddress" /\ UserKey(r) = k)
                        = Cardinality(Waiting(k))
                          + One(to = "rateAddress" /\ UserKey(r) = k)
<1>0. \A S : S \subseteq Requests => IsFiniteSet(S)
      BY BoundsAssumption, FS_Subset
<1>1. /\ Running \ {r} = Running' \ {r}
      /\ r \in Running <=> from = "running"
      /\ r \in Running' <=> to = "running"
      /\ Running \subseteq Requests /\ Running' \subseteq Requests
      BY DEF Running, At, Turn
<1>2. /\ Entering \ {r} = Entering' \ {r}
      /\ r \in Entering <=> from = "acquireUser"
      /\ r \in Entering' <=> to = "acquireUser"
      /\ Entering \subseteq Requests /\ Entering' \subseteq Requests
      BY DEF Entering, At, Turn
<1>3. ASSUME NEW u
      PROVE  /\ RunningOf(u) \ {r} = RunningOf(u)' \ {r}
             /\ r \in RunningOf(u) <=> (from = "running" /\ request[r].user = u)
             /\ r \in RunningOf(u)' <=> (to = "running" /\ request[r].user = u)
             /\ RunningOf(u) \subseteq Requests /\ RunningOf(u)' \subseteq Requests
      BY DEF RunningOf, Running, At, Turn
<1>4. ASSUME NEW k
      PROVE  /\ Waiting(k) \ {r} = Waiting(k)' \ {r}
             /\ r \in Waiting(k) <=> (from = "rateAddress" /\ UserKey(r) = k)
             /\ r \in Waiting(k)' <=> (to = "rateAddress" /\ UserKey(r) = k)
             /\ Waiting(k) \subseteq Requests /\ Waiting(k)' \subseteq Requests
      BY DEF Waiting, At, Turn, UserKey
<1>5. /\ Cardinality(Running) \in Nat /\ Cardinality(Running') \in Nat
      /\ Cardinality(Running') + One(from = "running")
           = Cardinality(Running) + One(to = "running")
  <2>1. IsFiniteSet(Running) /\ IsFiniteSet(Running')
        BY <1>0, <1>1
  <2>2. One(r \in Running) = One(from = "running")
        /\ One(r \in Running') = One(to = "running")
        BY <1>1
  <2> QED BY <1>1, <2>1, <2>2, Count
<1>6. /\ Cardinality(Entering) \in Nat /\ Cardinality(Entering') \in Nat
      /\ Cardinality(Entering') + One(from = "acquireUser")
           = Cardinality(Entering) + One(to = "acquireUser")
      BY <1>0, <1>2, Count
<1>7. ASSUME NEW u
      PROVE  /\ Cardinality(RunningOf(u)) \in Nat /\ Cardinality(RunningOf(u)') \in Nat
             /\ Cardinality(RunningOf(u)')
                  + One(from = "running" /\ request[r].user = u)
                = Cardinality(RunningOf(u))
                  + One(to = "running" /\ request[r].user = u)
      BY <1>0, <1>3, Count
<1>8. ASSUME NEW k
      PROVE  /\ Cardinality(Waiting(k)) \in Nat /\ Cardinality(Waiting(k)') \in Nat
             /\ Cardinality(Waiting(k)')
                  + One(from = "rateAddress" /\ UserKey(r) = k)
                = Cardinality(Waiting(k))
                  + One(to = "rateAddress" /\ UserKey(r) = k)
      BY <1>0, <1>4, Count
<1> QED BY <1>5, <1>6, <1>7, <1>8

(* A turn that takes and gives no slot.                                    *)
LEMMA SlotsKept ==
    ASSUME TypeOK, SlotInv, NEW r \in Requests,
           NEW from \in Stages \ {"running", "acquireUser"},
           NEW to \in Stages \ {"running", "acquireUser"},
           Turn(r, from, to), UNCHANGED <<setting, globalUsed, userUsed>>
    PROVE  SlotInv'
<1>1. /\ Cardinality(Running)' = Cardinality(Running)
      /\ Cardinality(Entering)' = Cardinality(Entering)
      /\ \A u : Cardinality(RunningOf(u))' = Cardinality(RunningOf(u))
      BY TurnCounts DEF One
<1>2. setting'.redis => \A s \in Requests : ~At(s, "acquireUser")'
      BY DEF SlotInv, Turn, At
<1> QED BY <1>1, <1>2 DEF SlotInv, Reliable, Exact

(* A turn that counts nobody.                                              *)
LEMMA RatesKept ==
    ASSUME TypeOK, RateInv, NEW r \in Requests, NEW from \in Stages,
           NEW to \in Stages \ {"rateAddress"},
           Turn(r, from, to), UNCHANGED passed,
           \A k \in Windows \X Subjects : hits'[k] \in Nat /\ hits[k] <= hits'[k]
    PROVE  RateInv'
<1> SUFFICES ASSUME NEW k \in Windows \X Subjects
             PROVE  /\ passed'[k] + Cardinality(Waiting(k))' <= hits'[k]
                    /\ passed'[k] + Cardinality(Waiting(k))' <= RateLimit
    BY DEF RateInv
<1>1. /\ Cardinality(Waiting(k)) \in Nat /\ Cardinality(Waiting(k))' \in Nat
      /\ Cardinality(Waiting(k))' <= Cardinality(Waiting(k))
      BY TurnCounts DEF One
<1>2. passed[k] \in Nat /\ hits[k] \in Nat /\ passed'[k] = passed[k]
      BY DEF TypeOK
<1> QED BY <1>1, <1>2, BoundsAssumption DEF RateInv

(* A counter that is bumped is still a counter.                            *)
LEMMA BumpType ==
    ASSUME NEW counters \in [Windows \X Subjects -> Nat], NEW keys
    PROVE  /\ Bump(counters, keys) \in [Windows \X Subjects -> Nat]
           /\ \A k \in Windows \X Subjects :
                 Bump(counters, keys)[k] = counters[k] + One(k \in keys)
BY DEF Bump, One

(* The keys of a request that is under way.                                *)
LEMMA Keys ==
    ASSUME TypeOK, NEW r \in Requests, ~At(r, "idle")
    PROVE  /\ request[r] \in Request /\ request[r].user \in Users
           /\ UserKey(r) \in Windows \X Subjects
           /\ AddressKey(r) \in Windows \X Subjects
           /\ UserKey(r) # AddressKey(r)
<1>1. /\ request[r].user \in Users /\ request[r].address \in Addresses
      /\ request[r].window \in Windows /\ request[r] \in Request
      BY DEF TypeOK, At, Request
<1>2. request[r].user # request[r].address
      BY <1>1, CallersAssumption
<1> QED BY <1>1, <1>2 DEF UserKey, AddressKey, Subjects

(* What a turn does to the types.                                          *)
LEMMA TurnType ==
    ASSUME TypeOK, NEW r \in Requests, NEW from \in Stages, NEW to \in Stages,
           Turn(r, from, to)
    PROVE  /\ DOMAIN request' = Requests
           /\ \A s \in Requests : request'[s].pc = "idle" \/ request'[s] \in Request
BY DEF TypeOK, Turn

-----------------------------------------------------------------------------
(* The rate.                                                               *)

(* The in-memory rate check keeps the invariant.                           *)
LEMMA RateInMemoryKeeps ==
    ASSUME GateInv, NEW r \in Requests, RateInMemory(r)
    PROVE  GateInv'
<1> DEFINE keys == {UserKey(r), AddressKey(r)}
<1>0. /\ request[r].pc = "rateUser" /\ ~At(r, "idle") /\ TypeOK
      /\ UNCHANGED <<setting, now, arrived, spent, globalUsed, userUsed>>
      BY DEF RateInMemory, At, GateInv, clock, slots
<1>1. CASE Leave(r) /\ UNCHANGED rates
  <2>1. Turn(r, "rateUser", "idle") /\ UNCHANGED <<hits, passed>>
        BY <1>0, <1>1, LeaveTurns DEF rates
  <2>2. TypeOK'
        BY <1>0, <2>1, TurnType DEF TypeOK, Stages
  <2>3. SlotInv'
        BY <1>0, <2>1, SlotsKept DEF GateInv, Stages
  <2>4. RateInv'
        BY <1>0, <2>1, RatesKept DEF GateInv, Stages, TypeOK
  <2> QED BY <1>0, <2>2, <2>3, <2>4 DEF GateInv, BudgetRespected
<1>2. CASE /\ \A k \in keys : hits[k] < RateLimit
           /\ Goto(r, "reserve")
           /\ hits' = Bump(hits, keys) /\ passed' = Bump(passed, keys)
  <2>1. Turn(r, "rateUser", "reserve")
        BY <1>0, <1>2, GotoTurns DEF Stages
  <2>2. /\ hits' \in [Windows \X Subjects -> Nat]
        /\ passed' \in [Windows \X Subjects -> Nat]
        /\ \A k \in Windows \X Subjects :
              /\ hits'[k] = hits[k] + One(k \in keys)
              /\ passed'[k] = passed[k] + One(k \in keys)
        BY <1>0, <1>2, BumpType DEF TypeOK
  <2>3. TypeOK'
        BY <1>0, <2>1, <2>2, TurnType DEF TypeOK, Stages
  <2>4. SlotInv'
        BY <1>0, <2>1, SlotsKept DEF GateInv, Stages
  <2>5. ASSUME NEW k \in Windows \X Subjects
        PROVE  /\ passed'[k] + Cardinality(Waiting(k))' <= hits'[k]
               /\ passed'[k] + Cardinality(Waiting(k))' <= RateLimit
    <3>1. /\ Cardinality(Waiting(k)) \in Nat
          /\ Cardinality(Waiting(k))' = Cardinality(Waiting(k))
          BY <1>0, <2>1, TurnCounts DEF One, Stages
    <3>2. hits[k] \in Nat /\ passed[k] \in Nat
          BY <1>0 DEF TypeOK
    <3>3. /\ passed[k] + Cardinality(Waiting(k)) <= hits[k]
          /\ passed[k] + Cardinality(Waiting(k)) <= RateLimit
          BY DEF GateInv, RateInv
    <3>4. CASE k \in keys
      <4>1. hits[k] < RateLimit /\ hits'[k] = hits[k] + 1 /\ passed'[k] = passed[k] + 1
            BY <1>2, <2>2, <3>4 DEF One
      <4> QED BY <3>1, <3>2, <3>3, <4>1, BoundsAssumption
    <3>5. CASE k \notin keys
          BY <2>2, <3>1, <3>2, <3>3, <3>5 DEF One
    <3> QED BY <3>4, <3>5
  <2> QED BY <1>0, <2>3, <2>4, <2>5 DEF GateInv, RateInv, BudgetRespected
<1>3. \A k \in keys : hits[k] \in Nat
      BY <1>0, Keys DEF TypeOK
<1> QED BY <1>1, <1>2, <1>3, BoundsAssumption DEF RateInMemory

(* So does the Redis check of the user's rate,                             *)
LEMMA RateUserInRedisKeeps ==
    ASSUME GateInv, NEW r \in Requests, RateUserInRedis(r)
    PROVE  GateInv'
<1>0. /\ request[r].pc = "rateUser" /\ ~At(r, "idle") /\ TypeOK
      /\ UNCHANGED <<setting, now, arrived, spent, globalUsed, userUsed, passed>>
      BY DEF RateUserInRedis, At, GateInv, clock, slots
<1>1. /\ hits' \in [Windows \X Subjects -> Nat]
      /\ \A k \in Windows \X Subjects : hits'[k] = hits[k] + One(k \in {UserKey(r)})
      BY <1>0, BumpType DEF RateUserInRedis, TypeOK
<1>2. \A k \in Windows \X Subjects : hits[k] \in Nat /\ hits[k] <= hits'[k]
      BY <1>0, <1>1 DEF TypeOK, One
<1>3. CASE Leave(r)
  <2>1. Turn(r, "rateUser", "idle")
        BY <1>0, <1>3, LeaveTurns
  <2>2. TypeOK'
        BY <1>0, <1>1, <2>1, TurnType DEF TypeOK, Stages
  <2>3. SlotInv'
        BY <1>0, <2>1, SlotsKept DEF GateInv, Stages
  <2>4. RateInv'
        BY <1>0, <1>1, <1>2, <2>1, RatesKept DEF GateInv, Stages
  <2> QED BY <1>0, <2>2, <2>3, <2>4 DEF GateInv, BudgetRespected
<1>4. CASE ~(hits'[UserKey(r)] > RateLimit) /\ Goto(r, "rateAddress")
  <2>1. Turn(r, "rateUser", "rateAddress")
        BY <1>0, <1>4, GotoTurns DEF Stages
  <2>2. TypeOK'
        BY <1>0, <1>1, <2>1, TurnType DEF TypeOK, Stages
  <2>3. SlotInv'
        BY <1>0, <2>1, SlotsKept DEF GateInv, Stages
  <2>4. ASSUME NEW k \in Windows \X Subjects
        PROVE  /\ passed'[k] + Cardinality(Waiting(k))' <= hits'[k]
               /\ passed'[k] + Cardinality(Waiting(k))' <= RateLimit
    <3>1. /\ Cardinality(Waiting(k)) \in Nat
          /\ Cardinality(Waiting(k))' = Cardinality(Waiting(k)) + One(UserKey(r) = k)
          BY <1>0, <2>1, TurnCounts DEF One, Stages
    <3>2. hits[k] \in Nat /\ passed[k] \in Nat /\ passed'[k] = passed[k]
          BY <1>0 DEF TypeOK
    <3>3. /\ passed[k] + Cardinality(Waiting(k)) <= hits[k]
          /\ passed[k] + Cardinality(Waiting(k)) <= RateLimit
          BY DEF GateInv, RateInv
    <3>4. CASE k = UserKey(r)
      <4>1. hits'[k] = hits[k] + 1 /\ ~(hits'[k] > RateLimit)
            BY <1>1, <1>4, <3>4 DEF One
      <4>2. Cardinality(Waiting(k))' = Cardinality(Waiting(k)) + 1
            BY <3>1, <3>4 DEF One
      <4> QED BY <3>1, <3>2, <3>3, <4>1, <4>2, BoundsAssumption
    <3>5. CASE k # UserKey(r)
          BY <1>1, <3>1, <3>2, <3>3, <3>5 DEF One
    <3> QED BY <3>4, <3>5
  <2> QED BY <1>0, <2>2, <2>3, <2>4 DEF GateInv, RateInv, BudgetRespected
<1> QED BY <1>3, <1>4 DEF RateUserInRedis

(* and that of the address.                                                *)
LEMMA RateAddressInRedisKeeps ==
    ASSUME GateInv, NEW r \in Requests, RateAddressInRedis(r)
    PROVE  GateInv'
<1>0. /\ request[r].pc = "rateAddress" /\ ~At(r, "idle") /\ TypeOK
      /\ UNCHANGED <<setting, now, arrived, spent, globalUsed, userUsed>>
      BY DEF RateAddressInRedis, At, GateInv, clock, slots
<1>1. /\ hits' \in [Windows \X Subjects -> Nat]
      /\ \A k \in Windows \X Subjects :
            hits'[k] = hits[k] + One(k \in {AddressKey(r)})
      BY <1>0, BumpType DEF RateAddressInRedis, TypeOK
<1>2. \A k \in Windows \X Subjects : hits[k] \in Nat /\ hits[k] <= hits'[k]
      BY <1>0, <1>1 DEF TypeOK, One
<1>3. CASE Leave(r) /\ UNCHANGED passed
  <2>1. Turn(r, "rateAddress", "idle")
        BY <1>0, <1>3, LeaveTurns
  <2>2. TypeOK'
        BY <1>0, <1>1, <1>3, <2>1, TurnType DEF TypeOK, Stages
  <2>3. SlotInv'
        BY <1>0, <2>1, SlotsKept DEF GateInv, Stages
  <2>4. RateInv'
        BY <1>0, <1>1, <1>2, <1>3, <2>1, RatesKept DEF GateInv, Stages
  <2> QED BY <1>0, <2>2, <2>3, <2>4 DEF GateInv, BudgetRespected
<1>4. CASE /\ ~(hits'[AddressKey(r)] > RateLimit) /\ Goto(r, "reserve")
           /\ passed' = Bump(passed, {UserKey(r), AddressKey(r)})
  <2>1. Turn(r, "rateAddress", "reserve")
        BY <1>0, <1>4, GotoTurns DEF Stages
  <2>2. /\ passed' \in [Windows \X Subjects -> Nat]
        /\ \A k \in Windows \X Subjects :
              passed'[k] = passed[k] + One(k \in {UserKey(r), AddressKey(r)})
        BY <1>0, <1>4, BumpType DEF TypeOK
  <2>3. TypeOK'
        BY <1>0, <1>1, <2>1, <2>2, TurnType DEF TypeOK, Stages
  <2>4. SlotInv'
        BY <1>0, <2>1, SlotsKept DEF GateInv, Stages
  <2>5. ASSUME NEW k \in Windows \X Subjects
        PROVE  /\ passed'[k] + Cardinality(Waiting(k))' <= hits'[k]
               /\ passed'[k] + Cardinality(Waiting(k))' <= RateLimit
    <3>1. /\ Cardinality(Waiting(k)) \in Nat /\ Cardinality(Waiting(k))' \in Nat
          /\ Cardinality(Waiting(k))' + One(UserKey(r) = k)
                = Cardinality(Waiting(k))
          BY <1>0, <2>1, TurnCounts DEF One, Stages
    <3>2. hits[k] \in Nat /\ passed[k] \in Nat
          BY <1>0 DEF TypeOK
    <3>3. /\ passed[k] + Cardinality(Waiting(k)) <= hits[k]
          /\ passed[k] + Cardinality(Waiting(k)) <= RateLimit
          BY DEF GateInv, RateInv
    <3>4. UserKey(r) # AddressKey(r)
          BY <1>0, Keys
    <3>5. CASE k = UserKey(r)
      <4>1. hits'[k] = hits[k] /\ passed'[k] = passed[k] + 1
            BY <1>1, <2>2, <3>2, <3>4, <3>5 DEF One
      <4>2. Cardinality(Waiting(k))' + 1 = Cardinality(Waiting(k))
            BY <3>1, <3>5 DEF One
      <4> QED BY <3>1, <3>2, <3>3, <4>1, <4>2, BoundsAssumption
    <3>6. CASE k = AddressKey(r)
      <4>1. /\ hits'[k] = hits[k] + 1 /\ passed'[k] = passed[k] + 1
            /\ ~(hits'[k] > RateLimit)
            BY <1>1, <1>4, <2>2, <3>6 DEF One
      <4>2. Cardinality(Waiting(k))' = Cardinality(Waiting(k))
            BY <3>1, <3>4, <3>6 DEF One
      <4> QED BY <3>1, <3>2, <3>3, <4>1, <4>2, BoundsAssumption
    <3>7. CASE k \notin {UserKey(r), AddressKey(r)}
      <4>1. hits'[k] = hits[k] /\ passed'[k] = passed[k]
            BY <1>1, <2>2, <3>2, <3>7 DEF One
      <4> QED BY <3>1, <3>3, <3>7, <4>1 DEF One
    <3> QED BY <3>5, <3>6, <3>7
  <2> QED BY <1>0, <2>3, <2>4, <2>5 DEF GateInv, RateInv, BudgetRespected
<1> QED BY <1>3, <1>4 DEF RateAddressInRedis

-----------------------------------------------------------------------------
(* The budget, and the calls that raise.                                   *)

(* Who leaves or goes on without slots, whatever is charged or counted.    *)
LEMMA ChargeKeeps ==
    ASSUME GateInv, NEW r \in Requests,
           NEW from \in Stages \ {"running", "acquireUser"},
           NEW to \in Stages \ {"running", "acquireUser", "rateAddress"},
           Turn(r, from, to),
           UNCHANGED <<setting, now, arrived, passed, globalUsed, userUsed>>,
           hits' \in [Windows \X Subjects -> Nat],
           \A k \in Windows \X Subjects : hits[k] <= hits'[k],
           spent' \in [Users -> Nat], \A u \in Users : spent'[u] <= Budget
    PROVE  GateInv'
<1>1. TypeOK'
      BY TurnType DEF TypeOK, GateInv
<1>2. SlotInv'
      BY SlotsKept DEF GateInv
<1>3. RateInv'
      BY RatesKept DEF GateInv
<1> QED BY <1>1, <1>2, <1>3 DEF GateInv, BudgetRespected

(* One user's charge, checked against the budget.                          *)
LEMMA Charge ==
    ASSUME GateInv, NEW u \in Users, NEW units \in Costs,
           spent[u] + units <= Budget,
           spent' = [spent EXCEPT ![u] = @ + units]
    PROVE  spent' \in [Users -> Nat] /\ \A v \in Users : spent'[v] <= Budget
<1>1. units \in Nat /\ spent \in [Users -> Nat]
      BY BoundsAssumption DEF GateInv, TypeOK
<1> QED BY <1>1 DEF GateInv, BudgetRespected

(* Counters of Redis that are bumped never go down.                        *)
LEMMA HitsGrow ==
    ASSUME TypeOK, NEW keys, hits' = Bump(hits, keys)
    PROVE  /\ hits' \in [Windows \X Subjects -> Nat]
           /\ \A k \in Windows \X Subjects : hits[k] <= hits'[k]
<1>1. hits \in [Windows \X Subjects -> Nat]
      BY DEF TypeOK
<1>2. /\ hits' \in [Windows \X Subjects -> Nat]
      /\ \A k \in Windows \X Subjects : hits'[k] = hits[k] + One(k \in keys)
      BY <1>1, BumpType
<1> QED BY <1>1, <1>2 DEF One

(* A Redis call that raises may have counted, and keeps the invariant.     *)
LEMMA RedisRaisesKeeps ==
    ASSUME GateInv, NEW r \in Requests, RedisRaises(r)
    PROVE  GateInv'
<1>1. /\ request[r].pc \in {"rateUser", "rateAddress", "reserve"} /\ ~At(r, "idle")
      /\ TypeOK /\ Leave(r)
      /\ UNCHANGED <<setting, now, arrived, passed, globalUsed, userUsed>>
      BY DEF RedisRaises, At, GateInv, clock, slots
<1>2. Turn(r, request[r].pc, "idle") /\ request[r].user \in Users
      BY <1>1, LeaveTurns, Keys
<1>3. /\ hits' \in [Windows \X Subjects -> Nat]
      /\ \A k \in Windows \X Subjects : hits[k] <= hits'[k]
  <2>1. CASE UNCHANGED hits
        BY <1>1, <2>1 DEF TypeOK
  <2>2. CASE \E k : hits' = Bump(hits, {k})
        BY <1>1, <2>2, HitsGrow
  <2> QED BY <2>1, <2>2 DEF RedisRaises
<1>4. spent' \in [Users -> Nat] /\ \A u \in Users : spent'[u] <= Budget
  <2>1. CASE UNCHANGED spent
        BY <2>1 DEF GateInv, TypeOK, BudgetRespected
  <2>2. CASE \E units \in Costs :
               /\ spent[request[r].user] + units <= Budget
               /\ spent' = [spent EXCEPT ![request[r].user] = @ + units]
        BY <1>2, <2>2, Charge
  <2> QED BY <2>1, <2>2 DEF RedisRaises
<1> QED BY <1>1, <1>2, <1>3, <1>4, ChargeKeeps DEF Stages

(* Reserving the day's budget keeps it within the limit.                   *)
LEMMA ReserveKeeps ==
    ASSUME GateInv, NEW r \in Requests, Reserve(r)
    PROVE  GateInv'
<1>1. /\ request[r].pc = "reserve" /\ ~At(r, "idle") /\ TypeOK
      /\ UNCHANGED <<setting, now, arrived, passed, hits, globalUsed, userUsed>>
      BY DEF Reserve, At, GateInv, clock, slots, rates
<1>2. /\ hits' \in [Windows \X Subjects -> Nat]
      /\ \A k \in Windows \X Subjects : hits[k] <= hits'[k]
      BY <1>1 DEF TypeOK
<1>3. CASE Leave(r) /\ UNCHANGED spent
  <2>1. Turn(r, "reserve", "idle")
        BY <1>1, <1>3, LeaveTurns
  <2>2. spent' \in [Users -> Nat] /\ \A u \in Users : spent'[u] <= Budget
        BY <1>3 DEF GateInv, TypeOK, BudgetRespected
  <2> QED BY <1>1, <1>2, <2>1, <2>2, ChargeKeeps DEF Stages
<1>4. ASSUME NEW units \in Costs, Goto(r, "acquire"),
             ~(spent[request[r].user] + units > Budget),
             spent' = [spent EXCEPT ![request[r].user] =
                         spent[request[r].user] + units]
      PROVE  GateInv'
  <2>1. Turn(r, "reserve", "acquire") /\ request[r].user \in Users
        BY <1>1, <1>4, GotoTurns, Keys DEF Stages
  <2>2. spent[request[r].user] \in Nat /\ units \in Nat /\ Budget \in Nat
        BY <1>1, <2>1, BoundsAssumption DEF TypeOK
  <2>3. spent[request[r].user] + units <= Budget
        BY <1>4, <2>2
  <2>4. spent' \in [Users -> Nat] /\ \A u \in Users : spent'[u] <= Budget
        BY <1>4, <2>1, <2>3, Charge
  <2> QED BY <1>1, <1>2, <2>1, <2>4, ChargeKeeps DEF Stages
<1> QED BY <1>3, <1>4 DEF Reserve

-----------------------------------------------------------------------------
(* The slots.                                                              *)

(* A turn that concerns slots only.                                        *)
LEMMA SlotTurn ==
    ASSUME GateInv, NEW r \in Requests, NEW from \in Stages,
           NEW to \in Stages \ {"rateAddress"}, Turn(r, from, to),
           UNCHANGED <<setting, now, arrived, hits, passed, spent>>,
           globalUsed' \in Nat, userUsed' \in [Users -> Nat], SlotInv'
    PROVE  GateInv'
<1>1. TypeOK'
      BY TurnType DEF TypeOK, GateInv
<1>2. RateInv'
      BY RatesKept DEF GateInv, TypeOK
<1> QED BY <1>1, <1>2 DEF GateInv, BudgetRespected

(* What the counters of taken slots say now, as numbers.                   *)
LEMMA SlotTypes ==
    ASSUME GateInv
    PROVE  /\ TypeOK /\ SlotInv
           /\ globalUsed \in Nat /\ userUsed \in [Users -> Nat]
           /\ MaxGlobal \in Nat /\ MaxPerUser \in Nat
BY BoundsAssumption DEF GateInv, TypeOK

(* The global semaphore has a slot for whoever gets through.               *)
LEMMA AcquireGlobalKeeps ==
    ASSUME GateInv, NEW r \in Requests, AcquireGlobal(r)
    PROVE  GateInv'
<1> USE SlotTypes
<1>1. /\ request[r].pc = "acquire" /\ ~At(r, "idle") /\ Goto(r, "acquireUser")
      /\ ~setting.redis /\ globalUsed < MaxGlobal /\ globalUsed' = globalUsed + 1
      /\ UNCHANGED <<setting, now, arrived, hits, passed, spent, userUsed>>
      BY DEF AcquireGlobal, At, clock, rates
<1>2. Turn(r, "acquire", "acquireUser")
      BY <1>1, GotoTurns DEF Stages
<1>3. /\ Cardinality(Running) \in Nat /\ Cardinality(Entering) \in Nat
      /\ Cardinality(Running)' = Cardinality(Running)
      /\ Cardinality(Entering)' = Cardinality(Entering) + 1
      /\ \A u : Cardinality(RunningOf(u))' = Cardinality(RunningOf(u))
      BY <1>2, TurnCounts DEF One, Stages
<1>4. SlotInv'
      BY <1>1, <1>3 DEF SlotInv, Reliable, Exact
<1> QED BY <1>1, <1>2, <1>4, SlotTurn DEF Stages

(* Whoever waits too long for it holds nothing.                            *)
LEMMA GlobalTimeoutKeeps ==
    ASSUME GateInv, NEW r \in Requests, GlobalTimeout(r)
    PROVE  GateInv'
<1> USE SlotTypes
<1>1. /\ request[r].pc = "acquire" /\ Leave(r)
      /\ UNCHANGED <<setting, now, arrived, hits, passed, spent, globalUsed, userUsed>>
      BY DEF GlobalTimeout, At, clock, rates, slots
<1>2. Turn(r, "acquire", "idle")
      BY <1>1, LeaveTurns
<1>3. SlotInv'
      BY <1>1, <1>2, SlotsKept DEF Stages
<1> QED BY <1>1, <1>2, <1>3, SlotTurn DEF Stages

(* The user's semaphore has a slot for whoever gets through.               *)
LEMMA AcquireUserKeeps ==
    ASSUME GateInv, NEW r \in Requests, AcquireUser(r)
    PROVE  GateInv'
<1> USE SlotTypes
<1> DEFINE user == request[r].user
<1>1. /\ request[r].pc = "acquireUser" /\ ~At(r, "idle") /\ Goto(r, "running")
      /\ userUsed[user] < MaxPerUser
      /\ userUsed' = [userUsed EXCEPT ![user] = userUsed[user] + 1]
      /\ UNCHANGED <<setting, now, arrived, hits, passed, spent, globalUsed>>
      BY DEF AcquireUser, At, clock, rates
<1>2. Turn(r, "acquireUser", "running") /\ user \in Users
      BY <1>1, GotoTurns, Keys DEF Stages
<1>3. /\ Cardinality(Running) \in Nat /\ Cardinality(Entering) \in Nat
      /\ Cardinality(Entering)' \in Nat
      /\ Cardinality(Running)' = Cardinality(Running) + 1
      /\ Cardinality(Entering)' + 1 = Cardinality(Entering)
      BY <1>2, TurnCounts DEF One, Stages
<1>4. \A u : /\ Cardinality(RunningOf(u)) \in Nat
             /\ Cardinality(RunningOf(u))'
                  = Cardinality(RunningOf(u)) + One(user = u)
      BY <1>2, TurnCounts DEF One, Stages
<1>5. ASSUME NEW u \in Users
      PROVE  /\ Reliable => /\ Cardinality(RunningOf(u))' <= userUsed'[u]
                            /\ userUsed'[u] <= MaxPerUser
             /\ Exact => userUsed'[u] = Cardinality(RunningOf(u))'
  <2>1. userUsed[u] \in Nat /\ userUsed'[u] = userUsed[u] + One(user = u)
        BY <1>1, <1>2 DEF One
  <2>2. user = u => userUsed[u] < MaxPerUser
        BY <1>1
  <2> QED BY <1>4, <2>1, <2>2 DEF SlotInv, One
<1>6. SlotInv'
  <2>1. setting'.redis => \A s \in Requests : ~At(s, "acquireUser")'
        BY <1>1, <1>2 DEF SlotInv, Turn, At
  <2>2. UNCHANGED <<Reliable, Exact>>
        BY <1>1 DEF Reliable, Exact
  <2> QED BY <1>1, <1>3, <1>5, <2>1, <2>2 DEF SlotInv
<1>7. userUsed' \in [Users -> Nat] /\ globalUsed' \in Nat
      BY <1>1, <1>2
<1> QED BY <1>1, <1>2, <1>6, <1>7, SlotTurn DEF Stages

(* Whoever waits too long for it gives the global slot back.               *)
LEMMA UserTimeoutKeeps ==
    ASSUME GateInv, NEW r \in Requests, UserTimeout(r)
    PROVE  GateInv'
<1> USE SlotTypes
<1>1. /\ request[r].pc = "acquireUser" /\ Leave(r) /\ globalUsed' = globalUsed - 1
      /\ UNCHANGED <<setting, now, arrived, hits, passed, spent, userUsed>>
      BY DEF UserTimeout, At, clock, rates
<1>2. Turn(r, "acquireUser", "idle")
      BY <1>1, LeaveTurns
<1>3. ~setting.redis
      BY <1>1 DEF SlotInv, At
<1>4. /\ Cardinality(Running) \in Nat /\ Cardinality(Entering) \in Nat
      /\ Cardinality(Entering)' \in Nat
      /\ Cardinality(Running)' = Cardinality(Running)
      /\ Cardinality(Entering)' + 1 = Cardinality(Entering)
      /\ \A u : Cardinality(RunningOf(u))' = Cardinality(RunningOf(u))
      BY <1>2, TurnCounts DEF One, Stages
<1>5. globalUsed = Cardinality(Running) + Cardinality(Entering)
      BY <1>3 DEF SlotInv, Exact
<1>6. SlotInv'
      BY <1>1, <1>3, <1>4, <1>5 DEF SlotInv, Reliable, Exact
<1>7. globalUsed' \in Nat
      BY <1>1, <1>4, <1>5
<1> QED BY <1>1, <1>2, <1>6, <1>7, SlotTurn DEF Stages

(* The script that takes a slot of each kind, if there is one.             *)
Taken(u) ==
    /\ globalUsed' = globalUsed + 1 /\ globalUsed' <= MaxGlobal
    /\ globalUsed' \in Nat /\ userUsed' \in [Users -> Nat]
    /\ userUsed'[u] = userUsed[u] + 1 /\ userUsed'[u] <= MaxPerUser
    /\ \A v \in Users \ {u} : userUsed'[v] = userUsed[v]

(* Taking a slot adds one to what is taken.                                *)
LEMMA TakeAddsOne ==
    ASSUME GateInv, NEW u \in Users, FitsInRedis(u), Take(u)
    PROVE  Taken(u)
<1>1. /\ globalUsed < MaxGlobal /\ globalUsed' = globalUsed + 1
      /\ userUsed[u] < MaxPerUser /\ userUsed' = [userUsed EXCEPT ![u] = @ + 1]
      BY DEF FitsInRedis, Take
<1> QED BY <1>1, SlotTypes DEF Taken

(* The Redis counters never count fewer than the slots that are held.      *)
LEMMA AcquireInRedisKeeps ==
    ASSUME GateInv, NEW r \in Requests, AcquireInRedis(r)
    PROVE  GateInv'
<1> USE SlotTypes
<1> DEFINE user == request[r].user
<1>1. /\ request[r].pc = "acquire" /\ ~At(r, "idle") /\ setting.redis
      /\ UNCHANGED <<setting, now, arrived, hits, passed, spent>>
      BY DEF AcquireInRedis, At, clock, rates
<1>2. user \in Users
      BY <1>1, Keys
<1>3. CASE Leave(r) /\ UNCHANGED slots
  <2>1. Turn(r, "acquire", "idle") /\ UNCHANGED <<globalUsed, userUsed>>
        BY <1>1, <1>3, LeaveTurns DEF slots
  <2>2. SlotInv'
        BY <1>1, <2>1, SlotsKept DEF Stages
  <2> QED BY <1>1, <2>1, <2>2, SlotTurn DEF Stages
<1>4. CASE FitsInRedis(user) /\ Take(user) /\ Goto(r, "running")
  <2>1. Turn(r, "acquire", "running")
        BY <1>1, <1>4, GotoTurns DEF Stages
  <2>2. /\ Cardinality(Running) \in Nat /\ Cardinality(Entering) \in Nat
        /\ Cardinality(Running)' = Cardinality(Running) + 1
        /\ Cardinality(Entering)' = Cardinality(Entering)
        /\ \A u : /\ Cardinality(RunningOf(u)) \in Nat
                  /\ Cardinality(RunningOf(u))'
                       = Cardinality(RunningOf(u)) + One(user = u)
        BY <2>1, TurnCounts DEF One, Stages
  <2>3. ASSUME NEW u \in Users
        PROVE  /\ Reliable => /\ Cardinality(RunningOf(u))' <= userUsed'[u]
                              /\ userUsed'[u] <= MaxPerUser
               /\ Exact => userUsed'[u] = Cardinality(RunningOf(u))'
    <3>0. userUsed[u] \in Nat
          OBVIOUS
    <3>1. /\ u = user => /\ userUsed'[u] = userUsed[u] + 1
                         /\ userUsed'[u] <= MaxPerUser
          /\ u # user => userUsed'[u] = userUsed[u]
      <4>1. Taken(user)
            BY <1>2, <1>4, TakeAddsOne
      <4> QED BY <4>1 DEF Taken
    <3>2. /\ Cardinality(RunningOf(u)) \in Nat
          /\ u = user => Cardinality(RunningOf(u))' = Cardinality(RunningOf(u)) + 1
          /\ u # user => Cardinality(RunningOf(u))' = Cardinality(RunningOf(u))
          BY <2>2 DEF One
    <3> QED BY <3>0, <3>1, <3>2 DEF SlotInv
  <2>4. SlotInv'
    <3>1. setting'.redis => \A s \in Requests : ~At(s, "acquireUser")'
          BY <1>1, <2>1 DEF SlotInv, Turn, At
    <3>2. UNCHANGED <<Reliable, Exact>>
          BY <1>1 DEF Reliable, Exact
    <3>3. globalUsed' = globalUsed + 1 /\ globalUsed' <= MaxGlobal
          BY <1>2, <1>4, TakeAddsOne DEF Taken
    <3> QED BY <2>2, <2>3, <3>1, <3>2, <3>3 DEF SlotInv
  <2> QED BY <1>1, <1>2, <1>4, <2>1, <2>4, TakeAddsOne, SlotTurn DEF Stages, Taken
<1>5. CASE setting.faults /\ Leave(r) /\ FitsInRedis(user) /\ Take(user)
  <2>1. Turn(r, "acquire", "idle")
        BY <1>1, <1>5, LeaveTurns
  <2>2. /\ Cardinality(Running) \in Nat /\ Cardinality(Entering) \in Nat
        /\ Cardinality(Running)' = Cardinality(Running)
        /\ Cardinality(Entering)' = Cardinality(Entering)
        /\ \A u : /\ Cardinality(RunningOf(u)) \in Nat
                  /\ Cardinality(RunningOf(u))' = Cardinality(RunningOf(u))
        BY <2>1, TurnCounts DEF One, Stages
  <2>3. ASSUME NEW u \in Users
        PROVE  Reliable => /\ Cardinality(RunningOf(u))' <= userUsed'[u]
                           /\ userUsed'[u] <= MaxPerUser
    <3>0. userUsed[u] \in Nat
          OBVIOUS
    <3>1. /\ u = user => /\ userUsed'[u] = userUsed[u] + 1
                         /\ userUsed'[u] <= MaxPerUser
          /\ u # user => userUsed'[u] = userUsed[u]
      <4>1. Taken(user)
            BY <1>2, <1>5, TakeAddsOne
      <4> QED BY <4>1 DEF Taken
    <3>2. /\ Cardinality(RunningOf(u)) \in Nat
          /\ Cardinality(RunningOf(u))' = Cardinality(RunningOf(u))
          BY <2>2
    <3> QED BY <3>0, <3>1, <3>2 DEF SlotInv, One
  <2>4. SlotInv'
    <3>1. setting'.redis => \A s \in Requests : ~At(s, "acquireUser")'
          BY <1>1, <2>1 DEF SlotInv, Turn, At
    <3>2. UNCHANGED <<Reliable, Exact>> /\ ~Exact
          BY <1>1, <1>5 DEF Reliable, Exact
    <3>3. globalUsed' = globalUsed + 1 /\ globalUsed' <= MaxGlobal
          BY <1>2, <1>5, TakeAddsOne DEF Taken
    <3> QED BY <2>2, <2>3, <3>1, <3>2, <3>3 DEF SlotInv
  <2> QED BY <1>1, <1>2, <1>5, <2>1, <2>4, TakeAddsOne, SlotTurn DEF Stages, Taken
<1> QED BY <1>3, <1>4, <1>5 DEF AcquireInRedis

(* A release gives back what the request held, once.                       *)
LEMMA ReleaseKeeps ==
    ASSUME GateInv, NEW r \in Requests, Release(r)
    PROVE  GateInv'
<1> USE SlotTypes
<1> DEFINE user == request[r].user
<1>1. /\ request[r].pc = "running" /\ ~At(r, "idle") /\ Leave(r)
      /\ UNCHANGED <<setting, now, arrived, hits, passed, spent>>
      BY DEF Release, At, clock, rates
<1>2. Turn(r, "running", "idle") /\ user \in Users
      BY <1>1, LeaveTurns, Keys
<1>3. /\ Cardinality(Running) \in Nat /\ Cardinality(Entering) \in Nat
      /\ Cardinality(Running)' \in Nat
      /\ Cardinality(Running)' + 1 = Cardinality(Running)
      /\ Cardinality(Entering)' = Cardinality(Entering)
      /\ \A u : /\ Cardinality(RunningOf(u)) \in Nat
                /\ Cardinality(RunningOf(u))' \in Nat
                /\ Cardinality(RunningOf(u))' + One(user = u)
                     = Cardinality(RunningOf(u))
      BY <1>2, TurnCounts DEF One, Stages
<1>4. /\ setting'.redis => \A s \in Requests : ~At(s, "acquireUser")'
      /\ UNCHANGED <<Reliable, Exact>>
      BY <1>1, <1>2 DEF SlotInv, Turn, At, Reliable, Exact
<1>5. CASE setting.redis /\ setting.faults /\ UNCHANGED slots
  <2>1. ~Exact /\ UNCHANGED <<globalUsed, userUsed>>
        BY <1>5 DEF Exact, slots
  <2>2. ASSUME NEW u \in Users
        PROVE  Reliable => /\ Cardinality(RunningOf(u))' <= userUsed'[u]
                           /\ userUsed'[u] <= MaxPerUser
    <3>1. /\ Cardinality(RunningOf(u))' \in Nat /\ Cardinality(RunningOf(u)) \in Nat
          /\ Cardinality(RunningOf(u))' <= Cardinality(RunningOf(u))
          BY <1>3 DEF One
    <3> QED BY <2>1, <3>1 DEF SlotInv
  <2>3. SlotInv'
        BY <1>3, <1>4, <2>1, <2>2 DEF SlotInv
  <2> QED BY <1>1, <1>2, <2>1, <2>3, SlotTurn DEF Stages
<1>6. CASE Give(user)
  <2>1. /\ globalUsed' = Decrement(globalUsed)
        /\ \A u \in Users : userUsed'[u] =
              IF u = user THEN Decrement(userUsed[u]) ELSE userUsed[u]
        /\ globalUsed' \in Nat /\ userUsed' \in [Users -> Nat]
        BY <1>2, <1>6 DEF Give, Decrement
  <2>2. Reliable => /\ Cardinality(Running)' + Cardinality(Entering)' <= globalUsed'
                    /\ globalUsed' <= MaxGlobal
        BY <1>3, <2>1 DEF SlotInv, Decrement
  <2>3. Exact => globalUsed' = Cardinality(Running)' + Cardinality(Entering)'
        BY <1>3, <2>1 DEF SlotInv, Decrement
  <2>4. ASSUME NEW u \in Users
        PROVE  /\ Reliable => /\ Cardinality(RunningOf(u))' <= userUsed'[u]
                              /\ userUsed'[u] <= MaxPerUser
               /\ Exact => userUsed'[u] = Cardinality(RunningOf(u))'
    <3>1. /\ Cardinality(RunningOf(u)) \in Nat /\ Cardinality(RunningOf(u))' \in Nat
          /\ userUsed[u] \in Nat
          /\ Reliable => /\ Cardinality(RunningOf(u)) <= userUsed[u]
                         /\ userUsed[u] <= MaxPerUser
          /\ Exact => userUsed[u] = Cardinality(RunningOf(u))
          BY <1>3 DEF SlotInv
    <3>2. CASE u = user
      <4>1. Cardinality(RunningOf(u))' + 1 = Cardinality(RunningOf(u))
            BY <1>3, <3>2 DEF One
      <4>2. userUsed'[u] = IF userUsed[u] > 0 THEN userUsed[u] - 1 ELSE 0
            BY <2>1, <3>2 DEF Decrement
      <4> QED BY <3>1, <4>1, <4>2
    <3>3. CASE u # user
      <4>1. Cardinality(RunningOf(u))' = Cardinality(RunningOf(u))
            BY <1>3, <3>3 DEF One
      <4> QED BY <2>1, <3>1, <3>3, <4>1
    <3> QED BY <3>2, <3>3
  <2>5. SlotInv'
        BY <1>4, <2>2, <2>3, <2>4 DEF SlotInv
  <2> QED BY <1>1, <1>2, <2>1, <2>5, SlotTurn DEF Stages
<1> QED BY <1>5, <1>6 DEF Release

-----------------------------------------------------------------------------
(* Time, arrivals and expiry.                                              *)

(* A request that arrives holds nothing yet.                               *)
LEMMA ArriveKeeps ==
    ASSUME GateInv, NEW r \in Requests, NEW u \in Users, NEW a \in Addresses,
           Arrive(r, u, a)
    PROVE  GateInv'
<1> USE SlotTypes
<1>1. /\ request[r].pc = "idle" /\ arrived' \in 0..Arrivals
      /\ UNCHANGED <<setting, now, hits, passed, spent, globalUsed, userUsed>>
      BY BoundsAssumption DEF Arrive, At, clock, rates, slots, TypeOK
<1>2. /\ DOMAIN request' = Requests /\ request'[r].pc = "rateUser"
      /\ request'[r] \in Request
      /\ \A s \in Requests \ {r} : request'[s] = request[s]
      BY DEF Arrive, TypeOK, Request, Stages
<1>3. TypeOK'
      BY <1>1, <1>2 DEF TypeOK
<1>4. /\ UNCHANGED <<Running, Entering>>
      /\ \A v : RunningOf(v)' = RunningOf(v)
      /\ \A k : Waiting(k)' = Waiting(k)
      BY <1>1, <1>2 DEF Running, RunningOf, Entering, Waiting, UserKey, At
<1>5. setting'.redis => \A s \in Requests : ~At(s, "acquireUser")'
      BY <1>1, <1>2 DEF SlotInv, At
<1>6. SlotInv'
      BY <1>1, <1>4, <1>5 DEF SlotInv, Reliable, Exact
<1> QED BY <1>1, <1>3, <1>4, <1>6 DEF GateInv, RateInv, BudgetRespected

(* A key that nobody holds any more is dropped; with slow requests nothing *)
(* is said of the slots.                                                   *)
LEMMA ExpiryKeeps ==
    ASSUME GateInv, ExpireGlobal \/ \E u \in Users : ExpireUser(u)
    PROVE  GateInv'
<1> USE SlotTypes
<1>1. /\ setting.redis /\ globalUsed' \in Nat /\ userUsed' \in [Users -> Nat]
      /\ UNCHANGED <<setting, now, arrived, hits, passed, spent, request>>
      BY DEF ExpireGlobal, ExpireUser, clock, rates
<1>2. /\ UNCHANGED <<Running, Entering, Reliable, Exact>>
      /\ \A v : RunningOf(v)' = RunningOf(v) /\ \A k : Waiting(k)' = Waiting(k)
      /\ \A s \in Requests : At(s, "acquireUser")' = At(s, "acquireUser")
      BY <1>1 DEF Running, RunningOf, Entering, Waiting, UserKey, At, Reliable, Exact
<1>3. Entering = {} /\ Cardinality({}) = 0
      BY <1>1, FS_EmptySet DEF SlotInv, Entering
<1>4. SlotInv'
  <2>1. CASE ExpireGlobal
    <3>1. Reliable \/ Exact => Running = {}
          BY <1>1, <2>1 DEF ExpireGlobal, Reliable, Exact
    <3>2. globalUsed' = 0 /\ UNCHANGED userUsed
          BY <2>1 DEF ExpireGlobal
    <3> QED BY <1>1, <1>2, <1>3, <3>1, <3>2 DEF SlotInv
  <2>2. ASSUME NEW u \in Users, ExpireUser(u)
        PROVE  SlotInv'
    <3>1. Reliable \/ Exact => RunningOf(u) = {}
          BY <1>1, <2>2 DEF ExpireUser, Reliable, Exact
    <3>2. userUsed' = [userUsed EXCEPT ![u] = 0] /\ UNCHANGED globalUsed
          BY <2>2 DEF ExpireUser
    <3> QED BY <1>1, <1>2, <1>3, <3>1, <3>2 DEF SlotInv
  <2> QED BY <2>1, <2>2
<1>5. TypeOK'
      BY <1>1 DEF TypeOK
<1> QED BY <1>1, <1>2, <1>4, <1>5 DEF GateInv, RateInv, BudgetRespected

(* The invariant holds when nothing has arrived,                           *)
LEMMA GateInit == Init => GateInv
<1> SUFFICES ASSUME Init PROVE GateInv
    OBVIOUS
<1>1. TypeOK
      BY BoundsAssumption, SettingsAssumption DEF Init, TypeOK, Windows
<1>2. /\ Running = {} /\ Entering = {} /\ \A u : RunningOf(u) = {}
      /\ \A k : Waiting(k) = {}
      BY DEF Init, Running, Entering, RunningOf, Waiting, At
<1>3. /\ Cardinality(Running) = 0 /\ Cardinality(Entering) = 0
      /\ \A u : Cardinality(RunningOf(u)) = 0
      /\ \A k : Cardinality(Waiting(k)) = 0
      BY <1>2, FS_EmptySet
<1>4. SlotInv
  <2>1. /\ globalUsed = 0 /\ \A u \in Users : userUsed[u] = 0
        /\ \A r \in Requests : ~At(r, "acquireUser")
        BY DEF Init, At
  <2>2. 0 <= MaxGlobal /\ 0 <= MaxPerUser
        BY BoundsAssumption
  <2> QED BY <1>3, <2>1, <2>2 DEF SlotInv
<1>5. RateInv
  <2>1. \A k \in Windows \X Subjects : hits[k] = 0 /\ passed[k] = 0
        BY DEF Init
  <2>2. 0 <= RateLimit
        BY BoundsAssumption
  <2> QED BY <1>3, <2>1, <2>2 DEF RateInv
<1> QED BY <1>1, <1>4, <1>5, BoundsAssumption DEF Init, GateInv, BudgetRespected

(* every step keeps it,                                                    *)
LEMMA GateStep == GateInv /\ [Next]_vars => GateInv'
<1> SUFFICES ASSUME GateInv, [Next]_vars PROVE GateInv'
    OBVIOUS
<1>1. CASE Tick
  <2>1. /\ UNCHANGED <<setting, arrived, hits, passed, spent, globalUsed, userUsed, request>>
        /\ now' \in Windows
        BY <1>1, BoundsAssumption DEF Tick, rates, slots, GateInv, TypeOK, Windows
  <2>2. /\ UNCHANGED <<Running, Entering, Reliable, Exact>>
        /\ \A v : RunningOf(v)' = RunningOf(v) /\ \A k : Waiting(k)' = Waiting(k)
        /\ \A s \in Requests : At(s, "acquireUser")' = At(s, "acquireUser")
        BY <2>1 DEF Running, RunningOf, Entering, Waiting, UserKey, At, Reliable, Exact
  <2>3. TypeOK'
        BY <2>1 DEF GateInv, TypeOK
  <2>4. SlotInv'
        BY <2>1, <2>2 DEF GateInv, SlotInv
  <2> QED BY <2>1, <2>2, <2>3, <2>4 DEF GateInv, RateInv, BudgetRespected
<1>2. ASSUME NEW r \in Requests, NEW u \in Users, NEW a \in Addresses, Arrive(r, u, a)
      PROVE  GateInv'
      BY <1>2, ArriveKeeps
<1>3. ASSUME NEW r \in Requests, Step(r)
      PROVE  GateInv'
      BY <1>3, RateInMemoryKeeps, RateUserInRedisKeeps, RateAddressInRedisKeeps,
         RedisRaisesKeeps, ReserveKeeps, AcquireGlobalKeeps, GlobalTimeoutKeeps,
         AcquireUserKeeps, UserTimeoutKeeps, AcquireInRedisKeeps, ReleaseKeeps
         DEF Step
<1>4. CASE ExpireGlobal \/ \E u \in Users : ExpireUser(u)
      BY <1>4, ExpiryKeeps
<1>5. CASE UNCHANGED vars
  <2>1. /\ UNCHANGED <<Running, Entering, Reliable, Exact>>
        /\ \A v : RunningOf(v)' = RunningOf(v) /\ \A k : Waiting(k)' = Waiting(k)
        /\ \A s \in Requests : At(s, "acquireUser")' = At(s, "acquireUser")
        BY <1>5 DEF vars, Running, RunningOf, Entering, Waiting, UserKey, At,
                    Reliable, Exact
  <2>2. TypeOK' /\ SlotInv'
        BY <1>5, <2>1 DEF vars, GateInv, TypeOK, SlotInv
  <2> QED BY <1>5, <2>1, <2>2 DEF vars, GateInv, RateInv, BudgetRespected
<1> QED BY <1>1, <1>2, <1>3, <1>4, <1>5 DEF Next

(* and so it always holds.                                                 *)
LEMMA GateAlways == Spec => []GateInv
BY GateInit, GateStep, PTL DEF Spec

-----------------------------------------------------------------------------
(* The counters have their types; a semaphore or a Redis key is never      *)
(* negative.  Code: resource_controls.py.                                  *)
THEOREM CountersTyped == Spec => []TypeOK
BY GateAlways, PTL DEF GateInv

(* No more requests run than allowed, in total and for each user, with     *)
(* either backend, while no request outlives its keys.                     *)
THEOREM CapacityBounded == Spec => []CapacityBound
<1>1. GateInv => CapacityBound
  <2> SUFFICES ASSUME GateInv, ~setting.slow PROVE CapacityBound
      BY DEF CapacityBound
  <2>1. \A S : S \subseteq Requests => Cardinality(S) \in Nat
        BY BoundsAssumption, FS_Subset, FS_CardinalityType
  <2>2. /\ Cardinality(Running) \in Nat /\ Cardinality(Entering) \in Nat
        /\ \A u : Cardinality(RunningOf(u)) \in Nat
        BY <2>1 DEF Running, Entering, RunningOf
  <2> QED BY <2>2, SlotTypes DEF SlotInv, Reliable, CapacityBound
<1> QED BY <1>1, GateAlways, PTL

(* Without faults a slot taken is a slot held: nobody leaks one.           *)
THEOREM SlotsAreHeld == Spec => []TakenIsHeld
<1>1. GateInv => TakenIsHeld
      BY DEF GateInv, SlotInv, Exact, TakenIsHeld, Entering
<1> QED BY <1>1, GateAlways, PTL

(* The rate limit of a window holds for each user and each address, in any *)
(* interleaving of the calls and with calls that raise.                    *)
THEOREM RateHolds == Spec => []RateRespected
<1>1. GateInv => RateRespected
  <2> SUFFICES ASSUME GateInv, NEW k \in Windows \X Subjects
               PROVE  passed[k] <= RateLimit
      BY DEF RateRespected
  <2>1. Waiting(k) \subseteq Requests
        BY DEF Waiting
  <2>2. Cardinality(Waiting(k)) \in Nat /\ passed[k] \in Nat
        BY <2>1, BoundsAssumption, FS_Subset, FS_CardinalityType DEF GateInv, TypeOK
  <2>3. passed[k] + Cardinality(Waiting(k)) <= RateLimit
        BY DEF GateInv, RateInv
  <2> QED BY <2>2, <2>3, BoundsAssumption
<1> QED BY <1>1, GateAlways, PTL

(* Reservations never take a user's day beyond the budget.                 *)
THEOREM BudgetHolds == Spec => []BudgetRespected
BY GateAlways, PTL DEF GateInv
=============================================================================
