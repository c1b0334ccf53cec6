------------------------- MODULE SigningKeysProofs -------------------------
(* Proofs about SigningKeys, for any keys, lookups, times and delays.      *)
EXTENDS SigningKeys, TLAPS

(* A published key has been seen just now; none is seen in the future.     *)
Sightings ==
    \A k \in Kids : /\ lastSeen[k] <= now
                    /\ k \in published => lastSeen[k] = now

(* The cache holds keys that were published when they were served, and     *)
(* keeps them no longer than the answer took plus the time to live.        *)
CacheSound ==
    /\ cache.served <= now
    /\ cache.expires <= cache.served + MaxDelay + TTL
    /\ \A k \in cache.keys : cache.served <= lastSeen[k]

(* Who asks holds the lock and asks no longer than MaxDelay, and the cache *)
(* is older than the question; an answer is no older than the question.    *)
LookupSound(l) ==
    /\ Pending(l) => lookup[l].kid \in Kids
    /\ Asking(l) => /\ holder = l
                    /\ lookup[l].since <= now
                    /\ now <= lookup[l].since + MaxDelay
                    /\ cache.served <= lookup[l].since
    /\ lookup[l].pc = "answering" =>
          /\ lookup[l].since <= lookup[l].served
          /\ lookup[l].served <= now
          /\ \A k \in lookup[l].answer : lookup[l].served <= lastSeen[k]
    /\ lookup[l].pc = "found" => lookup[l].age < TTL + MaxDelay

KeysInv ==
    TypeOK /\ Sightings /\ CacheSound /\ \A l \in Lookups : LookupSound(l)

-----------------------------------------------------------------------------
(* The fields that are moments are numbers.                                *)
LEMMA Moments ==
    ASSUME TypeOK
    PROVE  /\ now \in Nat /\ cache.served \in Nat /\ cache.expires \in Nat
           /\ cache.keys \in SUBSET Kids
           /\ \A k \in Kids : lastSeen[k] \in Nat
           /\ \A l \in Lookups : /\ lookup[l].since \in Nat
                                 /\ lookup[l].served \in Nat
                                 /\ lookup[l].answer \in SUBSET Kids
<1> USE TimesAssumption DEF TypeOK, Times
<1>1. now \in Nat /\ \A k \in Kids : lastSeen[k] \in Nat
      OBVIOUS
<1>2. /\ cache.served \in Nat /\ cache.expires \in Nat
      /\ cache.keys \in SUBSET Kids
      BY DEF Cache
<1>3. ASSUME NEW l \in Lookups
      PROVE  /\ lookup[l].since \in Nat /\ lookup[l].served \in Nat
             /\ lookup[l].answer \in SUBSET Kids
  <2>1. lookup[l] \in Lookup
        OBVIOUS
  <2> QED BY <2>1 DEF Lookup
<1> QED BY <1>1, <1>2, <1>3

(* How a lookup that is not asking is made.                                *)
LEMMA Blank ==
    ASSUME NEW pc \in Stages, NEW kid \in Kids \cup {None},
           NEW forced \in BOOLEAN, NEW again \in BOOLEAN,
           NEW age \in Times, NEW excuse \in BOOLEAN
    PROVE  /\ NoLookup \in Lookup
           /\ [NoLookup EXCEPT !.kid = kid, !.excuse = excuse] \in Lookup
           /\ [NoLookup EXCEPT !.pc = pc, !.kid = kid, !.age = age] \in Lookup
           /\ [NoLookup EXCEPT !.pc = pc, !.kid = kid, !.excuse = excuse]
                 \in Lookup
           /\ [NoLookup EXCEPT !.pc = pc, !.kid = kid, !.excuse = excuse,
                               !.again = again, !.forced = forced] \in Lookup
<1>1. 0 \in Times /\ {} \in SUBSET Kids
      BY TimesAssumption DEF Times
<1>2. NoLookup \in Lookup
      BY <1>1 DEF NoLookup, Lookup, Stages
<1> QED BY <1>2 DEF Lookup

(* A key of a set that was published recently makes a sound end.           *)
LEMMA ResolvedSound ==
    ASSUME TypeOK, Sightings, NEW r \in Lookup, r.kid \in Kids,
           NEW keys \in SUBSET Kids,
           \A k \in keys : now < lastSeen[k] + TTL + MaxDelay
    PROVE  /\ Resolved(r, keys) \in Lookup
           /\ Resolved(r, keys).pc \in {"found", "missing", "wait"}
           /\ Resolved(r, keys).kid = r.kid
           /\ Resolved(r, keys).pc = "found" =>
                 Resolved(r, keys).age < TTL + MaxDelay
<1> USE TimesAssumption
<1>0. /\ r.excuse \in BOOLEAN /\ now \in Times /\ now \in Nat
      /\ lastSeen[r.kid] \in Times /\ lastSeen[r.kid] \in Nat
      /\ lastSeen[r.kid] <= now
      BY DEF TypeOK, Times, Lookup, Sightings
<1>1. CASE r.kid \in keys
  <2>1. /\ now - lastSeen[r.kid] \in Times
        /\ now - lastSeen[r.kid] < TTL + MaxDelay
        BY <1>0, <1>1 DEF Times
  <2>2. Found(r) = [NoLookup EXCEPT !.pc = "found", !.kid = r.kid,
                                    !.age = now - lastSeen[r.kid]]
        BY DEF Found
  <2>3. /\ Found(r) \in Lookup /\ Found(r).pc = "found"
        /\ Found(r).kid = r.kid /\ Found(r).age = now - lastSeen[r.kid]
    <3> DEFINE age == now - lastSeen[r.kid]
    <3>1. /\ age \in Times /\ "found" \in Stages
          /\ r.kid \in Kids \cup {None} /\ TRUE \in BOOLEAN
          BY <2>1 DEF Stages
    <3> HIDE DEF age
    <3>2. [NoLookup EXCEPT !.pc = "found", !.kid = r.kid, !.age = age] \in Lookup
          BY <3>1, Blank
    <3>3. Found(r) \in Lookup
          BY <2>2, <3>2 DEF age
    <3> QED BY <2>2, <3>3 DEF NoLookup
  <2> QED BY <1>1, <2>1, <2>3 DEF Resolved
<1>2. CASE r.kid \notin keys /\ r.again
  <2>1. /\ Raised(r, "missing") \in Lookup
        /\ Raised(r, "missing").pc = "missing"
        /\ Raised(r, "missing").kid = r.kid
    <3>1. Raised(r, "missing") \in Lookup
          BY <1>0, Blank DEF Raised, Stages
    <3> QED BY <3>1 DEF Raised, NoLookup
  <2> QED BY <1>2, <2>1 DEF Resolved
<1>3. CASE r.kid \notin keys /\ ~r.again
  <2>1. /\ Waiting(r, TRUE) \in Lookup
        /\ Waiting(r, TRUE).pc = "wait" /\ Waiting(r, TRUE).kid = r.kid
    <3>1. (r.kid \notin cache.keys \/ TRUE) \in BOOLEAN
          OBVIOUS
    <3>2. Waiting(r, TRUE) \in Lookup
          BY <1>0, <3>1, Blank DEF Waiting, Stages
    <3> QED BY <3>2 DEF Waiting, NoLookup
  <2> QED BY <1>3, <2>1 DEF Resolved
<1> QED BY <1>1, <1>2, <1>3

(* The invariant of the cache holds at the start.                          *)
LEMMA InitKeys == Init => KeysInv
<1> SUFFICES ASSUME Init PROVE KeysInv
    OBVIOUS
<1> USE TimesAssumption
<1>1. TypeOK
      BY DEF Init, TypeOK, Times, Cache, Lookup, Stages, NoLookup
<1>2. Sightings /\ CacheSound
      BY DEF Init, Sightings, CacheSound
<1>3. \A l \in Lookups : LookupSound(l)
      BY DEF Init, LookupSound, NoLookup, Pending, Asking
<1> QED BY <1>1, <1>2, <1>3 DEF KeysInv

(* Time and rotation keep it.                                              *)
LEMMA WorldKeys ==
    ASSUME KeysInv, Tick \/ \E keys \in SUBSET Kids : Rotate(keys)
    PROVE  KeysInv'
<1> USE TimesAssumption DEF KeysInv
<1>1. CASE Tick
  <2> USE <1>1 DEF Tick
  <2>1. TypeOK'
        BY DEF TypeOK, Times
  <2>2. Sightings' /\ CacheSound'
        BY Moments DEF TypeOK, Sightings, CacheSound
  <2>3. ASSUME NEW l \in Lookups PROVE LookupSound(l)'
    <3>1. LookupSound(l) /\ \A k \in Kids : lastSeen[k] <= lastSeen'[k]
          BY Moments DEF TypeOK, Sightings
    <3>2. Asking(l) => now' <= lookup[l].since + MaxDelay
          BY Moments
    <3> QED BY <3>1, <3>2, Moments DEF LookupSound, Pending, Asking
  <2> QED BY <2>1, <2>2, <2>3
<1>2. ASSUME NEW keys \in SUBSET Kids, Rotate(keys) PROVE KeysInv'
  <2> USE <1>2 DEF Rotate
  <2>1. TypeOK'
    <3>1. ASSUME NEW l \in Lookups PROVE lookup'[l] \in Lookup
      <4>1. lookup[l] \in Lookup
            BY DEF TypeOK
      <4>2. lookup'[l] \in {lookup[l], [lookup[l] EXCEPT !.excuse = TRUE]}
            OBVIOUS
      <4> QED BY <4>1, <4>2 DEF Lookup
    <3>2. lookup' \in [Lookups -> Lookup]
          BY <3>1
    <3> QED BY <3>2 DEF TypeOK
  <2>2. Sightings' /\ CacheSound'
        BY Moments DEF TypeOK, Sightings, CacheSound
  <2>3. ASSUME NEW l \in Lookups PROVE LookupSound(l)'
    <3>1. /\ lookup'[l].pc = lookup[l].pc /\ lookup'[l].kid = lookup[l].kid
          /\ lookup'[l].since = lookup[l].since
          /\ lookup'[l].served = lookup[l].served
          /\ lookup'[l].answer = lookup[l].answer
          /\ lookup'[l].age = lookup[l].age
          BY DEF TypeOK, Lookup
    <3>2. LookupSound(l) /\ lookup[l] \in Lookup
          BY DEF TypeOK
    <3>3. \A k \in Kids : /\ lastSeen[k] <= lastSeen'[k]
                          /\ lastSeen'[k] \in Nat
          BY Moments DEF TypeOK, Sightings
    <3> QED BY <3>1, <3>2, <3>3, Moments DEF LookupSound, Pending, Asking
  <2> QED BY <2>1, <2>2, <2>3
<1> QED BY <1>1, <1>2

(* A step of lookup l: what is left to show for the other lookups is that  *)
(* the cache is not changed under one that asks.                           *)
LEMMA OthersSound ==
    ASSUME KeysInv, NEW l \in Lookups, UNCHANGED <<now, published, lastSeen>>,
           \A m \in Lookups : m # l => lookup'[m] = lookup[m],
           \/ holder' = holder /\ cache' = cache
           \/ holder = None /\ cache' = cache
           \/ holder = l
    PROVE  \A m \in Lookups : m # l => LookupSound(m)'
<1> SUFFICES ASSUME NEW m \in Lookups, m # l PROVE LookupSound(m)'
    OBVIOUS
<1>1. LookupSound(m) /\ lookup'[m] = lookup[m]
      BY DEF KeysInv
<1>2. CASE Asking(m)
  <2>1. holder = m
        BY <1>1, <1>2 DEF LookupSound
  <2>2. holder' = holder /\ cache' = cache
        BY <2>1, NoneAssumption
  <2> QED BY <1>1, <2>2 DEF LookupSound, Pending, Asking
<1>3. CASE ~Asking(m)
      BY <1>1, <1>3 DEF LookupSound, Pending, Asking
<1> QED BY <1>2, <1>3

(* The steps of a lookup keep it.                                          *)
LEMMA LookupKeys ==
    ASSUME KeysInv, NEW l \in Lookups,
           \/ \E k \in Kids : Begin(l, k)
           \/ SkipRefresh(l) \/ Ask(l) \/ Serve(l) \/ Receive(l) \/ Fail(l)
           \/ Cancel(l) \/ End(l)
    PROVE  KeysInv'
<1> USE TimesAssumption, NoneAssumption
<1>0. /\ TypeOK /\ Sightings /\ CacheSound /\ LookupSound(l)
      /\ lookup[l] \in Lookup /\ now \in Nat /\ cache \in Cache
      BY DEF KeysInv, TypeOK, Times
<1>m. /\ cache.served \in Nat /\ cache.expires \in Nat
      /\ cache.keys \in SUBSET Kids
      /\ \A k \in Kids : lastSeen[k] \in Nat
      /\ lookup[l].since \in Nat /\ lookup[l].served \in Nat
      /\ lookup[l].answer \in SUBSET Kids
      BY <1>0, Moments
<1>c. Unexpired => \A k \in cache.keys : now < lastSeen[k] + TTL + MaxDelay
  <2> SUFFICES ASSUME Unexpired, NEW k \in cache.keys
               PROVE  now < lastSeen[k] + TTL + MaxDelay
      OBVIOUS
  <2>1. cache.served <= lastSeen[k] /\ lastSeen[k] \in Nat
        BY <1>0, <1>m DEF CacheSound
  <2>2. now < cache.expires /\ cache.expires <= cache.served + MaxDelay + TTL
        BY <1>0 DEF CacheSound, Unexpired
  <2> QED BY <1>0, <1>m, <2>1, <2>2
<1>1. ASSUME NEW k \in Kids, Begin(l, k) PROVE KeysInv'
  <2> DEFINE r == [NoLookup EXCEPT !.kid = k, !.excuse = k \notin published]
  <2>1. r \in Lookup /\ r.kid = k
    <3>1. (k \notin published) \in BOOLEAN
          OBVIOUS
    <3>2. 0 \in Times
          BY DEF Times
    <3>3. r \in Lookup
          BY <3>1, <3>2, Blank DEF Stages
    <3> QED BY <3>3 DEF NoLookup
  <2>2. CASE k \in cache.keys /\ Unexpired
    <3>1. lookup' = [lookup EXCEPT ![l] = Found(r)]
          BY <1>1, <2>2 DEF Begin
    <3>2. Resolved(r, cache.keys) = Found(r)
          BY <2>1, <2>2 DEF Resolved
    <3>3. /\ Found(r) \in Lookup /\ Found(r).pc = "found"
          /\ Found(r).age < TTL + MaxDelay
      <4>1. Found(r).pc = "found"
            BY DEF Found, NoLookup
      <4> HIDE DEF r
      <4> QED BY <1>0, <1>c, <1>m, <2>1, <2>2, <3>2, <4>1, ResolvedSound
    <3> HIDE DEF r
    <3>4. LookupSound(l)' /\ TypeOK'
          BY <1>0, <1>1, <3>1, <3>3
          DEF Begin, TypeOK, LookupSound, Pending, Asking
    <3> QED BY <1>0, <1>1, <3>1, <3>4, OthersSound
            DEF Begin, KeysInv, TypeOK, Sightings, CacheSound
  <2>3. CASE ~(k \in cache.keys /\ Unexpired)
    <3>1. lookup' = [lookup EXCEPT ![l] = Waiting(r, FALSE)]
          BY <1>1, <2>3 DEF Begin
    <3>2. /\ Waiting(r, FALSE) \in Lookup
          /\ Waiting(r, FALSE).pc = "wait" /\ Waiting(r, FALSE).kid = k
      <4>1. r.excuse \in BOOLEAN /\ (r.kid \notin cache.keys \/ FALSE) \in BOOLEAN
            BY <2>1 DEF Lookup
      <4> HIDE DEF r
      <4>2. 0 \in Times
            BY DEF Times
      <4>3. Waiting(r, FALSE) \in Lookup
            BY <2>1, <4>1, <4>2, Blank DEF Waiting, Stages
      <4> QED BY <2>1, <4>3 DEF Waiting, NoLookup
    <3> HIDE DEF r
    <3>4. LookupSound(l)' /\ TypeOK'
          BY <1>0, <1>1, <3>1, <3>2
          DEF Begin, TypeOK, LookupSound, Pending, Asking
    <3> QED BY <1>0, <1>1, <3>1, <3>4, OthersSound
            DEF Begin, KeysInv, TypeOK, Sightings, CacheSound
  <2> QED BY <2>2, <2>3
<1>2. CASE SkipRefresh(l)
  <2>1. /\ Resolved(lookup[l], cache.keys) \in Lookup
        /\ Resolved(lookup[l], cache.keys).pc \in {"found", "missing", "wait"}
        /\ Resolved(lookup[l], cache.keys).kid \in Kids
        /\ Resolved(lookup[l], cache.keys).pc = "found" =>
              Resolved(lookup[l], cache.keys).age < TTL + MaxDelay
        BY <1>0, <1>2, <1>c, <1>m, ResolvedSound
        DEF SkipRefresh, FreshEnough, LookupSound, Pending
  <2>2. LookupSound(l)' /\ TypeOK'
        BY <1>0, <1>2, <2>1
        DEF SkipRefresh, TypeOK, LookupSound, Pending, Asking
  <2> QED BY <1>0, <1>2, <2>2, OthersSound
          DEF SkipRefresh, KeysInv, TypeOK, Sightings, CacheSound
<1>3. CASE Ask(l)
  <2> DEFINE r == [lookup[l] EXCEPT !.pc = "asking", !.since = now]
  <2>1. lookup' = [lookup EXCEPT ![l] = r]
        BY <1>0, <1>3 DEF Ask, TypeOK
  <2>2. r \in Lookup /\ r.kid \in Kids /\ r.pc = "asking" /\ r.since = now
        BY <1>0, <1>3 DEF Ask, LookupSound, Pending, TypeOK, Lookup, Stages
  <2> HIDE DEF r
  <2>3. TypeOK' /\ lookup'[l] = r
        BY <1>0, <1>3, <2>1, <2>2 DEF Ask, TypeOK
  <2>4. LookupSound(l)'
        BY <1>0, <1>3, <2>2, <2>3
        DEF Ask, LookupSound, CacheSound, Pending, Asking
  <2> QED BY <1>0, <1>3, <2>1, <2>3, <2>4, OthersSound
          DEF Ask, KeysInv, TypeOK, Sightings, CacheSound
<1>4. CASE Serve(l)
  <2> DEFINE r == [lookup[l] EXCEPT !.pc = "answering",
                                    !.answer = published, !.served = now]
  <2>1. lookup' = [lookup EXCEPT ![l] = r]
        BY <1>0, <1>4 DEF Serve, TypeOK
  <2>2. /\ r \in Lookup /\ r.kid = lookup[l].kid /\ r.pc = "answering"
        /\ r.since = lookup[l].since
        /\ r.served = now /\ r.answer = published
        BY <1>0 DEF TypeOK, Lookup, Stages
  <2> HIDE DEF r
  <2>3. TypeOK' /\ lookup'[l] = r
        BY <1>0, <1>4, <2>1, <2>2 DEF Serve, TypeOK
  <2>4. published \in SUBSET Kids
        BY <1>0 DEF TypeOK
  <2>5. LookupSound(l)'
    <3>1. /\ holder = l /\ lookup[l].since <= now
          /\ now <= lookup[l].since + MaxDelay
          /\ cache.served <= lookup[l].since /\ lookup[l].kid \in Kids
          BY <1>0, <1>4 DEF Serve, LookupSound, Pending, Asking
    <3>2. \A k \in published : now <= lastSeen[k]
          BY <1>0, <1>m, <2>4 DEF Sightings
    <3>3. UNCHANGED <<now, lastSeen, cache, holder>>
          BY <1>4 DEF Serve
    <3>4. now <= now
          BY <1>0
    <3> QED BY <2>2, <2>3, <3>1, <3>2, <3>3, <3>4
            DEF LookupSound, Pending, Asking
  <2> QED BY <1>0, <1>4, <2>1, <2>3, <2>5, OthersSound
          DEF Serve, KeysInv, TypeOK, Sightings, CacheSound
<1>5. CASE Receive(l)
  <2> DEFINE keys == lookup[l].answer
  <2>1. /\ keys \in SUBSET Kids /\ lookup[l].kid \in Kids /\ holder = l
        /\ \A k \in keys : lookup[l].served <= lastSeen[k]
        /\ lookup[l].served \in Times /\ lookup[l].served <= now
        /\ now <= lookup[l].served + MaxDelay
    <3>1. lookup[l].served \in Times
          BY <1>0 DEF Lookup
    <3> QED BY <1>0, <1>m, <1>5, <3>1
            DEF Receive, LookupSound, Pending, Asking
  <2>2. ASSUME NEW k \in keys PROVE now < lastSeen[k] + TTL + MaxDelay
    <3>1. k \in Kids /\ lookup[l].served <= lastSeen[k]
          BY <2>1
    <3> QED BY <1>0, <1>m, <2>1, <3>1
  <2>3. /\ Resolved(lookup[l], keys) \in Lookup
        /\ Resolved(lookup[l], keys).pc \in {"found", "missing", "wait"}
        /\ Resolved(lookup[l], keys).kid \in Kids
        /\ Resolved(lookup[l], keys).pc = "found" =>
              Resolved(lookup[l], keys).age < TTL + MaxDelay
        BY <1>0, <2>1, <2>2, ResolvedSound
  <2>4. LookupSound(l)' /\ TypeOK'
        BY <1>0, <1>5, <2>1, <2>3
        DEF Receive, TypeOK, Times, Cache, LookupSound, Pending, Asking
  <2>5. CacheSound'
        BY <1>0, <1>5, <2>1 DEF Receive, CacheSound, Times
  <2> QED BY <1>0, <1>5, <2>1, <2>4, <2>5, OthersSound
          DEF Receive, KeysInv, TypeOK, Sightings
<1>6. CASE Fail(l)
  <2> DEFINE r == [lookup[l] EXCEPT !.excuse = TRUE]
             s == IF cache.keys # {} /\ Unexpired
                     THEN Resolved(r, cache.keys)
                     ELSE Raised(r, "unavailable")
  <2>1. r \in Lookup /\ r.kid \in Kids /\ holder = l
        BY <1>0, <1>6 DEF Fail, Lookup, LookupSound, Pending, Asking
  <2>2. /\ s \in Lookup
        /\ s.pc \in {"found", "missing", "wait", "unavailable"}
        /\ s.kid \in Kids
        /\ s.pc = "found" => s.age < TTL + MaxDelay
    <3> HIDE DEF r
    <3>1. CASE cache.keys # {} /\ Unexpired
          BY <1>0, <1>c, <1>m, <2>1, <3>1, ResolvedSound
    <3>2. CASE ~(cache.keys # {} /\ Unexpired)
      <4>1. r.excuse \in BOOLEAN
            BY <2>1 DEF Lookup
      <4>2. /\ Raised(r, "unavailable") \in Lookup
            /\ Raised(r, "unavailable").pc = "unavailable"
            /\ Raised(r, "unavailable").kid = r.kid
        <5>1. 0 \in Times
              BY DEF Times
        <5>2. Raised(r, "unavailable") \in Lookup
              BY <2>1, <4>1, <5>1, Blank DEF Raised, Stages
        <5> QED BY <5>2 DEF Raised, NoLookup
      <4> QED BY <2>1, <3>2, <4>2
    <3> QED BY <3>1, <3>2
  <2>3. lookup' = [lookup EXCEPT ![l] = s]
        BY <1>6 DEF Fail
  <2> HIDE DEF s
  <2>4. LookupSound(l)' /\ TypeOK'
        BY <1>0, <1>6, <2>1, <2>2, <2>3
        DEF Fail, TypeOK, LookupSound, Pending, Asking
  <2> QED BY <1>0, <1>6, <2>1, <2>3, <2>4, OthersSound
          DEF Fail, KeysInv, TypeOK, Sightings, CacheSound
<1>7. CASE Cancel(l)
  <2>1. LookupSound(l)' /\ TypeOK'
        BY <1>0, <1>7 DEF Cancel, TypeOK, Times, Lookup, Stages, LookupSound,
                          NoLookup, Pending, Asking
  <2> QED BY <1>0, <1>7, <2>1, OthersSound
          DEF Cancel, KeysInv, TypeOK, Sightings, CacheSound
<1>8. CASE End(l)
  <2>1. LookupSound(l)' /\ TypeOK'
        BY <1>0, <1>8 DEF End, TypeOK, Times, Lookup, Stages, LookupSound,
                          NoLookup, Pending, Asking
  <2> QED BY <1>0, <1>8, <2>1, OthersSound
          DEF End, KeysInv, TypeOK, Sightings, CacheSound
<1> QED BY <1>1, <1>2, <1>3, <1>4, <1>5, <1>6, <1>7, <1>8

(* So it is inductive.                                                     *)
LEMMA NextKeys == KeysInv /\ [Next]_vars => KeysInv'
<1> SUFFICES ASSUME KeysInv, [Next]_vars PROVE KeysInv'
    OBVIOUS
<1>1. CASE Next
      BY <1>1, WorldKeys, LookupKeys DEF Next
<1>2. CASE UNCHANGED vars
      BY <1>2 DEF vars, KeysInv, TypeOK, Sightings, CacheSound, LookupSound,
                  Pending, Asking
<1> QED BY <1>1, <1>2

(* The state of the cache and of every lookup keeps its type.              *)
THEOREM KeysTyped == Spec => []TypeOK
<1>1. KeysInv => TypeOK
      BY DEF KeysInv
<1> QED BY <1>1, InitKeys, NextKeys, PTL DEF Spec

(* get_key never returns a key withdrawn TTL + MaxDelay ago or earlier,    *)
(* through rotations, outages, late answers and concurrent lookups.        *)
THEOREM FreshKeys == Spec => []ReturnedKeyFresh
<1>1. KeysInv => ReturnedKeyFresh
      BY DEF KeysInv, LookupSound, ReturnedKeyFresh
<1> QED BY <1>1, InitKeys, NextKeys, PTL DEF Spec

(* The lock keeps late answers from rolling the cache back.                *)
THEOREM AnswersInOrder == Spec => NoRollback
<1>1. KeysInv /\ [Next]_vars => [cache.served <= cache'.served]_vars
  <2> SUFFICES ASSUME KeysInv, Next PROVE cache.served <= cache'.served
      OBVIOUS
  <2>1. cache.served \in Nat
        BY DEF KeysInv, TypeOK, Cache, Times
  <2>2. ASSUME NEW l \in Lookups, Receive(l)
        PROVE  cache.served <= cache'.served
    <3>1. LookupSound(l) /\ lookup[l] \in Lookup
          BY DEF KeysInv, TypeOK
    <3> QED BY <2>1, <2>2, <3>1
            DEF Receive, LookupSound, Asking, Lookup, Times
  <2>3. CASE cache' = cache
        BY <2>1, <2>3
  <2> QED BY <2>2, <2>3 DEF Next, Tick, Rotate, Begin, SkipRefresh, Ask,
                            Serve, Fail, Cancel, End
<1> QED BY <1>1, InitKeys, NextKeys, PTL DEF Spec, NoRollback

-----------------------------------------------------------------------------
(* A lookup without an excuse asks for a key that is published, its answer *)
(* holds it, and its second refresh is a forced one: it asks by itself.    *)
Reason(l) ==
    /\ lookup[l].again => lookup[l].forced
    /\ Pending(l) /\ ~lookup[l].excuse => lookup[l].kid \in published
    /\ lookup[l].pc = "answering" /\ ~lookup[l].excuse =>
          lookup[l].kid \in lookup[l].answer
    /\ lookup[l].pc = "missing" => lookup[l].excuse

ReasonInv == TypeOK /\ \A l \in Lookups : Reason(l)

(* What a lookup resolves to keeps its excuse.                             *)
LEMMA ResolvedReason ==
    ASSUME NEW r, NEW keys,
           ~r.excuse => r.kid \in published,
           r.again /\ r.kid \notin keys => r.excuse
    PROVE  LET s == Resolved(r, keys) IN
           /\ s.again => s.forced
           /\ s.pc \in {"found", "missing", "wait"}
           /\ s.pc = "wait" /\ ~s.excuse => s.kid \in published
           /\ s.pc = "missing" => s.excuse
<1>1. CASE r.kid \in keys
      BY <1>1 DEF Resolved, Found, NoLookup
<1>2. CASE r.kid \notin keys /\ r.again
      BY <1>2 DEF Resolved, Raised, NoLookup
<1>3. CASE r.kid \notin keys /\ ~r.again
  <2>1. (r.kid \notin cache.keys \/ TRUE) = TRUE
        OBVIOUS
  <2> QED BY <1>3, <2>1 DEF Resolved, Waiting, NoLookup
<1> QED BY <1>1, <1>2, <1>3

(* Every step keeps the reasons.                                           *)
LEMMA NextReason == KeysInv /\ ReasonInv /\ [Next]_vars => ReasonInv'
<1> SUFFICES ASSUME KeysInv, ReasonInv, [Next]_vars PROVE ReasonInv'
    OBVIOUS
<1>0. TypeOK'
      BY NextKeys DEF KeysInv
<1> SUFFICES ASSUME NEW m \in Lookups PROVE Reason(m)'
    BY <1>0 DEF ReasonInv
<1>1. Reason(m) /\ lookup[m] \in Lookup /\ lookup \in [Lookups -> Lookup]
      BY DEF ReasonInv, TypeOK
<1>2. CASE UNCHANGED <<published, lookup>>
      BY <1>1, <1>2 DEF Reason, Pending
<1>3. ASSUME NEW keys \in SUBSET Kids, Rotate(keys) PROVE Reason(m)'
  <2>1. CASE lookup'[m] = lookup[m] /\ lookup[m].kid \in keys \cup {None}
    <3>1. Pending(m) => lookup[m].kid \in keys
          BY <2>1, NoneAssumption DEF KeysInv, LookupSound
    <3> QED BY <1>1, <1>3, <2>1, <3>1 DEF Reason, Pending, Rotate
  <2>2. CASE lookup'[m] = [lookup[m] EXCEPT !.excuse = TRUE]
    <3>1. /\ lookup'[m].excuse = TRUE
          /\ lookup'[m].again = lookup[m].again
          /\ lookup'[m].forced = lookup[m].forced
          BY <1>1, <2>2 DEF Lookup
    <3> QED BY <1>1, <3>1 DEF Reason
  <2> QED BY <1>3, <2>1, <2>2 DEF Rotate
<1>4. ASSUME NEW l \in Lookups, l # m,
             \/ \E k \in Kids : Begin(l, k)
             \/ SkipRefresh(l) \/ Ask(l) \/ Serve(l) \/ Receive(l) \/ Fail(l)
             \/ Cancel(l) \/ End(l)
      PROVE  Reason(m)'
  <2>1. lookup'[m] = lookup[m] /\ published' = published
        BY <1>1, <1>4 DEF Begin, SkipRefresh, Ask, Serve, Receive, Fail,
                          Cancel, End
  <2> QED BY <1>1, <2>1 DEF Reason, Pending
<1>5. ASSUME NEW k \in Kids, Begin(m, k) PROVE Reason(m)'
  <2> DEFINE r == [NoLookup EXCEPT !.kid = k, !.excuse = k \notin published]
  <2>1. \/ lookup'[m] = Found(r)
        \/ lookup'[m] = Waiting(r, FALSE)
        BY <1>1, <1>5 DEF Begin
  <2>2. r.kid = k /\ (~r.excuse => k \in published)
        BY DEF NoLookup
  <2>3. UNCHANGED published
        BY <1>5 DEF Begin
  <2> HIDE DEF r
  <2>4. CASE lookup'[m] = Found(r)
        BY <2>4 DEF Found, NoLookup, Reason, Pending
  <2>5. CASE lookup'[m] = Waiting(r, FALSE)
        BY <2>2, <2>3, <2>5 DEF Waiting, NoLookup, Reason, Pending
  <2> QED BY <2>1, <2>4, <2>5
<1>6. CASE SkipRefresh(m)
  <2>1. lookup'[m] = Resolved(lookup[m], cache.keys) /\ UNCHANGED published
        BY <1>1, <1>6 DEF SkipRefresh
  <2>2. ~lookup[m].again /\ (~lookup[m].excuse => lookup[m].kid \in published)
        BY <1>1, <1>6 DEF SkipRefresh, FreshEnough, Reason, Pending
  <2>3. ~lookup[m].excuse => lookup[m].kid \in published
        BY <2>2
  <2> QED BY <2>1, <2>2, <2>3, ResolvedReason DEF Reason, Pending
<1>7. CASE Ask(m)
  <2>1. /\ lookup'[m] = [lookup[m] EXCEPT !.pc = "asking", !.since = now]
        /\ UNCHANGED published /\ lookup[m].pc = "wait"
        BY <1>1, <1>7 DEF Ask
  <2>2. /\ lookup'[m].pc = "asking" /\ lookup'[m].kid = lookup[m].kid
        /\ lookup'[m].again = lookup[m].again
        /\ lookup'[m].forced = lookup[m].forced
        /\ lookup'[m].excuse = lookup[m].excuse
        BY <1>1, <2>1 DEF Lookup
  <2> QED BY <1>1, <2>1, <2>2 DEF Reason, Pending
<1>8. CASE Serve(m)
  <2>1. /\ lookup'[m] = [lookup[m] EXCEPT !.pc = "answering",
                                          !.answer = published, !.served = now]
        /\ UNCHANGED published /\ lookup[m].pc = "asking"
        BY <1>1, <1>8 DEF Serve
  <2>2. /\ lookup'[m].pc = "answering" /\ lookup'[m].kid = lookup[m].kid
        /\ lookup'[m].again = lookup[m].again
        /\ lookup'[m].forced = lookup[m].forced
        /\ lookup'[m].excuse = lookup[m].excuse
        /\ lookup'[m].answer = published
        BY <1>1, <2>1 DEF Lookup
  <2> QED BY <1>1, <2>1, <2>2 DEF Reason, Pending
<1>9. CASE Receive(m)
  <2>1. lookup'[m] = Resolved(lookup[m], lookup[m].answer) /\ UNCHANGED published
        BY <1>1, <1>9 DEF Receive
  <2>2. ~lookup[m].excuse => /\ lookup[m].kid \in published
                             /\ lookup[m].kid \in lookup[m].answer
        BY <1>1, <1>9 DEF Receive, Reason, Pending
  <2> QED BY <2>1, <2>2, ResolvedReason DEF Reason, Pending
<1>10. CASE Fail(m)
  <2> DEFINE r == [lookup[m] EXCEPT !.excuse = TRUE]
  <2>1. \/ lookup'[m] = Resolved(r, cache.keys)
        \/ lookup'[m] = Raised(r, "unavailable")
        BY <1>1, <1>10 DEF Fail
  <2>2. r.excuse = TRUE
        BY <1>1 DEF Lookup
  <2> HIDE DEF r
  <2>3. CASE lookup'[m] = Resolved(r, cache.keys)
    <3>1. r.excuse
          BY <2>2
    <3>2. LET s == Resolved(r, cache.keys) IN
          /\ s.again => s.forced
          /\ s.pc \in {"found", "missing", "wait"}
          /\ s.pc = "wait" /\ ~s.excuse => s.kid \in published
          /\ s.pc = "missing" => s.excuse
          BY <3>1, ResolvedReason
    <3>3. UNCHANGED published
          BY <1>10 DEF Fail
    <3> QED BY <2>3, <3>2, <3>3 DEF Reason, Pending
  <2>4. CASE lookup'[m] = Raised(r, "unavailable")
        BY <2>4 DEF Raised, NoLookup, Reason, Pending
  <2> QED BY <2>1, <2>3, <2>4
<1>11. CASE Cancel(m) \/ End(m)
  <2>1. lookup'[m] = NoLookup
        BY <1>1, <1>11 DEF Cancel, End
  <2> QED BY <2>1 DEF NoLookup, Reason, Pending
<1> QED BY <1>2, <1>3, <1>4, <1>5, <1>6, <1>7, <1>8, <1>9, <1>10, <1>11
        DEF Next, Tick, vars

(* get_key denies a key only if the provider did not publish it throughout *)
(* the lookup or failed to answer: the second, forced refresh is enough to *)
(* see a rotation that was over when the token came.                       *)
THEOREM MissingIsJustified == Spec => []MissingHasReason
<1>1. Init => ReasonInv
  <2> SUFFICES ASSUME Init PROVE ReasonInv
      OBVIOUS
  <2>1. TypeOK
        BY InitKeys DEF KeysInv
  <2>2. ASSUME NEW l \in Lookups PROVE Reason(l)
        BY DEF Init, NoLookup, Reason, Pending
  <2> QED BY <2>1, <2>2 DEF ReasonInv
<1>2. ReasonInv => MissingHasReason
      BY DEF ReasonInv, Reason, MissingHasReason
<1> QED BY <1>1, <1>2, InitKeys, NextKeys, NextReason, PTL DEF Spec
=============================================================================
