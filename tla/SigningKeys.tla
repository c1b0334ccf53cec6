---------------------------- MODULE SigningKeys ----------------------------
(***************************************************************************)
(* The cache of the identity provider's signing keys: lookups that run     *)
(* beside each other, key rotation, outages and late answers.              *)
(*                                                                         *)
(* A key stands for its key identifier; `published` is what parsing keeps  *)
(* of the key set the provider serves.  A step runs from one await to the  *)
(* next.                                                                   *)
(***************************************************************************)
EXTENDS Naturals

CONSTANTS
    Kids,        \* key identifiers that tokens carry
    Lookups,     \* slots for calls of get_key
    TTL,         \* jwks_cache_ttl_seconds
    MaxDelay,    \* how late an answer may come: httpx's timeout bounds each
                 \* wait for data, so this is an assumption on the provider
    Horizon,     \* bound: the last second that is explored
    None         \* no lookup, no key

ASSUME TimesAssumption ==
    /\ TTL \in Nat \ {0} /\ MaxDelay \in Nat /\ Horizon \in Nat
ASSUME NoneAssumption == None \notin Lookups \cup Kids

VARIABLES
    now,        \* the clock
    published,  \* the keys the provider serves now
    lastSeen,   \* ghost: kid -> when it was last published
    cache,      \* _keys, _expires_at and the ghost `served`: when the
                \* provider handed these keys out
    holder,     \* the lookup that holds the lock
    lookup      \* slot -> a lookup: its counter and locals, and the ghosts
                \* age (of the key found) and excuse (why it may find none)

vars == <<now, published, lastSeen, cache, holder, lookup>>

Times  == 0..Horizon
Stages == {"idle", "wait", "asking", "answering",
           "found", "missing", "unavailable"}
Cache  == [keys : SUBSET Kids, expires : 0..(Horizon + TTL), served : Times]
Lookup == [pc : Stages, kid : Kids \cup {None}, forced : BOOLEAN, again : BOOLEAN,
           since : Times, answer : SUBSET Kids, served : Times,
           age : Times, excuse : BOOLEAN]

TypeOK ==
    /\ now       \in Times
    /\ published \in SUBSET Kids
    /\ lastSeen  \in [Kids -> Times]
    /\ cache     \in Cache
    /\ holder    \in Lookups \cup {None}
    /\ lookup    \in [Lookups -> Lookup]

NoLookup == [pc |-> "idle", kid |-> None, forced |-> FALSE, again |-> FALSE,
             since |-> 0, answer |-> {}, served |-> 0, age |-> 0,
             excuse |-> FALSE]

Init ==
    /\ now = 0
    /\ published \in SUBSET Kids
    /\ lastSeen  = [k \in Kids |-> 0]
    /\ cache     = [keys |-> {}, expires |-> 0, served |-> 0]
    /\ holder    = None
    /\ lookup    = [l \in Lookups |-> NoLookup]

-----------------------------------------------------------------------------
(* The world: time, and the provider.                                      *)

Pending(l) == lookup[l].pc \in {"wait", "asking", "answering"}
Asking(l)  == lookup[l].pc \in {"asking", "answering"}

Tick ==
    /\ now < Horizon
    /\ \A l \in Lookups : Asking(l) => now < lookup[l].since + MaxDelay
    /\ now' = now + 1
    /\ lastSeen' = [k \in Kids |-> IF k \in published THEN now + 1
                                                      ELSE lastSeen[k]]
    /\ UNCHANGED <<published, cache, holder, lookup>>

Rotate(keys) ==
    /\ published' = keys
    /\ lastSeen' = [k \in Kids |-> IF k \in keys THEN now ELSE lastSeen[k]]
    /\ lookup' = [l \in Lookups |->
                     IF lookup[l].kid \in keys \cup {None} THEN lookup[l]
                     ELSE [lookup[l] EXCEPT !.excuse = TRUE]]
    /\ UNCHANGED <<now, cache, holder>>

-----------------------------------------------------------------------------
(* get_key                                                                 *)

Unexpired == now < cache.expires

(* How a lookup ends: with the key, or with the exception `pc`.            *)
Raised(r, pc) == [NoLookup EXCEPT !.pc = pc, !.kid = r.kid,
                                  !.excuse = r.excuse]
Found(r) == [NoLookup EXCEPT !.pc = "found", !.kid = r.kid,
                             !.age = now - lastSeen[r.kid]]

Waiting(r, again) ==
    [NoLookup EXCEPT !.pc = "wait", !.kid = r.kid, !.excuse = r.excuse,
                     !.again = again, !.forced = r.kid \notin cache.keys \/ again]

Begin(l, k) ==
    /\ lookup[l].pc = "idle"
    /\ LET r == [NoLookup EXCEPT !.kid = k, !.excuse = k \notin published] IN
       lookup' = [lookup EXCEPT ![l] =
          IF k \in cache.keys /\ Unexpired THEN Found(r)
                                           ELSE Waiting(r, FALSE)]
    /\ UNCHANGED <<now, published, lastSeen, cache, holder>>

(* Wrong: there is no second, forced refresh.                              *)
ResolvedOnce(r, keys) ==
    IF r.kid \in keys THEN Found(r) ELSE Raised(r, "missing")

(* _refresh has returned and the keys are these; the dict is read at once. *)
Resolved(r, keys) ==
    IF r.kid \in keys THEN Found(r)
    ELSE IF r.again   THEN Raised(r, "missing")
    ELSE Waiting(r, TRUE)

(* _refresh, in the lock: another lookup may have filled the cache.        *)
FreshEnough(l) == ~lookup[l].forced /\ cache.keys # {} /\ Unexpired

SkipRefresh(l) ==
    /\ lookup[l].pc = "wait" /\ holder = None /\ FreshEnough(l)
    /\ lookup' = [lookup EXCEPT ![l] = Resolved(@, cache.keys)]
    /\ UNCHANGED <<now, published, lastSeen, cache, holder>>

(* Wrong: there is no lock.                                                *)
AskUnlocked(l) ==
    /\ lookup[l].pc = "wait" /\ ~FreshEnough(l)
    /\ lookup' = [lookup EXCEPT ![l].pc = "asking", ![l].since = now]
    /\ UNCHANGED <<now, published, lastSeen, cache, holder>>

Ask(l) ==
    /\ lookup[l].pc = "wait" /\ holder = None /\ ~FreshEnough(l)
    /\ holder' = l
    /\ lookup' = [lookup EXCEPT ![l].pc = "asking", ![l].since = now]
    /\ UNCHANGED <<now, published, lastSeen, cache>>

(* The provider answers with what it publishes at this moment.             *)
Serve(l) ==
    /\ lookup[l].pc = "asking"
    /\ lookup' = [lookup EXCEPT ![l].pc = "answering",
                                ![l].answer = published,
                                ![l].served = now]
    /\ UNCHANGED <<now, published, lastSeen, cache, holder>>

(* Wrong: the expiry is moved on instead of set anew.                      *)
ReceiveExtending(l) ==
    LET keys == lookup[l].answer IN
    /\ lookup[l].pc = "answering" /\ keys # {}
    /\ cache' = [keys |-> keys, expires |-> cache.expires + now + TTL,
                 served |-> lookup[l].served]
    /\ holder' = None
    /\ lookup' = [lookup EXCEPT ![l] = Resolved(@, keys)]
    /\ UNCHANGED <<now, published, lastSeen>>

Receive(l) ==
    LET keys == lookup[l].answer IN
    /\ lookup[l].pc = "answering" /\ keys # {}
    /\ cache' = [keys |-> keys, expires |-> now + TTL,
                 served |-> lookup[l].served]
    /\ holder' = None
    /\ lookup' = [lookup EXCEPT ![l] = Resolved(@, keys)]
    /\ UNCHANGED <<now, published, lastSeen>>

(* Wrong: during an outage the old keys are good for ever.                 *)
FailExpired(l) ==
    /\ Asking(l)
    /\ holder' = None
    /\ LET r == [lookup[l] EXCEPT !.excuse = TRUE] IN
       lookup' = [lookup EXCEPT ![l] =
          IF cache.keys # {} THEN Resolved(r, cache.keys)
                             ELSE Raised(r, "unavailable")]
    /\ UNCHANGED <<now, published, lastSeen, cache>>

(* No answer, an error, or no usable key in it.                            *)
Fail(l) ==
    /\ Asking(l)
    /\ holder' = None
    /\ LET r == [lookup[l] EXCEPT !.excuse = TRUE] IN
       lookup' = [lookup EXCEPT ![l] =
          IF cache.keys # {} /\ Unexpired
             THEN Resolved(r, cache.keys)
             ELSE Raised(r, "unavailable")]
    /\ UNCHANGED <<now, published, lastSeen, cache>>

(* The request is cancelled; `async with` lets the lock go.                *)
Cancel(l) ==
    /\ Pending(l)
    /\ holder' = IF holder = l THEN None ELSE holder
    /\ lookup' = [lookup EXCEPT ![l] = NoLookup]
    /\ UNCHANGED <<now, published, lastSeen, cache>>

End(l) ==
    /\ lookup[l].pc \in {"found", "missing", "unavailable"}
    /\ lookup' = [lookup EXCEPT ![l] = NoLookup]
    /\ UNCHANGED <<now, published, lastSeen, cache, holder>>

Next ==
    \/ Tick
    \/ \E keys \in SUBSET Kids : Rotate(keys)
    \/ \E l \in Lookups :
          \/ \E k \in Kids : Begin(l, k)
          \/ SkipRefresh(l) \/ Ask(l) \/ Serve(l) \/ Receive(l) \/ Fail(l)
          \/ Cancel(l) \/ End(l)

Spec == Init /\ [][Next]_vars

-----------------------------------------------------------------------------
(* Properties                                                              *)

(* A withdrawn key stops being trusted in time: a lookup never answers     *)
(* with a key that the provider has not published for TTL + MaxDelay, not  *)
(* even in an outage ("Never continue indefinitely with expired keys").    *)
ReturnedKeyFresh ==
    \A l \in Lookups : lookup[l].pc = "found" => lookup[l].age < TTL + MaxDelay

(* A lookup says that a key does not exist only when the provider did not  *)
(* publish it at some time during the lookup, or failed to answer it.      *)
MissingHasReason ==
    \A l \in Lookups : lookup[l].pc = "missing" => lookup[l].excuse

(* Answers are applied in the order in which they were given: a late one   *)
(* never brings back a key set that the cache had already moved past.      *)
NoRollback == [][cache.served <= cache'.served]_vars
=============================================================================
