------------------------------- MODULE ListCache -------------------------------
(***************************************************************************)
(* The read-through cache in front of the lists and details that           *)
(* PaymentService, RoomService and HotelService answer with.  The three    *)
(* services repeat one protocol: a list is cached under a key made of its  *)
(* filter, the key is added to a registry kept in the cache too, and a     *)
(* write deletes the registered keys and then the registry.  HotelService  *)
(* also caches details, under keys a write knows without a registry.       *)
(*                                                                         *)
(* A row is its version: an answer is what the tables held when it was     *)
(* read.  One registry is modelled; registries of different services, and  *)
(* of different hotels in RoomService, share no key.                       *)
(***************************************************************************)
EXTENDS Integers, FiniteSets

CONSTANTS
    Slots,          \* requests that may be in flight at the same time
    ListKeys,       \* keys of cached lists, one for each filter asked for
    DetailKeys,     \* keys of the cached details of one hotel
    None,           \* nothing is cached under the key
    Ttl,            \* CACHE_TTL, in ticks
    MaxWrites       \* bound: writes, of this service and of others together

VARIABLES
    rows,           \* version of the rows a list shows
    row,            \* version of the row the details show
    cache,          \* the answer cached under a key
    registry,       \* the keys in LIST_REGISTRY_KEY
    left,           \* ticks until the cache drops a key, or the registry
    req,            \* the request each slot is serving
    calm            \* history: no two requests have overlapped, none has died and no
                    \* other service has written

tables == <<rows, row>>
store  == <<cache, registry, left>>
vars   == <<tables, store, req, calm>>

Keys == ListKeys \cup DetailKeys

ASSUME CacheAssumption ==
    /\ ListKeys \cap DetailKeys = {}
    /\ "registry" \notin Keys
    /\ Ttl \in Nat \ {0}
    /\ MaxWrites \in Nat

Current(k) == IF k \in DetailKeys THEN row ELSE rows

\* keys: the key asked for, or keys still to delete; answer: what the query returned; known: the
\* registry as it was read.
Idle == [pc |-> "idle", keys |-> {}, answer |-> None, known |-> {}]

Start(s, r) ==
    /\ req[s] = Idle
    /\ req' = [req EXCEPT ![s] = r]
    /\ calm' = (calm /\ \A t \in Slots : req[t] = Idle)

Continue(s, r) == req' = [req EXCEPT ![s] = r] /\ UNCHANGED calm

Init ==
    /\ rows = 0 /\ row = 0
    /\ cache = [k \in Keys |-> None]
    /\ registry = {}
    /\ left = [k \in Keys \cup {"registry"} |-> 0]
    /\ req = [s \in Slots |-> Idle]
    /\ calm = TRUE

--------------------------------------------------------------------------------
\* Variant: a hit sets the answer again, and with it a new lifetime.
FindSliding(s, k) ==
    /\ Start(s, [Idle EXCEPT !.pc = IF cache[k] = None THEN "query" ELSE "set",
                             !.keys = {k}, !.answer = cache[k]])
    /\ UNCHANGED <<tables, store>>

\* findAll and findOne: a hit is answered from the cache and changes nothing.
Find(s, k) ==
    /\ cache[k] = None
    /\ Start(s, [Idle EXCEPT !.pc = "query", !.keys = {k}])
    /\ UNCHANGED <<tables, store>>

Query(s) ==
    /\ req[s].pc = "query"
    /\ \E k \in req[s].keys :
         Continue(s, [req[s] EXCEPT !.pc = "set", !.answer = Current(k)])
    /\ UNCHANGED <<tables, store>>

\* A list goes on to register its key; a detail is answered.
SetAnswer(s) ==
    /\ req[s].pc = "set"
    /\ \E k \in req[s].keys :
         /\ cache' = [cache EXCEPT ![k] = req[s].answer]
         /\ left' = [left EXCEPT ![k] = Ttl]
         /\ Continue(s, IF k \in ListKeys THEN [req[s] EXCEPT !.pc = "registryGet"] ELSE Idle)
    /\ UNCHANGED <<tables, registry>>

\* A key that is registered already is not registered again, so the registry keeps the
\* lifetime it has.
RegisterGet(s) ==
    /\ req[s].pc = "registryGet"
    /\ Continue(s, IF req[s].keys \subseteq registry THEN Idle
                   ELSE [req[s] EXCEPT !.pc = "registrySet", !.known = registry])
    /\ UNCHANGED <<tables, store>>

RegisterSet(s) ==
    /\ req[s].pc = "registrySet"
    /\ registry' = req[s].known \cup req[s].keys
    /\ left' = [left EXCEPT !["registry"] = Ttl]
    /\ Continue(s, Idle)
    /\ UNCHANGED <<tables, cache>>

--------------------------------------------------------------------------------
\* A create: the lists change, the details of the hotel that exists do not.
Create(s) ==
    /\ rows < MaxWrites
    /\ rows' = rows + 1
    /\ Start(s, [Idle EXCEPT !.pc = "invalidate"])
    /\ UNCHANGED <<row, store>>

\* Variant: the details are forgotten.
UpdateListsOnly(s) ==
    /\ rows < MaxWrites
    /\ rows' = rows + 1 /\ row' = rows + 1
    /\ Start(s, [Idle EXCEPT !.pc = "invalidate"])
    /\ UNCHANGED store

\* An update or a removal: the keys of the details are deleted while the registry is read.
Update(s) ==
    /\ rows < MaxWrites
    /\ rows' = rows + 1 /\ row' = rows + 1
    /\ Start(s, [Idle EXCEPT !.pc = "invalidate", !.keys = DetailKeys])
    /\ UNCHANGED store

InvalidateGet(s) ==
    /\ req[s].pc = "invalidate"
    /\ Continue(s, [req[s] EXCEPT !.pc = "delete", !.keys = @ \cup registry])
    /\ UNCHANGED <<tables, store>>

DeleteKey(s) ==
    /\ req[s].pc \in {"invalidate", "delete", "details"}
    /\ \E k \in req[s].keys :
         /\ cache' = [cache EXCEPT ![k] = None]
         /\ left' = [left EXCEPT ![k] = 0]
         /\ Continue(s, IF req[s].pc = "details" /\ req[s].keys = {k} THEN Idle
                        ELSE [req[s] EXCEPT !.keys = @ \ {k}])
    /\ UNCHANGED <<tables, registry>>

DeleteRegistry(s) ==
    /\ req[s].pc = "delete"
    /\ req[s].keys \cap ListKeys = {}
    /\ registry' = {}
    /\ left' = [left EXCEPT !["registry"] = 0]
    /\ Continue(s, IF req[s].keys = {} THEN Idle ELSE [req[s] EXCEPT !.pc = "details"])
    /\ UNCHANGED <<tables, cache>>

--------------------------------------------------------------------------------
\* Another service writes what the answers contain, and knows nothing of their cache:
\* BookingService sets rooms.status, RoomTypeService and RateOptionService edit what rooms
\* and hotels are joined with.
WriteElsewhere ==
    /\ rows < MaxWrites
    /\ rows' = rows + 1 /\ row' = rows + 1
    /\ calm' = FALSE
    /\ UNCHANGED <<store, req>>

\* Time passes in the cache: what has no tick left is gone.
Tick ==
    /\ \E k \in DOMAIN left : left[k] > 0
    /\ left' = [k \in DOMAIN left |-> IF left[k] > 0 THEN left[k] - 1 ELSE 0]
    /\ cache' = [k \in Keys |-> IF left'[k] = 0 THEN None ELSE cache[k]]
    /\ registry' = IF left'["registry"] = 0 THEN {} ELSE registry
    /\ UNCHANGED <<tables, req, calm>>

\* The cache answers with an error or not at all, or the process dies: what the request has
\* done stays.
RequestFails(s) ==
    /\ req[s] # Idle
    /\ calm' = FALSE
    /\ req' = [req EXCEPT ![s] = Idle]
    /\ UNCHANGED <<tables, store>>

Step(s) ==
    \/ Query(s) \/ SetAnswer(s) \/ RegisterGet(s) \/ RegisterSet(s)
    \/ InvalidateGet(s) \/ DeleteKey(s) \/ DeleteRegistry(s)

Next ==
    \/ \E s \in Slots : \/ \E k \in Keys : Find(s, k)
                        \/ Create(s) \/ Update(s)
                        \/ Step(s) \/ RequestFails(s)
    \/ WriteElsewhere
    \/ Tick

Spec == Init /\ [][Next]_vars

\* Node resumes every handler whose await is answered, and time passes.  Nothing makes a
\* request arrive, and nothing makes one succeed.
FairSpec == Spec /\ WF_vars(Tick) /\ \A s \in Slots : WF_vars(Step(s))

--------------------------------------------------------------------------------
\* A key nobody can delete any more, a list whose registry has expired, is the only one
\* that may answer with old rows, as long as no requests overlap, none dies and no other
\* service writes: all the rest of the cache shows what the service has written
\* (hotel.service.ts:258-261 and 286-304, payment.service.ts:352-375,
\* room.service.ts:287-304).
CalmIsFresh ==
    calm /\ (\A s \in Slots : req[s] = Idle) =>
        \A k \in DetailKeys \cup registry : cache[k] \in {None, Current(k)}

\* Whatever overlaps, dies half way or writes from another service, old answers do not
\* survive: once the writes are over, every cached answer becomes and stays the current
\* one (CACHE_TTL, hotel.service.ts:189-190).
EventuallyFresh == <>[](\A k \in Keys : cache[k] \in {None, Current(k)})

================================================================================
