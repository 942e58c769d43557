---------------------------- MODULE ListCacheProofs ----------------------------
(***************************************************************************)
(* What the caches answer while requests come one after another, proved    *)
(* for any number of keys, any lifetime and any number of writes: only a   *)
(* key the request in flight has still to delete is stale.                 *)
(***************************************************************************)
EXTENDS ListCache, TLAPS

Reading  == {"query", "set"}
Adding   == {"registryGet", "registrySet"}
Deleting == {"delete", "details"}

Request == [pc     : {"idle", "invalidate"} \cup Reading \cup Adding \cup Deleting,
            keys   : SUBSET Keys,
            answer : Nat \cup {None},
            known  : SUBSET ListKeys]

TypeInv ==
    /\ rows \in Nat /\ row \in Nat
    /\ cache \in [Keys -> Nat \cup {None}]
    /\ registry \subseteq ListKeys
    /\ req \in [Slots -> Request]
    /\ \A s \in Slots : /\ req[s].pc \in Reading => \E k \in Keys : req[s].keys = {k}
                        /\ req[s].pc \in Adding => req[s].keys \subseteq ListKeys

\* As long as calm, one slot at most is busy.
OneAtATime == calm => \A s, t \in Slots : req[s] # Idle /\ req[t] # Idle => s = t

Fresh(k) == cache[k] \in {None, Current(k)}

\* The keys a request has still to delete: every registered one before the registry is read.
Owed(r) ==
    {k \in Keys : \/ r.pc = "invalidate" /\ k \in ListKeys \cup r.keys
                  \/ r.pc \in Deleting /\ k \in r.keys}

\* What a request that reads holds is what the tables hold, and what it registers is fresh.
Held(r) ==
    /\ r.pc = "set" => \A k \in r.keys : r.answer = Current(k)
    /\ r.pc \in Adding => \A k \in r.keys : Fresh(k)
    /\ r.pc = "registrySet" => \A k \in r.known : Fresh(k)

HeldInv == calm => \A s \in Slots : Held(req[s])

StaleIsOwed ==
    calm => \A k \in DetailKeys \cup registry : Fresh(k) \/ \E s \in Slots : k \in Owed(req[s])

--------------------------------------------------------------------------------
\* What the steps of slot s do to its request.
Moves(s) ==
    /\ req' \in [Slots -> Request]
    /\ \A t \in Slots : t # s => req'[t] = req[t]

Begun(s) ==
    /\ Moves(s) /\ req[s] = Idle
    /\ calm' = (calm /\ \A t \in Slots : req[t] = Idle)

Going(s) == Moves(s) /\ req[s] # Idle /\ calm' = calm

LEMMA IdleTyped == Idle \in Request /\ Idle.pc = "idle"
BY DEF Idle, Request, Reading, Adding, Deleting

LEMMA IdlePc == ASSUME NEW r, r = Idle PROVE r.pc = "idle"
BY IdleTyped

LEMMA Puts ==
    ASSUME TypeInv, NEW s \in Slots, NEW r \in Request, req' = [req EXCEPT ![s] = r]
    PROVE  Moves(s) /\ req'[s] = r
BY DEF TypeInv, Moves

\* A suspended request that goes on.
LEMMA Goes ==
    ASSUME TypeInv, NEW s \in Slots, req[s].pc # "idle", NEW r \in Request, Continue(s, r)
    PROVE  Going(s) /\ req'[s] = r
BY IdleTyped, Puts DEF Continue, Going

LEMMA FindTo ==
    ASSUME TypeInv, NEW s \in Slots, NEW k \in Keys, Find(s, k)
    PROVE  /\ Begun(s) /\ req'[s].pc = "query" /\ req'[s].keys = {k}
           /\ UNCHANGED <<tables, store>>
<1> DEFINE r == [Idle EXCEPT !.pc = "query", !.keys = {k}]
<1>1. r \in Request /\ r.pc = "query" /\ r.keys = {k} BY DEF Idle, Request, Reading, Adding, Deleting
<1>2. /\ req[s] = Idle /\ req' = [req EXCEPT ![s] = r]
      /\ calm' = (calm /\ \A t \in Slots : req[t] = Idle)
      /\ UNCHANGED <<tables, store>>
  BY DEF Find, Start
<1>. HIDE DEF r
<1>. QED BY <1>1, <1>2, Puts DEF Begun

LEMMA WriteTo ==
    ASSUME TypeInv, NEW s \in Slots, Create(s) \/ Update(s)
    PROVE  /\ Begun(s) /\ req'[s].pc = "invalidate"
           /\ UNCHANGED store /\ rows' = rows + 1
           /\ \/ row' = row
              \/ row' = rows + 1 /\ req'[s].keys = DetailKeys
<1> DEFINE r == [Idle EXCEPT !.pc = "invalidate"]
           q == [Idle EXCEPT !.pc = "invalidate", !.keys = DetailKeys]
<1>1. r \in Request /\ r.pc = "invalidate" BY DEF Idle, Request, Reading, Adding, Deleting
<1>2. q \in Request /\ q.pc = "invalidate" /\ q.keys = DetailKeys
  BY DEF Idle, Request, Reading, Adding, Deleting, Keys
<1>3. CASE Create(s)
  <2>1. /\ req[s] = Idle /\ req' = [req EXCEPT ![s] = r]
        /\ calm' = (calm /\ \A t \in Slots : req[t] = Idle)
        /\ UNCHANGED <<row, store>> /\ rows' = rows + 1
    BY <1>3 DEF Create, Start
  <2>. HIDE DEF r
  <2>. QED BY <1>1, <2>1, Puts DEF Begun
<1>4. CASE Update(s)
  <2>1. /\ req[s] = Idle /\ req' = [req EXCEPT ![s] = q]
        /\ calm' = (calm /\ \A t \in Slots : req[t] = Idle)
        /\ UNCHANGED store /\ rows' = rows + 1 /\ row' = rows + 1
    BY <1>4 DEF Update, Start
  <2>. HIDE DEF q
  <2>. QED BY <1>2, <2>1, Puts DEF Begun
<1>. QED BY <1>3, <1>4

LEMMA ReadsNoneOrNat == TypeInv => \A k \in Keys : Current(k) \in Nat
BY DEF TypeInv, Current

LEMMA QueryTo ==
    ASSUME TypeInv, NEW s \in Slots, Query(s)
    PROVE  /\ Going(s) /\ req'[s].pc = "set" /\ req'[s].keys = req[s].keys
           /\ \A k \in req[s].keys : req'[s].answer = Current(k)
           /\ \E k \in Keys : req[s].keys = {k}
           /\ UNCHANGED <<tables, store>>
<1>1. PICK k \in Keys : req[s].keys = {k}
  BY DEF Query, TypeInv, Reading
<1> DEFINE x == req[s]
           c == Current(k)
           r == [x EXCEPT !.pc = "set", !.answer = c]
<1>2. x \in Request /\ c \in Nat BY ReadsNoneOrNat DEF TypeInv
<1>3. x.pc = "query" /\ Continue(s, r) /\ UNCHANGED <<tables, store>>
  BY <1>1 DEF Query
<1>. HIDE DEF x, c
<1>4. r \in Request BY <1>2 DEF Request, Reading
<1>5. r.pc = "set" /\ r.keys = x.keys /\ r.answer = c BY <1>2 DEF Request
<1>. HIDE DEF r
<1>6. Going(s) /\ req'[s] = r BY <1>3, <1>4, Goes DEF x
<1>. QED BY <1>1, <1>3, <1>5, <1>6 DEF x, c

LEMMA SetAnswerTo ==
    ASSUME TypeInv, NEW s \in Slots, SetAnswer(s)
    PROVE  /\ Going(s) /\ req[s].pc = "set"
           /\ \E k \in Keys : /\ req[s].keys = {k}
                              /\ cache' = [cache EXCEPT ![k] = req[s].answer]
                              /\ \/ k \notin ListKeys /\ req'[s] = Idle
                                 \/ /\ k \in ListKeys
                                    /\ req'[s].pc = "registryGet" /\ req'[s].keys = {k}
           /\ UNCHANGED <<tables, registry>>
<1>1. PICK k \in Keys : req[s].keys = {k}
  BY DEF SetAnswer, TypeInv, Reading
<1> DEFINE x == req[s]
           r == [x EXCEPT !.pc = "registryGet"]
<1>2. x \in Request BY DEF TypeInv
<1>3. /\ x.pc = "set" /\ UNCHANGED <<tables, registry>>
      /\ cache' = [cache EXCEPT ![k] = x.answer]
      /\ Continue(s, IF k \in ListKeys THEN r ELSE Idle)
  BY <1>1 DEF SetAnswer
<1>. HIDE DEF x
<1>4. r \in Request BY <1>2 DEF Request, Adding
<1>5. r.pc = "registryGet" /\ r.keys = x.keys BY <1>2 DEF Request
<1>. HIDE DEF r
<1>6. CASE k \in ListKeys
  <2>1. Going(s) /\ req'[s] = r BY <1>3, <1>4, <1>6, Goes DEF x
  <2>. QED BY <1>1, <1>3, <1>5, <1>6, <2>1 DEF x
<1>7. CASE k \notin ListKeys
  <2>1. Going(s) /\ req'[s] = Idle BY <1>3, <1>7, IdleTyped, Goes DEF x
  <2>. QED BY <1>1, <1>3, <1>7, <2>1 DEF x
<1>. QED BY <1>6, <1>7

LEMMA RegisterGetTo ==
    ASSUME TypeInv, NEW s \in Slots, RegisterGet(s)
    PROVE  /\ Going(s) /\ req[s].pc = "registryGet"
           /\ \/ req'[s] = Idle
              \/ /\ req'[s].pc = "registrySet" /\ req'[s].keys = req[s].keys
                 /\ req'[s].known = registry
           /\ UNCHANGED <<tables, store>>
<1> DEFINE x == req[s]
           r == [x EXCEPT !.pc = "registrySet", !.known = registry]
<1>2. x \in Request /\ registry \in SUBSET ListKeys BY DEF TypeInv
<1>3. /\ x.pc = "registryGet" /\ UNCHANGED <<tables, store>>
      /\ Continue(s, Idle) \/ Continue(s, r)
  BY DEF RegisterGet
<1>. HIDE DEF x
<1>4. r \in Request BY <1>2 DEF Request, Adding
<1>5. r.pc = "registrySet" /\ r.keys = x.keys /\ r.known = registry BY <1>2 DEF Request
<1>. HIDE DEF r
<1>6. Going(s) /\ (req'[s] = Idle \/ req'[s] = r) BY <1>3, <1>4, IdleTyped, Goes DEF x
<1>. QED BY <1>3, <1>5, <1>6 DEF x

LEMMA RegisterSetTo ==
    ASSUME TypeInv, NEW s \in Slots, RegisterSet(s)
    PROVE  /\ Going(s) /\ req[s].pc = "registrySet" /\ req'[s] = Idle
           /\ registry' = req[s].known \cup req[s].keys
           /\ UNCHANGED <<tables, cache>>
BY IdleTyped, Goes DEF RegisterSet

LEMMA InvalidateGetTo ==
    ASSUME TypeInv, NEW s \in Slots, InvalidateGet(s)
    PROVE  /\ Going(s) /\ req[s].pc = "invalidate"
           /\ req'[s].pc = "delete" /\ req'[s].keys = req[s].keys \cup registry
           /\ UNCHANGED <<tables, store>>
<1> DEFINE x == req[s]
           r == [x EXCEPT !.pc = "delete", !.keys = @ \cup registry]
<1>2. x \in Request /\ registry \in SUBSET Keys BY DEF TypeInv, Keys
<1>3. x.pc = "invalidate" /\ UNCHANGED <<tables, store>> /\ Continue(s, r)
  BY DEF InvalidateGet
<1>. HIDE DEF x
<1>4. r \in Request BY <1>2 DEF Request, Deleting
<1>5. r.pc = "delete" /\ r.keys = x.keys \cup registry BY <1>2 DEF Request
<1>. HIDE DEF r
<1>6. Going(s) /\ req'[s] = r BY <1>3, <1>4, Goes DEF x
<1>. QED BY <1>3, <1>5, <1>6 DEF x

LEMMA DeleteKeyTo ==
    ASSUME TypeInv, NEW s \in Slots, DeleteKey(s)
    PROVE  /\ Going(s) /\ req[s].pc \in {"invalidate"} \cup Deleting
           /\ \E k \in req[s].keys :
                /\ cache' = [cache EXCEPT ![k] = None]
                /\ \/ req[s].keys = {k} /\ req[s].pc \in Deleting /\ req'[s] = Idle
                   \/ req'[s].pc = req[s].pc /\ req'[s].keys = req[s].keys \ {k}
           /\ UNCHANGED <<tables, registry>>
<1>1. PICK k \in req[s].keys :
        /\ cache' = [cache EXCEPT ![k] = None]
        /\ Continue(s, IF req[s].pc = "details" /\ req[s].keys = {k} THEN Idle
                       ELSE [req[s] EXCEPT !.keys = @ \ {k}])
  BY DEF DeleteKey
<1> DEFINE x == req[s]
           r == [x EXCEPT !.keys = @ \ {k}]
<1>2. x \in Request BY DEF TypeInv
<1>3. /\ x.pc \in {"invalidate"} \cup Deleting /\ UNCHANGED <<tables, registry>>
      /\ \/ Continue(s, Idle) /\ x.pc \in Deleting /\ x.keys = {k}
         \/ Continue(s, r)
  BY <1>1 DEF DeleteKey, Deleting
<1>. HIDE DEF x
<1>4. r \in Request BY <1>2 DEF Request
<1>5. r.pc = x.pc /\ r.keys = x.keys \ {k} BY <1>2 DEF Request
<1>. HIDE DEF r
<1>6. x.pc # "idle" BY <1>3 DEF Deleting
<1>7. /\ Going(s)
      /\ \/ req'[s] = Idle /\ x.pc \in Deleting /\ x.keys = {k}
         \/ req'[s] = r
  BY <1>3, <1>4, <1>6, IdleTyped, Goes DEF x
<1>. QED BY <1>1, <1>3, <1>5, <1>7 DEF x

LEMMA DeleteRegistryTo ==
    ASSUME TypeInv, NEW s \in Slots, DeleteRegistry(s)
    PROVE  /\ Going(s) /\ req[s].pc = "delete" /\ registry' = {}
           /\ \/ req[s].keys = {} /\ req'[s] = Idle
              \/ req'[s].pc = "details" /\ req'[s].keys = req[s].keys
           /\ UNCHANGED <<tables, cache>>
<1> DEFINE x == req[s]
           r == [x EXCEPT !.pc = "details"]
<1>2. x \in Request BY DEF TypeInv
<1>3. /\ x.pc = "delete" /\ registry' = {} /\ UNCHANGED <<tables, cache>>
      /\ \/ Continue(s, Idle) /\ x.keys = {}
         \/ Continue(s, r)
  BY DEF DeleteRegistry
<1>. HIDE DEF x
<1>4. r \in Request BY <1>2 DEF Request, Deleting
<1>5. r.pc = "details" /\ r.keys = x.keys BY <1>2 DEF Request
<1>. HIDE DEF r
<1>6. Going(s) /\ ((req'[s] = Idle /\ x.keys = {}) \/ req'[s] = r)
  BY <1>3, <1>4, IdleTyped, Goes DEF x
<1>. QED BY <1>3, <1>5, <1>6 DEF x

LEMMA RequestFailsTo ==
    ASSUME TypeInv, NEW s \in Slots, RequestFails(s)
    PROVE  /\ Moves(s) /\ req'[s] = Idle /\ ~calm' /\ UNCHANGED <<tables, store>>
BY IdleTyped, Puts DEF RequestFails

LEMMA TickTo ==
    ASSUME TypeInv, Tick
    PROVE  /\ cache' \in [Keys -> Nat \cup {None}] /\ registry' \subseteq registry
           /\ \A k \in Keys : cache'[k] \in {None, cache[k]}
           /\ UNCHANGED <<tables, req, calm>>
BY DEF Tick, TypeInv

--------------------------------------------------------------------------------
\* The steps of requests.
Asking(s) == (\E k \in Keys : Find(s, k)) \/ Create(s) \/ Update(s)

LEMMA NextCases ==
    ASSUME [Next]_vars
    PROVE  \/ \E s \in Slots : Asking(s) \/ Step(s) \/ RequestFails(s)
           \/ WriteElsewhere \/ Tick \/ UNCHANGED vars
BY DEF Next, Asking

LEMMA AskingBegins ==
    ASSUME TypeInv, NEW s \in Slots, Asking(s)
    PROVE  Begun(s)
BY FindTo, WriteTo DEF Asking

LEMMA StepGoes ==
    ASSUME TypeInv, NEW s \in Slots, Step(s)
    PROVE  Going(s)
BY QueryTo, SetAnswerTo, RegisterGetTo, RegisterSetTo, InvalidateGetTo, DeleteKeyTo,
   DeleteRegistryTo DEF Step

\* The part of the type invariant about one request.
KeysFit(r) == /\ r.pc \in Reading => \E k \in Keys : r.keys = {k}
              /\ r.pc \in Adding => r.keys \subseteq ListKeys

LEMMA IdleFits == ASSUME NEW r, r = Idle PROVE KeysFit(r)
BY IdlePc DEF KeysFit, Reading, Adding

LEMMA TypeMoves ==
    ASSUME TypeInv, NEW s \in Slots, Moves(s), KeysFit(req'[s]),
           rows' \in Nat, row' \in Nat, cache' \in [Keys -> Nat \cup {None}],
           registry' \subseteq ListKeys
    PROVE  TypeInv'
BY DEF TypeInv, Moves, KeysFit

LEMMA TypeKept == TypeInv /\ [Next]_vars => TypeInv'
<1>. SUFFICES ASSUME TypeInv, [Next]_vars PROVE TypeInv'
  OBVIOUS
<1>0. /\ rows \in Nat /\ row \in Nat /\ cache \in [Keys -> Nat \cup {None}]
      /\ registry \subseteq ListKeys
  BY DEF TypeInv
<1>1. ASSUME NEW s \in Slots, Asking(s) PROVE TypeInv'
  <2>1. ASSUME NEW k \in Keys, Find(s, k) PROVE TypeInv'
    <3>1. KeysFit(req'[s]) BY <2>1, FindTo DEF KeysFit, Reading, Adding
    <3>. QED BY <1>0, <2>1, <3>1, FindTo, TypeMoves DEF Begun, tables, store
  <2>2. CASE Create(s) \/ Update(s)
    <3>1. KeysFit(req'[s]) BY <2>2, WriteTo DEF KeysFit, Reading, Adding
    <3>2. Moves(s) /\ rows' = rows + 1 /\ row' \in {row, rows + 1} /\ UNCHANGED store
      BY <2>2, WriteTo DEF Begun
    <3>3. rows' \in Nat /\ row' \in Nat BY <1>0, <3>2
    <3>. QED BY <1>0, <3>1, <3>2, <3>3, TypeMoves DEF store
  <2>. QED BY <1>1, <2>1, <2>2 DEF Asking
<1>2. ASSUME NEW s \in Slots, Step(s) PROVE TypeInv'
  <2>0. Moves(s) BY <1>2, StepGoes DEF Going
  <2>1. CASE Query(s)
    <3>1. KeysFit(req'[s]) BY <2>1, QueryTo DEF KeysFit, Reading, Adding
    <3>. QED BY <1>0, <2>0, <2>1, <3>1, QueryTo, TypeMoves DEF tables, store
  <2>2. CASE SetAnswer(s)
    <3>1. KeysFit(req'[s]) BY <2>2, SetAnswerTo, IdleFits DEF KeysFit, Reading, Adding
    <3>2. req[s].answer \in Nat \cup {None} BY DEF TypeInv, Request
    <3>3. cache' \in [Keys -> Nat \cup {None}] BY <1>0, <2>2, <3>2, SetAnswerTo
    <3>. QED BY <1>0, <2>0, <2>2, <3>1, <3>3, SetAnswerTo, TypeMoves DEF tables
  <2>3. CASE RegisterGet(s)
    <3>1. req[s].keys \subseteq ListKeys BY <2>3, RegisterGetTo DEF TypeInv, Adding
    <3>2. KeysFit(req'[s])
      BY <2>3, <3>1, RegisterGetTo, IdleFits DEF KeysFit, Reading, Adding
    <3>. QED BY <1>0, <2>0, <2>3, <3>2, RegisterGetTo, TypeMoves DEF tables, store
  <2>4. CASE RegisterSet(s)
    <3>1. req[s].keys \subseteq ListKeys /\ req[s].known \subseteq ListKeys
      BY <2>4, RegisterSetTo DEF TypeInv, Adding, Request
    <3>2. KeysFit(req'[s]) BY <2>4, RegisterSetTo, IdleFits
    <3>. QED BY <1>0, <2>0, <2>4, <3>1, <3>2, RegisterSetTo, TypeMoves DEF tables
  <2>5. CASE InvalidateGet(s)
    <3>1. KeysFit(req'[s]) BY <2>5, InvalidateGetTo DEF KeysFit, Reading, Adding
    <3>. QED BY <1>0, <2>0, <2>5, <3>1, InvalidateGetTo, TypeMoves DEF tables, store
  <2>6. CASE DeleteKey(s)
    <3>1. KeysFit(req'[s])
      BY <2>6, DeleteKeyTo, IdleFits DEF KeysFit, Reading, Adding, Deleting
    <3>2. cache' \in [Keys -> Nat \cup {None}] BY <1>0, <2>6, DeleteKeyTo
    <3>. QED BY <1>0, <2>0, <2>6, <3>1, <3>2, DeleteKeyTo, TypeMoves DEF tables
  <2>7. CASE DeleteRegistry(s)
    <3>1. KeysFit(req'[s])
      BY <2>7, DeleteRegistryTo, IdleFits DEF KeysFit, Reading, Adding
    <3>. QED BY <1>0, <2>0, <2>7, <3>1, DeleteRegistryTo, TypeMoves DEF tables
  <2>. QED BY <1>2, <2>1, <2>2, <2>3, <2>4, <2>5, <2>6, <2>7 DEF Step
<1>3. ASSUME NEW s \in Slots, RequestFails(s) PROVE TypeInv'
  <2>1. KeysFit(req'[s]) BY <1>3, RequestFailsTo, IdleFits
  <2>. QED BY <1>0, <1>3, <2>1, RequestFailsTo, TypeMoves DEF tables, store
<1>4. CASE WriteElsewhere BY <1>4 DEF WriteElsewhere, TypeInv, store
<1>5. CASE Tick BY <1>5, TickTo DEF TypeInv, tables
<1>6. CASE UNCHANGED vars BY <1>6 DEF vars, tables, store, TypeInv
<1>. QED BY <1>1, <1>2, <1>3, <1>4, <1>5, <1>6, NextCases

LEMMA TypeAtInit == Init => TypeInv
<1>. SUFFICES ASSUME Init PROVE TypeInv
  OBVIOUS
<1>1. \A s \in Slots : KeysFit(req[s]) BY IdleFits DEF Init
<1>2. req \in [Slots -> Request] BY IdleTyped DEF Init
<1>. QED BY <1>1, <1>2 DEF Init, TypeInv, KeysFit

--------------------------------------------------------------------------------
\* While calm, a step has the whole state to itself: no other slot is busy before or after it.
Lone(s) == calm /\ \A t \in Slots : t # s => req[t] = Idle /\ req'[t] = Idle

LEMMA LoneStep ==
    ASSUME TypeInv, OneAtATime, NEW s \in Slots, calm', Asking(s) \/ Step(s)
    PROVE  Lone(s)
<1>1. Begun(s) \/ Going(s) BY AskingBegins, StepGoes
<1>2. CASE Begun(s) BY <1>2 DEF Begun, Moves, Lone
<1>3. CASE Going(s) BY <1>3 DEF Going, Moves, Lone, OneAtATime
<1>. QED BY <1>1, <1>2, <1>3

LEMMA CalmCases ==
    ASSUME TypeInv, [Next]_vars, calm'
    PROVE  \/ \E s \in Slots : Asking(s) \/ Step(s)
           \/ Tick \/ UNCHANGED vars
BY NextCases, RequestFailsTo DEF WriteElsewhere

LEMMA OneAtATimeKept ==
    ASSUME TypeInv, OneAtATime, [Next]_vars
    PROVE  OneAtATime'
<1>. SUFFICES ASSUME calm' PROVE OneAtATime'
  BY DEF OneAtATime
<1>1. ASSUME NEW s \in Slots, Asking(s) \/ Step(s) PROVE OneAtATime'
  BY <1>1, LoneStep DEF Lone, OneAtATime
<1>2. CASE Tick BY <1>2, TickTo DEF OneAtATime
<1>3. CASE UNCHANGED vars BY <1>3 DEF vars, OneAtATime
<1>. QED BY <1>1, <1>2, <1>3, CalmCases

\* What an idle request holds and owes.
LEMMA IdleHolds ==
    ASSUME NEW r, r = Idle
    PROVE  Held(r) /\ Owed(r) = {}
BY IdlePc DEF Held, Owed, Adding, Deleting

LEMMA IdleHoldsNext ==
    ASSUME NEW s \in Slots, req'[s] = Idle
    PROVE  Held(req[s])' /\ Owed(req'[s]) = {}
<1>1. req'[s].pc = "idle" BY IdlePc
<1>. QED BY <1>1 DEF Held, Owed, Adding, Deleting

\* What a step of the only busy slot has to show.
LEMMA HeldMoves ==
    ASSUME NEW s \in Slots, Lone(s), Held(req[s])'
    PROVE  HeldInv'
<1>1. ASSUME NEW t \in Slots PROVE Held(req[t])'
  <2>1. CASE t = s BY <2>1
  <2>2. CASE t # s BY <2>2, IdleHoldsNext DEF Lone
  <2>. QED BY <2>1, <2>2
<1>. QED BY <1>1 DEF HeldInv

AllFresh(r) == \A k \in DetailKeys \cup registry : Fresh(k) \/ k \in Owed(r)

LEMMA OwedNow ==
    ASSUME NEW s \in Slots, Lone(s), StaleIsOwed
    PROVE  AllFresh(req[s])
<1>1. \A t \in Slots : t # s => Owed(req[t]) = {} BY IdleHolds DEF Lone
<1>. QED BY <1>1 DEF StaleIsOwed, AllFresh, Lone

LEMMA OwedMoves ==
    ASSUME NEW s \in Slots, AllFresh(req[s])'
    PROVE  StaleIsOwed'
BY DEF StaleIsOwed, AllFresh

LEMMA FreshStays ==
    ASSUME NEW k, cache'[k] \in {None, cache[k]}, UNCHANGED tables, Fresh(k)
    PROVE  Fresh(k)'
BY DEF Fresh, Current, tables

LEMMA KeysKnown ==
    ASSUME TypeInv
    PROVE  /\ DetailKeys \cup registry \subseteq Keys
           /\ \A s \in Slots : req[s].keys \subseteq Keys /\ req[s].known \subseteq Keys
BY DEF TypeInv, Request, Keys

LEMMA HeldKept ==
    ASSUME TypeInv, OneAtATime, HeldInv, StaleIsOwed, [Next]_vars
    PROVE  HeldInv'
<1>. SUFFICES ASSUME calm' PROVE HeldInv'
  BY DEF HeldInv
<1>1. ASSUME NEW s \in Slots, Asking(s) PROVE HeldInv'
  <2>1. req'[s].pc \in {"query", "invalidate"} BY <1>1, FindTo, WriteTo DEF Asking
  <2>2. Held(req[s])' BY <2>1 DEF Held, Adding
  <2>. QED BY <1>1, <2>2, LoneStep, HeldMoves
<1>2. ASSUME NEW s \in Slots, Step(s) PROVE HeldInv'
  <2>0. Lone(s) /\ Held(req[s]) /\ AllFresh(req[s])
    BY <1>2, LoneStep, OwedNow DEF HeldInv, Lone
  <2>1. CASE Query(s)
    <3>1. /\ req'[s].pc = "set" /\ req'[s].keys = req[s].keys /\ UNCHANGED tables
          /\ \A k \in req[s].keys : req'[s].answer = Current(k)
      BY <2>1, QueryTo
    <3>2. Held(req[s])' BY <3>1 DEF Held, Adding, Current, tables
    <3>. QED BY <2>0, <3>2, HeldMoves
  <2>2. CASE SetAnswer(s)
    <3>1. PICK k \in Keys :
            /\ req[s].pc = "set" /\ req[s].keys = {k} /\ UNCHANGED tables
            /\ cache' = [cache EXCEPT ![k] = req[s].answer]
            /\ \/ req'[s] = Idle
               \/ req'[s].pc = "registryGet" /\ req'[s].keys = {k}
      <4>1. req[s].pc = "set" /\ UNCHANGED tables BY <2>2, SetAnswerTo
      <4>2. PICK k \in Keys :
              /\ req[s].keys = {k}
              /\ cache' = [cache EXCEPT ![k] = req[s].answer]
              /\ \/ k \notin ListKeys /\ req'[s] = Idle
                 \/ k \in ListKeys /\ req'[s].pc = "registryGet" /\ req'[s].keys = {k}
        BY <2>2, SetAnswerTo
      <4>. QED BY <4>1, <4>2
    <3>2. Fresh(k)'
      BY <2>0, <3>1 DEF Held, Fresh, Current, tables, TypeInv
    <3>3. CASE req'[s] = Idle BY <2>0, <3>3, IdleHoldsNext, HeldMoves
    <3>4. CASE req'[s].pc = "registryGet" /\ req'[s].keys = {k}
      <4>1. Held(req[s])' BY <3>2, <3>4 DEF Held
      <4>. QED BY <2>0, <4>1, HeldMoves
    <3>. QED BY <3>1, <3>3, <3>4
  <2>3. CASE RegisterGet(s)
    <3>1. CASE req'[s] = Idle BY <2>0, <3>1, IdleHoldsNext, HeldMoves
    <3>2. CASE req'[s] # Idle
      <4>1. /\ req[s].pc = "registryGet" /\ UNCHANGED <<tables, store>>
            /\ req'[s].pc = "registrySet" /\ req'[s].keys = req[s].keys
            /\ req'[s].known = registry
        BY <2>3, <3>2, RegisterGetTo
      <4>2. \A k \in req[s].keys \cup registry : Fresh(k)
        BY <2>0, <4>1 DEF Held, AllFresh, Owed, Adding, Deleting
      <4>3. \A k : Fresh(k) => Fresh(k)' BY <4>1, FreshStays DEF store
      <4>4. Held(req[s])' BY <4>1, <4>2, <4>3 DEF Held
      <4>. QED BY <2>0, <4>4, HeldMoves
    <3>. QED BY <3>1, <3>2
  <2>4. CASE RegisterSet(s) BY <2>0, <2>4, RegisterSetTo, IdleHoldsNext, HeldMoves
  <2>5. CASE InvalidateGet(s) \/ DeleteKey(s) \/ DeleteRegistry(s)
    <3>1. req'[s] = Idle \/ req'[s].pc \in {"invalidate"} \cup Deleting
      BY <2>5, InvalidateGetTo, DeleteKeyTo, DeleteRegistryTo DEF Deleting
    <3>2. CASE req'[s] = Idle BY <2>0, <3>2, IdleHoldsNext, HeldMoves
    <3>3. CASE req'[s].pc \in {"invalidate"} \cup Deleting
      <4>1. Held(req[s])' BY <3>3 DEF Held, Adding, Deleting
      <4>. QED BY <2>0, <4>1, HeldMoves
    <3>. QED BY <3>1, <3>2, <3>3
  <2>. QED BY <1>2, <2>1, <2>2, <2>3, <2>4, <2>5 DEF Step
<1>3. CASE Tick
  <2>1. UNCHANGED <<tables, req, calm>> BY <1>3, TickTo
  <2>2. \A k \in Keys : Fresh(k) => Fresh(k)' BY <1>3, TickTo, FreshStays
  <2>3. ASSUME NEW s \in Slots PROVE Held(req[s])'
    <3>1. Held(req[s]) BY <2>1 DEF HeldInv
    <3>2. req[s].keys \subseteq Keys /\ req[s].known \subseteq Keys BY KeysKnown
    <3>. QED BY <2>1, <2>2, <3>1, <3>2 DEF Held, Current, tables
  <2>. QED BY <2>3 DEF HeldInv
<1>4. CASE UNCHANGED vars
  BY <1>4 DEF vars, tables, store, HeldInv, Held, Fresh, Current
<1>. QED BY <1>1, <1>2, <1>3, <1>4, CalmCases

LEMMA StaleKept ==
    ASSUME TypeInv, OneAtATime, HeldInv, StaleIsOwed, [Next]_vars
    PROVE  StaleIsOwed'
<1>. SUFFICES ASSUME calm' PROVE StaleIsOwed'
  BY DEF StaleIsOwed
<1>0. DetailKeys \subseteq Keys /\ DetailKeys \cap ListKeys = {} /\ Keys = ListKeys \cup DetailKeys
  BY CacheAssumption DEF Keys
<1>1. ASSUME NEW s \in Slots, Asking(s) PROVE StaleIsOwed'
  <2>0. Lone(s) /\ AllFresh(req[s]) /\ req[s] = Idle
    BY <1>1, LoneStep, OwedNow, AskingBegins DEF Begun
  <2>1. \A k \in DetailKeys \cup registry : Fresh(k)
    BY <2>0, IdleHolds DEF AllFresh
  <2>2. ASSUME NEW k \in Keys, Find(s, k) PROVE StaleIsOwed'
    <3>1. UNCHANGED <<tables, store>> BY <2>2, FindTo
    <3>2. AllFresh(req[s])' BY <2>1, <3>1 DEF AllFresh, Fresh, Current, tables, store
    <3>. QED BY <3>2, OwedMoves
  <2>3. CASE Create(s) \/ Update(s)
    <3>1. /\ req'[s].pc = "invalidate" /\ UNCHANGED store
          /\ row' = row \/ req'[s].keys = DetailKeys
      BY <2>3, WriteTo
    <3>2. registry \subseteq ListKeys BY DEF TypeInv
    <3>3. \A k \in registry : k \in Owed(req'[s]) BY <1>0, <3>1, <3>2 DEF Owed
    <3>4. \A k \in DetailKeys : Fresh(k)' \/ k \in Owed(req'[s])
      BY <1>0, <2>1, <3>1 DEF Owed, Fresh, Current, store
    <3>5. AllFresh(req[s])' BY <3>1, <3>3, <3>4 DEF AllFresh, store, Owed
    <3>. QED BY <3>5, OwedMoves
  <2>. QED BY <1>1, <2>2, <2>3 DEF Asking
<1>2. ASSUME NEW s \in Slots, Step(s) PROVE StaleIsOwed'
  <2>0. Lone(s) /\ Held(req[s]) /\ AllFresh(req[s])
    BY <1>2, LoneStep, OwedNow DEF HeldInv, Lone
  <2>a. Owed(req[s])' = Owed(req'[s]) BY DEF Owed
  <2>b. DetailKeys \cup registry \subseteq Keys BY KeysKnown
  <2>1. CASE Query(s) \/ RegisterGet(s)
    <3>1. req[s].pc \in {"query", "registryGet"} /\ UNCHANGED <<tables, store>>
      BY <2>1, QueryTo, RegisterGetTo DEF Query
    <3>2. \A k \in DetailKeys \cup registry : Fresh(k)
      BY <2>0, <3>1 DEF AllFresh, Owed, Deleting
    <3>3. AllFresh(req[s])' BY <3>1, <3>2 DEF AllFresh, Fresh, Current, tables, store
    <3>. QED BY <3>3, OwedMoves
  <2>2. CASE SetAnswer(s)
    <3>1. PICK k \in Keys :
            /\ req[s].pc = "set" /\ req[s].keys = {k} /\ UNCHANGED <<tables, registry>>
            /\ cache' = [cache EXCEPT ![k] = req[s].answer]
      BY <2>2, SetAnswerTo
    <3>2. \A j \in DetailKeys \cup registry : Fresh(j)
      BY <2>0, <3>1 DEF AllFresh, Owed, Deleting
    <3>3. Fresh(k)' BY <2>0, <3>1 DEF Held, Fresh, Current, tables, TypeInv
    <3>4. \A j \in DetailKeys \cup registry : j # k => Fresh(j)'
      BY <2>b, <3>1, <3>2 DEF TypeInv, Fresh, Current, tables
    <3>5. AllFresh(req[s])' BY <3>1, <3>3, <3>4 DEF AllFresh
    <3>. QED BY <3>5, OwedMoves
  <2>3. CASE RegisterSet(s)
    <3>1. /\ req[s].pc = "registrySet" /\ UNCHANGED <<tables, cache>>
          /\ registry' = req[s].known \cup req[s].keys
      BY <2>3, RegisterSetTo
    <3>2. \A k \in DetailKeys \cup registry' : Fresh(k)
      BY <2>0, <3>1 DEF AllFresh, Held, Owed, Adding, Deleting
    <3>3. AllFresh(req[s])' BY <3>1, <3>2 DEF AllFresh, Fresh, Current, tables
    <3>. QED BY <3>3, OwedMoves
  <2>4. CASE InvalidateGet(s)
    <3>1. /\ req[s].pc = "invalidate" /\ req'[s].pc = "delete"
          /\ req'[s].keys = req[s].keys \cup registry /\ UNCHANGED <<tables, store>>
      BY <2>4, InvalidateGetTo
    <3>2. \A k \in DetailKeys \cup registry :
            k \in Owed(req[s]) => k \in Owed(req'[s])
      BY <1>0, <3>1 DEF Owed, Deleting
    <3>3. AllFresh(req[s])'
      BY <2>0, <2>a, <3>1, <3>2 DEF AllFresh, Fresh, Current, tables, store
    <3>. QED BY <3>3, OwedMoves
  <2>5. CASE DeleteKey(s)
    <3>1. PICK k \in req[s].keys :
            /\ cache' = [cache EXCEPT ![k] = None]
            /\ \/ req[s].keys = {k} /\ req[s].pc \in Deleting /\ req'[s] = Idle
               \/ req'[s].pc = req[s].pc /\ req'[s].keys = req[s].keys \ {k}
            /\ UNCHANGED <<tables, registry>>
      BY <2>5, DeleteKeyTo
    <3>2. k \in Keys BY KeysKnown
    <3>3. Fresh(k)' BY <3>1, <3>2 DEF Fresh, TypeInv
    <3>4. \A j \in Keys : j # k /\ Fresh(j) => Fresh(j)'
      BY <3>1 DEF Fresh, Current, tables, TypeInv
    <3>5. ASSUME NEW j \in Owed(req[s]), j # k, j \in DetailKeys \cup registry
          PROVE  j \in Owed(req'[s])
      <4>1. CASE req[s].keys = {k} /\ req[s].pc \in Deleting
        BY <3>5, <4>1 DEF Owed, Deleting
      <4>2. CASE req'[s].pc = req[s].pc /\ req'[s].keys = req[s].keys \ {k}
        BY <3>5, <4>2 DEF Owed
      <4>. QED BY <3>1, <4>1, <4>2
    <3>6. AllFresh(req[s])'
      BY <2>0, <2>a, <2>b, <3>1, <3>3, <3>4, <3>5 DEF AllFresh
    <3>. QED BY <3>6, OwedMoves
  <2>6. CASE DeleteRegistry(s)
    <3>1. /\ req[s].pc = "delete" /\ registry' = {} /\ UNCHANGED <<tables, cache>>
          /\ \/ req[s].keys = {}
             \/ req'[s].pc = "details" /\ req'[s].keys = req[s].keys
      BY <2>6, DeleteRegistryTo
    <3>2. \A k \in Owed(req[s]) : k \in Owed(req'[s])
      BY <3>1 DEF Owed, Deleting
    <3>3. \A k : Fresh(k) => Fresh(k)' BY <3>1 DEF Fresh, Current, tables
    <3>4. AllFresh(req[s])' BY <2>0, <2>a, <3>1, <3>2, <3>3 DEF AllFresh
    <3>. QED BY <3>4, OwedMoves
  <2>. QED BY <1>2, <2>1, <2>2, <2>3, <2>4, <2>5, <2>6 DEF Step
<1>3. CASE Tick
  <2>1. UNCHANGED <<tables, req, calm>> /\ registry' \subseteq registry BY <1>3, TickTo
  <2>2. \A k \in Keys : Fresh(k) => Fresh(k)' BY <1>3, TickTo, FreshStays
  <2>3. \A k \in DetailKeys \cup registry : Fresh(k) \/ \E s \in Slots : k \in Owed(req[s])
    BY <2>1 DEF StaleIsOwed
  <2>4. \A s \in Slots : Owed(req[s])' = Owed(req[s]) BY <2>1 DEF Owed
  <2>. QED BY <2>1, <2>2, <2>3, <2>4, KeysKnown DEF StaleIsOwed
<1>4. CASE UNCHANGED vars
  BY <1>4 DEF vars, tables, store, StaleIsOwed, Fresh, Current, Owed
<1>. QED BY <1>1, <1>2, <1>3, <1>4, CalmCases

--------------------------------------------------------------------------------
ListCacheInv == TypeInv /\ OneAtATime /\ HeldInv /\ StaleIsOwed

LEMMA ListCacheInvAtInit == Init => ListCacheInv
<1>. SUFFICES ASSUME Init PROVE ListCacheInv
  OBVIOUS
<1>1. TypeInv BY TypeAtInit
<1>2. \A s \in Slots : req[s] = Idle BY DEF Init
<1>3. OneAtATime BY <1>2 DEF OneAtATime
<1>4. HeldInv BY <1>2, IdleHolds DEF HeldInv
<1>5. \A k \in DetailKeys \cup registry : Fresh(k) BY DEF Init, Fresh, Keys
<1>6. StaleIsOwed BY <1>5 DEF StaleIsOwed
<1>. QED BY <1>1, <1>3, <1>4, <1>6 DEF ListCacheInv

\* However keys expire, while requests do not overlap, none dies and no other service writes,
\* only what the request in flight has still to delete is stale (hotel.service.ts:286-304).
THEOREM OnlyOwedIsStale == Spec => []ListCacheInv
<1>1. ListCacheInv /\ [Next]_vars => ListCacheInv'
  BY TypeKept, OneAtATimeKept, HeldKept, StaleKept DEF ListCacheInv
<1>. QED BY <1>1, ListCacheInvAtInit, PTL DEF Spec

\* So between requests every registered list and every detail in the cache is what the service
\* has written (hotel.service.ts:258-261 and 286-304, payment.service.ts:352-375,
\* room.service.ts:287-304).
THEOREM CacheIsFresh == Spec => []CalmIsFresh
<1>1. ASSUME ListCacheInv PROVE CalmIsFresh
  <2>. SUFFICES ASSUME calm, \A s \in Slots : req[s] = Idle
                PROVE  \A k \in DetailKeys \cup registry : Fresh(k)
    BY DEF CalmIsFresh, Fresh
  <2>1. \A s \in Slots : Owed(req[s]) = {} BY IdleHolds
  <2>. QED BY <1>1, <2>1 DEF ListCacheInv, StaleIsOwed
<1>. QED BY <1>1, OnlyOwedIsStale, PTL
================================================================================
