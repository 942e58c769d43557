------------------------------ MODULE SeedingProofs ------------------------------
(***************************************************************************)
(* Proofs about Seeding: runs that do not overlap make no second row of a  *)
(* natural key, a room is of a type of its own hotel however runs overlap, *)
(* and a run left alone ends well unless there are duplicates, whatever    *)
(* the plans and however many the processes.                               *)
(***************************************************************************)
EXTENDS Seeding, FiniteSetTheorems, FunctionTheorems, TLAPS

AllEntries == UNION {{Plans[p][k] : k \in 1..Len(Plans[p])} : p \in DOMAIN Plans}

SomeScene == [plan : DOMAIN Plans, runs : SUBSET Runs, dies : Nat, edits : Nat, clears : Nat]

Names == {None} \cup UNION {e.names : e \in AllEntries}

Rows == [table : {e.table : e \in AllEntries},
         name  : Names,
         refs  : UNION {[DOMAIN e.refs -> Nat] : e \in AllEntries},
         state : {"LIVE", "REMOVED", "GONE"}]

Memories == UNION {[L -> Nat] : L \in SUBSET {e.label : e \in AllEntries}}

Processes == [pc : {"off", "query", "save", "done", "failed", "died"}, at : Nat,
              mem : Memories, alone : BOOLEAN]

TypeInv ==
    /\ scene \in SomeScene
    /\ row \in Seq(Rows)
    /\ run \in [Runs -> Processes]
    /\ overlapped \in BOOLEAN

\* What a run holds: a row for every label that the entries behind it gave.
HeldInv ==
    \A n \in Runs :
        /\ Active(n) => run[n].at \in 1..Len(Entries)
        /\ \A j \in 1..(run[n].at - 1) :
              Entries[j].label # None => Entries[j].label \in DOMAIN run[n].mem
        /\ \A l \in DOMAIN run[n].mem : run[n].mem[l] \in DOMAIN row

\* Only what was looked for and is to be ensured is saved.
SavingInv == \A n \in Runs : run[n].pc = "save" => ~Entry(n).find

\* A run that is to ensure a room holds a type of the room's hotel.
TypeFoundInv ==
    \A n \in Runs : Active(n) /\ Entry(n).table = "rooms" /\ ~Entry(n).find =>
        row[run[n].mem[Entry(n).refs["roomTypeId"]]].refs["hotelId"]
            = run[n].mem[Entry(n).refs["hotelId"]]

\* Every room is of a type of its hotel, also one that was deleted.
RoomInv ==
    \A i \in DOMAIN row : row[i].table = "rooms" =>
        /\ {"hotelId", "roomTypeId"} \subseteq DOMAIN row[i].refs
        /\ row[i].refs["roomTypeId"] \in DOMAIN row
        /\ row[row[i].refs["roomTypeId"]].refs["hotelId"] = row[i].refs["hotelId"]

\* Unless runs overlapped, one is active at most, what it is about to save is still missing,
\* and no two rows that staff left alone have one key.
OneRunInv == ~overlapped => \A m, n \in Runs : Active(m) /\ Active(n) => m = n

MissingInv == ~overlapped =>
    \A n \in Runs : run[n].pc = "save" => Found(Entry(n), run[n].mem) = {}

OneKeyInv == ~overlapped => \A i, j \in SeededRows : Key(i) = Key(j) => i = j

SeedingInv ==
    /\ TypeInv /\ HeldInv /\ SavingInv
    /\ TypeFoundInv /\ RoomInv
    /\ OneRunInv /\ MissingInv /\ OneKeyInv

--------------------------------------------------------------------------------
(* What the steps do, seen from the runs and the rows.                       *)

Same(n) == /\ run'[n].pc = run[n].pc /\ run'[n].at = run[n].at /\ run'[n].mem = run[n].mem

Others(n) == \A m \in Runs \ {n} : Same(m)

\* Rows are worn: staff and the cleaner never change table or references, never revive a row,
\* soft-delete administrators only, and give no name but None, to a hotel.
Worn ==
    /\ DOMAIN row' = DOMAIN row
    /\ \A i \in DOMAIN row :
          /\ row'[i].table = row[i].table /\ row'[i].refs = row[i].refs
          /\ row'[i].state = "LIVE" => row[i].state = "LIVE"
          /\ row'[i].state = "REMOVED" => row[i].state = "REMOVED" \/ row[i].table = "admins"
          /\ row'[i].name = row[i].name \/ (row[i].table = "hotels" /\ row'[i].name = None)

\* Run n stops; run n begins; it goes on with row i; it has to save; all runs stay.
Stopped(n) == /\ ~Active(n)' /\ run'[n].pc \notin {"query", "save"}
              /\ run'[n].at = 0 /\ DOMAIN run'[n].mem = {} /\ Others(n)

Aborted(n) == /\ Stopped(n) /\ run'[n].pc = "failed" /\ row' = row /\ overlapped' = overlapped

Begun(n) == /\ ~Active(n) /\ run'[n].pc = "query" /\ run'[n].at = 1
            /\ DOMAIN run'[n].mem = {} /\ Others(n)
            /\ ~overlapped' => ~overlapped /\ \A m \in Runs : ~Active(m)

Went(n, i) ==
    /\ Active(n) /\ Others(n)
    /\ run'[n].mem = Holding(run[n].mem, Entry(n).label, i)
    /\ \/ run'[n].pc = "done" /\ run'[n].at = 0 /\ run[n].at = Len(Entries)
       \/ run'[n].pc = "query" /\ run'[n].at = run[n].at + 1 /\ run[n].at < Len(Entries)

Missed(n) == /\ run[n].pc = "query" /\ ~Entry(n).find /\ Found(Entry(n), run[n].mem) = {}
             /\ run'[n].pc = "save" /\ run'[n].at = run[n].at /\ run'[n].mem = run[n].mem
             /\ Others(n)

Fits(n, new) ==
    /\ new.table = Entry(n).table /\ new.name \in Entry(n).names /\ new.state = "LIVE"
    /\ new.refs = [c \in DOMAIN Entry(n).refs |-> run[n].mem[Entry(n).refs[c]]]

\* A unique index or a foreign key is against the entry of run n.
Refused(n) ==
    \/ \E i \in WithKey(Entry(n), run[n].mem) : row[i].state # "GONE"
    \/ \E c \in DOMAIN Entry(n).refs : row[run[n].mem[Entry(n).refs[c]]].state = "GONE"

Seen(n) == /\ run[n].pc = "query" /\ row' = row /\ overlapped' = overlapped
           /\ \E i \in Found(Entry(n), run[n].mem) : Went(n, i)

Saved(n) == /\ run[n].pc = "save" /\ overlapped' = overlapped
            /\ \E new \in Rows : Fits(n, new) /\ row' = Append(row, new)
            /\ Went(n, Len(row) + 1)

Kind ==
    \/ \E n \in Runs : Begun(n) /\ row' = row
    \/ \E n \in Runs : Stopped(n) /\ row' = row /\ overlapped' = overlapped
    \/ \E n \in Runs : Missed(n) /\ row' = row /\ overlapped' = overlapped
    \/ \E n \in Runs : Seen(n)
    \/ \E n \in Runs : Saved(n)
    \/ Worn /\ (\A n \in Runs : Same(n)) /\ overlapped' = overlapped

\* The entries are those of the plan, as SeedingAssumption has them.
LEMMA EntryFacts ==
    ASSUME TypeInv
    PROVE  /\ Len(Entries) \in Nat \ {0} /\ DOMAIN Entries = 1..Len(Entries)
           /\ \A k \in 1..Len(Entries) :
                 /\ Entries[k] \in AllEntries
                 /\ HoldsRefs(Entries, k) /\ HasName(Entries[k]) /\ FindsTypeFirst(Entries, k)
                 /\ EnsuredBefore(Entries, k) /\ MeansTheSame(Entries, k)
<1>1. scene.plan \in DOMAIN Plans
  BY DEF TypeInv, SomeScene
<1>2. \A k \in 1..Len(Entries) : Entries[k] \in AllEntries
  BY <1>1 DEF Entries, AllEntries
<1> QED BY <1>1, <1>2, SeedingAssumption DEF Entries

\* An entry of an active run is one of the plan's.
LEMMA ActiveEntry ==
    ASSUME TypeInv, HeldInv, NEW n \in Runs, Active(n)
    PROVE  /\ run[n].at \in 1..Len(Entries) /\ Entry(n) = Entries[run[n].at]
           /\ Entry(n) \in AllEntries
           /\ HoldsRefs(Entries, run[n].at) /\ HasName(Entry(n))
           /\ FindsTypeFirst(Entries, run[n].at)
BY EntryFacts DEF HeldInv, Entry

\* All labels an active run's entry uses are held, as rows that are there.
LEMMA RefsHeld ==
    ASSUME TypeInv, HeldInv, NEW n \in Runs, Active(n), NEW c \in DOMAIN Entry(n).refs
    PROVE  /\ Entry(n).refs[c] \in DOMAIN run[n].mem
           /\ run[n].mem[Entry(n).refs[c]] \in DOMAIN row
<1>1. PICK j \in 1..(run[n].at - 1) : Entries[j].label = Entry(n).refs[c]
  BY ActiveEntry DEF HoldsRefs
<1>2. Entry(n).refs[c] # None
  BY ActiveEntry DEF HoldsRefs
<1> QED BY <1>1, <1>2 DEF HeldInv

--------------------------------------------------------------------------------
(* The effect of the actions.                                                *)

LEMMA HoldingFacts ==
    ASSUME NEW m, NEW label, NEW i
    PROVE  /\ label # None => label \in DOMAIN Holding(m, label, i)
                              /\ Holding(m, label, i)[label] = i
           /\ DOMAIN m \subseteq DOMAIN Holding(m, label, i)
           /\ \A l \in DOMAIN m : l # label => Holding(m, label, i)[l] = m[l]
           /\ \A l \in DOMAIN Holding(m, label, i) :
                 Holding(m, label, i)[l] = i \/ (l \in DOMAIN m /\ Holding(m, label, i)[l] = m[l])
<1>1. CASE label = None
  BY <1>1 DEF Holding
<1>2. CASE label # None
  BY <1>2 DEF Holding
<1> QED BY <1>1, <1>2

LEMMA HoldingType ==
    ASSUME NEW m \in Memories, NEW e \in AllEntries, NEW i \in Nat
    PROVE  Holding(m, e.label, i) \in Memories
<1> DEFINE Labels == {x.label : x \in AllEntries}
<1>1. e.label \in Labels
  OBVIOUS
<1> HIDE DEF Labels
<1>2. PICK L \in SUBSET Labels : m \in [L -> Nat]
  BY DEF Memories, Labels
<1>3. CASE e.label = None
  BY <1>3 DEF Holding
<1>4. CASE e.label # None
  <2>1. Holding(m, e.label, i) \in [L \cup {e.label} -> Nat]
    BY <1>2, <1>4 DEF Holding
  <2>2. L \cup {e.label} \in SUBSET Labels
    BY <1>1
  <2> QED BY <2>1, <2>2 DEF Memories, Labels
<1> QED BY <1>3, <1>4

LEMMA NothingHeld == <<>> \in Memories /\ DOMAIN <<>> = {}
<1>1. <<>> \in Seq(Nat) /\ Len(<<>>) = 0
  OBVIOUS
<1>2. <<>> \in [1..0 -> Nat] /\ 1..0 = {}
  BY <1>1
<1>3. <<>> \in [{} -> Nat]
  BY <1>2
<1> QED BY <1>3 DEF Memories

LEMMA BecomesTo ==
    ASSUME TypeInv, NEW n \in Runs, NEW r \in Processes, Becomes(n, r)
    PROVE  /\ run' \in [Runs -> Processes]
           /\ run'[n] = r
           /\ Others(n)
<1>1. \A m \in Runs : run[m] \in Processes
  BY DEF TypeInv
<1>2. ASSUME NEW m \in Runs \ {n}
      PROVE  run'[m] \in Processes /\ Same(m)
  <2>1. run'[m] = [run[m] EXCEPT !.alone = FALSE]
    BY DEF Becomes
  <2> QED BY <1>1, <2>1 DEF Same, Processes
<1>3. run'[n] = r
  BY DEF Becomes
<1>4. run' = [m \in Runs |-> run'[m]]
  BY DEF Becomes
<1>5. \A m \in Runs : run'[m] \in Processes
  BY <1>2, <1>3
<1> QED BY <1>2, <1>3, <1>4, <1>5 DEF Others

LEMMA DisturbTo ==
    ASSUME TypeInv, Disturb
    PROVE  run' \in [Runs -> Processes] /\ \A n \in Runs : Same(n)
<1>1. \A m \in Runs : run[m] \in Processes
  BY DEF TypeInv
<1>2. ASSUME NEW m \in Runs
      PROVE  run'[m] \in Processes /\ Same(m)
  <2>1. run'[m] = [run[m] EXCEPT !.alone = FALSE]
    BY DEF Disturb
  <2> QED BY <1>1, <2>1 DEF Same, Processes
<1>3. run' = [m \in Runs |-> run'[m]]
  BY DEF Disturb
<1> QED BY <1>2, <1>3

LEMMA GoOnTo ==
    ASSUME TypeInv, HeldInv, NEW n \in Runs, Active(n), NEW i \in Nat, GoOn(n, i)
    PROVE  run' \in [Runs -> Processes] /\ Went(n, i)
<1> DEFINE last == run[n].at = Len(Entries)
           pc   == IF last THEN "done" ELSE "query"
           at   == IF last THEN 0 ELSE run[n].at + 1
           mem  == Holding(run[n].mem, Entry(n).label, i)
           r    == [run[n] EXCEPT !.pc = pc, !.at = at, !.mem = mem]
<1>1. run[n] \in Processes
  BY DEF TypeInv
<1>2. run[n].at \in 1..Len(Entries) /\ Len(Entries) \in Nat
  BY ActiveEntry, EntryFacts
<1>3. mem \in Memories
  BY <1>1, HoldingType, ActiveEntry DEF Processes
<1>4. \/ pc = "done" /\ at = 0 /\ run[n].at = Len(Entries)
      \/ (pc = "query" /\ at = run[n].at + 1 /\ run[n].at < Len(Entries))
  BY <1>2
<1>5. at \in Nat /\ pc \in {"query", "done"}
  BY <1>2
<1>6. Becomes(n, r)
  BY DEF GoOn
<1> HIDE DEF pc, at, mem
<1>7. r \in Processes /\ r.pc = pc /\ r.at = at /\ r.mem = mem
  BY <1>1, <1>3, <1>5 DEF Processes
<1> HIDE DEF r
<1>8. run' \in [Runs -> Processes] /\ run'[n] = r /\ Others(n)
  BY <1>6, <1>7, BecomesTo
<1> QED BY <1>4, <1>7, <1>8 DEF Went, mem

LEMMA AbortTo ==
    ASSUME TypeInv, NEW n \in Runs, Abort(n)
    PROVE  run' \in [Runs -> Processes] /\ Stopped(n) /\ run'[n].pc = "failed"
<1> DEFINE r == [Off EXCEPT !.pc = "failed", !.alone = run[n].alone]
<1>1. run[n].alone \in BOOLEAN
  BY DEF TypeInv, Processes
<1>2. r \in Processes /\ r.pc = "failed" /\ r.at = 0 /\ r.mem = <<>>
  BY <1>1, NothingHeld DEF Off, Processes
<1>3. Becomes(n, r)
  BY DEF Abort
<1> HIDE DEF r
<1>4. run' \in [Runs -> Processes] /\ run'[n] = r /\ Others(n)
  BY <1>2, <1>3, BecomesTo
<1> QED BY <1>2, <1>4, NothingHeld DEF Stopped, Active

LEMMA StartTo ==
    ASSUME TypeInv, NEW n \in Runs, Start(n)
    PROVE  TypeInv' /\ Begun(n) /\ row' = row
<1> DEFINE others == {m \in Runs \ {n} : Active(m)}
           alone  == others = {} /\ toClear = {}
           r      == [Off EXCEPT !.pc = "query", !.at = 1, !.alone = alone]
<1>1. alone \in BOOLEAN
  OBVIOUS
<1>2. Becomes(n, r) /\ overlapped' = (overlapped \/ others # {})
  BY DEF Start
<1> HIDE DEF alone
<1>3. r \in Processes /\ r.pc = "query" /\ r.at = 1 /\ r.mem = <<>>
  BY <1>1, NothingHeld DEF Off, Processes
<1> HIDE DEF r
<1>4. run' \in [Runs -> Processes] /\ run'[n] = r /\ Others(n)
  BY <1>2, <1>3, BecomesTo
<1>5. ~overlapped' => ~overlapped /\ \A m \in Runs : ~Active(m)
  BY <1>2 DEF Start
<1>6. Begun(n) /\ row' = row
  BY <1>3, <1>4, <1>5, NothingHeld DEF Begun, Start
<1>7. overlapped' \in BOOLEAN
  BY <1>2 DEF TypeInv
<1>8. TypeInv'
  BY <1>4, <1>6, <1>7 DEF TypeInv, Start
<1> QED BY <1>6, <1>8

LEMMA QueryFacts ==
    ASSUME TypeInv, NEW n \in Runs, run[n].pc \in {"query", "save"}
    PROVE  Active(n) /\ DOMAIN row = 1..Len(row) /\ Len(row) \in Nat
           /\ \A i \in DOMAIN row : row[i] \in Rows
BY DEF TypeInv, Active

LEMMA FindTo ==
    ASSUME TypeInv, HeldInv, NEW n \in Runs, Find(n)
    PROVE  /\ TypeInv'
           /\ Seen(n) \/ (Aborted(n) /\ Found(Entry(n), run[n].mem) = {})
<1>1. run[n].pc = "query" /\ UNCHANGED <<scene, row, overlapped>>
  BY DEF Find
<1>2. CASE Found(Entry(n), run[n].mem) = {}
  <2>1. Abort(n)
    BY <1>2 DEF Find
  <2> QED BY <1>1, <1>2, <2>1, AbortTo DEF TypeInv, Aborted
<1>3. CASE Found(Entry(n), run[n].mem) # {}
  <2>1. PICK i \in Found(Entry(n), run[n].mem) : GoOn(n, i)
    BY <1>3 DEF Find
  <2>2. i \in Nat
    BY <1>1, QueryFacts DEF Found, WithKey
  <2>3. run' \in [Runs -> Processes] /\ Went(n, i)
    BY <1>1, <2>1, <2>2, GoOnTo, QueryFacts
  <2> QED BY <1>1, <2>3 DEF TypeInv, Seen
<1> QED BY <1>2, <1>3

LEMMA EnsureTo ==
    ASSUME TypeInv, HeldInv, NEW n \in Runs, Ensure(n)
    PROVE  /\ TypeInv'
           /\ Seen(n) \/ (Missed(n) /\ row' = row /\ overlapped' = overlapped)
<1>1. run[n].pc = "query" /\ ~Entry(n).find /\ UNCHANGED <<scene, row, overlapped>>
  BY DEF Ensure
<1>2. CASE Found(Entry(n), run[n].mem) = {}
  <2> DEFINE r == [run[n] EXCEPT !.pc = "save"]
  <2>1. run[n] \in Processes
    BY DEF TypeInv
  <2>2. r \in Processes /\ r.pc = "save" /\ r.at = run[n].at /\ r.mem = run[n].mem
    BY <2>1 DEF Processes
  <2>3. Becomes(n, r)
    BY <1>2 DEF Ensure
  <2> HIDE DEF r
  <2>4. run' \in [Runs -> Processes] /\ run'[n] = r /\ Others(n)
    BY <2>2, <2>3, BecomesTo
  <2> QED BY <1>1, <1>2, <2>2, <2>4 DEF TypeInv, Missed
<1>3. CASE Found(Entry(n), run[n].mem) # {}
  <2>1. PICK i \in Found(Entry(n), run[n].mem) : GoOn(n, i)
    BY <1>3 DEF Ensure
  <2>2. i \in Nat
    BY <1>1, QueryFacts DEF Found, WithKey
  <2>3. run' \in [Runs -> Processes] /\ Went(n, i)
    BY <1>1, <2>1, <2>2, GoOnTo, QueryFacts
  <2> QED BY <1>1, <2>3 DEF TypeInv, Seen
<1> QED BY <1>2, <1>3

LEMMA SaveTo ==
    ASSUME TypeInv, HeldInv, SavingInv, NEW n \in Runs, Save(n)
    PROVE  TypeInv' /\ (Saved(n) \/ (Aborted(n) /\ Refused(n)))
<1>1. run[n].pc = "save" /\ UNCHANGED <<scene, overlapped>>
  BY DEF Save
<1>2. Active(n) /\ DOMAIN row = 1..Len(row) /\ Len(row) \in Nat
  BY <1>1, QueryFacts
<1>3. CASE Abort(n) /\ UNCHANGED row /\ Refused(n)
  BY <1>1, <1>3, AbortTo DEF TypeInv, Aborted
<1>4. CASE ~(Abort(n) /\ UNCHANGED row /\ Refused(n))
  <2> DEFINE e    == Entry(n)
             refs == [c \in DOMAIN e.refs |-> run[n].mem[e.refs[c]]]
             name == CHOOSE x \in e.names : TRUE
             new  == [table |-> e.table, name |-> name, refs |-> refs, state |-> "LIVE"]
  <2>1. row' = Append(row, new) /\ GoOn(n, Len(row) + 1)
    BY <1>4 DEF Save, Refused
  <2>2. e \in AllEntries
    BY <1>2, ActiveEntry
  <2>3. name \in e.names
    BY <1>1, <1>2, ActiveEntry DEF SavingInv, HasName
  <2>4. refs \in [DOMAIN e.refs -> Nat]
    BY <1>2, RefsHeld
  <2>5. refs = [c \in DOMAIN Entry(n).refs |-> run[n].mem[Entry(n).refs[c]]]
    OBVIOUS
  <2> HIDE DEF name, refs
  <2>6. new \in Rows
    BY <2>2, <2>3, <2>4 DEF Rows, Names
  <2>7. Fits(n, new)
    BY <2>3, <2>5 DEF Fits
  <2> HIDE DEF new
  <2>8. row' \in Seq(Rows)
    BY <2>1, <2>6 DEF TypeInv
  <2>9. run' \in [Runs -> Processes] /\ Went(n, Len(row) + 1)
    BY <1>2, <2>1, GoOnTo
  <2>10. Saved(n)
    BY <1>1, <2>1, <2>6, <2>7, <2>9 DEF Saved
  <2> QED BY <1>1, <2>8, <2>9, <2>10 DEF TypeInv
<1> QED BY <1>3, <1>4

LEMMA DieKind ==
    ASSUME TypeInv, NEW n \in Runs, Die(n)
    PROVE  TypeInv' /\ Kind /\ scene'.plan = scene.plan
<1> DEFINE r == [Off EXCEPT !.pc = "died"]
<1>1. r \in Processes /\ r.pc = "died" /\ r.at = 0 /\ r.mem = <<>>
  BY NothingHeld DEF Off, Processes
<1>2. Becomes(n, r) /\ UNCHANGED <<row, overlapped>>
  BY DEF Die
<1> HIDE DEF r
<1>3. run' \in [Runs -> Processes] /\ run'[n] = r /\ Others(n)
  BY <1>1, <1>2, BecomesTo
<1>4. Stopped(n)
  BY <1>1, <1>3, NothingHeld DEF Stopped, Active
<1>5. scene' \in SomeScene /\ scene'.plan = scene.plan
  BY DEF TypeInv, SomeScene, Die
<1> QED BY <1>2, <1>3, <1>4, <1>5 DEF TypeInv, Kind

LEMMA EditKind ==
    ASSUME TypeInv, NEW i \in DOMAIN row, NEW r \in Rows, Edit(i, r),
           r.table = row[i].table, r.refs = row[i].refs,
           r.state = "REMOVED" => row[i].table = "admins",
           r.name = row[i].name \/ (row[i].table = "hotels" /\ r.name = None)
    PROVE  TypeInv' /\ Kind /\ scene'.plan = scene.plan
<1>1. row' = [row EXCEPT ![i] = r] /\ row[i].state = "LIVE" /\ overlapped' = overlapped
  BY DEF Edit
<1>2. DOMAIN row' = DOMAIN row /\ row'[i] = r /\ \A j \in DOMAIN row : j # i => row'[j] = row[j]
  BY <1>1
<1>3. row' \in Seq(Rows)
  BY <1>1 DEF TypeInv
<1>4. Worn
  BY <1>1, <1>2 DEF Worn
<1>5. run' \in [Runs -> Processes] /\ \A n \in Runs : Same(n)
  BY DisturbTo DEF Edit
<1>6. scene' = [scene EXCEPT !.edits = @ - 1] /\ scene.edits > 0
  BY DEF Edit
<1>7. scene' \in SomeScene /\ scene'.plan = scene.plan
  BY <1>6 DEF TypeInv, SomeScene
<1> QED BY <1>1, <1>3, <1>4, <1>5, <1>7 DEF TypeInv, Kind

LEMMA RenameKind ==
    ASSUME TypeInv, RenameHotel
    PROVE  TypeInv' /\ Kind /\ scene'.plan = scene.plan
<1>1. PICK i \in DOMAIN row : row[i].table = "hotels" /\ Edit(i, [row[i] EXCEPT !.name = None])
  BY DEF RenameHotel
<1> DEFINE r == [row[i] EXCEPT !.name = None]
<1>2. row[i] \in Rows /\ None \in Names
  BY DEF TypeInv, Names
<1>3. /\ r \in Rows /\ r.table = row[i].table /\ r.refs = row[i].refs /\ r.name = None
      /\ r.state = row[i].state
  BY <1>2 DEF Rows
<1>4. Edit(i, r)
  BY <1>1
<1> HIDE DEF r
<1>5. r.state # "REMOVED"
  BY <1>3, <1>4 DEF Edit
<1> QED BY <1>1, <1>3, <1>4, <1>5, EditKind

LEMMA RemoveKind ==
    ASSUME TypeInv, RemoveRoom \/ RemoveAdmin
    PROVE  TypeInv' /\ Kind /\ scene'.plan = scene.plan
<1>1. PICK i \in DOMAIN row, state \in {"GONE", "REMOVED"} :
          /\ Edit(i, [row[i] EXCEPT !.state = state])
          /\ state = "REMOVED" => row[i].table = "admins"
  BY DEF RemoveRoom, RemoveAdmin
<1> DEFINE r == [row[i] EXCEPT !.state = state]
<1>2. row[i] \in Rows
  BY DEF TypeInv
<1>3. /\ r \in Rows /\ r.table = row[i].table /\ r.refs = row[i].refs /\ r.name = row[i].name
      /\ r.state = state
  BY <1>2 DEF Rows
<1>4. Edit(i, r)
  BY <1>1
<1> HIDE DEF r
<1> QED BY <1>1, <1>3, <1>4, EditKind

LEMMA StartClearKind ==
    ASSUME TypeInv, StartClear
    PROVE  TypeInv' /\ Kind /\ scene'.plan = scene.plan
<1>1. row' = row /\ overlapped' = overlapped
  BY DEF StartClear
<1>2. Worn
  BY <1>1 DEF Worn
<1>3. run' \in [Runs -> Processes] /\ \A n \in Runs : Same(n)
  BY DisturbTo DEF StartClear
<1>4. scene' \in SomeScene /\ scene'.plan = scene.plan
  BY DEF TypeInv, SomeScene, StartClear
<1> QED BY <1>1, <1>2, <1>3, <1>4 DEF TypeInv, Kind

LEMMA TruncateKind ==
    ASSUME TypeInv, Truncate
    PROVE  TypeInv' /\ Kind
<1>1. UNCHANGED <<scene, overlapped>>
  BY DEF Truncate
<1>2. PICK t : row' = [i \in DOMAIN row |-> IF row[i].table \in Truncated(t)
                                           THEN [row[i] EXCEPT !.state = "GONE"] ELSE row[i]]
  BY DEF Truncate
<1>3. DOMAIN row = 1..Len(row) /\ Len(row) \in Nat
  BY DEF TypeInv
<1>4. ASSUME NEW i \in DOMAIN row
      PROVE  /\ row'[i] \in Rows
             /\ row'[i].table = row[i].table /\ row'[i].refs = row[i].refs
             /\ row'[i].name = row[i].name
             /\ row'[i].state = "LIVE" => row[i].state = "LIVE"
             /\ row'[i].state = "REMOVED" => row[i].state = "REMOVED"
  <2>1. row[i] \in Rows
    BY DEF TypeInv
  <2>2. CASE row[i].table \in Truncated(t)
    <3>1. row'[i] = [row[i] EXCEPT !.state = "GONE"]
      BY <1>2, <2>2
    <3> QED BY <2>1, <3>1 DEF Rows
  <2>3. CASE row[i].table \notin Truncated(t)
    BY <1>2, <2>1, <2>3
  <2> QED BY <2>2, <2>3
<1>5. DOMAIN row' = DOMAIN row
  BY <1>2
<1>6. row' = [i \in 1..Len(row) |-> row'[i]]
  BY <1>2, <1>3
<1>7. row' \in Seq(Rows)
  BY <1>3, <1>4, <1>6
<1>8. Worn
  BY <1>4, <1>5 DEF Worn
<1>9. run' \in [Runs -> Processes] /\ \A n \in Runs : Same(n)
  BY DisturbTo DEF Truncate
<1> QED BY <1>1, <1>7, <1>8, <1>9 DEF TypeInv, Kind

\* Every step is of one of the kinds, keeps the types, and stays with the plan.
LEMMA StepKinds ==
    ASSUME SeedingInv, [Next]_vars
    PROVE  TypeInv' /\ Kind /\ Entries' = Entries
<1> USE DEF SeedingInv
<1>1. ASSUME NEW n \in Runs, Start(n)
      PROVE  TypeInv' /\ Kind /\ scene' = scene
  BY <1>1, StartTo DEF Start, Kind
<1>2. ASSUME NEW n \in Runs, Proceed(n)
      PROVE  TypeInv' /\ Kind /\ scene' = scene
  BY <1>2, FindTo, EnsureTo, SaveTo DEF Proceed, Find, Ensure, Save, Kind, Aborted
<1>3. ASSUME NEW n \in Runs, Die(n)
      PROVE  TypeInv' /\ Kind /\ scene'.plan = scene.plan
  BY <1>3, DieKind
<1>4. ASSUME RenameHotel \/ RemoveRoom \/ RemoveAdmin \/ StartClear
      PROVE  TypeInv' /\ Kind /\ scene'.plan = scene.plan
  BY <1>4, RenameKind, RemoveKind, StartClearKind
<1>5. ASSUME Truncate
      PROVE  TypeInv' /\ Kind /\ scene' = scene
  BY <1>5, TruncateKind DEF Truncate
<1>6. ASSUME UNCHANGED vars
      PROVE  TypeInv' /\ Kind /\ scene' = scene
  BY <1>6 DEF vars, TypeInv, Kind, Worn, Same
<1>7. TypeInv' /\ Kind /\ scene'.plan = scene.plan
  BY <1>1, <1>2, <1>3, <1>4, <1>5, <1>6 DEF Next
<1> QED BY <1>7 DEF Entries

--------------------------------------------------------------------------------
(* Rooms and their types.                                                    *)

LEMMA SavedRow ==
    ASSUME TypeInv, NEW new \in Rows, row' = Append(row, new)
    PROVE  /\ DOMAIN row = 1..Len(row) /\ Len(row) \in Nat
           /\ DOMAIN row' = DOMAIN row \cup {Len(row) + 1} /\ Len(row) + 1 \notin DOMAIN row
           /\ row'[Len(row) + 1] = new
           /\ \A i \in DOMAIN row : row'[i] = row[i]
BY DEF TypeInv

\* No step forgets a row, or changes its table or its references.
LEMMA RowsStay ==
    ASSUME TypeInv, Kind
    PROVE  /\ DOMAIN row \subseteq DOMAIN row'
           /\ \A i \in DOMAIN row : row'[i].table = row[i].table /\ row'[i].refs = row[i].refs
<1>1. CASE row' = row
  BY <1>1
<1>2. CASE \E n \in Runs : Saved(n)
  BY <1>2, SavedRow DEF Saved
<1>3. CASE Worn
  BY <1>3 DEF Worn
<1> QED BY <1>1, <1>2, <1>3 DEF Kind, Seen

Move(n) ==
    \/ Same(n)
    \/ run'[n].pc \notin {"query", "save"} /\ run'[n].at = 0 /\ DOMAIN run'[n].mem = {}
    \/ run'[n].pc = "query" /\ run'[n].at = 1 /\ DOMAIN run'[n].mem = {}
    \/ Missed(n)
    \/ \E i \in DOMAIN row' : /\ Went(n, i)
                              /\ run[n].pc = "query" => i \in Found(Entry(n), run[n].mem)

\* How any one run fares in a step.
LEMMA Moves ==
    ASSUME TypeInv, Kind, NEW m \in Runs
    PROVE  Move(m)
<1>1. ASSUME NEW n \in Runs, Begun(n) \/ Stopped(n) \/ Missed(n)
      PROVE  Move(m)
  BY <1>1 DEF Begun, Stopped, Missed, Others, Move
<1>2. ASSUME NEW n \in Runs, Seen(n)
      PROVE  Move(m)
  BY <1>2 DEF Seen, Went, Others, Move, Found, WithKey
<1>3. ASSUME NEW n \in Runs, Saved(n)
      PROVE  Move(m)
  <2>1. PICK new \in Rows : row' = Append(row, new)
    BY <1>3 DEF Saved
  <2>2. Len(row) + 1 \in DOMAIN row'
    BY <2>1, SavedRow
  <2> QED BY <1>3, <2>2 DEF Saved, Went, Others, Move
<1>4. ASSUME \A n \in Runs : Same(n)
      PROVE  Move(m)
  BY <1>4 DEF Move
<1> QED BY <1>1, <1>2, <1>3, <1>4 DEF Kind

LEMMA HeldKept ==
    ASSUME SeedingInv, TypeInv', Kind, Entries' = Entries
    PROVE  HeldInv'
<1> USE DEF SeedingInv
<1> SUFFICES ASSUME NEW n \in Runs
             PROVE  /\ run'[n].pc \in {"query", "save"} => run'[n].at \in 1..Len(Entries)
                    /\ \A j \in 1..(run'[n].at - 1) :
                          Entries[j].label # None => Entries[j].label \in DOMAIN run'[n].mem
                    /\ \A l \in DOMAIN run'[n].mem : run'[n].mem[l] \in DOMAIN row'
  BY DEF HeldInv, Active
<1>1. /\ run[n].pc \in {"query", "save"} => run[n].at \in 1..Len(Entries)
      /\ \A j \in 1..(run[n].at - 1) :
            Entries[j].label # None => Entries[j].label \in DOMAIN run[n].mem
      /\ \A l \in DOMAIN run[n].mem : run[n].mem[l] \in DOMAIN row
  BY DEF HeldInv, Active
<1>2. DOMAIN row \subseteq DOMAIN row'
  BY RowsStay
<1>3. Len(Entries) \in Nat \ {0}
  BY EntryFacts
<1>4. CASE Same(n)
  BY <1>1, <1>2, <1>4 DEF Same
<1>5. CASE run'[n].at = 0 /\ run'[n].pc \notin {"query", "save"} /\ DOMAIN run'[n].mem = {}
  BY <1>5
<1>6. CASE run'[n].pc = "query" /\ run'[n].at = 1 /\ DOMAIN run'[n].mem = {}
  BY <1>3, <1>6
<1>7. CASE Missed(n)
  BY <1>1, <1>2, <1>7 DEF Missed
<1>8. ASSUME NEW i \in DOMAIN row', Went(n, i)
      PROVE  /\ run'[n].pc \in {"query", "save"} => run'[n].at \in 1..Len(Entries)
             /\ \A j \in 1..(run'[n].at - 1) :
                   Entries[j].label # None => Entries[j].label \in DOMAIN run'[n].mem
             /\ \A l \in DOMAIN run'[n].mem : run'[n].mem[l] \in DOMAIN row'
  <2>1. run[n].at \in 1..Len(Entries) /\ Entry(n) = Entries[run[n].at]
    BY <1>1, <1>8 DEF Went, Active, Entry
  <2>2. run'[n].mem = Holding(run[n].mem, Entries[run[n].at].label, i)
    BY <1>8, <2>1 DEF Went
  <2>3. \/ run'[n].pc = "done" /\ run'[n].at = 0
        \/ run'[n].pc = "query" /\ run'[n].at = run[n].at + 1 /\ run[n].at < Len(Entries)
    BY <1>8 DEF Went
  <2>4. \A l \in DOMAIN run'[n].mem : run'[n].mem[l] \in DOMAIN row'
    BY <1>1, <1>2, <2>2, HoldingFacts
  <2>5. ASSUME NEW j \in 1..(run'[n].at - 1), Entries[j].label # None
        PROVE  Entries[j].label \in DOMAIN run'[n].mem
    <3>1. run[n].at \in Nat /\ (j = run[n].at \/ j \in 1..(run[n].at - 1))
      BY <2>1, <2>3
    <3> QED BY <1>1, <2>2, <2>5, <3>1, HoldingFacts
  <2>6. run'[n].pc \in {"query", "save"} => run'[n].at \in 1..Len(Entries)
    BY <1>3, <2>1, <2>3
  <2> QED BY <2>4, <2>5, <2>6
<1> QED BY <1>4, <1>5, <1>6, <1>7, <1>8, Moves DEF Move

LEMMA SavingKept ==
    ASSUME SeedingInv, Kind, Entries' = Entries
    PROVE  SavingInv'
<1> SUFFICES ASSUME NEW n \in Runs, run'[n].pc = "save"
             PROVE  ~Entries[run'[n].at].find
  BY DEF SavingInv, Entry
<1> QED BY Moves DEF SeedingInv, SavingInv, Entry, Move, Same, Missed, Went

LEMMA TypeFoundKept ==
    ASSUME SeedingInv, Kind, Entries' = Entries
    PROVE  TypeFoundInv'
<1> USE DEF SeedingInv
<1> DEFINE OfHotel(n) ==
        row'[run'[n].mem[Entries[run'[n].at].refs["roomTypeId"]]].refs["hotelId"]
            = run'[n].mem[Entries[run'[n].at].refs["hotelId"]]
<1> SUFFICES ASSUME NEW n \in Runs, run'[n].pc \in {"query", "save"},
                    Entries[run'[n].at].table = "rooms", ~Entries[run'[n].at].find
             PROVE  OfHotel(n)
  BY DEF TypeFoundInv, Active, Entry
<1>1. CASE run'[n].at = run[n].at /\ run'[n].mem = run[n].mem /\ Active(n)
  <2>1. Entry(n) = Entries[run'[n].at]
    BY <1>1 DEF Entry
  <2>2. {"hotelId", "roomTypeId"} \subseteq DOMAIN Entry(n).refs
    BY <1>1, <2>1, ActiveEntry DEF FindsTypeFirst
  <2>3. run[n].mem[Entry(n).refs["roomTypeId"]] \in DOMAIN row
    BY <1>1, <2>2, RefsHeld
  <2>4. row[run[n].mem[Entry(n).refs["roomTypeId"]]].refs["hotelId"]
            = run[n].mem[Entry(n).refs["hotelId"]]
    BY <1>1, <2>1 DEF TypeFoundInv
  <2> QED BY <1>1, <2>1, <2>3, <2>4, RowsStay
<1>2. CASE run'[n].at = 1
  BY <1>2, EntryFacts DEF FindsTypeFirst
<1>3. ASSUME NEW i \in DOMAIN row', Went(n, i),
             run[n].pc = "query" => i \in Found(Entry(n), run[n].mem)
      PROVE  OfHotel(n)
  <2> DEFINE k == run'[n].at
             e == Entry(n)
             h == e.refs["hotelId"]
  <2>1. /\ run[n].at \in 1..Len(Entries) /\ e = Entries[run[n].at]
        /\ k = run[n].at + 1 /\ run[n].at < Len(Entries) /\ Active(n)
    BY <1>3, ActiveEntry DEF Went
  <2>2. k \in 1..Len(Entries) /\ k - 1 = run[n].at
    BY <2>1, EntryFacts
  <2>3. /\ {"hotelId", "roomTypeId"} \subseteq DOMAIN Entries[k].refs
        /\ e.find /\ e.table = "roomTypes" /\ "hotelId" \in DOMAIN e.refs
        /\ h = Entries[k].refs["hotelId"] /\ e.label = Entries[k].refs["roomTypeId"]
        /\ e.label # h
    BY <2>1, <2>2, EntryFacts DEF FindsTypeFirst
  <2>4. e.label # None
    BY <2>2, <2>3, EntryFacts DEF HoldsRefs
  <2>5. h \in DOMAIN run[n].mem
    BY <2>1, <2>3, RefsHeld
  <2>6. i \in Found(e, run[n].mem)
    BY <1>3, <2>1, <2>3 DEF SavingInv, Active
  <2>7. "hotelId" \in KeyColumns(e.table, e.refs)
    BY <2>3 DEF KeyColumns, NotInKey
  <2>8. i \in DOMAIN row /\ row[i].refs["hotelId"] = run[n].mem[h]
    BY <2>6, <2>7 DEF Found, WithKey
  <2>9. run'[n].mem = Holding(run[n].mem, e.label, i)
    BY <1>3 DEF Went
  <2>10. run'[n].mem[e.label] = i /\ run'[n].mem[h] = run[n].mem[h]
    BY <2>3, <2>4, <2>5, <2>9, HoldingFacts
  <2>11. row'[i].refs = row[i].refs
    BY <2>8, RowsStay
  <2> QED BY <2>3, <2>8, <2>10, <2>11
<1> QED BY <1>1, <1>2, <1>3, Moves DEF Move, Same, Missed, Active

LEMMA RoomKept ==
    ASSUME SeedingInv, Kind
    PROVE  RoomInv'
<1> USE DEF SeedingInv
<1>1. CASE DOMAIN row' = DOMAIN row
  BY <1>1, RowsStay DEF RoomInv
<1>2. ASSUME NEW n \in Runs, Saved(n)
      PROVE  RoomInv'
  <2>1. PICK new \in Rows : Fits(n, new) /\ row' = Append(row, new)
    BY <1>2 DEF Saved
  <2>2. Active(n) /\ ~Entry(n).find
    BY <1>2 DEF Saved, SavingInv, Active
  <2>3. /\ DOMAIN row' = DOMAIN row \cup {Len(row) + 1}
        /\ row'[Len(row) + 1] = new
    BY <2>1, SavedRow
  <2>4. ASSUME NEW i \in DOMAIN row, row'[i].table = "rooms"
        PROVE  /\ {"hotelId", "roomTypeId"} \subseteq DOMAIN row'[i].refs
               /\ row'[i].refs["roomTypeId"] \in DOMAIN row'
               /\ row'[row'[i].refs["roomTypeId"]].refs["hotelId"] = row'[i].refs["hotelId"]
    BY <2>4, RowsStay DEF RoomInv
  <2>5. ASSUME new.table = "rooms"
        PROVE  /\ {"hotelId", "roomTypeId"} \subseteq DOMAIN new.refs
               /\ new.refs["roomTypeId"] \in DOMAIN row'
               /\ row'[new.refs["roomTypeId"]].refs["hotelId"] = new.refs["hotelId"]
    <3>1. Entry(n).table = "rooms"
      BY <2>1, <2>5 DEF Fits
    <3>2. {"hotelId", "roomTypeId"} \subseteq DOMAIN Entry(n).refs
      BY <2>2, <3>1, ActiveEntry DEF FindsTypeFirst
    <3>3. /\ DOMAIN new.refs = DOMAIN Entry(n).refs
          /\ new.refs["roomTypeId"] = run[n].mem[Entry(n).refs["roomTypeId"]]
          /\ new.refs["hotelId"] = run[n].mem[Entry(n).refs["hotelId"]]
      BY <2>1, <3>2 DEF Fits
    <3>4. new.refs["roomTypeId"] \in DOMAIN row
      BY <2>2, <3>2, <3>3, RefsHeld
    <3>5. row[new.refs["roomTypeId"]].refs["hotelId"] = new.refs["hotelId"]
      BY <2>2, <3>1, <3>3 DEF TypeFoundInv
    <3> QED BY <3>2, <3>3, <3>4, <3>5, RowsStay
  <2> QED BY <2>3, <2>4, <2>5 DEF RoomInv
<1>3. Worn => DOMAIN row' = DOMAIN row
  BY DEF Worn
<1> QED BY <1>1, <1>2, <1>3 DEF Kind, Seen

--------------------------------------------------------------------------------
(* One row for a key.                                                        *)

LEMMA OneRunKept ==
    ASSUME SeedingInv, Kind
    PROVE  OneRunInv'
<1> USE DEF SeedingInv
<1> SUFFICES ASSUME ~overlapped', NEW m \in Runs, NEW n \in Runs,
                    run'[m].pc \in {"query", "save"}, run'[n].pc \in {"query", "save"}
             PROVE  m = n
  BY DEF OneRunInv, Active
<1>1. ASSUME NEW k \in Runs, Begun(k)
      PROVE  m = n
  BY <1>1 DEF Begun, Others, Same, Active
<1>2. ASSUME overlapped' = overlapped, \A k \in Runs : Active(k)' => Active(k)
      PROVE  m = n
  BY <1>2 DEF OneRunInv, Active
<1>3. ASSUME NEW k \in Runs, Stopped(k) \/ Missed(k) \/ Seen(k) \/ Saved(k)
      PROVE  \A x \in Runs : Active(x)' => Active(x)
  BY <1>3 DEF Stopped, Missed, Seen, Saved, Went, Others, Same, Active
<1>4. ASSUME \A x \in Runs : Same(x)
      PROVE  \A x \in Runs : Active(x)' => Active(x)
  BY <1>4 DEF Same, Active
<1> QED BY <1>1, <1>2, <1>3, <1>4 DEF Kind, Seen, Saved

LEMMA MissingKept ==
    ASSUME SeedingInv, Kind, Entries' = Entries
    PROVE  MissingInv'
<1> USE DEF SeedingInv
<1> DEFINE Has(e, m, x) == /\ row'[x].table = e.table /\ row'[x].name \in e.names
                           /\ \A c \in KeyColumns(e.table, e.refs) :
                                 row'[x].refs[c] = m[e.refs[c]]
                           /\ row'[x].state = "LIVE"
<1> SUFFICES ASSUME ~overlapped', NEW n \in Runs, run'[n].pc = "save",
                    NEW x \in DOMAIN row', Has(Entries[run'[n].at], run'[n].mem, x)
             PROVE  FALSE
  BY DEF MissingInv, Entry, Found, WithKey
<1>1. Same(n) \/ Missed(n)
  BY Moves DEF Move, Went
<1>2. /\ Entries[run'[n].at] = Entry(n) /\ run'[n].mem = run[n].mem
      /\ Active(n) /\ ~Entry(n).find
  BY <1>1 DEF Same, Missed, Entry, Active, SavingInv
<1>3. ~overlapped /\ Found(Entry(n), run[n].mem) = {}
  <2>1. overlapped' = overlapped
    BY <1>2 DEF Kind, Begun, Seen, Saved
  <2> QED BY <1>1, <2>1 DEF Same, Missed, MissingInv
<1> DEFINE e == Entry(n)
           m == run[n].mem
<1>4. e = Entries[run'[n].at] /\ m = run'[n].mem
  BY <1>2
<1>5. e.table = "hotels" => None \notin e.names
  BY <1>2, ActiveEntry DEF HasName
<1> HIDE DEF e, m
<1>6. CASE row' = row
  BY <1>3, <1>4, <1>6 DEF Found, WithKey, e, m
<1>7. ASSUME NEW k \in Runs, Saved(k)
      PROVE  FALSE
  <2>1. k = n
    BY <1>2, <1>3, <1>7 DEF Saved, Active, OneRunInv
  <2> QED BY <1>7, <2>1 DEF Saved, Went
<1>8. CASE Worn
  <2>1. /\ x \in DOMAIN row /\ row[x].table = e.table /\ row[x].refs = row'[x].refs
        /\ row[x].state = "LIVE" /\ row[x].name \in e.names
    BY <1>4, <1>5, <1>8 DEF Worn
  <2>2. x \in Found(e, m)
    BY <1>4, <2>1 DEF Found, WithKey
  <2> QED BY <1>3, <2>2 DEF e, m
<1> QED BY <1>6, <1>7, <1>8 DEF Kind, Seen

LEMMA OneKeyKept ==
    ASSUME SeedingInv, Kind
    PROVE  OneKeyInv'
<1> USE DEF SeedingInv
<1> SUFFICES ASSUME ~overlapped', NEW i \in SeededRows', NEW j \in SeededRows',
                    Key(i)' = Key(j)'
             PROVE  i = j
  BY DEF OneKeyInv
<1>1. ~overlapped
  BY DEF Kind, Begun, Seen, Saved
<1>2. CASE row' = row
  BY <1>1, <1>2 DEF OneKeyInv, SeededRows, Seeded, Key
<1>3. CASE Worn
  <2>1. ASSUME NEW k \in SeededRows'
        PROVE  k \in SeededRows /\ Key(k)' = Key(k)
    <3>1. /\ k \in DOMAIN row' /\ row'[k].state = "LIVE"
          /\ row'[k].table = "hotels" => row'[k].name # None
      BY <2>1 DEF SeededRows, Seeded
    <3>2. /\ k \in DOMAIN row /\ row[k].state = "LIVE" /\ row'[k].table = row[k].table
          /\ row'[k].refs = row[k].refs /\ row'[k].name = row[k].name
      BY <1>3, <3>1 DEF Worn
    <3> QED BY <3>1, <3>2 DEF SeededRows, Seeded, Key
  <2> QED BY <1>1, <2>1 DEF OneKeyInv
<1>4. ASSUME NEW n \in Runs, Saved(n)
      PROVE  i = j
  <2>1. PICK new \in Rows : Fits(n, new) /\ row' = Append(row, new)
    BY <1>4 DEF Saved
  <2> DEFINE e == Entry(n)
             m == run[n].mem
  <2>2. PICK l : /\ DOMAIN row' = DOMAIN row \cup {l} /\ l \notin DOMAIN row
                 /\ row'[l] = new /\ \A k \in DOMAIN row : row'[k] = row[k]
    BY <2>1, SavedRow
  <2>3. Found(e, m) = {}
    BY <1>1, <1>4 DEF Saved, MissingInv
  <2>4. ASSUME NEW k \in SeededRows', k # l
        PROVE  k \in SeededRows /\ row'[k] = row[k] /\ Key(k)' = Key(k)
    BY <2>2, <2>4 DEF SeededRows, Seeded, Key
  <2>5. ASSUME NEW k \in SeededRows', k # l, Key(k)' = Key(l)'
        PROVE  FALSE
    <3>1. k \in DOMAIN row /\ row[k].state = "LIVE" /\ row'[k] = row[k]
      BY <2>4, <2>5 DEF SeededRows, Seeded
    <3>2. row[k].table = new.table /\ row[k].name = new.name
      BY <2>2, <2>5, <3>1 DEF Key
    <3>3. [c \in KeyColumns(new.table, row[k].refs) |-> row[k].refs[c]]
              = [c \in KeyColumns(new.table, new.refs) |-> new.refs[c]]
      BY <2>2, <2>5, <3>1, <3>2 DEF Key
    <3>4. KeyColumns(new.table, row[k].refs) = KeyColumns(new.table, new.refs)
      BY <3>3
    <3>5. \A c \in KeyColumns(new.table, new.refs) : row[k].refs[c] = new.refs[c]
      BY <3>3, <3>4
    <3>6. /\ new.table = e.table /\ new.name \in e.names
          /\ new.refs = [c \in DOMAIN e.refs |-> m[e.refs[c]]]
      BY <2>1 DEF Fits
    <3>7. \A c \in KeyColumns(e.table, e.refs) :
             c \in KeyColumns(new.table, new.refs) /\ new.refs[c] = m[e.refs[c]]
      BY <3>6 DEF KeyColumns
    <3>8. k \in Found(e, m)
      BY <3>1, <3>2, <3>5, <3>6, <3>7 DEF Found, WithKey
    <3> QED BY <2>3, <3>8
  <2>6. CASE i # l /\ j # l
    BY <1>1, <2>4, <2>6 DEF OneKeyInv
  <2> QED BY <2>5, <2>6
<1> QED BY <1>2, <1>3, <1>4 DEF Kind, Seen

\* A set of keys as large as the set of their rows, if no two rows have one.
LEMMA KeysCount ==
    ASSUME TypeInv, \A i, j \in SeededRows : Key(i) = Key(j) => i = j
    PROVE  ~Duplicated
<1> DEFINE keys == {Key(i) : i \in SeededRows}
           f    == [i \in SeededRows |-> Key(i)]
<1>1. IsFiniteSet(SeededRows)
  <2>1. Len(row) \in Nat /\ SeededRows \subseteq 1..Len(row)
    BY DEF TypeInv, SeededRows
  <2>2. IsFiniteSet(1..Len(row))
    BY <2>1, FS_Interval
  <2> QED BY <2>1, <2>2, FS_Subset
<1>2. f \in [SeededRows -> keys]
  OBVIOUS
<1>3. \A i, j \in SeededRows : f[i] = f[j] => i = j
  OBVIOUS
<1>4. \A k \in keys : \E i \in SeededRows : f[i] = k
  OBVIOUS
<1> HIDE DEF f
<1>5. f \in Bijection(SeededRows, keys)
  BY <1>2, <1>3, <1>4, Fun_IsBij
<1>6. Cardinality(keys) = Cardinality(SeededRows)
  BY <1>1, <1>5, FS_Bijection DEF ExistsBijection
<1> QED BY <1>6 DEF Duplicated

LEMMA SeedingInit == ASSUME Init PROVE SeedingInv
<1>1. scene \in SomeScene
  BY SeedingAssumption DEF Init, SomeScene
<1>2. row = <<>> /\ row \in Seq(Rows) /\ DOMAIN row = {}
  BY DEF Init
<1>3. Off \in Processes /\ Off.pc = "off" /\ Off.at = 0 /\ DOMAIN Off.mem = {}
  BY NothingHeld DEF Off, Processes
<1>4. run \in [Runs -> Processes] /\ \A n \in Runs : run[n] = Off
  BY <1>3 DEF Init
<1>5. TypeInv
  BY <1>1, <1>2, <1>4 DEF TypeInv, Init
<1>6. \A n \in Runs : ~Active(n) /\ run[n].pc # "save"
  BY <1>3, <1>4 DEF Active
<1>7. HeldInv /\ SavingInv /\ TypeFoundInv /\ OneRunInv /\ MissingInv
  BY <1>3, <1>4, <1>6 DEF HeldInv, SavingInv, TypeFoundInv, OneRunInv, MissingInv
<1>8. RoomInv /\ OneKeyInv
  BY <1>2 DEF RoomInv, OneKeyInv, SeededRows
<1> QED BY <1>5, <1>7, <1>8 DEF SeedingInv

LEMMA SeedingStep == ASSUME SeedingInv, [Next]_vars PROVE SeedingInv'
<1>1. TypeInv' /\ Kind /\ Entries' = Entries
  BY StepKinds
<1> QED BY <1>1, HeldKept, SavingKept, TypeFoundKept, RoomKept, OneRunKept, MissingKept,
           OneKeyKept DEF SeedingInv

--------------------------------------------------------------------------------
(* A run that nobody disturbs.                                               *)

\* Only an administrator is soft-deleted; a row came from an entry of its table and name.
RemovedInv == \A i \in DOMAIN row : row[i].state = "REMOVED" => row[i].table = "admins"

ComesFrom(i, e) ==
    /\ row[i].table = e.table /\ DOMAIN row[i].refs = DOMAIN e.refs
    /\ row[i].name \in e.names \/ (row[i].table = "hotels" /\ row[i].name = None)

OriginInv == \A i \in DOMAIN row : \E k \in 1..Len(Entries) : ComesFrom(i, Entries[k])

\* What the first k entries asked for is there, and the labels stand for it.
Done(m, k) ==
    \A j \in 1..k :
        /\ Found(Entries[j], m) # {}
        /\ Entries[j].label # None => m[Entries[j].label] \in Found(Entries[j], m)

\* It holds rows that are there, what it is about to save is missing, and while there are no
\* duplicates all that it went through is there.
Undisturbed(n) ==
    /\ Active(n) => \A l \in DOMAIN run[n].mem : row[run[n].mem[l]].state = "LIVE"
    /\ run[n].pc = "save" => Found(Entry(n), run[n].mem) = {}
    /\ Active(n) /\ ~Duplicated => Done(run[n].mem, run[n].at - 1)
    /\ run[n].pc = "done" /\ ~Duplicated => Done(run[n].mem, Len(Entries))
    /\ run[n].pc = "failed" /\ ~Duplicated => AdminRemoved

AloneInv == \A n \in Runs : run[n].alone => Undisturbed(n)

UndisturbedInv == SeedingInv /\ RemovedInv /\ OriginInv /\ AloneInv

LEMMA RemovedOriginKept ==
    ASSUME UndisturbedInv, [Next]_vars
    PROVE  RemovedInv' /\ OriginInv'
<1> USE DEF UndisturbedInv, SeedingInv
<1>1. TypeInv' /\ Kind /\ Entries' = Entries
  BY StepKinds
<1>2. CASE row' = row
  BY <1>1, <1>2 DEF RemovedInv, OriginInv, ComesFrom
<1>3. ASSUME NEW n \in Runs, Saved(n)
      PROVE  RemovedInv' /\ OriginInv'
  <2>1. PICK new \in Rows : Fits(n, new) /\ row' = Append(row, new)
    BY <1>3 DEF Saved
  <2>2. PICK l : /\ DOMAIN row' = DOMAIN row \cup {l} /\ l \notin DOMAIN row
                 /\ row'[l] = new /\ \A k \in DOMAIN row : row'[k] = row[k]
    BY <2>1, SavedRow
  <2>3. PICK k \in 1..Len(Entries) : Entry(n) = Entries[k]
    BY <1>3, ActiveEntry DEF Saved, Active
  <2>4. ComesFrom(l, Entries[k])'
    BY <1>1, <2>1, <2>2, <2>3 DEF ComesFrom, Fits
  <2>5. RemovedInv'
    BY <2>1, <2>2 DEF RemovedInv, Fits
  <2>6. OriginInv'
    BY <1>1, <2>2, <2>4 DEF OriginInv, ComesFrom
  <2> QED BY <2>5, <2>6
<1>4. CASE Worn
  BY <1>1, <1>4 DEF RemovedInv, OriginInv, ComesFrom, Worn
<1> QED BY <1>1, <1>2, <1>3, <1>4 DEF Kind, Seen

\* A run is left alone only by its own steps.
LEMMA AloneSteps ==
    ASSUME TypeInv, [Next]_vars, NEW n \in Runs, run'[n].alone
    PROVE  UNCHANGED vars \/ Start(n) \/ (Proceed(n) /\ run[n].alone)
<1>1. run[n] \in Processes
  BY DEF TypeInv
<1>2. [run[n] EXCEPT !.alone = FALSE].alone = FALSE
  BY <1>1 DEF Processes
<1>3. ASSUME NEW m \in Runs, NEW r, m # n, Becomes(m, r)
      PROVE  FALSE
  BY <1>2, <1>3 DEF Becomes
<1>4. ASSUME NEW m \in Runs, Start(m) \/ Proceed(m) \/ Die(m)
      PROVE  m = n
  <2>1. \E r : Becomes(m, r)
    BY <1>4 DEF Start, Proceed, Find, Ensure, Save, GoOn, Abort, Die
  <2> QED BY <1>3, <2>1
<1>5. ~Disturb
  BY <1>2 DEF Disturb
<1>6. ~(RenameHotel \/ RemoveRoom \/ RemoveAdmin \/ StartClear \/ Truncate)
  BY <1>5 DEF RenameHotel, RemoveRoom, RemoveAdmin, Edit, StartClear, Truncate
<1>7. ~Die(n)
  <2> SUFFICES ASSUME Die(n) PROVE FALSE
    OBVIOUS
  <2>1. run'[n] = [Off EXCEPT !.pc = "died"]
    BY DEF Die, Becomes
  <2> QED BY <2>1 DEF Off
<1>8. ASSUME Proceed(n)
      PROVE  run[n].alone
  <2>1. ASSUME NEW i, GoOn(n, i)
        PROVE  run[n].alone
    <3> DEFINE last == run[n].at = Len(Entries)
               pc   == IF last THEN "done" ELSE "query"
               at   == IF last THEN 0 ELSE run[n].at + 1
               mem  == Holding(run[n].mem, Entry(n).label, i)
    <3>1. run'[n] = [run[n] EXCEPT !.pc = pc, !.at = at, !.mem = mem]
      BY <2>1 DEF GoOn, Becomes
    <3> HIDE DEF pc, at, mem
    <3> QED BY <1>1, <3>1 DEF Processes
  <2>2. ASSUME Abort(n)
        PROVE  run[n].alone
    <3>1. run'[n] = [Off EXCEPT !.pc = "failed", !.alone = run[n].alone]
      BY <2>2 DEF Abort, Becomes
    <3> QED BY <3>1 DEF Off
  <2>3. ASSUME Becomes(n, [run[n] EXCEPT !.pc = "save"])
        PROVE  run[n].alone
    <3>1. run'[n] = [run[n] EXCEPT !.pc = "save"]
      BY <2>3 DEF Becomes
    <3> QED BY <1>1, <3>1 DEF Processes
  <2> QED BY <1>8, <2>1, <2>2, <2>3 DEF Proceed, Find, Ensure, Save
<1> QED BY <1>4, <1>6, <1>7, <1>8 DEF Next

\* If a function has as many values as arguments, it has no value twice.
LEMMA Distinct ==
    ASSUME NEW S, IsFiniteSet(S), NEW f, DOMAIN f = S, f = [x \in S |-> f[x]],
           Cardinality({f[x] : x \in S}) = Cardinality(S)
    PROVE  \A x, y \in S : f[x] = f[y] => x = y
<1> DEFINE T == {f[x] : x \in S}
<1>1. f \in [S -> T] /\ \A t \in T : \E x \in S : f[x] = t
  OBVIOUS
<1>2. Cardinality(T) = Cardinality(S)
  OBVIOUS
<1> HIDE DEF T
<1>3. f \in Surjection(S, T)
  BY <1>1, Fun_IsSurj
<1>4. f \in Injection(S, T)
  BY <1>2, <1>3, FS_Surjection
<1> QED BY <1>4, Fun_InjectionProperties

\* If the keys are as many as the rows, no two rows have one.
LEMMA KeysDiffer ==
    ASSUME TypeInv', ~Duplicated', NEW i \in SeededRows', NEW j \in SeededRows', Key(i)' = Key(j)'
    PROVE  i = j
<1> DEFINE f == [k \in SeededRows' |-> Key(k)']
<1>1. IsFiniteSet(SeededRows')
  <2>1. Len(row') \in Nat /\ SeededRows' \subseteq 1..Len(row')
    BY DEF TypeInv, SeededRows
  <2>2. IsFiniteSet(1..Len(row'))
    BY <2>1, FS_Interval
  <2> QED BY <2>1, <2>2, FS_Subset
<1>2. {f[k] : k \in SeededRows'} = {Key(k)' : k \in SeededRows'}
  OBVIOUS
<1>3. Cardinality({f[k] : k \in SeededRows'}) = Cardinality(SeededRows')
  BY <1>2 DEF Duplicated
<1>4. DOMAIN f = SeededRows' /\ f = [k \in SeededRows' |-> f[k]] /\ f[i] = f[j]
  OBVIOUS
<1> HIDE DEF f
<1> QED BY <1>1, <1>3, <1>4, Distinct

\* Rows are only added.
Extended == /\ DOMAIN row \subseteq DOMAIN row'
            /\ \A i \in DOMAIN row : row'[i] = row[i]

\* What has no duplicates now had none before.
LEMMA NoneBefore ==
    ASSUME TypeInv, TypeInv', Extended, ~Duplicated'
    PROVE  ~Duplicated
<1>1. ASSUME NEW k \in SeededRows
      PROVE  k \in SeededRows' /\ Key(k)' = Key(k)
  BY <1>1 DEF SeededRows, Seeded, Key, Extended
<1>2. ASSUME NEW i \in SeededRows, NEW j \in SeededRows, Key(i) = Key(j)
      PROVE  i = j
  BY <1>1, <1>2, KeysDiffer
<1> QED BY <1>2, KeysCount

\* Whatever a query for an entry finds has the key that the entry asks for.
LEMMA FoundKey ==
    ASSUME TypeInv', OriginInv', NEW k \in 1..Len(Entries'), NEW e, e = Entries'[k],
           NEW m, NEW x \in Found(e, m)'
    PROVE  /\ x \in SeededRows'
           /\ Key(x)' = <<e.table, row'[x].name,
                         [c \in KeyColumns(e.table, e.refs) |-> m[e.refs[c]]]>>
<1>1. /\ x \in DOMAIN row' /\ row'[x].table = e.table /\ row'[x].name \in e.names
      /\ row'[x].state = "LIVE"
      /\ \A c \in KeyColumns(e.table, e.refs) : row'[x].refs[c] = m[e.refs[c]]
  BY DEF Found, WithKey
<1>2. /\ \A q \in 1..Len(Entries') : MeansTheSame(Entries', q)
      /\ HasName(e)
  <2>1. scene'.plan \in DOMAIN Plans
    BY DEF TypeInv, SomeScene
  <2> QED BY <2>1, SeedingAssumption DEF Entries
<1>3. row'[x].table = "hotels" => row'[x].name # None
  BY <1>1, <1>2 DEF HasName
<1>4. PICK q \in 1..Len(Entries') : ComesFrom(x, Entries[q])'
  BY <1>1 DEF OriginInv
<1>5. /\ Entries'[q].table = e.table /\ DOMAIN row'[x].refs = DOMAIN Entries'[q].refs
      /\ row'[x].name \in Entries'[q].names \cap e.names
  BY <1>1, <1>3, <1>4 DEF ComesFrom
<1>6. DOMAIN KeyLabels(Entries'[q]) = DOMAIN KeyLabels(e)
  <2>1. Len(Entries') \in Nat
    BY <1>2 DEF TypeInv, SomeScene, Entries
  <2>2. CASE q < k
    <3>1. q \in 1..(k-1)
      BY <2>1, <2>2
    <3> QED BY <1>2, <1>5, <3>1 DEF MeansTheSame
  <2>3. CASE k < q
    <3>1. k \in 1..(q-1)
      BY <2>1, <2>3
    <3> QED BY <1>2, <1>5, <3>1 DEF MeansTheSame
  <2>4. CASE k = q
    BY <2>4
  <2> QED BY <2>1, <2>2, <2>3, <2>4
<1>7. KeyColumns(row'[x].table, row'[x].refs) = KeyColumns(e.table, e.refs)
  BY <1>1, <1>5, <1>6 DEF KeyLabels, KeyColumns
<1>8. x \in SeededRows'
  BY <1>1, <1>3 DEF SeededRows, Seeded
<1> QED BY <1>1, <1>7, <1>8 DEF Key

\* Entries with the same key labels have the same columns in the key, referring to the same.
LEMMA SameLabels ==
    ASSUME NEW d, NEW e, KeyLabels(d) = KeyLabels(e)
    PROVE  /\ KeyColumns(d.table, d.refs) = KeyColumns(e.table, e.refs)
           /\ \A c \in KeyColumns(e.table, e.refs) : d.refs[c] = e.refs[c]
<1>1. DOMAIN KeyLabels(d) = DOMAIN KeyLabels(e)
  OBVIOUS
<1>2. KeyColumns(d.table, d.refs) = KeyColumns(e.table, e.refs)
  BY <1>1 DEF KeyLabels
<1>3. \A c \in KeyColumns(e.table, e.refs) : KeyLabels(d)[c] = KeyLabels(e)[c]
  OBVIOUS
<1> QED BY <1>2, <1>3 DEF KeyLabels

\* A label given again stands for the row it stood for, while there are no duplicates.
LEMMA SameAgain ==
    ASSUME TypeInv, TypeInv', OriginInv', Entries' = Entries, Extended, ~Duplicated',
           NEW k \in 1..Len(Entries), NEW e, e = Entries[k], NEW m, Done(m, k - 1),
           NEW i \in Found(e, m)',
           NEW j \in 1..(k-1), Entries[j].label = e.label, e.label # None
    PROVE  m[e.label] = i
<1> DEFINE a == m[e.label]
<1>1. /\ Entries[j].table = e.table /\ Entries[j].names = e.names
      /\ KeyLabels(Entries[j]) = KeyLabels(e) /\ \A x, y \in e.names : x = y
  BY EntryFacts DEF MeansTheSame
<1>2. a \in Found(Entries[j], m)
  BY DEF Done
<1>3. /\ KeyColumns(Entries[j].table, Entries[j].refs) = KeyColumns(e.table, e.refs)
      /\ \A c \in KeyColumns(e.table, e.refs) : Entries[j].refs[c] = e.refs[c]
  BY <1>1, SameLabels
<1>4. a \in Found(e, m)'
  BY <1>1, <1>2, <1>3 DEF Found, WithKey, Extended
<1>5. row'[a].name = row'[i].name
  BY <1>1, <1>4 DEF Found, WithKey
<1> HIDE DEF a
<1>6. e = Entries'[k] /\ k \in 1..Len(Entries')
  OBVIOUS
<1>7. a \in SeededRows'
  BY <1>4, <1>6, FoundKey
<1>8. i \in SeededRows'
  BY <1>6, FoundKey
<1>9. Key(a)' = <<e.table, row'[a].name, [c \in KeyColumns(e.table, e.refs) |-> m[e.refs[c]]]>>
  BY <1>4, <1>6, FoundKey
<1>10. Key(i)' = <<e.table, row'[i].name, [c \in KeyColumns(e.table, e.refs) |-> m[e.refs[c]]]>>
  BY <1>6, FoundKey
<1> QED BY <1>5, <1>7, <1>8, <1>9, <1>10, KeysDiffer DEF a

\* A run goes on from what it has done.
LEMMA DoneFurther ==
    ASSUME TypeInv, TypeInv', OriginInv', Entries' = Entries, Extended, ~Duplicated',
           NEW k \in 1..Len(Entries), NEW e, e = Entries[k], NEW m, Done(m, k - 1),
           \A j \in 1..(k-1) : Entries[j].label # None => Entries[j].label \in DOMAIN m,
           NEW i \in Found(e, m)', NEW m2, m2 = Holding(m, e.label, i)
    PROVE  Done(m2, k)'
<1>1. ASSUME NEW j \in 1..(k-1), Entries[j].label # None
      PROVE  m2[Entries[j].label] = m[Entries[j].label]
  <2>1. CASE Entries[j].label = e.label
    <3>1. m[e.label] = i
      BY <1>1, <2>1, SameAgain
    <3>2. m2[e.label] = i
      BY <1>1, <2>1, HoldingFacts
    <3> QED BY <2>1, <3>1, <3>2
  <2>2. CASE Entries[j].label # e.label
    BY <1>1, <2>2, HoldingFacts
  <2> QED BY <2>1, <2>2
<1>2. ASSUME NEW j \in 1..k, NEW d, d = Entries[j]
      PROVE  Found(d, m2)' = Found(d, m)'
  <2>1. j \in 1..Len(Entries) /\ k \in Nat /\ Len(Entries) \in Nat
    BY EntryFacts
  <2>2. ASSUME NEW c \in DOMAIN d.refs
        PROVE  m2[d.refs[c]] = m[d.refs[c]]
    <3>1. PICK q \in 1..(j-1) : Entries[q].label = d.refs[c]
      BY <1>2, <2>1, EntryFacts DEF HoldsRefs
    <3>2. d.refs[c] # None /\ q \in 1..(k-1)
      BY <1>2, <2>1, EntryFacts DEF HoldsRefs
    <3> QED BY <1>1, <3>1, <3>2
  <2>3. \A c \in KeyColumns(d.table, d.refs) : m2[d.refs[c]] = m[d.refs[c]]
    BY <2>2 DEF KeyColumns
  <2> QED BY <2>3 DEF Found, WithKey
<1>3. ASSUME NEW j \in 1..k, NEW d, d = Entries[j]
      PROVE  /\ Found(d, m2)' # {}
             /\ d.label # None => m2[d.label] \in Found(d, m2)'
  <2>1. Found(d, m2)' = Found(d, m)'
    BY <1>2, <1>3
  <2>2. CASE j = k
    BY <1>3, <2>1, <2>2, HoldingFacts
  <2>3. CASE j # k
    <3>1. j \in 1..(k-1)
      BY <2>3, EntryFacts
    <3>2. Found(d, m) \subseteq Found(d, m)'
      BY DEF Found, WithKey, Extended
    <3>3. Found(d, m) # {} /\ (d.label # None => m[d.label] \in Found(d, m))
      BY <1>3, <3>1 DEF Done
    <3> QED BY <1>1, <1>3, <2>1, <3>1, <3>2, <3>3
  <2> QED BY <2>2, <2>3
<1>4. ASSUME NEW j \in 1..k
      PROVE  ( /\ Found(Entries[j], m2) # {}
               /\ Entries[j].label # None => m2[Entries[j].label] \in Found(Entries[j], m2) )'
  <2>1. PICK d : d = Entries[j]
    OBVIOUS
  <2>2. Found(d, m2)' # {} /\ (d.label # None => m2[d.label] \in Found(d, m2)')
    BY <1>3, <2>1
  <2>3. Found(Entries[j], m2)' = Found(d, m2)'
    BY <2>1 DEF Found, WithKey
  <2> QED BY <2>1, <2>2, <2>3
<1> QED BY <1>4 DEF Done

\* A step over an entry whose row is now there.
LEMMA WentUndisturbed ==
    ASSUME UndisturbedInv, TypeInv', OriginInv', Entries' = Entries, Extended,
           NEW n \in Runs, Undisturbed(n), NEW i, Went(n, i),
           NEW e, e = Entry(n), NEW m, m = run[n].mem, i \in Found(e, m)'
    PROVE  Undisturbed(n)'
<1> USE DEF UndisturbedInv, SeedingInv
<1> DEFINE k  == run[n].at
           m2 == Holding(m, e.label, i)
<1>1. Active(n) /\ run'[n].mem = m2
  BY DEF Went
<1>2. k \in 1..Len(Entries) /\ e = Entries[k] /\ Len(Entries) \in Nat
  BY <1>1, ActiveEntry, EntryFacts
<1>3. \/ run'[n].pc = "done" /\ k = Len(Entries)
      \/ run'[n].pc = "query" /\ run'[n].at = k + 1
  BY DEF Went
<1>4. row'[i].state = "LIVE"
  BY DEF Found
<1>5. \A l \in DOMAIN m : row'[m[l]].state = "LIVE"
  BY <1>1 DEF HeldInv, Undisturbed, Extended
<1>6. \A l \in DOMAIN m2 : row'[m2[l]].state = "LIVE"
  BY <1>4, <1>5, HoldingFacts
<1>7. \A j \in 1..(k-1) : Entries[j].label # None => Entries[j].label \in DOMAIN m
  BY DEF HeldInv
<1>8. ASSUME ~Duplicated'
      PROVE  \A j \in 1..k : ( /\ Found(Entries[j], run[n].mem) # {}
                               /\ Entries[j].label # None =>
                                     run[n].mem[Entries[j].label] \in Found(Entries[j], run[n].mem) )'
  <2>1. Done(m, k - 1)
    BY <1>1, <1>8, NoneBefore DEF Undisturbed
  <2>2. PICK q : q = k
    OBVIOUS
  <2>3. PICK m3 : m3 = m2
    OBVIOUS
  <2> HIDE DEF m2
  <2>4. q \in 1..Len(Entries) /\ e = Entries[q] /\ Done(m, q - 1)
    BY <1>2, <2>1, <2>2
  <2>5. \A j \in 1..(q-1) : Entries[j].label # None => Entries[j].label \in DOMAIN m
    BY <1>7, <2>2
  <2>6. m3 = Holding(m, e.label, i)
    BY <2>3 DEF m2
  <2>7. Done(m3, q)'
    BY <1>8, <2>4, <2>5, <2>6, DoneFurther
  <2>8. ASSUME NEW j \in 1..q
        PROVE  ( /\ Found(Entries[j], m3) # {}
                 /\ Entries[j].label # None => m3[Entries[j].label] \in Found(Entries[j], m3) )'
    BY <2>7 DEF Done
  <2>9. run'[n].mem = m3
    BY <1>1, <2>3
  <2> QED BY <2>2, <2>8, <2>9 DEF Found, WithKey
<1>9. ASSUME ~Duplicated', run'[n].pc = "done"
      PROVE  Done(run[n].mem, Len(Entries))'
  BY <1>2, <1>3, <1>8, <1>9 DEF Done
<1>10. ASSUME ~Duplicated', run'[n].pc = "query"
       PROVE  Done(run[n].mem, run[n].at - 1)'
  <2>1. run'[n].at - 1 = k
    BY <1>2, <1>3, <1>10
  <2> QED BY <1>8, <1>10, <2>1 DEF Done
<1>11. run'[n].pc \in {"done", "query"}
  BY <1>3
<1> QED BY <1>1, <1>6, <1>9, <1>10, <1>11 DEF Undisturbed, Active

LEMMA SameDuplicates ==
    ASSUME row' = row
    PROVE  Duplicated' = Duplicated /\ AdminRemoved' = AdminRemoved
<1>1. SeededRows' = SeededRows
  BY DEF SeededRows, Seeded
<1>2. {Key(i)' : i \in SeededRows'} = {Key(i) : i \in SeededRows}
  BY <1>1 DEF Key
<1> QED BY <1>1, <1>2 DEF Duplicated, AdminRemoved

LEMMA StillDone ==
    ASSUME row' = row, Entries' = Entries, NEW n \in Runs, run'[n].mem = run[n].mem,
           NEW k, Done(run[n].mem, k), NEW x \in 1..k
    PROVE  ( /\ Found(Entries[x], run[n].mem) # {}
             /\ Entries[x].label # None =>
                   run[n].mem[Entries[x].label] \in Found(Entries[x], run[n].mem) )'
<1>1. PICK d : d = Entries[x]
  OBVIOUS
<1>2. PICK m : m = run[n].mem
  OBVIOUS
<1>3. Found(d, m) # {} /\ (d.label # None => m[d.label] \in Found(d, m))
  BY <1>1, <1>2 DEF Done
<1>4. Found(Entries[x], run[n].mem)' = Found(d, m)
  BY <1>1, <1>2 DEF Found, WithKey
<1> QED BY <1>1, <1>2, <1>3, <1>4

LEMMA SameUndisturbed ==
    ASSUME row' = row, Entries' = Entries, NEW n \in Runs, Same(n), Undisturbed(n)
    PROVE  Undisturbed(n)'
<1>1. Duplicated' = Duplicated /\ AdminRemoved' = AdminRemoved
  BY SameDuplicates
<1>2. Active(n)' = Active(n)
  BY DEF Same, Active
<1>3. ASSUME NEW k
      PROVE  Done(run[n].mem, k) => \A x \in 1..k :
                ( /\ Found(Entries[x], run[n].mem) # {}
                  /\ Entries[x].label # None =>
                        run[n].mem[Entries[x].label] \in Found(Entries[x], run[n].mem) )'
  BY StillDone DEF Same
<1>4. Active(n)' /\ ~Duplicated' => Done(run[n].mem, run[n].at - 1)'
  BY <1>1, <1>2, <1>3 DEF Undisturbed, Done, Same
<1>5. run'[n].pc = "done" /\ ~Duplicated' => Done(run[n].mem, Len(Entries))'
  BY <1>1, <1>3 DEF Undisturbed, Done, Same
<1>6. run'[n].pc = "save" => Found(Entry(n), run[n].mem)' = {}
  BY DEF Undisturbed, Entry, Found, WithKey, Same
<1>7. Active(n)' => \A l \in DOMAIN run'[n].mem : row'[run'[n].mem[l]].state = "LIVE"
  BY <1>2 DEF Undisturbed, Same
<1> QED BY <1>1, <1>4, <1>5, <1>6, <1>7 DEF Undisturbed, Same

LEMMA BegunUndisturbed ==
    ASSUME NEW n \in Runs, Begun(n)
    PROVE  Undisturbed(n)'
<1>1. run'[n].pc = "query" /\ run'[n].at = 1 /\ DOMAIN run'[n].mem = {}
  BY DEF Begun
<1>2. Done(run[n].mem, run[n].at - 1)'
  BY <1>1 DEF Done
<1> QED BY <1>1, <1>2 DEF Undisturbed

LEMMA MissedUndisturbed ==
    ASSUME row' = row, Entries' = Entries, NEW n \in Runs, Missed(n), Undisturbed(n)
    PROVE  Undisturbed(n)'
<1>1. Duplicated' = Duplicated
  BY SameDuplicates
<1>2. /\ Active(n) /\ run'[n].pc = "save" /\ run'[n].at = run[n].at /\ run'[n].mem = run[n].mem
      /\ Found(Entry(n), run[n].mem) = {}
  BY DEF Missed, Active
<1>3. ~Duplicated' => Done(run[n].mem, run[n].at - 1)'
  <2>1. ~Duplicated => Done(run[n].mem, run[n].at - 1)
    BY <1>2 DEF Undisturbed
  <2>2. PICK k : k = run[n].at - 1
    OBVIOUS
  <2>3. ~Duplicated => \A x \in 1..k :
            ( /\ Found(Entries[x], run[n].mem) # {}
              /\ Entries[x].label # None =>
                    run[n].mem[Entries[x].label] \in Found(Entries[x], run[n].mem) )'
    BY <1>2, <2>1, <2>2, StillDone
  <2> QED BY <1>1, <1>2, <2>2, <2>3 DEF Done
<1>4. Found(Entry(n), run[n].mem)' = {}
  BY <1>2 DEF Entry, Found, WithKey
<1>5. \A l \in DOMAIN run'[n].mem : row'[run'[n].mem[l]].state = "LIVE"
  BY <1>2 DEF Undisturbed
<1> QED BY <1>2, <1>3, <1>4, <1>5 DEF Undisturbed

\* Nothing but a removed administrator makes an undisturbed run fail: what is looked for was
\* ensured before, and what a row is to refer to is there.
LEMMA AbortedUndisturbed ==
    ASSUME UndisturbedInv, NEW n \in Runs, Active(n), Undisturbed(n), Aborted(n),
           \/ Entry(n).find /\ Found(Entry(n), run[n].mem) = {}
           \/ run[n].pc = "save" /\ Refused(n)
    PROVE  Undisturbed(n)'
<1> USE DEF UndisturbedInv, SeedingInv
<1>1. run'[n].pc = "failed" /\ row' = row
  BY DEF Aborted
<1>2. Duplicated' = Duplicated /\ AdminRemoved' = AdminRemoved
  BY <1>1, SameDuplicates
<1>3. ASSUME ~Duplicated, Entry(n).find, Found(Entry(n), run[n].mem) = {}
      PROVE  FALSE
  <2> DEFINE k == run[n].at
             m == run[n].mem
  <2>1. k \in 1..Len(Entries) /\ Entry(n) = Entries[k] /\ EnsuredBefore(Entries, k)
    BY ActiveEntry, EntryFacts
  <2>2. PICK j \in 1..(k-1) :
            /\ Entries[j].table = Entries[k].table /\ Entries[j].names \subseteq Entries[k].names
            /\ KeyLabels(Entries[j]) = KeyLabels(Entries[k])
    BY <1>3, <2>1 DEF EnsuredBefore
  <2>3. PICK x : x \in Found(Entries[j], m)
    BY <1>3 DEF Undisturbed, Done
  <2>4. /\ KeyColumns(Entries[j].table, Entries[j].refs)
               = KeyColumns(Entries[k].table, Entries[k].refs)
        /\ \A c \in KeyColumns(Entries[k].table, Entries[k].refs) :
              Entries[j].refs[c] = Entries[k].refs[c]
    BY <2>2, SameLabels
  <2>5. x \in Found(Entries[k], m)
    BY <2>2, <2>3, <2>4 DEF Found, WithKey
  <2> QED BY <1>3, <2>1, <2>5
<1>4. ASSUME run[n].pc = "save", Refused(n)
      PROVE  AdminRemoved
  <2>1. ASSUME NEW c \in DOMAIN Entry(n).refs
        PROVE  row[run[n].mem[Entry(n).refs[c]]].state # "GONE"
    BY <2>1, RefsHeld DEF Undisturbed
  <2>2. PICK i \in WithKey(Entry(n), run[n].mem) : row[i].state # "GONE"
    BY <1>4, <2>1 DEF Refused
  <2>3. i \in DOMAIN row /\ row[i].state # "LIVE"
    BY <1>4, <2>2 DEF Undisturbed, Found, WithKey
  <2>4. row[i] \in Rows
    BY <1>4, <2>3, QueryFacts
  <2>5. row[i].state = "REMOVED"
    BY <2>2, <2>3, <2>4 DEF Rows
  <2> QED BY <2>3, <2>5 DEF RemovedInv, AdminRemoved
<1> QED BY <1>1, <1>2, <1>3, <1>4 DEF Undisturbed, Active

LEMMA AloneKept ==
    ASSUME UndisturbedInv, [Next]_vars
    PROVE  AloneInv'
<1> USE DEF UndisturbedInv, SeedingInv
<1> SUFFICES ASSUME NEW n \in Runs, run'[n].alone
             PROVE  Undisturbed(n)'
  BY DEF AloneInv
<1>1. TypeInv' /\ OriginInv' /\ Entries' = Entries
  BY StepKinds, RemovedOriginKept
<1>2. CASE UNCHANGED vars
  BY <1>1, <1>2, SameUndisturbed DEF vars, Same, AloneInv
<1>3. CASE Start(n)
  BY <1>3, StartTo, BegunUndisturbed
<1>4. ASSUME Proceed(n), run[n].alone
      PROVE  Undisturbed(n)'
  <2>1. Undisturbed(n)
    BY <1>4 DEF AloneInv
  <2>2. CASE Seen(n)
    <3>1. PICK i \in Found(Entry(n), run[n].mem) : Went(n, i)
      BY <2>2 DEF Seen
    <3>2. row' = row /\ Extended
      BY <2>2 DEF Seen, Extended
    <3>3. PICK e : e = Entry(n)
      OBVIOUS
    <3>4. PICK m : m = run[n].mem
      OBVIOUS
    <3>5. i \in Found(e, m)'
      BY <3>1, <3>2, <3>3, <3>4 DEF Found, WithKey
    <3> QED BY <1>1, <2>1, <3>1, <3>2, <3>3, <3>4, <3>5, WentUndisturbed
  <2>3. CASE Saved(n)
    <3>1. PICK new \in Rows : Fits(n, new) /\ row' = Append(row, new)
      BY <2>3 DEF Saved
    <3>2. PICK l : l = Len(row) + 1
      OBVIOUS
    <3>3. Went(n, l)
      BY <2>3, <3>2 DEF Saved
    <3>4. Extended /\ l \in DOMAIN row' /\ row'[l] = new
      BY <3>1, <3>2, SavedRow DEF Extended
    <3>5. PICK e : e = Entry(n)
      OBVIOUS
    <3>6. PICK m : m = run[n].mem
      OBVIOUS
    <3>7. l \in Found(e, m)'
      BY <3>1, <3>4, <3>5, <3>6 DEF Found, WithKey, Fits, KeyColumns
    <3> QED BY <1>1, <2>1, <3>3, <3>4, <3>5, <3>6, <3>7, WentUndisturbed
  <2>4. CASE Missed(n) /\ row' = row
    BY <1>1, <2>1, <2>4, MissedUndisturbed
  <2>5. CASE Aborted(n) /\ Entry(n).find /\ Found(Entry(n), run[n].mem) = {} /\ Active(n)
    BY <2>1, <2>5, AbortedUndisturbed
  <2>6. CASE Aborted(n) /\ run[n].pc = "save" /\ Refused(n)
    BY <2>1, <2>6, AbortedUndisturbed DEF Active
  <2>7. CASE Find(n)
    <3>1. Entry(n).find /\ Active(n)
      BY <2>7 DEF Find, Active
    <3> QED BY <2>2, <2>5, <2>7, <3>1, FindTo
  <2>8. CASE Ensure(n)
    BY <2>2, <2>4, <2>8, EnsureTo
  <2>9. CASE Save(n)
    BY <2>3, <2>6, <2>9, SaveTo DEF Save
  <2> QED BY <1>4, <2>7, <2>8, <2>9 DEF Proceed
<1> QED BY <1>2, <1>3, <1>4, AloneSteps

LEMMA UndisturbedInit == ASSUME Init PROVE UndisturbedInv
<1>1. SeedingInv
  BY SeedingInit
<1>2. DOMAIN row = {}
  BY DEF Init
<1>3. \A n \in Runs : run[n].alone = FALSE
  BY DEF Init, Off
<1> QED BY <1>1, <1>2, <1>3 DEF UndisturbedInv, RemovedInv, OriginInv, AloneInv

--------------------------------------------------------------------------------
\* The invariant of Seeding: a run holds a row for every label behind it, what it is about to
\* save is missing while it is alone, and rooms and types agree on the hotel.
THEOREM SeedingCorrect == Spec => []SeedingInv
BY SeedingInit, SeedingStep, PTL DEF Spec

\* However often runs die and are started again, staff edit and the tables are cleared,
\* seeders that look for a row before they insert it make no second row of one natural key
\* (room-type.seeder.ts:174-189 and the like), unless two runs overlapped.
THEOREM OneRowForAKey == Spec => []OneRowPerKey
<1>1. SeedingInv => OneRowPerKey
  BY KeysCount DEF SeedingInv, OneKeyInv, OneRowPerKey
<1> QED BY <1>1, SeedingCorrect, PTL

\* While there are no duplicates, a run that nobody disturbs and that does not die leaves a
\* live row for every entry, attached to the parents it names, whatever runs, edits and clears
\* came before it; and it fails only if a seeded administrator was removed (seed.ts:15-74,
\* auth.seeder.ts:335-347).
THEOREM AloneRunsEndWell == Spec => []AloneEndsWell
<1>1. UndisturbedInv /\ [Next]_vars => UndisturbedInv'
  BY SeedingStep, RemovedOriginKept, AloneKept DEF UndisturbedInv
<1>2. UndisturbedInv => AloneEndsWell
  <2> SUFFICES ASSUME UndisturbedInv, NEW n \in Runs, run[n].alone, ~Duplicated
               PROVE  /\ run[n].pc = "done" =>
                            \A k \in DOMAIN Entries : HasRow(Entries[k], run[n].mem)
                      /\ run[n].pc = "failed" => AdminRemoved
    BY DEF AloneEndsWell
  <2>1. Undisturbed(n)
    BY DEF UndisturbedInv, AloneInv
  <2>2. DOMAIN Entries = 1..Len(Entries)
    BY EntryFacts DEF UndisturbedInv, SeedingInv
  <2>3. ASSUME run[n].pc = "done", NEW k \in DOMAIN Entries
        PROVE  HasRow(Entries[k], run[n].mem)
    <3>1. Done(run[n].mem, Len(Entries))
      BY <2>1, <2>3 DEF Undisturbed
    <3>2. PICK x : x \in Found(Entries[k], run[n].mem)
      BY <2>2, <3>1 DEF Done
    <3> QED BY <3>2 DEF Found, WithKey, HasRow
  <2> QED BY <2>1, <2>3 DEF Undisturbed
<1> QED BY <1>1, <1>2, UndisturbedInit, PTL DEF Spec

\* However many runs overlap and make hotels and types of the same names, a seeded room is of
\* a type of its own hotel (room.seeder.ts:389-421).
THEOREM RoomsAreOfTheirHotel == Spec => []RoomTypeOfItsHotel
<1>1. SeedingInv => RoomTypeOfItsHotel
  BY DEF SeedingInv, RoomInv, RoomTypeOfItsHotel
<1> QED BY <1>1, SeedingCorrect, PTL
==================================================================================
