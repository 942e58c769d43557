--------------------------------- MODULE Seeding ---------------------------------
(***************************************************************************)
(* `npm run db:seed`, `npm run db:clear` and what staff do to the seeded   *)
(* rows between and during them.                                           *)
(*                                                                         *)
(* The ten seeders that seed.ts calls are one program: a sequence of       *)
(* entries (SeedPlan has the real one).  An entry either finds a row by    *)
(* its natural key and fails if there is none, or ensures one: it looks    *)
(* for the row and inserts it when it is missing.  The columns that refer  *)
(* to other rows are given by labels, the names the program has for the    *)
(* entities it holds; `mem` is what it holds under them.                   *)
(*                                                                         *)
(* Each query and each insert commits by itself.  The columns that are     *)
(* neither names nor references are left out.                              *)
(***************************************************************************)
EXTENDS Integers, Sequences, FiniteSets

CONSTANTS
    Runs,           \* processes that run the seeders
    Plans,          \* Plans[p]: a sequence of entries
    Scenes,         \* the plan that is run, and how often a run may die, staff may edit and
                    \* the tables may be cleared: [plan, runs, dies, edits, clears]
    None            \* no label; also the name of a link row, and a name of no entry

VARIABLES
    scene,          \* one of Scenes, its numbers counting down (a bound)
    row,            \* all rows ever inserted, in that order; a row's index is its id.  One that
                    \* is REMOVED is soft-deleted: queries pass over it, unique indexes do not.
                    \* One that is GONE was deleted
    run,            \* the run of each process
    toClear,        \* tables the cleaner has still to truncate
    overlapped      \* history: two runs were active at the same time

vars == <<scene, row, run, toClear, overlapped>>

Entries == Plans[scene.plan]

\* A column that refers to another row but is no part of the natural key.
NotInKey == {<<"admins", "roleId">>, <<"users", "roleId">>, <<"hotels", "createdBy">>,
             <<"rooms", "roomTypeId">>}

KeyColumns(table, refs) == {c \in DOMAIN refs : <<table, c>> \notin NotInKey}

\* The labels that stand for the references in an entry's natural key.
KeyLabels(e) == [c \in KeyColumns(e.table, e.refs) |-> e.refs[c]]

\* What the seeders' texts have in common.  An entry uses only labels that earlier entries gave.
HoldsRefs(plan, k) ==
    \A c \in DOMAIN plan[k].refs :
        plan[k].refs[c] # None /\ \E j \in 1..(k-1) : plan[j].label = plan[k].refs[c]

\* It has a name, which for a hotel is none that staff give.
HasName(e) == /\ ~e.find => e.names # {}
              /\ e.table = "hotels" => None \notin e.names

\* A room is ensured right after its type was looked for, by the hotel the room is to be in.
FindsTypeFirst(plan, k) ==
    plan[k].table = "rooms" /\ ~plan[k].find =>
        /\ k > 1 /\ {"hotelId", "roomTypeId"} \subseteq DOMAIN plan[k].refs
        /\ plan[k-1].find /\ plan[k-1].table = "roomTypes" /\ "hotelId" \in DOMAIN plan[k-1].refs
        /\ plan[k-1].refs["hotelId"] = plan[k].refs["hotelId"]
        /\ plan[k-1].label = plan[k].refs["roomTypeId"]
        /\ plan[k-1].label # plan[k].refs["hotelId"]

\* What is looked for was ensured by an earlier entry, of the same parents.
EnsuredBefore(plan, k) ==
    plan[k].find =>
        \E j \in 1..(k-1) :
            /\ ~plan[j].find /\ plan[j].table = plan[k].table
            /\ plan[j].names \subseteq plan[k].names /\ KeyLabels(plan[j]) = KeyLabels(plan[k])

\* A label that is given again is given for the same name of the same parents, and one table is
\* looked through by the same columns for one name.
MeansTheSame(plan, k) ==
    \A j \in 1..(k-1) :
        /\ plan[j].label = plan[k].label /\ plan[k].label # None =>
              /\ plan[j].table = plan[k].table /\ plan[j].names = plan[k].names
              /\ KeyLabels(plan[j]) = KeyLabels(plan[k])
              /\ \A x, y \in plan[k].names : x = y
        /\ plan[j].table = plan[k].table /\ plan[j].names \cap plan[k].names # {} =>
              DOMAIN KeyLabels(plan[j]) = DOMAIN KeyLabels(plan[k])

ASSUME SeedingAssumption ==
    /\ \A p \in DOMAIN Plans :
          /\ Len(Plans[p]) \in Nat \ {0} /\ DOMAIN Plans[p] = 1..Len(Plans[p])
          /\ \A k \in 1..Len(Plans[p]) :
                /\ HoldsRefs(Plans[p], k)
                /\ HasName(Plans[p][k])
                /\ FindsTypeFirst(Plans[p], k)
                /\ EnsuredBefore(Plans[p], k)
                /\ MeansTheSame(Plans[p], k)
    /\ Scenes \subseteq [plan : DOMAIN Plans, runs : SUBSET Runs, dies : Nat, edits : Nat,
                         clears : Nat]

\* Tables whose natural key has a unique index; users, roles, hotels, room types, rate
\* options, characteristics and benefits have none.
Unique == {"modules", "permissions", "rolePermissions", "admins", "rooms",
           "roomTypeCharacteristics", "rateOptionBenefits", "settings"}

\* The tables whose rows refer to rows of a table.
ReferredBy(table) ==
    CASE table = "modules"             -> {"permissions"}
      [] table = "permissions"         -> {"rolePermissions"}
      [] table = "roles"               -> {"rolePermissions", "admins", "users"}
      [] table = "admins"              -> {"hotels"}
      [] table = "hotels"              -> {"roomTypes", "rooms"}
      [] table = "roomTypes"           -> {"rooms", "rateOptions", "roomTypeCharacteristics"}
      [] table = "roomCharacteristics" -> {"roomTypeCharacteristics"}
      [] table = "rateOptions"         -> {"rateOptionBenefits"}
      [] table = "benefits"            -> {"rateOptionBenefits"}
      [] OTHER                         -> {}

Tables == {"modules", "permissions", "roles", "rolePermissions", "admins", "users", "hotels",
           "roomCharacteristics", "roomTypes", "roomTypeCharacteristics", "rooms", "benefits",
           "rateOptions", "rateOptionBenefits", "settings"}

\* TRUNCATE ... CASCADE empties the table and all that refer to it, over any number of steps.
Truncated(table) ==
    LET within[n \in 0..6] ==
          IF n = 0 THEN {table} ELSE within[n-1] \cup UNION {ReferredBy(t) : t \in within[n-1]}
    IN  within[6]

\* Variant: the parents are left out of the key.
WithName(e, m) == {i \in DOMAIN row : row[i].table = e.table /\ row[i].name \in e.names}

\* The rows with the natural key of entry e, the entities held being m.
WithKey(e, m) ==
    {i \in DOMAIN row :
        /\ row[i].table = e.table /\ row[i].name \in e.names
        /\ \A c \in KeyColumns(e.table, e.refs) : row[i].refs[c] = m[e.refs[c]]}

Found(e, m) == {i \in WithKey(e, m) : row[i].state = "LIVE"}

--------------------------------------------------------------------------------
Off == [pc |-> "off", at |-> 0, mem |-> <<>>, alone |-> FALSE]

Active(n) == run[n].pc \in {"query", "save"}

Entry(n) == Entries[run[n].at]

\* Run n becomes r, and no other run is alone any more.
Becomes(n, r) ==
    run' = [m \in Runs |-> IF m = n THEN r ELSE [run[m] EXCEPT !.alone = FALSE]]

Disturb == run' = [m \in Runs |-> [run[m] EXCEPT !.alone = FALSE]]

\* What is held once row i has a label; an older row of that label is forgotten.
Holding(m, label, i) ==
    IF label = None THEN m
    ELSE [l \in DOMAIN m \cup {label} |-> IF l = label THEN i ELSE m[l]]

\* The run goes on to the next entry, holding row i under the label of this one.
GoOn(n, i) ==
    LET last == run[n].at = Len(Entries)
    IN  Becomes(n, [run[n] EXCEPT !.pc  = IF last THEN "done" ELSE "query",
                                  !.at  = IF last THEN 0 ELSE @ + 1,
                                  !.mem = Holding(@, Entry(n).label, i)])

\* An error reaches runSeeders, which exits with status 1.
Abort(n) == Becomes(n, [Off EXCEPT !.pc = "failed", !.alone = run[n].alone])

Init ==
    /\ scene \in Scenes
    /\ row = <<>>
    /\ run = [n \in Runs |-> Off]
    /\ toClear = {}
    /\ overlapped = FALSE

Start(n) ==
    /\ ~Active(n) /\ n \in scene.runs
    /\ LET others == {m \in Runs \ {n} : Active(m)}
       IN  /\ Becomes(n, [Off EXCEPT !.pc = "query", !.at = 1,
                                     !.alone = (others = {} /\ toClear = {})])
           /\ overlapped' = (overlapped \/ others # {})
    /\ UNCHANGED <<scene, row, toClear>>

\* Variant: the row of an entry may belong to any parent.
FindAnywhere(n) ==
    /\ run[n].pc = "query" /\ Entry(n).find
    /\ LET found == {i \in DOMAIN row : /\ row[i].table = Entry(n).table
                                        /\ row[i].name \in Entry(n).names
                                        /\ row[i].state = "LIVE"}
       IN  IF found = {} THEN Abort(n) ELSE \E i \in found : GoOn(n, i)
    /\ UNCHANGED <<scene, row, toClear, overlapped>>

\* findOne of a row that an earlier seeder made; any one, if there are several.
Find(n) ==
    /\ run[n].pc = "query" /\ Entry(n).find
    /\ LET found == Found(Entry(n), run[n].mem)
       IN  IF found = {} THEN Abort(n) ELSE \E i \in found : GoOn(n, i)
    /\ UNCHANGED <<scene, row, toClear, overlapped>>

\* Variant: the seeder inserts without looking, in all tables or where no index is in the way.
EnsureBlindly(n) ==
    /\ run[n].pc = "query" /\ ~Entry(n).find
    /\ Becomes(n, [run[n] EXCEPT !.pc = "save"])
    /\ UNCHANGED <<scene, row, toClear, overlapped>>

EnsureUniqueOnly(n) ==
    /\ run[n].pc = "query" /\ ~Entry(n).find
    /\ LET found == Found(Entry(n), run[n].mem)
       IN  IF found = {} \/ Entry(n).table \notin Unique
           THEN Becomes(n, [run[n] EXCEPT !.pc = "save"])
           ELSE \E i \in found : GoOn(n, i)
    /\ UNCHANGED <<scene, row, toClear, overlapped>>

\* findOne of the row that this seeder makes.
Ensure(n) ==
    /\ run[n].pc = "query" /\ ~Entry(n).find
    /\ LET found == Found(Entry(n), run[n].mem)
       IN  IF found = {} THEN Becomes(n, [run[n] EXCEPT !.pc = "save"])
                         ELSE \E i \in found : GoOn(n, i)
    /\ UNCHANGED <<scene, row, toClear, overlapped>>

\* repository.save: refused if a unique index or a foreign key is against it.
Save(n) ==
    /\ run[n].pc = "save"
    /\ LET e    == Entry(n)
           refs == [c \in DOMAIN e.refs |-> run[n].mem[e.refs[c]]]
           taken == e.table \in Unique
                    /\ \E i \in WithKey(e, run[n].mem) : row[i].state # "GONE"
       IN  IF taken \/ \E c \in DOMAIN refs : row[refs[c]].state = "GONE"
           THEN Abort(n) /\ UNCHANGED row
           ELSE /\ row' = Append(row, [table |-> e.table, name |-> CHOOSE x \in e.names : TRUE,
                                       refs |-> refs, state |-> "LIVE"])
                /\ GoOn(n, Len(row) + 1)
    /\ UNCHANGED <<scene, toClear, overlapped>>

\* The process dies; what it has committed stays.
Die(n) ==
    /\ Active(n) /\ scene.dies > 0
    /\ scene' = [scene EXCEPT !.dies = @ - 1]
    /\ Becomes(n, [Off EXCEPT !.pc = "died"])
    /\ UNCHANGED <<row, toClear, overlapped>>

--------------------------------------------------------------------------------
\* Staff change seeded rows through the API, one commit each.

Edit(i, r) ==
    /\ scene.edits > 0 /\ row[i].state = "LIVE"
    /\ scene' = [scene EXCEPT !.edits = @ - 1]
    /\ row' = [row EXCEPT ![i] = r]
    /\ Disturb
    /\ UNCHANGED <<toClear, overlapped>>

\* HotelService.update gives a hotel a name that the seeder does not know.
RenameHotel == \E i \in DOMAIN row : row[i].table = "hotels" /\ Edit(i, [row[i] EXCEPT !.name = None])

\* RoomService.remove deletes the row.
RemoveRoom == \E i \in DOMAIN row : row[i].table = "rooms" /\ Edit(i, [row[i] EXCEPT !.state = "GONE"])

\* AdminService.remove soft-deletes it.
RemoveAdmin ==
    \E i \in DOMAIN row : row[i].table = "admins" /\ Edit(i, [row[i] EXCEPT !.state = "REMOVED"])

--------------------------------------------------------------------------------
\* clear.ts

\* The tables are listed by information_schema, in no particular order; those that the plan
\* does not fill are left out.
StartClear ==
    /\ toClear = {} /\ scene.clears > 0
    /\ scene' = [scene EXCEPT !.clears = @ - 1]
    /\ toClear' = {Entries[i].table : i \in DOMAIN Entries}
    /\ Disturb
    /\ UNCHANGED <<row, overlapped>>

Truncate ==
    /\ \E t \in toClear :
         /\ toClear' = toClear \ {t}
         /\ row' = [i \in DOMAIN row |-> IF row[i].table \in Truncated(t)
                                         THEN [row[i] EXCEPT !.state = "GONE"] ELSE row[i]]
    /\ Disturb
    /\ UNCHANGED <<scene, overlapped>>

--------------------------------------------------------------------------------
Proceed(n) == Find(n) \/ Ensure(n) \/ Save(n)

Next ==
    \/ \E n \in Runs : Start(n) \/ Proceed(n) \/ Die(n)
    \/ RenameHotel \/ RemoveRoom \/ RemoveAdmin
    \/ StartClear \/ Truncate

\* A process that runs is scheduled; a run that did not end well is started again, as the
\* developer does who needs the data; the cleaner, once started, goes through all tables.
Fairness ==
    /\ \A n \in Runs : WF_vars(Proceed(n)) /\ WF_vars(run[n].pc # "done" /\ Start(n))
    /\ WF_vars(Truncate)

Spec == Init /\ [][Next]_vars /\ Fairness

--------------------------------------------------------------------------------
\* Seeding again, after a run that died anywhere, after edits by staff or over a full
\* database, makes no second row of one natural key, unless two runs overlapped
\* (auth.seeder.ts:291-297, hotel.seeder.ts:108-121, room-type.seeder.ts:174-189 and the like).
Seeded(i) == row[i].state = "LIVE" /\ (row[i].table = "hotels" => row[i].name # None)

Key(i) == <<row[i].table, row[i].name,
            [c \in KeyColumns(row[i].table, row[i].refs) |-> row[i].refs[c]]>>

SeededRows == {i \in DOMAIN row : Seeded(i)}
Duplicated == Cardinality({Key(i) : i \in SeededRows}) # Cardinality(SeededRows)

OneRowPerKey == ~overlapped => ~Duplicated

\* A run with nobody else at work meanwhile, which does not die, leaves a row for every entry,
\* attached to the parents it names, and it fails only because a seeded administrator was
\* removed, as every name a seeder looks for was seeded before it (seed.ts:15-74; "Run
\* RoomTypeSeeder first.", rate-option.seeder.ts:383 and the like); unless overlapping runs made
\* duplicates, of which a seeder may find now one and now the other.
HasRow(e, m) ==
    \E i \in DOMAIN row : /\ row[i].table = e.table /\ row[i].state = "LIVE"
                          /\ row[i].name \in e.names
                          /\ \A c \in KeyColumns(e.table, e.refs) : row[i].refs[c] = m[e.refs[c]]

AdminRemoved == \E i \in DOMAIN row : row[i].table = "admins" /\ row[i].state = "REMOVED"

AloneEndsWell ==
    \A n \in Runs : run[n].alone /\ ~Duplicated =>
        /\ run[n].pc = "done" => \A k \in DOMAIN Entries : HasRow(Entries[k], run[n].mem)
        /\ run[n].pc = "failed" => AdminRemoved

\* A seeded room is of a type of its own hotel, also when two runs have made hotels and types
\* of the same names (room.seeder.ts:389-421).
RoomTypeOfItsHotel ==
    \A i \in DOMAIN row : row[i].table = "rooms" /\ row[i].state # "GONE" =>
        row[row[i].refs["roomTypeId"]].refs["hotelId"] = row[i].refs["hotelId"]

\* However runs overlap, die and are disturbed, one of them ends well at last, unless a
\* seeded administrator stays removed, whose e-mail is then neither found nor free, or two
\* rows of one name were made, of which any may be found (auth.seeder.ts:335-347,
\* room-type.seeder.ts:164-176).
EventuallySeeded ==
    <>(\E n \in Runs : run[n].pc = "done") \/ <>[]AdminRemoved \/ <>Duplicated
================================================================================
