--------------------------- MODULE RegistrationProofs ---------------------------
(***************************************************************************)
(* Registration for any number of requests, users and phones: types, no    *)
(* account without a password, and one account for a phone and a way.      *)
(***************************************************************************)
EXTENDS Registration, TLAPS

LEMMA IdleOK == Idle \in Request /\ LocalOK(Idle)
  BY DEF Idle, Request, LocalOK, RowOK, NoRow, Row, Suspended, Saving, Columns,
         UserRegistrationStage

\* Moving one slot to a well-formed request, over rows that are in order, keeps RowsInv.
LEMMA SlotMoves ==
    ASSUME RowsInv, NEW s \in Slots, NEW r \in Request, LocalOK(r),
           req' = [req EXCEPT ![s] = r],
           user' \in [Users -> Row], \A u \in Users : RowOK(user'[u]),
           \A u \in Users : user[u].stage # "NONE" => user'[u].stage # "NONE",
           r.pc \in Saving => user'[r.u].stage # "NONE",
           access' \subseteq Users, torn' \subseteq Users, calm' \in BOOLEAN,
           fails' \in 0..MaxFails
    PROVE  RowsInv'
<1>1. req' \in [Slots -> Request] /\ \A t \in Slots : req'[t] = IF t = s THEN r ELSE req[t]
  BY DEF RowsInv, TypeOK
<1>2. \A t \in Slots : LocalOK(req'[t])
  BY <1>1 DEF RowsInv
<1>3. \A u \in Users : user'[u].stage # "NONE" => user'[u].phone \in Phones
  BY DEF RowOK
<1>4. \A t \in Slots : req'[t].pc \in Saving => user'[req'[t].u].stage # "NONE"
  BY <1>1 DEF RowsInv, LocalOK
<1>5. TypeOK'
  BY <1>1, <1>3 DEF TypeOK
<1>6. \A t \in Slots : LocalOK(req[t])'
  BY <1>2 DEF LocalOK, RowOK
<1> QED
  BY <1>4, <1>5, <1>6 DEF RowsInv, RowOK

\* A request that arrives writes nothing yet.
LEMMA StartKeepsRows ==
    ASSUME RowsInv, NEW s \in Slots, NEW r \in Request, LocalOK(r),
           r.pc \in Saving => user[r.u].stage # "NONE",
           Start(s, r), UNCHANGED <<user, access>>
    PROVE  RowsInv'
<1>1. calm' \in BOOLEAN
  BY DEF Start, RowsInv, TypeOK
<1> QED
  BY <1>1, SlotMoves DEF Start, RowsInv, TypeOK

\* A request that goes on may have written one row.
LEMMA ContinueKeepsRows ==
    ASSUME RowsInv, NEW s \in Slots, NEW r \in Request, LocalOK(r), Continue(s, r),
           NEW u \in Users, NEW row \in Row, RowOK(row), row.stage # "NONE",
           user' = [user EXCEPT ![u] = row],
           r.pc \in Saving => r.u = u,
           access' \subseteq Users, torn' \subseteq Users
    PROVE  RowsInv'
<1>1. \A v \in Users : user'[v] = IF v = u THEN row ELSE user[v]
  BY DEF RowsInv, TypeOK
<1>2. user' \in [Users -> Row] /\ \A v \in Users : RowOK(user'[v])
  BY <1>1 DEF RowsInv, TypeOK
<1>3. /\ \A v \in Users : user[v].stage # "NONE" => user'[v].stage # "NONE"
      /\ r.pc \in Saving => user'[r.u].stage # "NONE"
  BY <1>1
<1>4. calm' \in BOOLEAN /\ fails' \in 0..MaxFails /\ req' = [req EXCEPT ![s] = r]
  BY DEF Continue, RowsInv, TypeOK
<1> QED
  BY <1>2, <1>3, <1>4, SlotMoves

LEMMA ContinueKeepsTable ==
    ASSUME RowsInv, NEW s \in Slots, NEW r \in Request, LocalOK(r), Continue(s, r),
           r.pc \in Saving => user[r.u].stage # "NONE",
           UNCHANGED user, access' \subseteq Users, torn' \subseteq Users
    PROVE  RowsInv'
  BY SlotMoves DEF Continue, RowsInv, TypeOK

\* An edited row is in order.
LEMMA EditedRow ==
    ASSUME RowsInv, NEW u \in Users, NEW p \in Phones, NEW email \in BOOLEAN,
           NEW password \in BOOLEAN
    PROVE  /\ Edited(u, p, email, password) \in Row /\ RowOK(Edited(u, p, email, password))
           /\ Edited(u, p, email, password).stage = user[u].stage
           /\ HasPassword(user[u]) => HasPassword(Edited(u, p, email, password))
<1> DEFINE via == IF p = user[u].phone THEN user[u].via ELSE "EDITED"
           mail == user[u].email \/ email
           pass == user[u].password \/ password
<1>1. user[u] \in Row /\ RowOK(user[u])
  BY DEF RowsInv, TypeOK
<1>2. via \in {"STEPS", "ONCE", "EDITED"} /\ mail \in BOOLEAN /\ pass \in BOOLEAN
  BY <1>1 DEF Row
<1>3. Edited(u, p, email, password) =
        [user[u] EXCEPT !.phone = p, !.email = mail, !.password = pass, !.via = via]
  BY DEF Edited
<1>4. user[u].password => pass
  OBVIOUS
<1> HIDE DEF via, mail, pass
<1>5. Edited(u, p, email, password) =
        [phone |-> p, stage |-> user[u].stage, password |-> pass, email |-> mail,
         linked |-> user[u].linked, deleted |-> user[u].deleted, via |-> via]
  BY <1>1, <1>3 DEF Row
<1>6. Edited(u, p, email, password) \in Row
  BY <1>1, <1>2, <1>5 DEF Row
<1>7. RowOK(Edited(u, p, email, password))
  BY <1>1, <1>2, <1>5 DEF RowOK, Row
<1>8. Edited(u, p, email, password).stage = user[u].stage
  BY <1>5
<1>9. HasPassword(user[u]) => HasPassword(Edited(u, p, email, password))
  BY <1>4, <1>5 DEF HasPassword
<1> QED BY <1>6, <1>7, <1>8, <1>9

\* The rows the handlers make of a row they loaded.
LEMMA LinkedRow ==
    ASSUME NEW old \in Row
    PROVE  LET new == [old EXCEPT !.linked = TRUE]
           IN  /\ new \in Row /\ (RowOK(old) => RowOK(new))
               /\ new.stage = old.stage /\ new.via = old.via
               /\ new.phone = old.phone /\ new.deleted = old.deleted
  BY DEF Row, RowOK

LEMMA DeletedRow ==
    ASSUME NEW old \in Row
    PROVE  LET new == [old EXCEPT !.deleted = TRUE]
           IN  /\ new \in Row /\ (RowOK(old) => RowOK(new))
               /\ new.stage = old.stage /\ new.via = old.via
               /\ new.phone = old.phone /\ new.deleted
  BY DEF Row, RowOK

LEMMA PasswordRow ==
    ASSUME NEW old \in Row
    PROVE  LET new == [old EXCEPT !.password = TRUE]
           IN  /\ new \in Row /\ (RowOK(old) => RowOK(new))
               /\ new.stage = old.stage /\ HasPassword(new)
  BY DEF Row, RowOK, HasPassword

LEMMA PasswordSetRow ==
    ASSUME NEW old \in Row, RowOK(old), old.stage # "NONE"
    PROVE  LET new == [old EXCEPT !.password = TRUE, !.stage = "PASSWORD_SET"]
           IN  new \in Row /\ RowOK(new) /\ new.stage # "NONE" /\ HasPassword(new)
  BY DEF Row, RowOK, HasPassword, UserRegistrationStage

LEMMA CompletedRow ==
    ASSUME NEW old \in Row, RowOK(old), old.stage = "PASSWORD_SET", NEW email \in BOOLEAN
    PROVE  LET new == [old EXCEPT !.email = (@ \/ email), !.stage = "COMPLETED"]
           IN  /\ new \in Row /\ RowOK(new) /\ new.stage # "NONE"
               /\ HasPassword(old) => HasPassword(new)
  BY DEF Row, RowOK, HasPassword, UserRegistrationStage

\* What a row is after an update of some of its columns.
LEMMA UpdatedRow ==
    ASSUME NEW old \in Row, NEW row \in Row, NEW cols
    PROVE  LET new == Updated(old, row, cols)
           IN  /\ new \in Row
               /\ new.phone = IF "phone" \in cols THEN row.phone ELSE old.phone
               /\ new.via = IF "phone" \in cols THEN row.via ELSE old.via
               /\ new.stage = IF "stage" \in cols THEN row.stage ELSE old.stage
               /\ new.password = IF "password" \in cols THEN row.password ELSE old.password
               /\ new.deleted = IF "deleted" \in cols THEN row.deleted ELSE old.deleted
<1> DEFINE phone == IF "phone" \in cols THEN row.phone ELSE old.phone
           via == IF "phone" \in cols THEN row.via ELSE old.via
           stage == IF "stage" \in cols THEN row.stage ELSE old.stage
           password == IF "password" \in cols THEN row.password ELSE old.password
           email == IF "email" \in cols THEN row.email ELSE old.email
           linked == IF "linked" \in cols THEN row.linked ELSE old.linked
           deleted == IF "deleted" \in cols THEN row.deleted ELSE old.deleted
<1>1. Updated(old, row, cols) =
        [phone |-> phone, stage |-> stage, password |-> password, email |-> email,
         linked |-> linked, deleted |-> deleted, via |-> via]
  BY DEF Updated
<1>2. /\ phone \in Phones \cup {None} /\ via \in {"STEPS", "ONCE", "EDITED"}
      /\ stage \in UserRegistrationStage \cup {"NONE"}
      /\ password \in BOOLEAN /\ email \in BOOLEAN
      /\ linked \in BOOLEAN /\ deleted \in BOOLEAN
  BY DEF Row
<1> HIDE DEF phone, via, stage, password, email, linked, deleted
<1>3. Updated(old, row, cols) \in Row
  BY <1>1, <1>2 DEF Row
<1> USE DEF phone, via, stage, password, email, linked, deleted
<1> QED BY <1>1, <1>3

\* The request that is about to save a row it loaded.
LEMMA SaveRequest ==
    ASSUME NEW u \in Users, NEW row \in Row, RowOK(row), row.stage # "NONE",
           NEW then \in {"idle", "issue"}, NEW pc \in {"save", "link"}
    PROVE  LET r == [Idle EXCEPT !.pc = pc, !.u = u, !.row = row, !.then = then]
           IN  r \in Request /\ LocalOK(r) /\ r.pc = pc /\ r.u = u /\ r.row = row
  BY IdleOK DEF Request, Idle, LocalOK, Suspended, Saving

--------------------------------------------------------------------------------
LEMMA InitRows == Init => RowsInv
<1> SUFFICES ASSUME Init PROVE RowsInv
  OBVIOUS
<1>1. NoRow \in Row /\ NoRow.stage = "NONE"
  BY DEF NoRow, Row
<1>2. user \in [Users -> Row] /\ \A u \in Users : user[u].stage = "NONE"
  BY <1>1 DEF Init
<1>3. req \in [Slots -> Request] /\ \A s \in Slots : req[s] = Idle
  BY IdleOK DEF Init
<1>4. TypeOK
  BY <1>2, <1>3, RegistrationAssumption DEF Init, TypeOK
<1>5. Idle.pc \notin Saving
  BY DEF Idle, Saving
<1> QED BY <1>2, <1>3, <1>4, <1>5, IdleOK DEF RowsInv, RowOK

\* The requests that load a row and edit it to save it.
LoadsToSave(s) ==
    \/ PasswordSetup(s) \/ AccountSetup(s) \/ OAuthLogin(s) \/ UserLogin(s) \/ SetPassword(s)
    \/ UpdateProfile(s)

\* The row such a request keeps: its stage and its password go together if those of the row
\* in the table do.
LEMMA LoadedRow ==
    ASSUME RowsInv, NEW s \in Slots, LoadsToSave(s)
    PROVE  \E u \in Users, row \in Row, then \in {"idle", "issue"}, pc \in {"save", "link"} :
             /\ RowOK(row) /\ row.stage # "NONE" /\ user[u].stage # "NONE"
             /\ HasPassword(user[u]) => HasPassword(row)
             /\ Start(s, [Idle EXCEPT !.pc = pc, !.u = u, !.row = row, !.then = then])
             /\ UNCHANGED <<user, access>>
<1>0. \A u \in Users : user[u] \in Row /\ RowOK(user[u])
  BY DEF RowsInv, TypeOK
<1>a. ASSUME NEW u \in Users, user[u].stage # "NONE", NEW row \in Row, RowOK(row),
             row.stage # "NONE", HasPassword(user[u]) => HasPassword(row),
             NEW then \in {"idle", "issue"}, StartSave(s, u, row, then),
             UNCHANGED <<user, access>>
      PROVE  \E v \in Users, new \in Row, after \in {"idle", "issue"}, pc \in {"save", "link"} :
               /\ RowOK(new) /\ new.stage # "NONE" /\ user[v].stage # "NONE"
               /\ HasPassword(user[v]) => HasPassword(new)
               /\ Start(s, [Idle EXCEPT !.pc = pc, !.u = v, !.row = new, !.then = after])
               /\ UNCHANGED <<user, access>>
  BY <1>a DEF StartSave
<1>1. CASE PasswordSetup(s)
  <2>1. PICK u \in Users :
           /\ Live(u)
           /\ StartSave(s, u, [user[u] EXCEPT !.password = TRUE, !.stage = "PASSWORD_SET"], "idle")
    BY <1>1 DEF PasswordSetup
  <2> DEFINE row == [user[u] EXCEPT !.password = TRUE, !.stage = "PASSWORD_SET"]
  <2>2. row \in Row /\ RowOK(row) /\ row.stage # "NONE" /\ HasPassword(row)
    BY <1>0, <2>1, PasswordSetRow DEF Live
  <2>3. StartSave(s, u, row, "idle") /\ user[u].stage # "NONE" /\ UNCHANGED <<user, access>>
    BY <1>1, <2>1 DEF PasswordSetup, Live
  <2> HIDE DEF row
  <2> QED BY <1>a, <2>2, <2>3
<1>2. CASE AccountSetup(s)
  <2>1. PICK u \in Users, email \in BOOLEAN :
           /\ Live(u) /\ user[u].stage = "PASSWORD_SET"
           /\ StartSave(s, u, [user[u] EXCEPT !.email = (@ \/ email),
                                              !.stage = "COMPLETED"], "issue")
    BY <1>2 DEF AccountSetup
  <2> DEFINE row == [user[u] EXCEPT !.email = (@ \/ email), !.stage = "COMPLETED"]
  <2>2. /\ row \in Row /\ RowOK(row) /\ row.stage # "NONE"
        /\ HasPassword(user[u]) => HasPassword(row)
    BY <1>0, <2>1, CompletedRow
  <2>3. StartSave(s, u, row, "issue") /\ user[u].stage # "NONE" /\ UNCHANGED <<user, access>>
    BY <1>2, <2>1 DEF AccountSetup, Live
  <2> HIDE DEF row
  <2> QED BY <1>a, <2>2, <2>3
<1>3. CASE OAuthLogin(s)
  <2>1. PICK u \in Users, then \in {"idle", "issue"}, pc \in {"save", "link"} :
           Live(u) /\ Start(s, [Idle EXCEPT !.pc = pc, !.u = u, !.row = user[u], !.then = then])
    BY <1>3 DEF OAuthLogin
  <2>2. UNCHANGED <<user, access>>
    BY <1>3 DEF OAuthLogin
  <2> QED BY <1>0, <2>1, <2>2 DEF Live
<1>4. CASE UserLogin(s)
  <2>1. PICK u \in Users : Live(u) /\ StartSave(s, u, user[u], "issue")
    BY <1>4 DEF UserLogin
  <2>2. UNCHANGED <<user, access>>
    BY <1>4 DEF UserLogin
  <2> QED BY <1>a, <1>0, <2>1, <2>2 DEF Live
<1>5. CASE SetPassword(s)
  <2>1. PICK u \in Users : Live(u) /\ StartSave(s, u, [user[u] EXCEPT !.password = TRUE], "idle")
    BY <1>5 DEF SetPassword
  <2> DEFINE row == [user[u] EXCEPT !.password = TRUE]
  <2>2. row \in Row /\ RowOK(row) /\ row.stage = user[u].stage /\ HasPassword(row)
    BY <1>0, PasswordRow
  <2>3. StartSave(s, u, row, "idle") /\ user[u].stage # "NONE" /\ UNCHANGED <<user, access>>
    BY <1>5, <2>1 DEF SetPassword, Live
  <2> HIDE DEF row
  <2> QED BY <1>a, <2>2, <2>3
<1>6. CASE UpdateProfile(s)
  <2>1. PICK u \in access, p \in Phones, email \in BOOLEAN, password \in BOOLEAN :
           Live(u) /\ StartSave(s, u, Edited(u, p, email, password), "idle")
    BY <1>6 DEF UpdateProfile
  <2>2. u \in Users
    BY DEF RowsInv, TypeOK
  <2> DEFINE row == Edited(u, p, email, password)
  <2>3. /\ row \in Row /\ RowOK(row) /\ row.stage = user[u].stage
        /\ HasPassword(user[u]) => HasPassword(row)
    BY <2>2, EditedRow
  <2>4. StartSave(s, u, row, "idle") /\ user[u].stage # "NONE" /\ UNCHANGED <<user, access>>
    BY <1>6, <2>1 DEF UpdateProfile, Live
  <2> HIDE DEF row
  <2> QED BY <1>a, <2>2, <2>3, <2>4
<1> QED BY <1>1, <1>2, <1>3, <1>4, <1>5, <1>6 DEF LoadsToSave

\* Requests that arrive.
LEMMA ArrivalRows == ASSUME RowsInv, NEW s \in Slots, Arrives(s) PROVE RowsInv'
<1>1. CASE OtpVerify(s) \/ RegisterOnce(s)
  <2>1. PICK p \in Phones, pc \in {"otpInsert", "onceInsert"} :
           Start(s, [Idle EXCEPT !.pc = pc, !.phone = p]) /\ UNCHANGED <<user, access>>
    BY <1>1 DEF OtpVerify, RegisterOnce
  <2> DEFINE r == [Idle EXCEPT !.pc = pc, !.phone = p]
  <2>2. r \in Request /\ LocalOK(r) /\ r.pc \notin Saving
    BY IdleOK DEF Request, Idle, LocalOK, Suspended, Saving
  <2> HIDE DEF r
  <2>3. Start(s, r)
    BY <2>1 DEF r
  <2> QED BY <2>1, <2>2, <2>3, StartKeepsRows
<1>2. CASE LoadsToSave(s)
  <2>1. PICK u \in Users, row \in Row, then \in {"idle", "issue"}, pc \in {"save", "link"} :
           /\ RowOK(row) /\ row.stage # "NONE" /\ user[u].stage # "NONE"
           /\ Start(s, [Idle EXCEPT !.pc = pc, !.u = u, !.row = row, !.then = then])
           /\ UNCHANGED <<user, access>>
    BY <1>2, LoadedRow
  <2> DEFINE r == [Idle EXCEPT !.pc = pc, !.u = u, !.row = row, !.then = then]
  <2>2. r \in Request /\ LocalOK(r)
    BY <2>1, SaveRequest
  <2>4. r.u = u
    BY DEF Idle
  <2> HIDE DEF r
  <2>3. Start(s, r)
    BY <2>1 DEF r
  <2> QED BY <2>1, <2>2, <2>3, <2>4, StartKeepsRows
<1>3. CASE UpdateUser(s)
  <2>1. PICK u \in Users, p \in Phones \cup {None} :
           Start(s, [Idle EXCEPT !.pc = "preload", !.u = u, !.phone = p])
           /\ UNCHANGED <<user, access>>
    BY <1>3 DEF UpdateUser
  <2> DEFINE r == [Idle EXCEPT !.pc = "preload", !.u = u, !.phone = p]
  <2>2. r \in Request /\ LocalOK(r) /\ r.pc \notin Saving
    BY IdleOK DEF Request, Idle, LocalOK, Suspended, Saving
  <2> HIDE DEF r
  <2>3. Start(s, r)
    BY <2>1 DEF r
  <2> QED BY <2>1, <2>2, <2>3, StartKeepsRows
<1>4. CASE DeleteProfile(s) \/ RemoveUser(s)
  <2>1. PICK u \in Users : Start(s, [Idle EXCEPT !.pc = "softRemove", !.u = u])
                           /\ UNCHANGED <<user, access>>
    BY <1>4 DEF DeleteProfile, RemoveUser, RowsInv, TypeOK
  <2> DEFINE r == [Idle EXCEPT !.pc = "softRemove", !.u = u]
  <2>2. r \in Request /\ LocalOK(r) /\ r.pc \notin Saving
    BY IdleOK DEF Request, Idle, LocalOK, Suspended, Saving
  <2> HIDE DEF r
  <2>3. Start(s, r)
    BY <2>1 DEF r
  <2> QED BY <2>1, <2>2, <2>3, StartKeepsRows
<1> QED BY <1>1, <1>2, <1>3, <1>4 DEF Arrives, LoadsToSave

\* The steps of a request that was suspended.
LEMMA StepRows == ASSUME RowsInv, NEW s \in Slots, Step(s) PROVE RowsInv'
<1> DEFINE r == req[s]
<1>1. r \in Request /\ LocalOK(r) /\ (r.pc \in Saving => user[r.u].stage # "NONE")
  BY DEF RowsInv, TypeOK
<1>2. access' \subseteq Users /\ torn' \subseteq Users
  <2>1. CASE Issue(s)
    BY <1>1, <2>1 DEF Issue, LocalOK, RowsInv, TypeOK
  <2>2. CASE Save(s)
    <3>1. r.u \in Users
      BY <1>1, <2>2 DEF Save, LocalOK, Saving
    <3>2. PICK m : torn' = torn \cup {u \in {[r EXCEPT !.pc = "update", !.cols = m].u} :
                              /\ Half([r EXCEPT !.pc = "update", !.cols = m])
                              /\ \E t \in Slots : req[t].u = u /\ Half(req[t])}
      BY <2>2 DEF Save
    <3>3. [r EXCEPT !.pc = "update", !.cols = m].u = r.u
      BY <1>1 DEF Request
    <3>4. access' = access
      BY <2>2 DEF Save
    <3> QED BY <3>1, <3>2, <3>3, <3>4 DEF RowsInv, TypeOK
  <2>3. CASE ~Issue(s) /\ ~Save(s)
    BY <2>3 DEF Step, OtpInsert, OnceInsert, Link, Preload, Update, SoftRemove, RowsInv, TypeOK
  <2> QED BY <2>1, <2>2, <2>3
<1>0. Idle.pc \notin Saving
  BY DEF Idle, Saving
<1>3. CASE OtpInsert(s)
  <2>1. r.phone \in Phones
    BY <1>1, <1>3 DEF OtpInsert, LocalOK
  <2> DEFINE row == [NoRow EXCEPT !.phone = r.phone, !.stage = "OTP_VERIFIED", !.via = "STEPS"]
  <2>2. row \in Row /\ RowOK(row) /\ row.stage # "NONE"
    BY <2>1 DEF Row, NoRow, RowOK, UserRegistrationStage
  <2>3. CASE \E u \in Unused : user' = [user EXCEPT ![u] = row]
    <3>1. PICK u \in Users : user' = [user EXCEPT ![u] = row]
      BY <2>3 DEF Unused
    <3> HIDE DEF row
    <3> QED BY <1>0, <1>2, <1>3, <2>2, <3>1, IdleOK, ContinueKeepsRows DEF OtpInsert, Finish
  <2>4. CASE UNCHANGED user
    BY <1>0, <1>2, <1>3, <2>4, IdleOK, ContinueKeepsTable DEF OtpInsert, Finish
  <2> QED BY <1>3, <2>3, <2>4 DEF OtpInsert
<1>4. CASE OnceInsert(s)
  <2>1. r.phone \in Phones
    BY <1>1, <1>4 DEF OnceInsert, LocalOK
  <2>2. PICK u \in Users, email \in BOOLEAN :
          /\ user' = [user EXCEPT ![u] = [phone |-> r.phone, stage |-> "COMPLETED",
                                          password |-> TRUE, email |-> email, linked |-> FALSE,
                                          deleted |-> FALSE, via |-> "ONCE"]]
          /\ Continue(s, [Idle EXCEPT !.pc = "issue", !.u = u])
    BY <1>4 DEF OnceInsert, Unused
  <2> DEFINE row == [phone |-> r.phone, stage |-> "COMPLETED", password |-> TRUE, email |-> email,
                     linked |-> FALSE, deleted |-> FALSE, via |-> "ONCE"]
             next == [Idle EXCEPT !.pc = "issue", !.u = u]
  <2>3. row \in Row /\ RowOK(row) /\ row.stage # "NONE"
    BY <2>1 DEF Row, RowOK, UserRegistrationStage
  <2>4. next \in Request /\ LocalOK(next) /\ next.pc \notin Saving
    BY IdleOK DEF Request, Idle, LocalOK, Suspended, Saving
  <2> HIDE DEF row, next
  <2>5. user' = [user EXCEPT ![u] = row] /\ Continue(s, next)
    BY <2>2 DEF row, next
  <2> QED BY <1>2, <2>3, <2>4, <2>5, ContinueKeepsRows
<1>5. CASE Link(s)
  <2>1. r.u \in Users /\ user[r.u].stage # "NONE"
    BY <1>1, <1>5 DEF Link, LocalOK, Saving
  <2> DEFINE row == [user[r.u] EXCEPT !.linked = TRUE]
             next == [r EXCEPT !.pc = "save"]
  <2>2. user[r.u] \in Row /\ RowOK(user[r.u])
    BY <2>1 DEF RowsInv, TypeOK
  <2>3. row \in Row /\ RowOK(row) /\ row.stage # "NONE"
    BY <2>1, <2>2, LinkedRow
  <2>4. next \in Request /\ LocalOK(next) /\ next.u = r.u
    BY <1>1, <1>5, <2>1 DEF Link, Request, LocalOK, Suspended, Saving
  <2>5. user' = [user EXCEPT ![r.u] = row] /\ Continue(s, next)
    BY <1>5, <2>1 DEF Link, Goto, RowsInv, TypeOK
  <2> HIDE DEF row, next
  <2> QED BY <1>2, <2>1, <2>3, <2>4, <2>5, ContinueKeepsRows
<1>6. CASE Preload(s)
  <2> DEFINE phone == IF r.phone = None THEN user[r.u].phone ELSE r.phone
  <2>1. r.u \in Users
    BY <1>1, <1>6 DEF Preload, LocalOK
  <2>2. CASE Live(r.u)
    <3>0. phone \in Phones
      BY <1>1, <2>1, <2>2 DEF Request, Live, RowsInv, RowOK
    <3>1. PICK email \in BOOLEAN, password \in BOOLEAN :
            Continue(s, [r EXCEPT !.pc = "save", !.row = Edited(r.u, phone, email, password)])
      BY <1>6, <2>2 DEF Preload
    <3> DEFINE row == Edited(r.u, phone, email, password)
               next == [r EXCEPT !.pc = "save", !.row = row]
    <3> HIDE DEF phone
    <3>2. row \in Row /\ RowOK(row) /\ row.stage # "NONE" /\ user[r.u].stage # "NONE"
      BY <2>1, <2>2, <3>0, EditedRow DEF Live
    <3> HIDE DEF row
    <3>3. next \in Request /\ LocalOK(next) /\ next.u = r.u
      BY <1>1, <2>1, <3>2 DEF Request, LocalOK, Suspended, Saving
    <3>4. Continue(s, next)
      BY <3>1 DEF row
    <3> HIDE DEF next
    <3> QED BY <1>2, <1>6, <3>2, <3>3, <3>4, ContinueKeepsTable DEF Preload
  <2>3. CASE ~Live(r.u)
    BY <1>0, <1>2, <1>6, <2>3, IdleOK, ContinueKeepsTable DEF Preload, Finish
  <2> QED BY <2>2, <2>3
<1>7. CASE Save(s)
  <2>1. r.u \in Users /\ user[r.u].stage # "NONE"
    BY <1>1, <1>7 DEF Save, LocalOK, Saving
  <2>2. PICK more \in SUBSET {c \in {"password", "email"} : r.row[c] /\ user[r.u][c]} :
          Continue(s, [r EXCEPT !.pc = "update",
                                !.cols = {c \in Columns : r.row[c] # user[r.u][c]} \cup more])
    BY <1>7 DEF Save
  <2> DEFINE cols == {c \in Columns : r.row[c] # user[r.u][c]} \cup more
             next == [r EXCEPT !.pc = "update", !.cols = cols]
  <2>3. cols \in SUBSET Columns
    BY DEF Columns
  <2> HIDE DEF cols
  <2>4. next \in Request /\ LocalOK(next) /\ next.u = r.u
    BY <1>1, <1>7, <2>3 DEF Save, Request, LocalOK, Suspended, Saving
  <2>5. Continue(s, next)
    BY <2>2 DEF cols
  <2> HIDE DEF next
  <2> QED BY <1>2, <1>7, <2>1, <2>4, <2>5, ContinueKeepsTable DEF Save
<1>10. CASE Update(s)
  <2>1. /\ r.u \in Users /\ user[r.u].stage # "NONE" /\ user[r.u] \in Row /\ RowOK(user[r.u])
        /\ r.row \in Row /\ RowOK(r.row) /\ r.row.stage # "NONE"
    BY <1>1, <1>10 DEF Update, LocalOK, Request, Saving, RowsInv, TypeOK
  <2> DEFINE row == Updated(user[r.u], r.row, r.cols)
  <2>2. row \in Row /\ RowOK(row) /\ row.stage # "NONE"
    BY <2>1, UpdatedRow DEF RowOK
  <2>3. user' = [user EXCEPT ![r.u] = row]
    BY <1>10, <2>1 DEF Update, RowsInv, TypeOK
  <2> HIDE DEF row
  <2>4. PICK next \in Request : LocalOK(next) /\ next.pc \notin Saving /\ Continue(s, next)
    <3> DEFINE issue == [Idle EXCEPT !.pc = "issue", !.u = r.u]
    <3>1. issue \in Request /\ LocalOK(issue) /\ issue.pc \notin Saving
      BY <2>1, IdleOK DEF Request, Idle, LocalOK, Suspended, Saving
    <3> QED BY <1>0, <1>10, <3>1, IdleOK DEF Update, Finish
  <2> QED BY <1>2, <2>1, <2>2, <2>3, <2>4, ContinueKeepsRows
<1>8. CASE Issue(s)
  BY <1>0, <1>2, <1>8, IdleOK, ContinueKeepsTable DEF Issue, Finish
<1>9. CASE SoftRemove(s)
  <2>1. r.u \in Users /\ user[r.u] \in Row /\ RowOK(user[r.u])
    BY <1>1, <1>9 DEF SoftRemove, LocalOK, RowsInv, TypeOK
  <2> DEFINE row == [user[r.u] EXCEPT !.deleted = TRUE]
  <2>2. row \in Row /\ RowOK(row) /\ row.stage = user[r.u].stage
    BY <2>1, DeletedRow
  <2>3. user' = [user EXCEPT ![r.u] = row] /\ req' = [req EXCEPT ![s] = Idle]
    BY <1>9, <2>1 DEF SoftRemove, Finish, Continue, RowsInv, TypeOK
  <2> HIDE DEF row
  <2>4. \A v \in Users : user'[v] = IF v = r.u THEN row ELSE user[v]
    BY <2>1, <2>3 DEF RowsInv, TypeOK
  <2>5. /\ user' \in [Users -> Row] /\ \A v \in Users : RowOK(user'[v])
        /\ \A v \in Users : user[v].stage # "NONE" => user'[v].stage # "NONE"
    BY <2>2, <2>3, <2>4 DEF RowsInv, TypeOK
  <2>6. calm' \in BOOLEAN /\ fails' \in 0..MaxFails
    BY <1>9 DEF SoftRemove, Finish, Continue, RowsInv, TypeOK
  <2> QED BY <1>0, <1>2, <2>3, <2>5, <2>6, IdleOK, SlotMoves
<1> QED BY <1>3, <1>4, <1>5, <1>6, <1>7, <1>8, <1>9, <1>10 DEF Step

LEMMA FailureRows == ASSUME RowsInv, NEW s \in Slots, RequestFails(s) PROVE RowsInv'
<1>1. fails' \in 0..MaxFails
  BY RegistrationAssumption DEF RequestFails, RowsInv, TypeOK
<1>2. Idle.pc \notin Saving
  BY DEF Idle, Saving
<1> QED BY <1>1, <1>2, IdleOK, SlotMoves DEF RequestFails, RowsInv, TypeOK

LEMMA NextRows == RowsInv /\ [Next]_vars => RowsInv'
<1> SUFFICES ASSUME RowsInv, [Next]_vars PROVE RowsInv'
  OBVIOUS
<1>1. CASE Next
  BY <1>1, ArrivalRows, StepRows, FailureRows DEF Next
<1>2. CASE UNCHANGED vars
  BY <1>2 DEF vars, RowsInv, TypeOK, RowOK, LocalOK
<1> QED BY <1>1, <1>2

\* Rows, tokens and requests keep their types (user.entity.ts:35-112).
THEOREM RegistrationTypes == Spec => []TypeOK
<1>1. RowsInv => TypeOK
  BY DEF RowsInv
<1> QED BY <1>1, InitRows, NextRows, PTL DEF Spec

--------------------------------------------------------------------------------
\* Stage and password.

LEMMA HalfPaired ==
    ASSUME NEW r
    PROVE  Half(r) <=> r.pc = "update" /\ ("stage" \in r.cols \/ "password" \in r.cols)
  BY DEF Half, Paired

\* A request that is not between the two statements of a save, and a table in which the rows
\* are in order and those that others save have not changed under them.
LEMMA SlotKeepsPasswords ==
    ASSUME RowsInv, PasswordInv, NEW s \in Slots, NEW r, ~Half(r),
           req' = [req EXCEPT ![s] = r], torn' = torn,
           r.pc \in Saving /\ r.u \notin torn => HasPassword(r.row),
           \A u \in Users \ torn : HasPassword(user'[u]),
           \A t \in Slots \ {s} :
             Half(req[t]) /\ req[t].u \notin torn => Covers(req[t], user'[req[t].u])
    PROVE  PasswordInv'
<1>1. \A t \in Slots : req'[t] = IF t = s THEN r ELSE req[t]
  BY DEF RowsInv, TypeOK
<1>2. PasswordBeforeAccount'
  BY DEF PasswordBeforeAccount
<1>3. ASSUME NEW t \in Slots, req'[t].u \notin torn
      PROVE  /\ req'[t].pc \in Saving => HasPassword(req'[t].row)
             /\ Half(req'[t]) => Covers(req'[t], user'[req'[t].u])
             /\ \A v \in Slots : Half(req'[t]) /\ Half(req'[v]) /\ req'[t].u = req'[v].u => t = v
  BY <1>1, <1>3 DEF PasswordInv
<1> HIDE DEF Half
<1>4. PasswordInv' <=>
        /\ PasswordBeforeAccount'
        /\ \A t \in Slots :
             req'[t].u \notin torn' =>
               /\ req'[t].pc \in Saving => HasPassword(req'[t].row)
               /\ Half(req'[t]) => Covers(req'[t], user'[req'[t].u])
               /\ \A v \in Slots : Half(req'[t]) /\ Half(req'[v]) /\ req'[t].u = req'[v].u => t = v
  BY DEF PasswordInv, Covers, Half, HasPassword
<1> QED BY <1>2, <1>3, <1>4

\* The same when no row changes.
LEMMA TableKeepsPasswords ==
    ASSUME RowsInv, PasswordInv, NEW s \in Slots, NEW r, ~Half(r),
           req' = [req EXCEPT ![s] = r], torn' = torn, UNCHANGED user,
           r.pc \in Saving /\ r.u \notin torn => HasPassword(r.row)
    PROVE  PasswordInv'
<1>1. /\ \A u \in Users \ torn : HasPassword(user'[u])
      /\ \A t \in Slots \ {s} :
           Half(req[t]) /\ req[t].u \notin torn => Covers(req[t], user'[req[t].u])
  BY DEF PasswordInv, PasswordBeforeAccount
<1> QED BY <1>1, SlotKeepsPasswords

\* The same when one row changes, though not its stage and its password.
LEMMA RowKeepsPasswords ==
    ASSUME RowsInv, PasswordInv, NEW s \in Slots, NEW r, ~Half(r),
           req' = [req EXCEPT ![s] = r], torn' = torn,
           NEW u \in Users, NEW row, user' = [user EXCEPT ![u] = row],
           row.stage = user[u].stage, row.password = user[u].password,
           r.pc \in Saving /\ r.u \notin torn => HasPassword(r.row)
    PROVE  PasswordInv'
<1>1. \A v \in Users : user'[v] = IF v = u THEN row ELSE user[v]
  BY DEF RowsInv, TypeOK
<1>2. \A v \in Users \ torn : HasPassword(user'[v])
  BY <1>1 DEF PasswordInv, PasswordBeforeAccount, HasPassword
<1>3. ASSUME NEW t \in Slots \ {s}, Half(req[t]), req[t].u \notin torn
      PROVE  Covers(req[t], user'[req[t].u])
  <2>1. Covers(req[t], user[req[t].u])
    BY <1>3 DEF PasswordInv
  <2>2. req[t].u \in Users
    BY <1>3 DEF Half, RowsInv, LocalOK, Saving
  <2> QED BY <1>1, <2>1, <2>2 DEF Covers
<1> QED BY <1>2, <1>3, SlotKeepsPasswords

\* The same when a row is inserted.
LEMMA InsertKeepsPasswords ==
    ASSUME RowsInv, PasswordInv, NEW s \in Slots, NEW r, ~Half(r),
           req' = [req EXCEPT ![s] = r], torn' = torn,
           NEW u \in Unused, NEW row, user' = [user EXCEPT ![u] = row], HasPassword(row),
           r.pc \notin Saving
    PROVE  PasswordInv'
<1>1. u \in Users /\ user[u].stage = "NONE"
  BY DEF Unused
<1>2. \A v \in Users : user'[v] = IF v = u THEN row ELSE user[v]
  BY <1>1 DEF RowsInv, TypeOK
<1>3. \A v \in Users \ torn : HasPassword(user'[v])
  BY <1>2 DEF PasswordInv, PasswordBeforeAccount
<1>4. ASSUME NEW t \in Slots \ {s}, Half(req[t]), req[t].u \notin torn
      PROVE  Covers(req[t], user'[req[t].u])
  <2>1. Covers(req[t], user[req[t].u])
    BY <1>4 DEF PasswordInv
  <2>2. req[t].u \in Users /\ user[req[t].u].stage # "NONE"
    BY <1>4 DEF Half, RowsInv, LocalOK, Saving
  <2> QED BY <1>1, <1>2, <2>1, <2>2
<1> QED BY <1>3, <1>4, SlotKeepsPasswords

LEMMA InitPasswords == Init => PasswordInv
  BY DEF Init, PasswordInv, PasswordBeforeAccount, HasPassword, NoRow, Idle, Saving, Half

LEMMA ArrivalPasswords ==
    ASSUME RowsInv, PasswordInv, NEW s \in Slots, Arrives(s)
    PROVE  PasswordInv'
<1>1. CASE LoadsToSave(s)
  <2>1. PICK u \in Users, row \in Row, then \in {"idle", "issue"}, pc \in {"save", "link"} :
           /\ HasPassword(user[u]) => HasPassword(row)
           /\ Start(s, [Idle EXCEPT !.pc = pc, !.u = u, !.row = row, !.then = then])
           /\ UNCHANGED <<user, access>>
    BY <1>1, LoadedRow
  <2> DEFINE r == [Idle EXCEPT !.pc = pc, !.u = u, !.row = row, !.then = then]
  <2>2. r.pc = pc /\ r.u = u /\ r.row = row
    BY DEF Idle
  <2> HIDE DEF r
  <2>3. req' = [req EXCEPT ![s] = r] /\ torn' = torn
    BY <2>1 DEF r, Start
  <2>4. ~Half(r) /\ (r.u \notin torn => HasPassword(r.row))
    BY <2>1, <2>2 DEF Half, PasswordInv, PasswordBeforeAccount
  <2> QED BY <2>1, <2>3, <2>4, TableKeepsPasswords
<1>2. CASE ~LoadsToSave(s)
  <2>1. PICK r : Start(s, r) /\ UNCHANGED user /\ r.pc \notin Saving
    <3>1. CASE OtpVerify(s) \/ RegisterOnce(s)
      <4>1. PICK p \in Phones, pc \in {"otpInsert", "onceInsert"} :
               Start(s, [Idle EXCEPT !.pc = pc, !.phone = p]) /\ UNCHANGED user
        BY <3>1 DEF OtpVerify, RegisterOnce
      <4>2. [Idle EXCEPT !.pc = pc, !.phone = p].pc \notin Saving
        BY DEF Idle, Saving
      <4> QED BY <4>1, <4>2
    <3>2. CASE UpdateUser(s)
      <4>1. PICK u \in Users, p \in Phones \cup {None} :
               Start(s, [Idle EXCEPT !.pc = "preload", !.u = u, !.phone = p])
        BY <3>2 DEF UpdateUser
      <4>2. [Idle EXCEPT !.pc = "preload", !.u = u, !.phone = p].pc \notin Saving
        BY DEF Idle, Saving
      <4> QED BY <3>2, <4>1, <4>2 DEF UpdateUser
    <3>3. CASE DeleteProfile(s) \/ RemoveUser(s)
      <4>1. PICK u : Start(s, [Idle EXCEPT !.pc = "softRemove", !.u = u])
        BY <3>3 DEF DeleteProfile, RemoveUser
      <4>2. [Idle EXCEPT !.pc = "softRemove", !.u = u].pc \notin Saving
        BY DEF Idle, Saving
      <4> QED BY <3>3, <4>1, <4>2 DEF DeleteProfile, RemoveUser
    <3> QED BY <1>2, <3>1, <3>2, <3>3 DEF Arrives, LoadsToSave
  <2>2. req' = [req EXCEPT ![s] = r] /\ torn' = torn /\ ~Half(r)
    BY <2>1 DEF Start, Half, Saving
  <2> QED BY <2>1, <2>2, TableKeepsPasswords
<1> QED BY <1>1, <1>2

\* The first statement of a save: what it compared is what is in the table.
LEMMA SavePasswords ==
    ASSUME RowsInv, PasswordInv, NEW s \in Slots, Save(s)
    PROVE  PasswordInv'
<1> DEFINE r == req[s]
<1>1. PICK more : LET next == [r EXCEPT !.pc = "update",
                                       !.cols = {c \in Columns : r.row[c] # user[r.u][c]} \cup more]
                  IN  /\ Continue(s, next)
                      /\ torn' = torn \cup {u \in {next.u} :
                                     Half(next) /\ \E t \in Slots : req[t].u = u /\ Half(req[t])}
  BY DEF Save
<1> DEFINE cols == {c \in Columns : r.row[c] # user[r.u][c]} \cup more
           next == [r EXCEPT !.pc = "update", !.cols = cols]
<1>2. r \in Request /\ r.pc = "save"
  BY DEF Save, RowsInv, TypeOK
<1>3. /\ "stage" \in cols \/ r.row.stage = user[r.u].stage
      /\ "password" \in cols \/ r.row.password = user[r.u].password
  BY DEF Columns
<1>4. Continue(s, next)
  BY <1>1
<1>5. torn' = torn \cup {u \in {next.u} :
                          Half(next) /\ \E t \in Slots : req[t].u = u /\ Half(req[t])}
  BY <1>1
<1> HIDE DEF cols
<1>6. next.pc = "update" /\ next.u = r.u /\ next.row = r.row /\ next.cols = cols
  BY <1>2 DEF Request
<1> HIDE DEF next
<1>7. Covers(next, user[r.u])
  BY <1>3, <1>6 DEF Covers
<1>8. \A t \in Slots : req'[t] = IF t = s THEN next ELSE req[t]
  BY <1>4 DEF Continue, RowsInv, TypeOK
<1>9. r.u \notin torn => HasPassword(r.row)
  BY <1>2 DEF PasswordInv, Saving
<1>10. torn \subseteq torn'
  BY <1>5
<1>11. next.u \notin torn' => \A t \in Slots : ~(Half(next) /\ Half(req[t]) /\ req[t].u = next.u)
  BY <1>5
<1>12. UNCHANGED user
  BY DEF Save
<1>13. PasswordBeforeAccount'
  BY <1>10, <1>12 DEF PasswordInv, PasswordBeforeAccount
<1>14. ASSUME NEW t \in Slots, req'[t].u \notin torn'
       PROVE  /\ req'[t].pc \in Saving => HasPassword(req'[t].row)
              /\ Half(req'[t]) => Covers(req'[t], user'[req'[t].u])
              /\ \A v \in Slots : Half(req'[t]) /\ Half(req'[v]) /\ req'[t].u = req'[v].u => t = v
  <2>1. CASE t = s
    BY <1>6, <1>7, <1>8, <1>9, <1>10, <1>11, <1>12, <1>14, <2>1
  <2>2. CASE t # s
    BY <1>6, <1>8, <1>10, <1>11, <1>12, <1>14, <2>2 DEF PasswordInv
  <2> QED BY <2>1, <2>2
<1>15. PasswordInv' <=>
        /\ PasswordBeforeAccount'
        /\ \A t \in Slots :
             req'[t].u \notin torn' =>
               /\ req'[t].pc \in Saving => HasPassword(req'[t].row)
               /\ Half(req'[t]) => Covers(req'[t], user'[req'[t].u])
               /\ \A v \in Slots : Half(req'[t]) /\ Half(req'[v]) /\ req'[t].u = req'[v].u => t = v
  BY DEF PasswordInv, Covers, Half, HasPassword
<1> QED BY <1>13, <1>14, <1>15

\* The second statement: what it leaves alone is still as it was compared, unless the two
\* statements of another save came between.
LEMMA UpdatePasswords ==
    ASSUME RowsInv, PasswordInv, NEW s \in Slots, Update(s)
    PROVE  PasswordInv'
<1> DEFINE r == req[s]
           row == Updated(user[r.u], r.row, r.cols)
<1>1. r \in Request /\ r.pc = "update" /\ r.u \in Users /\ user[r.u] \in Row /\ r.row \in Row
  BY DEF Update, RowsInv, TypeOK, LocalOK, Saving, Request
<1>2. user' = [user EXCEPT ![r.u] = row] /\ torn' = torn
  BY <1>1 DEF Update, RowsInv, TypeOK
<1>3. PICK next : req' = [req EXCEPT ![s] = next] /\ next.pc \notin Saving /\ ~Half(next)
  <2>1. PICK next : next \in {Idle, [Idle EXCEPT !.pc = "issue", !.u = r.u]}
                    /\ req' = [req EXCEPT ![s] = next]
    BY DEF Update, Finish, Continue
  <2>2. Idle.pc = "idle" /\ [Idle EXCEPT !.pc = "issue", !.u = r.u].pc = "issue"
    BY DEF Idle
  <2> QED BY <2>1, <2>2 DEF Saving, Half
<1>4. /\ row.stage = IF "stage" \in r.cols THEN r.row.stage ELSE user[r.u].stage
      /\ row.password = IF "password" \in r.cols THEN r.row.password ELSE user[r.u].password
  BY <1>1, UpdatedRow
<1> HIDE DEF row
<1>5. CASE ~Half(r)
  <2>1. row.stage = user[r.u].stage /\ row.password = user[r.u].password
    BY <1>1, <1>4, <1>5, HalfPaired
  <2> QED BY <1>1, <1>2, <1>3, <2>1, RowKeepsPasswords
<1>6. CASE Half(r)
  <2>1. \A v \in Users : user'[v] = IF v = r.u THEN row ELSE user[v]
    BY <1>1, <1>2 DEF RowsInv, TypeOK
  <2>2. r.u \notin torn => HasPassword(row)
    <3>1. r.u \notin torn => Covers(r, user[r.u]) /\ HasPassword(r.row)
      BY <1>1, <1>6 DEF PasswordInv, Saving
    <3> QED BY <1>4, <3>1 DEF Covers, HasPassword
  <2>3. \A v \in Users \ torn : HasPassword(user'[v])
    BY <2>1, <2>2 DEF PasswordInv, PasswordBeforeAccount
  <2>4. ASSUME NEW t \in Slots \ {s}, Half(req[t]), req[t].u \notin torn
        PROVE  Covers(req[t], user'[req[t].u])
    <3>1. req[t].u # r.u /\ Covers(req[t], user[req[t].u])
      BY <1>6, <2>4 DEF PasswordInv
    <3>2. req[t].u \in Users
      BY <2>4 DEF Half, RowsInv, LocalOK, Saving
    <3> QED BY <2>1, <3>1, <3>2
  <2> QED BY <1>2, <1>3, <2>3, <2>4, SlotKeepsPasswords
<1> QED BY <1>5, <1>6

LEMMA StepPasswords ==
    ASSUME RowsInv, PasswordInv, NEW s \in Slots, Step(s)
    PROVE  PasswordInv'
<1> DEFINE r == req[s]
<1>1. r \in Request /\ LocalOK(r)
  BY DEF RowsInv, TypeOK
<1>2. Idle.pc \notin Saving /\ ~Half(Idle)
  BY DEF Idle, Saving, Half
<1>3. CASE OtpInsert(s)
  <2> DEFINE row == [NoRow EXCEPT !.phone = r.phone, !.stage = "OTP_VERIFIED", !.via = "STEPS"]
  <2>1. req' = [req EXCEPT ![s] = Idle] /\ torn' = torn
    BY <1>3 DEF OtpInsert, Finish, Continue
  <2>2. HasPassword(row)
    BY DEF NoRow, HasPassword
  <2>3. (\E u \in Unused : user' = [user EXCEPT ![u] = row]) \/ UNCHANGED user
    BY <1>3 DEF OtpInsert
  <2> HIDE DEF row
  <2>4. CASE \E u \in Unused : user' = [user EXCEPT ![u] = row]
    BY <1>2, <2>1, <2>2, <2>4, InsertKeepsPasswords
  <2>5. CASE UNCHANGED user
    BY <1>2, <2>1, <2>5, TableKeepsPasswords
  <2> QED BY <2>3, <2>4, <2>5
<1>4. CASE OnceInsert(s)
  <2>1. PICK u \in Unused, email \in BOOLEAN :
          /\ user' = [user EXCEPT ![u] = [phone |-> r.phone, stage |-> "COMPLETED",
                                          password |-> TRUE, email |-> email, linked |-> FALSE,
                                          deleted |-> FALSE, via |-> "ONCE"]]
          /\ Continue(s, [Idle EXCEPT !.pc = "issue", !.u = u])
    BY <1>4 DEF OnceInsert
  <2> DEFINE row == [phone |-> r.phone, stage |-> "COMPLETED", password |-> TRUE, email |-> email,
                     linked |-> FALSE, deleted |-> FALSE, via |-> "ONCE"]
             next == [Idle EXCEPT !.pc = "issue", !.u = u]
  <2>2. HasPassword(row)
    BY DEF HasPassword
  <2>3. next.pc \notin Saving /\ ~Half(next)
    BY DEF Idle, Saving, Half
  <2> HIDE DEF row, next
  <2>4. user' = [user EXCEPT ![u] = row] /\ req' = [req EXCEPT ![s] = next]
    BY <2>1 DEF row, next, Continue
  <2>5. torn' = torn
    BY <1>4 DEF OnceInsert
  <2> QED BY <2>2, <2>3, <2>4, <2>5, InsertKeepsPasswords
<1>5. CASE Link(s)
  <2>1. r.u \in Users /\ user[r.u] \in Row
    BY <1>1, <1>5 DEF Link, LocalOK, Saving, RowsInv, TypeOK
  <2> DEFINE row == [user[r.u] EXCEPT !.linked = TRUE]
             next == [r EXCEPT !.pc = "save"]
  <2>2. row.stage = user[r.u].stage /\ row.password = user[r.u].password
    BY <2>1 DEF Row
  <2>3. next.pc = "save" /\ next.u = r.u /\ next.row = r.row
    BY <1>1 DEF Request
  <2>4. user' = [user EXCEPT ![r.u] = row] /\ req' = [req EXCEPT ![s] = next] /\ torn' = torn
    BY <1>5, <2>1 DEF Link, Goto, Continue, RowsInv, TypeOK
  <2> HIDE DEF row, next
  <2>5. ~Half(next) /\ (next.u \notin torn => HasPassword(next.row))
    BY <1>5, <2>3 DEF Link, Half, PasswordInv, Saving
  <2> QED BY <2>1, <2>2, <2>4, <2>5, RowKeepsPasswords
<1>6. CASE Preload(s)
  <2> DEFINE phone == IF r.phone = None THEN user[r.u].phone ELSE r.phone
  <2>1. r.u \in Users
    BY <1>1, <1>6 DEF Preload, LocalOK
  <2>2. UNCHANGED user /\ torn' = torn
    BY <1>6 DEF Preload
  <2>3. CASE Live(r.u)
    <3>1. phone \in Phones
      BY <1>1, <2>1, <2>3 DEF Request, Live, RowsInv, RowOK
    <3>2. PICK email \in BOOLEAN, password \in BOOLEAN :
            Continue(s, [r EXCEPT !.pc = "save", !.row = Edited(r.u, phone, email, password)])
      BY <1>6, <2>3 DEF Preload
    <3> DEFINE row == Edited(r.u, phone, email, password)
               next == [r EXCEPT !.pc = "save", !.row = row]
    <3> HIDE DEF phone
    <3>3. HasPassword(user[r.u]) => HasPassword(row)
      BY <2>1, <3>1, EditedRow
    <3> HIDE DEF row
    <3>4. next.pc = "save" /\ next.u = r.u /\ next.row = row
      BY <1>1 DEF Request
    <3>5. req' = [req EXCEPT ![s] = next]
      BY <3>2 DEF row, Continue
    <3> HIDE DEF next
    <3>6. ~Half(next) /\ (next.u \notin torn => HasPassword(next.row))
      BY <2>1, <3>3, <3>4 DEF Half, PasswordInv, PasswordBeforeAccount
    <3> QED BY <2>2, <3>5, <3>6, TableKeepsPasswords
  <2>4. CASE ~Live(r.u)
    <3>1. req' = [req EXCEPT ![s] = Idle]
      BY <1>6, <2>4 DEF Preload, Finish, Continue
    <3> QED BY <1>2, <2>2, <3>1, TableKeepsPasswords
  <2> QED BY <2>3, <2>4
<1>7. CASE Issue(s)
  <2>1. req' = [req EXCEPT ![s] = Idle] /\ torn' = torn /\ UNCHANGED user
    BY <1>7 DEF Issue, Finish, Continue
  <2> QED BY <1>2, <2>1, TableKeepsPasswords
<1>8. CASE SoftRemove(s)
  <2>1. r.u \in Users /\ user[r.u] \in Row
    BY <1>1, <1>8 DEF SoftRemove, LocalOK, RowsInv, TypeOK
  <2> DEFINE row == [user[r.u] EXCEPT !.deleted = TRUE]
  <2>2. row.stage = user[r.u].stage /\ row.password = user[r.u].password
    BY <2>1 DEF Row
  <2>3. user' = [user EXCEPT ![r.u] = row] /\ req' = [req EXCEPT ![s] = Idle] /\ torn' = torn
    BY <1>8, <2>1 DEF SoftRemove, Finish, Continue, RowsInv, TypeOK
  <2> HIDE DEF row
  <2> QED BY <1>2, <2>1, <2>2, <2>3, RowKeepsPasswords
<1> QED
  BY <1>3, <1>4, <1>5, <1>6, <1>7, <1>8, SavePasswords, UpdatePasswords DEF Step

LEMMA NextPasswords == RowsInv /\ PasswordInv /\ [Next]_vars => PasswordInv'
<1> SUFFICES ASSUME RowsInv, PasswordInv, [Next]_vars PROVE PasswordInv'
  OBVIOUS
<1>1. ASSUME NEW s \in Slots, RequestFails(s) PROVE PasswordInv'
  <2>1. Idle.pc \notin Saving /\ ~Half(Idle)
    BY DEF Idle, Saving, Half
  <2>2. req' = [req EXCEPT ![s] = Idle] /\ torn' = torn /\ UNCHANGED user
    BY <1>1 DEF RequestFails
  <2> QED BY <2>1, <2>2, TableKeepsPasswords
<1>2. CASE Next
  BY <1>1, <1>2, ArrivalPasswords, StepPasswords DEF Next
<1>3. CASE UNCHANGED vars
  BY <1>3 DEF vars, PasswordInv, PasswordBeforeAccount, HasPassword, Covers, Half
<1> QED BY <1>2, <1>3

\* However many requests overlap, however stale what they save and wherever one dies, no
\* account gets past the first stage without a password, but for a user two of whose saves ran
\* their two statements through each other (user-auth.service.ts:385-412 and 414-470).
THEOREM PasswordsComeFirst == Spec => []PasswordBeforeAccount
<1>1. PasswordInv => PasswordBeforeAccount
  BY DEF PasswordInv
<1> QED BY <1>1, InitRows, NextRows, InitPasswords, NextPasswords, PTL DEF Spec

--------------------------------------------------------------------------------
\* What holds while no requests have overlapped.

LEMMA Ranks == /\ Rank("NONE") = 0         /\ Rank("OTP_VERIFIED") = 1
               /\ Rank("PASSWORD_SET") = 2 /\ Rank("COMPLETED") = 3
  BY DEF Rank

\* No step changes the stage of a row for an earlier one.
Advances == \A u \in Users : Rank(user'[u].stage) >= Rank(user[u].stage)

\* A table without change keeps what is said of it.
LEMMA SameTable ==
    ASSUME RowsInv, CalmInv, PhoneRegistersOnce, calm, UNCHANGED user
    PROVE  OnceIsCompleted' /\ PhoneRegistersOnce' /\ Advances
<1>1. \A u \in Users : user[u].stage \in {"NONE", "OTP_VERIFIED", "PASSWORD_SET", "COMPLETED"}
  BY DEF RowsInv, TypeOK, Row, UserRegistrationStage
<1>2. Advances
  BY <1>1, Ranks DEF Advances
<1> QED BY <1>2 DEF CalmInv, OnceIsCompleted, PhoneRegistersOnce, Live

LEMMA StartCalm ==
    ASSUME RowsInv, CalmInv, PhoneRegistersOnce, NEW s \in Slots, NEW r,
           Start(s, r), UNCHANGED user, calm', KnowsOK(r)
    PROVE  CalmInv' /\ PhoneRegistersOnce' /\ Advances
<1>1. calm /\ \A t \in Slots : req'[t] = IF t = s THEN r ELSE Idle
  BY DEF Start, RowsInv, TypeOK
<1>2. \A t \in Slots : KnowsOK(req[t])'
  BY <1>1 DEF KnowsOK, Idle, Saving, Registered, Completed, Live
<1> QED BY <1>1, <1>2, SameTable DEF CalmInv

LEMMA ContinueCalm ==
    ASSUME RowsInv, CalmInv, calm, NEW s \in Slots, NEW r, Continue(s, r), req[s] # Idle,
           r.pc \notin Saving \/ Ahead(r.row, user'[r.u]),
           r.pc \notin {"otpInsert", "onceInsert"}, OnceIsCompleted'
    PROVE  CalmInv'
<1>1. \A t \in Slots : req'[t] = IF t = s THEN r ELSE Idle
  BY DEF Continue, RowsInv, TypeOK, CalmInv
<1>2. \A t \in Slots : KnowsOK(req[t])'
  BY <1>1 DEF KnowsOK, Idle, Saving
<1> QED BY <1>1, <1>2 DEF CalmInv

\* A row that is new to the table, whose phone is new to its way of registering.
LEMMA Inserted ==
    ASSUME RowsInv, CalmInv, PhoneRegistersOnce, calm, NEW u \in Unused, NEW row \in Row,
           user' = [user EXCEPT ![u] = row],
           row.stage # "NONE", row.via = "ONCE" => row.stage = "COMPLETED",
           \A v \in Users : Live(v) /\ user[v].via = row.via => user[v].phone # row.phone
    PROVE  OnceIsCompleted' /\ PhoneRegistersOnce' /\ Advances
<1>1. u \in Users /\ user[u].stage = "NONE"
  BY DEF Unused
<1>2. \A v \in Users : user'[v] = IF v = u THEN row ELSE user[v]
  BY <1>1 DEF RowsInv, TypeOK
<1>3. \A v \in Users : user[v].stage \in {"NONE", "OTP_VERIFIED", "PASSWORD_SET", "COMPLETED"}
  BY DEF RowsInv, TypeOK, Row, UserRegistrationStage
<1>4. row.stage \in {"NONE", "OTP_VERIFIED", "PASSWORD_SET", "COMPLETED"}
  BY DEF Row, UserRegistrationStage
<1>5. Advances
  BY <1>1, <1>2, <1>3, <1>4, Ranks DEF Advances
<1>6. OnceIsCompleted'
  BY <1>2 DEF OnceIsCompleted, CalmInv, Live
<1>7. PhoneRegistersOnce'
  BY <1>2 DEF PhoneRegistersOnce, Live
<1> QED BY <1>5, <1>6, <1>7

\* A row that is ahead of the one in the table, or that one as it is deleted or linked.
LEMMA Replaced ==
    ASSUME RowsInv, CalmInv, PhoneRegistersOnce, calm, NEW u \in Users, NEW row \in Row,
           user' = [user EXCEPT ![u] = row],
           \/ Ahead(row, user[u])
           \/ /\ row.stage = user[u].stage /\ row.via = user[u].via
              /\ row.phone = user[u].phone /\ (~row.deleted => ~user[u].deleted)
    PROVE  OnceIsCompleted' /\ PhoneRegistersOnce' /\ Advances
<1>1. \A v \in Users : user'[v] = IF v = u THEN row ELSE user[v]
  BY DEF RowsInv, TypeOK
<1>2. \A v \in Users : user[v].stage \in {"NONE", "OTP_VERIFIED", "PASSWORD_SET", "COMPLETED"}
  BY DEF RowsInv, TypeOK, Row, UserRegistrationStage
<1>3. row.stage \in {"NONE", "OTP_VERIFIED", "PASSWORD_SET", "COMPLETED"}
  BY DEF Row, UserRegistrationStage
<1>4. Advances
  BY <1>1, <1>2, <1>3, Ranks DEF Advances, Ahead
<1>5. row.via = "ONCE" /\ row.stage # "NONE" /\ ~row.deleted => row.stage = "COMPLETED"
  BY <1>2, <1>3, Ranks DEF CalmInv, OnceIsCompleted, Live, Ahead
<1>6. OnceIsCompleted'
  BY <1>1, <1>5 DEF OnceIsCompleted, CalmInv, Live
<1>7. PhoneRegistersOnce'
  BY <1>1 DEF PhoneRegistersOnce, Live, Ahead
<1> QED BY <1>4, <1>6, <1>7

\* A row is ahead of itself after an update of any columns to a row that is.
LEMMA UpdatedAhead ==
    ASSUME NEW old \in Row, NEW row \in Row, Ahead(row, old), NEW cols
    PROVE  Updated(old, row, cols) \in Row /\ Ahead(Updated(old, row, cols), old)
<1> DEFINE new == Updated(old, row, cols)
<1>1. /\ new \in Row
      /\ new.phone = IF "phone" \in cols THEN row.phone ELSE old.phone
      /\ new.via = IF "phone" \in cols THEN row.via ELSE old.via
      /\ new.stage = IF "stage" \in cols THEN row.stage ELSE old.stage
      /\ new.deleted = IF "deleted" \in cols THEN row.deleted ELSE old.deleted
  BY UpdatedRow
<1> HIDE DEF new
<1>2. old.stage \in {"NONE", "OTP_VERIFIED", "PASSWORD_SET", "COMPLETED"}
  BY DEF Row, UserRegistrationStage
<1>3. Rank(new.stage) >= Rank(old.stage)
  BY <1>1, <1>2, Ranks DEF Ahead
<1>4. Ahead(new, old)
  BY <1>1, <1>3 DEF Ahead
<1> QED BY <1>1, <1>4 DEF new

\* A live row, edited, is ahead of itself.
LEMMA EditedAhead ==
    ASSUME RowsInv, NEW u \in Users, Live(u), NEW p \in Phones, NEW email \in BOOLEAN,
           NEW password \in BOOLEAN
    PROVE  Ahead(Edited(u, p, email, password), user[u])
<1>1. user[u].stage \in {"OTP_VERIFIED", "PASSWORD_SET", "COMPLETED"}
  BY DEF RowsInv, TypeOK, Row, UserRegistrationStage, Live
<1> DEFINE row == Edited(u, p, email, password)
<1>2. user[u] \in Row
  BY DEF RowsInv, TypeOK
<1>3. row.stage = user[u].stage /\ row.deleted = user[u].deleted
  BY <1>2 DEF Edited, Row
<1>4. row.phone = p /\ row.via = IF p = user[u].phone THEN user[u].via ELSE "EDITED"
  BY <1>2 DEF Edited, Row
<1> HIDE DEF row
<1> QED BY <1>1, <1>3, <1>4, Ranks DEF Ahead, Live, row

--------------------------------------------------------------------------------
LEMMA ArrivalCalm ==
    ASSUME RowsInv, CalmInv, PhoneRegistersOnce, NEW s \in Slots, Arrives(s), calm'
    PROVE  CalmInv' /\ PhoneRegistersOnce' /\ Advances
<1>1. \A u \in Users : user[u] \in Row
                       /\ user[u].stage \in {"NONE", "OTP_VERIFIED", "PASSWORD_SET", "COMPLETED"}
  BY DEF RowsInv, TypeOK, Row, UserRegistrationStage
<1>2. ASSUME NEW u \in Users, NEW row, Ahead(row, user[u]), NEW then, NEW pc \in {"save", "link"},
             Start(s, [Idle EXCEPT !.pc = pc, !.u = u, !.row = row, !.then = then]),
             UNCHANGED user
      PROVE  CalmInv' /\ PhoneRegistersOnce' /\ Advances
  <2> DEFINE r == [Idle EXCEPT !.pc = pc, !.u = u, !.row = row, !.then = then]
  <2>1. KnowsOK(r)
    BY <1>2 DEF KnowsOK, Idle
  <2> HIDE DEF r
  <2>2. Start(s, r)
    BY <1>2 DEF r
  <2> QED BY <1>2, <2>1, <2>2, StartCalm
<1>3. CASE OtpVerify(s) \/ RegisterOnce(s)
  <2>1. PICK p \in Phones, pc \in {"otpInsert", "onceInsert"} :
           /\ Start(s, [Idle EXCEPT !.pc = pc, !.phone = p]) /\ UNCHANGED user
           /\ pc = "otpInsert" => \A u \in Users : ~Registered(u, p)
           /\ pc = "onceInsert" => \A u \in Users : ~Completed(u, p)
    BY <1>3 DEF OtpVerify, RegisterOnce
  <2> DEFINE r == [Idle EXCEPT !.pc = pc, !.phone = p]
  <2>2. KnowsOK(r)
    BY <2>1 DEF KnowsOK, Idle, Saving
  <2> HIDE DEF r
  <2>3. Start(s, r)
    BY <2>1 DEF r
  <2> QED BY <2>1, <2>2, <2>3, StartCalm
<1>4. CASE PasswordSetup(s)
  <2>1. PICK u \in Users :
           /\ Live(u) /\ user[u].stage = "OTP_VERIFIED"
           /\ StartSave(s, u, [user[u] EXCEPT !.password = TRUE, !.stage = "PASSWORD_SET"], "idle")
    BY <1>4 DEF PasswordSetup
  <2>2. Ahead([user[u] EXCEPT !.password = TRUE, !.stage = "PASSWORD_SET"], user[u])
    BY <1>1, <2>1, Ranks DEF Ahead, Live, Row
  <2> QED BY <1>2, <1>4, <2>1, <2>2 DEF StartSave, PasswordSetup
<1>5. CASE AccountSetup(s)
  <2>1. PICK u \in Users, email \in BOOLEAN :
           /\ Live(u) /\ user[u].stage = "PASSWORD_SET"
           /\ StartSave(s, u, [user[u] EXCEPT !.email = (@ \/ email), !.stage = "COMPLETED"], "issue")
    BY <1>5 DEF AccountSetup
  <2>2. Ahead([user[u] EXCEPT !.email = (@ \/ email), !.stage = "COMPLETED"], user[u])
    BY <1>1, <2>1, Ranks DEF Ahead, Live, Row
  <2> QED BY <1>2, <1>5, <2>1, <2>2 DEF StartSave, AccountSetup
<1>6. ASSUME NEW u \in Users, Live(u) PROVE Ahead(user[u], user[u])
  BY <1>1, <1>6, Ranks DEF Ahead, Live
<1>7. CASE OAuthLogin(s)
  <2>1. PICK u \in Users, then \in {"idle", "issue"}, pc \in {"save", "link"} :
           Live(u) /\ Start(s, [Idle EXCEPT !.pc = pc, !.u = u, !.row = user[u], !.then = then])
    BY <1>7 DEF OAuthLogin
  <2> QED BY <1>2, <1>6, <1>7, <2>1 DEF OAuthLogin
<1>8. CASE UserLogin(s)
  <2>1. PICK u \in Users : Live(u) /\ StartSave(s, u, user[u], "issue")
    BY <1>8 DEF UserLogin
  <2> QED BY <1>2, <1>6, <1>8, <2>1 DEF StartSave, UserLogin
<1>9. CASE SetPassword(s)
  <2>1. PICK u \in Users : Live(u) /\ StartSave(s, u, [user[u] EXCEPT !.password = TRUE], "idle")
    BY <1>9 DEF SetPassword
  <2>2. Ahead([user[u] EXCEPT !.password = TRUE], user[u])
    BY <1>1, <2>1, Ranks DEF Ahead, Live, Row
  <2> QED BY <1>2, <1>9, <2>1, <2>2 DEF StartSave, SetPassword
<1>10. CASE UpdateProfile(s)
  <2>1. PICK u \in access, p \in Phones, email \in BOOLEAN, password \in BOOLEAN :
           Live(u) /\ StartSave(s, u, Edited(u, p, email, password), "idle")
    BY <1>10 DEF UpdateProfile
  <2>2. u \in Users
    BY DEF RowsInv, TypeOK
  <2>3. Ahead(Edited(u, p, email, password), user[u])
    BY <2>1, <2>2, EditedAhead
  <2> QED BY <1>2, <1>10, <2>1, <2>2, <2>3 DEF StartSave, UpdateProfile
<1>11. CASE UpdateUser(s) \/ DeleteProfile(s) \/ RemoveUser(s)
  <2>1. PICK r : Start(s, r) /\ UNCHANGED user /\ r.pc \in {"preload", "softRemove"}
    <3>1. CASE UpdateUser(s)
      <4>1. PICK u \in Users, p \in Phones \cup {None} :
               Start(s, [Idle EXCEPT !.pc = "preload", !.u = u, !.phone = p])
        BY <3>1 DEF UpdateUser
      <4>2. [Idle EXCEPT !.pc = "preload", !.u = u, !.phone = p].pc = "preload"
        BY DEF Idle
      <4> QED BY <3>1, <4>1, <4>2 DEF UpdateUser
    <3>2. CASE DeleteProfile(s) \/ RemoveUser(s)
      <4>1. PICK u : Start(s, [Idle EXCEPT !.pc = "softRemove", !.u = u])
        BY <3>2 DEF DeleteProfile, RemoveUser
      <4>2. [Idle EXCEPT !.pc = "softRemove", !.u = u].pc = "softRemove"
        BY DEF Idle
      <4> QED BY <3>2, <4>1, <4>2 DEF DeleteProfile, RemoveUser
    <3> QED BY <1>11, <3>1, <3>2
  <2>2. KnowsOK(r)
    BY <2>1 DEF KnowsOK, Saving
  <2> QED BY <2>1, <2>2, StartCalm
<1> QED BY <1>3, <1>4, <1>5, <1>7, <1>8, <1>9, <1>10, <1>11 DEF Arrives

LEMMA StepCalm ==
    ASSUME RowsInv, CalmInv, PhoneRegistersOnce, NEW s \in Slots, Step(s), calm'
    PROVE  CalmInv' /\ PhoneRegistersOnce' /\ Advances
<1> DEFINE r == req[s]
<1>1. calm /\ r # Idle /\ KnowsOK(r)
  <2>1. calm
    BY DEF Step, OtpInsert, OnceInsert, Link, Preload, Save, Update, Issue, SoftRemove,
           Finish, Goto, Continue
  <2>2. r.pc # "idle"
    BY DEF Step, OtpInsert, OnceInsert, Link, Preload, Save, Update, Issue, SoftRemove
  <2> QED BY <2>1, <2>2 DEF Idle, CalmInv
<1>2. r \in Request /\ LocalOK(r)
  BY DEF RowsInv, TypeOK
<1>3. ASSUME OnceIsCompleted' /\ PhoneRegistersOnce' /\ Advances, NEW next, Continue(s, next),
             next.pc \in {"idle", "issue"} \/ Ahead(next.row, user'[next.u]),
             next.pc \notin {"otpInsert", "onceInsert"}
      PROVE  CalmInv' /\ PhoneRegistersOnce' /\ Advances
  BY <1>1, <1>3, ContinueCalm DEF Saving
<1>4. Idle.pc = "idle"
  BY DEF Idle
<1>5. CASE OtpInsert(s)
  <2> DEFINE row == [NoRow EXCEPT !.phone = r.phone, !.stage = "OTP_VERIFIED", !.via = "STEPS"]
  <2>1. r.phone \in Phones /\ \A u \in Users : ~Registered(u, r.phone)
    BY <1>1, <1>2, <1>5 DEF OtpInsert, LocalOK, KnowsOK
  <2>2. CASE \E u \in Unused : user' = [user EXCEPT ![u] = row]
    <3>1. PICK u \in Unused : user' = [user EXCEPT ![u] = row]
      BY <2>2
    <3>2. /\ row \in Row /\ row.stage # "NONE" /\ row.via # "ONCE"
          /\ \A v \in Users : Live(v) /\ user[v].via = row.via => user[v].phone # row.phone
      BY <2>1 DEF Row, NoRow, UserRegistrationStage, Registered
    <3> HIDE DEF row
    <3>3. OnceIsCompleted' /\ PhoneRegistersOnce' /\ Advances
      BY <1>1, <3>1, <3>2, Inserted
    <3> QED BY <1>3, <1>4, <1>5, <3>3 DEF OtpInsert, Finish
  <2>3. CASE UNCHANGED user
    BY <1>1, <1>3, <1>4, <1>5, <2>3, SameTable DEF OtpInsert, Finish
  <2> QED BY <1>5, <2>2, <2>3 DEF OtpInsert
<1>6. CASE OnceInsert(s)
  <2>1. r.phone \in Phones /\ \A u \in Users : ~Completed(u, r.phone)
    BY <1>1, <1>2, <1>6 DEF OnceInsert, LocalOK, KnowsOK
  <2>2. PICK u \in Unused, email \in BOOLEAN :
          /\ user' = [user EXCEPT ![u] = [phone |-> r.phone, stage |-> "COMPLETED",
                                          password |-> TRUE, email |-> email, linked |-> FALSE,
                                          deleted |-> FALSE, via |-> "ONCE"]]
          /\ Continue(s, [Idle EXCEPT !.pc = "issue", !.u = u])
    BY <1>6 DEF OnceInsert
  <2> DEFINE row == [phone |-> r.phone, stage |-> "COMPLETED", password |-> TRUE, email |-> email,
                     linked |-> FALSE, deleted |-> FALSE, via |-> "ONCE"]
             next == [Idle EXCEPT !.pc = "issue", !.u = u]
  <2>3. row \in Row /\ row.stage = "COMPLETED"
    BY <2>1 DEF Row, UserRegistrationStage
  <2>4. \A v \in Users : Live(v) /\ user[v].via = row.via => user[v].phone # row.phone
    BY <1>1, <2>1 DEF CalmInv, OnceIsCompleted, Completed
  <2>5. next.pc = "issue"
    BY DEF Idle
  <2> HIDE DEF row, next
  <2>6. user' = [user EXCEPT ![u] = row] /\ Continue(s, next)
    BY <2>2 DEF row, next
  <2>7. OnceIsCompleted' /\ PhoneRegistersOnce' /\ Advances
    BY <1>1, <2>3, <2>4, <2>6, Inserted
  <2> QED BY <1>3, <2>5, <2>6, <2>7
<1>7. CASE Link(s)
  <2>1. r.u \in Users /\ Ahead(r.row, user[r.u])
    BY <1>1, <1>2, <1>7 DEF Link, LocalOK, KnowsOK, Saving
  <2> DEFINE row == [user[r.u] EXCEPT !.linked = TRUE]
             next == [r EXCEPT !.pc = "save"]
  <2>2. /\ row \in Row /\ row.stage = user[r.u].stage /\ row.via = user[r.u].via
        /\ row.phone = user[r.u].phone /\ row.deleted = user[r.u].deleted
    <3>1. user[r.u] \in Row
      BY <2>1 DEF RowsInv, TypeOK
    <3> QED BY <3>1, LinkedRow
  <2>3. next.pc = "save" /\ next.row = r.row /\ next.u = r.u
    BY <1>2 DEF Request
  <2>4. user' = [user EXCEPT ![r.u] = row] /\ Continue(s, next)
    BY <1>7, <2>1 DEF Link, Goto, RowsInv, TypeOK
  <2> HIDE DEF row, next
  <2>5. user'[r.u] = row
    BY <2>1, <2>4 DEF RowsInv, TypeOK
  <2>6. Ahead(next.row, user'[next.u])
    BY <2>1, <2>2, <2>3, <2>5 DEF Ahead
  <2>7. OnceIsCompleted' /\ PhoneRegistersOnce' /\ Advances
    BY <1>1, <2>1, <2>2, <2>4, Replaced
  <2> QED BY <1>3, <2>3, <2>4, <2>6, <2>7
<1>8. CASE Preload(s)
  <2> DEFINE phone == IF r.phone = None THEN user[r.u].phone ELSE r.phone
  <2>1. r.u \in Users
    BY <1>2, <1>8 DEF Preload, LocalOK
  <2>2. UNCHANGED user /\ OnceIsCompleted' /\ PhoneRegistersOnce' /\ Advances
    BY <1>1, <1>8, SameTable DEF Preload
  <2>3. CASE Live(r.u)
    <3>0. phone \in Phones
      BY <1>2, <2>1, <2>3 DEF Request, Live, RowsInv, RowOK
    <3>1. PICK email \in BOOLEAN, password \in BOOLEAN :
            Continue(s, [r EXCEPT !.pc = "save", !.row = Edited(r.u, phone, email, password)])
      BY <1>8, <2>3 DEF Preload
    <3> DEFINE row == Edited(r.u, phone, email, password)
               next == [r EXCEPT !.pc = "save", !.row = row]
    <3> HIDE DEF phone
    <3>2. Ahead(row, user[r.u])
      BY <2>1, <2>3, <3>0, EditedAhead
    <3> HIDE DEF row
    <3>3. next.pc = "save" /\ next.row = row /\ next.u = r.u
      BY <1>2 DEF Request
    <3>4. Continue(s, next)
      BY <3>1 DEF row
    <3> HIDE DEF next
    <3> QED BY <1>3, <2>2, <3>2, <3>3, <3>4
  <2>4. CASE ~Live(r.u)
    BY <1>3, <1>4, <1>8, <2>2, <2>4 DEF Preload, Finish
  <2> QED BY <2>3, <2>4
<1>9. CASE Save(s)
  <2>1. Ahead(r.row, user[r.u])
    BY <1>1, <1>9 DEF Save, KnowsOK, Saving
  <2>2. PICK cols : Continue(s, [r EXCEPT !.pc = "update", !.cols = cols])
    BY <1>9 DEF Save
  <2> DEFINE next == [r EXCEPT !.pc = "update", !.cols = cols]
  <2>3. next.pc = "update" /\ next.row = r.row /\ next.u = r.u
    BY <1>2 DEF Request
  <2>4. Continue(s, next)
    BY <2>2
  <2> HIDE DEF next
  <2>5. UNCHANGED user /\ OnceIsCompleted' /\ PhoneRegistersOnce' /\ Advances
    BY <1>1, <1>9, SameTable DEF Save
  <2> QED BY <1>3, <2>1, <2>3, <2>4, <2>5
<1>12. CASE Update(s)
  <2>1. r.u \in Users /\ r.row \in Row /\ user[r.u] \in Row /\ Ahead(r.row, user[r.u])
    BY <1>1, <1>2, <1>12 DEF Update, LocalOK, KnowsOK, Saving, Request, RowsInv, TypeOK
  <2> DEFINE row == Updated(user[r.u], r.row, r.cols)
  <2>2. row \in Row /\ Ahead(row, user[r.u])
    BY <2>1, UpdatedAhead
  <2>3. user' = [user EXCEPT ![r.u] = row]
    BY <1>12, <2>1 DEF Update, RowsInv, TypeOK
  <2> HIDE DEF row
  <2>4. PICK next : Continue(s, next) /\ next.pc \in {"idle", "issue"}
    <3>1. [Idle EXCEPT !.pc = "issue", !.u = r.u].pc = "issue"
      BY DEF Idle
    <3> QED BY <1>4, <1>12, <3>1 DEF Update, Finish
  <2>5. OnceIsCompleted' /\ PhoneRegistersOnce' /\ Advances
    BY <1>1, <2>1, <2>2, <2>3, Replaced
  <2> QED BY <1>3, <2>4, <2>5
<1>10. CASE Issue(s)
  BY <1>1, <1>3, <1>4, <1>10, SameTable DEF Issue, Finish
<1>11. CASE SoftRemove(s)
  <2>1. r.u \in Users
    BY <1>2, <1>11 DEF SoftRemove, LocalOK
  <2> DEFINE row == [user[r.u] EXCEPT !.deleted = TRUE]
  <2>2. /\ row \in Row /\ row.stage = user[r.u].stage /\ row.via = user[r.u].via
        /\ row.phone = user[r.u].phone /\ row.deleted
    <3>1. user[r.u] \in Row
      BY <2>1 DEF RowsInv, TypeOK
    <3> QED BY <3>1, DeletedRow
  <2>3. user' = [user EXCEPT ![r.u] = row]
    BY <1>11, <2>1 DEF SoftRemove, RowsInv, TypeOK
  <2> HIDE DEF row
  <2>4. OnceIsCompleted' /\ PhoneRegistersOnce' /\ Advances
    BY <1>1, <2>1, <2>2, <2>3, Replaced
  <2> QED BY <1>3, <1>4, <1>11, <2>4 DEF SoftRemove, Finish
<1> QED BY <1>5, <1>6, <1>7, <1>8, <1>9, <1>10, <1>11, <1>12 DEF Step

LEMMA FailureCalm ==
    ASSUME RowsInv, CalmInv, PhoneRegistersOnce, NEW s \in Slots, RequestFails(s), calm'
    PROVE  CalmInv' /\ PhoneRegistersOnce' /\ Advances
<1>1. calm /\ UNCHANGED user
  BY DEF RequestFails
<1>2. \A t \in Slots : req'[t] = IF t = s THEN Idle ELSE req[t]
  BY DEF RequestFails, RowsInv, TypeOK
<1>3. OnceIsCompleted' /\ PhoneRegistersOnce' /\ Advances
  BY <1>1, SameTable
<1>4. \A t \in Slots : KnowsOK(req[t])'
  BY <1>1, <1>2 DEF CalmInv, KnowsOK, Saving, Registered, Completed, Live, Idle
<1> QED BY <1>1, <1>2, <1>3, <1>4 DEF CalmInv

LEMMA InitPhones == Init => PhoneInv
<1> SUFFICES ASSUME Init PROVE PhoneInv
  OBVIOUS
<1>1. RowsInv
  BY InitRows
<1>2. \A u \in Users : ~Live(u)
  BY DEF Init, Live, NoRow
<1>3. CalmInv
  BY <1>2 DEF Init, CalmInv, KnowsOK, Saving, Idle, OnceIsCompleted
<1> QED BY <1>1, <1>2, <1>3 DEF PhoneInv, PhoneRegistersOnce

LEMMA NextPhones == PhoneInv /\ [Next]_vars => PhoneInv' /\ (calm' => Advances)
<1> SUFFICES ASSUME PhoneInv, [Next]_vars PROVE PhoneInv' /\ (calm' => Advances)
  OBVIOUS
<1>1. RowsInv'
  BY NextRows DEF PhoneInv
<1>2. CASE calm' /\ Next
  BY <1>1, <1>2, ArrivalCalm, StepCalm, FailureCalm DEF Next, PhoneInv
<1>3. CASE calm' /\ UNCHANGED vars
  <2>1. calm /\ UNCHANGED <<user, req>>
    BY <1>3 DEF vars
  <2>2. OnceIsCompleted' /\ PhoneRegistersOnce' /\ Advances
    BY <2>1, SameTable DEF PhoneInv
  <2>3. \A s \in Slots : KnowsOK(req[s])'
    BY <2>1 DEF PhoneInv, CalmInv, KnowsOK, Registered, Completed, Live
  <2>4. CalmInv'
    BY <2>1, <2>2, <2>3 DEF PhoneInv, CalmInv
  <2> QED
    BY <1>1, <2>2, <2>4 DEF PhoneInv
<1>4. CASE ~calm'
  BY <1>1, <1>4 DEF PhoneInv, CalmInv, PhoneRegistersOnce
<1> QED BY <1>2, <1>3, <1>4

\* As long as no requests overlap, each way to register gives a phone one account
\* (user-auth.service.ts:320-349 and 609-617).
THEOREM PhonesRegisterOnce == Spec => []PhoneRegistersOnce
<1>1. PhoneInv => PhoneRegistersOnce
  BY DEF PhoneInv
<1> QED BY <1>1, InitPhones, NextPhones, PTL DEF Spec

\* As long as no requests overlap, a registration never goes back a stage
\* (user-auth.service.ts:319-470).
THEOREM StagesOnlyAdvance == Spec => StagesAdvance
<1>1. PhoneInv /\ [Next]_vars =>
        [calm' => \A u \in Users : Rank(user'[u].stage) >= Rank(user[u].stage)]_vars
  BY NextPhones DEF Advances
<1> QED BY <1>1, InitPhones, NextPhones, PTL DEF Spec, StagesAdvance
================================================================================
