------------------------------ MODULE Registration ------------------------------
(***************************************************************************)
(* How customers come to exist: registration in steps (code by SMS,        *)
(* password, account), registration in one request, and the flows that     *)
(* load and save the same rows of users meanwhile.  Two handlers of the    *)
(* API that insert a user do not appear: UserService.create and the        *)
(* sign-up of handleOAuthLogin give no roleId, which the table requires,   *)
(* so the insert is always refused.                                        *)
(*                                                                         *)
(* A password is there or not, and so is an e-mail address.  A save of a   *)
(* row that was loaded and edited is two statements: the row is read       *)
(* again, and then the columns are updated that differ from what this      *)
(* second reading found (TypeORM computes them so, also for a row that is  *)
(* deleted by now).  What others write in between is not compared.         *)
(* Refresh tokens, which sign-in and other flows issue and revoke, are the *)
(* matter of Token; here an access token stands for a customer who signed  *)
(* in, since it stays good when the sessions are ended.                    *)
(***************************************************************************)
EXTENDS Integers, FiniteSets

CONSTANTS
    Slots,          \* requests that may be in flight at the same time
    Users,          \* ids of users that may be inserted
    Phones,         \* phone numbers
    None,           \* no such user or phone
    MaxFails        \* bound: requests that may die half way

VARIABLES
    user,           \* rows of users
    access,         \* users who were given an access token
    req,            \* the request each slot is serving
    torn,           \* history: users of whom two saves that each update the stage or the
                    \* password were between their two statements at the same time
    calm,           \* history: no two requests have overlapped
    fails           \* requests that died half way so far

vars == <<user, access, req, torn, calm, fails>>

ASSUME RegistrationAssumption ==
    /\ None \notin Users \cup Phones
    /\ MaxFails \in Nat

UserRegistrationStage == {"OTP_VERIFIED", "PASSWORD_SET", "COMPLETED"}

Row == [phone    : Phones \cup {None},
        stage    : UserRegistrationStage \cup {"NONE"},   \* NONE before the row exists
        password : BOOLEAN,
        email    : BOOLEAN,
        linked   : BOOLEAN,                     \* googleId or appleId is set
        deleted  : BOOLEAN,
        via      : {"STEPS", "ONCE", "EDITED"}] \* history: how the phone came to the row

NoRow == [phone |-> None, stage |-> "NONE", password |-> FALSE, email |-> FALSE,
          linked |-> FALSE, deleted |-> FALSE, via |-> "EDITED"]

Live(u) == user[u].stage # "NONE" /\ ~user[u].deleted

\* A completed account, and one that was begun, whatever its stage.
Completed(u, p)  == Live(u) /\ user[u].phone = p /\ user[u].stage = "COMPLETED"
Registered(u, p) == Live(u) /\ user[u].phone = p

\* The columns a save compares and updates; via goes with the phone.
Columns == {"phone", "stage", "password", "email", "linked", "deleted"}

Idle == [pc |-> "idle", u |-> None, phone |-> None, row |-> NoRow, cols |-> {}, then |-> "idle"]

Suspended ==
    {"otpInsert", "onceInsert", "link", "preload", "save", "update", "issue", "softRemove"}

Request == [pc    : Suspended \cup {"idle"},
            u     : Users \cup {None},
            phone : Phones \cup {None},
            row   : Row,
            cols  : SUBSET Columns,             \* what differed when the row was read again
            then  : {"idle", "issue"}]          \* after the save

Start(s, r) ==
    /\ req[s] = Idle
    /\ req' = [req EXCEPT ![s] = r]
    /\ calm' = (calm /\ \A t \in Slots : req[t] = Idle)
    /\ UNCHANGED <<torn, fails>>

Continue(s, r) == req' = [req EXCEPT ![s] = r] /\ UNCHANGED <<calm, fails>>
Goto(s, pc)    == Continue(s, [req[s] EXCEPT !.pc = pc])
Finish(s)      == Continue(s, Idle)

\* A handler that has loaded u and edited it is about to save it.
StartSave(s, u, row, then) ==
    Start(s, [Idle EXCEPT !.pc = "save", !.u = u, !.row = row, !.then = then])

Unused == {u \in Users : user[u].stage = "NONE"}

\* Bound: a registration starts only while there is an id left for its row.
IdLeft ==
    Cardinality(Unused) > Cardinality({s \in Slots : req[s].pc \in {"otpInsert", "onceInsert"}})

Init ==
    /\ user = [u \in Users |-> NoRow]
    /\ access = {}
    /\ req = [s \in Slots |-> Idle]
    /\ torn = {}
    /\ calm = TRUE
    /\ fails = 0

RequestFails(s) ==
    /\ req[s] # Idle
    /\ fails < MaxFails
    /\ fails' = fails + 1
    /\ req' = [req EXCEPT ![s] = Idle]
    /\ UNCHANGED <<user, access, torn, calm>>

--------------------------------------------------------------------------------
\* Variant: only a completed account is in the way.
OtpVerifyUnlessCompleted(s) ==
    /\ IdLeft
    /\ \E p \in Phones : /\ \A u \in Users : ~Completed(u, p)
                         /\ Start(s, [Idle EXCEPT !.pc = "otpInsert", !.phone = p])
    /\ UNCHANGED <<user, access>>

\* userRegisterOTPVerify: a phone that is known is told its stage, or refused.
OtpVerify(s) ==
    /\ IdLeft
    /\ \E p \in Phones : /\ \A u \in Users : ~Registered(u, p)
                         /\ Start(s, [Idle EXCEPT !.pc = "otpInsert", !.phone = p])
    /\ UNCHANGED <<user, access>>

\* Variant: the row is created without the phone.
OtpInsertPlain(s) ==
    /\ req[s].pc = "otpInsert"
    /\ \/ \E u \in Unused :
            user' = [user EXCEPT ![u] = [NoRow EXCEPT !.stage = "OTP_VERIFIED", !.via = "STEPS"]]
       \/ UNCHANGED user
    /\ Finish(s)
    /\ UNCHANGED <<access, torn>>

\* The provider accepts the code and the row is inserted, or the request is refused.
OtpInsert(s) ==
    /\ req[s].pc = "otpInsert"
    /\ \/ \E u \in Unused :
            user' = [user EXCEPT ![u] = [NoRow EXCEPT !.phone = req[s].phone,
                                                      !.stage = "OTP_VERIFIED",
                                                      !.via = "STEPS"]]
       \/ UNCHANGED user
    /\ Finish(s)
    /\ UNCHANGED <<access, torn>>

\* Variant: the stage is not looked at.
PasswordSetupOfAny(s) ==
    /\ \E u \in Users :
         /\ Live(u)
         /\ StartSave(s, u, [user[u] EXCEPT !.password = TRUE, !.stage = "PASSWORD_SET"], "idle")
    /\ UNCHANGED <<user, access>>

PasswordSetup(s) ==
    /\ \E u \in Users :
         /\ Live(u) /\ user[u].stage = "OTP_VERIFIED"
         /\ StartSave(s, u, [user[u] EXCEPT !.password = TRUE, !.stage = "PASSWORD_SET"], "idle")
    /\ UNCHANGED <<user, access>>

\* Variant: a row that was only verified may be completed.
AccountSetupOfAny(s) ==
    /\ \E u \in Users, email \in BOOLEAN :
         /\ Live(u) /\ user[u].stage # "COMPLETED"
         /\ StartSave(s, u, [user[u] EXCEPT !.email = (@ \/ email), !.stage = "COMPLETED"], "issue")
    /\ UNCHANGED <<user, access>>

\* The customer is signed in at the end.
AccountSetup(s) ==
    /\ \E u \in Users, email \in BOOLEAN :
         /\ Live(u) /\ user[u].stage = "PASSWORD_SET"
         /\ StartSave(s, u, [user[u] EXCEPT !.email = (@ \/ email), !.stage = "COMPLETED"], "issue")
    /\ UNCHANGED <<user, access>>

\* userRegister: a phone whose registration in steps is not over is no obstacle.
RegisterOnce(s) ==
    /\ IdLeft
    /\ \E p \in Phones : /\ \A u \in Users : ~Completed(u, p)
                         /\ Start(s, [Idle EXCEPT !.pc = "onceInsert", !.phone = p])
    /\ UNCHANGED <<user, access>>

OnceInsert(s) ==
    /\ req[s].pc = "onceInsert"
    /\ \E u \in Unused, email \in BOOLEAN :
         /\ user' = [user EXCEPT ![u] = [phone |-> req[s].phone, stage |-> "COMPLETED",
                                         password |-> TRUE, email |-> email, linked |-> FALSE,
                                         deleted |-> FALSE, via |-> "ONCE"]]
         /\ Continue(s, [Idle EXCEPT !.pc = "issue", !.u = u])
    /\ UNCHANGED <<access, torn>>

--------------------------------------------------------------------------------
\* The flows that load a row and save it.

\* handleOAuthLogin of a customer who is found, by the id the provider knows or by e-mail.
OAuthLogin(s) ==
    /\ \E u \in Users :
         /\ Live(u) /\ (user[u].linked \/ user[u].email)
         /\ Start(s, [Idle EXCEPT !.pc = IF user[u].linked THEN "save" ELSE "link",
                                  !.u = u, !.row = user[u],
                                  !.then = IF user[u].stage = "PASSWORD_SET" THEN "idle"
                                                                             ELSE "issue"])
    /\ UNCHANGED <<user, access>>

\* The row in the request is not told of the provider's id.
Link(s) ==
    /\ req[s].pc = "link"
    /\ user' = [user EXCEPT ![req[s].u].linked = TRUE]
    /\ Goto(s, "save")
    /\ UNCHANGED <<access, torn>>

UserLogin(s) ==
    /\ \E u \in Users : /\ Live(u) /\ user[u].email /\ user[u].password
                        /\ StartSave(s, u, user[u], "issue")
    /\ UNCHANGED <<user, access>>

\* userResetPassword and resetPassword, whose token is given for a code sent to the phone of
\* any customer; changePassword asks for the old password besides.
SetPassword(s) ==
    /\ \E u \in Users : Live(u) /\ StartSave(s, u, [user[u] EXCEPT !.password = TRUE], "idle")
    /\ UNCHANGED <<user, access>>

\* The row u as a PATCH leaves it: any of phone, e-mail and password may be given.
Edited(u, phone, email, password) ==
    [user[u] EXCEPT !.phone = phone, !.email = (@ \/ email), !.password = (@ \/ password),
                    !.via = IF phone = user[u].phone THEN @ ELSE "EDITED"]

\* updateProfile: the phone a customer gives is not compared with others.
UpdateProfile(s) ==
    /\ \E u \in access, p \in Phones, email, password \in BOOLEAN :
         /\ Live(u)
         /\ StartSave(s, u, Edited(u, p, email, password), "idle")
    /\ UNCHANGED <<user, access>>

\* UserService.update: the phone an administrator gives, if any, must be nobody's.
UpdateUser(s) ==
    /\ \E u \in Users, p \in Phones \cup {None} :
         /\ Live(u)
         /\ p \in {None, user[u].phone} \/ \A v \in Users : ~Registered(v, p)
         /\ Start(s, [Idle EXCEPT !.pc = "preload", !.u = u, !.phone = p])
    /\ UNCHANGED <<user, access>>

Preload(s) ==
    /\ req[s].pc = "preload"
    /\ LET u == req[s].u
           phone == IF req[s].phone = None THEN user[u].phone ELSE req[s].phone
       IN  IF Live(u)
           THEN \E email, password \in BOOLEAN :
                  Continue(s, [req[s] EXCEPT !.pc = "save",
                                             !.row = Edited(u, phone, email, password)])
           ELSE Finish(s)
    /\ UNCHANGED <<user, access, torn>>

\* What a save updates of the stage and the password, and whether it is about to.
Paired == {"stage", "password"}

Half(r) == r.pc = "update" /\ r.cols \cap Paired # {}

\* The first statement of a save: the row is read again.  A password or an address that is
\* there on both sides may be another one.
Save(s) ==
    /\ req[s].pc = "save"
    /\ LET row == req[s].row
           old == user[req[s].u]
           differs == {c \in Columns : row[c] # old[c]}
           other == {c \in {"password", "email"} : row[c] /\ old[c]}
       IN  \E more \in SUBSET other :
             LET r == [req[s] EXCEPT !.pc = "update", !.cols = differs \cup more]
             IN  /\ Continue(s, r)
                 /\ torn' = torn \cup {u \in {r.u} :
                                Half(r) /\ \E t \in Slots : req[t].u = u /\ Half(req[t])}
    /\ UNCHANGED <<user, access>>

\* The row old after an update of cols to what they are in row.
Updated(old, row, cols) ==
    LET Of(c) == IF c \in cols THEN row[c] ELSE old[c]
    IN  [phone |-> Of("phone"), stage |-> Of("stage"), password |-> Of("password"),
         email |-> Of("email"), linked |-> Of("linked"), deleted |-> Of("deleted"),
         via |-> IF "phone" \in cols THEN row.via ELSE old.via]

\* The second statement of a save.
Update(s) ==
    /\ req[s].pc = "update"
    /\ user' = [user EXCEPT ![req[s].u] = Updated(@, req[s].row, req[s].cols)]
    /\ IF req[s].then = "idle" THEN Finish(s)
       ELSE Continue(s, [Idle EXCEPT !.pc = "issue", !.u = req[s].u])
    /\ UNCHANGED <<access, torn>>

--------------------------------------------------------------------------------
\* completeUserLogin, and the end of an account.

Issue(s) ==
    /\ req[s].pc = "issue"
    /\ access' = access \cup {req[s].u}
    /\ Finish(s)
    /\ UNCHANGED <<user, torn>>

\* deleteProfile by the customer, UserService.remove by an administrator.
DeleteProfile(s) ==
    /\ \E u \in access : Live(u) /\ Start(s, [Idle EXCEPT !.pc = "softRemove", !.u = u])
    /\ UNCHANGED <<user, access>>

RemoveUser(s) ==
    /\ \E u \in Users : Live(u) /\ Start(s, [Idle EXCEPT !.pc = "softRemove", !.u = u])
    /\ UNCHANGED <<user, access>>

SoftRemove(s) ==
    /\ req[s].pc = "softRemove"
    /\ user' = [user EXCEPT ![req[s].u].deleted = TRUE]
    /\ Finish(s)
    /\ UNCHANGED <<access, torn>>

--------------------------------------------------------------------------------
Arrives(s) ==
    \/ OtpVerify(s) \/ PasswordSetup(s) \/ AccountSetup(s) \/ RegisterOnce(s)
    \/ OAuthLogin(s) \/ UserLogin(s) \/ SetPassword(s)
    \/ UpdateProfile(s) \/ UpdateUser(s) \/ DeleteProfile(s) \/ RemoveUser(s)

Step(s) ==
    \/ OtpInsert(s) \/ OnceInsert(s) \/ Link(s) \/ Preload(s) \/ Save(s)
    \/ Update(s) \/ Issue(s) \/ SoftRemove(s)

Next == \E s \in Slots : Arrives(s) \/ Step(s) \/ RequestFails(s)

Spec == Init /\ [][Next]_vars

--------------------------------------------------------------------------------
\* Types of the rows, the tokens and the requests in flight; a row has a phone, which the
\* table requires (user.entity.ts:45-46).
TypeOK ==
    /\ user \in [Users -> Row]
    /\ \A u \in Users : user[u].stage # "NONE" => user[u].phone \in Phones
    /\ access \subseteq Users
    /\ req \in [Slots -> Request]
    /\ torn \subseteq Users
    /\ calm \in BOOLEAN /\ fails \in 0..MaxFails

HasPassword(row) == row.stage \in {"PASSWORD_SET", "COMPLETED"} => row.password

\* An account past the first stage has a password, wherever requests die and however stale
\* the rows they save are: a save that takes the password away takes the stage back
\* (user-auth.service.ts:385-412 and 414-470).  Left out are only the users of whom two
\* saves of stage or password ran their two statements through each other.
PasswordBeforeAccount == \A u \in Users \ torn : HasPassword(user[u])

\* The same without the exception, which does not hold: an old row, saved while the last step
\* of the registration saves, leaves a completed account that has no password
\* (user-auth.service.ts:448 and user.service.ts:165).
AccountHasPassword == \A u \in Users : HasPassword(user[u])

\* A registration never goes back a stage, as long as no requests overlap; a row that was
\* loaded before the last stage and saved after it takes the stage back
\* (user-auth.service.ts:215 and 227).
Rank(stage) == CASE stage = "NONE"         -> 0
                 [] stage = "OTP_VERIFIED" -> 1
                 [] stage = "PASSWORD_SET" -> 2
                 [] stage = "COMPLETED"    -> 3

StagesAdvance ==
    [][calm' => \A u \in Users : Rank(user'[u].stage) >= Rank(user[u].stage)]_vars

\* Each of the two ways to register gives a phone one account, as long as no requests
\* overlap and the phone was not given by an edit; both ways together may give it two
\* (user-auth.service.ts:320-349 and 609-617).
PhoneRegistersOnce ==
    calm => \A u, v \in Users :
               /\ Live(u) /\ Live(v)
               /\ user[u].phone = user[v].phone /\ user[u].via = user[v].via
               /\ user[u].via # "EDITED"
               => u = v

\* "User with this phone number already exists" (user-auth.service.ts:616): no two accounts
\* that are completed have the same phone, unless an edit gave it to one of them.
OneAccountPerPhone ==
    calm => \A u, v \in Users, p \in Phones :
               /\ Completed(u, p) /\ Completed(v, p)
               /\ user[u].via # "EDITED" /\ user[v].via # "EDITED"
               => u = v

--------------------------------------------------------------------------------
\* The invariants the proofs go by.

\* A row, in the table or in a request, that may be saved.
RowOK(row) == row.stage # "NONE" => row.phone \in Phones

Saving == {"link", "save", "update"}

\* A suspended request has the local variables its next step needs.
LocalOK(r) ==
    /\ RowOK(r.row)
    /\ r.pc \in Saving \cup {"preload", "issue", "softRemove"} => r.u \in Users
    /\ r.pc \in Saving => r.row.stage # "NONE"
    /\ r.pc \in {"otpInsert", "onceInsert"} => r.phone \in Phones

RowsInv ==
    /\ TypeOK
    /\ \A u \in Users : RowOK(user[u])
    /\ \A s \in Slots : LocalOK(req[s])
    /\ \A s \in Slots : req[s].pc \in Saving => user[req[s].u].stage # "NONE"

\* What a save does not update of the stage and the password is as it would leave it.
Covers(r, old) ==
    /\ "stage" \in r.cols \/ r.row.stage = old.stage
    /\ "password" \in r.cols \/ r.row.password = old.password

\* Stage and password go together in the rows and in what is about to be saved.
PasswordInv ==
    /\ PasswordBeforeAccount
    /\ \A s \in Slots :
         req[s].u \notin torn =>
           /\ req[s].pc \in Saving => HasPassword(req[s].row)
           /\ Half(req[s]) => Covers(req[s], user[req[s].u])
           /\ \A t \in Slots : Half(req[s]) /\ Half(req[t]) /\ req[s].u = req[t].u => s = t

\* A row that is about to be saved is the row it was loaded from, at the same stage or a
\* later one, with its phone or an edited one.
Ahead(row, old) ==
    /\ ~row.deleted /\ ~old.deleted /\ row.stage # "NONE" /\ old.stage # "NONE"
    /\ Rank(row.stage) >= Rank(old.stage)
    /\ row.via = "EDITED" \/ (row.via = old.via /\ row.phone = old.phone)

\* What a request knows while it is the only one.
KnowsOK(r) ==
    /\ r.pc = "otpInsert"  => \A u \in Users : ~Registered(u, r.phone)
    /\ r.pc = "onceInsert" => \A u \in Users : ~Completed(u, r.phone)
    /\ r.pc \in Saving => Ahead(r.row, user[r.u])

OnceIsCompleted == \A u \in Users : Live(u) /\ user[u].via = "ONCE" => user[u].stage = "COMPLETED"

CalmInv ==
    calm => /\ \A s, t \in Slots : req[s] # Idle /\ req[t] # Idle => s = t
            /\ \A s \in Slots : KnowsOK(req[s])
            /\ OnceIsCompleted

PhoneInv == RowsInv /\ CalmInv /\ PhoneRegistersOnce
================================================================================
