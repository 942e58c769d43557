------------------------------ MODULE AccountState ------------------------------
(***************************************************************************)
(* The state of accounts and sessions: the tables users, admins,           *)
(* refresh_tokens and otp_records, the signed reset tokens that are out,   *)
(* and the requests in flight.  As in HotelState a request is a slot whose *)
(* pc names the await it has reached.                                      *)
(*                                                                         *)
(* A handler that loads an entity and saves it writes every column back as *)
(* it was loaded: TypeORM's save compares the entity with the row it reads *)
(* again and updates each column that differs.  So a suspended request     *)
(* carries the whole row.  The reading and the update are one action here: *)
(* only requests that overlap can tell, and every property of Accounts but *)
(* the type invariant is about requests that do not.  Registration, whose  *)
(* properties are also about overlap, has two actions.                     *)
(***************************************************************************)
EXTENDS Integers, Sequences

CONSTANTS
    Slots,          \* requests that may be in flight at the same time
    Users,          \* ids of customers
    Admins,         \* ids of administrators
    Tokens,         \* ids of refresh tokens
    Codes,          \* one-time codes
    Passwords,      \* passwords people choose
    None,           \* no such row
    MaxAttempts,    \* otp_records.maxAttempts
    MaxOtps,        \* bound: one-time codes sent
    MaxExchanges,   \* bound: exchanges of one refresh token
    MaxFails        \* bound: requests that may die half way

VARIABLES
    account,        \* rows of users and admins
    token,          \* rows of refresh_tokens
    otps,           \* rows of otp_records, oldest first
    resetJwt,       \* accounts for which a reset token is out
    req,            \* the request each slot is serving
    signedIn,       \* history: how often a one-time code was accepted for a login
    wrong,          \* history: wrong codes tried on a one-time code
    refused,        \* history: admins whose right password got no code to continue with
    calm,           \* history: no two requests have overlapped
    fails           \* requests that died half way so far

tables  == <<account, token, otps, resetJwt>>
history == <<signedIn, wrong, refused>>
control == <<req, calm, fails>>
vars    == <<tables, history, control>>

Accounts == Users \cup Admins

ASSUME AccountAssumption ==
    /\ Users \cap Admins = {}
    /\ None \notin Accounts \cup Tokens \cup Codes \cup Passwords
    /\ {MaxAttempts, MaxOtps, MaxExchanges, MaxFails} \subseteq Nat

\* Comparing a password with its bcrypt hash is comparing passwords.
Row == [password : Passwords, banned : BOOLEAN, deleted : BOOLEAN, twoFactor : BOOLEAN]

RefreshToken == [owner : Accounts \cup {None}, state : {"none", "active", "expired", "revoked"},
                 password  : Passwords \cup {None}, \* history: the password it answers for
                 exchanges : 0..MaxExchanges]      \* history: access tokens bought with it

OtpStatus  == {"PENDING", "VERIFIED", "EXPIRED", "USED"}
OtpPurpose == {"TWO_FACTOR", "RESET_PASSWORD"}
OtpRecord  == [owner : Accounts, purpose : OtpPurpose, code : Codes, status : OtpStatus,
               attempts : 0..MaxAttempts, late : BOOLEAN]

Idle == [pc |-> "idle", a |-> None, row |-> None, otp |-> 0, record |-> None,
         right |-> FALSE, then |-> "idle"]

Suspended == {"loginSave", "checkTwoFactor", "sendCode", "codeSave", "admin",
              "rowSave", "confirmSave", "confirmFlag", "disableExpire", "disableFlag",
              "resetCodeSave", "revoke", "issue", "softRemove"}

Request == [pc     : Suspended \cup {"idle"},
            a      : Accounts \cup {None},
            row    : Row \cup {None},           \* the account as it was loaded
            otp    : 0..MaxOtps,
            record : OtpRecord \cup {None},     \* the one-time code as it was loaded
            right  : BOOLEAN,                   \* the code given is the right one
            then   : {"idle", "issue", "revoke", "softRemove"}]

Start(s, r) ==
    /\ req[s] = Idle
    /\ req' = [req EXCEPT ![s] = r]
    /\ calm' = (calm /\ \A t \in Slots : req[t] = Idle)
    /\ UNCHANGED fails

Continue(s, r) == req' = [req EXCEPT ![s] = r] /\ UNCHANGED <<calm, fails>>
Goto(s, pc)    == Continue(s, [req[s] EXCEPT !.pc = pc])
Finish(s)      == Continue(s, Idle)

\* findOne leaves soft-deleted rows out.
Live(a) == ~account[a].deleted

Init ==
    /\ \E p \in Passwords, gone \in SUBSET Accounts :
         account = [a \in Accounts |-> [password |-> p, banned |-> FALSE,
                                        deleted |-> a \in gone, twoFactor |-> FALSE]]
    /\ token = [t \in Tokens |-> [owner |-> None, state |-> "none", password |-> None,
                            exchanges |-> 0]]
    /\ otps = <<>>
    /\ resetJwt = {}
    /\ req = [s \in Slots |-> Idle]
    /\ signedIn = [i \in 1..MaxOtps |-> 0]
    /\ wrong = [i \in 1..MaxOtps |-> 0]
    /\ refused = {}
    /\ calm = TRUE
    /\ fails = 0

\* A query fails or the process dies: what the request has written stays.
RequestFails(s) ==
    /\ req[s] # Idle
    /\ fails < MaxFails
    /\ fails' = fails + 1
    /\ req' = [req EXCEPT ![s] = Idle]
    /\ UNCHANGED <<tables, history, calm>>

--------------------------------------------------------------------------------
\* One-time codes: which records a query finds, and what a save does with the one it found.
Found(a, purpose, status) ==
    {i \in DOMAIN otps : otps[i].owner = a /\ otps[i].purpose = purpose /\ otps[i].status = status}

Newest(S) == {i \in S : \A j \in S : j <= i}

SendOtp(a, purpose) ==
    /\ Len(otps) < MaxOtps
    /\ \E code \in Codes :
         otps' = Append(otps, [owner |-> a, purpose |-> purpose, code |-> code,
                               status |-> "PENDING", attempts |-> 0, late |-> FALSE])

\* Variant: one try more is let through.
WornLate(record) == record.late \/ record.attempts > MaxAttempts

\* A code was found and is judged when it is saved: late or tried too often it is EXPIRED,
\* otherwise the try is counted, and the right code gets the status `done`.
Worn(record) == record.late \/ record.attempts >= MaxAttempts

Judged(record, right, done) ==
    IF Worn(record) THEN [record EXCEPT !.status = "EXPIRED"]
    ELSE [record EXCEPT !.attempts = @ + 1, !.status = IF right THEN done ELSE @]

\* Nobody asks how old a record is that is not pending, nor what was tried on one that is
\* EXPIRED.
SaveOtp(r, done) ==
    LET saved == Judged(r.record, r.right, done)
    IN  /\ otps' = [otps EXCEPT ![r.otp] =
                      [saved EXCEPT !.late = (saved.status = "PENDING" /\ otps[r.otp].late)]]
        /\ wrong' = [wrong EXCEPT ![r.otp] = IF saved.status = "EXPIRED" THEN 0 ELSE @]

Passes(r) == r.right /\ ~Worn(r.record)

\* The 10 minutes of a code are over; the record is not touched.
OtpLapses ==
    /\ \E i \in DOMAIN otps : /\ otps[i].status = "PENDING" /\ ~otps[i].late
                              /\ otps' = [otps EXCEPT ![i].late = TRUE]
    /\ UNCHANGED <<account, token, resetJwt, history, control>>

--------------------------------------------------------------------------------
\* Types of the tables, the histories and the requests in flight.
TypeOK ==
    /\ account \in [Accounts -> Row]
    /\ token \in [Tokens -> RefreshToken]
    /\ Len(otps) <= MaxOtps /\ \A i \in DOMAIN otps : otps[i] \in OtpRecord
    /\ resetJwt \subseteq Accounts
    /\ req \in [Slots -> Request]
    /\ signedIn \in [1..MaxOtps -> Nat] /\ wrong \in [1..MaxOtps -> 0..MaxAttempts]
    /\ refused \subseteq Admins
    /\ calm \in BOOLEAN /\ fails \in 0..MaxFails
================================================================================
