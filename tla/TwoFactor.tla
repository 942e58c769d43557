--------------------------------- MODULE TwoFactor ---------------------------------
(***************************************************************************)
(* TwoFactorService and the one-time codes of administrators: enabling     *)
(* with a code, disabling with the password, a code for every login.       *)
(***************************************************************************)
EXTENDS SignIn

\* enableTwoFactor sends a code; the caller is signed in.
EnableTwoFactor(s) ==
    /\ \E a \in Admins : Live(a) /\ SendOtp(a, "TWO_FACTOR")
    /\ Start(s, Idle)
    /\ UNCHANGED <<account, token, resetJwt, history>>

\* A code is given for one of the records a query may answer with.  Bound: MaxAttempts wrong
\* ones are told apart from fewer, not from more.
Try(s, S, pc, code, then) ==
    \E i \in S :
        /\ wrong' = [wrong EXCEPT ![i] = IF code = otps[i].code \/ @ = MaxAttempts THEN @
                                        ELSE @ + 1]
        /\ Start(s, [Idle EXCEPT !.pc = pc, !.a = otps[i].owner, !.otp = i,
                                 !.record = otps[i], !.right = (code = otps[i].code),
                                 !.then = then])

\* verifyTwoFactor: the newest pending code decides.
ConfirmTwoFactor(s) ==
    /\ \E a \in Admins, code \in Codes :
         Try(s, Newest(Found(a, "TWO_FACTOR", "PENDING")), "confirmSave", code, "idle")
    /\ UNCHANGED <<tables, signedIn, refused>>

ConfirmSave(s) ==
    /\ req[s].pc = "confirmSave"
    /\ SaveOtp(req[s], "VERIFIED")
    /\ IF Passes(req[s]) THEN Goto(s, "confirmFlag") ELSE Finish(s)
    /\ UNCHANGED <<account, token, resetJwt, signedIn, refused>>

ConfirmFlag(s) ==
    /\ req[s].pc = "confirmFlag"
    /\ account' = [account EXCEPT ![req[s].a].twoFactor = TRUE]
    /\ Finish(s)
    /\ UNCHANGED <<token, otps, resetJwt, history>>

--------------------------------------------------------------------------------
\* disableTwoFactor, with the right password.
DisableTwoFactor(s) ==
    /\ \E a \in Admins : Live(a) /\ Start(s, [Idle EXCEPT !.pc = "disableExpire", !.a = a])
    /\ UNCHANGED <<tables, history>>

\* Variant: the confirmed code is left as it is.
DisableExpireNothing(s) ==
    /\ req[s].pc = "disableExpire"
    /\ Goto(s, "disableFlag")
    /\ UNCHANGED <<tables, history>>

\* The confirmed codes are expired, then the flag is cleared.
DisableExpire(s) ==
    /\ req[s].pc = "disableExpire"
    /\ LET verified == Found(req[s].a, "TWO_FACTOR", "VERIFIED")
       IN  otps' = [i \in DOMAIN otps |-> IF i \in verified
                                          THEN [otps[i] EXCEPT !.status = "EXPIRED"]
                                          ELSE otps[i]]
    /\ Goto(s, "disableFlag")
    /\ UNCHANGED <<account, token, resetJwt, history>>

DisableFlag(s) ==
    /\ req[s].pc = "disableFlag"
    /\ account' = [account EXCEPT ![req[s].a].twoFactor = FALSE]
    /\ Finish(s)
    /\ UNCHANGED <<token, otps, resetJwt, history>>

--------------------------------------------------------------------------------
\* sendVerificationCode: a VERIFIED record, of whatever age, ends the login with a 400.
SendCode(s) ==
    /\ req[s].pc = "sendCode"
    /\ \/ /\ Found(req[s].a, "TWO_FACTOR", "VERIFIED") # {}
          /\ refused' = refused \cup {req[s].a}
          /\ UNCHANGED otps
       \/ /\ Found(req[s].a, "TWO_FACTOR", "VERIFIED") = {}
          /\ SendOtp(req[s].a, "TWO_FACTOR")
          /\ UNCHANGED refused
    /\ Finish(s)
    /\ UNCHANGED <<account, token, resetJwt, signedIn, wrong>>

\* validateLoginCode: the record is found by the code given, so a wrong code finds none and
\* counts for none.
ValidateLoginCode(s) ==
    /\ TokenLeft
    /\ \E a \in Admins, code \in Codes :
         Try(s, {i \in Found(a, "TWO_FACTOR", "PENDING") : otps[i].code = code}, "codeSave",
             code, "issue")
    /\ UNCHANGED <<tables, signedIn, refused>>

\* Variant: the code keeps the status it has.
CodeSaveNothing(s) ==
    /\ req[s].pc = "codeSave"
    /\ SaveOtp(req[s], "PENDING")
    /\ IF Passes(req[s]) THEN Goto(s, "admin") ELSE Finish(s)
    /\ signedIn' = IF Passes(req[s]) THEN [signedIn EXCEPT ![req[s].otp] = @ + 1] ELSE signedIn
    /\ UNCHANGED <<account, token, resetJwt, refused>>

CodeSave(s) ==
    /\ req[s].pc = "codeSave"
    /\ SaveOtp(req[s], "USED")
    /\ IF Passes(req[s]) THEN Goto(s, "admin") ELSE Finish(s)
    /\ signedIn' = IF Passes(req[s]) THEN [signedIn EXCEPT ![req[s].otp] = @ + 1] ELSE signedIn
    /\ UNCHANGED <<account, token, resetJwt, refused>>

TwoFactorRequest(s) ==
    EnableTwoFactor(s) \/ ConfirmTwoFactor(s) \/ DisableTwoFactor(s) \/ ValidateLoginCode(s)

TwoFactorStep(s) ==
    \/ ConfirmSave(s) \/ ConfirmFlag(s) \/ DisableExpire(s) \/ DisableFlag(s)
    \/ SendCode(s) \/ CodeSave(s)
================================================================================
