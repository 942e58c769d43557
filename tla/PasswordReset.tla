------------------------------- MODULE PasswordReset -------------------------------
(***************************************************************************)
(* PasswordResetService: a code by e-mail to an administrator or by SMS to *)
(* a customer, a signed reset token for the right code, a new password for *)
(* the token.  Whether the code of an SMS is right is the provider's       *)
(* answer, modelled as the comparison of codes it is.                      *)
(***************************************************************************)
EXTENDS TwoFactor

\* passwordResetOTPSend and userPasswordResetOTPSend.
SendResetCode(s) ==
    /\ \E a \in Accounts : Live(a) /\ SendOtp(a, "RESET_PASSWORD")
    /\ Start(s, Idle)
    /\ UNCHANGED <<account, token, resetJwt, history>>

\* verifyPasswordResetOTPCode asks for a pending record in no order and may get any, of a
\* customer too; userVerifyPasswordResetOTPCode asks for the newest of a customer.
VerifyResetCode(s) ==
    /\ \E a \in Accounts, code \in Codes :
         Try(s, Found(a, "RESET_PASSWORD", "PENDING"), "resetCodeSave", code, "idle")
    /\ UNCHANGED <<tables, signedIn, refused>>

\* Variant: a wrong try is not saved.
ResetCodeSaveRight(s) ==
    /\ req[s].pc = "resetCodeSave"
    /\ IF req[s].right THEN SaveOtp(req[s], "VERIFIED") ELSE UNCHANGED <<otps, wrong>>
    /\ resetJwt' = IF Passes(req[s]) THEN resetJwt \cup {req[s].a} ELSE resetJwt
    /\ Finish(s)
    /\ UNCHANGED <<account, token, signedIn, refused>>

ResetCodeSave(s) ==
    /\ req[s].pc = "resetCodeSave"
    /\ SaveOtp(req[s], "VERIFIED")
    /\ resetJwt' = IF Passes(req[s]) THEN resetJwt \cup {req[s].a} ELSE resetJwt
    /\ Finish(s)
    /\ UNCHANGED <<account, token, signedIn, refused>>

\* The signed token is good until it expires, for as many resets as there is time for.
ResetJwtExpires ==
    /\ \E a \in resetJwt : resetJwt' = resetJwt \ {a}
    /\ UNCHANGED <<account, token, otps, history, control>>

\* resetPassword, for customers and administrators: no session ends.
ResetPassword(s) ==
    /\ \E a \in resetJwt, p \in Passwords :
         /\ Live(a)
         /\ Start(s, [Idle EXCEPT !.pc = "rowSave", !.a = a,
                                  !.row = [account[a] EXCEPT !.password = p]])
    /\ UNCHANGED <<tables, history>>

\* userResetPassword, for customers: their sessions end.
UserResetPassword(s) ==
    /\ \E a \in resetJwt \cap Users, p \in Passwords :
         /\ Live(a)
         /\ Start(s, [Idle EXCEPT !.pc = "rowSave", !.a = a, !.then = "revoke",
                                  !.row = [account[a] EXCEPT !.password = p]])
    /\ UNCHANGED <<tables, history>>

ResetRequest(s) ==
    SendResetCode(s) \/ VerifyResetCode(s) \/ ResetPassword(s) \/ UserResetPassword(s)
================================================================================
