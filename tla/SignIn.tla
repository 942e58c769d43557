---------------------------------- MODULE SignIn ----------------------------------
(***************************************************************************)
(* UserAuthService, AdminAuthService, UserService and AdminService as they *)
(* act on accounts that exist: login, change of password, edits of the     *)
(* profile by its owner or by an administrator, deletion.  A request that  *)
(* is refused changes nothing and is left out.                             *)
(***************************************************************************)
EXTENDS Token

\* userLogin: the password is right and the user is not banned.
UserLogin(s) ==
    /\ TokenLeft
    /\ \E a \in Users :
         /\ Live(a) /\ ~account[a].banned
         /\ Start(s, [Idle EXCEPT !.pc = "loginSave", !.a = a, !.row = account[a],
                                  !.then = "issue"])
    /\ UNCHANGED <<tables, history>>

\* lastLoginAt is saved with the rest of the row; completeUserLogin follows.
LoginSave(s) ==
    /\ req[s].pc = "loginSave"
    /\ account' = [account EXCEPT ![req[s].a] = req[s].row]
    /\ Goto(s, "revoke")
    /\ UNCHANGED <<token, otps, resetJwt, history>>

\* validateAdmin: nobody looks whether the administrator is banned.
AdminLogin(s) ==
    /\ TokenLeft
    /\ \E a \in Admins :
         /\ Live(a)
         /\ Start(s, [Idle EXCEPT !.pc = "checkTwoFactor", !.a = a, !.row = account[a],
                                  !.then = "issue"])
    /\ UNCHANGED <<tables, history>>

\* isTwoFactorEnabled: a code is sent first, or the login completes (completeAdminLogin).
CheckTwoFactor(s) ==
    /\ req[s].pc = "checkTwoFactor"
    /\ IF ~Live(req[s].a) THEN Finish(s)
       ELSE Goto(s, IF account[req[s].a].twoFactor THEN "sendCode" ELSE "revoke")
    /\ UNCHANGED <<tables, history>>

\* verifyTwoFactorAndLogin reads the administrator once the code was accepted.
LoadAdmin(s) ==
    /\ req[s].pc = "admin"
    /\ IF Live(req[s].a)
       THEN Continue(s, [Idle EXCEPT !.pc = "revoke", !.a = req[s].a,
                                     !.row = account[req[s].a], !.then = "issue"])
       ELSE Finish(s)
    /\ UNCHANGED <<tables, history>>

--------------------------------------------------------------------------------
\* changePassword, by a caller who gives the current one.
ChangePassword(s) ==
    /\ \E a \in Accounts, p \in Passwords :
         /\ Live(a)
         /\ Start(s, [Idle EXCEPT !.pc = "rowSave", !.a = a, !.then = "revoke",
                                  !.row = [account[a] EXCEPT !.password = p]])
    /\ UNCHANGED <<tables, history>>

\* UserService.update and AdminService.update by an administrator, updateProfile by the
\* owner: the row is preloaded and edited, its password and ban included, and no session
\* ends.  The ban of an administrator is read nowhere.
UpdateAccount(s) ==
    /\ \E a \in Accounts, p \in Passwords, banned \in BOOLEAN :
         /\ Live(a)
         /\ a \in Admins => ~banned
         /\ Start(s, [Idle EXCEPT !.pc = "rowSave", !.a = a,
                                  !.row = [account[a] EXCEPT !.password = p,
                                                             !.banned = banned]])
    /\ UNCHANGED <<tables, history>>

\* History: a password set by a flow that ends no session is none the sessions answer for.
Unanswerable(a) ==
    [t \in Tokens |-> IF token[t].owner = a THEN [token[t] EXCEPT !.password = None] ELSE token[t]]

\* Variant: the sessions stay.
RowSaveAlone(s) ==
    /\ req[s].pc = "rowSave"
    /\ account' = [account EXCEPT ![req[s].a] = req[s].row]
    /\ token' = IF req[s].then = "revoke" THEN token ELSE Unanswerable(req[s].a)
    /\ Finish(s)
    /\ UNCHANGED <<otps, resetJwt, history>>

\* The row is saved as it was loaded and edited; the sessions end if the flow ends them.
RowSave(s) ==
    /\ req[s].pc = "rowSave"
    /\ account' = [account EXCEPT ![req[s].a] = req[s].row]
    /\ token' = IF req[s].then = "revoke" THEN token ELSE Unanswerable(req[s].a)
    /\ IF req[s].then = "idle" THEN Finish(s)
       ELSE Continue(s, [req[s] EXCEPT !.pc = "revoke", !.then = "idle"])
    /\ UNCHANGED <<otps, resetJwt, history>>

--------------------------------------------------------------------------------
\* deleteProfile: the sessions end, then the row is soft-deleted.
DeleteProfile(s) ==
    /\ \E a \in Users :
         /\ Live(a)
         /\ Start(s, [Idle EXCEPT !.pc = "revoke", !.a = a, !.then = "softRemove"])
    /\ UNCHANGED <<tables, history>>

\* UserService.remove and AdminService.remove: the row alone.
RemoveAccount(s) ==
    /\ \E a \in Accounts :
         /\ Live(a)
         /\ Start(s, [Idle EXCEPT !.pc = "softRemove", !.a = a])
    /\ UNCHANGED <<tables, history>>

SoftRemove(s) ==
    /\ req[s].pc = "softRemove"
    /\ account' = [account EXCEPT ![req[s].a].deleted = TRUE]
    /\ Finish(s)
    /\ UNCHANGED <<token, otps, resetJwt, history>>

SignInRequest(s) ==
    \/ UserLogin(s) \/ AdminLogin(s) \/ ChangePassword(s) \/ UpdateAccount(s)
    \/ DeleteProfile(s) \/ RemoveAccount(s) \/ Logout(s)

SignInStep(s) ==
    \/ LoginSave(s) \/ CheckTwoFactor(s) \/ LoadAdmin(s) \/ RowSave(s) \/ SoftRemove(s)
================================================================================
