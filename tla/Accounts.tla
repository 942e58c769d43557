---------------------------------- MODULE Accounts ----------------------------------
(***************************************************************************)
(* Accounts and sessions: sign-in, tokens, two-factor codes and password   *)
(* resets over the same tables.  Every property is about several flows.    *)
(***************************************************************************)
EXTENDS PasswordReset

Step(s)    == TokenStep(s) \/ SignInStep(s) \/ TwoFactorStep(s) \/ ResetCodeSave(s)
Arrives(s) == SignInRequest(s) \/ TwoFactorRequest(s) \/ ResetRequest(s)

Next ==
    \/ \E s \in Slots : Arrives(s) \/ Step(s) \/ RequestFails(s)
    \/ \E t \in Tokens : RefreshAccessToken(t)
    \/ TokenExpires \/ OtpLapses \/ ResetJwtExpires

Spec == Init /\ [][Next]_vars

--------------------------------------------------------------------------------
Alone == calm /\ \A s \in Slots : req[s] = Idle

Active(t) == token[t].state = "active"

\* An account has one session: every login ends the others first, as long as no requests
\* overlap; one that dies half way leaves no second session behind
\* (user-auth.service.ts:101-105, admin-auth.service.ts:109-113).
OneSession ==
    Alone => \A t, u \in Tokens :
                Active(t) /\ Active(u) /\ token[t].owner = token[u].owner => t = u

\* A session that is open was opened with the password the account has, unless the password
\* was set by a flow that ends no session, as long as no requests overlap and none dies
\* (user-auth.service.ts:551-553, password-reset.service.ts:394-396).
SessionHasPassword ==
    Alone /\ fails = 0 =>
        \A t \in Tokens :
            Active(t) => token[t].password \in {None, account[token[t].owner].password}

\* One code lets one login through at most, as long as no requests overlap, wherever one
\* dies (two-factor.service.ts:237-274).
CodeSignsInOnce == Alone => \A i \in DOMAIN otps : signedIn[i] <= 1

\* Two-factor login is on exactly while a confirmed code stands for it, as long as no
\* requests overlap and none dies (two-factor.service.ts:132-135 and 164-173).
TwoFactorIsConfirmed ==
    Alone /\ fails = 0 =>
        \A a \in Admins : account[a].twoFactor <=> Found(a, "TWO_FACTOR", "VERIFIED") # {}

\* A code is accepted only if the wrong ones given for it left a try, as long as no requests
\* overlap and none dies (password-reset.service.ts:150-161 and 336-353).
TriesAreCounted ==
    Alone /\ fails = 0 =>
        \A i \in DOMAIN otps : otps[i].status = "VERIFIED" => wrong[i] < MaxAttempts

--------------------------------------------------------------------------------
\* "A new refresh token is issued on every refresh, and the previous one is automatically
\* invalidated" (README.md:427): a token is exchanged once.
RefreshRotates == \A t \in Tokens : token[t].exchanges <= 1

\* An administrator with two-factor login on, who gives the right password, is asked for a
\* code (README.md:415, "POST /v1/auth/admin/login -> { requiresTwoFactor: true, ... }").
LoginAsksForCode == refused = {}
================================================================================
