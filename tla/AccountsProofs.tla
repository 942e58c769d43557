----------------------------- MODULE AccountsProofs -----------------------------
(***************************************************************************)
(* What is proved of Accounts: the types of the tables and of what a       *)
(* suspended request carries; and, for histories in which no two requests  *)
(* overlapped, that sessions, two-factor login and the tries of one-time   *)
(* codes are what the services promise.                                    *)
(***************************************************************************)
EXTENDS Accounts, TLAPS

\* The requests that hold a one-time code as it was loaded, and those only an
\* administrator's flow reaches.
HoldsCode == {"confirmSave", "codeSave", "resetCodeSave"}
OfAdmin   == {"checkTwoFactor", "sendCode", "codeSave", "admin", "confirmSave",
              "confirmFlag", "disableExpire", "disableFlag"}

\* The requests that hold a row as it was loaded.
HoldsRow(r) ==
    \/ r.pc \in {"loginSave", "rowSave", "issue"}
    \/ r.pc \in {"checkTwoFactor", "revoke"} /\ r.then = "issue"

\* A suspended handler carries the local variables its next steps need.
RequestFits(r) ==
    /\ r.pc = "idle" => r = Idle
    /\ r # Idle => r.a \in Accounts
    /\ HoldsRow(r) => r.row \in Row
    /\ r.pc \in OfAdmin => r.a \in Admins
    /\ r.pc \in HoldsCode => r.otp \in DOMAIN otps /\ r.record \in OtpRecord
    /\ r.pc = "revoke" => r.then # "revoke"
    /\ r.pc \in {"loginSave", "checkTwoFactor"} => r.then = "issue"

\* The tables and the histories keep their types, and an open session is somebody's.
TablesTyped ==
    /\ account \in [Accounts -> Row]
    /\ token \in [Tokens -> RefreshToken]
    /\ \A t \in Tokens : Active(t) => token[t].owner \in Accounts
    /\ otps \in Seq(OtpRecord) /\ Len(otps) <= MaxOtps
    /\ resetJwt \subseteq Accounts
    /\ signedIn \in [1..MaxOtps -> Nat] /\ wrong \in [1..MaxOtps -> 0..MaxAttempts]
    /\ refused \subseteq Admins
    /\ calm \in BOOLEAN /\ fails \in 0..MaxFails

TypeInv ==
    /\ TablesTyped
    /\ req \in [Slots -> Request]
    /\ \A s \in Slots : RequestFits(req[s])

\* A step of slot s leaves the other slots as they are.
Moves(s) ==
    /\ req' \in [Slots -> Request]
    /\ \A t \in Slots : t # s => req'[t] = req[t]

\* A request that has just begun, or continues.
Begun(s) ==
    /\ Moves(s) /\ req[s] = Idle
    /\ calm' = (calm /\ \A t \in Slots : req[t] = Idle) /\ fails' = fails

Going(s) == Moves(s) /\ req[s] # Idle /\ calm' = calm /\ fails' = fails

\* What a request is to do, for whom, and the row it holds.
Serves(r, pc, a, row, then) == r.pc = pc /\ r.a = a /\ r.row = row /\ r.then = then

--------------------------------------------------------------------------------
LEMMA TypeOKOfInv == TypeInv => TypeOK
  BY DEF TypeInv, TablesTyped, TypeOK

LEMMA Bounds ==
    MaxAttempts \in Nat /\ MaxOtps \in Nat /\ MaxExchanges \in Nat /\ MaxFails \in Nat
  BY AccountAssumption

LEMMA IdleTyped == Idle \in Request
  BY Bounds DEF Idle, Request, Suspended

LEMMA IdleFits == RequestFits(Idle)
  BY DEF RequestFits, HoldsRow, OfAdmin, HoldsCode, Idle

LEMMA StartMoves ==
    ASSUME TypeInv, NEW s \in Slots, NEW r \in Request, Start(s, r)
    PROVE  Begun(s) /\ req'[s] = r
  BY DEF TypeInv, Start, Begun, Moves

LEMMA ContinueMoves ==
    ASSUME TypeInv, NEW s \in Slots, NEW r \in Request, req[s].pc # "idle", Continue(s, r)
    PROVE  Going(s) /\ req'[s] = r
  BY DEF TypeInv, Continue, Going, Moves, Idle

LEMMA FinishMoves ==
    ASSUME TypeInv, NEW s \in Slots, req[s].pc # "idle", Finish(s)
    PROVE  Going(s) /\ req'[s] = Idle
  BY ContinueMoves, IdleTyped DEF Finish

LEMMA GotoMoves ==
    ASSUME TypeInv, NEW s \in Slots, NEW pc \in Suspended, req[s].pc # "idle", Goto(s, pc)
    PROVE  /\ Going(s)
           /\ req'[s].pc = pc /\ req'[s].a = req[s].a /\ req'[s].row = req[s].row
           /\ req'[s].otp = req[s].otp /\ req'[s].record = req[s].record
           /\ req'[s].right = req[s].right /\ req'[s].then = req[s].then
<1> DEFINE r == req[s]
           q == [r EXCEPT !.pc = pc]
<1>1. r \in Request BY DEF TypeInv
<1>. HIDE DEF r
<1>2. q \in Request BY <1>1 DEF Request
<1>3. /\ q.pc = pc /\ q.a = r.a /\ q.row = r.row /\ q.otp = r.otp /\ q.record = r.record
      /\ q.right = r.right /\ q.then = r.then
  BY <1>1 DEF Request
<1>4. Continue(s, q) BY DEF Goto, r
<1>. HIDE DEF q
<1>5. Going(s) /\ req'[s] = q BY <1>2, <1>4, ContinueMoves
<1>. QED BY <1>3, <1>5 DEF r

\* The forms in which a request begins.
LEMMA StartsFor ==
    ASSUME TypeInv, NEW s \in Slots, NEW pc \in Suspended, NEW a \in Accounts,
           Start(s, [Idle EXCEPT !.pc = pc, !.a = a])
    PROVE  Begun(s) /\ Serves(req'[s], pc, a, None, "idle")
<1> DEFINE q == [Idle EXCEPT !.pc = pc, !.a = a]
<1>1. q \in Request BY IdleTyped DEF Request
<1>2. Serves(q, pc, a, None, "idle") BY DEF Idle, Serves
<1>. HIDE DEF q
<1>3. Start(s, q) BY DEF q
<1>. QED BY <1>1, <1>2, <1>3, StartMoves

LEMMA StartsThen ==
    ASSUME TypeInv, NEW s \in Slots, NEW pc \in Suspended, NEW a \in Accounts,
           NEW then \in {"idle", "issue", "revoke", "softRemove"},
           Start(s, [Idle EXCEPT !.pc = pc, !.a = a, !.then = then])
    PROVE  Begun(s) /\ Serves(req'[s], pc, a, None, then)
<1> DEFINE q == [Idle EXCEPT !.pc = pc, !.a = a, !.then = then]
<1>1. q \in Request BY IdleTyped DEF Request
<1>2. Serves(q, pc, a, None, then) BY DEF Idle, Serves
<1>. HIDE DEF q
<1>3. Start(s, q) BY DEF q
<1>. QED BY <1>1, <1>2, <1>3, StartMoves

LEMMA StartsWith ==
    ASSUME TypeInv, NEW s \in Slots, NEW pc \in Suspended, NEW a \in Accounts, NEW row \in Row,
           Start(s, [Idle EXCEPT !.pc = pc, !.a = a, !.row = row])
    PROVE  Begun(s) /\ Serves(req'[s], pc, a, row, "idle")
<1> DEFINE q == [Idle EXCEPT !.pc = pc, !.a = a, !.row = row]
<1>1. q \in Request BY IdleTyped DEF Request
<1>2. Serves(q, pc, a, row, "idle") BY DEF Idle, Serves
<1>. HIDE DEF q
<1>3. Start(s, q) BY DEF q
<1>. QED BY <1>1, <1>2, <1>3, StartMoves

LEMMA StartsWithThen ==
    ASSUME TypeInv, NEW s \in Slots, NEW pc \in Suspended, NEW a \in Accounts, NEW row \in Row,
           NEW then \in {"idle", "issue", "revoke", "softRemove"},
           \/ Start(s, [Idle EXCEPT !.pc = pc, !.a = a, !.row = row, !.then = then])
           \/ Start(s, [Idle EXCEPT !.pc = pc, !.a = a, !.then = then, !.row = row])
    PROVE  Begun(s) /\ Serves(req'[s], pc, a, row, then)
<1> DEFINE q == [Idle EXCEPT !.pc = pc, !.a = a, !.row = row, !.then = then]
           p == [Idle EXCEPT !.pc = pc, !.a = a, !.then = then, !.row = row]
<1>1. q \in Request /\ p \in Request BY IdleTyped DEF Request
<1>2. Serves(q, pc, a, row, then) /\ Serves(p, pc, a, row, then) BY DEF Idle, Serves
<1>. HIDE DEF q, p
<1>3. Start(s, q) \/ Start(s, p) BY DEF q, p
<1>. QED BY <1>1, <1>2, <1>3, StartMoves

\* The types of the tables are kept, no one-time code disappears, and the request is typed.
LEMMA TypeMoves ==
    ASSUME TypeInv, NEW s \in Slots, Moves(s), TablesTyped', DOMAIN otps \subseteq DOMAIN otps',
           RequestFits(req[s])'
    PROVE  TypeInv'
<1>1. ASSUME NEW t \in Slots PROVE RequestFits(req[t])'
  <2>1. CASE t = s BY <2>1
  <2>2. CASE t # s BY <2>2 DEF TypeInv, Moves, RequestFits
  <2>. QED BY <2>1, <2>2
<1>. QED BY <1>1 DEF TypeInv, Moves

LEMMA RevokedRow ==
    ASSUME NEW x \in RefreshToken
    PROVE  [x EXCEPT !.state = "revoked", !.password = None, !.exchanges = 0] \in RefreshToken
<1>1. 0 \in 0..MaxExchanges BY Bounds
<1> DEFINE many == 0..MaxExchanges
<1>. HIDE DEF many
<1>2. RefreshToken = [owner : Accounts \cup {None},
                      state : {"none", "active", "expired", "revoked"},
                      password : Passwords \cup {None}, exchanges : many]
  BY DEF RefreshToken, many
<1>3. 0 \in many BY <1>1 DEF many
<1>. QED BY <1>2, <1>3

LEMMA RevokedColumns ==
    ASSUME NEW x \in RefreshToken, NEW y,
           y = [x EXCEPT !.state = "revoked", !.password = None, !.exchanges = 0]
    PROVE  y.state = "revoked" /\ y.owner = x.owner /\ y.password = None
  BY DEF RefreshToken

LEMMA RevokedTyped ==
    ASSUME TypeInv, NEW t \in Tokens
    PROVE  /\ Revoked(t) \in RefreshToken
           /\ Revoked(t).state = "revoked" /\ Revoked(t).owner = token[t].owner
           /\ Revoked(t).password = None
<1>. token[t] \in RefreshToken BY DEF TypeInv, TablesTyped
<1>. QED BY RevokedRow, RevokedColumns DEF Revoked

--------------------------------------------------------------------------------
\* What each step of TokenService does.

LEMMA GenerateRefreshTokenTo ==
    ASSUME TypeInv, NEW s \in Slots, GenerateRefreshToken(s)
    PROVE  /\ Going(s) /\ req[s].pc = "issue" /\ req'[s] = Idle
           /\ \E t \in Unused :
                token' = [token EXCEPT ![t] = [owner |-> req[s].a, state |-> "active",
                                               password |-> req[s].row.password,
                                               exchanges |-> 0]]
           /\ UNCHANGED <<account, otps, resetJwt, history>>
  BY FinishMoves DEF GenerateRefreshToken

LEMMA RevokeAllTokensTo ==
    ASSUME TypeInv, NEW s \in Slots, RevokeAllTokens(s)
    PROVE  /\ Going(s) /\ req[s].pc = "revoke"
           /\ \/ req[s].then = "idle" /\ req'[s] = Idle
              \/ /\ req[s].then \in {"issue", "softRemove"}
                 /\ req'[s].pc = req[s].then /\ req'[s].then = "idle"
                 /\ req'[s].a = req[s].a /\ req'[s].row = req[s].row
           /\ token' = [t \in Tokens |-> IF token[t].owner = req[s].a THEN Revoked(t)
                                         ELSE token[t]]
           /\ UNCHANGED <<account, otps, resetJwt, history>>
<1>1. CASE req[s].then = "idle"
  BY <1>1, FinishMoves DEF RevokeAllTokens
<1>2. CASE req[s].then # "idle"
  <2> DEFINE r == req[s]
             pc == req[s].then
             q == [r EXCEPT !.pc = pc, !.then = "idle"]
  <2>1. r \in Request /\ pc \in {"issue", "softRemove"}
    BY <1>2 DEF TypeInv, Request, RequestFits, RevokeAllTokens
  <2>2. Continue(s, q) BY <1>2 DEF RevokeAllTokens
  <2>. HIDE DEF r, pc
  <2>3. /\ q \in Request
        /\ q.pc = pc /\ q.then = "idle" /\ q.a = r.a /\ q.row = r.row
    BY <2>1 DEF Request, Suspended
  <2>. HIDE DEF q
  <2>4. Going(s) /\ req'[s] = q BY <2>2, <2>3, ContinueMoves DEF RevokeAllTokens
  <2>. QED BY <2>1, <2>3, <2>4 DEF r, pc, RevokeAllTokens
<1>. QED BY <1>1, <1>2

LEMMA LogoutTo ==
    ASSUME TypeInv, NEW s \in Slots, Logout(s)
    PROVE  /\ Begun(s)
           /\ \E a \in Accounts :
                 /\ \/ UNCHANGED token
                    \/ \E t \in Tokens : token' = [token EXCEPT ![t] = Revoked(t)]
                 /\ \/ req'[s] = Idle
                    \/ Serves(req'[s], "revoke", a, None, "idle")
           /\ UNCHANGED <<account, otps, resetJwt, history>>
<1>1. PICK a \in Accounts :
        /\ \/ UNCHANGED token
           \/ \E t \in Tokens : token' = [token EXCEPT ![t] = Revoked(t)]
        /\ Start(s, IF a \in Users THEN [Idle EXCEPT !.pc = "revoke", !.a = a] ELSE Idle)
  BY DEF Logout
<1>2. Begun(s) /\ (req'[s] = Idle \/ Serves(req'[s], "revoke", a, None, "idle"))
  BY <1>1, IdleTyped, StartMoves, StartsFor DEF Suspended
<1>. QED BY <1>1, <1>2 DEF Logout

\* A step that is not a request's: the tokens keep their owners and their passwords, and no
\* token becomes active.
LEMMA TokenExpiresTo ==
    ASSUME TypeInv, TokenExpires
    PROVE  /\ \A t \in Tokens :
                /\ token'[t] \in RefreshToken
                /\ token'[t].owner = token[t].owner
                /\ token'[t].state = "active" =>
                     token[t].state = "active" /\ token'[t].password = token[t].password
           /\ token' \in [Tokens -> RefreshToken]
<1>1. PICK t \in Tokens : token' = [token EXCEPT ![t].state = "expired"] BY DEF TokenExpires
<1> DEFINE x == token[t]
           y == [x EXCEPT !.state = "expired"]
<1>2. token \in [Tokens -> RefreshToken] /\ x \in RefreshToken BY DEF TypeInv, TablesTyped
<1>3. token' = [token EXCEPT ![t] = y] BY <1>1
<1>. HIDE DEF x
<1>4. y \in RefreshToken /\ y.state = "expired" /\ y.owner = x.owner BY <1>2 DEF RefreshToken
<1>. HIDE DEF y
<1>. QED BY <1>2, <1>3, <1>4 DEF x

LEMMA RefreshAccessTokenTo ==
    ASSUME TypeInv, NEW t \in Tokens, RefreshAccessToken(t)
    PROVE  /\ \A u \in Tokens :
                /\ token'[u] \in RefreshToken
                /\ token'[u].owner = token[u].owner
                /\ token'[u].state = "active" =>
                     token[u].state = "active" /\ token'[u].password = token[u].password
           /\ token' \in [Tokens -> RefreshToken]
<1> DEFINE x == token[t]
           y == [x EXCEPT !.exchanges = @ + 1]
<1>1. token \in [Tokens -> RefreshToken] /\ x \in RefreshToken BY DEF TypeInv, TablesTyped
<1>2. CASE token[t].state = "active" /\ token[t].exchanges < MaxExchanges
           /\ token' = [token EXCEPT ![t].exchanges = @ + 1]
  <2>1. token' = [token EXCEPT ![t] = y] BY <1>2
  <2>2. x.state = "active" /\ x.exchanges < MaxExchanges BY <1>2
  <2>. HIDE DEF x
  <2>3. y \in RefreshToken /\ y.state = "active" /\ y.owner = x.owner /\ y.password = x.password
    BY <1>1, <2>2, Bounds DEF RefreshToken
  <2>. HIDE DEF y
  <2>. QED BY <1>1, <2>1, <2>2, <2>3 DEF x
<1>3. CASE token' = [token EXCEPT ![t] = Revoked(t)]
  BY <1>1, <1>3, RevokedTyped
<1>. QED BY <1>2, <1>3 DEF RefreshAccessToken

--------------------------------------------------------------------------------
\* What each step of SignIn does.  Those that only go on to the next step write no table.

LEMMA RowOf == ASSUME TypeInv, NEW a \in Accounts PROVE account[a] \in Row
  BY DEF TypeInv, TablesTyped

LEMMA EditedRow ==
    ASSUME NEW x \in Row, NEW p \in Passwords, NEW b \in BOOLEAN
    PROVE  /\ [x EXCEPT !.password = p] \in Row
           /\ [x EXCEPT !.password = p].twoFactor = x.twoFactor
           /\ [x EXCEPT !.password = p, !.banned = b] \in Row
           /\ [x EXCEPT !.password = p, !.banned = b].twoFactor = x.twoFactor
  BY DEF Row

LEMMA UserLoginTo ==
    ASSUME TypeInv, NEW s \in Slots, UserLogin(s)
    PROVE  /\ Begun(s)
           /\ \E a \in Users : Serves(req'[s], "loginSave", a, account[a], "issue")
           /\ UNCHANGED <<tables, history>>
<1>1. PICK a \in Users :
        Start(s, [Idle EXCEPT !.pc = "loginSave", !.a = a, !.row = account[a], !.then = "issue"])
  BY DEF UserLogin
<1>2. a \in Accounts BY DEF Accounts
<1>3. Begun(s) /\ Serves(req'[s], "loginSave", a, account[a], "issue")
  BY <1>1, <1>2, RowOf, StartsWithThen DEF Suspended
<1>. QED BY <1>3 DEF UserLogin

LEMMA AdminLoginTo ==
    ASSUME TypeInv, NEW s \in Slots, AdminLogin(s)
    PROVE  /\ Begun(s)
           /\ \E a \in Admins : Serves(req'[s], "checkTwoFactor", a, account[a], "issue")
           /\ UNCHANGED <<tables, history>>
<1>1. PICK a \in Admins :
        Start(s, [Idle EXCEPT !.pc = "checkTwoFactor", !.a = a, !.row = account[a],
                              !.then = "issue"])
  BY DEF AdminLogin
<1>2. a \in Accounts BY DEF Accounts
<1>3. Begun(s) /\ Serves(req'[s], "checkTwoFactor", a, account[a], "issue")
  BY <1>1, <1>2, RowOf, StartsWithThen DEF Suspended
<1>. QED BY <1>3 DEF AdminLogin

\* A request that sets a password, or edits the row otherwise; `then` says whether the
\* sessions end.
RowLoaded(s, a, then) ==
    \E row \in Row : /\ row.twoFactor = account[a].twoFactor
                     /\ Serves(req'[s], "rowSave", a, row, then)

LEMMA ChangePasswordTo ==
    ASSUME TypeInv, NEW s \in Slots, ChangePassword(s)
    PROVE  /\ Begun(s)
           /\ \E a \in Accounts : RowLoaded(s, a, "revoke")
           /\ UNCHANGED <<tables, history>>
<1>1. PICK a \in Accounts, p \in Passwords :
        Start(s, [Idle EXCEPT !.pc = "rowSave", !.a = a, !.then = "revoke",
                              !.row = [account[a] EXCEPT !.password = p]])
  BY DEF ChangePassword
<1> DEFINE row == [account[a] EXCEPT !.password = p]
<1>2. row \in Row /\ row.twoFactor = account[a].twoFactor BY RowOf, EditedRow
<1>. HIDE DEF row
<1>3. Start(s, [Idle EXCEPT !.pc = "rowSave", !.a = a, !.then = "revoke", !.row = row])
  BY <1>1 DEF row
<1>4. Begun(s) /\ Serves(req'[s], "rowSave", a, row, "revoke")
  BY <1>2, <1>3, StartsWithThen DEF Suspended
<1>. QED BY <1>2, <1>4 DEF ChangePassword, RowLoaded

LEMMA UpdateAccountTo ==
    ASSUME TypeInv, NEW s \in Slots, UpdateAccount(s)
    PROVE  /\ Begun(s)
           /\ \E a \in Accounts : RowLoaded(s, a, "idle")
           /\ UNCHANGED <<tables, history>>
<1>1. PICK a \in Accounts, p \in Passwords, b \in BOOLEAN :
        Start(s, [Idle EXCEPT !.pc = "rowSave", !.a = a,
                              !.row = [account[a] EXCEPT !.password = p, !.banned = b]])
  BY DEF UpdateAccount
<1> DEFINE row == [account[a] EXCEPT !.password = p, !.banned = b]
<1>2. row \in Row /\ row.twoFactor = account[a].twoFactor BY RowOf, EditedRow
<1>. HIDE DEF row
<1>3. Start(s, [Idle EXCEPT !.pc = "rowSave", !.a = a, !.row = row])
  BY <1>1 DEF row
<1>4. Begun(s) /\ Serves(req'[s], "rowSave", a, row, "idle")
  BY <1>2, <1>3, StartsWith DEF Suspended
<1>. QED BY <1>2, <1>4 DEF UpdateAccount, RowLoaded

LEMMA ResetPasswordTo ==
    ASSUME TypeInv, NEW s \in Slots, ResetPassword(s)
    PROVE  /\ Begun(s)
           /\ \E a \in Accounts : RowLoaded(s, a, "idle")
           /\ UNCHANGED <<tables, history>>
<1>1. PICK a \in resetJwt, p \in Passwords :
        Start(s, [Idle EXCEPT !.pc = "rowSave", !.a = a,
                              !.row = [account[a] EXCEPT !.password = p]])
  BY DEF ResetPassword
<1>5. a \in Accounts BY DEF TypeInv, TablesTyped
<1> DEFINE row == [account[a] EXCEPT !.password = p]
<1>2. row \in Row /\ row.twoFactor = account[a].twoFactor BY <1>5, RowOf, EditedRow
<1>. HIDE DEF row
<1>3. Start(s, [Idle EXCEPT !.pc = "rowSave", !.a = a, !.row = row])
  BY <1>1 DEF row
<1>4. Begun(s) /\ Serves(req'[s], "rowSave", a, row, "idle")
  BY <1>2, <1>3, <1>5, StartsWith DEF Suspended
<1>. QED BY <1>2, <1>4, <1>5 DEF ResetPassword, RowLoaded

LEMMA UserResetPasswordTo ==
    ASSUME TypeInv, NEW s \in Slots, UserResetPassword(s)
    PROVE  /\ Begun(s)
           /\ \E a \in Accounts : RowLoaded(s, a, "revoke")
           /\ UNCHANGED <<tables, history>>
<1>1. PICK a \in resetJwt \cap Users, p \in Passwords :
        Start(s, [Idle EXCEPT !.pc = "rowSave", !.a = a, !.then = "revoke",
                              !.row = [account[a] EXCEPT !.password = p]])
  BY DEF UserResetPassword
<1>5. a \in Accounts BY DEF TypeInv, TablesTyped
<1> DEFINE row == [account[a] EXCEPT !.password = p]
<1>2. row \in Row /\ row.twoFactor = account[a].twoFactor BY <1>5, RowOf, EditedRow
<1>. HIDE DEF row
<1>3. Start(s, [Idle EXCEPT !.pc = "rowSave", !.a = a, !.then = "revoke", !.row = row])
  BY <1>1 DEF row
<1>4. Begun(s) /\ Serves(req'[s], "rowSave", a, row, "revoke")
  BY <1>2, <1>3, <1>5, StartsWithThen DEF Suspended
<1>. QED BY <1>2, <1>4, <1>5 DEF UserResetPassword, RowLoaded

LEMMA DeletionTo ==
    ASSUME TypeInv, NEW s \in Slots, DeleteProfile(s) \/ RemoveAccount(s)
    PROVE  /\ Begun(s)
           /\ \E a \in Accounts : \/ Serves(req'[s], "revoke", a, None, "softRemove")
                                  \/ Serves(req'[s], "softRemove", a, None, "idle")
           /\ UNCHANGED <<tables, history>>
<1>1. CASE DeleteProfile(s)
  <2>1. PICK a \in Users :
          Start(s, [Idle EXCEPT !.pc = "revoke", !.a = a, !.then = "softRemove"])
    BY <1>1 DEF DeleteProfile
  <2>2. a \in Accounts BY DEF Accounts
  <2>. QED BY <1>1, <2>1, <2>2, StartsThen DEF DeleteProfile, Suspended
<1>2. CASE RemoveAccount(s)
  BY <1>2, StartsFor DEF RemoveAccount, Suspended
<1>. QED BY <1>1, <1>2

LEMMA DisableTwoFactorTo ==
    ASSUME TypeInv, NEW s \in Slots, DisableTwoFactor(s)
    PROVE  /\ Begun(s)
           /\ \E a \in Admins : Serves(req'[s], "disableExpire", a, None, "idle")
           /\ UNCHANGED <<tables, history>>
  BY StartsFor DEF DisableTwoFactor, Suspended, Accounts

LEMMA LoginSaveTo ==
    ASSUME TypeInv, NEW s \in Slots, LoginSave(s)
    PROVE  /\ Going(s) /\ req[s].pc = "loginSave"
           /\ Serves(req'[s], "revoke", req[s].a, req[s].row, req[s].then)
           /\ account' = [account EXCEPT ![req[s].a] = req[s].row]
           /\ UNCHANGED <<token, otps, resetJwt, history>>
  BY GotoMoves DEF LoginSave, Serves, Suspended

LEMMA CheckTwoFactorTo ==
    ASSUME TypeInv, NEW s \in Slots, CheckTwoFactor(s)
    PROVE  /\ Going(s) /\ req[s].pc = "checkTwoFactor"
           /\ \/ req'[s] = Idle
              \/ Serves(req'[s], "sendCode", req[s].a, req[s].row, req[s].then)
              \/ Serves(req'[s], "revoke", req[s].a, req[s].row, req[s].then)
           /\ UNCHANGED <<tables, history>>
<1>1. Finish(s) \/ Goto(s, "sendCode") \/ Goto(s, "revoke") BY DEF CheckTwoFactor
<1>. QED BY <1>1, FinishMoves, GotoMoves DEF CheckTwoFactor, Serves, Suspended

LEMMA LoadAdminTo ==
    ASSUME TypeInv, NEW s \in Slots, LoadAdmin(s)
    PROVE  /\ Going(s) /\ req[s].pc = "admin"
           /\ \/ req'[s] = Idle
              \/ Serves(req'[s], "revoke", req[s].a, account[req[s].a], "issue")
           /\ UNCHANGED <<tables, history>>
<1> DEFINE a == req[s].a
           row == account[a]
           q == [Idle EXCEPT !.pc = "revoke", !.a = a, !.row = row, !.then = "issue"]
<1>1. Finish(s) \/ Continue(s, q) BY DEF LoadAdmin
<1>2. a \in Accounts /\ row \in Row
  BY RowOf DEF LoadAdmin, TypeInv, RequestFits, OfAdmin, Accounts
<1>. HIDE DEF a, row
<1>3. q \in Request BY <1>2, IdleTyped DEF Request, Suspended
<1>4. Serves(q, "revoke", a, row, "issue") BY DEF Idle, Serves
<1>. HIDE DEF q
<1>5. Going(s) /\ (req'[s] = Idle \/ req'[s] = q)
  BY <1>1, <1>3, FinishMoves, ContinueMoves DEF LoadAdmin
<1>. QED BY <1>4, <1>5 DEF LoadAdmin, a, row

LEMMA RowSaveTo ==
    ASSUME TypeInv, NEW s \in Slots, RowSave(s)
    PROVE  /\ Going(s) /\ req[s].pc = "rowSave"
           /\ \/ req[s].then = "idle" /\ req'[s] = Idle /\ token' = Unanswerable(req[s].a)
              \/ /\ req'[s].pc = "revoke" /\ req'[s].a = req[s].a /\ req'[s].then = "idle"
                 /\ req[s].then = "revoke" => UNCHANGED token
                 /\ req[s].then # "revoke" => token' = Unanswerable(req[s].a)
           /\ account' = [account EXCEPT ![req[s].a] = req[s].row]
           /\ UNCHANGED <<otps, resetJwt, history>>
<1>1. CASE req[s].then = "idle"
  BY <1>1, FinishMoves DEF RowSave
<1>2. CASE req[s].then # "idle"
  <2> DEFINE r == req[s]
             q == [r EXCEPT !.pc = "revoke", !.then = "idle"]
  <2>1. r \in Request BY DEF TypeInv
  <2>2. Continue(s, q) BY <1>2 DEF RowSave
  <2>. HIDE DEF r
  <2>3. q \in Request /\ q.pc = "revoke" /\ q.then = "idle" /\ q.a = r.a
    BY <2>1 DEF Request, Suspended
  <2>. HIDE DEF q
  <2>4. Going(s) /\ req'[s] = q BY <2>2, <2>3, ContinueMoves DEF RowSave
  <2>. QED BY <2>3, <2>4 DEF r, RowSave
<1>. QED BY <1>1, <1>2

LEMMA SoftRemoveTo ==
    ASSUME TypeInv, NEW s \in Slots, SoftRemove(s)
    PROVE  /\ Going(s) /\ req[s].pc = "softRemove" /\ req'[s] = Idle
           /\ account' = [account EXCEPT ![req[s].a].deleted = TRUE]
           /\ UNCHANGED <<token, otps, resetJwt, history>>
  BY FinishMoves DEF SoftRemove

--------------------------------------------------------------------------------
\* One-time codes: what a judgement, a save and a new code do.

LEMMA JudgedTyped ==
    ASSUME NEW x \in OtpRecord, NEW right \in BOOLEAN, NEW done \in OtpStatus
    PROVE  Judged(x, right, done) \in OtpRecord
<1> DEFINE tries == 0..MaxAttempts
<1>1. x.attempts \in tries /\ x.status \in OtpStatus BY DEF OtpRecord
<1>2. ~Worn(x) => x.attempts + 1 \in tries BY <1>1, Bounds DEF Worn
<1>. HIDE DEF tries
<1>3. OtpRecord = [owner : Accounts, purpose : OtpPurpose, code : Codes, status : OtpStatus,
                   attempts : tries, late : BOOLEAN]
  BY DEF OtpRecord, tries
<1>4. CASE Worn(x)
  BY <1>3, <1>4 DEF Judged, OtpStatus
<1>5. CASE ~Worn(x)
  <2> DEFINE n == x.attempts + 1
             st == IF right THEN done ELSE x.status
  <2>1. n \in tries /\ st \in OtpStatus BY <1>1, <1>2, <1>5
  <2>2. Judged(x, right, done) = [x EXCEPT !.attempts = n, !.status = st]
    BY <1>5 DEF Judged
  <2>. HIDE DEF n, st
  <2>. QED BY <1>3, <2>1, <2>2
<1>. QED BY <1>4, <1>5

LEMMA JudgedColumns ==
    ASSUME NEW x \in OtpRecord, NEW right \in BOOLEAN, NEW done \in OtpStatus
    PROVE  LET y == Judged(x, right, done) IN
             /\ y.owner = x.owner /\ y.purpose = x.purpose
             /\ Worn(x) => y.status = "EXPIRED"
             /\ ~Worn(x) => /\ y.attempts = x.attempts + 1
                            /\ y.status = IF right THEN done ELSE x.status
<1>1. CASE Worn(x)
  BY <1>1 DEF Judged, OtpRecord
<1>2. CASE ~Worn(x)
  <2> DEFINE n == x.attempts + 1
             st == IF right THEN done ELSE x.status
             y == [x EXCEPT !.attempts = n, !.status = st]
  <2>1. Judged(x, right, done) = y BY <1>2 DEF Judged
  <2>. HIDE DEF n, st
  <2>2. y.owner = x.owner /\ y.purpose = x.purpose /\ y.attempts = n /\ y.status = st
    BY DEF OtpRecord
  <2>. HIDE DEF y
  <2>. QED BY <1>2, <2>1, <2>2 DEF n, st
<1>. QED BY <1>1, <1>2

\* What a save leaves of the code i that was loaded as x.
Saved(i, x, right, done) ==
    /\ otps' \in Seq(OtpRecord) /\ DOMAIN otps' = DOMAIN otps /\ Len(otps') = Len(otps)
    /\ \A j \in DOMAIN otps : j # i => otps'[j] = otps[j]
    /\ otps'[i].owner = x.owner /\ otps'[i].purpose = x.purpose
    /\ Worn(x) => otps'[i].status = "EXPIRED"
    /\ ~Worn(x) => /\ otps'[i].attempts = x.attempts + 1
                   /\ otps'[i].status = IF right THEN done ELSE x.status
    /\ wrong' \in [1..MaxOtps -> 0..MaxAttempts]
    /\ \A j \in 1..MaxOtps : j # i => wrong'[j] = wrong[j]
    /\ wrong'[i] \in {0, wrong[i]}

LEMMA InOtps ==
    ASSUME TypeInv, NEW i \in DOMAIN otps
    PROVE  i \in 1..MaxOtps /\ otps[i] \in OtpRecord /\ i \in Nat
  BY Bounds DEF TypeInv, TablesTyped

LEMMA OverwriteOtp ==
    ASSUME TypeInv, NEW i \in DOMAIN otps, NEW x \in OtpRecord,
           otps' = [otps EXCEPT ![i] = x]
    PROVE  /\ otps' \in Seq(OtpRecord) /\ DOMAIN otps' = DOMAIN otps /\ Len(otps') = Len(otps)
           /\ otps'[i] = x /\ \A j \in DOMAIN otps : j # i => otps'[j] = otps[j]
  BY DEF TypeInv, TablesTyped

LEMMA SaveOtpTo ==
    ASSUME TypeInv, NEW r \in Request, NEW done \in OtpStatus,
           r.otp \in DOMAIN otps, r.record \in OtpRecord, SaveOtp(r, done)
    PROVE  Saved(r.otp, r.record, r.right, done)
<1> DEFINE i == r.otp
           x == r.record
           saved == Judged(x, r.right, done)
           b == (saved.status = "PENDING" /\ otps[i].late)
           y == [saved EXCEPT !.late = b]
           w == IF saved.status = "EXPIRED" THEN 0 ELSE wrong[i]
<1>1. r.right \in BOOLEAN BY DEF Request
<1>2. saved \in OtpRecord BY <1>1, JudgedTyped
<1>3. /\ saved.owner = x.owner /\ saved.purpose = x.purpose
      /\ Worn(x) => saved.status = "EXPIRED"
      /\ ~Worn(x) => /\ saved.attempts = x.attempts + 1
                     /\ saved.status = IF r.right THEN done ELSE x.status
  BY <1>1, JudgedColumns
<1>4. otps' = [otps EXCEPT ![i] = y] /\ wrong' = [wrong EXCEPT ![i] = w]
  BY DEF SaveOtp
<1>. HIDE DEF saved
<1>5. b \in BOOLEAN BY InOtps DEF OtpRecord
<1>. HIDE DEF b
<1>6. y \in OtpRecord BY <1>2, <1>5 DEF OtpRecord
<1>7. y.owner = saved.owner /\ y.purpose = saved.purpose /\ y.status = saved.status
      /\ y.attempts = saved.attempts
  BY <1>2 DEF OtpRecord
<1>. HIDE DEF y
<1>8. /\ otps' \in Seq(OtpRecord) /\ DOMAIN otps' = DOMAIN otps /\ Len(otps') = Len(otps)
      /\ otps'[i] = y /\ \A j \in DOMAIN otps : j # i => otps'[j] = otps[j]
  BY <1>4, <1>6, OverwriteOtp
<1>9. i \in 1..MaxOtps /\ wrong \in [1..MaxOtps -> 0..MaxAttempts]
  BY InOtps DEF TypeInv, TablesTyped
<1>10. w \in {0, wrong[i]} /\ w \in 0..MaxAttempts BY <1>9, Bounds
<1>. HIDE DEF w
<1>11. /\ wrong' \in [1..MaxOtps -> 0..MaxAttempts]
       /\ \A j \in 1..MaxOtps : j # i => wrong'[j] = wrong[j]
       /\ wrong'[i] = w
  BY <1>4, <1>9, <1>10
<1>. QED BY <1>3, <1>7, <1>8, <1>10, <1>11 DEF Saved

\* A code is sent: one pending record more, at the end.
Sent(a, purpose) ==
    /\ otps' \in Seq(OtpRecord) /\ Len(otps') = Len(otps) + 1 /\ Len(otps) < MaxOtps
    /\ \A i \in DOMAIN otps : i \in DOMAIN otps' /\ otps'[i] = otps[i]
    /\ \A i \in DOMAIN otps' \ DOMAIN otps : otps'[i].status = "PENDING"

LEMMA SendOtpTo ==
    ASSUME TypeInv, NEW a \in Accounts, NEW purpose \in OtpPurpose, SendOtp(a, purpose)
    PROVE  Sent(a, purpose)
<1>1. PICK code \in Codes :
        otps' = Append(otps, [owner |-> a, purpose |-> purpose, code |-> code,
                              status |-> "PENDING", attempts |-> 0, late |-> FALSE])
  BY DEF SendOtp
<1> DEFINE x == [owner |-> a, purpose |-> purpose, code |-> code,
                 status |-> "PENDING", attempts |-> 0, late |-> FALSE]
<1>2. x \in OtpRecord BY Bounds DEF OtpRecord, OtpStatus
<1>3. x.status = "PENDING" OBVIOUS
<1>. HIDE DEF x
<1>4. otps \in Seq(OtpRecord) /\ Len(otps) < MaxOtps BY DEF TypeInv, TablesTyped, SendOtp
<1>5. otps' = Append(otps, x) BY <1>1 DEF x
<1>6. otps' \in Seq(OtpRecord) /\ Len(otps') = Len(otps) + 1
  BY <1>2, <1>4, <1>5
<1>7. DOMAIN otps = 1..Len(otps) /\ DOMAIN otps' = 1..(Len(otps) + 1) /\ Len(otps) \in Nat
  BY <1>4, <1>6
<1>8. \A i \in DOMAIN otps : otps'[i] = otps[i] BY <1>4, <1>5
<1>9. otps'[Len(otps) + 1] = x BY <1>4, <1>5
<1>. QED BY <1>3, <1>4, <1>6, <1>7, <1>8, <1>9 DEF Sent

--------------------------------------------------------------------------------
\* What each step of TwoFactor and PasswordReset does.

\* Code i was loaded to judge what a caller gave for it.
Tried(s, i, pc, then) ==
    /\ Begun(s) /\ i \in DOMAIN otps /\ otps[i].status = "PENDING"
    /\ req'[s].pc = pc /\ req'[s].a = otps[i].owner /\ req'[s].then = then
    /\ req'[s].otp = i /\ req'[s].record = otps[i]
    /\ wrong' \in [1..MaxOtps -> 0..MaxAttempts]
    /\ \A j \in 1..MaxOtps : j # i => wrong'[j] = wrong[j]
    /\ wrong'[i] <= wrong[i] + IF req'[s].right THEN 0 ELSE 1
    /\ UNCHANGED <<tables, signedIn, refused>>

LEMMA TriedRequest ==
    ASSUME NEW pc \in Suspended, NEW a \in Accounts, NEW i \in 1..MaxOtps,
           NEW x \in OtpRecord, NEW right \in BOOLEAN, NEW then \in {"idle", "issue"}
    PROVE  [Idle EXCEPT !.pc = pc, !.a = a, !.otp = i, !.record = x, !.right = right,
                        !.then = then] \in Request
<1> DEFINE many == 0..MaxOtps
           nobody == Row \cup {None}
           records == OtpRecord \cup {None}
           someone == Accounts \cup {None}
           pcs == Suspended \cup {"idle"}
<1>1. i \in many BY Bounds
<1>2. Request = [pc : pcs, a : someone, row : nobody, otp : many, record : records,
                 right : BOOLEAN, then : {"idle", "issue", "revoke", "softRemove"}]
  BY DEF Request
<1>3. x \in records /\ a \in someone /\ pc \in pcs OBVIOUS
<1>. HIDE DEF many, nobody, records, someone, pcs
<1>. QED BY <1>1, <1>2, <1>3, IdleTyped

LEMMA TryTo ==
    ASSUME TypeInv, NEW s \in Slots, NEW S \in SUBSET DOMAIN otps, NEW pc \in Suspended,
           NEW code \in Codes, NEW then \in {"idle", "issue"}, Try(s, S, pc, code, then),
           \A i \in S : otps[i].status = "PENDING", UNCHANGED <<tables, signedIn, refused>>
    PROVE  \E i \in S : Tried(s, i, pc, then)
<1>1. PICK i \in S :
        /\ wrong' = [wrong EXCEPT ![i] = IF code = otps[i].code \/ @ = MaxAttempts THEN @
                                         ELSE @ + 1]
        /\ Start(s, [Idle EXCEPT !.pc = pc, !.a = otps[i].owner, !.otp = i,
                                 !.record = otps[i], !.right = (code = otps[i].code),
                                 !.then = then])
  BY DEF Try
<1> DEFINE a == otps[i].owner
           x == otps[i]
           right == (code = otps[i].code)
           w == IF right \/ wrong[i] = MaxAttempts THEN wrong[i] ELSE wrong[i] + 1
           q == [Idle EXCEPT !.pc = pc, !.a = a, !.otp = i, !.record = x, !.right = right,
                             !.then = then]
<1>2. i \in 1..MaxOtps /\ x \in OtpRecord /\ a \in Accounts /\ right \in BOOLEAN
  BY InOtps DEF OtpRecord
<1>3. wrong \in [1..MaxOtps -> 0..MaxAttempts] BY DEF TypeInv, TablesTyped
<1>4. w \in 0..MaxAttempts /\ w <= wrong[i] + IF right THEN 0 ELSE 1
  BY <1>2, <1>3, Bounds
<1>5. wrong' = [wrong EXCEPT ![i] = w] BY <1>1
<1>6. Start(s, q) BY <1>1
<1>. HIDE DEF a, x, right, w
<1>7. q \in Request BY <1>2, TriedRequest
<1>8. /\ q.pc = pc /\ q.a = a /\ q.otp = i /\ q.record = x /\ q.right = right
      /\ q.then = then
  BY DEF Idle
<1>. HIDE DEF q
<1>9. Begun(s) /\ req'[s] = q BY <1>6, <1>7, StartMoves
<1>10. /\ wrong' \in [1..MaxOtps -> 0..MaxAttempts]
       /\ \A j \in 1..MaxOtps : j # i => wrong'[j] = wrong[j]
       /\ wrong'[i] = w
  BY <1>2, <1>3, <1>4, <1>5
<1>. QED BY <1>4, <1>8, <1>9, <1>10 DEF Tried, a, x

LEMMA FoundAre ==
    ASSUME NEW a, NEW purpose, NEW status
    PROVE  /\ Found(a, purpose, status) \in SUBSET DOMAIN otps
           /\ \A i \in Found(a, purpose, status) :
                 otps[i].owner = a /\ otps[i].purpose = purpose /\ otps[i].status = status
           /\ Newest(Found(a, purpose, status)) \subseteq Found(a, purpose, status)
  BY DEF Found, Newest

LEMMA ConfirmTwoFactorTo ==
    ASSUME TypeInv, NEW s \in Slots, ConfirmTwoFactor(s)
    PROVE  \E i \in DOMAIN otps : /\ Tried(s, i, "confirmSave", "idle")
                                  /\ otps[i].owner \in Admins
                                  /\ otps[i].purpose = "TWO_FACTOR"
<1>1. PICK a \in Admins, code \in Codes :
        Try(s, Newest(Found(a, "TWO_FACTOR", "PENDING")), "confirmSave", code, "idle")
  BY DEF ConfirmTwoFactor
<1> DEFINE S == Newest(Found(a, "TWO_FACTOR", "PENDING"))
<1>2. /\ S \in SUBSET DOMAIN otps
      /\ \A i \in S : /\ otps[i].owner = a /\ otps[i].purpose = "TWO_FACTOR"
                      /\ otps[i].status = "PENDING"
  BY FoundAre
<1>. HIDE DEF S
<1>3. Try(s, S, "confirmSave", code, "idle") BY <1>1 DEF S
<1>4. \E i \in S : Tried(s, i, "confirmSave", "idle")
  BY <1>2, <1>3, TryTo DEF ConfirmTwoFactor, Suspended
<1>. QED BY <1>2, <1>4

LEMMA ValidateLoginCodeTo ==
    ASSUME TypeInv, NEW s \in Slots, ValidateLoginCode(s)
    PROVE  \E i \in DOMAIN otps : /\ Tried(s, i, "codeSave", "issue")
                                  /\ otps[i].owner \in Admins
                                  /\ otps[i].purpose = "TWO_FACTOR"
<1>1. PICK a \in Admins, code \in Codes :
        Try(s, {i \in Found(a, "TWO_FACTOR", "PENDING") : otps[i].code = code}, "codeSave",
            code, "issue")
  BY DEF ValidateLoginCode
<1> DEFINE S == {i \in Found(a, "TWO_FACTOR", "PENDING") : otps[i].code = code}
<1>2. /\ S \in SUBSET DOMAIN otps
      /\ \A i \in S : /\ otps[i].owner = a /\ otps[i].purpose = "TWO_FACTOR"
                      /\ otps[i].status = "PENDING"
  BY FoundAre
<1>. HIDE DEF S
<1>3. Try(s, S, "codeSave", code, "issue") BY <1>1 DEF S
<1>4. \E i \in S : Tried(s, i, "codeSave", "issue")
  BY <1>2, <1>3, TryTo DEF ValidateLoginCode, Suspended
<1>. QED BY <1>2, <1>4

LEMMA VerifyResetCodeTo ==
    ASSUME TypeInv, NEW s \in Slots, VerifyResetCode(s)
    PROVE  \E i \in DOMAIN otps : /\ Tried(s, i, "resetCodeSave", "idle")
                                  /\ otps[i].owner \in Accounts
                                  /\ otps[i].purpose = "RESET_PASSWORD"
<1>1. PICK a \in Accounts, code \in Codes :
        Try(s, Found(a, "RESET_PASSWORD", "PENDING"), "resetCodeSave", code, "idle")
  BY DEF VerifyResetCode
<1> DEFINE S == Found(a, "RESET_PASSWORD", "PENDING")
<1>2. /\ S \in SUBSET DOMAIN otps
      /\ \A i \in S : /\ otps[i].owner = a /\ otps[i].purpose = "RESET_PASSWORD"
                      /\ otps[i].status = "PENDING"
  BY FoundAre
<1>. HIDE DEF S
<1>3. Try(s, S, "resetCodeSave", code, "idle") BY <1>1 DEF S
<1>4. \E i \in S : Tried(s, i, "resetCodeSave", "idle")
  BY <1>2, <1>3, TryTo DEF VerifyResetCode, Suspended
<1>. QED BY <1>2, <1>4

LEMMA EnableTwoFactorTo ==
    ASSUME TypeInv, NEW s \in Slots, EnableTwoFactor(s)
    PROVE  /\ Begun(s) /\ req'[s] = Idle
           /\ \E a \in Admins : Sent(a, "TWO_FACTOR")
           /\ UNCHANGED <<account, token, resetJwt, history>>
  BY StartMoves, IdleTyped, SendOtpTo DEF EnableTwoFactor, OtpPurpose, Accounts

LEMMA SendResetCodeTo ==
    ASSUME TypeInv, NEW s \in Slots, SendResetCode(s)
    PROVE  /\ Begun(s) /\ req'[s] = Idle
           /\ \E a \in Accounts : Sent(a, "RESET_PASSWORD")
           /\ UNCHANGED <<account, token, resetJwt, history>>
  BY StartMoves, IdleTyped, SendOtpTo DEF SendResetCode, OtpPurpose

LEMMA SendCodeTo ==
    ASSUME TypeInv, NEW s \in Slots, SendCode(s)
    PROVE  /\ Going(s) /\ req[s].pc = "sendCode" /\ req'[s] = Idle
           /\ \/ refused' = refused \cup {req[s].a} /\ UNCHANGED otps
              \/ Sent(req[s].a, "TWO_FACTOR") /\ UNCHANGED refused
           /\ UNCHANGED <<account, token, resetJwt, signedIn, wrong>>
<1>1. req[s].a \in Accounts
  BY DEF TypeInv, RequestFits, SendCode, OfAdmin, Accounts
<1>. QED BY <1>1, FinishMoves, SendOtpTo DEF SendCode, OtpPurpose

\* A request goes on to pc holding what it held.
Onward(s, pc) == /\ req'[s].pc = pc /\ req'[s].a = req[s].a /\ req'[s].then = req[s].then

LEMMA HeldCode ==
    ASSUME TypeInv, NEW s \in Slots, req[s].pc \in HoldsCode
    PROVE  /\ req[s] \in Request /\ req[s].otp \in DOMAIN otps /\ req[s].record \in OtpRecord
           /\ req[s].pc \in {"confirmSave", "codeSave"} => req[s].a \in Admins
           /\ req[s].a \in Accounts
  BY DEF TypeInv, RequestFits, HoldsCode, OfAdmin, Idle

LEMMA ConfirmSaveTo ==
    ASSUME TypeInv, NEW s \in Slots, ConfirmSave(s)
    PROVE  /\ Going(s) /\ req[s].pc = "confirmSave"
           /\ Saved(req[s].otp, req[s].record, req[s].right, "VERIFIED")
           /\ \/ Passes(req[s]) /\ Onward(s, "confirmFlag")
              \/ ~Passes(req[s]) /\ req'[s] = Idle
           /\ UNCHANGED <<account, token, resetJwt, signedIn, refused>>
<1>1. Saved(req[s].otp, req[s].record, req[s].right, "VERIFIED")
  BY HeldCode, SaveOtpTo DEF ConfirmSave, HoldsCode, OtpStatus
<1>. QED BY <1>1, FinishMoves, GotoMoves DEF ConfirmSave, Onward, Suspended

LEMMA CodeSaveTo ==
    ASSUME TypeInv, NEW s \in Slots, CodeSave(s)
    PROVE  /\ Going(s) /\ req[s].pc = "codeSave"
           /\ Saved(req[s].otp, req[s].record, req[s].right, "USED")
           /\ \/ /\ Passes(req[s]) /\ Onward(s, "admin")
                 /\ signedIn' = [signedIn EXCEPT ![req[s].otp] = @ + 1]
              \/ ~Passes(req[s]) /\ req'[s] = Idle /\ UNCHANGED signedIn
           /\ UNCHANGED <<account, token, resetJwt, refused>>
<1>1. Saved(req[s].otp, req[s].record, req[s].right, "USED")
  BY HeldCode, SaveOtpTo DEF CodeSave, HoldsCode, OtpStatus
<1>. QED BY <1>1, FinishMoves, GotoMoves DEF CodeSave, Onward, Suspended

LEMMA ResetCodeSaveTo ==
    ASSUME TypeInv, NEW s \in Slots, ResetCodeSave(s)
    PROVE  /\ Going(s) /\ req[s].pc = "resetCodeSave" /\ req'[s] = Idle
           /\ Saved(req[s].otp, req[s].record, req[s].right, "VERIFIED")
           /\ resetJwt' \in {resetJwt, resetJwt \cup {req[s].a}}
           /\ UNCHANGED <<account, token, signedIn, refused>>
<1>1. Saved(req[s].otp, req[s].record, req[s].right, "VERIFIED")
  BY HeldCode, SaveOtpTo DEF ResetCodeSave, HoldsCode, OtpStatus
<1>. QED BY <1>1, FinishMoves DEF ResetCodeSave

LEMMA FlagTo ==
    ASSUME TypeInv, NEW s \in Slots, ConfirmFlag(s) \/ DisableFlag(s)
    PROVE  /\ Going(s) /\ req'[s] = Idle
           /\ \/ /\ req[s].pc = "confirmFlag"
                 /\ account' = [account EXCEPT ![req[s].a].twoFactor = TRUE]
              \/ /\ req[s].pc = "disableFlag"
                 /\ account' = [account EXCEPT ![req[s].a].twoFactor = FALSE]
           /\ UNCHANGED <<token, otps, resetJwt, history>>
  BY FinishMoves DEF ConfirmFlag, DisableFlag

LEMMA ExpiredRecord ==
    ASSUME NEW x \in OtpRecord
    PROVE  [x EXCEPT !.status = "EXPIRED"] \in OtpRecord
  BY DEF OtpRecord, OtpStatus

LEMMA ExpiredColumns ==
    ASSUME NEW x \in OtpRecord, NEW y, y = [x EXCEPT !.status = "EXPIRED"]
    PROVE  y.status = "EXPIRED" /\ y.owner = x.owner
  BY DEF OtpRecord

\* The confirmed codes of the caller are expired, and nothing else is.
LEMMA DisableExpireTo ==
    ASSUME TypeInv, NEW s \in Slots, DisableExpire(s)
    PROVE  /\ Going(s) /\ req[s].pc = "disableExpire" /\ Onward(s, "disableFlag")
           /\ otps' \in Seq(OtpRecord) /\ DOMAIN otps' = DOMAIN otps /\ Len(otps') = Len(otps)
           /\ \A i \in DOMAIN otps :
                \/ i \notin Found(req[s].a, "TWO_FACTOR", "VERIFIED") /\ otps'[i] = otps[i]
                \/ /\ i \in Found(req[s].a, "TWO_FACTOR", "VERIFIED")
                   /\ otps'[i].status = "EXPIRED" /\ otps'[i].owner = otps[i].owner
           /\ UNCHANGED <<account, token, resetJwt, history>>
<1> DEFINE V == Found(req[s].a, "TWO_FACTOR", "VERIFIED")
<1>1. otps' = [i \in DOMAIN otps |-> IF i \in V THEN [otps[i] EXCEPT !.status = "EXPIRED"]
                                     ELSE otps[i]]
  BY DEF DisableExpire
<1>2. otps \in Seq(OtpRecord) BY DEF TypeInv, TablesTyped
<1>. HIDE DEF V
<1>5. ASSUME NEW i \in DOMAIN otps
      PROVE  /\ otps'[i] \in OtpRecord
             /\ \/ i \notin V /\ otps'[i] = otps[i]
                \/ i \in V /\ otps'[i].status = "EXPIRED" /\ otps'[i].owner = otps[i].owner
  <2>1. otps[i] \in OtpRecord BY InOtps
  <2>2. CASE i \in V
    <3>1. otps'[i] = [otps[i] EXCEPT !.status = "EXPIRED"] BY <1>1, <2>2
    <3>. QED BY ExpiredRecord, ExpiredColumns, <2>1, <2>2, <3>1
  <2>3. CASE i \notin V BY <1>1, <2>1, <2>3
  <2>. QED BY <2>2, <2>3
<1>6. DOMAIN otps = 1..Len(otps) /\ Len(otps) \in Nat BY <1>2
<1>7. otps' \in [1..Len(otps) -> OtpRecord] BY <1>1, <1>5, <1>6
<1>8. otps' \in Seq(OtpRecord) /\ Len(otps') = Len(otps) /\ DOMAIN otps' = DOMAIN otps
  BY <1>6, <1>7
<1>. QED BY <1>5, <1>8, GotoMoves DEF DisableExpire, Onward, Suspended, V

LEMMA OtpLapsesTo ==
    ASSUME TypeInv, OtpLapses
    PROVE  /\ otps' \in Seq(OtpRecord) /\ DOMAIN otps' = DOMAIN otps /\ Len(otps') = Len(otps)
           /\ \A i \in DOMAIN otps :
                /\ otps'[i].owner = otps[i].owner /\ otps'[i].purpose = otps[i].purpose
                /\ otps'[i].status = otps[i].status /\ otps'[i].attempts = otps[i].attempts
<1>1. PICK i \in DOMAIN otps : otps' = [otps EXCEPT ![i].late = TRUE] BY DEF OtpLapses
<1> DEFINE x == otps[i]
           y == [x EXCEPT !.late = TRUE]
<1>2. x \in OtpRecord BY InOtps
<1>3. otps' = [otps EXCEPT ![i] = y] BY <1>1
<1>. HIDE DEF x
<1>4. y \in OtpRecord BY <1>2 DEF OtpRecord
<1>5. y.owner = x.owner /\ y.purpose = x.purpose /\ y.status = x.status
      /\ y.attempts = x.attempts
  BY <1>2 DEF OtpRecord
<1>. HIDE DEF y
<1>6. /\ otps' \in Seq(OtpRecord) /\ DOMAIN otps' = DOMAIN otps /\ Len(otps') = Len(otps)
      /\ otps'[i] = y /\ \A j \in DOMAIN otps : j # i => otps'[j] = otps[j]
  BY <1>3, <1>4, OverwriteOtp
<1>. QED BY <1>5, <1>6 DEF x

LEMMA RequestFailsTo ==
    ASSUME TypeInv, NEW s \in Slots, RequestFails(s)
    PROVE  /\ Moves(s) /\ req[s] # Idle /\ req'[s] = Idle /\ fails' = fails + 1
           /\ fails < MaxFails /\ UNCHANGED <<tables, history, calm>>
  BY IdleTyped DEF RequestFails, TypeInv, Moves

--------------------------------------------------------------------------------
\* Every step keeps the types.

LEMMA IdleFitsNext ==
    ASSUME NEW s \in Slots, req'[s] = Idle
    PROVE  RequestFits(req[s])'
  BY DEF RequestFits, HoldsRow, OfAdmin, HoldsCode, Idle

LEMMA TypeQuiet ==
    ASSUME TypeInv, NEW s \in Slots, Begun(s) \/ Going(s), UNCHANGED <<tables, history>>,
           RequestFits(req[s])'
    PROVE  TypeInv'
<1>1. Moves(s) BY DEF Begun, Going
<1>2. TablesTyped' BY DEF TypeInv, TablesTyped, Begun, Going, tables, history, Active
<1>3. otps' = otps BY DEF tables
<1>. QED BY <1>1, <1>2, <1>3, TypeMoves

\* Steps that write the accounts, the tokens or the codes.
LEMMA TypeAccount ==
    ASSUME TypeInv, NEW s \in Slots, Going(s), account' \in [Accounts -> Row],
           token' = token \/ (\E a \in Accounts : token' = Unanswerable(a)),
           UNCHANGED <<otps, resetJwt, history>>, RequestFits(req[s])'
    PROVE  TypeInv'
<1>0. ASSUME NEW x \in RefreshToken, NEW y, y = [x EXCEPT !.password = None]
      PROVE  y \in RefreshToken /\ y.state = x.state /\ y.owner = x.owner
  <2>1. [x EXCEPT !.password = None] \in RefreshToken BY DEF RefreshToken
  <2>2. [x EXCEPT !.password = None].state = x.state
        /\ [x EXCEPT !.password = None].owner = x.owner
    BY DEF RefreshToken
  <2>. QED BY <1>0, <2>1, <2>2
<1>1. token \in [Tokens -> RefreshToken] BY DEF TypeInv, TablesTyped
<1>2. token' \in [Tokens -> RefreshToken]
      /\ \A t \in Tokens : token'[t].state = token[t].state /\ token'[t].owner = token[t].owner
  <2>1. CASE token' = token BY <1>1, <2>1
  <2>2. ASSUME NEW a \in Accounts, token' = Unanswerable(a)
        PROVE  token' \in [Tokens -> RefreshToken]
               /\ \A t \in Tokens : /\ token'[t].state = token[t].state
                                    /\ token'[t].owner = token[t].owner
    <3>1. ASSUME NEW t \in Tokens
          PROVE  /\ token'[t] \in RefreshToken
                 /\ token'[t].state = token[t].state /\ token'[t].owner = token[t].owner
      <4>1. token[t] \in RefreshToken BY <1>1
      <4>2. token'[t] = IF token[t].owner = a THEN [token[t] EXCEPT !.password = None]
                        ELSE token[t]
        BY <2>2 DEF Unanswerable
      <4>. QED BY <1>0, <4>1, <4>2
    <3>2. token' = [t \in Tokens |-> token'[t]] BY <2>2 DEF Unanswerable
    <3>. QED BY <3>1, <3>2
  <2>. QED BY <2>1, <2>2
<1>3. TablesTyped' BY <1>2 DEF TypeInv, TablesTyped, Going, history, Active
<1>. QED BY <1>3, TypeMoves DEF Going

LEMMA TypeToken ==
    ASSUME TypeInv, NEW s \in Slots, Begun(s) \/ Going(s), token' \in [Tokens -> RefreshToken],
           \A t \in Tokens : Active(t)' => token'[t].owner \in Accounts,
           UNCHANGED <<account, otps, resetJwt, history>>, RequestFits(req[s])'
    PROVE  TypeInv'
<1>1. Moves(s) BY DEF Begun, Going
<1>2. TablesTyped' BY DEF TypeInv, TablesTyped, Begun, Going, history
<1>. QED BY <1>1, <1>2, TypeMoves

LEMMA TypeCode ==
    ASSUME TypeInv, NEW s \in Slots, Begun(s) \/ Going(s), UNCHANGED <<account, token>>,
           otps' \in Seq(OtpRecord), Len(otps') <= MaxOtps, DOMAIN otps \subseteq DOMAIN otps',
           resetJwt' \subseteq Accounts, signedIn' \in [1..MaxOtps -> Nat],
           wrong' \in [1..MaxOtps -> 0..MaxAttempts], refused' \subseteq Admins,
           RequestFits(req[s])'
    PROVE  TypeInv'
<1>1. Moves(s) BY DEF Begun, Going
<1>2. TablesTyped' BY DEF TypeInv, TablesTyped, Begun, Going, Active
<1>. QED BY <1>1, <1>2, TypeMoves

\* A step that is no request's.
LEMMA TypeElsewhere ==
    ASSUME TypeInv, UNCHANGED req, TablesTyped', DOMAIN otps = DOMAIN otps'
    PROVE  TypeInv'
  BY DEF TypeInv, RequestFits

LEMMA TypeStarts ==
    ASSUME TypeInv, NEW s \in Slots, SignInRequest(s) \/ ResetPassword(s)
           \/ UserResetPassword(s) \/ DisableTwoFactor(s)
    PROVE  TypeInv'
<1> USE DEF Serves, RequestFits, HoldsRow, OfAdmin, HoldsCode, Idle, RowLoaded
<1>1. CASE UserLogin(s)
  <2>1. RequestFits(req[s])' BY <1>1, UserLoginTo, RowOf DEF Accounts
  <2>. QED BY <1>1, <2>1, UserLoginTo, TypeQuiet
<1>2. CASE AdminLogin(s)
  <2>1. RequestFits(req[s])' BY <1>2, AdminLoginTo, RowOf DEF Accounts
  <2>. QED BY <1>2, <2>1, AdminLoginTo, TypeQuiet
<1>3. CASE ChangePassword(s)
  <2>1. RequestFits(req[s])' BY <1>3, ChangePasswordTo
  <2>. QED BY <1>3, <2>1, ChangePasswordTo, TypeQuiet
<1>4. CASE UpdateAccount(s)
  <2>1. RequestFits(req[s])' BY <1>4, UpdateAccountTo
  <2>. QED BY <1>4, <2>1, UpdateAccountTo, TypeQuiet
<1>5. CASE ResetPassword(s)
  <2>1. RequestFits(req[s])' BY <1>5, ResetPasswordTo
  <2>. QED BY <1>5, <2>1, ResetPasswordTo, TypeQuiet
<1>6. CASE UserResetPassword(s)
  <2>1. RequestFits(req[s])' BY <1>6, UserResetPasswordTo
  <2>. QED BY <1>6, <2>1, UserResetPasswordTo, TypeQuiet
<1>7. CASE DeleteProfile(s) \/ RemoveAccount(s)
  <2>1. RequestFits(req[s])' BY <1>7, DeletionTo
  <2>. QED BY <1>7, <2>1, DeletionTo, TypeQuiet
<1>8. CASE DisableTwoFactor(s)
  <2>1. RequestFits(req[s])' BY <1>8, DisableTwoFactorTo DEF Accounts
  <2>. QED BY <1>8, <2>1, DisableTwoFactorTo, TypeQuiet
<1>9. CASE Logout(s)
  <2>1. RequestFits(req[s])'
    <3>1. PICK a \in Accounts :
            req'[s] = Idle \/ Serves(req'[s], "revoke", a, None, "idle")
      BY <1>9, LogoutTo
    <3>2. CASE req'[s] = Idle BY <3>2
    <3>3. CASE Serves(req'[s], "revoke", a, None, "idle") BY <3>3
    <3>. QED BY <3>1, <3>2, <3>3
  <2>2. token \in [Tokens -> RefreshToken] /\ \A t \in Tokens : Active(t) => token[t].owner \in Accounts
    BY DEF TypeInv, TablesTyped
  <2>3. /\ token' \in [Tokens -> RefreshToken]
        /\ \A t \in Tokens : token'[t].state = "active" => token'[t].owner \in Accounts
    <3>1. CASE UNCHANGED token BY <2>2, <3>1 DEF Active
    <3>2. ASSUME NEW t \in Tokens, token' = [token EXCEPT ![t] = Revoked(t)]
          PROVE  /\ token' \in [Tokens -> RefreshToken]
                 /\ \A u \in Tokens : token'[u].state = "active" => token'[u].owner \in Accounts
      BY <2>2, <3>2, RevokedTyped DEF Active
    <3>. QED BY <1>9, <3>1, <3>2, LogoutTo
  <2>. QED BY <1>9, <2>1, <2>3, LogoutTo, TypeToken DEF Active
<1>. QED BY <1>1, <1>2, <1>3, <1>4, <1>5, <1>6, <1>7, <1>8, <1>9 DEF SignInRequest

LEMMA TypeCodes ==
    ASSUME TypeInv, NEW s \in Slots,
           \/ EnableTwoFactor(s) \/ SendResetCode(s) \/ SendCode(s)
           \/ ConfirmTwoFactor(s) \/ ValidateLoginCode(s) \/ VerifyResetCode(s)
           \/ ConfirmSave(s) \/ CodeSave(s) \/ ResetCodeSave(s) \/ DisableExpire(s)
    PROVE  TypeInv'
<1>0. /\ otps \in Seq(OtpRecord) /\ Len(otps) <= MaxOtps /\ DOMAIN otps = 1..Len(otps)
      /\ Len(otps) \in Nat /\ resetJwt \subseteq Accounts /\ refused \subseteq Admins
      /\ signedIn \in [1..MaxOtps -> Nat] /\ wrong \in [1..MaxOtps -> 0..MaxAttempts]
      /\ \A i \in DOMAIN otps : i \in 1..MaxOtps /\ otps[i] \in OtpRecord
  BY InOtps DEF TypeInv, TablesTyped
<1>1. ASSUME NEW a \in Accounts, NEW p \in OtpPurpose, Sent(a, p)
      PROVE  otps' \in Seq(OtpRecord) /\ Len(otps') <= MaxOtps /\ DOMAIN otps \subseteq DOMAIN otps'
  BY <1>0, <1>1, Bounds DEF Sent
<1>2. CASE EnableTwoFactor(s)
  <2>1. RequestFits(req[s])' BY <1>2, EnableTwoFactorTo, IdleFitsNext
  <2>. QED BY <1>0, <1>1, <1>2, <2>1, EnableTwoFactorTo, TypeCode DEF Accounts, OtpPurpose, history
<1>3. CASE SendResetCode(s)
  <2>1. RequestFits(req[s])' BY <1>3, SendResetCodeTo, IdleFitsNext
  <2>. QED BY <1>0, <1>1, <1>3, <2>1, SendResetCodeTo, TypeCode DEF OtpPurpose, history
<1>4. CASE SendCode(s)
  <2>1. RequestFits(req[s])' BY <1>4, SendCodeTo, IdleFitsNext
  <2>2. req[s].a \in Admins BY <1>4, SendCodeTo DEF TypeInv, RequestFits, OfAdmin
  <2>3. /\ otps' \in Seq(OtpRecord) /\ Len(otps') <= MaxOtps /\ DOMAIN otps \subseteq DOMAIN otps'
        /\ refused' \subseteq Admins
    BY <1>0, <1>1, <1>4, <2>2, SendCodeTo DEF Accounts, OtpPurpose
  <2>. QED BY <1>0, <1>4, <2>1, <2>3, SendCodeTo, TypeCode
<1>5. ASSUME NEW i \in DOMAIN otps,
             \/ Tried(s, i, "confirmSave", "idle") /\ otps[i].owner \in Admins
             \/ Tried(s, i, "codeSave", "issue") /\ otps[i].owner \in Admins
             \/ Tried(s, i, "resetCodeSave", "idle")
      PROVE  TypeInv'
  <2>0. otps' = otps /\ otps[i] \in OtpRecord /\ otps[i].owner \in Accounts
    BY <1>0, <1>5 DEF Tried, tables, OtpRecord
  <2>1. RequestFits(req[s])'
    BY <1>5, <2>0 DEF Tried, RequestFits, HoldsRow, OfAdmin, HoldsCode, Idle
  <2>2. Begun(s) /\ UNCHANGED <<tables, signedIn, refused>> BY <1>5 DEF Tried
  <2>3. wrong' \in [1..MaxOtps -> 0..MaxAttempts] BY <1>5 DEF Tried
  <2>. QED BY <1>0, <2>0, <2>1, <2>2, <2>3, TypeCode DEF tables
<1>6. CASE ConfirmTwoFactor(s) \/ ValidateLoginCode(s) \/ VerifyResetCode(s)
  BY <1>5, <1>6, ConfirmTwoFactorTo, ValidateLoginCodeTo, VerifyResetCodeTo
<1>7. CASE ConfirmSave(s)
  <2>1. RequestFits(req[s])'
    <3>1. CASE req'[s] = Idle BY <3>1, IdleFitsNext
    <3>2. CASE req'[s] # Idle
      BY <1>7, <3>2, ConfirmSaveTo, HeldCode
      DEF Onward, RequestFits, HoldsRow, OfAdmin, HoldsCode, Accounts
    <3>. QED BY <3>1, <3>2
  <2>. QED BY <1>0, <1>7, <2>1, ConfirmSaveTo, TypeCode DEF Saved
<1>8. CASE CodeSave(s)
  <2>1. RequestFits(req[s])'
    <3>1. CASE req'[s] = Idle BY <3>1, IdleFitsNext
    <3>2. CASE req'[s] # Idle
      BY <1>8, <3>2, CodeSaveTo, HeldCode
      DEF Onward, RequestFits, HoldsRow, OfAdmin, HoldsCode, Accounts
    <3>. QED BY <3>1, <3>2
  <2>2. req[s].otp \in 1..MaxOtps BY <1>0, <1>8, CodeSaveTo, HeldCode DEF HoldsCode
  <2>3. signedIn' \in [1..MaxOtps -> Nat] BY <1>0, <1>8, <2>2, CodeSaveTo
  <2>. QED BY <1>0, <1>8, <2>1, <2>3, CodeSaveTo, TypeCode DEF Saved
<1>9. CASE ResetCodeSave(s)
  <2>1. RequestFits(req[s])'
    BY <1>9, ResetCodeSaveTo, IdleFitsNext
  <2>2. resetJwt' \subseteq Accounts BY <1>0, <1>9, ResetCodeSaveTo, HeldCode DEF HoldsCode
  <2>. QED BY <1>0, <1>9, <2>1, <2>2, ResetCodeSaveTo, TypeCode DEF Saved
<1>10. CASE DisableExpire(s)
  <2>0. req[s].a \in Admins BY <1>10, DisableExpireTo DEF TypeInv, RequestFits, OfAdmin
  <2>1. RequestFits(req[s])'
    BY <1>10, <2>0, DisableExpireTo DEF Onward, RequestFits, HoldsRow, OfAdmin, HoldsCode, Idle, Accounts
  <2>. QED BY <1>0, <1>10, <2>1, DisableExpireTo, TypeCode DEF history
<1>. QED BY <1>2, <1>3, <1>4, <1>6, <1>7, <1>8, <1>9, <1>10

LEMMA FlaggedRow ==
    ASSUME NEW x \in Row, NEW b \in BOOLEAN
    PROVE  [x EXCEPT !.deleted = TRUE] \in Row /\ [x EXCEPT !.twoFactor = b] \in Row
  BY DEF Row

LEMMA TypeSteps ==
    ASSUME TypeInv, NEW s \in Slots,
           \/ GenerateRefreshToken(s) \/ RevokeAllTokens(s) \/ LoginSave(s)
           \/ CheckTwoFactor(s) \/ LoadAdmin(s) \/ RowSave(s) \/ SoftRemove(s)
           \/ ConfirmFlag(s) \/ DisableFlag(s)
    PROVE  TypeInv'
<1>0. /\ req[s] \in Request /\ RequestFits(req[s])
      /\ account \in [Accounts -> Row] /\ token \in [Tokens -> RefreshToken]
      /\ \A t \in Tokens : Active(t) => token[t].owner \in Accounts
  BY DEF TypeInv, TablesTyped
<1>1. req[s].pc # "idle" => req[s].a \in Accounts BY <1>0 DEF RequestFits, Idle
<1>2. CASE GenerateRefreshToken(s)
  <2>1. RequestFits(req[s])' BY <1>2, GenerateRefreshTokenTo, IdleFitsNext
  <2>2. req[s].a \in Accounts /\ req[s].row \in Row
    BY <1>0, <1>1, <1>2, GenerateRefreshTokenTo DEF RequestFits, HoldsRow
  <2>3. PICK t \in Unused :
          token' = [token EXCEPT ![t] = [owner |-> req[s].a, state |-> "active",
                                         password |-> req[s].row.password, exchanges |-> 0]]
    BY <1>2, GenerateRefreshTokenTo
  <2> DEFINE a == req[s].a
             p == req[s].row.password
             x == [owner |-> a, state |-> "active", password |-> p, exchanges |-> 0]
  <2>4. p \in Passwords BY <2>2 DEF Row
  <2>. HIDE DEF a, p
  <2>5. x \in RefreshToken /\ x.owner = a BY <2>2, <2>4, Bounds DEF RefreshToken, a
  <2>. HIDE DEF x
  <2>6. t \in Tokens /\ token' = [token EXCEPT ![t] = x] BY <2>3 DEF Unused, x, a, p
  <2>7. /\ token' \in [Tokens -> RefreshToken]
        /\ \A u \in Tokens : token'[u].state = "active" => token'[u].owner \in Accounts
    BY <1>0, <2>2, <2>5, <2>6 DEF Active, a
  <2>. QED BY <1>2, <2>1, <2>7, GenerateRefreshTokenTo, TypeToken DEF Active
<1>3. CASE RevokeAllTokens(s)
  <2>1. RequestFits(req[s])'
    <3>1. CASE req'[s] = Idle BY <3>1 DEF RequestFits, HoldsRow, OfAdmin, HoldsCode, Idle
    <3>2. CASE req'[s] # Idle
      BY <1>0, <1>1, <1>3, <3>2, RevokeAllTokensTo DEF RequestFits, HoldsRow, OfAdmin, HoldsCode
    <3>. QED BY <3>1, <3>2
  <2>2. \A t \in Tokens : token'[t] = Revoked(t) \/ token'[t] = token[t]
    BY <1>3, RevokeAllTokensTo
  <2>3. \A t \in Tokens : token'[t] \in RefreshToken
                          /\ (token'[t].state = "active" => token'[t].owner \in Accounts)
    BY <1>0, <2>2, RevokedTyped DEF Active
  <2>4. token' \in [Tokens -> RefreshToken] BY <1>3, <2>3, RevokeAllTokensTo
  <2>. QED BY <1>3, <2>1, <2>3, <2>4, RevokeAllTokensTo, TypeToken DEF Active
<1>4. CASE LoginSave(s)
  <2>1. req[s].a \in Accounts /\ req[s].row \in Row /\ req[s].then = "issue"
    BY <1>0, <1>1, <1>4, LoginSaveTo DEF RequestFits, HoldsRow
  <2>2. RequestFits(req[s])'
    BY <1>4, <2>1, LoginSaveTo DEF Serves, RequestFits, HoldsRow, OfAdmin, HoldsCode, Idle
  <2>3. account' \in [Accounts -> Row] BY <1>0, <1>4, <2>1, LoginSaveTo
  <2>. QED BY <1>4, <2>2, <2>3, LoginSaveTo, TypeAccount
<1>5. CASE CheckTwoFactor(s)
  <2>1. req[s].a \in Admins /\ req[s].a \in Accounts /\ req[s].row \in Row /\ req[s].then = "issue"
    BY <1>0, <1>1, <1>5, CheckTwoFactorTo DEF RequestFits, HoldsRow, OfAdmin
  <2>2. RequestFits(req[s])'
    <3>1. CASE req'[s] = Idle BY <3>1, IdleFitsNext
    <3>2. CASE req'[s] # Idle
      BY <1>5, <2>1, <3>2, CheckTwoFactorTo
      DEF Serves, RequestFits, HoldsRow, OfAdmin, HoldsCode
    <3>. QED BY <3>1, <3>2
  <2>. QED BY <1>5, <2>2, CheckTwoFactorTo, TypeQuiet
<1>6. CASE LoadAdmin(s)
  <2>1. req[s].a \in Accounts /\ account[req[s].a] \in Row BY <1>0, <1>1, <1>6, LoadAdminTo
  <2>2. RequestFits(req[s])'
    <3>1. CASE req'[s] = Idle BY <3>1, IdleFitsNext
    <3>2. CASE req'[s] # Idle
      BY <1>6, <2>1, <3>2, LoadAdminTo
      DEF Serves, RequestFits, HoldsRow, OfAdmin, HoldsCode
    <3>. QED BY <3>1, <3>2
  <2>. QED BY <1>6, <2>2, LoadAdminTo, TypeQuiet
<1>7. CASE RowSave(s)
  <2>1. req[s].a \in Accounts /\ req[s].row \in Row
    BY <1>0, <1>1, <1>7, RowSaveTo DEF RequestFits, HoldsRow
  <2>2. RequestFits(req[s])'
    <3>1. CASE req'[s] = Idle BY <3>1, IdleFitsNext
    <3>2. CASE req'[s] # Idle
      BY <1>7, <2>1, <3>2, RowSaveTo
      DEF RequestFits, HoldsRow, OfAdmin, HoldsCode
    <3>. QED BY <3>1, <3>2
  <2>3. account' \in [Accounts -> Row] BY <1>0, <1>7, <2>1, RowSaveTo
  <2>4. token' = token \/ token' = Unanswerable(req[s].a) BY <1>7, RowSaveTo
  <2>. QED BY <1>7, <2>1, <2>2, <2>3, <2>4, RowSaveTo, TypeAccount
<1>8. CASE SoftRemove(s) \/ ConfirmFlag(s) \/ DisableFlag(s)
  <2>1. req'[s] = Idle /\ Going(s) /\ UNCHANGED <<token, otps, resetJwt, history>>
    BY <1>8, SoftRemoveTo, FlagTo
  <2>2. RequestFits(req[s])' BY <2>1 DEF RequestFits, HoldsRow, OfAdmin, HoldsCode, Idle
  <2>3. req[s].a \in Accounts BY <1>1, <1>8, SoftRemoveTo, FlagTo
  <2>4. \E row \in Row : account' = [account EXCEPT ![req[s].a] = row]
    <3> DEFINE x == account[req[s].a]
    <3>1. \/ account' = [account EXCEPT ![req[s].a] = [x EXCEPT !.deleted = TRUE]]
          \/ account' = [account EXCEPT ![req[s].a] = [x EXCEPT !.twoFactor = TRUE]]
          \/ account' = [account EXCEPT ![req[s].a] = [x EXCEPT !.twoFactor = FALSE]]
      BY <1>8, SoftRemoveTo, FlagTo
    <3>2. x \in Row BY <1>0, <2>3
    <3>. HIDE DEF x
    <3>. QED BY <3>1, <3>2, FlaggedRow
  <2>5. account' \in [Accounts -> Row] BY <1>0, <2>3, <2>4
  <2>. QED BY <2>1, <2>2, <2>5, TypeAccount
<1>. QED BY <1>2, <1>3, <1>4, <1>5, <1>6, <1>7, <1>8

LEMMA TypeFails ==
    ASSUME TypeInv, NEW s \in Slots, RequestFails(s)
    PROVE  TypeInv'
<1>1. RequestFits(req[s])' BY RequestFailsTo, IdleFitsNext
<1>2. fails' \in 0..MaxFails
  <2>1. fails' = fails + 1 /\ fails < MaxFails BY RequestFailsTo
  <2>. QED BY <2>1, Bounds DEF TypeInv, TablesTyped
<1>3. UNCHANGED <<tables, history, calm>> BY RequestFailsTo
<1>4. TablesTyped' BY <1>2, <1>3 DEF TypeInv, TablesTyped, tables, history, Active
<1>. QED BY <1>1, <1>4, RequestFailsTo, TypeMoves DEF tables

\* The steps of a request that is served already.
Serving(s) == TokenStep(s) \/ SignInStep(s) \/ TwoFactorStep(s) \/ ResetCodeSave(s)

\* A new request.
Asking(s) == SignInRequest(s) \/ TwoFactorRequest(s) \/ ResetRequest(s)

\* Steps that no request takes: time passes for tokens and codes, a token is exchanged.
Elsewhere ==
    \/ \E t \in Tokens : RefreshAccessToken(t)
    \/ TokenExpires \/ OtpLapses \/ ResetJwtExpires

LEMMA TypeOthers ==
    ASSUME TypeInv, Elsewhere
    PROVE  TypeInv'
<1>1. ASSUME TokenExpires \/ \E t \in Tokens : RefreshAccessToken(t)
      PROVE  TypeInv'
  <2>1. /\ token' \in [Tokens -> RefreshToken]
        /\ \A t \in Tokens : /\ token'[t].owner = token[t].owner
                             /\ token'[t].state = "active" => token[t].state = "active"
    BY <1>1, TokenExpiresTo, RefreshAccessTokenTo
  <2>2. UNCHANGED <<account, otps, resetJwt, history, control>>
    BY <1>1 DEF TokenExpires, RefreshAccessToken
  <2>3. TablesTyped' BY <2>1, <2>2 DEF TypeInv, TablesTyped, Active, history, control
  <2>. QED BY <2>2, <2>3, TypeElsewhere DEF control
<1>2. CASE OtpLapses
  <2>1. UNCHANGED <<account, token, resetJwt, history, control>> BY <1>2 DEF OtpLapses
  <2>2. TablesTyped'
    BY <1>2, <2>1, OtpLapsesTo DEF TypeInv, TablesTyped, Active, history, control
  <2>. QED BY <1>2, <2>1, <2>2, OtpLapsesTo, TypeElsewhere DEF control
<1>3. CASE ResetJwtExpires
  <2>1. UNCHANGED <<account, token, otps, history, control>> /\ resetJwt' \subseteq resetJwt
    BY <1>3 DEF ResetJwtExpires
  <2>2. TablesTyped' BY <2>1 DEF TypeInv, TablesTyped, Active, history, control
  <2>. QED BY <2>1, <2>2, TypeElsewhere DEF control
<1>. QED BY <1>1, <1>2, <1>3 DEF Elsewhere

LEMMA NextCases ==
    ASSUME Next
    PROVE  \/ \E s \in Slots : Asking(s) \/ Serving(s) \/ RequestFails(s)
           \/ Elsewhere
  BY DEF Next, Arrives, Step, Elsewhere, Asking, Serving

LEMMA TypeKept == TypeInv /\ [Next]_vars => TypeInv'
<1>. SUFFICES ASSUME TypeInv, [Next]_vars PROVE TypeInv'
  OBVIOUS
<1>1. ASSUME NEW s \in Slots, Asking(s) PROVE TypeInv'
  BY <1>1, TypeStarts, TypeCodes DEF Asking, TwoFactorRequest, ResetRequest
<1>2. ASSUME NEW s \in Slots, Serving(s) PROVE TypeInv'
  BY <1>2, TypeSteps, TypeCodes DEF Serving, TokenStep, SignInStep, TwoFactorStep
<1>3. CASE UNCHANGED vars
  BY <1>3 DEF vars, tables, history, control, TypeInv, TablesTyped, RequestFits, Active
<1>. QED BY <1>1, <1>2, <1>3, NextCases, TypeFails, TypeOthers

LEMMA TypeAtInit == Init => TypeInv
<1>. SUFFICES ASSUME Init PROVE TypeInv
  OBVIOUS
<1>1. PICK p \in Passwords, gone \in SUBSET Accounts :
        account = [a \in Accounts |-> [password |-> p, banned |-> FALSE,
                                       deleted |-> a \in gone, twoFactor |-> FALSE]]
  BY DEF Init
<1>2. account \in [Accounts -> Row] BY <1>1 DEF Row
<1>3. token \in [Tokens -> RefreshToken] /\ \A t \in Tokens : token[t].state = "none"
  BY Bounds DEF Init, RefreshToken
<1>4. otps \in Seq(OtpRecord) /\ Len(otps) <= MaxOtps BY Bounds DEF Init
<1>5. /\ signedIn \in [1..MaxOtps -> Nat] /\ wrong \in [1..MaxOtps -> 0..MaxAttempts]
      /\ resetJwt \subseteq Accounts /\ refused \subseteq Admins
      /\ calm \in BOOLEAN /\ fails \in 0..MaxFails
  BY Bounds DEF Init
<1>6. req \in [Slots -> Request] /\ \A s \in Slots : req[s] = Idle
  BY IdleTyped DEF Init
<1>. QED BY <1>2, <1>3, <1>4, <1>5, <1>6, IdleFits DEF TypeInv, TablesTyped, Active

\* The tables of accounts and sessions, the histories and every suspended request keep
\* their types, however many requests overlap and wherever they die.
THEOREM AccountsTypes == Spec => []TypeOK
<1>1. Spec => []TypeInv BY TypeAtInit, TypeKept, PTL DEF Spec
<1>. QED BY <1>1, TypeOKOfInv, PTL

--------------------------------------------------------------------------------
\* As long as no two requests overlap, one slot at most is busy.
OneAtATime == calm => \A s, t \in Slots : req[s] # Idle /\ req[t] # Idle => s = t

\* No other slot is busy, before or after a step of s.
Lone(s) == calm /\ \A t \in Slots : t # s => req[t] = Idle /\ req'[t] = Idle

LEMMA LoneStep ==
    ASSUME TypeInv, OneAtATime, NEW s \in Slots, calm',
           Begun(s) \/ Going(s) \/ RequestFails(s)
    PROVE  Lone(s)
<1>1. CASE Begun(s) BY <1>1 DEF Begun, Lone, Moves
<1>2. CASE Going(s) BY <1>2 DEF Going, Lone, Moves, OneAtATime
<1>3. CASE RequestFails(s) BY <1>3, RequestFailsTo DEF Lone, Moves, OneAtATime
<1>. QED BY <1>1, <1>2, <1>3

LEMMA AskingBegins ==
    ASSUME TypeInv, NEW s \in Slots, Asking(s)
    PROVE  Begun(s)
<1>1. CASE SignInRequest(s)
  BY <1>1, UserLoginTo, AdminLoginTo, ChangePasswordTo, UpdateAccountTo, DeletionTo, LogoutTo
  DEF SignInRequest
<1>2. CASE TwoFactorRequest(s)
  BY <1>2, EnableTwoFactorTo, ConfirmTwoFactorTo, DisableTwoFactorTo, ValidateLoginCodeTo
  DEF TwoFactorRequest, Tried
<1>3. CASE ResetRequest(s)
  BY <1>3, SendResetCodeTo, VerifyResetCodeTo, ResetPasswordTo, UserResetPasswordTo
  DEF ResetRequest, Tried
<1>. QED BY <1>1, <1>2, <1>3 DEF Asking

LEMMA ServingGoes ==
    ASSUME TypeInv, NEW s \in Slots, Serving(s)
    PROVE  Going(s)
<1>1. CASE TokenStep(s)
  BY <1>1, GenerateRefreshTokenTo, RevokeAllTokensTo DEF TokenStep
<1>2. CASE SignInStep(s)
  BY <1>2, LoginSaveTo, CheckTwoFactorTo, LoadAdminTo, RowSaveTo, SoftRemoveTo
  DEF SignInStep
<1>3. CASE TwoFactorStep(s)
  BY <1>3, ConfirmSaveTo, FlagTo, DisableExpireTo, SendCodeTo, CodeSaveTo
  DEF TwoFactorStep
<1>4. CASE ResetCodeSave(s)
  BY <1>4, ResetCodeSaveTo
<1>. QED BY <1>1, <1>2, <1>3, <1>4 DEF Serving

LEMMA OneAtATimeKept ==
    ASSUME TypeInv, OneAtATime, [Next]_vars
    PROVE  OneAtATime'
<1>1. ASSUME NEW s \in Slots, Begun(s) \/ Going(s) \/ RequestFails(s), calm'
      PROVE  \A t, u \in Slots : req'[t] # Idle /\ req'[u] # Idle => t = u
  BY <1>1, LoneStep DEF Lone
<1>2. CASE Elsewhere \/ UNCHANGED vars
  BY <1>2 DEF Elsewhere, RefreshAccessToken, TokenExpires, OtpLapses, ResetJwtExpires,
     control, vars, OneAtATime
<1>. QED BY <1>1, <1>2, NextCases, AskingBegins, ServingGoes DEF OneAtATime, Asking, Serving

--------------------------------------------------------------------------------
\* As long as no two requests overlap, what a request holds of a row is what the row is now,
\* apart from what it is about to write...
RowCurrent(r) ==
    /\ r.pc = "loginSave" => r.row = account[r.a]
    /\ r.pc = "rowSave" => r.row.twoFactor = account[r.a].twoFactor
    /\ HoldsRow(r) /\ r.pc # "rowSave" => r.row.password = account[r.a].password

\* ... and the one-time code it holds is still pending, and as it was loaded, apart from its age.
RecordCurrent(r) ==
    r.pc \in HoldsCode =>
        /\ r.record.status = "PENDING" /\ otps[r.otp].status = "PENDING"
        /\ r.record.attempts = otps[r.otp].attempts
        /\ r.record.owner = r.a /\ otps[r.otp].owner = r.a
        /\ r.record.purpose = otps[r.otp].purpose
        /\ r.record.purpose = IF r.pc = "resetCodeSave" THEN "RESET_PASSWORD" ELSE "TWO_FACTOR"

Held(r) == RowCurrent(r) /\ RecordCurrent(r)

HeldInv == calm => \A s \in Slots : Held(req[s])

LEMMA IdleHeldNext ==
    ASSUME NEW s \in Slots, req'[s] = Idle
    PROVE  Held(req[s])'
  BY DEF Held, RowCurrent, RecordCurrent, HoldsRow, HoldsCode, Idle

LEMMA HeldMoves ==
    ASSUME TypeInv, NEW s \in Slots, Lone(s), Held(req[s])'
    PROVE  HeldInv'
<1>1. ASSUME NEW t \in Slots PROVE Held(req[t])'
  <2>1. CASE t = s BY <2>1
  <2>2. CASE t # s BY <2>2, IdleHeldNext DEF Lone
  <2>. QED BY <2>1, <2>2
<1>. QED BY <1>1 DEF HeldInv

LEMMA HeldStarts ==
    ASSUME TypeInv, NEW s \in Slots, Asking(s)
    PROVE  Held(req[s])'
<1> USE DEF Serves, Held, RowCurrent, RecordCurrent, HoldsRow, HoldsCode, RowLoaded, tables
<1>1. CASE UserLogin(s) BY <1>1, UserLoginTo
<1>2. CASE AdminLogin(s) BY <1>2, AdminLoginTo
<1>3. CASE ChangePassword(s) BY <1>3, ChangePasswordTo
<1>4. CASE UpdateAccount(s) BY <1>4, UpdateAccountTo
<1>5. CASE ResetPassword(s) BY <1>5, ResetPasswordTo
<1>6. CASE UserResetPassword(s) BY <1>6, UserResetPasswordTo
<1>7. CASE DeleteProfile(s) \/ RemoveAccount(s) BY <1>7, DeletionTo
<1>8. CASE DisableTwoFactor(s) BY <1>8, DisableTwoFactorTo
<1>9. CASE Logout(s)
  <2>1. PICK a \in Accounts : req'[s] = Idle \/ Serves(req'[s], "revoke", a, None, "idle")
    BY <1>9, LogoutTo
  <2>. QED BY <2>1, IdleHeldNext
<1>10. CASE EnableTwoFactor(s) \/ SendResetCode(s)
  BY <1>10, EnableTwoFactorTo, SendResetCodeTo, IdleHeldNext
<1>11. CASE ConfirmTwoFactor(s) BY <1>11, ConfirmTwoFactorTo DEF Tried
<1>12. CASE ValidateLoginCode(s) BY <1>12, ValidateLoginCodeTo DEF Tried
<1>13. CASE VerifyResetCode(s) BY <1>13, VerifyResetCodeTo DEF Tried
<1>. QED BY <1>1, <1>2, <1>3, <1>4, <1>5, <1>6, <1>7, <1>8, <1>9, <1>10, <1>11, <1>12, <1>13
     DEF Asking, SignInRequest, TwoFactorRequest, ResetRequest

LEMMA HeldSteps ==
    ASSUME TypeInv, NEW s \in Slots, Held(req[s]), Serving(s)
    PROVE  Held(req[s])'
<1>0. account \in [Accounts -> Row] /\ RequestFits(req[s]) BY DEF TypeInv, TablesTyped
<1>1. CASE req'[s] = Idle BY <1>1, IdleHeldNext
<1>2. CASE RevokeAllTokens(s) /\ req'[s] # Idle
  BY <1>2, RevokeAllTokensTo DEF Held, RowCurrent, RecordCurrent, HoldsRow, HoldsCode
<1>3. CASE LoginSave(s)
  <2>1. req[s].a \in Accounts BY <1>0, <1>3, LoginSaveTo DEF RequestFits, Idle
  <2>2. account'[req[s].a] = req[s].row BY <1>0, <1>3, <2>1, LoginSaveTo
  <2>. QED BY <1>3, <2>2, LoginSaveTo
       DEF Serves, Held, RowCurrent, RecordCurrent, HoldsRow, HoldsCode
<1>4. CASE CheckTwoFactor(s) /\ req'[s] # Idle
  <2>1. req[s].then = "issue" BY <1>0, <1>4, CheckTwoFactorTo DEF RequestFits
  <2>. QED BY <1>4, <2>1, CheckTwoFactorTo
       DEF Serves, Held, RowCurrent, RecordCurrent, HoldsRow, HoldsCode, tables
<1>5. CASE LoadAdmin(s) /\ req'[s] # Idle
  BY <1>5, LoadAdminTo DEF Serves, Held, RowCurrent, RecordCurrent, HoldsRow, HoldsCode, tables
<1>6. CASE RowSave(s) /\ req'[s] # Idle
  BY <1>6, RowSaveTo DEF Held, RowCurrent, RecordCurrent, HoldsRow, HoldsCode
<1>7. CASE (ConfirmSave(s) \/ CodeSave(s) \/ DisableExpire(s)) /\ req'[s] # Idle
  <2>1. req'[s].pc \in {"confirmFlag", "admin", "disableFlag"}
    BY <1>7, ConfirmSaveTo, CodeSaveTo, DisableExpireTo DEF Onward
  <2>. QED BY <2>1 DEF Held, RowCurrent, RecordCurrent, HoldsRow, HoldsCode
<1>8. CASE GenerateRefreshToken(s) \/ SoftRemove(s) \/ ConfirmFlag(s) \/ DisableFlag(s)
           \/ SendCode(s) \/ ResetCodeSave(s)
  BY <1>1, <1>8, GenerateRefreshTokenTo, SoftRemoveTo, FlagTo, SendCodeTo, ResetCodeSaveTo
<1>. QED BY <1>1, <1>2, <1>3, <1>4, <1>5, <1>6, <1>7, <1>8
     DEF Serving, TokenStep, SignInStep, TwoFactorStep

LEMMA ElsewhereTo ==
    ASSUME TypeInv, Elsewhere
    PROVE  /\ UNCHANGED <<account, history, control>>
           /\ DOMAIN otps' = DOMAIN otps
           /\ \A i \in DOMAIN otps :
                /\ otps'[i].owner = otps[i].owner /\ otps'[i].purpose = otps[i].purpose
                /\ otps'[i].status = otps[i].status /\ otps'[i].attempts = otps[i].attempts
           /\ \A t \in Tokens :
                /\ token'[t].owner = token[t].owner
                /\ token'[t].state = "active" =>
                     token[t].state = "active" /\ token'[t].password = token[t].password
<1>1. CASE TokenExpires BY <1>1, TokenExpiresTo DEF TokenExpires
<1>2. ASSUME NEW t \in Tokens, RefreshAccessToken(t)
      PROVE  /\ UNCHANGED <<account, otps, history, control>>
             /\ \A u \in Tokens :
                /\ token'[u].owner = token[u].owner
                /\ token'[u].state = "active" =>
                     token[u].state = "active" /\ token'[u].password = token[u].password
  BY <1>2, RefreshAccessTokenTo DEF RefreshAccessToken
<1>3. CASE OtpLapses BY <1>3, OtpLapsesTo DEF OtpLapses
<1>4. CASE ResetJwtExpires BY <1>4 DEF ResetJwtExpires
<1>. QED BY <1>1, <1>2, <1>3, <1>4 DEF Elsewhere

LEMMA HeldElsewhere ==
    ASSUME TypeInv, HeldInv, Elsewhere
    PROVE  HeldInv'
<1>1. ASSUME NEW s \in Slots, Held(req[s]) PROVE Held(req[s])'
  <2>1. RequestFits(req[s]) BY DEF TypeInv
  <2>2. req' = req /\ account' = account BY ElsewhereTo DEF control
  <2>3. RowCurrent(req[s])' BY <1>1, <2>2 DEF Held, RowCurrent, HoldsRow
  <2>4. RecordCurrent(req[s])'
    BY <1>1, <2>1, <2>2, ElsewhereTo DEF Held, RecordCurrent, RequestFits
  <2>. QED BY <2>3, <2>4 DEF Held
<1>. QED BY <1>1, ElsewhereTo DEF HeldInv, control

LEMMA HeldKept ==
    ASSUME TypeInv, OneAtATime, HeldInv, [Next]_vars
    PROVE  HeldInv'
<1>1. ASSUME NEW s \in Slots, RequestFails(s), calm' PROVE HeldInv'
  BY <1>1, RequestFailsTo, IdleHeldNext, LoneStep, HeldMoves
<1>2. ASSUME NEW s \in Slots, calm', Asking(s)
      PROVE  HeldInv'
  BY <1>2, AskingBegins, LoneStep, HeldMoves, HeldStarts
<1>3. ASSUME NEW s \in Slots, calm', Serving(s)
      PROVE  HeldInv'
  <2>1. Lone(s) BY <1>3, ServingGoes, LoneStep
  <2>2. Held(req[s]) BY <2>1 DEF Lone, HeldInv
  <2>. QED BY <1>3, <2>1, <2>2, HeldMoves, HeldSteps
<1>4. CASE UNCHANGED vars
  BY <1>4 DEF vars, tables, control, HeldInv, Held, RowCurrent, RecordCurrent
<1>5. CASE ~calm' BY <1>5 DEF HeldInv
<1>. QED BY <1>1, <1>2, <1>3, <1>4, <1>5, HeldElsewhere, NextCases

--------------------------------------------------------------------------------
\* What the steps of requests leave of accounts and sessions.

LEMMA AccountStays ==
    ASSUME TypeInv, NEW s \in Slots, Serving(s) => Held(req[s]), Serving(s) \/ Asking(s)
    PROVE  /\ ~RowSave(s) =>
                \A a \in Accounts : account'[a].password = account[a].password
           /\ ~(ConfirmFlag(s) \/ DisableFlag(s)) =>
                \A a \in Accounts : account'[a].twoFactor = account[a].twoFactor
<1>0. /\ account \in [Accounts -> Row]
      /\ req[s].pc # "idle" => req[s].a \in Accounts
  BY DEF TypeInv, TablesTyped, RequestFits, Idle
<1> DEFINE a == req[s].a
           x == account[a]
<1>1. CASE Asking(s)
  <2>1. UNCHANGED account
    BY <1>1 DEF Asking, SignInRequest, TwoFactorRequest, ResetRequest, UserLogin, AdminLogin,
       ChangePassword, UpdateAccount, DeleteProfile, RemoveAccount, Logout, EnableTwoFactor,
       ConfirmTwoFactor, DisableTwoFactor, ValidateLoginCode, SendResetCode, VerifyResetCode,
       ResetPassword, UserResetPassword, tables
  <2>. QED BY <2>1
<1>2. CASE LoginSave(s)
  <2>1. a \in Accounts /\ account' = [account EXCEPT ![a] = req[s].row] /\ req[s].row = x
    BY <1>0, <1>2, LoginSaveTo DEF Held, RowCurrent, Serving, SignInStep
  <2>2. account' = account BY <1>0, <2>1
  <2>. QED BY <2>2
<1>3. CASE RowSave(s)
  <2>1. a \in Accounts /\ account' = [account EXCEPT ![a] = req[s].row]
        /\ req[s].row.twoFactor = x.twoFactor
    BY <1>0, <1>3, RowSaveTo DEF Held, RowCurrent, Serving, SignInStep
  <2>. QED BY <1>0, <1>3, <2>1
<1>4. CASE SoftRemove(s)
  <2> DEFINE y == [x EXCEPT !.deleted = TRUE]
  <2>1. a \in Accounts /\ account' = [account EXCEPT ![a] = y]
    BY <1>0, <1>4, SoftRemoveTo
  <2>2. x \in Row BY <1>0, <2>1
  <2>. HIDE DEF x
  <2>3. y.password = x.password /\ y.twoFactor = x.twoFactor BY <2>2 DEF Row
  <2>. HIDE DEF y
  <2>. QED BY <1>0, <2>1, <2>3 DEF x
<1>5. CASE ConfirmFlag(s) \/ DisableFlag(s)
  <2>1. PICK b \in BOOLEAN : account' = [account EXCEPT ![a] = [x EXCEPT !.twoFactor = b]]
    BY <1>5, FlagTo
  <2>2. a \in Accounts BY <1>0, <1>5, FlagTo
  <2> DEFINE y == [x EXCEPT !.twoFactor = b]
  <2>3. x \in Row BY <1>0, <2>2
  <2>. HIDE DEF x
  <2>4. y.password = x.password BY <2>3 DEF Row
  <2>5. account' = [account EXCEPT ![a] = y] BY <2>1
  <2>. HIDE DEF y
  <2>. QED BY <1>0, <1>5, <2>2, <2>4, <2>5 DEF x
<1>6. CASE GenerateRefreshToken(s) \/ RevokeAllTokens(s) \/ CheckTwoFactor(s) \/ LoadAdmin(s)
           \/ ConfirmSave(s) \/ DisableExpire(s) \/ SendCode(s) \/ CodeSave(s)
           \/ ResetCodeSave(s)
  BY <1>6 DEF GenerateRefreshToken, RevokeAllTokens, CheckTwoFactor, LoadAdmin, ConfirmSave,
     DisableExpire, SendCode, CodeSave, ResetCodeSave, tables
<1>. QED BY <1>1, <1>2, <1>3, <1>4, <1>5, <1>6
     DEF Serving, TokenStep, SignInStep, TwoFactorStep

\* A login apart, sessions only end, and none answers for another password than before.
Fewer ==
    \A t \in Tokens :
        /\ token'[t].owner = token[t].owner
        /\ token'[t].state = "active" => /\ token[t].state = "active"
                                         /\ token'[t].password \in {None, token[t].password}

LEMMA UnanswerableTo ==
    ASSUME TypeInv, NEW a, NEW t \in Tokens
    PROVE  LET x == token[t]
               y == Unanswerable(a)[t]
           IN  /\ y.owner = x.owner /\ y.state = x.state
               /\ x.owner = a => y.password = None
               /\ x.owner # a => y = x
<1>1. token[t] \in RefreshToken BY DEF TypeInv, TablesTyped
<1>2. Unanswerable(a)[t] = IF token[t].owner = a THEN [token[t] EXCEPT !.password = None]
                           ELSE token[t]
  BY DEF Unanswerable
<1>. QED BY <1>1, <1>2 DEF RefreshToken

LEMMA TokensStay ==
    ASSUME TypeInv, NEW s \in Slots, Serving(s) \/ Asking(s), ~GenerateRefreshToken(s)
    PROVE  Fewer
<1>1. CASE Logout(s)
  <2>1. token \in [Tokens -> RefreshToken] BY DEF TypeInv, TablesTyped
  <2>2. CASE UNCHANGED token BY <2>2 DEF Fewer
  <2>3. ASSUME NEW t \in Tokens, token' = [token EXCEPT ![t] = Revoked(t)] PROVE Fewer
    BY <2>1, <2>3, RevokedTyped DEF Fewer
  <2>. QED BY <1>1, <2>2, <2>3, LogoutTo
<1>2. CASE RevokeAllTokens(s)
  BY <1>2, RevokeAllTokensTo, RevokedTyped DEF Fewer
<1>3. CASE RowSave(s)
  <2>1. token' = token \/ token' = Unanswerable(req[s].a) BY <1>3, RowSaveTo
  <2>2. ASSUME token' = Unanswerable(req[s].a) PROVE Fewer
    <3>1. ASSUME NEW t \in Tokens
          PROVE  /\ token'[t].owner = token[t].owner
                 /\ token'[t].state = "active" =>
                      token[t].state = "active" /\ token'[t].password \in {None, token[t].password}
      BY <2>2, UnanswerableTo
    <3>. QED BY <3>1 DEF Fewer
  <2>. QED BY <2>1, <2>2 DEF Fewer
<1>4. CASE UNCHANGED token BY <1>4 DEF Fewer
<1>5. Asking(s) /\ ~Logout(s) => UNCHANGED token
  BY DEF Asking, SignInRequest, TwoFactorRequest, ResetRequest, UserLogin, AdminLogin,
     ChangePassword, UpdateAccount, DeleteProfile, RemoveAccount, EnableTwoFactor,
     ConfirmTwoFactor, DisableTwoFactor, ValidateLoginCode, SendResetCode, VerifyResetCode,
     ResetPassword, UserResetPassword, tables
<1>6. Serving(s) /\ ~RevokeAllTokens(s) /\ ~RowSave(s) => UNCHANGED token
  BY DEF Serving, TokenStep, SignInStep, TwoFactorStep, LoginSave, CheckTwoFactor, LoadAdmin,
     SoftRemove, ConfirmSave, ConfirmFlag, DisableExpire, DisableFlag, SendCode, CodeSave,
     ResetCodeSave, tables
<1>. QED BY <1>1, <1>2, <1>3, <1>4, <1>5, <1>6

\* A request is about to issue a token only when it has ended the sessions, and it ends them
\* only where it says so.
LEMMA IssueAfterRevoke ==
    ASSUME TypeInv, NEW s \in Slots, Serving(s) \/ Asking(s), ~RevokeAllTokens(s)
    PROVE  req[s].pc # "revoke" /\ req'[s].pc # "issue"
<1>1. CASE Asking(s)
  <2>1. req[s].pc # "revoke" BY <1>1, AskingBegins DEF Begun, Idle
  <2>2. req'[s].pc # "issue"
    <3> USE DEF Serves, RowLoaded, Tried, Idle
    <3>1. CASE SignInRequest(s)
      BY <3>1, UserLoginTo, AdminLoginTo, ChangePasswordTo, UpdateAccountTo, DeletionTo, LogoutTo
      DEF SignInRequest
    <3>2. CASE TwoFactorRequest(s)
      BY <3>2, EnableTwoFactorTo, ConfirmTwoFactorTo, DisableTwoFactorTo, ValidateLoginCodeTo
      DEF TwoFactorRequest
    <3>3. CASE ResetRequest(s)
      BY <3>3, SendResetCodeTo, VerifyResetCodeTo, ResetPasswordTo, UserResetPasswordTo
      DEF ResetRequest
    <3>. QED BY <1>1, <3>1, <3>2, <3>3 DEF Asking
  <2>. QED BY <2>1, <2>2
<1>2. CASE GenerateRefreshToken(s)
  BY <1>2, GenerateRefreshTokenTo DEF Idle
<1>3. CASE SignInStep(s)
  <2>1. CASE LoginSave(s) BY <2>1, LoginSaveTo DEF Serves
  <2>2. CASE CheckTwoFactor(s) BY <2>2, CheckTwoFactorTo DEF Serves, Idle
  <2>3. CASE LoadAdmin(s) BY <2>3, LoadAdminTo DEF Serves, Idle
  <2>4. CASE RowSave(s) BY <2>4, RowSaveTo DEF Idle
  <2>5. CASE SoftRemove(s)
    <3>1. req[s].pc = "softRemove" /\ req'[s] = Idle BY <2>5, SoftRemoveTo
    <3>. QED BY <3>1 DEF Idle
  <2>. QED BY <1>3, <2>1, <2>2, <2>3, <2>4, <2>5 DEF SignInStep
<1>4. CASE TwoFactorStep(s)
  <2>1. CASE ConfirmSave(s) BY <2>1, ConfirmSaveTo DEF Onward, Idle
  <2>2. CASE ConfirmFlag(s) \/ DisableFlag(s)
    <3>1. req[s].pc \in {"confirmFlag", "disableFlag"} /\ req'[s] = Idle BY <2>2, FlagTo
    <3>. QED BY <3>1 DEF Idle
  <2>3. CASE DisableExpire(s) BY <2>3, DisableExpireTo DEF Onward
  <2>4. CASE SendCode(s) BY <2>4, SendCodeTo DEF Idle
  <2>5. CASE CodeSave(s) BY <2>5, CodeSaveTo DEF Onward, Idle
  <2>. QED BY <1>4, <2>1, <2>2, <2>3, <2>4, <2>5 DEF TwoFactorStep
<1>5. CASE ResetCodeSave(s)
  BY <1>5, ResetCodeSaveTo DEF Idle
<1>. QED BY <1>1, <1>2, <1>3, <1>4, <1>5 DEF Serving, TokenStep

--------------------------------------------------------------------------------
\* As long as no two requests overlap: no account has two open sessions, and none when one is
\* about to be opened.
SessionInv ==
    calm =>
        /\ \A t, u \in Tokens :
              Active(t) /\ Active(u) /\ token[t].owner = token[u].owner => t = u
        /\ \A s \in Slots, t \in Tokens :
              req[s].pc = "issue" /\ Active(t) => token[t].owner # req[s].a

\* If moreover no request has died, a session answers for the password its account has, or it
\* is about to be ended.
PasswordInv ==
    calm /\ fails = 0 =>
        \A t \in Tokens :
            Active(t) =>
                \/ token[t].password \in {None, account[token[t].owner].password}
                \/ \E s \in Slots : req[s].pc = "revoke" /\ req[s].a = token[t].owner

LEMMA FewerSessions ==
    ASSUME TypeInv, SessionInv, Fewer, calm' => calm,
           \A s \in Slots : req'[s] = req[s] \/ req'[s].pc # "issue"
    PROVE  SessionInv'
  BY DEF SessionInv, Fewer, Active

LEMMA ElsewhereFewer ==
    ASSUME TypeInv, Elsewhere
    PROVE  Fewer /\ UNCHANGED req
  BY ElsewhereTo DEF Fewer, control

\* The token that a login issues.
LEMMA Issued ==
    ASSUME TypeInv, NEW s \in Slots, GenerateRefreshToken(s)
    PROVE  \E t \in Tokens :
             /\ token'[t].owner = req[s].a /\ token'[t].state = "active"
             /\ token'[t].password = req[s].row.password
             /\ \A u \in Tokens : u # t => token'[u] = token[u]
<1>1. PICK t \in Unused :
        token' = [token EXCEPT ![t] = [owner |-> req[s].a, state |-> "active",
                                       password |-> req[s].row.password, exchanges |-> 0]]
  BY GenerateRefreshTokenTo
<1>2. t \in Tokens BY DEF Unused
<1>3. token \in [Tokens -> RefreshToken] BY DEF TypeInv, TablesTyped
<1>. QED BY <1>1, <1>2, <1>3

LEMMA SessionKept ==
    ASSUME TypeInv, OneAtATime, SessionInv, [Next]_vars
    PROVE  SessionInv'
<1>1. ASSUME NEW s \in Slots, calm', Asking(s) \/ Serving(s), ~RevokeAllTokens(s),
             ~GenerateRefreshToken(s)
      PROVE  SessionInv'
  <2>1. Lone(s) BY <1>1, AskingBegins, ServingGoes, LoneStep
  <2>2. \A t \in Slots : req'[t] = req[t] \/ req'[t].pc # "issue"
    BY <1>1, <2>1, IssueAfterRevoke DEF Lone
  <2>. QED BY <1>1, <2>1, <2>2, TokensStay, FewerSessions DEF Lone
<1>2. ASSUME NEW s \in Slots, calm', RevokeAllTokens(s)
      PROVE  SessionInv'
  <2>1. Lone(s) BY <1>2, RevokeAllTokensTo, LoneStep
  <2>2. \A t \in Tokens : /\ token[t].owner = req[s].a => token'[t].state = "revoked"
                          /\ token[t].owner # req[s].a => token'[t] = token[t]
                          /\ token'[t].owner = token[t].owner
    BY <1>2, RevokeAllTokensTo, RevokedTyped
  <2>3. \A t \in Slots : req'[t].pc = "issue" => t = s /\ req'[t].a = req[s].a
    BY <1>2, <2>1, RevokeAllTokensTo DEF Lone, Idle
  <2>. QED BY <2>1, <2>2, <2>3 DEF SessionInv, Active, Lone
<1>3. ASSUME NEW s \in Slots, calm', GenerateRefreshToken(s)
      PROVE  SessionInv'
  <2>1. Lone(s) BY <1>3, GenerateRefreshTokenTo, LoneStep
  <2>2. \A t \in Slots : req'[t].pc # "issue"
    BY <1>3, <2>1, GenerateRefreshTokenTo DEF Lone, Idle
  <2>3. \A t \in Tokens : Active(t) => token[t].owner # req[s].a
    BY <1>3, <2>1, GenerateRefreshTokenTo DEF SessionInv, Lone
  <2>4. PICK t \in Tokens :
          /\ token'[t].owner = req[s].a /\ token'[t].state = "active"
          /\ \A u \in Tokens : u # t => token'[u] = token[u]
    BY <1>3, Issued
  <2>. QED BY <2>1, <2>2, <2>3, <2>4 DEF SessionInv, Active, Lone
<1>4. ASSUME NEW s \in Slots, RequestFails(s) PROVE SessionInv'
  <2>1. Fewer /\ calm' = calm /\ \A t \in Slots : req'[t] = req[t] \/ req'[t].pc # "issue"
    BY <1>4, RequestFailsTo DEF Fewer, tables, Moves, Idle
  <2>. QED BY <2>1, FewerSessions
<1>5. CASE Elsewhere
  BY <1>5, ElsewhereFewer, ElsewhereTo, FewerSessions DEF control
<1>6. CASE UNCHANGED vars
  BY <1>6 DEF vars, tables, control, SessionInv, Active
<1>7. CASE ~calm' BY <1>7 DEF SessionInv
<1>. QED BY <1>1, <1>2, <1>3, <1>4, <1>5, <1>6, <1>7, NextCases

LEMMA PasswordKept ==
    ASSUME TypeInv, OneAtATime, HeldInv, PasswordInv, [Next]_vars
    PROVE  PasswordInv'
<1>. SUFFICES ASSUME calm', fails' = 0 PROVE PasswordInv'
  BY DEF PasswordInv
<1>0. fails \in Nat /\ \A t \in Tokens : Active(t) => token[t].owner \in Accounts
  BY Bounds DEF TypeInv, TablesTyped
<1>1. ASSUME NEW s \in Slots, Asking(s) \/ Serving(s), ~RevokeAllTokens(s)
      PROVE  PasswordInv'
  <2>1. Lone(s) /\ fails = 0
    BY <1>1, AskingBegins, ServingGoes, LoneStep DEF Begun, Going
  <2>2. \A u \in Slots : req[u].pc # "revoke"
    BY <1>1, <2>1, IssueAfterRevoke DEF Lone, Idle
  <2>3. \A t \in Tokens : Active(t) => token[t].password \in {None, account[token[t].owner].password}
    BY <2>1, <2>2 DEF PasswordInv, Lone
  <2>4. Held(req[s]) BY <2>1 DEF HeldInv, Lone
  <2>5. CASE GenerateRefreshToken(s)
    <3>1. PICK t \in Tokens :
            /\ token'[t].owner = req[s].a /\ token'[t].state = "active"
            /\ token'[t].password = req[s].row.password
            /\ \A u \in Tokens : u # t => token'[u] = token[u]
      BY <2>5, Issued
    <3>2. account' = account /\ req[s].row.password = account[req[s].a].password
      BY <2>4, <2>5, GenerateRefreshTokenTo DEF Held, RowCurrent, HoldsRow
    <3>. QED BY <2>3, <3>1, <3>2 DEF PasswordInv, Active
  <2>6. CASE RowSave(s)
    <3>1. account \in [Accounts -> Row] BY DEF TypeInv, TablesTyped
    <3>2. account' = [account EXCEPT ![req[s].a] = req[s].row] BY <2>6, RowSaveTo
    <3>3. \A b \in Accounts : b # req[s].a => account'[b] = account[b] BY <3>1, <3>2
    <3>4. ASSUME NEW t \in Tokens, token'[t].state = "active"
          PROVE  \/ token'[t].password \in {None, account'[token'[t].owner].password}
                 \/ req'[s].pc = "revoke" /\ req'[s].a = token'[t].owner
      <4>1. /\ token'[t].owner = token[t].owner /\ Active(t)
            /\ token'[t].password \in {None, token[t].password}
        BY <1>1, <2>6, <3>4, TokensStay, GenerateRefreshTokenTo, RowSaveTo DEF Fewer, Active
      <4>2. CASE token[t].owner # req[s].a BY <1>0, <2>3, <3>3, <4>1, <4>2
      <4>3. CASE token[t].owner = req[s].a /\ token' = Unanswerable(req[s].a)
        BY <4>3, UnanswerableTo
      <4>4. CASE token[t].owner = req[s].a /\ token' # Unanswerable(req[s].a)
        BY <2>6, <4>1, <4>4, RowSaveTo
      <4>. QED BY <4>2, <4>3, <4>4
    <3>. QED BY <3>4 DEF PasswordInv, Active
  <2>7. CASE ~GenerateRefreshToken(s) /\ ~RowSave(s)
    <3>1. Fewer BY <1>1, <2>7, TokensStay
    <3>2. \A a \in Accounts : account'[a].password = account[a].password
      BY <1>1, <2>4, <2>7, AccountStays
    <3>. QED BY <1>0, <2>3, <3>1, <3>2 DEF PasswordInv, Fewer, Active
  <2>. QED BY <2>5, <2>6, <2>7
<1>2. ASSUME NEW s \in Slots, RevokeAllTokens(s)
      PROVE  PasswordInv'
  <2>1. Lone(s) /\ fails = 0 BY <1>2, RevokeAllTokensTo, LoneStep DEF Going
  <2>2. \A t \in Tokens : /\ token[t].owner = req[s].a => token'[t].state = "revoked"
                          /\ token[t].owner # req[s].a => token'[t] = token[t]
    BY <1>2, RevokeAllTokensTo, RevokedTyped
  <2>3. account' = account BY <1>2, RevokeAllTokensTo
  <2>4. \A u \in Slots : req[u].pc = "revoke" => u = s BY <2>1 DEF Lone, Idle
  <2>. QED BY <2>1, <2>2, <2>3, <2>4 DEF PasswordInv, Active, Lone
<1>3. ASSUME NEW s \in Slots, RequestFails(s) PROVE PasswordInv'
  <2>1. fails' = fails + 1 BY <1>3, RequestFailsTo
  <2>. QED BY <1>0, <2>1
<1>4. CASE Elsewhere
  <2>1. UNCHANGED <<account, req, calm, fails>> /\ Fewer
    BY <1>4, ElsewhereTo, ElsewhereFewer DEF control
  <2>. QED BY <2>1 DEF PasswordInv, Fewer, Active
<1>5. CASE UNCHANGED vars
  BY <1>5 DEF vars, tables, control, PasswordInv, Active
<1>. QED BY <1>1, <1>2, <1>3, <1>4, <1>5, NextCases

--------------------------------------------------------------------------------
\* Nothing is counted for a code that was not sent.
UnsentInv == \A i \in 1..MaxOtps : i \notin DOMAIN otps => signedIn[i] = 0 /\ wrong[i] = 0

\* As long as no two requests overlap, a pending code has let nobody in, another one person at
\* most.
SignedInInv ==
    calm => \A i \in DOMAIN otps : signedIn[i] <= IF otps[i].status = "PENDING" THEN 0 ELSE 1

\* If moreover no request has died, the wrong tries of a pending code are counted in its
\* record, or the last one is about to be.
TriesInv ==
    calm /\ fails = 0 =>
        \A i \in DOMAIN otps :
            /\ otps[i].status = "VERIFIED" => wrong[i] < MaxAttempts
            /\ otps[i].status = "PENDING" =>
                  \/ wrong[i] <= otps[i].attempts
                  \/ /\ wrong[i] <= otps[i].attempts + 1
                     /\ \E s \in Slots : /\ req[s].pc \in HoldsCode /\ req[s].otp = i
                                         /\ ~req[s].right

\* What the steps of requests leave of the codes.

LEMMA CodesUntouched ==
    ASSUME TypeInv, NEW s \in Slots, Asking(s) \/ Serving(s),
           ~(EnableTwoFactor(s) \/ SendResetCode(s) \/ SendCode(s) \/ ConfirmTwoFactor(s)
             \/ ValidateLoginCode(s) \/ VerifyResetCode(s) \/ ConfirmSave(s) \/ CodeSave(s)
             \/ ResetCodeSave(s) \/ DisableExpire(s))
    PROVE  UNCHANGED <<otps, signedIn, wrong>> /\ req[s].pc \notin HoldsCode
<1>1. CASE Asking(s)
  <2>1. req[s].pc \notin HoldsCode BY <1>1, AskingBegins DEF Begun, Idle, HoldsCode
  <2>2. UNCHANGED <<otps, signedIn, wrong>>
    BY <1>1 DEF Asking, SignInRequest, TwoFactorRequest, ResetRequest, UserLogin, AdminLogin,
       ChangePassword, UpdateAccount, DeleteProfile, RemoveAccount, Logout, DisableTwoFactor,
       ResetPassword, UserResetPassword, tables, history
  <2>. QED BY <2>1, <2>2
<1>2. CASE Serving(s)
  BY <1>2 DEF Serving, TokenStep, SignInStep, TwoFactorStep, GenerateRefreshToken,
     RevokeAllTokens, LoginSave, CheckTwoFactor, LoadAdmin, RowSave, SoftRemove, ConfirmFlag,
     DisableFlag, tables, history, HoldsCode
<1>. QED BY <1>1, <1>2

LEMMA CodeSent ==
    ASSUME TypeInv, NEW s \in Slots, EnableTwoFactor(s) \/ SendResetCode(s) \/ SendCode(s)
    PROVE  /\ UNCHANGED <<signedIn, wrong>> /\ req[s].pc \notin HoldsCode
           /\ \/ UNCHANGED otps
              \/ \E a, p : Sent(a, p)
<1>1. CASE EnableTwoFactor(s) BY <1>1, EnableTwoFactorTo DEF history, Begun, Idle, HoldsCode
<1>2. CASE SendResetCode(s) BY <1>2, SendResetCodeTo DEF history, Begun, Idle, HoldsCode
<1>3. CASE SendCode(s) BY <1>3, SendCodeTo DEF HoldsCode
<1>. QED BY <1>1, <1>2, <1>3

LEMMA CodeTried ==
    ASSUME TypeInv, NEW s \in Slots,
           ConfirmTwoFactor(s) \/ ValidateLoginCode(s) \/ VerifyResetCode(s)
    PROVE  \E i \in DOMAIN otps :
             /\ \E then : Tried(s, i, req'[s].pc, then)
             /\ req'[s].pc \in HoldsCode /\ req[s].pc = "idle" /\ UNCHANGED <<otps, signedIn>>
<1>1. CASE ConfirmTwoFactor(s)
  <2>1. PICK i \in DOMAIN otps : Tried(s, i, "confirmSave", "idle")
    BY <1>1, ConfirmTwoFactorTo
  <2>2. /\ req'[s].pc = "confirmSave" /\ req[s].pc = "idle" /\ UNCHANGED <<otps, signedIn>>
    BY <2>1 DEF Tried, Begun, Idle, tables
  <2>3. Tried(s, i, req'[s].pc, "idle") BY <2>1, <2>2
  <2>. QED BY <2>2, <2>3 DEF HoldsCode
<1>2. CASE ValidateLoginCode(s)
  <2>1. PICK i \in DOMAIN otps : Tried(s, i, "codeSave", "issue")
    BY <1>2, ValidateLoginCodeTo
  <2>2. /\ req'[s].pc = "codeSave" /\ req[s].pc = "idle" /\ UNCHANGED <<otps, signedIn>>
    BY <2>1 DEF Tried, Begun, Idle, tables
  <2>3. Tried(s, i, req'[s].pc, "issue") BY <2>1, <2>2
  <2>. QED BY <2>2, <2>3 DEF HoldsCode
<1>3. CASE VerifyResetCode(s)
  <2>1. PICK i \in DOMAIN otps : Tried(s, i, "resetCodeSave", "idle")
    BY <1>3, VerifyResetCodeTo
  <2>2. /\ req'[s].pc = "resetCodeSave" /\ req[s].pc = "idle" /\ UNCHANGED <<otps, signedIn>>
    BY <2>1 DEF Tried, Begun, Idle, tables
  <2>3. Tried(s, i, req'[s].pc, "idle") BY <2>1, <2>2
  <2>. QED BY <2>2, <2>3 DEF HoldsCode
<1>. QED BY <1>1, <1>2, <1>3

LEMMA CodeSaved ==
    ASSUME TypeInv, NEW s \in Slots, ConfirmSave(s) \/ CodeSave(s) \/ ResetCodeSave(s)
    PROVE  /\ req[s].pc \in HoldsCode /\ req[s].otp \in DOMAIN otps
           /\ req[s].otp \in 1..MaxOtps /\ req[s].record \in OtpRecord
           /\ \E done \in {"VERIFIED", "USED"} :
                 /\ Saved(req[s].otp, req[s].record, req[s].right, done)
                 /\ \/ UNCHANGED signedIn
                    \/ /\ Passes(req[s]) /\ done = "USED"
                       /\ signedIn' = [signedIn EXCEPT ![req[s].otp] = @ + 1]
<1>1. req[s].pc \in HoldsCode
  BY ConfirmSaveTo, CodeSaveTo, ResetCodeSaveTo DEF HoldsCode
<1>2. /\ req[s].otp \in DOMAIN otps /\ req[s].otp \in 1..MaxOtps
      /\ req[s].record \in OtpRecord
  BY <1>1, HeldCode, InOtps
<1>. QED BY <1>1, <1>2, ConfirmSaveTo, CodeSaveTo, ResetCodeSaveTo

LEMMA CodeCases ==
    ASSUME NEW s \in Slots, Asking(s) \/ Serving(s)
    PROVE  \/ EnableTwoFactor(s) \/ SendResetCode(s) \/ SendCode(s)
           \/ ConfirmTwoFactor(s) \/ ValidateLoginCode(s) \/ VerifyResetCode(s)
           \/ ConfirmSave(s) \/ CodeSave(s) \/ ResetCodeSave(s)
           \/ DisableExpire(s)
           \/ ~(EnableTwoFactor(s) \/ SendResetCode(s) \/ SendCode(s) \/ ConfirmTwoFactor(s)
                \/ ValidateLoginCode(s) \/ VerifyResetCode(s) \/ ConfirmSave(s) \/ CodeSave(s)
                \/ ResetCodeSave(s) \/ DisableExpire(s))
  OBVIOUS

LEMMA UnsentKept ==
    ASSUME TypeInv, UnsentInv, [Next]_vars
    PROVE  UnsentInv'
<1>0. /\ signedIn \in [1..MaxOtps -> Nat] /\ wrong \in [1..MaxOtps -> 0..MaxAttempts]
  BY DEF TypeInv, TablesTyped
<1>1. ASSUME NEW s \in Slots, Asking(s) \/ Serving(s) PROVE UnsentInv'
  <2>1. CASE EnableTwoFactor(s) \/ SendResetCode(s) \/ SendCode(s)
    BY <2>1, CodeSent DEF UnsentInv, Sent
  <2>2. CASE ConfirmTwoFactor(s) \/ ValidateLoginCode(s) \/ VerifyResetCode(s)
    BY <2>2, CodeTried DEF UnsentInv, Tried
  <2>3. CASE ConfirmSave(s) \/ CodeSave(s) \/ ResetCodeSave(s)
    <3>1. /\ req[s].otp \in DOMAIN otps /\ DOMAIN otps' = DOMAIN otps
          /\ \A j \in 1..MaxOtps : j # req[s].otp => wrong'[j] = wrong[j]
      BY <2>3, CodeSaved DEF Saved
    <3>2. \A j \in 1..MaxOtps : j # req[s].otp => signedIn'[j] = signedIn[j]
      BY <1>0, <2>3, CodeSaved
    <3>. QED BY <3>1, <3>2 DEF UnsentInv
  <2>4. CASE DisableExpire(s)
    BY <2>4, DisableExpireTo DEF UnsentInv, history
  <2>. QED BY <1>1, <2>1, <2>2, <2>3, <2>4, CodesUntouched DEF UnsentInv
<1>2. ASSUME NEW s \in Slots, RequestFails(s) PROVE UnsentInv'
  BY <1>2, RequestFailsTo DEF UnsentInv, tables, history
<1>3. CASE Elsewhere BY <1>3, ElsewhereTo DEF UnsentInv, history
<1>4. CASE UNCHANGED vars BY <1>4 DEF vars, tables, history, UnsentInv
<1>. QED BY <1>1, <1>2, <1>3, <1>4, NextCases

LEMMA SignedInKept ==
    ASSUME TypeInv, OneAtATime, HeldInv, UnsentInv, SignedInInv, [Next]_vars
    PROVE  SignedInInv'
<1>. SUFFICES ASSUME calm' PROVE SignedInInv'
  BY DEF SignedInInv
<1>0. /\ signedIn \in [1..MaxOtps -> Nat] /\ \A i \in DOMAIN otps : i \in 1..MaxOtps
  BY InOtps DEF TypeInv, TablesTyped
<1>1. ASSUME NEW s \in Slots, Asking(s) \/ Serving(s) PROVE SignedInInv'
  <2>0. Lone(s) BY <1>1, AskingBegins, ServingGoes, LoneStep
  <2>00. \A i \in DOMAIN otps : signedIn[i] <= IF otps[i].status = "PENDING" THEN 0 ELSE 1
    BY <2>0 DEF SignedInInv, Lone
  <2>1. CASE EnableTwoFactor(s) \/ SendResetCode(s) \/ SendCode(s)
    <3>1. CASE UNCHANGED otps BY <2>00, <2>1, <3>1, CodeSent DEF SignedInInv
    <3>2. ASSUME NEW a, NEW p, Sent(a, p) PROVE SignedInInv'
      <4>1. \A i \in DOMAIN otps' : i \in 1..MaxOtps
        BY <3>2, Bounds DEF Sent, TypeInv, TablesTyped
      <4>2. \A i \in DOMAIN otps' : i \notin DOMAIN otps => signedIn[i] = 0
        BY <4>1 DEF UnsentInv
      <4>3. signedIn' = signedIn BY <2>1, CodeSent
      <4>. QED BY <2>00, <3>2, <4>2, <4>3 DEF Sent, SignedInInv
    <3>. QED BY <2>1, <3>1, <3>2, CodeSent
  <2>2. CASE ConfirmTwoFactor(s) \/ ValidateLoginCode(s) \/ VerifyResetCode(s)
    BY <2>00, <2>2, CodeTried DEF SignedInInv
  <2>3. CASE ConfirmSave(s) \/ CodeSave(s) \/ ResetCodeSave(s)
    <3> DEFINE i == req[s].otp
               x == req[s].record
    <3>1. PICK done \in {"VERIFIED", "USED"} :
            /\ Saved(i, x, req[s].right, done)
            /\ \/ UNCHANGED signedIn
               \/ /\ Passes(req[s]) /\ done = "USED"
                  /\ signedIn' = [signedIn EXCEPT ![i] = @ + 1]
      BY <2>3, CodeSaved
    <3>2. i \in DOMAIN otps /\ i \in 1..MaxOtps /\ req[s].pc \in HoldsCode
      BY <2>3, CodeSaved
    <3>3. otps[i].status = "PENDING"
      BY <2>0, <3>2 DEF HeldInv, Held, RecordCurrent, Lone
    <3>4. signedIn[i] = 0 BY <1>0, <2>00, <3>2, <3>3
    <3>5. Passes(req[s]) /\ done = "USED" => otps'[i].status = "USED"
      BY <3>1 DEF Passes, Saved
    <3>. HIDE DEF i, x
    <3>6. signedIn'[i] <= IF otps'[i].status = "PENDING" THEN 0 ELSE 1
      <4>1. CASE UNCHANGED signedIn BY <3>4, <4>1
      <4>2. CASE otps'[i].status = "USED" /\ signedIn' = [signedIn EXCEPT ![i] = @ + 1]
        <5>1. signedIn'[i] = 1 BY <1>0, <3>2, <3>4, <4>2
        <5>. QED BY <4>2, <5>1
      <4>. QED BY <3>1, <3>5, <4>1, <4>2
    <3>7. \A j \in DOMAIN otps : j # i => signedIn'[j] = signedIn[j] /\ otps'[j] = otps[j]
      BY <1>0, <3>1 DEF Saved
    <3>8. DOMAIN otps' = DOMAIN otps BY <3>1 DEF Saved
    <3>. QED BY <2>00, <3>6, <3>7, <3>8 DEF SignedInInv
  <2>4. CASE DisableExpire(s)
    <3>1. signedIn' = signedIn /\ DOMAIN otps' = DOMAIN otps
      BY <2>4, DisableExpireTo DEF history
    <3>2. ASSUME NEW i \in DOMAIN otps
          PROVE  signedIn[i] <= IF otps'[i].status = "PENDING" THEN 0 ELSE 1
      <4>1. \/ otps'[i] = otps[i]
            \/ otps[i].status = "VERIFIED" /\ otps'[i].status = "EXPIRED"
        BY <2>4, DisableExpireTo DEF Found
      <4>. QED BY <2>00, <4>1
    <3>. QED BY <3>1, <3>2 DEF SignedInInv
  <2>. QED BY <1>1, <2>00, <2>1, <2>2, <2>3, <2>4, CodesUntouched DEF SignedInInv
<1>2. ASSUME NEW s \in Slots, RequestFails(s) PROVE SignedInInv'
  BY <1>2, RequestFailsTo DEF SignedInInv, tables, history
<1>3. CASE Elsewhere BY <1>3, ElsewhereTo DEF SignedInInv, history, control
<1>4. CASE UNCHANGED vars BY <1>4 DEF vars, tables, history, control, SignedInInv
<1>. QED BY <1>1, <1>2, <1>3, <1>4, NextCases

LEMMA TriesKept ==
    ASSUME TypeInv, OneAtATime, HeldInv, UnsentInv, TriesInv, [Next]_vars
    PROVE  TriesInv'
<1>. SUFFICES ASSUME calm', fails' = 0 PROVE TriesInv'
  BY DEF TriesInv
<1>0. /\ wrong \in [1..MaxOtps -> 0..MaxAttempts] /\ fails \in Nat
      /\ \A i \in DOMAIN otps : i \in 1..MaxOtps /\ otps[i] \in OtpRecord
  <2>1. wrong \in [1..MaxOtps -> 0..MaxAttempts] /\ fails \in Nat
    BY Bounds DEF TypeInv, TablesTyped
  <2>. QED BY <2>1, InOtps
<1>00. \A i \in 1..MaxOtps : wrong[i] \in Nat BY <1>0, Bounds
<1>1. ASSUME NEW s \in Slots, Asking(s) \/ Serving(s) PROVE TriesInv'
  <2>0. Lone(s) /\ fails = 0
    BY <1>1, AskingBegins, ServingGoes, LoneStep DEF Begun, Going
  <2>00. \A i \in DOMAIN otps :
           /\ otps[i].status = "VERIFIED" => wrong[i] < MaxAttempts
           /\ otps[i].status = "PENDING" =>
                \/ wrong[i] <= otps[i].attempts
                \/ /\ wrong[i] <= otps[i].attempts + 1
                   /\ req[s].pc \in HoldsCode /\ req[s].otp = i /\ ~req[s].right
    BY <2>0 DEF TriesInv, Lone, HoldsCode, Idle
  <2>1. CASE EnableTwoFactor(s) \/ SendResetCode(s) \/ SendCode(s)
    <3>0. req[s].pc \notin HoldsCode /\ UNCHANGED <<signedIn, wrong>> BY <2>1, CodeSent
    <3>1. CASE UNCHANGED otps BY <2>00, <3>0, <3>1 DEF TriesInv
    <3>2. ASSUME NEW a, NEW p, Sent(a, p) PROVE TriesInv'
      <4>1. /\ \A i \in DOMAIN otps' : i \in 1..MaxOtps /\ otps'[i] \in OtpRecord
        BY <3>2, Bounds DEF Sent, TypeInv, TablesTyped
      <4>2. ASSUME NEW i \in DOMAIN otps', i \notin DOMAIN otps
            PROVE  otps'[i].status = "PENDING" /\ wrong'[i] <= otps'[i].attempts
        <5>1. wrong'[i] = 0 BY <3>0, <4>1, <4>2 DEF UnsentInv
        <5>2. otps'[i].attempts \in Nat BY <4>1, Bounds DEF OtpRecord
        <5>. QED BY <3>2, <4>2, <5>1, <5>2 DEF Sent
      <4>3. ASSUME NEW i \in DOMAIN otps
            PROVE  otps'[i] = otps[i] /\ wrong'[i] = wrong[i]
        BY <3>0, <3>2 DEF Sent
      <4>. QED BY <2>00, <3>0, <4>2, <4>3 DEF TriesInv
    <3>. QED BY <2>1, <3>1, <3>2, CodeSent
  <2>2. CASE ConfirmTwoFactor(s) \/ ValidateLoginCode(s) \/ VerifyResetCode(s)
    <3>1. PICK i \in DOMAIN otps :
            /\ \E then : Tried(s, i, req'[s].pc, then)
            /\ req'[s].pc \in HoldsCode /\ req[s].pc = "idle" /\ UNCHANGED <<otps, signedIn>>
      BY <2>2, CodeTried
    <3>2. /\ req'[s].otp = i /\ otps[i].status = "PENDING" /\ req'[s] \in Request
          /\ \A j \in 1..MaxOtps : j # i => wrong'[j] = wrong[j]
          /\ wrong'[i] <= wrong[i] + IF req'[s].right THEN 0 ELSE 1
          /\ wrong' \in [1..MaxOtps -> 0..MaxAttempts]
      BY <3>1 DEF Tried, Begun, Moves
    <3>3. req[s].pc \notin HoldsCode BY <3>1 DEF HoldsCode
    <3>4. i \in 1..MaxOtps /\ wrong[i] \in Nat /\ wrong'[i] \in Nat /\ otps[i].attempts \in Nat
      BY <1>0, <1>00, <3>2, Bounds DEF OtpRecord
    <3>5. wrong[i] <= otps[i].attempts BY <2>00, <3>2, <3>3
    <3>6. \/ wrong'[i] <= otps[i].attempts
          \/ wrong'[i] <= otps[i].attempts + 1 /\ ~req'[s].right
      <4>1. CASE req'[s].right BY <3>2, <3>4, <3>5, <4>1
      <4>2. CASE ~req'[s].right BY <3>2, <3>4, <3>5, <4>2
      <4>. QED BY <4>1, <4>2
    <3>7. ASSUME NEW j \in DOMAIN otps', j # i
          PROVE  /\ otps'[j].status = "VERIFIED" => wrong'[j] < MaxAttempts
                 /\ otps'[j].status = "PENDING" => wrong'[j] <= otps'[j].attempts
      BY <1>0, <2>00, <3>1, <3>2, <3>3, <3>7
    <3>. QED BY <3>1, <3>2, <3>6, <3>7 DEF TriesInv
  <2>3. CASE ConfirmSave(s) \/ CodeSave(s) \/ ResetCodeSave(s)
    <3> DEFINE i == req[s].otp
               x == req[s].record
               right == req[s].right
    <3>1. PICK done \in {"VERIFIED", "USED"} : Saved(i, x, right, done)
      BY <2>3, CodeSaved
    <3>2. i \in DOMAIN otps /\ i \in 1..MaxOtps /\ req[s].pc \in HoldsCode /\ x \in OtpRecord
      BY <2>3, CodeSaved
    <3>3. otps[i].status = "PENDING" /\ x.status = "PENDING" /\ x.attempts = otps[i].attempts
      BY <2>0, <3>2 DEF HeldInv, Held, RecordCurrent, Lone
    <3>4. /\ wrong[i] \in Nat /\ x.attempts \in 0..MaxAttempts /\ x.attempts \in Nat
          /\ right \in BOOLEAN
      BY <1>00, <3>2, Bounds DEF OtpRecord, TypeInv, Request
    <3>5. wrong[i] <= x.attempts \/ (wrong[i] <= x.attempts + 1 /\ ~right)
      BY <2>00, <3>2, <3>3
    <3>6. ASSUME NEW j \in DOMAIN otps, j # i
          PROVE  /\ otps'[j] = otps[j] /\ wrong'[j] = wrong[j]
                 /\ otps[j].status = "PENDING" => wrong[j] <= otps[j].attempts
      BY <1>0, <2>00, <3>1, <3>6 DEF Saved
    <3>7. DOMAIN otps' = DOMAIN otps /\ wrong'[i] \in {0, wrong[i]}
          /\ (Worn(x) => otps'[i].status = "EXPIRED")
          /\ (~Worn(x) => /\ otps'[i].attempts = x.attempts + 1
                          /\ otps'[i].status = IF right THEN done ELSE x.status)
      BY <3>1 DEF Saved
    <3>8. ~Worn(x) => x.attempts < MaxAttempts BY <3>4, Bounds DEF Worn
    <3>. HIDE DEF i, x, right
    <3>9. /\ otps'[i].status = "VERIFIED" => wrong'[i] < MaxAttempts
          /\ otps'[i].status = "PENDING" => wrong'[i] <= otps'[i].attempts
      <4>1. CASE Worn(x) BY <3>7, <4>1
      <4>2. CASE ~Worn(x) /\ right
        <5>1. wrong'[i] <= x.attempts BY <3>4, <3>5, <3>7, <4>2
        <5>2. wrong'[i] < MaxAttempts /\ otps'[i].status = done
          BY <3>4, <3>7, <3>8, <4>2, <5>1, Bounds
        <5>. QED BY <5>2
      <4>3. CASE ~Worn(x) /\ ~right
        <5>1. wrong'[i] <= x.attempts + 1 BY <3>4, <3>5, <3>7
        <5>2. otps'[i].attempts = x.attempts + 1 /\ otps'[i].status = "PENDING"
          BY <3>3, <3>7, <4>3
        <5>. QED BY <5>1, <5>2
      <4>. QED BY <4>1, <4>2, <4>3
    <3>. QED BY <2>00, <3>6, <3>7, <3>9 DEF TriesInv
  <2>4. CASE DisableExpire(s)
    <3>1. wrong' = wrong /\ DOMAIN otps' = DOMAIN otps /\ req[s].pc \notin HoldsCode
      BY <2>4, DisableExpireTo DEF history, HoldsCode
    <3>2. ASSUME NEW i \in DOMAIN otps
          PROVE  otps'[i] = otps[i] \/ otps'[i].status = "EXPIRED"
      BY <2>4, DisableExpireTo
    <3>3. ASSUME NEW i \in DOMAIN otps
          PROVE  /\ otps'[i].status = "VERIFIED" => wrong[i] < MaxAttempts
                 /\ otps'[i].status = "PENDING" => wrong[i] <= otps'[i].attempts
      BY <2>00, <3>1, <3>2
    <3>. QED BY <3>1, <3>3 DEF TriesInv
  <2>5. ASSUME UNCHANGED <<otps, signedIn, wrong>>, req[s].pc \notin HoldsCode
        PROVE  TriesInv'
    BY <2>00, <2>5 DEF TriesInv
  <2>. QED BY <1>1, <2>1, <2>2, <2>3, <2>4, <2>5, CodesUntouched
<1>2. ASSUME NEW s \in Slots, RequestFails(s) PROVE TriesInv'
  <2>1. fails' = fails + 1 BY <1>2, RequestFailsTo
  <2>. QED BY <1>0, <2>1
<1>3. CASE Elsewhere
  <2>1. UNCHANGED <<req, wrong, calm, fails>> BY <1>3, ElsewhereTo DEF history, control
  <2>. QED BY <1>3, <2>1, ElsewhereTo DEF TriesInv
<1>4. CASE UNCHANGED vars BY <1>4 DEF vars, tables, history, control, TriesInv
<1>. QED BY <1>1, <1>2, <1>3, <1>4, NextCases

--------------------------------------------------------------------------------
\* As long as no two requests overlap and none dies: two-factor login is on exactly while a
\* confirmed code stands for it, but for a request that has written the one and not yet the
\* other.
Flagging == {"confirmFlag", "disableFlag"}

Confirmed(a) == Found(a, "TWO_FACTOR", "VERIFIED") # {}

TwoFactorInv ==
    calm /\ fails = 0 =>
        /\ \A s \in Slots : /\ req[s].pc = "confirmFlag" => Confirmed(req[s].a)
                            /\ req[s].pc = "disableFlag" => ~Confirmed(req[s].a)
        /\ \A a \in Admins :
              \/ account[a].twoFactor <=> Confirmed(a)
              \/ \E s \in Slots : req[s].a = a /\ req[s].pc \in Flagging

LEMMA SameFound ==
    ASSUME NEW a, DOMAIN otps \subseteq DOMAIN otps',
           \A i \in DOMAIN otps' \ DOMAIN otps : otps'[i].status # "VERIFIED",
           \A i \in DOMAIN otps :
             \/ /\ otps'[i].owner = otps[i].owner /\ otps'[i].purpose = otps[i].purpose
                /\ otps'[i].status = otps[i].status
             \/ i \notin Found(a, "TWO_FACTOR", "VERIFIED")
                /\ ~(otps'[i].owner = a /\ otps'[i].purpose = "TWO_FACTOR"
                     /\ otps'[i].status = "VERIFIED")
    PROVE  Confirmed(a)' <=> Confirmed(a)
<1>1. \A i : i \in Found(a, "TWO_FACTOR", "VERIFIED")' <=> i \in Found(a, "TWO_FACTOR", "VERIFIED")
  BY DEF Found
<1>. QED BY <1>1 DEF Confirmed

\* A step that leaves flags and confirmed codes alone and is not about to write either.
LEMMA TwoFactorStays ==
    ASSUME TypeInv, TwoFactorInv, NEW s \in Slots, Lone(s), fails = 0,
           req[s].pc \notin Flagging, req'[s].pc \notin Flagging,
           \A a \in Admins : account'[a].twoFactor = account[a].twoFactor,
           \A a \in Admins : Confirmed(a)' <=> Confirmed(a)
    PROVE  TwoFactorInv'
<1>1. \A t \in Slots : req[t].pc \notin Flagging /\ req'[t].pc \notin Flagging
  BY DEF Lone, Idle, Flagging
<1>2. \A a \in Admins : account[a].twoFactor <=> Confirmed(a)
  BY <1>1 DEF TwoFactorInv, Lone
<1>. QED BY <1>1, <1>2 DEF TwoFactorInv, Flagging

LEMMA FlaggingOnly ==
    ASSUME TypeInv, NEW s \in Slots, Asking(s) \/ Serving(s),
           ~(ConfirmSave(s) \/ DisableExpire(s) \/ ConfirmFlag(s) \/ DisableFlag(s))
    PROVE  req[s].pc \notin Flagging /\ req'[s].pc \notin Flagging
<1> USE DEF Flagging
<1>1. CASE Asking(s)
  <2>1. req[s].pc \notin Flagging BY <1>1, AskingBegins DEF Begun, Idle
  <2>2. req'[s].pc \notin Flagging
    <3> USE DEF Serves, RowLoaded, Tried, Idle
    <3>1. CASE SignInRequest(s)
      BY <3>1, UserLoginTo, AdminLoginTo, ChangePasswordTo, UpdateAccountTo, DeletionTo, LogoutTo
      DEF SignInRequest
    <3>2. CASE TwoFactorRequest(s)
      BY <3>2, EnableTwoFactorTo, ConfirmTwoFactorTo, DisableTwoFactorTo, ValidateLoginCodeTo
      DEF TwoFactorRequest
    <3>3. CASE ResetRequest(s)
      BY <3>3, SendResetCodeTo, VerifyResetCodeTo, ResetPasswordTo, UserResetPasswordTo
      DEF ResetRequest
    <3>. QED BY <1>1, <3>1, <3>2, <3>3 DEF Asking
  <2>. QED BY <2>1, <2>2
<1>2. CASE GenerateRefreshToken(s) BY <1>2, GenerateRefreshTokenTo DEF Idle
<1>3. CASE RevokeAllTokens(s) BY <1>3, RevokeAllTokensTo DEF Idle
<1>4. CASE LoginSave(s) BY <1>4, LoginSaveTo DEF Serves
<1>5. CASE CheckTwoFactor(s) BY <1>5, CheckTwoFactorTo DEF Serves, Idle
<1>6. CASE LoadAdmin(s) BY <1>6, LoadAdminTo DEF Serves, Idle
<1>7. CASE RowSave(s) BY <1>7, RowSaveTo DEF Idle
<1>8. CASE SoftRemove(s)
  <2>1. req[s].pc = "softRemove" /\ req'[s] = Idle BY <1>8, SoftRemoveTo
  <2>. QED BY <2>1 DEF Idle
<1>9. CASE SendCode(s) BY <1>9, SendCodeTo DEF Idle
<1>10. CASE CodeSave(s) BY <1>10, CodeSaveTo DEF Onward, Idle
<1>11. CASE ResetCodeSave(s) BY <1>11, ResetCodeSaveTo DEF Idle
<1>. QED BY <1>1, <1>2, <1>3, <1>4, <1>5, <1>6, <1>7, <1>8, <1>9, <1>10, <1>11
     DEF Serving, TokenStep, SignInStep, TwoFactorStep

LEMMA TwoFactorKept ==
    ASSUME TypeInv, OneAtATime, HeldInv, TwoFactorInv, [Next]_vars
    PROVE  TwoFactorInv'
<1>. SUFFICES ASSUME calm', fails' = 0 PROVE TwoFactorInv'
  BY DEF TwoFactorInv
<1>0. fails \in Nat /\ account \in [Accounts -> Row] /\ Admins \subseteq Accounts
  BY Bounds DEF TypeInv, TablesTyped, Accounts
<1>1. ASSUME NEW s \in Slots, Asking(s) \/ Serving(s) PROVE TwoFactorInv'
  <2>0. Lone(s) /\ fails = 0 /\ Held(req[s])
    BY <1>1, AskingBegins, ServingGoes, LoneStep DEF Begun, Going, HeldInv, Lone
  <2> DEFINE flags == ConfirmFlag(s) \/ DisableFlag(s)
  <2>1. ~flags => \A a \in Admins : account'[a].twoFactor = account[a].twoFactor
    BY <1>0, <1>1, <2>0, AccountStays
  <2>2. CASE EnableTwoFactor(s) \/ SendResetCode(s) \/ SendCode(s)
    <3>1. ASSUME NEW a, NEW p, NEW q, Sent(q, p)
          PROVE  Confirmed(a)' <=> Confirmed(a)
      BY <3>1, SameFound DEF Sent
    <3>2. \A a : UNCHANGED otps => (Confirmed(a)' <=> Confirmed(a))
      BY DEF Confirmed, Found
    <3>3. \A a \in Admins : Confirmed(a)' <=> Confirmed(a) BY <2>2, <3>1, <3>2, CodeSent
    <3>4. /\ ~(ConfirmSave(s) \/ DisableExpire(s) \/ ConfirmFlag(s) \/ DisableFlag(s))
      <4>1. Begun(s) => req[s].pc = "idle" BY DEF Begun, Idle
      <4>2. CASE EnableTwoFactor(s) BY <4>1, <4>2, EnableTwoFactorTo
            DEF ConfirmSave, DisableExpire, ConfirmFlag, DisableFlag
      <4>3. CASE SendResetCode(s) BY <4>1, <4>3, SendResetCodeTo
            DEF ConfirmSave, DisableExpire, ConfirmFlag, DisableFlag
      <4>4. CASE SendCode(s) BY <4>4, SendCodeTo
            DEF ConfirmSave, DisableExpire, ConfirmFlag, DisableFlag
      <4>. QED BY <2>2, <4>2, <4>3, <4>4
    <3>. QED BY <1>1, <2>0, <2>1, <3>3, <3>4, FlaggingOnly, TwoFactorStays
  <2>3. CASE ConfirmSave(s)
    <3> DEFINE i == req[s].otp
               x == req[s].record
    <3>0. req[s].a \in Admins BY <2>3, HeldCode, ConfirmSaveTo DEF HoldsCode, Request
    <3>a. PICK a \in Admins : a = req[s].a BY <3>0
    <3>1. /\ i \in DOMAIN otps /\ a \in Admins /\ req[s].right \in BOOLEAN
          /\ req[s].pc = "confirmSave" /\ Saved(i, x, req[s].right, "VERIFIED")
      BY <2>3, HeldCode, ConfirmSaveTo DEF HoldsCode, Request
    <3>2. /\ otps[i].status = "PENDING" /\ x.status = "PENDING" /\ x.owner = a
          /\ otps[i].owner = a /\ x.purpose = "TWO_FACTOR"
      BY <2>0, <3>1, <3>a DEF Held, RecordCurrent, HoldsCode
    <3>3. /\ otps'[i].owner = a /\ otps'[i].purpose = "TWO_FACTOR"
          /\ DOMAIN otps' = DOMAIN otps
          /\ \A j \in DOMAIN otps : j # i => otps'[j] = otps[j]
      BY <3>1, <3>2 DEF Saved
    <3>4. i \notin Found(a, "TWO_FACTOR", "VERIFIED") BY <3>2 DEF Found
    <3>5. \A b \in Admins : b # a => (Confirmed(b)' <=> Confirmed(b))
      <4>1. ASSUME NEW b \in Admins, b # a PROVE Confirmed(b)' <=> Confirmed(b)
        <5>1. i \notin Found(b, "TWO_FACTOR", "VERIFIED") BY <3>2 DEF Found
        <5>. QED BY <3>3, <4>1, <5>1, SameFound
      <4>. QED BY <4>1
    <3>6. CASE Passes(req[s])
      <4>1. otps'[i].status = "VERIFIED" BY <3>1, <3>6 DEF Saved, Passes
      <4>2. Confirmed(a)' BY <3>1, <3>3, <4>1 DEF Confirmed, Found
      <4>3. /\ req'[s].pc = "confirmFlag" /\ req'[s].a = a /\ req[s].pc \notin Flagging
        BY <2>3, <3>1, <3>6, <3>a, ConfirmSaveTo DEF Onward, Flagging
      <4>4. \A t \in Slots : t # s => req'[t].pc \notin Flagging /\ req[t].pc \notin Flagging
        BY <2>0 DEF Lone, Idle, Flagging
      <4>5. \A b \in Admins : account[b].twoFactor <=> Confirmed(b)
        BY <2>0, <4>3, <4>4 DEF TwoFactorInv, Lone
      <4>6. ~flags BY <3>1 DEF ConfirmFlag, DisableFlag
      <4>. HIDE DEF flags
      <4>7. \A b \in Admins :
              \/ account'[b].twoFactor <=> Confirmed(b)'
              \/ b = a
        BY <2>1, <3>5, <4>5, <4>6
      <4>8. /\ \A t \in Slots : /\ req'[t].pc = "confirmFlag" => t = s
                                /\ req'[t].pc # "disableFlag"
        BY <4>3, <4>4 DEF Flagging
      <4>9. \A b : b = a => Confirmed(b)' BY <4>2
      <4>. QED BY <4>3, <4>7, <4>8, <4>9 DEF TwoFactorInv, Flagging
    <3>7. CASE ~Passes(req[s])
      <4>1. otps'[i].status # "VERIFIED" BY <3>1, <3>2, <3>7 DEF Saved, Passes
      <4>2. Confirmed(a)' <=> Confirmed(a) BY <3>3, <3>4, <4>1, SameFound
      <4>3. req'[s] = Idle BY <2>3, <3>7, ConfirmSaveTo
      <4>4. ~flags BY <3>1 DEF ConfirmFlag, DisableFlag
      <4>5. req[s].pc \notin Flagging /\ req'[s].pc \notin Flagging
        BY <3>1, <4>3 DEF Flagging, Idle
      <4>. QED BY <2>0, <2>1, <3>5, <4>2, <4>4, <4>5, TwoFactorStays
    <3>. QED BY <3>6, <3>7
  <2>4. CASE CodeSave(s) \/ ResetCodeSave(s)
    <3> DEFINE i == req[s].otp
               x == req[s].record
    <3>1. /\ req[s].pc \in {"codeSave", "resetCodeSave"} /\ i \in DOMAIN otps
          /\ \/ req[s].pc = "codeSave" /\ Saved(i, x, req[s].right, "USED")
             \/ req[s].pc = "resetCodeSave" /\ Saved(i, x, req[s].right, "VERIFIED")
      BY <2>4, CodeSaved, CodeSaveTo, ResetCodeSaveTo
    <3>2. /\ otps[i].status = "PENDING" /\ x.status = "PENDING"
          /\ req[s].pc = "resetCodeSave" => x.purpose = "RESET_PASSWORD"
      BY <2>0, <3>1 DEF Held, RecordCurrent, HoldsCode
    <3>3. otps'[i].purpose = "RESET_PASSWORD" \/ otps'[i].status # "VERIFIED"
      BY <3>1, <3>2 DEF Saved
    <3>4. ASSUME NEW a \in Admins PROVE Confirmed(a)' <=> Confirmed(a)
      <4>1. i \notin Found(a, "TWO_FACTOR", "VERIFIED") BY <3>2 DEF Found
      <4>2. DOMAIN otps' = DOMAIN otps /\ \A j \in DOMAIN otps : j # i => otps'[j] = otps[j]
        BY <3>1 DEF Saved
      <4>. QED BY <3>3, <4>1, <4>2, SameFound
    <3>5. ~(ConfirmSave(s) \/ DisableExpire(s) \/ ConfirmFlag(s) \/ DisableFlag(s))
      BY <3>1 DEF ConfirmSave, DisableExpire, ConfirmFlag, DisableFlag
    <3>. QED BY <1>1, <2>0, <2>1, <3>4, <3>5, FlaggingOnly, TwoFactorStays
  <2>5. CASE DisableExpire(s)
    <3>0. req[s].a \in Admins
      BY <2>5, DisableExpireTo DEF TypeInv, RequestFits, OfAdmin
    <3>a. PICK a \in Admins : a = req[s].a BY <3>0
    <3>1. /\ req[s].pc = "disableExpire" /\ req'[s].pc = "disableFlag" /\ req'[s].a = a
          /\ a \in Admins /\ DOMAIN otps' = DOMAIN otps
          /\ \A i \in DOMAIN otps :
               \/ i \notin Found(a, "TWO_FACTOR", "VERIFIED") /\ otps'[i] = otps[i]
               \/ /\ i \in Found(a, "TWO_FACTOR", "VERIFIED")
                  /\ otps'[i].status = "EXPIRED" /\ otps'[i].owner = otps[i].owner
      BY <2>5, <3>a, DisableExpireTo DEF Onward
    <3>2. ~Confirmed(a)' BY <3>1 DEF Confirmed, Found
    <3>3. ASSUME NEW b \in Admins, b # a PROVE Confirmed(b)' <=> Confirmed(b)
      <4>1. \A i \in Found(a, "TWO_FACTOR", "VERIFIED") :
              i \notin Found(b, "TWO_FACTOR", "VERIFIED") /\ otps[i].owner = a
        BY <3>3 DEF Found
      <4>2. \A i \in DOMAIN otps :
              \/ otps'[i] = otps[i]
              \/ i \notin Found(b, "TWO_FACTOR", "VERIFIED") /\ otps'[i].owner # b
        BY <3>1, <3>3, <4>1
      <4>. QED BY <3>1, <4>2, SameFound
    <3>4. \A t \in Slots : t # s => req'[t].pc \notin Flagging /\ req[t].pc \notin Flagging
      BY <2>0 DEF Lone, Idle, Flagging
    <3>5. \A b \in Admins : account[b].twoFactor <=> Confirmed(b)
      BY <2>0, <3>1, <3>4 DEF TwoFactorInv, Lone, Flagging
    <3>6. ~flags BY <3>1 DEF ConfirmFlag, DisableFlag
    <3>. HIDE DEF flags
    <3>7. \A b \in Admins :
            \/ account'[b].twoFactor <=> Confirmed(b)'
            \/ b = a
      BY <2>1, <3>3, <3>5, <3>6
    <3>8. \A t \in Slots : /\ req'[t].pc = "disableFlag" => t = s
                           /\ req'[t].pc # "confirmFlag"
      BY <3>1, <3>4 DEF Flagging
    <3>9. \A b : b = a => ~Confirmed(b)' BY <3>2
    <3>. QED BY <3>1, <3>7, <3>8, <3>9 DEF TwoFactorInv, Flagging
  <2>6. CASE flags
    <3> DEFINE a == req[s].a
    <3>1. /\ req'[s] = Idle /\ req[s].pc \in Flagging /\ otps' = otps
      BY <2>6, FlagTo DEF Flagging
    <3>2. a \in Accounts BY <3>1 DEF TypeInv, RequestFits, Idle, Flagging
    <3>3. PICK b \in BOOLEAN :
            /\ account' = [account EXCEPT ![a].twoFactor = b]
            /\ b <=> req[s].pc = "confirmFlag"
      BY <2>6, FlagTo
    <3>4. account'[a].twoFactor = b /\ \A c \in Accounts : c # a => account'[c] = account[c]
      <4> DEFINE x == account[a]
                 y == [x EXCEPT !.twoFactor = b]
      <4>1. x \in Row BY <1>0, <3>2
      <4>. HIDE DEF x
      <4>2. y.twoFactor = b BY <4>1 DEF Row
      <4>3. account' = [account EXCEPT ![a] = y] BY <3>3 DEF x
      <4>. HIDE DEF y
      <4>. QED BY <1>0, <3>2, <4>2, <4>3
    <3>5. b <=> Confirmed(a)
      BY <2>0, <3>1, <3>3 DEF TwoFactorInv, Lone, Flagging
    <3>6. \A t \in Slots : req'[t].pc \notin Flagging
      BY <2>0, <3>1 DEF Lone, Idle, Flagging
    <3>7. \A c \in Admins : c # a => (account[c].twoFactor <=> Confirmed(c))
      BY <2>0 DEF TwoFactorInv, Lone, Idle, Flagging
    <3>. HIDE DEF a
    <3>8. \A c \in Admins : account'[c].twoFactor <=> Confirmed(c)
      BY <1>0, <3>4, <3>5, <3>7
    <3>9. \A c : Confirmed(c)' <=> Confirmed(c) BY <3>1 DEF Confirmed, Found
    <3>. QED BY <3>6, <3>8, <3>9 DEF TwoFactorInv, Flagging
  <2>7. CASE ~(EnableTwoFactor(s) \/ SendResetCode(s) \/ SendCode(s) \/ ConfirmSave(s)
               \/ CodeSave(s) \/ ResetCodeSave(s) \/ DisableExpire(s) \/ flags)
    <3>1. UNCHANGED otps BY <1>1, <2>7, CodesUntouched, CodeTried
    <3>2. \A a \in Admins : Confirmed(a)' <=> Confirmed(a) BY <3>1 DEF Confirmed, Found
    <3>. QED BY <1>1, <2>0, <2>1, <2>7, <3>2, FlaggingOnly, TwoFactorStays
  <2>. QED BY <2>2, <2>3, <2>4, <2>5, <2>6, <2>7
<1>2. ASSUME NEW s \in Slots, RequestFails(s) PROVE TwoFactorInv'
  <2>1. fails' = fails + 1 BY <1>2, RequestFailsTo
  <2>. QED BY <1>0, <2>1
<1>3. CASE Elsewhere
  <2>1. UNCHANGED <<account, req, calm, fails>> BY <1>3, ElsewhereTo DEF control
  <2>2. \A a : Confirmed(a)' <=> Confirmed(a)
    BY <1>3, ElsewhereTo, SameFound
  <2>3. \A s \in Slots : Confirmed(req[s].a)' <=> Confirmed(req[s].a)
    BY <2>1, <2>2 DEF Confirmed, Found
  <2>. QED BY <2>1, <2>2, <2>3 DEF TwoFactorInv
<1>4. CASE UNCHANGED vars
  BY <1>4 DEF vars, tables, control, TwoFactorInv, Confirmed, Found
<1>. QED BY <1>1, <1>2, <1>3, <1>4, NextCases

--------------------------------------------------------------------------------
\* The inductive invariant: types, one request at a time, what the request in flight holds, and
\* what that says of sessions, passwords and codes.
AccountsInv ==
    /\ TypeInv
    /\ OneAtATime
    /\ HeldInv
    /\ SessionInv
    /\ PasswordInv
    /\ UnsentInv
    /\ SignedInInv
    /\ TriesInv
    /\ TwoFactorInv

LEMMA AccountsInvAtInit == Init => AccountsInv
<1>. SUFFICES ASSUME Init PROVE AccountsInv
  OBVIOUS
<1>1. TypeInv BY TypeAtInit
<1>2. \A s \in Slots : req[s] = Idle BY DEF Init
<1>3. \A s \in Slots : req[s].pc = "idle"
  <2>1. Idle.pc = "idle" BY DEF Idle
  <2>. QED BY <1>2, <2>1
<1>4. OneAtATime BY <1>2 DEF OneAtATime
<1>5. HeldInv BY <1>3 DEF HeldInv, Held, RowCurrent, RecordCurrent, HoldsRow, HoldsCode
<1>6. \A t \in Tokens : ~Active(t) BY DEF Init, Active
<1>7. SessionInv /\ PasswordInv BY <1>6 DEF SessionInv, PasswordInv
<1>8. UnsentInv BY DEF Init, UnsentInv
<1>9. otps = <<>> /\ DOMAIN otps = {} BY DEF Init
<1>10. SignedInInv /\ TriesInv BY <1>9 DEF SignedInInv, TriesInv
<1>11. \A a \in Admins : ~account[a].twoFactor BY DEF Init, Accounts
<1>12. \A a : ~Confirmed(a) BY <1>9 DEF Confirmed, Found
<1>13. TwoFactorInv BY <1>3, <1>11, <1>12 DEF TwoFactorInv
<1>. QED BY <1>1, <1>4, <1>5, <1>7, <1>8, <1>10, <1>13 DEF AccountsInv

LEMMA AccountsInvKept == AccountsInv /\ [Next]_vars => AccountsInv'
<1>. SUFFICES ASSUME AccountsInv, [Next]_vars PROVE AccountsInv'
  OBVIOUS
<1>. USE DEF AccountsInv
<1>1. TypeInv' BY TypeKept
<1>2. OneAtATime' BY OneAtATimeKept
<1>3. HeldInv' BY HeldKept
<1>4. SessionInv' BY SessionKept
<1>5. PasswordInv' BY PasswordKept
<1>6. UnsentInv' BY UnsentKept
<1>7. SignedInInv' BY SignedInKept
<1>8. TriesInv' BY TriesKept
<1>9. TwoFactorInv' BY TwoFactorKept
<1>. QED BY <1>1, <1>2, <1>3, <1>4, <1>5, <1>6, <1>7, <1>8, <1>9

\* However the flows follow one another and wherever requests die or overlap, the inductive
\* invariant holds.
THEOREM AccountsInvHolds == Spec => []AccountsInv
BY AccountsInvAtInit, AccountsInvKept, PTL DEF Spec

\* As long as no two requests overlap, wherever one dies, an account has one session at most:
\* a login ends the others before it opens its own (user-auth.service.ts:101-105,
\* admin-auth.service.ts:109-113).
THEOREM OneSessionEach == Spec => []OneSession
<1>1. AccountsInv => OneSession BY DEF AccountsInv, SessionInv, OneSession, Alone
<1>. QED BY <1>1, AccountsInvHolds, PTL

\* If moreover no request dies, an open session answers for the password the account has, or
\* for one set by a flow that ends no session (user-auth.service.ts:551-553,
\* password-reset.service.ts:394-396).
THEOREM SessionsFollowPassword == Spec => []SessionHasPassword
<1>1. AccountsInv => SessionHasPassword
  BY DEF AccountsInv, PasswordInv, SessionHasPassword, Alone, Idle
<1>. QED BY <1>1, AccountsInvHolds, PTL

\* As long as no two requests overlap, wherever one dies, a code lets one login through at
\* most: it is written USED before the session is opened (two-factor.service.ts:237-274).
THEOREM CodesSignInOnce == Spec => []CodeSignsInOnce
<1>1. ASSUME AccountsInv, Alone, NEW i \in DOMAIN otps PROVE signedIn[i] <= 1
  <2>1. signedIn[i] <= IF otps[i].status = "PENDING" THEN 0 ELSE 1
    BY <1>1 DEF AccountsInv, SignedInInv, Alone
  <2>2. signedIn[i] \in Nat
    <3>1. TypeOK BY <1>1, TypeOKOfInv DEF AccountsInv
    <3>2. otps \in Seq(OtpRecord) /\ Len(otps) <= MaxOtps
      BY <1>1 DEF AccountsInv, TypeInv, TablesTyped
    <3>3. i \in 1..MaxOtps BY <1>1, <3>2, Bounds
    <3>. QED BY <3>1, <3>3 DEF TypeOK
  <2>. QED BY <2>1, <2>2
<1>2. AccountsInv => CodeSignsInOnce BY <1>1 DEF CodeSignsInOnce
<1>. QED BY <1>2, AccountsInvHolds, PTL

\* As long as no two requests overlap and none dies, two-factor login is on exactly while a
\* confirmed code stands for it (two-factor.service.ts:132-135 and 164-173).
THEOREM TwoFactorFollowsCodes == Spec => []TwoFactorIsConfirmed
<1>1. AccountsInv => TwoFactorIsConfirmed
  BY DEF AccountsInv, TwoFactorInv, TwoFactorIsConfirmed, Alone, Idle, Flagging, Confirmed
<1>. QED BY <1>1, AccountsInvHolds, PTL

\* As long as no two requests overlap and none dies, a code is accepted only if the wrong ones
\* given for it left a try (password-reset.service.ts:150-161 and 336-353).
THEOREM WrongTriesCount == Spec => []TriesAreCounted
<1>1. AccountsInv => TriesAreCounted BY DEF AccountsInv, TriesInv, TriesAreCounted, Alone
<1>. QED BY <1>1, AccountsInvHolds, PTL
================================================================================
