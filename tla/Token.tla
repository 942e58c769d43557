---------------------------------- MODULE Token ----------------------------------
(***************************************************************************)
(* TokenService: refresh tokens are issued, exchanged for access tokens,   *)
(* revoked one by one or all together, and expire.  The plain token is its *)
(* id; the SHA-256 hash kept in the table identifies it.                   *)
(***************************************************************************)
EXTENDS AccountState, FiniteSets

Unused == {t \in Tokens : token[t].state = "none"}

\* Bound: a login starts only while there is an id left for the token it will issue.
TokenLeft ==
    Cardinality(Unused) > Cardinality({s \in Slots : req[s].then = "issue" \/ req[s].pc = "issue"})

\* isRevoked is set; the history of a token nobody can use any more is dropped.
Revoked(t) == [token[t] EXCEPT !.state = "revoked", !.password = None, !.exchanges = 0]

\* generateRefreshToken, the last step of every login.
GenerateRefreshToken(s) ==
    /\ req[s].pc = "issue"
    /\ \E t \in Unused :
         token' = [token EXCEPT ![t] = [owner |-> req[s].a, state |-> "active",
                                        password |-> req[s].row.password,
                                        exchanges |-> 0]]
    /\ Finish(s)
    /\ UNCHANGED <<account, otps, resetJwt, history>>

\* Variant: the tokens are looked up by userId, whoever the account is.
RevokeUserTokens(s) ==
    /\ req[s].pc = "revoke"
    /\ token' = [t \in Tokens |-> IF token[t].owner = req[s].a /\ req[s].a \in Users
                                 THEN Revoked(t) ELSE token[t]]
    /\ IF req[s].then = "idle" THEN Finish(s)
       ELSE Continue(s, [req[s] EXCEPT !.pc = req[s].then, !.then = "idle"])
    /\ UNCHANGED <<account, otps, resetJwt, history>>

\* revokeAllUserTokens and revokeAllAdminTokens: tokens that have expired but are not
\* revoked yet are revoked with the others.
RevokeAllTokens(s) ==
    /\ req[s].pc = "revoke"
    /\ token' = [t \in Tokens |-> IF token[t].owner = req[s].a THEN Revoked(t) ELSE token[t]]
    /\ IF req[s].then = "idle" THEN Finish(s)
       ELSE Continue(s, [req[s] EXCEPT !.pc = req[s].then, !.then = "idle"])
    /\ UNCHANGED <<account, otps, resetJwt, history>>

\* The 30 days of a token are over; the row is not touched.
TokenExpires ==
    /\ \E t \in Tokens : /\ token[t].state = "active"
                         /\ token' = [token EXCEPT ![t].state = "expired"]
    /\ UNCHANGED <<account, otps, resetJwt, history, control>>

\* refreshAccessToken: a live token of a live account buys an access token and stays as it
\* is; an expired one is revoked.
RefreshAccessToken(t) ==
    \/ /\ token[t].state = "active"
       /\ Live(token[t].owner)
       /\ token[t].exchanges < MaxExchanges
       /\ token' = [token EXCEPT ![t].exchanges = @ + 1]
       /\ UNCHANGED <<account, otps, resetJwt, history, control>>
    \/ /\ token[t].state = "expired"
       /\ token' = [token EXCEPT ![t] = Revoked(t)]
       /\ UNCHANGED <<account, otps, resetJwt, history, control>>

\* logout: the token named is revoked, if there is one, then all the tokens of a customer.
\* revokeAllUserTokens finds nothing under the id of an administrator.
Logout(s) ==
    /\ \E a \in Accounts :
         /\ Live(a)
         /\ \/ UNCHANGED token
            \/ \E t \in Tokens : /\ token[t].owner = a
                                 /\ token' = [token EXCEPT ![t] = Revoked(t)]
         /\ Start(s, IF a \in Users THEN [Idle EXCEPT !.pc = "revoke", !.a = a] ELSE Idle)
    /\ UNCHANGED <<account, otps, resetJwt, history>>

--------------------------------------------------------------------------------
TokenStep(s) == GenerateRefreshToken(s) \/ RevokeAllTokens(s)
================================================================================
