------------------------------- MODULE Tokens -------------------------------
(***************************************************************************)
(* Refresh tokens: a login starts a family with one token, each refresh    *)
(* replaces the token it was called with by a successor, and a logout      *)
(* revokes the family.                                                     *)
(*                                                                         *)
(* Each of them reads the token first and writes in a statement of its     *)
(* own.  A statement sees the rows that were committed when it began and   *)
(* waits for the locks of others; it checks a row it waited for again, but *)
(* never sees a row inserted in the meantime.                              *)
(***************************************************************************)
EXTENDS Naturals, FiniteSets

CONSTANTS
    Families,   \* logins
    LastToken,  \* bound: tokens ever issued
    Devices     \* concurrent requests

ASSUME LastTokenAssumption == LastToken \in Nat

VARIABLES
    token,      \* identity.refresh_token: family and whether it is revoked
    device      \* what each request has read

tokenVars == <<token, device>>

-----------------------------------------------------------------------------
Numbered == 1..LastToken

Unissued == [family |-> "none", live |-> FALSE]
AtRest == [at |-> "rest"]

Live(f) == {t \in Numbered : token[t] = [family |-> f, live |-> TRUE]}
RowLocks == {t \in Numbered : \E d \in Devices : device[d] = [at |-> "rotating", token |-> t]}

Turn(d, s) == device' = [device EXCEPT ![d] = s]

TokensInit ==
    /\ token = [t \in Numbered |-> Unissued]
    /\ device = [d \in Devices |-> AtRest]

\* The next code, unused so far.
IsNext(t) == token[t] = Unissued /\ \A u \in 1..(t - 1) : token[u] # Unissued

\* generateTokens: a family of its own for each login.
GenerateTokens(f) == \E t \in Numbered :
    /\ IsNext(t)
    /\ \A u \in Numbered : token[u].family # f
    /\ token' = [token EXCEPT ![t] = [family |-> f, live |-> TRUE]]
    /\ UNCHANGED device

Abandon(d) ==
    /\ device[d] # AtRest
    /\ Turn(d, AtRest)
    /\ UNCHANGED token

-----------------------------------------------------------------------------
RefreshToken(d, t) ==
    /\ device[d] = AtRest
    /\ token[t].live
    /\ Turn(d, [at |-> "rotate", token |-> t])
    /\ UNCHANGED token

\* Test variant: the statement does not look at revoked_at any more.
RotateRevoked(d) ==
    /\ device[d].at = "rotate"
    /\ device[d].token \notin RowLocks
    /\ Turn(d, [device[d] EXCEPT !.at = "rotating"])
    /\ UNCHANGED token

\* ReplaceRefreshToken: the old row is locked, unless it has been revoked ...
ReplaceRefreshToken(d) ==
    /\ device[d].at = "rotate"
    /\ device[d].token \notin RowLocks
    /\ token[device[d].token].live
    /\ Turn(d, [device[d] EXCEPT !.at = "rotating"])
    /\ UNCHANGED token

\* ... and revoked with the insertion of its successor.
ReplaceCommit(d) == \E t \in Numbered :
    LET old == device[d].token IN
    /\ device[d].at = "rotating"
    /\ IsNext(t)
    /\ token' = [token EXCEPT ![old].live = FALSE,
                              ![t] = [family |-> token[old].family, live |-> TRUE]]
    /\ Turn(d, AtRest)

-----------------------------------------------------------------------------
Logout(d, t) ==
    /\ device[d] = AtRest
    /\ token[t].live
    /\ Turn(d, [at |-> "logout", family |-> token[t].family])
    /\ UNCHANGED token

\* RevokeRefreshTokenFamily: the rows it sees ...
RevokeRefreshTokenFamily(d) ==
    /\ device[d].at = "logout"
    /\ Turn(d, [at |-> "revoking", tokens |-> Live(device[d].family)])
    /\ UNCHANGED token

\* ... are revoked once nobody else holds them.
RevokeCommit(d) ==
    /\ device[d].at = "revoking"
    /\ device[d].tokens \cap RowLocks = {}
    /\ token' = [t \in Numbered |->
           IF t \in device[d].tokens THEN [token[t] EXCEPT !.live = FALSE] ELSE token[t]]
    /\ Turn(d, AtRest)

TokensNext ==
    \/ \E f \in Families : GenerateTokens(f)
    \/ \E d \in Devices :
         \/ ReplaceRefreshToken(d) \/ ReplaceCommit(d)
         \/ RevokeRefreshTokenFamily(d) \/ RevokeCommit(d) \/ Abandon(d)
         \/ \E t \in Numbered : RefreshToken(d, t) \/ Logout(d, t)

TokensSpec == TokensInit /\ [][TokensNext]_tokenVars

-----------------------------------------------------------------------------
(* Properties *)

TokensTypeOK ==
    /\ token \in [Numbered -> [family : Families \cup {"none"}, live : BOOLEAN]]
    /\ device \in [Devices ->
           {AtRest} \cup [at : {"rotate", "rotating"}, token : Numbered]
           \cup [at : {"logout"}, family : Families]
           \cup [at : {"revoking"}, tokens : SUBSET Numbered]]

\* A family has at most one token that works: requests that refresh one token
\* at once get one successor between them, and a refresh that races a logout
\* revives nothing (ReplaceRefreshToken).
OneLivePerFamily == \A f \in Families : Cardinality(Live(f)) <= 1
=============================================================================
