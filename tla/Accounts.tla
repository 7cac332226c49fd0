------------------------------ MODULE Accounts ------------------------------
(***************************************************************************)
(* One user's account: registration, the code that verifies it, logins     *)
(* that count failures and lock, and administrators who suspend it or let  *)
(* it in again.  Every request reads the user's row and later writes       *)
(* columns computed from what it read, without a transaction or a lock.    *)
(*                                                                         *)
(* Sessions are those of module Tokens.  A request reads the row and the   *)
(* code in one step here: what it checks of the code cannot become         *)
(* acceptable between the two reads.                                       *)
(***************************************************************************)
EXTENDS Naturals, FiniteSets

CONSTANTS
    Callers,        \* the requests under way
    MaxFailures,    \* failed logins that lock the account: 5
    MaxAttempts,    \* max_attempts of a registration code: 3
    LastFailure     \* bound: failed logins

ASSUME AttemptsAssumption ==
    MaxFailures \in Nat \ {0} /\ MaxAttempts \in Nat \ {0} /\ LastFailure \in Nat

VARIABLES
    user,       \* identity.user and whether it has its identity.buyer_profile
    code,       \* its identity.otp_code for the registration
    handler,    \* handler[r]: what request r has read and is about to write
    failed,     \* history: logins with a wrong password
    presented   \* history: the right code was presented

accountVars == <<user, code, handler, failed, presented>>

-----------------------------------------------------------------------------
NoUser == [at |-> "none", active |-> FALSE, verified |-> FALSE, failures |-> 0, locked |-> FALSE]
NoCode == [at |-> "none", attempts |-> 0]
NoRequest == [at |-> "idle"]

AccountsInit ==
    /\ user = NoUser
    /\ code = NoCode
    /\ handler = [r \in Callers |-> NoRequest]
    /\ failed = 0
    /\ presented = FALSE

Ends(r) == handler' = [handler EXCEPT ![r] = NoRequest]
Continues(r, at) == handler' = [handler EXCEPT ![r] = [at |-> at, read |-> user]]

-----------------------------------------------------------------------------
(* Registration: three statements, and a request may stop after any. *)

CreateUser(r) ==
    /\ handler[r] = NoRequest
    /\ user = NoUser
    /\ user' = [NoUser EXCEPT !.at = "user", !.active = TRUE]
    /\ handler' = [handler EXCEPT ![r] = [at |-> "register"]]
    /\ UNCHANGED <<code, failed, presented>>

CreateBuyerProfile(r) ==
    /\ handler[r].at = "register" /\ user.at = "user"
    /\ user' = [user EXCEPT !.at = "profile"]
    /\ UNCHANGED <<code, handler, failed, presented>>

CreateOTPCode(r) ==
    /\ handler[r].at = "register" /\ user.at = "profile"
    /\ code' = [at |-> "live", attempts |-> 0]
    /\ Ends(r)
    /\ UNCHANGED <<user, failed, presented>>

CodeExpires ==
    /\ code.at = "live"
    /\ code' = [code EXCEPT !.at = "expired"]
    /\ UNCHANGED <<user, handler, failed, presented>>

\* VerifyRegistration with the right code, or with a wrong one.
VerifyRegistration(r) ==
    /\ handler[r] = NoRequest
    /\ code.at = "live" /\ code.attempts < MaxAttempts
    /\ \/ Continues(r, "use") /\ presented' = TRUE
       \/ Continues(r, "wrongCode") /\ UNCHANGED presented
    /\ UNCHANGED <<user, code, failed>>

IncrementOTPAttempts(r) ==
    /\ handler[r].at = "wrongCode"
    /\ code' = [code EXCEPT !.attempts = @ + 1]
    /\ Ends(r)
    /\ UNCHANGED <<user, failed, presented>>

\* The code is marked as used, or is not: the error is dropped, and the user is
\* verified all the same.
UseOTPCode(r) ==
    /\ handler[r].at = "use"
    /\ code' \in {code, [code EXCEPT !.at = "used"]}
    /\ handler' = [handler EXCEPT ![r].at = "verify"]
    /\ UNCHANGED <<user, failed, presented>>

-----------------------------------------------------------------------------
(* Administration and what both write *)

\* The statement of UpdateUser: the flags of the row as it was read, but for
\* the one the request is about.
WriteFlags(active, verified) ==
    user' = [user EXCEPT !.active = active, !.verified = verified]

VerifyUser(r) ==
    /\ handler[r].at = "verify"
    /\ WriteFlags(handler[r].read.active, TRUE)
    /\ Ends(r)
    /\ UNCHANGED <<code, failed, presented>>

\* UpdateUser, which may leave is_active as it read it, and SuspendUser.
GetUserByID(r) ==
    /\ handler[r] = NoRequest
    /\ user # NoUser
    /\ \E to \in {"keep", "admit", "suspend"} : Continues(r, to)
    /\ UNCHANGED <<user, code, failed, presented>>

SetActive(r) ==
    LET h == handler[r]
    IN  /\ h.at \in {"keep", "admit", "suspend"}
        /\ WriteFlags(IF h.at = "keep" THEN h.read.active ELSE h.at = "admit", h.read.verified)
        /\ Ends(r)
        /\ UNCHANGED <<code, failed, presented>>

-----------------------------------------------------------------------------
(* Logins *)

\* Login up to the password.
Login(r) ==
    /\ handler[r] = NoRequest
    /\ user # NoUser /\ ~user.locked /\ user.active
    /\ \/ failed < LastFailure /\ failed' = failed + 1 /\ Continues(r, "wrongPassword")
       \/ Continues(r, "login") /\ UNCHANGED failed
    /\ UNCHANGED <<user, code, presented>>

\* Test variant: the lock comes one failure early.
LocksEarly(failures) == failures + 1 >= MaxFailures

Locks(failures) == failures >= MaxFailures

UpdateUserLoginAttempts(r) ==
    LET failures == handler[r].read.failures + 1
    IN  /\ handler[r].at = "wrongPassword"
        /\ user' = [user EXCEPT !.failures = failures, !.locked = Locks(failures)]
        /\ Ends(r)
        /\ UNCHANGED <<code, failed, presented>>

UpdateUserLastLogin(r) ==
    /\ handler[r].at = "login"
    /\ user' = [user EXCEPT !.failures = 0, !.locked = FALSE]
    /\ Ends(r)
    /\ UNCHANGED <<code, failed, presented>>

LockExpires ==
    /\ user.locked
    /\ user' = [user EXCEPT !.locked = FALSE]
    /\ UNCHANGED <<code, handler, failed, presented>>

\* The request stops: what it has written stays.
RequestStops(r) ==
    /\ handler[r] # NoRequest
    /\ Ends(r)
    /\ UNCHANGED <<user, code, failed, presented>>

AccountsNext ==
    \/ \E r \in Callers :
           \/ CreateUser(r) \/ CreateBuyerProfile(r) \/ CreateOTPCode(r)
           \/ VerifyRegistration(r) \/ IncrementOTPAttempts(r) \/ UseOTPCode(r) \/ VerifyUser(r)
           \/ GetUserByID(r) \/ SetActive(r)
           \/ Login(r) \/ UpdateUserLoginAttempts(r) \/ UpdateUserLastLogin(r)
           \/ RequestStops(r)
    \/ CodeExpires \/ LockExpires

-----------------------------------------------------------------------------
Rows == [at : {"none", "user", "profile"}, active : BOOLEAN, verified : BOOLEAN,
         failures : Nat, locked : BOOLEAN]
HandlerType == {NoRequest} \cup [at : {"register"}] \cup
    [at : {"use", "verify", "wrongCode", "keep", "admit", "suspend", "wrongPassword", "login"},
     read : Rows]

\* Every variable has the form its table gives it, and no login fails more
\* often than the bound.
AccountsTypeOK ==
    /\ user \in Rows
    /\ code \in [at : {"none", "live", "expired", "used"}, attempts : Nat]
    /\ handler \in [Callers -> HandlerType]
    /\ failed \in 0..LastFailure
    /\ presented \in BOOLEAN

\* Whatever rows are written back from reads that had grown old, an account
\* is verified only after its code was presented, and locked only after as
\* many wrong passwords as lock it (VerifyRegistration, UpdateUser, Login).
FlagsAreEarned ==
    /\ user.verified => presented
    /\ user.locked => failed >= MaxFailures
=============================================================================
