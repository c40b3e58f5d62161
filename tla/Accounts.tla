------------------------------- MODULE Accounts -------------------------------
(***************************************************************************)
(* One local account, and the requests that change its row in the users    *)
(* table at the same time. There are two ways to write it:                 *)
(*                                                                         *)
(*   - UpdateAtomic reads, changes and writes the row in one step (a store *)
(*     lock, or SELECT FOR UPDATE in a transaction). The flows around      *)
(*     one-time codes use it;                                              *)
(*   - FindByID and Update write back the whole row that was read.         *)
(*     UpdateUser, ChangePassword and the admin's ResetPassword do, with a *)
(*     slow hash in between.                                               *)
(*                                                                         *)
(* Every operation reads the clock once, and may act on that reading later. *)
(***************************************************************************)
EXTENDS Naturals, Sequences

CONSTANTS
    Slots,          \* requests that can be in flight at the same time
    Operations,     \* what they ask for
    Origins,        \* how the account may have come to be
    Roles, Requester,  \* roles; the one that may reset passwords by code
    TTL,            \* otpTTL
    MaxAttempts,    \* otpMaxAttempts
    Lockout,        \* otpLockoutDuration
    MayFail,        \* whether requests and the process may end anywhere
    MaxTime, MaxCodes, MaxPasswords, MaxGuesses   \* bounds

ASSUME AccountConstantsAssumption ==
    /\ TTL \in Nat \ {0} /\ MaxAttempts \in Nat \ {0} /\ Lockout \in Nat \ {0}
    /\ MayFail \in BOOLEAN
    /\ Requester \in Roles
    /\ Origins \subseteq {"signed up", "provisioned", "bootstrap"}
    /\ {MaxTime, MaxCodes, MaxPasswords, MaxGuesses} \subseteq Nat

VARIABLES
    user,       \* the row
    now,        \* the clock
    stage,      \* the step each request makes next
    request,    \* what it was asked for
    at,         \* the time it has read
    row,        \* the whole row it will write back, if it does
    codes,      \* ids of codes handed out so far: 1..codes
    passwords,  \* ids of passwords chosen so far: 1..passwords
    used,       \* codes that were accepted
    usedTwice,  \* codes that were accepted again
    wrong,      \* times of the wrong guesses since the last accepted code
    former,     \* passwords the account once had
    origin      \* how the account came to be

slotVars == <<stage, request, at, row>>
history == <<used, usedTwice, wrong, former, origin>>
vars == <<user, now, slotVars, codes, passwords, history>>

-----------------------------------------------------------------------------
(* The row. A time of 0, or a code with id 0, stands for nil.              *)

NoCode == [id |-> 0, expires |-> 0]

Codes == [id : Nat, expires : Nat]

Password == [id : Nat, temporary : BOOLEAN]

User ==
    [password : Password, requiresPasswordChange : BOOLEAN,
     isActive : BOOLEAN, role : Roles, emailVerified : BOOLEAN,
     verification : Codes, reset : Codes,
     failedOTPAttempts : Nat, otpLockedUntil : Nat]

\* The rows SignUp, CreateUser and SeedBootstrapUsers create. Code 1 is the one
\* sent at sign-up.
NewUser(how, role) ==
    [password |-> [id |-> 1, temporary |-> how = "provisioned"],
     requiresPasswordChange |-> how = "provisioned",
     isActive |-> TRUE,
     role |-> role,
     emailVerified |-> how # "signed up",
     verification |->
        IF how = "signed up" THEN [id |-> 1, expires |-> TTL] ELSE NoCode,
     reset |-> NoCode,
     failedOTPAttempts |-> 0,
     otpLockedUntil |-> 0]

\* What PATCH /users/{id} may carry. (With neither field the row is written back
\* as it was read, like a patch with the role the user has.)
Patches == [isActive : BOOLEAN] \cup [role : Roles]
             \cup [isActive : BOOLEAN, role : Roles]

\* Mutant: the patch replaces the row.
PatchedOnly(u, patch) == patch

Patched(u, patch) ==
    [f \in DOMAIN u |-> IF f \in DOMAIN patch THEN patch[f] ELSE u[f]]

-----------------------------------------------------------------------------
(* Requests.                                                               *)

NoRequest == [op |-> "none"]
NoRow == [none |-> TRUE]

Idle(r) == stage[r] = "idle"

Init ==
    /\ origin \in Origins
    /\ \E role \in Roles :
        /\ origin = "signed up" => role = Requester
        /\ user = NewUser(origin, role)
    /\ now = 0
    /\ stage = [r \in Slots |-> "idle"]
    /\ request = [r \in Slots |-> NoRequest]
    /\ at = [r \in Slots |-> 0]
    /\ row = [r \in Slots |-> NoRow]
    /\ codes = 1
    /\ passwords = 1
    /\ used = {} /\ usedTwice = {}
    /\ wrong = <<>>
    /\ former = {}

Begin(r, q, first, seen) ==
    /\ q.op \in Operations
    /\ Idle(r)
    /\ stage' = [stage EXCEPT ![r] = first]
    /\ request' = [request EXCEPT ![r] = q]
    /\ at' = [at EXCEPT ![r] = now]
    /\ row' = [row EXCEPT ![r] = seen]

Finish(r) ==
    /\ stage' = [stage EXCEPT ![r] = "idle"]
    /\ request' = [request EXCEPT ![r] = NoRequest]
    /\ at' = [at EXCEPT ![r] = 0]
    /\ row' = [row EXCEPT ![r] = NoRow]

GoOn(r, next) ==
    /\ stage' = [stage EXCEPT ![r] = next]
    /\ UNCHANGED <<request, at, row>>

\* The row is written; a password it replaces is a former one.
Store(u) ==
    /\ user' = u
    /\ former' = IF u.password = user.password
                 THEN former ELSE former \cup {user.password}

Tick ==
    /\ now < MaxTime
    /\ now' = now + 1
    /\ UNCHANGED <<user, slotVars, codes, passwords, history>>

-----------------------------------------------------------------------------
(* One-time codes: RequestPasswordReset (RequestReset, StoreCode),         *)
(* CompletePasswordReset (Guess, one of the outcomes of consumeOTP,        *)
(* SetPassword) and VerifyEmail (Guess and an outcome).                    *)

\* Mutant: the code is stored with Update instead of UpdateAtomic.
RequestResetUnlocked(r) ==
    /\ user.role = Requester
    /\ codes < MaxCodes
    /\ codes' = codes + 1
    /\ Begin(r, [op |-> "RequestReset"], "writing",
             [user EXCEPT !.reset = [id |-> codes + 1, expires |-> now + TTL]])
    /\ UNCHANGED <<user, now, passwords, history>>

\* Accounts of other roles are passed over in silence.
RequestReset(r) ==
    /\ user.role = Requester
    /\ codes < MaxCodes
    /\ Begin(r, [op |-> "RequestReset"], "storing", NoRow)
    /\ UNCHANGED <<user, now, codes, passwords, history>>

StoreCode(r) ==
    /\ stage[r] = "storing"
    /\ codes' = codes + 1
    /\ Store([user EXCEPT
            !.reset = [id |-> codes + 1, expires |-> at[r] + TTL]])
    /\ Finish(r)
    /\ UNCHANGED <<now, passwords, used, usedTwice, wrong, origin>>

\* A code is sent in: one that was handed out, or (0) a guess.
Guess(r, kind, code) ==
    /\ kind = "reset" => passwords < MaxPasswords
    /\ Len(wrong) < MaxGuesses
    /\ Begin(r, [op |-> kind, code |-> code], "guessing", NoRow)
    /\ UNCHANGED <<user, now, codes, passwords, history>>

Locked(t) == t < user.otpLockedUntil

Matches(r) ==
    LET held == user[request[r].op] IN
    /\ held # NoCode
    /\ at[r] < held.expires
    /\ request[r].code = held.id

RefuseLocked(r) ==
    /\ stage[r] = "guessing"
    /\ Locked(at[r])
    /\ Finish(r)
    /\ UNCHANGED <<user, now, codes, passwords, history>>

\* Mutant: the code is not cleared.
AcceptAgain(r) ==
    LET kind == request[r].op
        code == request[r].code IN
    /\ stage[r] = "guessing"
    /\ ~Locked(at[r]) /\ Matches(r)
    /\ Store([user EXCEPT
            !.emailVerified = @ \/ kind = "verification",
            !.failedOTPAttempts = 0, !.otpLockedUntil = 0])
    /\ used' = used \cup {code}
    /\ usedTwice' = IF code \in used THEN usedTwice \cup {code} ELSE usedTwice
    /\ wrong' = <<>>
    /\ IF kind = "reset" THEN GoOn(r, "resetting") ELSE Finish(r)
    /\ UNCHANGED <<now, codes, passwords, origin>>

\* Mutant: whoever has a right code has verified his address.
AcceptVerifying(r) ==
    LET kind == request[r].op
        code == request[r].code IN
    /\ stage[r] = "guessing"
    /\ ~Locked(at[r]) /\ Matches(r)
    /\ Store([user EXCEPT
            ![kind] = NoCode, !.emailVerified = TRUE,
            !.failedOTPAttempts = 0, !.otpLockedUntil = 0])
    /\ used' = used \cup {code}
    /\ usedTwice' = IF code \in used THEN usedTwice \cup {code} ELSE usedTwice
    /\ wrong' = <<>>
    /\ IF kind = "reset" THEN GoOn(r, "resetting") ELSE Finish(r)
    /\ UNCHANGED <<now, codes, passwords, origin>>

Accept(r) ==
    LET kind == request[r].op
        code == request[r].code IN
    /\ stage[r] = "guessing"
    /\ ~Locked(at[r]) /\ Matches(r)
    /\ Store([user EXCEPT
            ![kind] = NoCode,
            !.emailVerified = @ \/ kind = "verification",
            !.failedOTPAttempts = 0, !.otpLockedUntil = 0])
    /\ used' = used \cup {code}
    /\ usedTwice' = IF code \in used THEN usedTwice \cup {code} ELSE usedTwice
    /\ wrong' = <<>>
    /\ IF kind = "reset" THEN GoOn(r, "resetting") ELSE Finish(r)
    /\ UNCHANGED <<now, codes, passwords, origin>>

\* Mutant: only the guess that reaches the limit locks.
CountFailureOnce(r) ==
    LET attempts == user.failedOTPAttempts + 1 IN
    /\ stage[r] = "guessing"
    /\ ~Locked(at[r]) /\ ~Matches(r)
    /\ Store([user EXCEPT
            !.failedOTPAttempts = attempts,
            !.otpLockedUntil =
                IF attempts = MaxAttempts THEN at[r] + Lockout ELSE @])
    /\ wrong' = Append(wrong, at[r])
    /\ Finish(r)
    /\ UNCHANGED <<now, codes, passwords, used, usedTwice, origin>>

\* The count is not cleared when a lock ends: from then on each wrong guess
\* locks again, until a code is accepted.
CountFailure(r) ==
    LET attempts == user.failedOTPAttempts + 1 IN
    /\ stage[r] = "guessing"
    /\ ~Locked(at[r]) /\ ~Matches(r)
    /\ Store([user EXCEPT
            !.failedOTPAttempts = attempts,
            !.otpLockedUntil =
                IF attempts >= MaxAttempts THEN at[r] + Lockout ELSE @])
    /\ wrong' = Append(wrong, at[r])
    /\ Finish(r)
    /\ UNCHANGED <<now, codes, passwords, used, usedTwice, origin>>

Chosen(n) == [id |-> n, temporary |-> FALSE]

\* Mutant: the code is cleared once more, to be sure.
SetPasswordClearing(r) ==
    /\ stage[r] = "resetting"
    /\ Store([user EXCEPT !.password = Chosen(passwords + 1), !.reset = NoCode])
    /\ passwords' = passwords + 1
    /\ Finish(r)
    /\ UNCHANGED <<now, codes, used, usedTwice, wrong, origin>>

SetPassword(r) ==
    /\ stage[r] = "resetting"
    /\ Store([user EXCEPT !.password = Chosen(passwords + 1)])
    /\ passwords' = passwords + 1
    /\ Finish(r)
    /\ UNCHANGED <<now, codes, used, usedTwice, wrong, origin>>

\* The code was right but the new password is too short or too long.
RejectPassword(r) ==
    /\ stage[r] = "resetting"
    /\ Finish(r)
    /\ UNCHANGED <<user, now, codes, passwords, history>>

-----------------------------------------------------------------------------
(* Operations that write back the whole row.                               *)

UpdateUser(r, patch) ==
    /\ Begin(r, [op |-> "UpdateUser", patch |-> patch], "writing",
             Patched(user, patch))
    /\ UNCHANGED <<user, now, codes, passwords, history>>

\* By somebody who knows the password; anybody else is refused.
ChangePassword(r) ==
    /\ passwords < MaxPasswords
    /\ passwords' = passwords + 1
    /\ Begin(r, [op |-> "ChangePassword"], "writing",
             [user EXCEPT !.password = Chosen(passwords + 1),
                          !.requiresPasswordChange = FALSE])
    /\ UNCHANGED <<user, now, codes, history>>

\* Mutant: the flag is left as it is.
ResetPasswordUnmarked(r) ==
    /\ passwords < MaxPasswords
    /\ passwords' = passwords + 1
    /\ Begin(r, [op |-> "ResetPassword"], "writing",
             [user EXCEPT
                !.password = [id |-> passwords + 1, temporary |-> TRUE]])
    /\ UNCHANGED <<user, now, codes, history>>

\* By an admin, or a supervisor of the user.
ResetPassword(r) ==
    /\ passwords < MaxPasswords
    /\ passwords' = passwords + 1
    /\ Begin(r, [op |-> "ResetPassword"], "writing",
             [user EXCEPT
                !.password = [id |-> passwords + 1, temporary |-> TRUE],
                !.requiresPasswordChange = TRUE])
    /\ UNCHANGED <<user, now, codes, history>>

WriteBack(r) ==
    /\ stage[r] = "writing"
    /\ Store(row[r])
    /\ Finish(r)
    /\ UNCHANGED <<now, codes, passwords, used, usedTwice, wrong, origin>>

-----------------------------------------------------------------------------
(* Failures.                                                               *)

\* A statement fails or the client is gone: UpdateAtomic rolls back, and what
\* was written before stays.
Fail(r) ==
    /\ MayFail
    /\ ~Idle(r)
    /\ Finish(r)
    /\ UNCHANGED <<user, now, codes, passwords, history>>

\* Mutant: a seed that conflicts with a row updates its password.
RestartReseeding ==
    /\ MayFail
    /\ stage' = [r \in Slots |-> "idle"]
    /\ request' = [r \in Slots |-> NoRequest]
    /\ at' = [r \in Slots |-> 0]
    /\ row' = [r \in Slots |-> NoRow]
    /\ Store(IF origin = "bootstrap"
             THEN [user EXCEPT !.password = [id |-> 1, temporary |-> FALSE]]
             ELSE user)
    /\ UNCHANGED <<now, codes, passwords, used, usedTwice, wrong, origin>>

\* The process starts again on the same database: requests are lost. The seeds
\* are inserted where no row has their id, and a bootstrap account has had its
\* row since the first start; other accounts never have the id of a seed.
Restart ==
    /\ MayFail
    /\ stage' = [r \in Slots |-> "idle"]
    /\ request' = [r \in Slots |-> NoRequest]
    /\ at' = [r \in Slots |-> 0]
    /\ row' = [r \in Slots |-> NoRow]
    /\ UNCHANGED <<user, now, codes, passwords, history>>

Next ==
    \/ Tick
    \/ Restart
    \/ \E r \in Slots :
        \/ RequestReset(r) \/ StoreCode(r)
        \/ \E kind \in {"verification", "reset"}, code \in 0..codes :
                Guess(r, kind, code)
        \/ RefuseLocked(r) \/ Accept(r) \/ CountFailure(r)
        \/ SetPassword(r) \/ RejectPassword(r)
        \/ \E patch \in Patches : UpdateUser(r, patch)
        \/ ChangePassword(r) \/ ResetPassword(r) \/ WriteBack(r)
        \/ Fail(r)

Spec == Init /\ [][Next]_vars

-----------------------------------------------------------------------------
(* Properties.                                                             *)

\* The types of the row and of what is in flight.
TypeOK ==
    /\ user \in User
    /\ now \in Nat /\ codes \in Nat /\ passwords \in Nat
    /\ stage \in [Slots -> {"idle", "storing", "guessing", "resetting",
                            "writing"}]
    /\ at \in [Slots -> Nat]
    /\ DOMAIN request = Slots /\ DOMAIN row = Slots
    /\ wrong \in Seq(Nat)
    /\ \A r \in Slots :
        /\ stage[r] = "guessing" => request[r].op \in {"verification", "reset"}
        /\ stage[r] = "writing" => row[r] \in User

\* Whoever has a password that was made up for him must change it before he
\* does anything else, whatever else happens to the account meanwhile: password
\* and flag are always written together, or the password is one he chose.
TemporaryPasswordsMustBeChanged ==
    user.password.temporary => user.requiresPasswordChange

\* The address of an account that signed itself up is taken for verified only
\* after the code sent there came back.
VerifiedByCode ==
    origin = "signed up" /\ user.emailVerified => 1 \in used

\* A one-time code is accepted once, however the flows around codes overlap: the
\* row is checked and the code cleared in the same step. (A patch or a change of
\* password that read the row before can bring a used code back.)
CodesAreUsedOnce == usedTwice = {}

\* The reset code handed out last is good until it is used: neither a reset that
\* completes nor one that fails, nor another request for a code, takes it away.
NewestCodeSurvives ==
    codes > 1 => user.reset.id = codes \/ codes \in used

\* Without a right code in between, the first MaxAttempts wrong guesses are
\* looked at when they come, and each later one at least Lockout after the one
\* before, although requests carry times that are older than the lock.
WrongGuessesAreSpaced ==
    \A k \in DOMAIN wrong :
        k > MaxAttempts => wrong[k] >= wrong[k-1] + Lockout

\* A password that was replaced comes back in one way only: with a patch that
\* read the row before it was replaced. No change or reset of the password that
\* overlaps with another, no flow around codes, no failure, and no restart that
\* seeds the account again brings one back.
OnlyPatchesBringPasswordsBack ==
    [][user'.password # user.password /\ user'.password \in former =>
        \E r \in Slots :
            /\ stage[r] = "writing" /\ request[r].op = "UpdateUser"
            /\ user' = row[r]]_vars

\* What UpdateUserInput says: "a nil field is left unchanged".
NilFieldsAreLeftUnchanged ==
    [][\A r \in Slots :
        stage[r] = "writing" /\ request[r].op = "UpdateUser"
            /\ stage'[r] = "idle" /\ user' # user =>
                \A f \in DOMAIN user \ DOMAIN request[r].patch :
                    user'[f] = user[f]]_vars
=============================================================================
