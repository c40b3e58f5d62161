---------------------------- MODULE AccountsProofs ----------------------------
(***************************************************************************)
(* Accounts for any number of overlapping requests, and any TTL, limit of  *)
(* attempts and lockout. What is proved of codes and guesses is about the  *)
(* flows that change the row with UpdateAtomic alone: an operation that    *)
(* writes a whole row back can undo what they did in between, as the run   *)
(* MCAccountsPatch shows.                                                  *)
(***************************************************************************)
EXTENDS Accounts, TLAPS

\* What an admin and the owner of the account do is left out.
AtomicOnly == Operations \subseteq {"RequestReset", "verification", "reset"}

LEMMA TimesAreNatural ==
    TTL \in Nat /\ MaxAttempts \in Nat /\ MaxAttempts # 0 /\ Lockout \in Nat
<1>1. TTL \in Nat \ {0} /\ MaxAttempts \in Nat \ {0} /\ Lockout \in Nat \ {0}
  BY Zenon, AccountConstantsAssumption
<1> QED BY <1>1

-----------------------------------------------------------------------------
(* Types.                                                                  *)

Stages == {"idle", "storing", "guessing", "resetting", "writing"}

SlotsTyped ==
    /\ stage \in [Slots -> Stages]
    /\ at \in [Slots -> Nat]
    /\ DOMAIN request = Slots /\ DOMAIN row = Slots

OthersStay(r) ==
    \A s \in Slots \ {r} :
        /\ stage'[s] = stage[s] /\ request'[s] = request[s]
        /\ at'[s] = at[s] /\ row'[s] = row[s]

LEMMA SlotBegins ==
    ASSUME SlotsTyped, now \in Nat, NEW r \in Slots, NEW q, NEW first \in Stages,
           NEW seen, Begin(r, q, first, seen)
    PROVE  /\ SlotsTyped' /\ OthersStay(r)
           /\ stage[r] = "idle" /\ q.op \in Operations
           /\ stage'[r] = first /\ request'[r] = q /\ row'[r] = seen
  BY DEF SlotsTyped, Begin, OthersStay, Idle

LEMMA SlotFinishes ==
    ASSUME SlotsTyped, NEW r \in Slots, Finish(r)
    PROVE  SlotsTyped' /\ OthersStay(r) /\ stage'[r] = "idle"
  BY DEF SlotsTyped, Finish, OthersStay, Stages

LEMMA SlotGoesOn ==
    ASSUME SlotsTyped, NEW r \in Slots, NEW next \in Stages, GoOn(r, next)
    PROVE  /\ SlotsTyped' /\ OthersStay(r)
           /\ stage'[r] = next /\ request'[r] = request[r] /\ row'[r] = row[r]
  BY DEF SlotsTyped, GoOn, OthersStay

LEMMA NewUserTyped ==
    ASSUME NEW how, NEW role \in Roles
    PROVE  NewUser(how, role) \in User
  BY TimesAreNatural
  DEF NewUser, User, Password, Codes, NoCode

LEMMA PatchedTyped ==
    ASSUME NEW u \in User, NEW patch \in Patches
    PROVE  /\ Patched(u, patch) \in User
           /\ Patched(u, patch).password = u.password
           /\ Patched(u, patch).requiresPasswordChange = u.requiresPasswordChange
  BY DEF Patched, Patches, User

\* The rows the operations around codes write.
LEMMA CodeStored ==
    ASSUME user \in User, NEW code \in Codes
    PROVE  [user EXCEPT !.reset = code] \in User
  BY DEF User

LEMMA FailureCounted ==
    ASSUME user \in User, NEW n \in Nat, NEW t \in Nat
    PROVE  [user EXCEPT !.failedOTPAttempts = n, !.otpLockedUntil = t] \in User
  BY DEF User

LEMMA PasswordSet ==
    ASSUME user \in User, NEW p \in Password, NEW b \in BOOLEAN
    PROVE  /\ [user EXCEPT !.password = p] \in User
           /\ [user EXCEPT !.password = p, !.requiresPasswordChange = b] \in User
  BY DEF User

LEMMA CodeAccepted ==
    ASSUME user \in User, NEW kind \in {"verification", "reset"}
    PROVE  [user EXCEPT ![kind] = NoCode,
                        !.emailVerified = @ \/ kind = "verification",
                        !.failedOTPAttempts = 0, !.otpLockedUntil = 0] \in User
<1>1. CASE kind = "reset"
  BY <1>1 DEF User, Codes, NoCode
<1>2. CASE kind = "verification"
  BY <1>2 DEF User, Codes, NoCode
<1> QED BY <1>1, <1>2

\* What a step of one slot, and nothing else, has to leave.
SlotTyped(r) ==
    /\ stage[r] = "guessing" => request[r].op \in {"verification", "reset"}
    /\ stage[r] = "writing" =>
        /\ row[r] \in User
        /\ row[r].password.temporary => row[r].requiresPasswordChange

\* A temporary password and the order to change it go together, in the row and
\* in every row that is about to be written.
RowsAreSound ==
    /\ TypeOK
    /\ TemporaryPasswordsMustBeChanged
    /\ \A r \in Slots : SlotTyped(r)

LEMMA FromParts ==
    ASSUME RowsAreSound, NEW r \in Slots, OthersStay(r), SlotsTyped',
           SlotTyped(r)', user' \in User,
           user'.password.temporary => user'.requiresPasswordChange,
           now' \in Nat, codes' \in Nat, passwords' \in Nat, wrong' \in Seq(Nat)
    PROVE  RowsAreSound'
<1>1. \A s \in Slots : SlotTyped(s)'
  BY DEF OthersStay, SlotTyped, RowsAreSound
<1> QED BY <1>1 DEF RowsAreSound, SlotsTyped, SlotTyped, TypeOK, Stages,
                    TemporaryPasswordsMustBeChanged

LEMMA SlotsAreTyped == RowsAreSound => SlotsTyped
  BY DEF RowsAreSound, TypeOK, SlotsTyped, Stages

LEMMA InitIsSound == Init => RowsAreSound
<1> SUFFICES ASSUME Init PROVE RowsAreSound
  OBVIOUS
<1>1. PICK role \in Roles : user = NewUser(origin, role)
  BY DEF Init
<1>2. user \in User
  BY <1>1, NewUserTyped
<1>3. TemporaryPasswordsMustBeChanged
  BY <1>1 DEF NewUser, TemporaryPasswordsMustBeChanged
<1>4. /\ now = 0 /\ codes = 1 /\ passwords = 1 /\ wrong = <<>>
      /\ stage = [r \in Slots |-> "idle"] /\ at = [r \in Slots |-> 0]
      /\ request = [r \in Slots |-> NoRequest] /\ row = [r \in Slots |-> NoRow]
  BY DEF Init
<1>5. \A r \in Slots : stage[r] = "idle"
  BY <1>4
<1> QED BY <1>2, <1>3, <1>4, <1>5 DEF RowsAreSound, TypeOK, SlotTyped

\* An operation that reads the clock, and perhaps the row, and writes nothing.
LEMMA BeginningIsSound ==
    ASSUME RowsAreSound, NEW r \in Slots, NEW q, NEW seen, NEW first \in Stages,
           Begin(r, q, first, seen), UNCHANGED <<user, now, codes, history>>,
           passwords' \in Nat,
           first = "guessing" => q.op \in {"verification", "reset"},
           first = "writing" => /\ seen \in User
                                /\ seen.password.temporary =>
                                        seen.requiresPasswordChange
    PROVE  RowsAreSound'
<1>1. now \in Nat /\ SlotsTyped
  BY SlotsAreTyped DEF RowsAreSound, TypeOK
<1>2. SlotTyped(r)' /\ SlotsTyped' /\ OthersStay(r)
  BY <1>1, SlotBegins DEF SlotTyped
<1> QED BY <1>2, FromParts
        DEF history, RowsAreSound, TypeOK, TemporaryPasswordsMustBeChanged

LEMMA StepIsSound == RowsAreSound /\ [Next]_vars => RowsAreSound'
<1> SUFFICES ASSUME RowsAreSound, [Next]_vars PROVE RowsAreSound'
  OBVIOUS
<1>1. /\ SlotsTyped /\ user \in User /\ now \in Nat /\ codes \in Nat
      /\ passwords \in Nat /\ wrong \in Seq(Nat)
      /\ user.password.temporary => user.requiresPasswordChange
  BY SlotsAreTyped DEF RowsAreSound, TypeOK, TemporaryPasswordsMustBeChanged
<1>2. CASE Tick
  BY <1>1, <1>2 DEF Tick, slotVars, history, RowsAreSound, TypeOK, SlotTyped,
                    TemporaryPasswordsMustBeChanged
<1>3. CASE Restart
  BY <1>1, <1>3 DEF Restart, history, RowsAreSound, TypeOK, SlotTyped,
                    TemporaryPasswordsMustBeChanged
<1>4. ASSUME NEW r \in Slots, RequestReset(r) PROVE RowsAreSound'
  BY <1>1, <1>4, BeginningIsSound DEF RequestReset, Stages
<1>5. ASSUME NEW r \in Slots, StoreCode(r) PROVE RowsAreSound'
  <2>1. SlotsTyped' /\ OthersStay(r) /\ stage'[r] = "idle"
    BY <1>1, <1>5, SlotFinishes DEF StoreCode
  <2>2. [id |-> codes + 1, expires |-> at[r] + TTL] \in Codes
    BY <1>1, TimesAreNatural DEF SlotsTyped, Codes
  <2>3. user' \in User
    BY <1>1, <1>5, <2>2, CodeStored DEF StoreCode, Store
  <2>4. user'.password.temporary => user'.requiresPasswordChange
    BY <1>1, <1>5 DEF StoreCode, Store, User
  <2> QED BY <1>1, <1>5, <2>1, <2>3, <2>4, FromParts DEF StoreCode, SlotTyped
<1>6. ASSUME NEW r \in Slots, NEW kind \in {"verification", "reset"}, NEW code,
             Guess(r, kind, code)
      PROVE  RowsAreSound'
  BY <1>1, <1>6, BeginningIsSound DEF Guess, Stages
<1>7. ASSUME NEW r \in Slots,
             RefuseLocked(r) \/ RejectPassword(r) \/ Fail(r)
      PROVE  RowsAreSound'
  <2>1. SlotsTyped' /\ OthersStay(r) /\ stage'[r] = "idle"
    BY <1>1, <1>7, SlotFinishes DEF RefuseLocked, RejectPassword, Fail
  <2> QED BY <1>1, <1>7, <2>1, FromParts
          DEF RefuseLocked, RejectPassword, Fail, history, SlotTyped
<1>8. ASSUME NEW r \in Slots, Accept(r) PROVE RowsAreSound'
  <2>1. PICK kind \in {"verification", "reset"} : kind = request[r].op
    BY <1>8 DEF Accept, RowsAreSound, TypeOK
  <2>2. user' = [user EXCEPT ![kind] = NoCode,
                        !.emailVerified = @ \/ kind = "verification",
                        !.failedOTPAttempts = 0, !.otpLockedUntil = 0]
    BY <1>8, <2>1 DEF Accept, Store
  <2>3. user' \in User
    BY <1>1, <2>2, CodeAccepted
  <2>4. user'.password.temporary => user'.requiresPasswordChange
    <3>1. user'.password = user.password
          /\ user'.requiresPasswordChange = user.requiresPasswordChange
      BY <1>1, <2>1, <2>2 DEF User
    <3> QED BY <1>1, <3>1
  <2>5. /\ SlotsTyped' /\ OthersStay(r)
        /\ stage'[r] \in {"idle", "resetting"}
    BY <1>1, <1>8, SlotFinishes, SlotGoesOn DEF Accept, Stages
  <2>6. wrong' \in Seq(Nat)
    <3>1. wrong' = <<>>
      BY <1>8, Zenon DEF Accept
    <3> QED BY <3>1
  <2> QED BY <1>1, <1>8, <2>3, <2>4, <2>5, <2>6, FromParts DEF Accept, SlotTyped
<1>9. ASSUME NEW r \in Slots, CountFailure(r) PROVE RowsAreSound'
  <2>1. SlotsTyped' /\ OthersStay(r) /\ stage'[r] = "idle"
    BY <1>1, <1>9, SlotFinishes DEF CountFailure
  <2>2. PICK n \in Nat, t \in Nat :
            user' = [user EXCEPT !.failedOTPAttempts = n, !.otpLockedUntil = t]
    <3>1. user.failedOTPAttempts + 1 \in Nat /\ user.otpLockedUntil \in Nat
      BY <1>1 DEF User
    <3>2. at[r] + Lockout \in Nat
      BY <1>1, TimesAreNatural DEF SlotsTyped
    <3>3. user' = [user EXCEPT
            !.failedOTPAttempts = user.failedOTPAttempts + 1,
            !.otpLockedUntil =
                IF user.failedOTPAttempts + 1 >= MaxAttempts
                THEN at[r] + Lockout ELSE @]
      BY <1>9, Zenon DEF CountFailure, Store
    <3>4. PICK t \in Nat :
            t = IF user.failedOTPAttempts + 1 >= MaxAttempts
                THEN at[r] + Lockout ELSE user.otpLockedUntil
      BY <3>1, <3>2
    <3>5. user' = [user EXCEPT !.failedOTPAttempts = user.failedOTPAttempts + 1,
                               !.otpLockedUntil = t]
      BY <1>1, <3>3, <3>4 DEF User
    <3> QED BY <3>1, <3>5
  <2>3. user' \in User
    BY <1>1, <2>2, FailureCounted
  <2>4. user'.password.temporary => user'.requiresPasswordChange
    BY <1>1, <2>2 DEF User
  <2>5. wrong' \in Seq(Nat)
    <3>1. wrong' = Append(wrong, at[r])
      BY <1>9, Zenon DEF CountFailure
    <3> QED BY <1>1, <3>1 DEF SlotsTyped
  <2> QED BY <1>1, <1>9, <2>1, <2>3, <2>4, <2>5, FromParts
          DEF CountFailure, SlotTyped
<1>10. ASSUME NEW r \in Slots, SetPassword(r) PROVE RowsAreSound'
  <2>1. SlotsTyped' /\ OthersStay(r) /\ stage'[r] = "idle"
    BY <1>1, <1>10, SlotFinishes DEF SetPassword
  <2>2. Chosen(passwords + 1) \in Password
    BY <1>1 DEF Chosen, Password
  <2>3. user' = [user EXCEPT !.password = Chosen(passwords + 1)]
    BY <1>10 DEF SetPassword, Store
  <2>4. user' \in User
    BY <1>1, <2>2, <2>3, PasswordSet
  <2>5. ~user'.password.temporary
    BY <1>1, <2>3 DEF Chosen, User
  <2> QED BY <1>1, <1>10, <2>1, <2>4, <2>5, FromParts DEF SetPassword, SlotTyped
<1>11. ASSUME NEW r \in Slots, NEW patch \in Patches, UpdateUser(r, patch)
       PROVE  RowsAreSound'
  BY <1>1, <1>11, PatchedTyped, BeginningIsSound DEF UpdateUser, Stages
<1>12. ASSUME NEW r \in Slots, ChangePassword(r) PROVE RowsAreSound'
  <2> DEFINE seen == [user EXCEPT !.password = Chosen(passwords + 1),
                                  !.requiresPasswordChange = FALSE]
  <2>1. Chosen(passwords + 1) \in Password
    BY <1>1 DEF Chosen, Password
  <2>2. seen \in User /\ ~seen.password.temporary
    BY <1>1, <2>1, PasswordSet DEF Chosen, User
  <2>3. Begin(r, [op |-> "ChangePassword"], "writing", seen)
    BY <1>12 DEF ChangePassword
  <2> HIDE DEF seen
  <2>4. passwords' \in Nat /\ UNCHANGED <<user, now, codes, history>>
    BY <1>1, <1>12 DEF ChangePassword
  <2> QED BY <2>2, <2>3, <2>4, BeginningIsSound DEF Stages
<1>13. ASSUME NEW r \in Slots, ResetPassword(r) PROVE RowsAreSound'
  <2> DEFINE seen == [user EXCEPT
                !.password = [id |-> passwords + 1, temporary |-> TRUE],
                !.requiresPasswordChange = TRUE]
  <2>1. [id |-> passwords + 1, temporary |-> TRUE] \in Password
    BY <1>1 DEF Password
  <2>2. seen \in User /\ seen.requiresPasswordChange
    BY <1>1, <2>1, PasswordSet DEF User
  <2>3. Begin(r, [op |-> "ResetPassword"], "writing", seen)
    BY <1>13 DEF ResetPassword
  <2> HIDE DEF seen
  <2>4. passwords' \in Nat /\ UNCHANGED <<user, now, codes, history>>
    BY <1>1, <1>13 DEF ResetPassword
  <2> QED BY <2>2, <2>3, <2>4, BeginningIsSound DEF Stages
<1>14. ASSUME NEW r \in Slots, WriteBack(r) PROVE RowsAreSound'
  <2>1. SlotsTyped' /\ OthersStay(r) /\ stage'[r] = "idle"
    BY <1>1, <1>14, SlotFinishes DEF WriteBack
  <2>2. /\ user' \in User
        /\ user'.password.temporary => user'.requiresPasswordChange
    BY <1>14 DEF WriteBack, Store, RowsAreSound, SlotTyped
  <2> QED BY <1>1, <1>14, <2>1, <2>2, FromParts DEF WriteBack, SlotTyped
<1>15. CASE UNCHANGED vars
  BY <1>1, <1>15 DEF vars, slotVars, history, RowsAreSound, TypeOK, SlotTyped,
                     TemporaryPasswordsMustBeChanged
<1> QED
  BY <1>2, <1>3, <1>4, <1>5, <1>6, <1>7, <1>8, <1>9, <1>10, <1>11, <1>12,
     <1>13, <1>14, <1>15 DEF Next

LEMMA AlwaysSound == Spec => []RowsAreSound
  BY InitIsSound, StepIsSound, PTL DEF Spec

\* The row and what is in flight have their types.
THEOREM TypeCorrect == Spec => []TypeOK
  BY AlwaysSound, PTL DEF RowsAreSound

\* Whatever overlaps or breaks off, nobody goes on with a password that was made
\* up for him without being told to change it.
THEOREM TemporaryPasswordsAreMarked == Spec => []TemporaryPasswordsMustBeChanged
  BY AlwaysSound, PTL DEF RowsAreSound

-----------------------------------------------------------------------------
(* Codes and guesses, where rows are changed in one step.                  *)

\* A code that can still be accepted was never used, and the codes of a user
\* differ; the code handed out last is the one he has, or used.
CodesAreFresh ==
    /\ codes \in Nat /\ codes >= 1
    /\ \A c \in used : c \in Nat /\ c <= codes
    /\ usedTwice = {}
    /\ \/ user.verification = NoCode
       \/ user.verification.id = 1 /\ 1 \notin used
    /\ user.reset = NoCode
        \/ /\ user.reset.id > 1 /\ user.reset.id <= codes
           /\ user.reset.id \notin used
    /\ NewestCodeSurvives
    /\ VerifiedByCode

\* The row says how many guesses were wrong, and until when it is locked.
GuessesAreCounted ==
    /\ Len(wrong) = user.failedOTPAttempts
    /\ user.failedOTPAttempts >= MaxAttempts =>
            user.otpLockedUntil = wrong[Len(wrong)] + Lockout
    /\ WrongGuessesAreSpaced

IInv ==
    /\ RowsAreSound
    /\ \A r \in Slots : stage[r] # "writing"
    /\ CodesAreFresh
    /\ GuessesAreCounted

LEMMA InitEstablishes == Init => IInv
<1> SUFFICES ASSUME Init PROVE IInv
  OBVIOUS
<1>1. PICK role \in Roles : user = NewUser(origin, role)
  BY DEF Init
<1>2. /\ codes = 1 /\ passwords = 1 /\ wrong = <<>> /\ used = {}
      /\ usedTwice = {}
      /\ stage = [r \in Slots |-> "idle"]
  BY DEF Init
<1>3. /\ user.password.id = 1 /\ user.reset = NoCode
      /\ user.failedOTPAttempts = 0
      /\ user.verification = NoCode \/ user.verification.id = 1
  BY <1>1 DEF NewUser, NoCode
<1>4. CodesAreFresh
  <2>1. VerifiedByCode
    <3>1. user.emailVerified = (origin # "signed up")
      BY <1>1 DEF NewUser
    <3> QED BY <3>1, Zenon DEF VerifiedByCode
  <2>2. NewestCodeSurvives
    BY <1>2 DEF NewestCodeSurvives
  <2> QED BY <1>2, <1>3, <2>1, <2>2 DEF CodesAreFresh
<1>5. GuessesAreCounted
  BY <1>2, <1>3, TimesAreNatural DEF GuessesAreCounted, WrongGuessesAreSpaced
<1> QED BY <1>2, <1>4, <1>5, InitIsSound DEF IInv

\* What the invariant rests on, unchanged.
LEMMA QuietPreserves ==
    ASSUME IInv, RowsAreSound', UNCHANGED <<user, codes, history>>,
           \A r \in Slots : stage'[r] # "writing"
    PROVE  IInv'
<1>1. CodesAreFresh' /\ GuessesAreCounted'
  BY DEF IInv, history, CodesAreFresh, NewestCodeSurvives, VerifiedByCode,
         GuessesAreCounted, WrongGuessesAreSpaced
<1> QED BY <1>1 DEF IInv

LEMMA StoreCodePreserves ==
    ASSUME IInv, RowsAreSound', NEW r \in Slots, StoreCode(r)
    PROVE  IInv'
<1>1. \A s \in Slots : stage'[s] # "writing"
  BY DEF StoreCode, Finish, IInv, RowsAreSound, TypeOK
<1>2. /\ user'.reset = [id |-> codes + 1, expires |-> at[r] + TTL]
      /\ user'.verification = user.verification
      /\ user'.password = user.password
      /\ user'.failedOTPAttempts = user.failedOTPAttempts
      /\ user'.otpLockedUntil = user.otpLockedUntil
  BY DEF StoreCode, Store, IInv, RowsAreSound, TypeOK, User
<1>3. /\ codes' = codes + 1
      /\ UNCHANGED <<used, usedTwice, wrong, origin>>
  BY DEF StoreCode
<1>4. CodesAreFresh'
  <2>1. user'.reset.id = codes + 1
    BY <1>2
  <2>2. VerifiedByCode'
    <3>1. user'.emailVerified = user.emailVerified
      BY DEF StoreCode, Store, IInv, RowsAreSound, TypeOK, User
    <3> QED BY <1>3, <3>1, Zenon DEF IInv, CodesAreFresh, VerifiedByCode
  <2>3. NewestCodeSurvives'
    BY <1>3, <2>1 DEF IInv, CodesAreFresh, NewestCodeSurvives
  <2> QED BY <1>2, <1>3, <2>1, <2>2, <2>3 DEF IInv, CodesAreFresh
<1>5. GuessesAreCounted'
  BY <1>2, <1>3 DEF IInv, GuessesAreCounted, WrongGuessesAreSpaced
<1> QED BY <1>1, <1>4, <1>5 DEF IInv

LEMMA AcceptPreserves ==
    ASSUME IInv, RowsAreSound', NEW r \in Slots, Accept(r)
    PROVE  IInv'
<1>1. \A s \in Slots : stage'[s] # "writing"
  BY DEF Accept, Finish, GoOn, IInv, RowsAreSound, TypeOK
<1>2. PICK kind \in {"verification", "reset"} : kind = request[r].op
  BY DEF Accept, IInv, RowsAreSound, TypeOK
<1>3. user' = [user EXCEPT ![kind] = NoCode,
                       !.emailVerified = @ \/ kind = "verification",
                       !.failedOTPAttempts = 0, !.otpLockedUntil = 0]
  BY <1>2, Zenon DEF Accept, Store
<1>4. user \in User
  BY DEF IInv, RowsAreSound, TypeOK
<1>5. /\ user'.password = user.password
      /\ user'.failedOTPAttempts = 0
      /\ kind = "reset" => /\ user'.reset = NoCode
                           /\ user'.verification = user.verification
                           /\ user'.emailVerified = user.emailVerified
      /\ kind = "verification" => /\ user'.verification = NoCode
                                  /\ user'.reset = user.reset
  <2>1. CASE kind = "reset"
    BY <1>3, <1>4, <2>1 DEF User
  <2>2. CASE kind = "verification"
    BY <1>3, <1>4, <2>2 DEF User
  <2> QED BY <2>1, <2>2
<1>6. PICK code : /\ code = request[r].code
                  /\ user[kind] # NoCode /\ code = user[kind].id
  BY <1>2, Zenon DEF Accept, Matches
<1>7. /\ used' = used \cup {code}
      /\ usedTwice' = IF code \in used THEN usedTwice \cup {code} ELSE usedTwice
      /\ wrong' = <<>>
      /\ UNCHANGED <<codes, origin>>
  BY <1>6, Zenon DEF Accept
<1>9. code \notin used /\ code \in Nat /\ code <= codes
  <2>1. CASE kind = "reset"
    BY <1>4, <1>6, <2>1 DEF IInv, CodesAreFresh, User, Codes
  <2>2. CASE kind = "verification"
    BY <1>6, <2>2 DEF IInv, CodesAreFresh
  <2> QED BY <2>1, <2>2
<1>10. CodesAreFresh'
  <2>1. CASE kind = "reset"
    <3>1. user.reset # NoCode /\ code = user.reset.id
      BY <1>6, <2>1
    <3>2. code > 1
      BY <3>1 DEF IInv, CodesAreFresh
    <3>3. NewestCodeSurvives'
      BY <1>7, <3>1 DEF IInv, CodesAreFresh, NewestCodeSurvives
    <3>4. VerifiedByCode'
      BY <1>5, <1>7, <2>1 DEF IInv, CodesAreFresh, VerifiedByCode
    <3> QED BY <1>5, <1>7, <1>9, <2>1, <3>2, <3>3, <3>4
            DEF IInv, CodesAreFresh
  <2>2. CASE kind = "verification"
    <3>1. code = 1
      BY <1>6, <2>2 DEF IInv, CodesAreFresh
    <3>2. NewestCodeSurvives'
      BY <1>5, <1>7, <2>2 DEF IInv, CodesAreFresh, NewestCodeSurvives
    <3>3. VerifiedByCode'
      BY <1>7, <3>1 DEF VerifiedByCode
    <3> QED BY <1>5, <1>7, <1>9, <2>2, <3>1, <3>2, <3>3
            DEF IInv, CodesAreFresh
  <2> QED BY <2>1, <2>2
<1>11. GuessesAreCounted'
  BY <1>5, <1>7, TimesAreNatural DEF GuessesAreCounted, WrongGuessesAreSpaced
<1> QED BY <1>1, <1>10, <1>11 DEF IInv

LEMMA CountFailurePreserves ==
    ASSUME IInv, RowsAreSound', NEW r \in Slots, CountFailure(r)
    PROVE  IInv'
<1>1. \A s \in Slots : stage'[s] # "writing"
  BY DEF CountFailure, Finish, IInv, RowsAreSound, TypeOK
<1>2. PICK n \in Nat : n = user.failedOTPAttempts
  BY DEF IInv, RowsAreSound, TypeOK, User
<1>3. user' = [user EXCEPT !.failedOTPAttempts = n + 1,
                  !.otpLockedUntil =
                        IF n + 1 >= MaxAttempts THEN at[r] + Lockout ELSE @]
  BY <1>2, Zenon DEF CountFailure, Store
<1>4. user \in User /\ at[r] \in Nat /\ wrong \in Seq(Nat)
  BY DEF IInv, RowsAreSound, TypeOK
<1>5. /\ user'.password = user.password
      /\ user'.verification = user.verification
      /\ user'.reset = user.reset
      /\ user'.failedOTPAttempts = n + 1
      /\ n + 1 >= MaxAttempts => user'.otpLockedUntil = at[r] + Lockout
  BY <1>3, <1>4 DEF User
<1>6. /\ wrong' = Append(wrong, at[r])
      /\ UNCHANGED <<codes, used, usedTwice, origin>>
      /\ ~Locked(at[r])
  BY Zenon DEF CountFailure
<1>8. CodesAreFresh'
  <2>1. VerifiedByCode'
    <3>1. user'.emailVerified = user.emailVerified
      BY <1>3, <1>4 DEF User
    <3> QED BY <1>6, <3>1, Zenon DEF IInv, CodesAreFresh, VerifiedByCode
  <2>2. NewestCodeSurvives'
    BY <1>5, <1>6 DEF IInv, CodesAreFresh, NewestCodeSurvives
  <2> QED BY <1>5, <1>6, <2>1, <2>2 DEF IInv, CodesAreFresh
<1>9. GuessesAreCounted'
  <2>1. /\ Len(wrong) = n
        /\ n >= MaxAttempts => user.otpLockedUntil = wrong[n] + Lockout
        /\ \A k \in DOMAIN wrong :
                k > MaxAttempts => wrong[k] >= wrong[k-1] + Lockout
    BY <1>2 DEF IInv, GuessesAreCounted, WrongGuessesAreSpaced
  <2>2. /\ Len(wrong') = n + 1 /\ wrong'[n + 1] = at[r]
        /\ \A k \in 1..n : wrong'[k] = wrong[k]
        /\ DOMAIN wrong = 1..n /\ DOMAIN wrong' = 1..(n + 1)
    BY <1>4, <1>6, <2>1
  <2>3. n >= MaxAttempts => at[r] >= wrong[n] + Lockout
    <3>1. user.otpLockedUntil \in Nat
      BY <1>4 DEF User
    <3> QED BY <1>4, <1>6, <2>1, <3>1 DEF Locked
  <2>4. WrongGuessesAreSpaced'
    <3> SUFFICES ASSUME NEW k \in 1..(n + 1), k > MaxAttempts
                 PROVE  wrong'[k] >= wrong'[k-1] + Lockout
      BY <2>2 DEF WrongGuessesAreSpaced
    <3>1. k - 1 \in 1..n
      BY TimesAreNatural
    <3>2. CASE k = n + 1
      BY <2>2, <2>3, <3>1, <3>2, TimesAreNatural
    <3>3. CASE k \in 1..n
      BY <2>1, <2>2, <3>1, <3>3
    <3> QED BY <3>2, <3>3
  <2> QED BY <1>5, <2>2, <2>4 DEF GuessesAreCounted
<1> QED BY <1>1, <1>8, <1>9 DEF IInv

LEMMA SetPasswordPreserves ==
    ASSUME IInv, RowsAreSound', NEW r \in Slots, SetPassword(r)
    PROVE  IInv'
<1>1. \A s \in Slots : stage'[s] # "writing"
  BY DEF SetPassword, Finish, IInv, RowsAreSound, TypeOK
<1>2. user \in User
  BY DEF IInv, RowsAreSound, TypeOK
<1>3. /\ user'.verification = user.verification
      /\ user'.reset = user.reset
      /\ user'.failedOTPAttempts = user.failedOTPAttempts
      /\ user'.otpLockedUntil = user.otpLockedUntil
  BY <1>2 DEF SetPassword, Store, User
<1>4. UNCHANGED <<codes, used, usedTwice, wrong, origin>>
  BY DEF SetPassword
<1>5. CodesAreFresh'
  <2>1. VerifiedByCode'
    <3>1. user'.emailVerified = user.emailVerified
      BY <1>2 DEF SetPassword, Store, User
    <3> QED BY <1>4, <3>1, Zenon DEF IInv, CodesAreFresh, VerifiedByCode
  <2>2. NewestCodeSurvives'
    BY <1>3, <1>4 DEF IInv, CodesAreFresh, NewestCodeSurvives
  <2> QED BY <1>3, <1>4, <2>1, <2>2 DEF IInv, CodesAreFresh
<1>6. GuessesAreCounted'
  BY <1>3, <1>4 DEF IInv, GuessesAreCounted, WrongGuessesAreSpaced
<1> QED BY <1>1, <1>5, <1>6 DEF IInv

LEMMA StepPreserves ==
    ASSUME AtomicOnly, IInv, [Next]_vars
    PROVE  IInv'
<1>1. RowsAreSound'
  BY StepIsSound DEF IInv
<1>2. /\ \A s \in Slots : stage[s] # "writing"
      /\ stage \in [Slots -> Stages]
  BY DEF IInv, RowsAreSound, TypeOK, Stages
<1>3. ASSUME NEW r \in Slots, NEW x, x # "writing",
             stage' = [stage EXCEPT ![r] = x],
             UNCHANGED <<user, codes, history>>
      PROVE  IInv'
  <2>1. \A s \in Slots : stage'[s] # "writing"
    BY <1>2, <1>3
  <2> QED BY <1>1, <1>3, <2>1, QuietPreserves
<1>4. CASE Tick \/ UNCHANGED vars
  BY <1>1, <1>2, <1>4, QuietPreserves DEF Tick, vars, slotVars
<1>5. CASE Restart
  <2>1. \A s \in Slots : stage'[s] # "writing"
    BY <1>5 DEF Restart
  <2> QED BY <1>1, <1>5, <2>1, QuietPreserves DEF Restart
<1>6. ASSUME NEW r \in Slots,
             \/ RequestReset(r)
             \/ \E kind \in {"verification", "reset"}, code \in 0..codes :
                    Guess(r, kind, code)
      PROVE  IInv'
  BY <1>3, <1>6 DEF RequestReset, Guess, Begin
<1>7. ASSUME NEW r \in Slots, RefuseLocked(r) \/ RejectPassword(r) \/ Fail(r)
      PROVE  IInv'
  BY <1>3, <1>7 DEF RefuseLocked, RejectPassword, Fail, Finish
<1>8. ASSUME NEW r \in Slots,
             \/ \E patch \in Patches : UpdateUser(r, patch)
             \/ ChangePassword(r) \/ ResetPassword(r) \/ WriteBack(r)
      PROVE  FALSE
  <2>1. /\ "UpdateUser" \notin Operations /\ "ChangePassword" \notin Operations
        /\ "ResetPassword" \notin Operations
    BY DEF AtomicOnly
  <2>2. ~WriteBack(r)
    BY <1>2 DEF WriteBack
  <2>3. \A patch \in Patches : ~UpdateUser(r, patch)
    BY <2>1 DEF UpdateUser, Begin
  <2>4. ~ChangePassword(r)
    BY <2>1 DEF ChangePassword, Begin
  <2>5. ~ResetPassword(r)
    BY <2>1 DEF ResetPassword, Begin
  <2> QED BY <1>8, <2>2, <2>3, <2>4, <2>5
<1> QED
  BY <1>1, <1>4, <1>5, <1>6, <1>7, <1>8, StoreCodePreserves, AcceptPreserves,
     CountFailurePreserves, SetPasswordPreserves
  DEF Next

LEMMA Invariance == AtomicOnly => (Spec => []IInv)
<1> SUFFICES ASSUME AtomicOnly PROVE Spec => []IInv
  OBVIOUS
<1>1. IInv /\ [Next]_vars => IInv'
  BY StepPreserves
<1> QED BY <1>1, InitEstablishes, PTL DEF Spec

\* However the flows around codes overlap, no one-time code is accepted twice.
THEOREM CodesWorkOnce == AtomicOnly => (Spec => []CodesAreUsedOnce)
<1>1. IInv => CodesAreUsedOnce
  BY DEF IInv, CodesAreFresh, CodesAreUsedOnce
<1> SUFFICES ASSUME AtomicOnly PROVE Spec => []CodesAreUsedOnce
  OBVIOUS
<1> QED BY <1>1, Invariance, PTL

\* The code that was mailed last is never lost before it was used.
THEOREM NewestCodeWorks == AtomicOnly => (Spec => []NewestCodeSurvives)
<1>1. IInv => NewestCodeSurvives
  BY DEF IInv, CodesAreFresh
<1> SUFFICES ASSUME AtomicOnly PROVE Spec => []NewestCodeSurvives
  OBVIOUS
<1> QED BY <1>1, Invariance, PTL

\* Nobody's address counts as verified without the code that was sent there.
THEOREM NobodyVerifiesWithoutTheCode == AtomicOnly => (Spec => []VerifiedByCode)
<1>1. IInv => VerifiedByCode
  BY DEF IInv, CodesAreFresh
<1> SUFFICES ASSUME AtomicOnly PROVE Spec => []VerifiedByCode
  OBVIOUS
<1> QED BY <1>1, Invariance, PTL

\* Past the limit, guesses that are looked at are Lockout apart, however many
\* come at the same time and whenever each of them read the clock.
THEOREM GuessingIsSlow == AtomicOnly => (Spec => []WrongGuessesAreSpaced)
<1>1. IInv => WrongGuessesAreSpaced
  BY DEF IInv, GuessesAreCounted
<1> SUFFICES ASSUME AtomicOnly PROVE Spec => []WrongGuessesAreSpaced
  OBVIOUS
<1> QED BY <1>1, Invariance, PTL

-----------------------------------------------------------------------------
(* Passwords that were replaced, with all operations overlapping.          *)

\* A request that is about to write a password of its own.
Brings(r) == stage[r] = "writing" /\ request[r].op # "UpdateUser"

\* A password that some request is about to write is nobody else's yet.
IsNew(r) ==
    Brings(r) =>
        /\ row[r].password.id # user.password.id
        /\ \A p \in former : p.id # row[r].password.id
        /\ \A s \in Slots \ {r} :
            stage[s] = "writing" => row[s].password.id # row[r].password.id

IsOfNow(r) == stage[r] = "writing" => row[r].password.id <= passwords

NewPasswords ==
    /\ RowsAreSound
    /\ user.password.id <= passwords
    /\ \A p \in former : p \in Password /\ p.id <= passwords
    /\ \A r \in Slots : IsOfNow(r) /\ IsNew(r)

LEMMA InitHasNewPasswords == Init => NewPasswords
<1> SUFFICES ASSUME Init PROVE NewPasswords
  OBVIOUS
<1>1. user.password.id = 1 /\ passwords = 1 /\ former = {}
  <2>1. PICK role \in Roles : user = NewUser(origin, role)
    BY DEF Init
  <2> QED BY <2>1 DEF Init, NewUser
<1>2. \A r \in Slots : stage[r] = "idle"
  BY DEF Init
<1> QED BY <1>1, <1>2, InitIsSound DEF NewPasswords, IsOfNow, IsNew, Brings

\* The numbers of the passwords in play.
LEMMA PasswordsAreNumbers ==
    ASSUME NewPasswords
    PROVE  /\ passwords \in Nat /\ user.password \in Password
           /\ user.password.id \in Nat
           /\ \A p \in former : p.id \in Nat
           /\ \A r \in Slots :
                stage[r] = "writing" => /\ row[r].password \in Password
                                        /\ row[r].password.id \in Nat
<1>1. \A p \in Password : p.id \in Nat
  BY DEF Password
<1>2. \A u \in User : u.password \in Password
  BY DEF User
<1>3. /\ passwords \in Nat /\ user \in User
      /\ \A r \in Slots : stage[r] = "writing" => row[r] \in User
  BY DEF NewPasswords, RowsAreSound, TypeOK
<1> QED BY <1>1, <1>2, <1>3 DEF NewPasswords

\* A step after which nobody writes who did not before, and which leaves the
\* password or replaces it with the newest there is.
LEMMA StaysNew ==
    ASSUME NewPasswords, RowsAreSound', NEW r \in Slots, OthersStay(r),
           stage'[r] # "writing",
           passwords' \in {passwords, passwords + 1},
           \/ user'.password = user.password /\ former' = former
           \/ /\ passwords' = passwords + 1
              /\ user'.password.id = passwords'
              /\ former' = former \cup {user.password}
    PROVE  NewPasswords'
<1>1. passwords' \in Nat /\ passwords <= passwords'
  BY PasswordsAreNumbers
<1>2. \A s \in Slots : stage'[s] = "writing" =>
            /\ s # r /\ stage[s] = "writing"
            /\ row'[s] = row[s] /\ request'[s] = request[s]
            /\ row[s].password.id \in Nat /\ row[s].password.id <= passwords
  BY PasswordsAreNumbers DEF OthersStay, NewPasswords, IsOfNow
<1>3. /\ user'.password.id <= passwords'
      /\ \A p \in former' : p \in Password /\ p.id <= passwords'
  BY <1>1, PasswordsAreNumbers DEF NewPasswords
<1>4. ASSUME NEW s \in Slots, Brings(s)' PROVE IsNew(s)'
  <2>1. /\ stage'[s] = "writing" /\ Brings(s) /\ IsNew(s)
    BY <1>2, <1>4 DEF Brings, NewPasswords
  <2>2. row'[s].password.id # user'.password.id
    BY <1>1, <1>2, <2>1, PasswordsAreNumbers DEF IsNew
  <2>3. \A p \in former' : p.id # row'[s].password.id
    BY <1>2, <2>1 DEF IsNew
  <2>4. \A t \in Slots \ {s} :
            stage'[t] = "writing" => row'[t].password.id # row'[s].password.id
    BY <1>2, <2>1 DEF IsNew
  <2> QED BY <2>2, <2>3, <2>4 DEF IsNew
<1>5. \A s \in Slots : IsOfNow(s)' /\ IsNew(s)'
  BY <1>1, <1>2, <1>4 DEF IsOfNow, IsNew
<1> QED BY <1>3, <1>5 DEF NewPasswords

\* A request reads the row, and may bring a password nobody has seen.
LEMMA BeginningBringsNew ==
    ASSUME NewPasswords, RowsAreSound', NEW r \in Slots, OthersStay(r),
           stage[r] = "idle", stage'[r] = "writing",
           UNCHANGED <<user, former>>,
           \/ /\ request'[r].op = "UpdateUser" /\ passwords' = passwords
              /\ row'[r].password = user.password
           \/ /\ passwords' = passwords + 1
              /\ row'[r].password.id = passwords'
    PROVE  NewPasswords'
<1>1. passwords' \in Nat /\ passwords <= passwords'
  BY PasswordsAreNumbers
<1>2. \A s \in Slots \ {r} : stage'[s] = "writing" =>
            /\ stage[s] = "writing"
            /\ row'[s] = row[s] /\ request'[s] = request[s]
            /\ row[s].password.id \in Nat /\ row[s].password.id <= passwords
  BY PasswordsAreNumbers DEF OthersStay, NewPasswords, IsOfNow
<1>3. row'[r].password.id \in Nat /\ row'[r].password.id <= passwords'
  BY <1>1, PasswordsAreNumbers DEF NewPasswords
<1>4. ASSUME Brings(r)' PROVE IsNew(r)'
  <2>1. passwords' = passwords + 1 /\ row'[r].password.id = passwords + 1
    BY <1>4 DEF Brings
  <2> QED BY <2>1, <1>2, PasswordsAreNumbers DEF NewPasswords, IsNew
<1>5. ASSUME NEW s \in Slots \ {r}, Brings(s)' PROVE IsNew(s)'
  <2>1. /\ stage'[s] = "writing" /\ Brings(s) /\ IsNew(s)
    BY <1>2, <1>5 DEF Brings, NewPasswords
  <2>2. row'[r].password.id # row'[s].password.id
    BY <1>2, <2>1, PasswordsAreNumbers DEF IsNew
  <2>3. \A t \in Slots \ {s} :
            stage'[t] = "writing" => row'[t].password.id # row'[s].password.id
    BY <1>2, <2>1, <2>2 DEF IsNew
  <2> QED BY <1>2, <2>1, <2>3 DEF IsNew
<1>6. \A s \in Slots : IsNew(s)'
  BY <1>4, <1>5 DEF IsNew
<1>7. \A s \in Slots : IsOfNow(s)'
  BY <1>1, <1>2, <1>3, PasswordsAreNumbers DEF IsOfNow
<1>8. /\ user'.password.id <= passwords'
      /\ \A p \in former' : p \in Password /\ p.id <= passwords'
  BY <1>1, PasswordsAreNumbers DEF NewPasswords
<1> QED BY <1>6, <1>7, <1>8 DEF NewPasswords

\* The row a request held is written; only a patch can hold an old password.
LEMMA WritingKeepsNew ==
    ASSUME NewPasswords, RowsAreSound', NEW r \in Slots, WriteBack(r), OthersStay(r),
           stage'[r] = "idle"
    PROVE  /\ NewPasswords'
           /\ user'.password \in former => request[r].op = "UpdateUser"
<1>1. /\ stage[r] = "writing" /\ user' = row[r] /\ passwords' = passwords
      /\ former' \subseteq former \cup {user.password}
  BY DEF WriteBack, Store
<1>2. IsOfNow(r) /\ IsNew(r)
  BY DEF NewPasswords
<1>3. user'.password \in former => request[r].op = "UpdateUser"
  BY <1>1, <1>2 DEF IsNew, Brings
<1>4. \A s \in Slots : stage'[s] = "writing" =>
            /\ s # r /\ stage[s] = "writing"
            /\ row'[s] = row[s] /\ request'[s] = request[s]
  BY DEF OthersStay
<1>5. ASSUME NEW s \in Slots, Brings(s)' PROVE IsNew(s)'
  <2>1. /\ s # r /\ stage'[s] = "writing" /\ Brings(s) /\ IsNew(s)
    BY <1>4, <1>5 DEF Brings, NewPasswords
  <2> QED BY <1>1, <1>4, <2>1 DEF IsNew
<1>6. \A s \in Slots : IsOfNow(s)' /\ IsNew(s)'
  BY <1>1, <1>4, <1>5 DEF IsOfNow, IsNew, NewPasswords
<1>7. /\ user'.password.id <= passwords'
      /\ \A p \in former' : p \in Password /\ p.id <= passwords'
  BY <1>1, <1>2, PasswordsAreNumbers DEF NewPasswords, IsOfNow
<1> QED BY <1>3, <1>6, <1>7 DEF NewPasswords

\* What a password does in each step; Comeback is what the property speaks of.
Comeback == user'.password # user.password /\ user'.password \in former

StalePatchWrites ==
    \E r \in Slots :
        /\ stage[r] = "writing" /\ request[r].op = "UpdateUser"
        /\ user' = row[r]

LEMMA PasswordsMoveOn ==
    ASSUME NewPasswords, [Next]_vars
    PROVE  NewPasswords' /\ (Comeback => StalePatchWrites)
<1>1. RowsAreSound'
  BY StepIsSound DEF NewPasswords
<1>2. SlotsTyped /\ now \in Nat /\ user \in User
  BY SlotsAreTyped DEF NewPasswords, RowsAreSound, TypeOK
<1>3. CASE Tick \/ UNCHANGED vars
  <2>1. UNCHANGED <<user, slotVars, passwords, former>>
    BY <1>3 DEF Tick, vars, history
  <2> QED BY <1>1, <2>1 DEF NewPasswords, IsOfNow, IsNew, Brings, Comeback, slotVars
<1>4. CASE Restart
  <2>1. \A s \in Slots : stage'[s] = "idle"
    BY <1>4 DEF Restart
  <2>2. UNCHANGED <<user, passwords, former>>
    BY <1>4 DEF Restart, history
  <2> QED BY <1>1, <2>1, <2>2 DEF NewPasswords, IsOfNow, IsNew, Brings, Comeback
<1>5. ASSUME NEW r \in Slots, OthersStay(r), stage'[r] # "writing",
             user'.password = user.password, UNCHANGED <<passwords, former>>
      PROVE  NewPasswords' /\ ~Comeback
  BY <1>1, <1>5, StaysNew DEF Comeback
<1>6. ASSUME NEW r \in Slots,
             \/ RequestReset(r)
             \/ \E kind \in {"verification", "reset"}, code \in 0..codes :
                    Guess(r, kind, code)
      PROVE  NewPasswords' /\ ~Comeback
  <2>1. OthersStay(r) /\ stage'[r] # "writing"
    BY <1>2, <1>6, SlotBegins DEF RequestReset, Guess, Stages
  <2> QED BY <1>5, <1>6, <2>1 DEF RequestReset, Guess, history
<1>7. ASSUME NEW r \in Slots, RefuseLocked(r) \/ RejectPassword(r) \/ Fail(r)
      PROVE  NewPasswords' /\ ~Comeback
  <2>1. OthersStay(r) /\ stage'[r] # "writing"
    BY <1>2, <1>7, SlotFinishes DEF RefuseLocked, RejectPassword, Fail
  <2> QED BY <1>5, <1>7, <2>1 DEF RefuseLocked, RejectPassword, Fail, history
<1>8. ASSUME NEW r \in Slots, StoreCode(r) \/ Accept(r) \/ CountFailure(r)
      PROVE  NewPasswords' /\ ~Comeback
  <2>1. OthersStay(r) /\ stage'[r] # "writing"
    BY <1>2, <1>8, SlotFinishes, SlotGoesOn DEF StoreCode, Accept, CountFailure, Stages
  <2>2. user'.password = user.password
    <3>1. CASE StoreCode(r)
      BY <1>2, <3>1 DEF StoreCode, Store, User
    <3>2. CASE Accept(r)
      <4>1. PICK kind \in {"verification", "reset"} : kind = request[r].op
        BY <3>2 DEF Accept, NewPasswords, RowsAreSound, TypeOK
      <4>2. user' = [user EXCEPT ![kind] = NoCode,
                       !.emailVerified = @ \/ kind = "verification",
                       !.failedOTPAttempts = 0, !.otpLockedUntil = 0]
        BY <3>2, <4>1, Zenon DEF Accept, Store
      <4> QED BY <1>2, <4>1, <4>2 DEF User
    <3>3. CASE CountFailure(r)
      <4>1. PICK n, t : user' = [user EXCEPT !.failedOTPAttempts = n,
                                             !.otpLockedUntil = t]
        BY <3>3, Zenon DEF CountFailure, Store
      <4> QED BY <1>2, <4>1 DEF User
    <3> QED BY <1>8, <3>1, <3>2, <3>3
  <2>3. passwords' = passwords
    BY <1>8, Zenon DEF StoreCode, Accept, CountFailure
  <2>4. former' = IF user'.password = user.password
                  THEN former ELSE former \cup {user.password}
    BY <1>8, Zenon DEF StoreCode, Accept, CountFailure, Store
  <2> QED BY <1>5, <2>1, <2>2, <2>3, <2>4
<1>9. ASSUME NEW r \in Slots, SetPassword(r)
      PROVE  NewPasswords' /\ ~Comeback
  <2>1. OthersStay(r) /\ stage'[r] # "writing"
    BY <1>2, <1>9, SlotFinishes DEF SetPassword
  <2>2. user'.password.id = passwords + 1 /\ passwords' = passwords + 1
    BY <1>2, <1>9 DEF SetPassword, Store, Chosen, User
  <2>3. user'.password # user.password
    BY <2>2, PasswordsAreNumbers DEF NewPasswords
  <2>4. former' = former \cup {user.password}
    BY <1>9, <2>3 DEF SetPassword, Store
  <2>5. NewPasswords'
    BY <1>1, <2>1, <2>2, <2>4, StaysNew
  <2>6. user'.password \notin former
    BY <2>2, PasswordsAreNumbers DEF NewPasswords
  <2> QED BY <2>5, <2>6 DEF Comeback
<1>10. ASSUME NEW r \in Slots,
              \/ \E patch \in Patches : UpdateUser(r, patch)
              \/ ChangePassword(r) \/ ResetPassword(r)
       PROVE  NewPasswords' /\ ~Comeback
  <2>1. ASSUME NEW q, NEW seen, Begin(r, q, "writing", seen),
               UNCHANGED <<user, history>>,
               \/ /\ q.op = "UpdateUser" /\ passwords' = passwords
                  /\ seen.password = user.password
               \/ /\ passwords' = passwords + 1
                  /\ seen.password.id = passwords + 1
        PROVE  NewPasswords' /\ ~Comeback
    <3>1. /\ OthersStay(r) /\ stage[r] = "idle" /\ stage'[r] = "writing"
          /\ request'[r] = q /\ row'[r] = seen
      BY <1>2, <2>1, SlotBegins DEF Stages
    <3>2. UNCHANGED <<user, former>>
      BY <2>1 DEF history
    <3> QED BY <1>1, <2>1, <3>1, <3>2, BeginningBringsNew DEF Comeback
  <2>2. ASSUME NEW patch \in Patches, UpdateUser(r, patch)
        PROVE  NewPasswords' /\ ~Comeback
    <3>1. Patched(user, patch).password = user.password
      BY <1>2, PatchedTyped
    <3> QED BY <2>1, <2>2, <3>1 DEF UpdateUser
  <2>3. CASE ChangePassword(r)
    <3> DEFINE seen == [user EXCEPT !.password = Chosen(passwords + 1),
                                    !.requiresPasswordChange = FALSE]
    <3>1. seen.password.id = passwords + 1
      BY <1>2 DEF Chosen, User
    <3>2. Begin(r, [op |-> "ChangePassword"], "writing", seen)
      BY <2>3 DEF ChangePassword
    <3> HIDE DEF seen
    <3>3. passwords' = passwords + 1 /\ UNCHANGED <<user, history>>
      BY <2>3 DEF ChangePassword
    <3> QED BY <2>1, <3>1, <3>2, <3>3
  <2>4. CASE ResetPassword(r)
    <3> DEFINE seen == [user EXCEPT
                !.password = [id |-> passwords + 1, temporary |-> TRUE],
                !.requiresPasswordChange = TRUE]
    <3>1. seen.password.id = passwords + 1
      BY <1>2 DEF User
    <3>2. Begin(r, [op |-> "ResetPassword"], "writing", seen)
      BY <2>4 DEF ResetPassword
    <3> HIDE DEF seen
    <3>3. passwords' = passwords + 1 /\ UNCHANGED <<user, history>>
      BY <2>4 DEF ResetPassword
    <3> QED BY <2>1, <3>1, <3>2, <3>3
  <2> QED BY <1>10, <2>2, <2>3, <2>4
<1>11. ASSUME NEW r \in Slots, WriteBack(r)
       PROVE  NewPasswords' /\ (Comeback => StalePatchWrites)
  <2>1. OthersStay(r) /\ stage'[r] = "idle"
    BY <1>2, <1>11, SlotFinishes DEF WriteBack
  <2>2. stage[r] = "writing" /\ user' = row[r]
    BY <1>11 DEF WriteBack, Store
  <2> QED BY <1>1, <1>11, <2>1, <2>2, WritingKeepsNew DEF Comeback, StalePatchWrites
<1> QED BY <1>3, <1>4, <1>6, <1>7, <1>8, <1>9, <1>10, <1>11 DEF Next

\* Whatever overlaps, breaks off or starts again, a replaced password comes back
\* with a patch that read the row before, and in no other way.
THEOREM PasswordsComeBackByPatchesOnly == Spec => OnlyPatchesBringPasswordsBack
<1>1. NewPasswords /\ [Next]_vars => NewPasswords'
  BY PasswordsMoveOn
<1>2. NewPasswords /\ [Next]_vars =>
        [user'.password # user.password /\ user'.password \in former =>
            \E r \in Slots :
                /\ stage[r] = "writing" /\ request[r].op = "UpdateUser"
                /\ user' = row[r]]_vars
  BY PasswordsMoveOn DEF Comeback, StalePatchWrites
<1> QED BY <1>1, <1>2, InitHasNewPasswords, PTL
        DEF Spec, OnlyPatchesBringPasswordsBack

=============================================================================
