------------------------------- MODULE Accounts -------------------------------
(***************************************************************************)
(* The account of one user: registration, one-time passwords, the session  *)
(* that the stored refresh token stands for, blocking, and addresses with  *)
(* their default flag.                                                     *)
(*                                                                         *)
(* A request in flight occupies a worker and each await of the database is *)
(* a step; handlers that read only to answer 404 and then write without    *)
(* using what they read are one step.                                      *)
(*                                                                         *)
(* A refresh token is signed from the user and the second, so it is kept   *)
(* as that second: two tokens of one second are one token.  Signing and    *)
(* hashing take time between a handler's read and its write.               *)
(*                                                                         *)
(* Abstracted: names, e-mail and phone; isEmailVerified, which nothing     *)
(* reads; the role in a token; the expiry of tokens, which only refuses    *)
(* requests; one-time passwords drawn twice.                               *)
(***************************************************************************)
EXTENDS Integers, FiniteSets

CONSTANTS
    Addresses,     \* ids of the rows the user may ever create
    Workers, None,
    LastSecond,    \* bound: seconds that pass
    MaxOtps,       \* bound: one-time passwords issued
    MaxPasswords   \* bound: passwords chosen

ASSUME WorkersAssumption == IsFiniteSet(Workers)
ASSUME BoundsAssumption ==
    LastSecond \in Nat \ {0} /\ MaxOtps \in Nat \ {0} /\ MaxPasswords \in Nat \ {0}

Seconds == 1..LastSecond
Otps == 1..MaxOtps
Passwords == 1..MaxPasswords

(* The user's row; 0 is NULL, and a password of 0 is no row.               *)
UserRow == [password : {0} \cup Passwords, active : BOOLEAN, token : {0} \cup Seconds,
            otp : {0} \cup Otps, expired : BOOLEAN]
NoUser == [password |-> 0, active |-> FALSE, token |-> 0, otp |-> 0, expired |-> FALSE]

Calls == [op : {"idle", "register", "verify", "reset", "login", "refresh", "block", "add", "update"},
          pc : {"idle", "guard", "read", "write", "clear"},
          token : {0} \cup Seconds,       \* refresh: the token it was sent
          otp : {0} \cup Otps,            \* verify, reset: the one it found
          since : {0} \cup Seconds,       \* login, refresh: when the user was read
          key : {0} \cup Passwords,       \* login, refresh: history, what the session was opened with
          raced : BOOLEAN,                \* login, refresh: history, a reset overtook it
          active : BOOLEAN,               \* block: what it will write
          address : Addresses \cup {None}]
Idle == [op |-> "idle", pc |-> "idle", token |-> 0, otp |-> 0, since |-> 0, key |-> 0,
         raced |-> FALSE, active |-> FALSE, address |-> None]

VARIABLES
    user,      \* the user's row
    address,   \* address[a]: "NONE" (no row yet), "PLAIN", "DEFAULT", or "GONE"
    call,      \* call[w]: the request in flight on worker w
    now,       \* the second
    issued,    \* one-time passwords issued; the last is the latest
    uses,      \* uses[k]: history, how often a request was granted for password k
    session    \* history: the password behind the stored token, and whether a
               \* reset overtook the request that stored it

vars == <<user, address, call, now, issued, uses, session>>

NoSession == [key |-> 0, raced |-> FALSE]

Init ==
    /\ user = NoUser
    /\ address = [a \in Addresses |-> "NONE"]
    /\ call = [w \in Workers |-> Idle]
    /\ now = 1
    /\ issued = 0
    /\ uses = [k \in Otps |-> 0]
    /\ session = NoSession

IsAt(w, op, pc) == call[w].op = op /\ call[w].pc = pc
Accept(w, request) == call[w] = Idle /\ call' = [call EXCEPT ![w] = request]
Goto(w, pc) == call' = [call EXCEPT ![w].pc = pc]
Return(w) == call' = [call EXCEPT ![w] = Idle]

Exists == user.password # 0
OtpGood(k) == user.otp = k /\ ~ user.expired

-----------------------------------------------------------------------------
(* Registration and one-time passwords.                                    *)

RegisterBegin(w) ==
    /\ ~ Exists
    /\ Accept(w, [Idle EXCEPT !.op = "register", !.pc = "write"])
    /\ UNCHANGED <<user, address, now, issued, uses, session>>

(* The unique e-mail and phone refuse a second row.                        *)
RegisterWrite(w) ==
    /\ IsAt(w, "register", "write")
    /\ IF Exists
       THEN UNCHANGED <<user, issued>>
       ELSE /\ issued < MaxOtps
            /\ issued' = issued + 1
            /\ user' = [password |-> 1, active |-> TRUE, token |-> 0, otp |-> issued + 1, expired |-> FALSE]
    /\ Return(w)
    /\ UNCHANGED <<address, now, uses, session>>

ForgotPassword ==
    /\ Exists
    /\ issued < MaxOtps
    /\ issued' = issued + 1
    /\ user' = [user EXCEPT !.otp = issued + 1, !.expired = FALSE]
    /\ UNCHANGED <<address, call, now, uses, session>>

OtpExpires ==
    /\ user.otp # 0 /\ ~ user.expired
    /\ user' = [user EXCEPT !.expired = TRUE]
    /\ UNCHANGED <<address, call, now, issued, uses, session>>

(* verifyOtp and resetPassword find the user and accept the password.      *)
OtpBegin(w, op, k) ==
    /\ op \in {"verify", "reset"}
    /\ OtpGood(k)
    /\ Accept(w, [Idle EXCEPT !.op = op, !.pc = "write", !.otp = k])
    /\ UNCHANGED <<user, address, now, issued, uses, session>>

(* Mutant: a verified one-time password stays on the row.                  *)
VerifyWriteKeeps(w) ==
    /\ IsAt(w, "verify", "write")
    /\ uses' = [uses EXCEPT ![call[w].otp] = uses[call[w].otp] + 1]
    /\ Return(w)
    /\ UNCHANGED <<user, address, now, issued, session>>

(* It clears whatever one-time password the row holds by now.              *)
VerifyWrite(w) ==
    /\ IsAt(w, "verify", "write")
    /\ user' = [user EXCEPT !.otp = 0, !.expired = FALSE]
    /\ uses' = [uses EXCEPT ![call[w].otp] = uses[call[w].otp] + 1]
    /\ Return(w)
    /\ UNCHANGED <<address, now, issued, session>>

(* Mutant: the sessions opened with the old password live on.              *)
ResetWriteKeepsSession(w, password) ==
    /\ IsAt(w, "reset", "write")
    /\ user' = [user EXCEPT !.password = password, !.otp = 0, !.expired = FALSE]
    /\ uses' = [uses EXCEPT ![call[w].otp] = uses[call[w].otp] + 1]
    /\ Return(w)
    /\ UNCHANGED <<address, now, issued, session>>

ResetWrite(w, password) ==
    /\ IsAt(w, "reset", "write")
    /\ user' = [user EXCEPT !.password = password, !.token = 0, !.otp = 0, !.expired = FALSE]
    /\ uses' = [uses EXCEPT ![call[w].otp] = uses[call[w].otp] + 1]
    /\ session' = NoSession
    /\ call' = [x \in Workers |->
                   IF x = w THEN Idle
                   ELSE IF call[x].key # 0 THEN [call[x] EXCEPT !.raced = TRUE] ELSE call[x]]
    /\ UNCHANGED <<address, now, issued>>

-----------------------------------------------------------------------------
(* Sessions.                                                               *)

(* The user is read; comparing, isActive and signing follow.               *)
LoginBegin(w) ==
    /\ Exists /\ user.active
    /\ Accept(w, [Idle EXCEPT !.op = "login", !.pc = "write", !.since = now, !.key = user.password])
    /\ UNCHANGED <<user, address, now, issued, uses, session>>

(* JwtStrategy reads that the user is active.                              *)
RefreshBegin(w, token) ==
    /\ Exists /\ user.active
    /\ token <= now
    /\ Accept(w, [Idle EXCEPT !.op = "refresh", !.pc = "guard", !.token = token])
    /\ UNCHANGED <<user, address, now, issued, uses, session>>

(* JwtRefreshStrategy compares the token with the row.                     *)
RefreshGuard(w) ==
    /\ IsAt(w, "refresh", "guard")
    /\ IF user.token = call[w].token THEN Goto(w, "read") ELSE Return(w)
    /\ UNCHANGED <<user, address, now, issued, uses, session>>

(* refreshTokens compares it again.                                        *)
RefreshRead(w) ==
    /\ IsAt(w, "refresh", "read")
    /\ IF user.token = call[w].token
       THEN call' = [call EXCEPT ![w].pc = "write", ![w].since = now,
                                 ![w].key = session.key, ![w].raced = session.raced]
       ELSE Return(w)
    /\ UNCHANGED <<user, address, now, issued, uses, session>>

(* Mutant: the token is signed for a second to come.                       *)
StoreTokenAhead(w, token) ==
    /\ call[w].op \in {"login", "refresh"} /\ call[w].pc = "write"
    /\ token \in call[w].since..now
    /\ user' = [user EXCEPT !.token = token + 1]
    /\ session' = [key |-> call[w].key, raced |-> call[w].raced]
    /\ Return(w)
    /\ UNCHANGED <<address, now, issued, uses>>

(* The new token, signed at some second since the read, is stored.         *)
StoreToken(w, token) ==
    /\ call[w].op \in {"login", "refresh"} /\ call[w].pc = "write"
    /\ token \in call[w].since..now
    /\ user' = [user EXCEPT !.token = token]
    /\ session' = [key |-> call[w].key, raced |-> call[w].raced]
    /\ Return(w)
    /\ UNCHANGED <<address, now, issued, uses>>

Logout ==
    /\ Exists /\ user.active
    /\ user' = [user EXCEPT !.token = 0]
    /\ session' = NoSession
    /\ UNCHANGED <<address, call, now, issued, uses>>

(* toggleUserBlock writes the opposite of what it read.                    *)
BlockBegin(w) ==
    /\ Exists
    /\ Accept(w, [Idle EXCEPT !.op = "block", !.pc = "write", !.active = ~ user.active])
    /\ UNCHANGED <<user, address, now, issued, uses, session>>

BlockWrite(w) ==
    /\ IsAt(w, "block", "write")
    /\ user' = [user EXCEPT !.active = call[w].active]
    /\ Return(w)
    /\ UNCHANGED <<address, now, issued, uses, session>>

Tick ==
    /\ now < LastSecond
    /\ now' = now + 1
    /\ UNCHANGED <<user, address, call, issued, uses, session>>

-----------------------------------------------------------------------------
(* Addresses.                                                              *)

(* addAddress or updateAddress with isDefault: first no address is the     *)
(* default any more, then the row is written.                              *)
AddDefaultBegin(w) ==
    /\ Exists /\ user.active
    /\ Accept(w, [Idle EXCEPT !.op = "add", !.pc = "clear"])
    /\ UNCHANGED <<user, address, now, issued, uses, session>>

UpdateDefaultBegin(w, a) ==
    /\ Exists /\ user.active
    /\ address[a] \in {"PLAIN", "DEFAULT"}
    /\ Accept(w, [Idle EXCEPT !.op = "update", !.pc = "clear", !.address = a])
    /\ UNCHANGED <<user, address, now, issued, uses, session>>

(* Mutant: the defaults are cleared only when an address is added.         *)
ClearDefaultsOnAdd(w) ==
    /\ call[w].op \in {"add", "update"} /\ call[w].pc = "clear"
    /\ address' = [a \in Addresses |->
                      IF address[a] = "DEFAULT" /\ call[w].op = "add" THEN "PLAIN" ELSE address[a]]
    /\ Goto(w, "write")
    /\ UNCHANGED <<user, now, issued, uses, session>>

ClearDefaults(w) ==
    /\ call[w].op \in {"add", "update"} /\ call[w].pc = "clear"
    /\ address' = [a \in Addresses |-> IF address[a] = "DEFAULT" THEN "PLAIN" ELSE address[a]]
    /\ Goto(w, "write")
    /\ UNCHANGED <<user, now, issued, uses, session>>

AddDefault(w, a) ==
    /\ IsAt(w, "add", "write")
    /\ address[a] = "NONE"
    /\ address' = [address EXCEPT ![a] = "DEFAULT"]
    /\ Return(w)
    /\ UNCHANGED <<user, now, issued, uses, session>>

(* An address deleted meanwhile is not found, and no default is left.      *)
UpdateDefault(w) ==
    /\ IsAt(w, "update", "write")
    /\ address' = [address EXCEPT ![call[w].address] = IF @ = "GONE" THEN "GONE" ELSE "DEFAULT"]
    /\ Return(w)
    /\ UNCHANGED <<user, now, issued, uses, session>>

(* addAddress without isDefault, updateAddress that sets it to false, and  *)
(* deleteAddress, each one statement on one row.                           *)
WritePlain(a) ==
    /\ Exists /\ user.active
    /\ address[a] # "GONE"
    /\ address' = [address EXCEPT ![a] = "PLAIN"]
    /\ UNCHANGED <<user, call, now, issued, uses, session>>

DeleteAddress(a) ==
    /\ Exists /\ user.active
    /\ address[a] \in {"PLAIN", "DEFAULT"}
    /\ address' = [address EXCEPT ![a] = "GONE"]
    /\ UNCHANGED <<user, call, now, issued, uses, session>>

(* An await throws or the process dies.                                    *)
Fail(w) ==
    /\ call[w] # Idle
    /\ Return(w)
    /\ UNCHANGED <<user, address, now, issued, uses, session>>

-----------------------------------------------------------------------------
OtpStep(w) ==
    \/ RegisterBegin(w) \/ RegisterWrite(w) \/ VerifyWrite(w)
    \/ \E op \in {"verify", "reset"}, k \in Otps : OtpBegin(w, op, k)
    \/ \E password \in Passwords : ResetWrite(w, password)

SessionStep(w) ==
    \/ LoginBegin(w) \/ RefreshGuard(w) \/ RefreshRead(w) \/ BlockBegin(w) \/ BlockWrite(w)
    \/ \E token \in Seconds : RefreshBegin(w, token) \/ StoreToken(w, token)

AddressStep(w) ==
    \/ AddDefaultBegin(w) \/ ClearDefaults(w) \/ UpdateDefault(w)
    \/ \E a \in Addresses : UpdateDefaultBegin(w, a) \/ AddDefault(w, a)

Next ==
    \/ \E w \in Workers : OtpStep(w) \/ SessionStep(w) \/ AddressStep(w) \/ Fail(w)
    \/ \E a \in Addresses : WritePlain(a) \/ DeleteAddress(a)
    \/ ForgotPassword \/ OtpExpires \/ Logout \/ Tick

Spec == Init /\ [][Next]_vars

-----------------------------------------------------------------------------
(* Properties.                                                             *)

(* Rows, requests and histories have their types.                          *)
TypeOK ==
    /\ user \in UserRow
    /\ address \in [Addresses -> {"NONE", "PLAIN", "DEFAULT", "GONE"}]
    /\ call \in [Workers -> Calls]
    /\ now \in Seconds
    /\ issued \in {0} \cup Otps
    /\ uses \in [Otps -> Nat]
    /\ session \in [key : {0} \cup Passwords, raced : BOOLEAN]

(* A one-time password is checked in one statement and cleared in another: *)
(* it works as often as requests run at once, and never again afterwards.  *)
OtpUseBound == \A k \in Otps : uses[k] <= Cardinality(Workers)

(* A session does not outlive the password it was opened with, through any *)
(* chain of refreshes, unless the reset overtook one of its requests.      *)
SessionEndsWithPassword ==
    user.token # 0 => session.key = user.password \/ session.raced

(* Defaults are cleared in one statement and set in another: there are at  *)
(* most as many as requests run at once, and they do not add up.           *)
Defaults == {a \in Addresses : address[a] = "DEFAULT"}
DefaultsBounded == Cardinality(Defaults) <= Cardinality(Workers)
=============================================================================
