------------------------ MODULE AccountsTrackingProofs ------------------------
(***************************************************************************)
(* Theorems about Accounts, for any addresses, workers and bounds, and     *)
(* about Tracking, for any processes, requests, pages and bounds.  The two *)
(* components do not interact; each half uses its own component only.      *)
(***************************************************************************)
EXTENDS Accounts, Tracking, FiniteSetTheorems, SequenceTheorems, TLAPS

-----------------------------------------------------------------------------
(* Accounts.                                                               *)

(* No request is a request.                                                *)
LEMMA IdleType == Idle \in Calls
  BY DEF Idle, Calls

(* A request that goes on, ends or begins is a request.                    *)
LEMMA CallType ==
    ASSUME call \in [Workers -> Calls], NEW w \in Workers
    PROVE  /\ Return(w) => call' \in [Workers -> Calls]
           /\ \A request \in Calls : Accept(w, request) => call' \in [Workers -> Calls]
           /\ \A pc \in {"read", "write"} : Goto(w, pc) => call' \in [Workers -> Calls]
<1>1. ASSUME NEW pc \in {"read", "write"}, Goto(w, pc)
      PROVE  call' \in [Workers -> Calls]
  <2>1. [call[w] EXCEPT !.pc = pc] \in Calls
    BY DEF Calls
  <2>2. call' = [call EXCEPT ![w] = [call[w] EXCEPT !.pc = pc]]
    BY <1>1 DEF Goto
  <2> QED BY <2>1, <2>2
<1> QED BY <1>1, IdleType DEF Return, Accept

(* Every change of the user's row leaves a row.                            *)
LEMMA RowType ==
    ASSUME NEW row \in UserRow
    PROVE  /\ [row EXCEPT !.otp = 0, !.expired = FALSE] \in UserRow
           /\ [row EXCEPT !.expired = TRUE] \in UserRow
           /\ [row EXCEPT !.token = 0] \in UserRow
           /\ \A k \in Otps : [row EXCEPT !.otp = k, !.expired = FALSE] \in UserRow
           /\ \A password \in Passwords :
                 [row EXCEPT !.password = password, !.token = 0, !.otp = 0, !.expired = FALSE] \in UserRow
  BY DEF UserRow

(* One use more of a password that a request found is a count.             *)
LEMMA CountType ==
    ASSUME uses \in [Otps -> Nat], NEW k
    PROVE  [uses EXCEPT ![k] = uses[k] + 1] \in [Otps -> Nat]
<1> DEFINE more == [j \in Otps |-> IF j = k THEN uses[k] + 1 ELSE uses[j]]
<1>1. [uses EXCEPT ![k] = uses[k] + 1] = more
  OBVIOUS
<1>2. \A j \in Otps : more[j] \in Nat
  OBVIOUS
<1> HIDE DEF more
<1>3. more \in [Otps -> Nat]
  BY <1>2 DEF more
<1> QED BY <1>1, <1>3

(* Registration and one-time passwords keep the types.                     *)
LEMMA OtpType ==
    ASSUME TypeOK, NEW w \in Workers, OtpStep(w)
    PROVE  TypeOK'
<1> USE BoundsAssumption DEF Otps, Passwords, Seconds
<1>1. CASE RegisterBegin(w)
  <2>1. [Idle EXCEPT !.op = "register", !.pc = "write"] \in Calls
    BY IdleType DEF Calls
  <2> QED BY <1>1, <2>1, CallType DEF TypeOK, RegisterBegin
<1>2. CASE RegisterWrite(w)
  <2>1. call' \in [Workers -> Calls]
    BY <1>2, CallType DEF TypeOK, RegisterWrite
  <2>2. issued' \in {0} \cup Otps
    BY <1>2 DEF TypeOK, RegisterWrite
  <2>3. CASE user' = user
    BY <1>2, <2>1, <2>2, <2>3 DEF TypeOK, RegisterWrite
  <2>4. CASE user' = [password |-> 1, active |-> TRUE, token |-> 0, otp |-> issued + 1, expired |-> FALSE]
             /\ issued' = issued + 1
    <3>1. user' \in UserRow
      BY <2>2, <2>4 DEF UserRow
    <3> QED BY <1>2, <2>1, <2>2, <3>1 DEF TypeOK, RegisterWrite
  <2> QED BY <1>2, <2>3, <2>4 DEF RegisterWrite
<1>3. ASSUME NEW op \in {"verify", "reset"}, NEW k \in Otps, OtpBegin(w, op, k)
      PROVE  TypeOK'
  <2>1. [Idle EXCEPT !.op = op, !.pc = "write", !.otp = k] \in Calls
    BY IdleType DEF Calls
  <2> QED BY <1>3, <2>1, CallType DEF TypeOK, OtpBegin
<1>4. CASE VerifyWrite(w)
  <2>1. call' \in [Workers -> Calls]
    BY <1>4, CallType DEF TypeOK, VerifyWrite
  <2>2. user' \in UserRow
    BY <1>4, RowType DEF TypeOK, VerifyWrite
  <2>3. uses' \in [Otps -> Nat]
    BY <1>4, CountType DEF TypeOK, VerifyWrite
  <2> QED BY <1>4, <2>1, <2>2, <2>3 DEF TypeOK, VerifyWrite
<1>5. ASSUME NEW password \in Passwords, ResetWrite(w, password) PROVE TypeOK'
  <2>1. \A x \in Workers : [call[x] EXCEPT !.raced = TRUE] \in Calls
    <3>1. \A c \in Calls : [c EXCEPT !.raced = TRUE] \in Calls
      BY DEF Calls
    <3> QED BY <3>1 DEF TypeOK
  <2>2. call' \in [Workers -> Calls]
    BY <1>5, <2>1, IdleType DEF TypeOK, ResetWrite
  <2>3. user' \in UserRow
    BY <1>5, RowType DEF TypeOK, ResetWrite
  <2>4. uses' \in [Otps -> Nat]
    BY <1>5, CountType DEF TypeOK, ResetWrite
  <2> QED BY <1>5, <2>2, <2>3, <2>4 DEF TypeOK, ResetWrite, NoSession
<1> QED BY <1>1, <1>2, <1>3, <1>4, <1>5 DEF OtpStep

(* So do sessions and blocking.                                            *)
LEMMA SessionType ==
    ASSUME TypeOK, NEW w \in Workers, SessionStep(w)
    PROVE  TypeOK'
<1> USE BoundsAssumption DEF Otps, Passwords, Seconds
<1>1. CASE LoginBegin(w)
  <2>1. [Idle EXCEPT !.op = "login", !.pc = "write", !.since = now, !.key = user.password] \in Calls
    BY IdleType DEF Calls, TypeOK, UserRow
  <2> QED BY <1>1, <2>1, CallType DEF TypeOK, LoginBegin
<1>2. CASE RefreshGuard(w)
  <2>1. call' \in [Workers -> Calls]
    BY <1>2, CallType DEF TypeOK, RefreshGuard
  <2> QED BY <1>2, <2>1 DEF TypeOK, RefreshGuard
<1>3. CASE RefreshRead(w)
  <2> DEFINE next == [call[w] EXCEPT !.pc = "write", !.since = now, !.key = session.key, !.raced = session.raced]
  <2>1. next \in Calls
    <3>1. call[w] \in Calls /\ now \in Seconds /\ session.key \in {0} \cup Passwords /\ session.raced \in BOOLEAN
      BY DEF TypeOK
    <3> QED BY <3>1 DEF Calls
  <2>2. call' = [call EXCEPT ![w] = next] \/ Return(w)
    BY <1>3 DEF RefreshRead
  <2>3. call' \in [Workers -> Calls]
    BY <2>1, <2>2, CallType DEF TypeOK
  <2> QED BY <1>3, <2>3 DEF TypeOK, RefreshRead
<1>4. CASE BlockBegin(w)
  <2>1. [Idle EXCEPT !.op = "block", !.pc = "write", !.active = ~ user.active] \in Calls
    BY IdleType DEF Calls
  <2> QED BY <1>4, <2>1, CallType DEF TypeOK, BlockBegin
<1>5. CASE BlockWrite(w)
  <2>1. call' \in [Workers -> Calls]
    BY <1>5, CallType DEF TypeOK, BlockWrite
  <2>2. user' \in UserRow
    BY <1>5 DEF TypeOK, BlockWrite, UserRow, Calls
  <2> QED BY <1>5, <2>1, <2>2 DEF TypeOK, BlockWrite
<1>6. ASSUME NEW token \in Seconds, RefreshBegin(w, token) PROVE TypeOK'
  <2>1. [Idle EXCEPT !.op = "refresh", !.pc = "guard", !.token = token] \in Calls
    BY IdleType DEF Calls
  <2> QED BY <1>6, <2>1, CallType DEF TypeOK, RefreshBegin
<1>7. ASSUME NEW token \in Seconds, StoreToken(w, token) PROVE TypeOK'
  <2>1. call' \in [Workers -> Calls]
    BY <1>7, CallType DEF TypeOK, StoreToken
  <2>2. user' \in UserRow
    BY <1>7 DEF TypeOK, StoreToken, UserRow
  <2>3. session' \in [key : {0} \cup Passwords, raced : BOOLEAN]
    BY <1>7 DEF TypeOK, StoreToken, Calls
  <2> QED BY <1>7, <2>1, <2>2, <2>3 DEF TypeOK, StoreToken
<1> QED BY <1>1, <1>2, <1>3, <1>4, <1>5, <1>6, <1>7 DEF SessionStep

(* So do the two statements that set a default address.                    *)
LEMMA AddressType ==
    ASSUME TypeOK, NEW w \in Workers, AddressStep(w)
    PROVE  TypeOK'
<1>1. CASE AddDefaultBegin(w)
  <2>1. [Idle EXCEPT !.op = "add", !.pc = "clear"] \in Calls
    BY IdleType DEF Calls
  <2> QED BY <1>1, <2>1, CallType DEF TypeOK, AddDefaultBegin
<1>2. ASSUME NEW a \in Addresses, UpdateDefaultBegin(w, a) PROVE TypeOK'
  <2>1. [Idle EXCEPT !.op = "update", !.pc = "clear", !.address = a] \in Calls
    BY IdleType DEF Calls
  <2> QED BY <1>2, <2>1, CallType DEF TypeOK, UpdateDefaultBegin
<1>3. CASE ClearDefaults(w)
  <2>1. call' \in [Workers -> Calls]
    BY <1>3, CallType DEF TypeOK, ClearDefaults
  <2> QED BY <1>3, <2>1 DEF TypeOK, ClearDefaults
<1>4. CASE UpdateDefault(w) \/ \E a \in Addresses : AddDefault(w, a)
  <2>1. call' \in [Workers -> Calls]
    BY <1>4, CallType DEF TypeOK, UpdateDefault, AddDefault
  <2> QED BY <1>4, <2>1 DEF TypeOK, UpdateDefault, AddDefault
<1> QED BY <1>1, <1>2, <1>3, <1>4 DEF AddressStep

(* Every state has the declared types.                                     *)
THEOREM TypeCorrect == Spec => []TypeOK
<1> USE BoundsAssumption DEF Otps, Passwords, Seconds
<1>1. Init => TypeOK
  BY IdleType DEF Init, TypeOK, NoUser, NoSession, UserRow
<1>2. ASSUME TypeOK, [Next]_vars PROVE TypeOK'
  <2>1. CASE UNCHANGED vars
    BY <1>2, <2>1 DEF TypeOK, vars
  <2>2. ASSUME NEW w \in Workers, Fail(w) PROVE TypeOK'
    <3>1. call' \in [Workers -> Calls]
      BY <1>2, <2>2, CallType DEF TypeOK, Fail
    <3> QED BY <1>2, <2>2, <3>1 DEF TypeOK, Fail
  <2>3. ASSUME NEW a \in Addresses, WritePlain(a) \/ DeleteAddress(a) PROVE TypeOK'
    BY <1>2, <2>3 DEF TypeOK, WritePlain, DeleteAddress
  <2>4. CASE ForgotPassword \/ OtpExpires \/ Logout
    <3>1. CASE ForgotPassword
      <4>1. issued + 1 \in Otps /\ user' = [user EXCEPT !.otp = issued + 1, !.expired = FALSE]
        BY <1>2, <3>1 DEF TypeOK, ForgotPassword
      <4>2. user' \in UserRow
        BY <1>2, <4>1, RowType DEF TypeOK
      <4> QED BY <1>2, <3>1, <4>1, <4>2 DEF TypeOK, ForgotPassword
    <3>2. CASE OtpExpires
      BY <1>2, <3>2, RowType DEF TypeOK, OtpExpires
    <3>3. CASE Logout
      BY <1>2, <3>3, RowType DEF TypeOK, Logout, NoSession
    <3> QED BY <2>4, <3>1, <3>2, <3>3
  <2>5. CASE Tick
    BY <1>2, <2>5 DEF TypeOK, Tick
  <2> QED BY <1>2, <2>1, <2>2, <2>3, <2>4, <2>5, OtpType, SessionType, AddressType DEF Next
<1> QED BY <1>1, <1>2, PTL DEF Spec

-----------------------------------------------------------------------------
(***************************************************************************)
(* How many default addresses there are, how often a one-time password     *)
(* works and how long a session lives.                                     *)
(***************************************************************************)

(* What a request is once it is accepted.                                  *)
LEMMA Begun ==
    ASSUME TypeOK, NEW w \in Workers
    PROVE  /\ RegisterBegin(w) => call'[w].op = "register"
           /\ \A op, k : OtpBegin(w, op, k) => call'[w].op = op /\ call'[w].otp = k
           /\ LoginBegin(w) => /\ call'[w].op = "login"
                              /\ call'[w].key = user.password /\ ~ call'[w].raced
           /\ \A token : RefreshBegin(w, token) => /\ call'[w].op = "refresh" /\ call'[w].pc = "guard"
                                                  /\ call'[w].token = token
           /\ BlockBegin(w) => call'[w].op = "block"
           /\ AddDefaultBegin(w) => call'[w].op = "add" /\ call'[w].pc = "clear"
           /\ \A a : UpdateDefaultBegin(w, a) => call'[w].op = "update" /\ call'[w].pc = "clear"
<1>1. ASSUME NEW request, Accept(w, request) PROVE call'[w] = request
  BY <1>1 DEF TypeOK, Accept
<1>2. ASSUME RegisterBegin(w) PROVE call'[w].op = "register"
  <2>1. call'[w] = [Idle EXCEPT !.op = "register", !.pc = "write"]
    BY <1>1, <1>2 DEF RegisterBegin
  <2> QED BY <2>1 DEF Idle
<1>3. ASSUME NEW op, NEW k, OtpBegin(w, op, k) PROVE call'[w].op = op /\ call'[w].otp = k
  <2>1. call'[w] = [Idle EXCEPT !.op = op, !.pc = "write", !.otp = k]
    BY <1>1, <1>3 DEF OtpBegin
  <2> QED BY <2>1 DEF Idle
<1>4. ASSUME LoginBegin(w)
      PROVE  call'[w].op = "login" /\ call'[w].key = user.password /\ ~ call'[w].raced
  <2>1. call'[w] = [Idle EXCEPT !.op = "login", !.pc = "write", !.since = now, !.key = user.password]
    BY <1>1, <1>4 DEF LoginBegin
  <2> QED BY <2>1 DEF Idle
<1>5. ASSUME NEW token, RefreshBegin(w, token)
      PROVE  call'[w].op = "refresh" /\ call'[w].pc = "guard" /\ call'[w].token = token
  <2>1. call'[w] = [Idle EXCEPT !.op = "refresh", !.pc = "guard", !.token = token]
    BY <1>1, <1>5 DEF RefreshBegin
  <2> QED BY <2>1 DEF Idle
<1>6. ASSUME BlockBegin(w) PROVE call'[w].op = "block"
  <2>1. call'[w] = [Idle EXCEPT !.op = "block", !.pc = "write", !.active = ~ user.active]
    BY <1>1, <1>6 DEF BlockBegin
  <2> QED BY <2>1 DEF Idle
<1>7. ASSUME AddDefaultBegin(w) PROVE call'[w].op = "add" /\ call'[w].pc = "clear"
  <2>1. call'[w] = [Idle EXCEPT !.op = "add", !.pc = "clear"]
    BY <1>1, <1>7 DEF AddDefaultBegin
  <2> QED BY <2>1 DEF Idle
<1>8. ASSUME NEW a, UpdateDefaultBegin(w, a) PROVE call'[w].op = "update" /\ call'[w].pc = "clear"
  <2>1. call'[w] = [Idle EXCEPT !.op = "update", !.pc = "clear", !.address = a]
    BY <1>1, <1>8 DEF UpdateDefaultBegin
  <2> QED BY <2>1 DEF Idle
<1> QED BY <1>2, <1>3, <1>4, <1>5, <1>6, <1>7, <1>8

(* What one step does to the requests: one ends, moves on or is accepted,  *)
(* or a reset marks the others; nothing else about them changes.           *)
LEMMA OtherCalls ==
    ASSUME TypeOK, NEW w \in Workers,
           OtpStep(w) \/ SessionStep(w) \/ AddressStep(w) \/ Fail(w),
           NEW x \in Workers, x # w
    PROVE  /\ call'[x].op = call[x].op /\ call'[x].pc = call[x].pc
           /\ call'[x].otp = call[x].otp /\ call'[x].token = call[x].token
           /\ call'[x].key = call[x].key
           /\ call'[x].raced = call[x].raced \/ call'[x].raced
<1>1. call \in [Workers -> Calls] /\ call[x] \in Calls
  BY DEF TypeOK
<1>2. ASSUME NEW password \in Passwords, ResetWrite(w, password)
      PROVE  call'[x] = call[x] \/ call'[x] = [call[x] EXCEPT !.raced = TRUE]
  BY <1>2 DEF ResetWrite
<1>3. CASE OtpStep(w)
  BY <1>1, <1>2, <1>3 DEF OtpStep, RegisterBegin, RegisterWrite, VerifyWrite, OtpBegin, Accept, Return, Calls
<1>4. CASE SessionStep(w)
  BY <1>1, <1>4 DEF SessionStep, LoginBegin, RefreshGuard, RefreshRead, BlockBegin, BlockWrite,
                    RefreshBegin, StoreToken, Accept, Return, Goto
<1>5. CASE AddressStep(w)
  BY <1>1, <1>5 DEF AddressStep, AddDefaultBegin, ClearDefaults, UpdateDefault,
                    UpdateDefaultBegin, AddDefault, Accept, Return, Goto
<1>6. CASE Fail(w)
  BY <1>1, <1>6 DEF Fail, Return
<1> QED BY <1>3, <1>4, <1>5, <1>6

(* A step of a session's request leaves a session's request or none.       *)
LEMMA SessionOps ==
    ASSUME TypeOK, NEW w \in Workers, SessionStep(w)
    PROVE  call'[w].op \in {"idle", "login", "refresh", "block"}
<1>1. Return(w) => call'[w].op = "idle"
  BY DEF TypeOK, Return, Idle
<1>2. CASE LoginBegin(w) \/ BlockBegin(w) \/ \E token \in Seconds : RefreshBegin(w, token)
  BY <1>2, Begun
<1>3. CASE BlockWrite(w) \/ \E token \in Seconds : StoreToken(w, token)
  BY <1>1, <1>3 DEF BlockWrite, StoreToken
<1>4. CASE RefreshGuard(w) \/ RefreshRead(w)
  <2>1. call[w] \in Calls /\ call[w].op = "refresh"
    BY <1>4 DEF TypeOK, RefreshGuard, RefreshRead, IsAt
  <2>2. ~ Return(w) => call'[w].op = call[w].op
    BY <1>4, <2>1 DEF TypeOK, Calls, RefreshGuard, RefreshRead, Goto
  <2> QED BY <1>1, <2>1, <2>2
<1> QED BY <1>2, <1>3, <1>4 DEF SessionStep

-----------------------------------------------------------------------------
(* Default addresses.                                                      *)

(* The requests that may still set a default.                              *)
Pending == {w \in Workers : call[w].op \in {"add", "update"} /\ call[w].pc = "write"}

DefaultsInv ==
    /\ IsFiniteSet(Defaults)
    /\ Cardinality(Defaults) + Cardinality(Pending) <= Cardinality(Workers)

(* Fewer defaults and fewer that set one keep the bound.                   *)
LEMMA FewerDefaults ==
    ASSUME DefaultsInv, Defaults' \subseteq Defaults, Pending' \subseteq Pending
    PROVE  DefaultsInv'
<1>1. IsFiniteSet(Pending)
  BY WorkersAssumption, FS_Subset DEF Pending
<1>2. /\ IsFiniteSet(Defaults') /\ Cardinality(Defaults') <= Cardinality(Defaults)
      /\ Cardinality(Pending') <= Cardinality(Pending) /\ IsFiniteSet(Pending')
  BY <1>1, FS_Subset DEF DefaultsInv
<1>3. Cardinality(Defaults) \in Nat /\ Cardinality(Pending) \in Nat /\ Cardinality(Defaults') \in Nat
      /\ Cardinality(Pending') \in Nat /\ Cardinality(Workers) \in Nat
  BY <1>1, <1>2, WorkersAssumption, FS_CardinalityType DEF DefaultsInv
<1> QED BY <1>2, <1>3 DEF DefaultsInv

(* A request that sets one default stops being one that may.               *)
LEMMA OneDefault ==
    ASSUME DefaultsInv, NEW w \in Pending, Pending' \subseteq Pending \ {w},
           NEW a, Defaults' \subseteq Defaults \cup {a}
    PROVE  DefaultsInv'
<1>1. IsFiniteSet(Pending) /\ IsFiniteSet(Pending \ {w})
  BY WorkersAssumption, FS_Subset, FS_RemoveElement DEF Pending
<1>2. /\ Cardinality(Pending \ {w}) = Cardinality(Pending) - 1
      /\ Cardinality(Pending') <= Cardinality(Pending \ {w}) /\ IsFiniteSet(Pending')
  BY <1>1, FS_Subset, FS_RemoveElement
<1>3. /\ IsFiniteSet(Defaults \cup {a})
      /\ Cardinality(Defaults \cup {a}) \in {Cardinality(Defaults), Cardinality(Defaults) + 1}
  BY FS_AddElement DEF DefaultsInv
<1>4. IsFiniteSet(Defaults') /\ Cardinality(Defaults') <= Cardinality(Defaults \cup {a})
  BY <1>3, FS_Subset
<1>5. Cardinality(Defaults) \in Nat /\ Cardinality(Pending) \in Nat /\ Cardinality(Defaults') \in Nat
      /\ Cardinality(Pending') \in Nat /\ Cardinality(Workers) \in Nat
  BY <1>1, <1>2, <1>4, WorkersAssumption, FS_CardinalityType DEF DefaultsInv
<1> QED BY <1>2, <1>3, <1>4, <1>5 DEF DefaultsInv

(* A step of one request keeps the bound.                                  *)
LEMMA DefaultsStep ==
    ASSUME TypeOK, DefaultsInv, NEW w \in Workers,
           OtpStep(w) \/ SessionStep(w) \/ AddressStep(w) \/ Fail(w)
    PROVE  DefaultsInv'
<1>1. Pending' \subseteq Pending \cup {w}
  BY OtherCalls DEF Pending
<1>2. CASE ClearDefaults(w)
  <2>1. Defaults' = {}
    BY <1>2 DEF ClearDefaults, Defaults
  <2>2. IsFiniteSet(Pending') /\ Cardinality(Pending') <= Cardinality(Workers)
    BY WorkersAssumption, FS_Subset DEF Pending
  <2>3. Cardinality(Pending') \in Nat /\ Cardinality(Workers) \in Nat
    BY <2>2, WorkersAssumption, FS_CardinalityType
  <2> QED BY <2>1, <2>2, <2>3, FS_EmptySet DEF DefaultsInv
<1>3. ASSUME NEW a, NEW v, IsAt(w, "add", "write") \/ IsAt(w, "update", "write"), Return(w),
             address' = [address EXCEPT ![a] = v]
      PROVE  DefaultsInv'
  <2>1. w \in Pending
    BY <1>3 DEF Pending, IsAt
  <2>2. w \notin Pending'
    BY <1>3 DEF TypeOK, Return, Idle, Pending
  <2>3. Defaults' \subseteq Defaults \cup {a}
    BY <1>3 DEF TypeOK, Defaults
  <2> QED BY <1>1, <2>1, <2>2, <2>3, OneDefault
<1>4. ASSUME address' = address, call'[w].op \notin {"add", "update"} \/ call'[w].pc # "write"
      PROVE  DefaultsInv'
  <2>1. w \notin Pending'
    BY <1>4 DEF Pending
  <2>2. Defaults' = Defaults
    BY <1>4 DEF Defaults
  <2> QED BY <1>1, <2>1, <2>2, FewerDefaults
<1>5. CASE AddressStep(w)
  <2>1. CASE UpdateDefault(w)
    BY <1>3, <2>1 DEF UpdateDefault
  <2>2. ASSUME NEW a \in Addresses, AddDefault(w, a) PROVE DefaultsInv'
    BY <1>3, <2>2 DEF AddDefault
  <2>3. ASSUME AddDefaultBegin(w) \/ \E a \in Addresses : UpdateDefaultBegin(w, a) PROVE DefaultsInv'
    BY <1>4, <2>3 DEF TypeOK, AddDefaultBegin, UpdateDefaultBegin, Accept, Idle
  <2> QED BY <1>2, <1>5, <2>1, <2>2, <2>3 DEF AddressStep
<1>6. CASE OtpStep(w)
  <2>1. address' = address /\ (call'[w] = Idle \/ call'[w].op \in {"register", "verify", "reset"})
    <3>1. CASE RegisterBegin(w)
      BY <3>1, Begun DEF RegisterBegin
    <3>3. ASSUME NEW op \in {"verify", "reset"}, NEW k \in Otps, OtpBegin(w, op, k)
          PROVE  address' = address /\ call'[w].op = op
      BY <3>3, Begun DEF OtpBegin
    <3>2. CASE RegisterWrite(w) \/ VerifyWrite(w) \/ \E password \in Passwords : ResetWrite(w, password)
      BY <3>2 DEF TypeOK, RegisterWrite, VerifyWrite, ResetWrite, Return
    <3> QED BY <1>6, <3>1, <3>2, <3>3 DEF OtpStep
  <2> QED BY <1>4, <2>1 DEF Idle
<1>7. CASE SessionStep(w)
  <2>1. address' = address
    BY <1>7 DEF SessionStep, LoginBegin, RefreshGuard, RefreshRead, BlockBegin, BlockWrite, RefreshBegin, StoreToken
  <2> QED BY <1>4, <1>7, <2>1, SessionOps
<1>8. CASE Fail(w)
  BY <1>4, <1>8 DEF TypeOK, Fail, Return, Idle
<1> QED BY <1>5, <1>6, <1>7, <1>8

(* There are never more default addresses than requests run at once.       *)
THEOREM DefaultsAreBounded == Spec => []DefaultsBounded
<1>1. Init => DefaultsInv
  <2> SUFFICES ASSUME Init PROVE DefaultsInv
    OBVIOUS
  <2>1. Defaults = {} /\ Pending = {}
    BY DEF Init, Defaults, Pending, Idle
  <2> QED BY <2>1, FS_EmptySet, WorkersAssumption, FS_CardinalityType DEF DefaultsInv
<1>2. ASSUME TypeOK, DefaultsInv, [Next]_vars PROVE DefaultsInv'
  <2>1. ASSUME NEW a \in Addresses, WritePlain(a) \/ DeleteAddress(a) PROVE DefaultsInv'
    <3>1. Defaults' \subseteq Defaults /\ Pending' = Pending
      BY <1>2, <2>1 DEF TypeOK, WritePlain, DeleteAddress, Defaults, Pending
    <3> QED BY <1>2, <3>1, FewerDefaults
  <2>2. CASE ForgotPassword \/ OtpExpires \/ Logout \/ Tick \/ UNCHANGED vars
    BY <1>2, <2>2 DEF ForgotPassword, OtpExpires, Logout, Tick, vars, DefaultsInv, Defaults, Pending
  <2> QED BY <1>2, <2>1, <2>2, DefaultsStep DEF Next
<1>3. DefaultsInv => DefaultsBounded
  <2> SUFFICES ASSUME DefaultsInv PROVE DefaultsBounded
    OBVIOUS
  <2>1. IsFiniteSet(Pending)
    BY WorkersAssumption, FS_Subset DEF Pending
  <2>2. Cardinality(Defaults) \in Nat /\ Cardinality(Pending) \in Nat /\ Cardinality(Workers) \in Nat
    BY <2>1, WorkersAssumption, FS_CardinalityType DEF DefaultsInv
  <2> QED BY <2>2 DEF DefaultsInv, DefaultsBounded
<1> QED BY <1>1, <1>2, <1>3, TypeCorrect, PTL DEF Spec

-----------------------------------------------------------------------------
(* One-time passwords.                                                     *)

(* The requests that found password k and have not used it yet.            *)
Holding(k) == {w \in Workers : /\ call[w].op \in {"verify", "reset"} /\ call[w].pc = "write"
                               /\ call[w].otp = k}

OtpInv ==
    /\ user.otp <= issued
    /\ \A k \in Otps : user.otp = k => uses[k] = 0
    /\ \A k \in Otps : issued < k => uses[k] = 0 /\ Holding(k) = {}
    /\ \A k \in Otps : uses[k] + Cardinality(Holding(k)) <= Cardinality(Workers)

(* The requests that hold a password are at most all of them.              *)
LEMMA HoldingType ==
    ASSUME NEW k
    PROVE  /\ IsFiniteSet(Holding(k)) /\ Cardinality(Holding(k)) \in Nat
           /\ IsFiniteSet(Holding(k)') /\ Cardinality(Holding(k)') \in Nat
           /\ Cardinality(Holding(k)') <= Cardinality(Workers) /\ Cardinality(Workers) \in Nat
  BY WorkersAssumption, FS_Subset, FS_CardinalityType DEF Holding

(* No more uses, no more holders and no other password on the row keep it. *)
LEMMA FewerHolding ==
    ASSUME TypeOK, OtpInv, uses' = uses,
           \/ user'.otp \in {0, user.otp} /\ issued' = issued
           \/ user'.otp = issued + 1 /\ issued' = issued + 1,
           \A k \in Otps : Holding(k)' \subseteq Holding(k)
    PROVE  OtpInv'
<1>1. issued \in Nat /\ user.otp \in Nat
  BY BoundsAssumption DEF TypeOK, UserRow, Otps
<1>2. \A k \in Otps : Cardinality(Holding(k)') <= Cardinality(Holding(k))
  BY HoldingType, FS_Subset
<1>3. \A k \in Otps : uses[k] \in Nat /\ k \in Nat \ {0}
  BY BoundsAssumption DEF TypeOK, Otps
<1>4. user'.otp <= issued'
  BY <1>1 DEF OtpInv
<1>5. ASSUME NEW k \in Otps
      PROVE  /\ user'.otp = k => uses'[k] = 0
             /\ issued' < k => uses'[k] = 0 /\ Holding(k)' = {}
             /\ uses'[k] + Cardinality(Holding(k)') <= Cardinality(Workers)
  <2>1. user'.otp = k => uses[k] = 0
    BY <1>1, <1>3 DEF OtpInv
  <2>2. issued' < k => uses[k] = 0 /\ Holding(k)' = {}
    BY <1>1, <1>3 DEF OtpInv
  <2>3. uses[k] + Cardinality(Holding(k)') <= Cardinality(Workers)
    BY <1>2, <1>3, HoldingType DEF OtpInv
  <2> QED BY <2>1, <2>2, <2>3
<1> QED BY <1>4, <1>5 DEF OtpInv

(* A request that uses its password holds none any more.                   *)
LEMMA OneUse ==
    ASSUME TypeOK, OtpInv, NEW w \in Workers, IsAt(w, "verify", "write") \/ IsAt(w, "reset", "write"),
           user'.otp = 0, issued' = issued,
           uses' = [uses EXCEPT ![call[w].otp] = uses[call[w].otp] + 1],
           \A k \in Otps : Holding(k)' \subseteq Holding(k) \ {w}
    PROVE  OtpInv'
<1>1. issued \in Nat /\ 0 \notin Otps /\ uses \in [Otps -> Nat] /\ \A k \in Otps : k \in Nat
  BY BoundsAssumption DEF TypeOK, Otps
<1>2. ASSUME NEW k \in Otps
      PROVE  /\ issued < k => uses'[k] = 0 /\ Holding(k)' = {}
             /\ uses'[k] + Cardinality(Holding(k)') <= Cardinality(Workers)
  <2>1. CASE call[w].otp = k
    <3>1. w \in Holding(k)
      BY <2>1 DEF Holding, IsAt
    <3>2. ~ issued < k
      BY <3>1 DEF OtpInv
    <3>3. /\ Cardinality(Holding(k) \ {w}) = Cardinality(Holding(k)) - 1
          /\ IsFiniteSet(Holding(k) \ {w})
      BY <3>1, HoldingType, FS_RemoveElement
    <3>4. Cardinality(Holding(k)') <= Cardinality(Holding(k)) - 1
      BY <3>3, FS_Subset
    <3>5. uses'[k] = uses[k] + 1 /\ uses[k] \in Nat
      BY <1>1, <2>1
    <3> QED BY <3>2, <3>4, <3>5, HoldingType DEF OtpInv
  <2>2. CASE call[w].otp # k
    <3>1. uses'[k] = uses[k] /\ uses[k] \in Nat
      BY <1>1, <2>2
    <3>2. Cardinality(Holding(k)') <= Cardinality(Holding(k))
      BY HoldingType, FS_Subset
    <3>3. issued < k => Holding(k)' = {} /\ uses[k] = 0
      BY DEF OtpInv
    <3>4. uses[k] + Cardinality(Holding(k)) <= Cardinality(Workers)
      BY DEF OtpInv
    <3> QED BY <3>1, <3>2, <3>3, <3>4, HoldingType
  <2> QED BY <2>1, <2>2
<1> QED BY <1>1, <1>2 DEF OtpInv

(* A step of one request keeps it.                                         *)
LEMMA OtpUseStep ==
    ASSUME TypeOK, OtpInv, NEW w \in Workers,
           OtpStep(w) \/ SessionStep(w) \/ AddressStep(w) \/ Fail(w)
    PROVE  OtpInv'
<1>1. \A k \in Otps : Holding(k)' \subseteq Holding(k) \cup {w}
  BY OtherCalls DEF Holding
<1>2. ASSUME call'[w].op \notin {"verify", "reset"}
      PROVE  \A k \in Otps : Holding(k)' \subseteq Holding(k) \ {w}
  BY <1>1, <1>2 DEF Holding
<1>3. Return(w) => call'[w].op \notin {"verify", "reset"}
  BY DEF TypeOK, Return, Idle
<1>4. CASE OtpStep(w)
  <2>1. CASE RegisterBegin(w)
    BY <1>2, <2>1, Begun, FewerHolding DEF RegisterBegin
  <2>2. CASE RegisterWrite(w)
    <3>1. \/ user'.otp = user.otp /\ issued' = issued
          \/ user'.otp = issued + 1 /\ issued' = issued + 1
      BY <2>2 DEF RegisterWrite
    <3> QED BY <1>2, <1>3, <2>2, <3>1, FewerHolding DEF RegisterWrite
  <2>3. ASSUME NEW op \in {"verify", "reset"}, NEW k \in Otps, OtpBegin(w, op, k) PROVE OtpInv'
    <3>1. user.otp = k /\ user' = user /\ uses' = uses /\ issued' = issued
      BY <2>3 DEF OtpBegin, OtpGood
    <3>2. call'[w].otp = k
      BY <2>3, Begun
    <3>3. \A j \in Otps \ {k} : Holding(j)' \subseteq Holding(j)
      BY <1>1, <3>2 DEF Holding
    <3>4. \A j \in Otps \ {k} : Cardinality(Holding(j)') <= Cardinality(Holding(j))
      BY <3>3, HoldingType, FS_Subset
    <3>5. user.otp <= issued /\ uses[k] = 0
      BY <3>1 DEF OtpInv
    <3>6. issued \in Nat /\ k \in Nat
      BY BoundsAssumption DEF TypeOK, Otps
    <3>7. ASSUME NEW j \in Otps
          PROVE  /\ issued < j => uses[j] = 0 /\ Holding(j)' = {}
                 /\ uses[j] + Cardinality(Holding(j)') <= Cardinality(Workers)
      <4>1. CASE j = k
        BY <3>1, <3>5, <3>6, <4>1, HoldingType
      <4>2. CASE j # k
        <5>1. uses[j] \in Nat /\ uses[j] + Cardinality(Holding(j)) <= Cardinality(Workers)
          BY DEF TypeOK, OtpInv
        <5>2. issued < j => uses[j] = 0 /\ Holding(j) = {}
          BY DEF OtpInv
        <5> QED BY <3>3, <3>4, <4>2, <5>1, <5>2, HoldingType
      <4> QED BY <4>1, <4>2
    <3> QED BY <3>1, <3>7 DEF OtpInv
  <2>4. CASE VerifyWrite(w)
    <3>1. user'.otp = 0
      BY <2>4 DEF VerifyWrite, TypeOK, UserRow
    <3> QED BY <1>2, <1>3, <2>4, <3>1, OneUse DEF VerifyWrite
  <2>5. ASSUME NEW password \in Passwords, ResetWrite(w, password) PROVE OtpInv'
    <3>1. user'.otp = 0
      BY <2>5 DEF ResetWrite, TypeOK, UserRow
    <3>2. call'[w].op \notin {"verify", "reset"}
      BY <2>5 DEF ResetWrite, Idle
    <3> QED BY <1>2, <2>5, <3>1, <3>2, OneUse DEF ResetWrite
  <2> QED BY <1>4, <2>1, <2>2, <2>3, <2>4, <2>5 DEF OtpStep
<1>5. ASSUME user'.otp = user.otp, uses' = uses, issued' = issued,
             call'[w].op \notin {"verify", "reset"}
      PROVE  OtpInv'
  BY <1>2, <1>5, FewerHolding
<1>6. CASE SessionStep(w)
  <2>1. uses' = uses /\ issued' = issued
    BY <1>6 DEF SessionStep, LoginBegin, RefreshGuard, RefreshRead, BlockBegin, BlockWrite, RefreshBegin, StoreToken
  <2>2. user'.otp = user.otp
    BY <1>6 DEF TypeOK, UserRow, SessionStep, LoginBegin, RefreshGuard, RefreshRead, BlockBegin, BlockWrite,
                RefreshBegin, StoreToken
  <2> QED BY <1>5, <1>6, <2>1, <2>2, SessionOps
<1>7. CASE AddressStep(w)
  <2>1. user' = user /\ uses' = uses /\ issued' = issued
    BY <1>7 DEF AddressStep, AddDefaultBegin, ClearDefaults, UpdateDefault, UpdateDefaultBegin, AddDefault
  <2>2. CASE AddDefaultBegin(w) \/ \E a \in Addresses : UpdateDefaultBegin(w, a)
    BY <1>5, <2>1, <2>2, Begun
  <2>3. CASE UpdateDefault(w) \/ \E a \in Addresses : AddDefault(w, a)
    BY <1>3, <1>5, <2>1, <2>3 DEF UpdateDefault, AddDefault
  <2>4. CASE ClearDefaults(w)
    <3>1. call'[w].op = call[w].op /\ call[w].op \in {"add", "update"}
      BY <2>4 DEF TypeOK, Calls, ClearDefaults, Goto
    <3> QED BY <1>5, <2>1, <3>1
  <2> QED BY <1>7, <2>2, <2>3, <2>4 DEF AddressStep
<1>8. CASE Fail(w)
  BY <1>3, <1>5, <1>8 DEF Fail
<1> QED BY <1>4, <1>6, <1>7, <1>8

(* A one-time password is used at most once by each request that runs at   *)
(* the moment it is cleared, and never afterwards.                         *)
THEOREM OtpUsesAreBounded == Spec => []OtpUseBound
<1>1. Init => OtpInv
  <2> SUFFICES ASSUME Init PROVE OtpInv
    OBVIOUS
  <2>1. \A k \in Otps : Holding(k) = {}
    BY DEF Init, Holding, Idle
  <2>2. Cardinality({}) = 0 /\ Cardinality(Workers) \in Nat
    BY FS_EmptySet, WorkersAssumption, FS_CardinalityType
  <2>3. user.otp = 0 /\ issued = 0 /\ \A k \in Otps : uses[k] = 0
    BY DEF Init, NoUser
  <2>4. ASSUME NEW k \in Otps PROVE uses[k] + Cardinality(Holding(k)) <= Cardinality(Workers)
    <3>1. uses[k] = 0 /\ Cardinality(Holding(k)) = 0
      BY <2>1, <2>2, <2>3
    <3> QED BY <2>2, <3>1
  <2> QED BY <2>1, <2>3, <2>4 DEF OtpInv
<1>2. ASSUME TypeOK, OtpInv, [Next]_vars PROVE OtpInv'
  <2>1. ASSUME \/ user'.otp \in {0, user.otp} /\ issued' = issued
               \/ user'.otp = issued + 1 /\ issued' = issued + 1,
               call' = call, uses' = uses
        PROVE  OtpInv'
    BY <1>2, <2>1, FewerHolding DEF Holding
  <2>2. ASSUME NEW a \in Addresses, WritePlain(a) \/ DeleteAddress(a) PROVE OtpInv'
    <3>1. user' = user /\ call' = call /\ issued' = issued /\ uses' = uses
      BY <2>2 DEF WritePlain, DeleteAddress
    <3> QED BY <2>1, <3>1
  <2>3. CASE ForgotPassword
    <3>1. user'.otp = issued + 1
      BY <1>2, <2>3 DEF TypeOK, UserRow, ForgotPassword
    <3> QED BY <2>1, <2>3, <3>1 DEF ForgotPassword
  <2>4. CASE OtpExpires \/ Logout
    <3>1. user'.otp = user.otp
      BY <1>2, <2>4 DEF TypeOK, UserRow, OtpExpires, Logout
    <3>2. call' = call /\ issued' = issued /\ uses' = uses
      BY <2>4 DEF OtpExpires, Logout
    <3> QED BY <2>1, <3>1, <3>2
  <2>5. CASE Tick \/ UNCHANGED vars
    <3>1. user' = user /\ call' = call /\ issued' = issued /\ uses' = uses
      BY <2>5 DEF Tick, vars
    <3> QED BY <2>1, <3>1
  <2> QED BY <1>2, <2>2, <2>3, <2>4, <2>5, OtpUseStep DEF Next
<1>3. TypeOK /\ OtpInv => OtpUseBound
  <2> SUFFICES ASSUME TypeOK, OtpInv, NEW k \in Otps PROVE uses[k] <= Cardinality(Workers)
    BY DEF OtpUseBound
  <2>1. uses[k] \in Nat /\ uses[k] + Cardinality(Holding(k)) <= Cardinality(Workers)
    BY DEF TypeOK, OtpInv
  <2> QED BY <2>1, HoldingType
<1> QED BY <1>1, <1>2, <1>3, TypeCorrect, PTL DEF Spec

-----------------------------------------------------------------------------
(* Sessions.                                                               *)

(* A session, or a request that will store one, was opened with today's    *)
(* password or overtaken by a reset.                                       *)
Backed(key, raced) == (key # 0 /\ key = user.password) \/ raced
WillStore(w) == call[w].op \in {"login", "refresh"} /\ call[w].pc = "write"

SessionInv ==
    /\ user.token # 0 => Backed(session.key, session.raced)
    /\ \A w \in Workers : WillStore(w) => Backed(call[w].key, call[w].raced)
    /\ \A w \in Workers : call[w].op = "refresh" => call[w].token # 0

(* A request ends, begins or goes on without a session of its own.         *)
LEMMA NoNewSession ==
    ASSUME TypeOK, SessionInv, NEW w \in Workers,
           OtpStep(w) \/ SessionStep(w) \/ AddressStep(w) \/ Fail(w),
           user'.password = user.password, user'.token = user.token, session' = session,
           WillStore(w)' => Backed(call'[w].key, call'[w].raced),
           call'[w].op = "refresh" => call'[w].token # 0
    PROVE  SessionInv'
<1>1. ASSUME NEW x \in Workers
      PROVE  /\ WillStore(x)' => Backed(call[x].key, call[x].raced)'
             /\ call'[x].op = "refresh" => call'[x].token # 0
  BY OtherCalls DEF SessionInv, WillStore, Backed
<1> QED BY <1>1 DEF SessionInv, Backed

(* A step of one request keeps it.                                         *)
LEMMA SessionInvStep ==
    ASSUME TypeOK, SessionInv, NEW w \in Workers,
           OtpStep(w) \/ SessionStep(w) \/ AddressStep(w) \/ Fail(w)
    PROVE  SessionInv'
<1>1. Return(w) => call'[w].op = "idle"
  BY DEF TypeOK, Return, Idle
<1>2. ASSUME user' = user \/ (user'.password = user.password /\ user'.token = user.token),
             session' = session, call'[w].op \notin {"login", "refresh"}
      PROVE  SessionInv'
  BY <1>2, NoNewSession DEF WillStore
<1>3. CASE RegisterWrite(w)
  <2>1. CASE Exists
    BY <1>1, <1>2, <1>3, <2>1 DEF RegisterWrite
  <2>2. CASE ~ Exists
    <3>1. user'.token = 0 /\ call'[w].op = "idle"
      BY <1>1, <1>3, <2>2 DEF RegisterWrite
    <3>2. ASSUME NEW x \in Workers
          PROVE  /\ WillStore(x)' => Backed(call[x].key, call[x].raced)'
                 /\ call'[x].op = "refresh" => call'[x].token # 0
      BY <2>2, <3>1, OtherCalls DEF SessionInv, WillStore, Backed, Exists
    <3> QED BY <3>1, <3>2 DEF SessionInv
  <2> QED BY <2>1, <2>2
<1>4. ASSUME NEW password \in Passwords, ResetWrite(w, password) PROVE SessionInv'
  <2>1. user'.token = 0
    BY <1>4 DEF TypeOK, UserRow, ResetWrite
  <2>2. ASSUME NEW x \in Workers
        PROVE  /\ WillStore(x)' => Backed(call[x].key, call[x].raced)'
               /\ call'[x].op = "refresh" => call'[x].token # 0
    <3>1. CASE x = w
      BY <1>4, <3>1 DEF ResetWrite, WillStore, Idle
    <3>2. CASE x # w
      <4>1. call[x] \in Calls
        BY DEF TypeOK
      <4>2. call[x].key # 0 => call'[x].raced
        BY <1>4, <3>2, <4>1 DEF ResetWrite, Calls
      <4> QED BY <3>2, <4>2, OtherCalls DEF SessionInv, WillStore, Backed
    <3> QED BY <3>1, <3>2
  <2> QED BY <2>1, <2>2 DEF SessionInv
<1>5. CASE OtpStep(w)
  <2>1. CASE RegisterBegin(w)
    BY <1>2, <2>1, Begun DEF RegisterBegin
  <2>2. ASSUME NEW op \in {"verify", "reset"}, NEW k \in Otps, OtpBegin(w, op, k) PROVE SessionInv'
    BY <1>2, <2>2, Begun DEF OtpBegin
  <2>3. CASE VerifyWrite(w)
    <3>1. user'.password = user.password /\ user'.token = user.token
      BY <2>3 DEF TypeOK, UserRow, VerifyWrite
    <3> QED BY <1>1, <1>2, <2>3, <3>1 DEF VerifyWrite
  <2> QED BY <1>3, <1>4, <1>5, <2>1, <2>2, <2>3 DEF OtpStep
<1>6. CASE SessionStep(w)
  <2>1. CASE LoginBegin(w)
    <3>1. call'[w].op = "login" /\ Backed(call'[w].key, call'[w].raced)
      BY <2>1, Begun DEF LoginBegin, Exists, Backed
    <3> QED BY <2>1, <3>1, NoNewSession DEF LoginBegin
  <2>2. ASSUME NEW token \in Seconds, RefreshBegin(w, token) PROVE SessionInv'
    <3>1. token # 0 /\ call'[w].op = "refresh" /\ call'[w].pc = "guard" /\ call'[w].token = token
      BY <2>2, Begun, BoundsAssumption DEF Seconds
    <3> QED BY <2>2, <3>1, NoNewSession DEF RefreshBegin, WillStore
  <2>3. CASE RefreshGuard(w) \/ RefreshRead(w)
    <3>1. call[w] \in Calls /\ call[w].op = "refresh" /\ call[w].token # 0
      BY <2>3 DEF TypeOK, RefreshGuard, RefreshRead, IsAt, SessionInv
    <3>2. user' = user /\ session' = session
      BY <2>3 DEF RefreshGuard, RefreshRead
    <3>3. CASE Return(w)
      BY <1>1, <1>2, <3>2, <3>3
    <3>4. CASE ~ Return(w) /\ RefreshGuard(w)
      <4>1. call'[w].pc = "read" /\ call'[w].token = call[w].token
        BY <3>1, <3>4 DEF TypeOK, Calls, RefreshGuard, Goto
      <4> QED BY <3>1, <3>2, <4>1, NoNewSession DEF WillStore
    <3>5. CASE ~ Return(w) /\ RefreshRead(w)
      <4>1. user.token = call[w].token
        BY <3>5 DEF RefreshRead
      <4>2. call' = [call EXCEPT ![w] = [call[w] EXCEPT !.pc = "write", !.since = now,
                                                         !.key = session.key, !.raced = session.raced]]
        BY <3>5 DEF RefreshRead
      <4>3. call'[w] = [call[w] EXCEPT !.pc = "write", !.since = now,
                                       !.key = session.key, !.raced = session.raced]
        BY <4>2 DEF TypeOK
      <4>4. call'[w].token = call[w].token /\ call'[w].key = session.key /\ call'[w].raced = session.raced
        BY <3>1, <4>3 DEF Calls
      <4>5. Backed(call'[w].key, call'[w].raced)
        BY <3>1, <4>1, <4>4 DEF SessionInv
      <4> QED BY <3>1, <3>2, <4>4, <4>5, NoNewSession
    <3> QED BY <2>3, <3>3, <3>4, <3>5
  <2>4. CASE BlockBegin(w)
    BY <1>2, <2>4, Begun DEF BlockBegin
  <2>5. CASE BlockWrite(w)
    <3>1. user'.password = user.password /\ user'.token = user.token
      BY <2>5 DEF TypeOK, UserRow, BlockWrite
    <3> QED BY <1>1, <1>2, <2>5, <3>1 DEF BlockWrite
  <2>6. ASSUME NEW token \in Seconds, StoreToken(w, token) PROVE SessionInv'
    <3>1. user'.password = user.password /\ Backed(call[w].key, call[w].raced) /\ call'[w].op = "idle"
      BY <1>1, <2>6 DEF TypeOK, UserRow, StoreToken, SessionInv, WillStore
    <3>2. session'.key = call[w].key /\ session'.raced = call[w].raced
      BY <2>6 DEF StoreToken
    <3>3. ASSUME NEW x \in Workers
          PROVE  /\ WillStore(x)' => Backed(call[x].key, call[x].raced)'
                 /\ call'[x].op = "refresh" => call'[x].token # 0
      BY <3>1, OtherCalls DEF SessionInv, WillStore, Backed
    <3> QED BY <3>1, <3>2, <3>3 DEF SessionInv, Backed
  <2> QED BY <1>6, <2>1, <2>2, <2>3, <2>4, <2>5, <2>6 DEF SessionStep
<1>7. CASE AddressStep(w)
  <2>1. user' = user /\ session' = session
    BY <1>7 DEF AddressStep, AddDefaultBegin, ClearDefaults, UpdateDefault, UpdateDefaultBegin, AddDefault
  <2>2. CASE AddDefaultBegin(w) \/ \E a \in Addresses : UpdateDefaultBegin(w, a)
    BY <1>2, <2>1, <2>2, Begun
  <2>3. CASE UpdateDefault(w) \/ \E a \in Addresses : AddDefault(w, a)
    BY <1>1, <1>2, <2>1, <2>3 DEF UpdateDefault, AddDefault
  <2>4. CASE ClearDefaults(w)
    <3>1. call'[w].op = call[w].op /\ call[w].op \in {"add", "update"}
      BY <2>4 DEF TypeOK, Calls, ClearDefaults, Goto
    <3> QED BY <1>2, <2>1, <3>1
  <2> QED BY <1>7, <2>2, <2>3, <2>4 DEF AddressStep
<1>8. CASE Fail(w)
  BY <1>1, <1>2, <1>8 DEF Fail
<1> QED BY <1>5, <1>6, <1>7, <1>8

(* The stored refresh token was handed out for today's password, or by a   *)
(* request that a reset overtook.                                          *)
THEOREM SessionsEndWithPassword == Spec => []SessionEndsWithPassword
<1>1. Init => SessionInv
  BY DEF Init, SessionInv, NoUser, Idle, WillStore
<1>2. ASSUME TypeOK, SessionInv, [Next]_vars PROVE SessionInv'
  <2>1. ASSUME NEW a \in Addresses, WritePlain(a) \/ DeleteAddress(a) PROVE SessionInv'
    BY <1>2, <2>1 DEF WritePlain, DeleteAddress, SessionInv, Backed, WillStore
  <2>2. CASE ForgotPassword \/ OtpExpires
    <3>1. user'.password = user.password /\ user'.token = user.token
      BY <1>2, <2>2 DEF TypeOK, UserRow, ForgotPassword, OtpExpires
    <3> QED BY <1>2, <2>2, <3>1 DEF ForgotPassword, OtpExpires, SessionInv, Backed, WillStore
  <2>3. CASE Logout
    <3>1. user'.password = user.password /\ user'.token = 0
      BY <1>2, <2>3 DEF TypeOK, UserRow, Logout
    <3> QED BY <1>2, <2>3, <3>1 DEF Logout, SessionInv, Backed, WillStore
  <2>4. CASE Tick \/ UNCHANGED vars
    BY <1>2, <2>4 DEF Tick, vars, SessionInv, Backed, WillStore
  <2> QED BY <1>2, <2>1, <2>2, <2>3, <2>4, SessionInvStep DEF Next
<1>3. SessionInv => SessionEndsWithPassword
  BY DEF SessionInv, Backed, SessionEndsWithPassword
<1> QED BY <1>1, <1>2, <1>3, TypeCorrect, PTL DEF Spec

-----------------------------------------------------------------------------
(* Tracking.                                                               *)

(* Counting what a handler has yet to do.                                  *)
Is(x, what, to) == IF x = Do(what, to) THEN 1 ELSE 0

LEMMA IsDo ==
    /\ \A what, to, that, who : Is(Do(what, to), that, who) = IF what = that /\ to = who THEN 1 ELSE 0
    /\ \A x, what, to : Is(x, what, to) \in {0, 1}
<1>1. \A what, to, that, who : Do(what, to) = Do(that, who) <=> what = that /\ to = who
  BY DEF Do
<1> QED BY <1>1 DEF Is

(* Counted element by element.                                             *)
LEMMA LeftTail ==
    ASSUME NEW S, NEW s \in Seq(S), s # <<>>, NEW what, NEW to
    PROVE  /\ Left(s, what, to) \in Nat /\ Left(Tail(s), what, to) \in Nat
           /\ Left(s, what, to) = Is(Head(s), what, to) + Left(Tail(s), what, to)
<1> DEFINE x == Do(what, to)
           T == {i \in DOMAIN Tail(s) : Tail(s)[i] = x}
           U == {i \in DOMAIN s : s[i] = x}
           V == U \ {1}
           f == [i \in T |-> i + 1]
<1>1. /\ Tail(s) \in Seq(S) /\ Len(s) \in Nat /\ Len(s) > 0 /\ Len(Tail(s)) = Len(s) - 1 /\ Head(s) = s[1]
      /\ DOMAIN s = 1..Len(s) /\ DOMAIN Tail(s) = 1..(Len(s) - 1)
      /\ \A i \in 1..(Len(s) - 1) : Tail(s)[i] = s[i + 1]
  BY HeadTailProperties, LenProperties, EmptySeq
<1>2. IsFiniteSet(T) /\ IsFiniteSet(U)
  <2>1. IsFiniteSet(1..Len(s)) /\ IsFiniteSet(1..(Len(s) - 1))
    BY <1>1, FS_Interval
  <2> QED BY <1>1, <2>1, FS_Subset
<1>3. f \in Bijection(T, V)
  <2>1. \A i \in T : i \in 1..(Len(s) - 1) /\ i + 1 \in V
    BY <1>1
  <2>2. \A k \in V : k \in 2..Len(s) /\ k - 1 \in T /\ k = (k - 1) + 1
    BY <1>1
  <2>3. f \in [T -> V] /\ \A k \in V : \E i \in T : f[i] = k
    BY <2>1, <2>2
  <2>4. \A i, j \in T : f[i] = f[j] => i = j
    BY <2>1
  <2> HIDE DEF f, T, V
  <2>5. DOMAIN f = T
    BY <2>3
  <2> QED BY <2>3, <2>4, <2>5 DEF Bijection, Injection, Surjection, IsInjective
<1>4. Cardinality(V) = Cardinality(T) /\ Cardinality(T) \in Nat /\ Cardinality(U) \in Nat
  BY <1>2, <1>3, FS_Bijection, FS_CardinalityType DEF ExistsBijection
<1>5. Cardinality(V) = IF 1 \in U THEN Cardinality(U) - 1 ELSE Cardinality(U)
  BY <1>2, FS_RemoveElement
<1>6. 1 \in U <=> Head(s) = x
  BY <1>1
<1>7. Left(s, what, to) = Cardinality(U) /\ Left(Tail(s), what, to) = Cardinality(T)
  BY DEF Left
<1> HIDE DEF T, U, V, x, f
<1> QED BY <1>4, <1>5, <1>6, <1>7 DEF Is, x

LEMMA LeftNone ==
    ASSUME NEW S, NEW s \in Seq(S), NEW what, NEW to
    PROVE  /\ Left(s, what, to) \in Nat
           /\ Left(s, what, to) = 0 <=> \A i \in 1..Len(s) : s[i] # Do(what, to)
<1> DEFINE U == {i \in DOMAIN s : s[i] = Do(what, to)}
<1>1. DOMAIN s = 1..Len(s) /\ Len(s) \in Nat
  BY LenProperties
<1>2. IsFiniteSet(U)
  <2>1. IsFiniteSet(1..Len(s))
    BY <1>1, FS_Interval
  <2> QED BY <1>1, <2>1, FS_Subset
<1>3. Left(s, what, to) = Cardinality(U)
  BY DEF Left
<1>4. Cardinality(U) \in Nat /\ (Cardinality(U) = 0 <=> U = {})
  BY <1>2, FS_CardinalityType, FS_EmptySet
<1>5. U = {} <=> \A i \in 1..Len(s) : s[i] # Do(what, to)
  BY <1>1
<1> HIDE DEF U
<1> QED BY <1>3, <1>4, <1>5

LEMMA Left0 == ASSUME NEW what, NEW to PROVE Left(<<>>, what, to) = 0
<1>1. <<>> \in Seq({}) /\ Len(<<>>) = 0
  OBVIOUS
<1> DEFINE none == <<>>
<1>2. \A i \in 1..Len(none) : none[i] # Do(what, to)
  BY <1>1
<1> HIDE DEF none
<1> QED BY <1>1, <1>2, LeftNone DEF none

LEMMA Left1 ==
    ASSUME NEW what, NEW to, NEW a
    PROVE  Left(<<a>>, what, to) = Is(a, what, to)
<1>1. <<a>> \in Seq({a}) /\ <<a>> # <<>> /\ Head(<<a>>) = a /\ Tail(<<a>>) = <<>>
  OBVIOUS
<1>2. Left(<<a>>, what, to) = Is(a, what, to) + Left(<<>>, what, to)
  BY <1>1, LeftTail, Zenon
<1> QED BY <1>2, Left0, IsDo

LEMMA Left2 ==
    ASSUME NEW what, NEW to, NEW a, NEW b
    PROVE  Left(<<a, b>>, what, to) = Is(a, what, to) + Is(b, what, to)
<1>1. <<a, b>> \in Seq({a, b}) /\ <<a, b>> # <<>> /\ Head(<<a, b>>) = a /\ Tail(<<a, b>>) = <<b>>
  OBVIOUS
<1>2. Left(<<a, b>>, what, to) = Is(a, what, to) + Left(<<b>>, what, to)
  BY <1>1, LeftTail, Zenon
<1> QED BY <1>2, Left1, IsDo

LEMMA Left3 ==
    ASSUME NEW what, NEW to, NEW a, NEW b, NEW c
    PROVE  Left(<<a, b, c>>, what, to) = Is(a, what, to) + Is(b, what, to) + Is(c, what, to)
<1>1. <<a, b, c>> \in Seq({a, b, c}) /\ <<a, b, c>> # <<>> /\ Head(<<a, b, c>>) = a /\ Tail(<<a, b, c>>) = <<b, c>>
  OBVIOUS
<1>2. Left(<<a, b, c>>, what, to) = Is(a, what, to) + Left(<<b, c>>, what, to)
  BY <1>1, LeftTail, Zenon
<1> QED BY <1>2, Left2, IsDo

LEMMA Left4 ==
    ASSUME NEW what, NEW to, NEW a, NEW b, NEW c, NEW d
    PROVE  Left(<<a, b, c, d>>, what, to) = Is(a, what, to) + Is(b, what, to) + Is(c, what, to) + Is(d, what, to)
<1>1. <<a, b, c, d>> \in Seq({a, b, c, d}) /\ <<a, b, c, d>> # <<>> /\ Head(<<a, b, c, d>>) = a /\ Tail(<<a, b, c, d>>) = <<b, c, d>>
  OBVIOUS
<1>2. Left(<<a, b, c, d>>, what, to) = Is(a, what, to) + Left(<<b, c, d>>, what, to)
  BY <1>1, LeftTail, Zenon
<1> QED BY <1>2, Left3, IsDo

LEMMA Left5 ==
    ASSUME NEW what, NEW to, NEW a, NEW b, NEW c, NEW d, NEW e
    PROVE  Left(<<a, b, c, d, e>>, what, to) = Is(a, what, to) + Is(b, what, to) + Is(c, what, to) + Is(d, what, to) + Is(e, what, to)
<1>1. <<a, b, c, d, e>> \in Seq({a, b, c, d, e}) /\ <<a, b, c, d, e>> # <<>> /\ Head(<<a, b, c, d, e>>) = a /\ Tail(<<a, b, c, d, e>>) = <<b, c, d, e>>
  OBVIOUS
<1>2. Left(<<a, b, c, d, e>>, what, to) = Is(a, what, to) + Left(<<b, c, d, e>>, what, to)
  BY <1>1, LeftTail, Zenon
<1> QED BY <1>2, Left4, IsDo

LEMMA Left6 ==
    ASSUME NEW what, NEW to, NEW a, NEW b, NEW c, NEW d, NEW e, NEW f
    PROVE  Left(<<a, b, c, d, e, f>>, what, to) = Is(a, what, to) + Is(b, what, to) + Is(c, what, to)
                                                  + Is(d, what, to) + Is(e, what, to) + Is(f, what, to)
<1>1. /\ <<a, b, c, d, e, f>> \in Seq({a, b, c, d, e, f}) /\ <<a, b, c, d, e, f>> # <<>>
      /\ Head(<<a, b, c, d, e, f>>) = a /\ Tail(<<a, b, c, d, e, f>>) = <<b, c, d, e, f>>
  OBVIOUS
<1>2. Left(<<a, b, c, d, e, f>>, what, to) = Is(a, what, to) + Left(<<b, c, d, e, f>>, what, to)
  BY <1>1, LeftTail, Zenon
<1> QED BY <1>2, Left5, IsDo

-----------------------------------------------------------------------------
(* What a handler is made of.                                              *)
People == Users \cup {"rider"}
Steps == [do : {"write", "emit"}, to : Aspects] \cup [do : {"notice"}, to : Users]
         \cup [do : {"push"}, to : People] \cup [do : {"read", "answer"}, to : {"page"}]

(* From any place on, what is announced there is not written any more, who *)
(* is told has been sent the notice, and a rider is told when the status   *)
(* is written and has yet to be announced.                                 *)
Orderly(todo) ==
    \A i \in DOMAIN todo : \A j \in i..Len(todo) :
        /\ todo[i].do = "emit" => todo[j] # Do("write", todo[i].to)
        /\ todo[i].do = "push" => todo[j] # Do("notice", todo[i].to)
        /\ todo[i] = Do("push", "rider") => todo[j] # Do("write", "status")
        /\ todo[i].do = "emit" => todo[j] # Do("push", "rider")

(* What is written is announced as often, or never.                        *)
Announces(todo) ==
    \A a \in Aspects : Left(todo, "emit", a) > 0 => Left(todo, "emit", a) >= Left(todo, "write", a)

(* The list of a request that begins, and of one that is not a page's.     *)
Fits(todo) ==
    /\ todo \in Seq(Steps) /\ todo # <<>>
    /\ Orderly(todo) /\ Announces(todo)
    /\ \A a \in Aspects : Left(todo, "emit", a) <= Left(todo, "write", a)
    /\ \A u \in Users : Left(todo, "push", u) <= Left(todo, "notice", u)
    /\ Left(todo, "push", "rider") <= Left(todo, "emit", "status")

Rideless(todo) == Left(todo, "push", "rider") = 0
Pageless(todo) == Left(todo, "read", "page") = 0 /\ Left(todo, "answer", "page") = 0
Begins(todo) == Fits(todo) /\ Pageless(todo)

(* The lists of the handlers are such lists.                               *)
LEMMA BeginsPlaced == Begins(Placed) /\ Rideless(Placed)
<1> DEFINE n == Do("notice", "admin")
           p == Do("push", "admin")
<1>1. Placed = <<n, p>>
  BY DEF Placed, Write, Announce, Note, Tell
<1>2. n \in Steps /\ p \in Steps
  BY DEF Steps, Do, Aspects, Users, People
<1>3. Placed \in Seq(Steps) /\ Placed # <<>> /\ Orderly(Placed)
  <2>1. Orderly(Placed)
    BY <1>1 DEF Orderly, Do
  <2> HIDE DEF n, p
  <2> QED BY <1>1, <1>2, <2>1
<1>4. ASSUME NEW x, NEW y PROVE Left(Placed, x, y) = Is(n, x, y) + Is(p, x, y)
  <2> HIDE DEF n, p
  <2> QED BY <1>1, Left2
<1>5. ASSUME NEW a \in Aspects
      PROVE  Left(Placed, "emit", a) \in {0, Left(Placed, "write", a)} /\ Left(Placed, "write", a) \in Nat
  BY <1>4, IsDo DEF Aspects
<1>6. ASSUME NEW u \in Users
      PROVE  Left(Placed, "push", u) <= Left(Placed, "notice", u)
  BY <1>4, IsDo DEF Users
<1>7. Pageless(Placed)
  BY <1>4, IsDo DEF Pageless
<1>8. Left(Placed, "push", "rider") = 0 /\ Left(Placed, "emit", "status") \in Nat
  BY <1>4, IsDo
<1> QED BY <1>3, <1>5, <1>6, <1>7, <1>8 DEF Begins, Fits, Announces, Rideless

LEMMA BeginsPlacedAssigned == Begins(PlacedAssigned)
<1> DEFINE n == Do("notice", "admin")
           p == Do("push", "admin")
           w == Do("write", "status")
           r == Do("push", "rider")
           e == Do("emit", "status")
<1>1. PlacedAssigned = <<n, p, w, r, e>>
  BY DEF PlacedAssigned, Write, Announce, Note, Tell
<1>2. n \in Steps /\ p \in Steps /\ w \in Steps /\ r \in Steps /\ e \in Steps
  BY DEF Steps, Do, Aspects, Users, People
<1>3. PlacedAssigned \in Seq(Steps) /\ PlacedAssigned # <<>> /\ Orderly(PlacedAssigned)
  <2>1. Orderly(PlacedAssigned)
    BY <1>1 DEF Orderly, Do
  <2> HIDE DEF n, p, w, r, e
  <2> QED BY <1>1, <1>2, <2>1
<1>4. ASSUME NEW x, NEW y PROVE Left(PlacedAssigned, x, y) = Is(n, x, y) + Is(p, x, y) + Is(w, x, y) + Is(r, x, y) + Is(e, x, y)
  <2> HIDE DEF n, p, w, r, e
  <2> QED BY <1>1, Left5
<1>5. ASSUME NEW a \in Aspects
      PROVE  Left(PlacedAssigned, "emit", a) \in {0, Left(PlacedAssigned, "write", a)} /\ Left(PlacedAssigned, "write", a) \in Nat
  BY <1>4, IsDo DEF Aspects
<1>6. ASSUME NEW u \in Users
      PROVE  Left(PlacedAssigned, "push", u) <= Left(PlacedAssigned, "notice", u)
  BY <1>4, IsDo DEF Users
<1>7. Pageless(PlacedAssigned)
  BY <1>4, IsDo DEF Pageless
<1>8. Left(PlacedAssigned, "push", "rider") <= Left(PlacedAssigned, "emit", "status")
  BY <1>4, IsDo
<1> QED BY <1>3, <1>5, <1>6, <1>7, <1>8 DEF Begins, Fits, Announces

LEMMA BeginsAutoAssign == Begins(AutoAssign)
<1> DEFINE w == Do("write", "status")
           r == Do("push", "rider")
           e == Do("emit", "status")
<1>1. AutoAssign = <<w, r, e>>
  BY DEF AutoAssign, Write, Announce, Note, Tell
<1>2. w \in Steps /\ r \in Steps /\ e \in Steps
  BY DEF Steps, Do, Aspects, Users, People
<1>3. AutoAssign \in Seq(Steps) /\ AutoAssign # <<>> /\ Orderly(AutoAssign)
  <2>1. Orderly(AutoAssign)
    BY <1>1 DEF Orderly, Do
  <2> HIDE DEF w, r, e
  <2> QED BY <1>1, <1>2, <2>1
<1>4. ASSUME NEW x, NEW y PROVE Left(AutoAssign, x, y) = Is(w, x, y) + Is(r, x, y) + Is(e, x, y)
  <2> HIDE DEF w, r, e
  <2> QED BY <1>1, Left3
<1>5. ASSUME NEW a \in Aspects
      PROVE  Left(AutoAssign, "emit", a) \in {0, Left(AutoAssign, "write", a)} /\ Left(AutoAssign, "write", a) \in Nat
  BY <1>4, IsDo DEF Aspects
<1>6. ASSUME NEW u \in Users
      PROVE  Left(AutoAssign, "push", u) <= Left(AutoAssign, "notice", u)
  BY <1>4, IsDo DEF Users
<1>7. Pageless(AutoAssign)
  BY <1>4, IsDo DEF Pageless
<1>8. Left(AutoAssign, "push", "rider") <= Left(AutoAssign, "emit", "status")
  BY <1>4, IsDo
<1> QED BY <1>3, <1>5, <1>6, <1>7, <1>8 DEF Begins, Fits, Announces

LEMMA BeginsCaptured == Begins(Captured) /\ Rideless(Captured)
<1> DEFINE w == Do("write", "status")
           n == Do("notice", "customer")
           p == Do("push", "customer")
           e == Do("emit", "status")
<1>1. Captured = <<w, n, p, e>>
  BY DEF Captured, Write, Announce, Note, Tell
<1>2. w \in Steps /\ n \in Steps /\ p \in Steps /\ e \in Steps
  BY DEF Steps, Do, Aspects, Users, People
<1>3. Captured \in Seq(Steps) /\ Captured # <<>> /\ Orderly(Captured)
  <2>1. Orderly(Captured)
    BY <1>1 DEF Orderly, Do
  <2> HIDE DEF w, n, p, e
  <2> QED BY <1>1, <1>2, <2>1
<1>4. ASSUME NEW x, NEW y PROVE Left(Captured, x, y) = Is(w, x, y) + Is(n, x, y) + Is(p, x, y) + Is(e, x, y)
  <2> HIDE DEF w, n, p, e
  <2> QED BY <1>1, Left4
<1>5. ASSUME NEW a \in Aspects
      PROVE  Left(Captured, "emit", a) \in {0, Left(Captured, "write", a)} /\ Left(Captured, "write", a) \in Nat
  BY <1>4, IsDo DEF Aspects
<1>6. ASSUME NEW u \in Users
      PROVE  Left(Captured, "push", u) <= Left(Captured, "notice", u)
  BY <1>4, IsDo DEF Users
<1>7. Pageless(Captured)
  BY <1>4, IsDo DEF Pageless
<1>8. Left(Captured, "push", "rider") = 0 /\ Left(Captured, "emit", "status") \in Nat
  BY <1>4, IsDo
<1> QED BY <1>3, <1>5, <1>6, <1>7, <1>8 DEF Begins, Fits, Announces, Rideless

LEMMA BeginsFailed == Begins(Failed) /\ Rideless(Failed)
<1> DEFINE w == Do("write", "status")
           n == Do("notice", "customer")
           e == Do("emit", "status")
<1>1. Failed = <<w, n, e>>
  BY DEF Failed, Write, Announce, Note, Tell
<1>2. w \in Steps /\ n \in Steps /\ e \in Steps
  BY DEF Steps, Do, Aspects, Users, People
<1>3. Failed \in Seq(Steps) /\ Failed # <<>> /\ Orderly(Failed)
  <2>1. Orderly(Failed)
    BY <1>1 DEF Orderly, Do
  <2> HIDE DEF w, n, e
  <2> QED BY <1>1, <1>2, <2>1
<1>4. ASSUME NEW x, NEW y PROVE Left(Failed, x, y) = Is(w, x, y) + Is(n, x, y) + Is(e, x, y)
  <2> HIDE DEF w, n, e
  <2> QED BY <1>1, Left3
<1>5. ASSUME NEW a \in Aspects
      PROVE  Left(Failed, "emit", a) \in {0, Left(Failed, "write", a)} /\ Left(Failed, "write", a) \in Nat
  BY <1>4, IsDo DEF Aspects
<1>6. ASSUME NEW u \in Users
      PROVE  Left(Failed, "push", u) <= Left(Failed, "notice", u)
  BY <1>4, IsDo DEF Users
<1>7. Pageless(Failed)
  BY <1>4, IsDo DEF Pageless
<1>8. Left(Failed, "push", "rider") = 0 /\ Left(Failed, "emit", "status") \in Nat
  BY <1>4, IsDo
<1> QED BY <1>3, <1>5, <1>6, <1>7, <1>8 DEF Begins, Fits, Announces, Rideless

LEMMA BeginsVerified == Begins(Verified) /\ Rideless(Verified)
<1> DEFINE w == Do("write", "status")
           e == Do("emit", "status")
           n == Do("notice", "customer")
<1>1. Verified = <<w, e, n>>
  BY DEF Verified, Write, Announce, Note, Tell
<1>2. w \in Steps /\ e \in Steps /\ n \in Steps
  BY DEF Steps, Do, Aspects, Users, People
<1>3. Verified \in Seq(Steps) /\ Verified # <<>> /\ Orderly(Verified)
  <2>1. Orderly(Verified)
    BY <1>1 DEF Orderly, Do
  <2> HIDE DEF w, e, n
  <2> QED BY <1>1, <1>2, <2>1
<1>4. ASSUME NEW x, NEW y PROVE Left(Verified, x, y) = Is(w, x, y) + Is(e, x, y) + Is(n, x, y)
  <2> HIDE DEF w, e, n
  <2> QED BY <1>1, Left3
<1>5. ASSUME NEW a \in Aspects
      PROVE  Left(Verified, "emit", a) \in {0, Left(Verified, "write", a)} /\ Left(Verified, "write", a) \in Nat
  BY <1>4, IsDo DEF Aspects
<1>6. ASSUME NEW u \in Users
      PROVE  Left(Verified, "push", u) <= Left(Verified, "notice", u)
  BY <1>4, IsDo DEF Users
<1>7. Pageless(Verified)
  BY <1>4, IsDo DEF Pageless
<1>8. Left(Verified, "push", "rider") = 0 /\ Left(Verified, "emit", "status") \in Nat
  BY <1>4, IsDo
<1> QED BY <1>3, <1>5, <1>6, <1>7, <1>8 DEF Begins, Fits, Announces, Rideless

LEMMA BeginsVerifiedAssigned == Begins(VerifiedAssigned)
<1> DEFINE w == Do("write", "status")
           r == Do("push", "rider")
           e == Do("emit", "status")
           n == Do("notice", "customer")
<1>1. VerifiedAssigned = <<w, w, r, e, e, n>>
  BY DEF VerifiedAssigned, Write, Announce, Note, Tell
<1>2. w \in Steps /\ r \in Steps /\ e \in Steps /\ n \in Steps
  BY DEF Steps, Do, Aspects, Users, People
<1>3. VerifiedAssigned \in Seq(Steps) /\ VerifiedAssigned # <<>> /\ Orderly(VerifiedAssigned)
  <2>1. Orderly(VerifiedAssigned)
    BY <1>1 DEF Orderly, Do
  <2> HIDE DEF w, r, e, n
  <2> QED BY <1>1, <1>2, <2>1
<1>4. ASSUME NEW x, NEW y PROVE Left(VerifiedAssigned, x, y) = Is(w, x, y) + Is(w, x, y) + Is(r, x, y) + Is(e, x, y) + Is(e, x, y) + Is(n, x, y)
  <2> HIDE DEF w, r, e, n
  <2> QED BY <1>1, Left6
<1>5. ASSUME NEW a \in Aspects
      PROVE  Left(VerifiedAssigned, "emit", a) \in {0, Left(VerifiedAssigned, "write", a)} /\ Left(VerifiedAssigned, "write", a) \in Nat
  BY <1>4, IsDo DEF Aspects
<1>6. ASSUME NEW u \in Users
      PROVE  Left(VerifiedAssigned, "push", u) <= Left(VerifiedAssigned, "notice", u)
  BY <1>4, IsDo DEF Users
<1>7. Pageless(VerifiedAssigned)
  BY <1>4, IsDo DEF Pageless
<1>8. Left(VerifiedAssigned, "push", "rider") <= Left(VerifiedAssigned, "emit", "status")
  BY <1>4, IsDo
<1> QED BY <1>3, <1>5, <1>6, <1>7, <1>8 DEF Begins, Fits, Announces

LEMMA BeginsAssign == Begins(Assign) /\ Rideless(Assign)
<1> DEFINE w == Do("write", "status")
           e == Do("emit", "status")
<1>1. Assign = <<w, e>>
  BY DEF Assign, Write, Announce, Note, Tell
<1>2. w \in Steps /\ e \in Steps
  BY DEF Steps, Do, Aspects, Users, People
<1>3. Assign \in Seq(Steps) /\ Assign # <<>> /\ Orderly(Assign)
  <2>1. Orderly(Assign)
    BY <1>1 DEF Orderly, Do
  <2> HIDE DEF w, e
  <2> QED BY <1>1, <1>2, <2>1
<1>4. ASSUME NEW x, NEW y PROVE Left(Assign, x, y) = Is(w, x, y) + Is(e, x, y)
  <2> HIDE DEF w, e
  <2> QED BY <1>1, Left2
<1>5. ASSUME NEW a \in Aspects
      PROVE  Left(Assign, "emit", a) \in {0, Left(Assign, "write", a)} /\ Left(Assign, "write", a) \in Nat
  BY <1>4, IsDo DEF Aspects
<1>6. ASSUME NEW u \in Users
      PROVE  Left(Assign, "push", u) <= Left(Assign, "notice", u)
  BY <1>4, IsDo DEF Users
<1>7. Pageless(Assign)
  BY <1>4, IsDo DEF Pageless
<1>8. Left(Assign, "push", "rider") = 0 /\ Left(Assign, "emit", "status") \in Nat
  BY <1>4, IsDo
<1> QED BY <1>3, <1>5, <1>6, <1>7, <1>8 DEF Begins, Fits, Announces, Rideless

LEMMA BeginsCancel == Begins(Cancel) /\ Rideless(Cancel)
<1> DEFINE w == Do("write", "status")
<1>1. Cancel = <<w>>
  BY DEF Cancel, Write, Announce, Note, Tell
<1>2. w \in Steps
  BY DEF Steps, Do, Aspects, Users, People
<1>3. Cancel \in Seq(Steps) /\ Cancel # <<>> /\ Orderly(Cancel)
  <2>1. Orderly(Cancel)
    BY <1>1 DEF Orderly, Do
  <2> HIDE DEF w
  <2> QED BY <1>1, <1>2, <2>1
<1>4. ASSUME NEW x, NEW y PROVE Left(Cancel, x, y) = Is(w, x, y)
  <2> HIDE DEF w
  <2> QED BY <1>1, Left1
<1>5. ASSUME NEW a \in Aspects
      PROVE  Left(Cancel, "emit", a) \in {0, Left(Cancel, "write", a)} /\ Left(Cancel, "write", a) \in Nat
  BY <1>4, IsDo DEF Aspects
<1>6. ASSUME NEW u \in Users
      PROVE  Left(Cancel, "push", u) <= Left(Cancel, "notice", u)
  BY <1>4, IsDo DEF Users
<1>7. Pageless(Cancel)
  BY <1>4, IsDo DEF Pageless
<1>8. Left(Cancel, "push", "rider") = 0 /\ Left(Cancel, "emit", "status") \in Nat
  BY <1>4, IsDo
<1> QED BY <1>3, <1>5, <1>6, <1>7, <1>8 DEF Begins, Fits, Announces, Rideless

LEMMA BeginsLocate == Begins(Locate) /\ Rideless(Locate)
<1> DEFINE w == Do("write", "place")
           e == Do("emit", "place")
<1>1. Locate = <<w, e>>
  BY DEF Locate, Write, Announce, Note, Tell
<1>2. w \in Steps /\ e \in Steps
  BY DEF Steps, Do, Aspects, Users, People
<1>3. Locate \in Seq(Steps) /\ Locate # <<>> /\ Orderly(Locate)
  <2>1. Orderly(Locate)
    BY <1>1 DEF Orderly, Do
  <2> HIDE DEF w, e
  <2> QED BY <1>1, <1>2, <2>1
<1>4. ASSUME NEW x, NEW y PROVE Left(Locate, x, y) = Is(w, x, y) + Is(e, x, y)
  <2> HIDE DEF w, e
  <2> QED BY <1>1, Left2
<1>5. ASSUME NEW a \in Aspects
      PROVE  Left(Locate, "emit", a) \in {0, Left(Locate, "write", a)} /\ Left(Locate, "write", a) \in Nat
  BY <1>4, IsDo DEF Aspects
<1>6. ASSUME NEW u \in Users
      PROVE  Left(Locate, "push", u) <= Left(Locate, "notice", u)
  BY <1>4, IsDo DEF Users
<1>7. Pageless(Locate)
  BY <1>4, IsDo DEF Pageless
<1>8. Left(Locate, "push", "rider") = 0 /\ Left(Locate, "emit", "status") \in Nat
  BY <1>4, IsDo
<1> QED BY <1>3, <1>5, <1>6, <1>7, <1>8 DEF Begins, Fits, Announces, Rideless

LEMMA LoadFits == Fits(Load) /\ Rideless(Load)
<1> DEFINE r == Do("read", "page")
           b == Do("answer", "page")
<1>1. Load = <<r, b>>
  BY DEF Load, Write, Announce, Note, Tell
<1>2. r \in Steps /\ b \in Steps
  BY DEF Steps, Do, Aspects, Users, People
<1>3. Load \in Seq(Steps) /\ Load # <<>> /\ Orderly(Load)
  <2>1. Orderly(Load)
    BY <1>1 DEF Orderly, Do
  <2> HIDE DEF r, b
  <2> QED BY <1>1, <1>2, <2>1
<1>4. ASSUME NEW x, NEW y PROVE Left(Load, x, y) = Is(r, x, y) + Is(b, x, y)
  <2> HIDE DEF r, b
  <2> QED BY <1>1, Left2
<1>5. ASSUME NEW a \in Aspects
      PROVE  Left(Load, "emit", a) \in {0, Left(Load, "write", a)} /\ Left(Load, "write", a) \in Nat
  BY <1>4, IsDo DEF Aspects
<1>6. ASSUME NEW u \in Users
      PROVE  Left(Load, "push", u) <= Left(Load, "notice", u)
  BY <1>4, IsDo DEF Users
<1>8. Left(Load, "push", "rider") = 0 /\ Left(Load, "emit", "status") \in Nat
  BY <1>4, IsDo
<1> QED BY <1>3, <1>5, <1>6, <1>8 DEF Fits, Announces, Rideless

-----------------------------------------------------------------------------
(* What a request is and knows.                                            *)
Shown == OrderStatus \cup Places \cup {Nothing}
Notices == 0..MaxCalls
Ops == {"idle", "load", "placed", "product", "captured", "failed", "verified", "assign", "ship", "shipMock",
        "ride", "override", "cancel", "locate"}
Jobs == [op : Ops, todo : Seq(Steps), at : Processes \cup {Nothing}, value : Shown, n : Notices,
         page : Clients \cup {Nothing}, read : [Aspects -> Shown]]

(* A request is at a place of its handler's list from which its recovery   *)
(* is known.                                                               *)
Shape(j) ==
    /\ j \in Jobs
    /\ Orderly(j.todo) /\ Announces(j.todo)
    /\ Left(j.todo, "write", "status") > 0 => j.value \in OrderStatus
    /\ Left(j.todo, "push", "rider") > 0 => j.value = "CONFIRMED" /\ Left(j.todo, "emit", "status") > 0
    /\ j.op = "placed" /\ Len(j.todo) > 3 => j.todo \in {PlacedAssigned, Tail(PlacedAssigned)}
    /\ j.op = "verified" /\ Len(j.todo) > 4 => j.todo \in {VerifiedAssigned, Tail(VerifiedAssigned)}
    /\ j.op = "ship" => j.todo \in {Ship, Tail(Ship), <<Note("customer")>>} /\ j.value \in OrderStatus
    /\ IF j.op = "load"
       THEN /\ j.page \in Clients
            /\ (j.todo = Load /\ j.read = Blank) \/ (j.todo = Tail(Load) /\ j.read # Blank)
       ELSE j.page = Nothing /\ j.read = Blank /\ Pageless(j.todo)

Had(a, values) == values[a] \cup (IF a = "status" THEN {Nothing} ELSE {})

(* What it will announce without writing it any more was stored, whom it   *)
(* will tell has the notice, and what it read was stored.                  *)
Known(j, values, notices) ==
    /\ \A a \in Aspects :
          Left(j.todo, "emit", a) > 0 /\ Left(j.todo, "write", a) = 0 => j.value \in values[a]
    /\ j.op = "verified" /\ Len(j.todo) = 5 => j.value \in values["status"]
    /\ \A u \in Users :
          Left(j.todo, "push", u) > 0 /\ Left(j.todo, "notice", u) = 0 => notices[<<j.n, u>>] # "absent"
    /\ \A a \in Aspects : j.read[a] \in Had(a, values)

TrackingTypes ==
    /\ viewer \in [Clients -> People]
    /\ order \in [Aspects -> Shown]
    /\ shown \in [Clients -> [Aspects -> Shown]]
    /\ pushed \in [Clients -> SUBSET Notices]
    /\ notice \in [Notices \X Users -> {"absent", "unread", "read", "deleted"}]
    /\ job \in [Slots -> Jobs]
    /\ calls \in Notices
    /\ stored \in [Aspects -> SUBSET Shown]
    /\ doubt \in [Clients -> SUBSET Aspects]

Stored ==
    /\ \A a \in Aspects : order[a] \in stored[a]
    /\ Nothing \notin stored["status"] /\ Nothing \in stored["place"]
    /\ \A c \in Clients : \A a \in Aspects : shown[c][a] \in Had(a, stored)
    /\ \A c \in Clients : viewer[c] \in Users => \A n \in pushed[c] : notice[<<n, viewer[c]>>] # "absent"
    /\ \A c \in Clients : viewer[c] = "rider" /\ pushed[c] # {} => "CONFIRMED" \in stored["status"]

StoredInv ==
    /\ TrackingTypes
    /\ Stored
    /\ \A w \in Slots : Shape(job[w]) /\ Known(job[w], stored, notice)

-----------------------------------------------------------------------------
(* One step of a handler's list.                                           *)
LEMMA StepIs ==
    ASSUME NEW x \in Steps
    PROVE  /\ x = Do(x.do, x.to)
           /\ x.do \in {"write", "emit"} => x.to \in Aspects
           /\ x.do = "notice" => x.to \in Users
           /\ x.do = "push" => x.to \in People
  BY DEF Steps, Do

LEMMA TailOrderly ==
    ASSUME NEW s \in Seq(Steps), s # <<>>, Orderly(s)
    PROVE  /\ Orderly(Tail(s))
           /\ Head(s).do = "emit" => Left(s, "write", Head(s).to) = 0
           /\ Head(s).do = "push" => Left(s, "notice", Head(s).to) = 0
           /\ Head(s) = Do("push", "rider") => Left(s, "write", "status") = 0
           /\ Head(s).do = "emit" => Left(s, "push", "rider") = 0
<1>1. /\ Tail(s) \in Seq(Steps) /\ Len(s) \in Nat /\ Len(s) > 0 /\ Len(Tail(s)) = Len(s) - 1 /\ Head(s) = s[1]
      /\ DOMAIN s = 1..Len(s) /\ DOMAIN Tail(s) = 1..(Len(s) - 1)
      /\ \A i \in 1..(Len(s) - 1) : Tail(s)[i] = s[i + 1]
  BY HeadTailProperties, LenProperties, EmptySeq
<1>2. ASSUME NEW i \in DOMAIN Tail(s), NEW j \in i..Len(Tail(s))
      PROVE  /\ Tail(s)[i].do = "emit" => Tail(s)[j] # Do("write", Tail(s)[i].to)
             /\ Tail(s)[i].do = "push" => Tail(s)[j] # Do("notice", Tail(s)[i].to)
             /\ Tail(s)[i] = Do("push", "rider") => Tail(s)[j] # Do("write", "status")
             /\ Tail(s)[i].do = "emit" => Tail(s)[j] # Do("push", "rider")
  <2>1. i + 1 \in DOMAIN s /\ j + 1 \in (i + 1)..Len(s) /\ Tail(s)[i] = s[i + 1] /\ Tail(s)[j] = s[j + 1]
    BY <1>1
  <2> QED BY <2>1 DEF Orderly
<1>3. \A j \in 1..Len(s) : /\ Head(s).do = "emit" => s[j] # Do("write", Head(s).to)
                           /\ Head(s).do = "push" => s[j] # Do("notice", Head(s).to)
                           /\ Head(s) = Do("push", "rider") => s[j] # Do("write", "status")
                           /\ Head(s).do = "emit" => s[j] # Do("push", "rider")
  BY <1>1 DEF Orderly
<1> QED BY <1>2, <1>3, LeftNone DEF Orderly

(* The lists with a step less, and with two.                               *)
LEMMA Tails ==
    /\ Len(PlacedAssigned) = 5 /\ Len(Tail(PlacedAssigned)) = 4
    /\ Len(VerifiedAssigned) = 6 /\ Len(Tail(VerifiedAssigned)) = 5
    /\ Tail(Ship) = <<Announce, Note("customer")>> /\ Tail(Tail(Ship)) = <<Note("customer")>>
    /\ Len(<<Note("customer")>>) = 1
    /\ Tail(Load) = <<Do("answer", "page")>> /\ Len(Tail(Load)) = 1 /\ Len(Load) = 2
<1>1. Len(PlacedAssigned) = 5 /\ Len(Tail(PlacedAssigned)) = 4
  BY DEF PlacedAssigned
<1>2. Len(VerifiedAssigned) = 6 /\ Len(Tail(VerifiedAssigned)) = 5
  BY DEF VerifiedAssigned
<1>3. /\ Tail(Ship) = <<Announce, Note("customer")>> /\ Tail(Tail(Ship)) = <<Note("customer")>>
      /\ Len(<<Note("customer")>>) = 1
  BY DEF Ship
<1>4. Tail(Load) = <<Do("answer", "page")>> /\ Len(Tail(Load)) = 1 /\ Len(Load) = 2
  BY DEF Load
<1> QED BY <1>1, <1>2, <1>3, <1>4

(* What one step less leaves.                                              *)
LEMMA RestShape ==
    ASSUME NEW w \in Slots, Shape(job[w]), job[w].todo # <<>>, Head(job[w].todo).do # "read", Shape(Free)
    PROVE  /\ Shape(Rest(w))
           /\ \A x, y : Left(job[w].todo, x, y) = Is(Head(job[w].todo), x, y) + Left(Rest(w).todo, x, y)
           /\ \/ Rest(w) = Free
              \/ /\ Rest(w).value = job[w].value /\ Rest(w).n = job[w].n /\ Rest(w).op = job[w].op
                 /\ Len(Rest(w).todo) = Len(job[w].todo) - 1
                 /\ Rest(w).read = job[w].read /\ Rest(w).page = job[w].page
           /\ Rest(w).op = "load" => FALSE
<1> DEFINE j == job[w]
           s == job[w].todo
           r == [j EXCEPT !.todo = Tail(s)]
<1>1. j \in Jobs /\ s \in Seq(Steps) /\ Orderly(s) /\ Announces(s)
  BY DEF Shape, Jobs
<1>2. /\ Tail(s) \in Seq(Steps) /\ Len(s) \in Nat /\ Len(s) > 0 /\ Len(Tail(s)) = Len(s) - 1
      /\ Head(s) \in Steps
  BY <1>1, HeadTailProperties, LenProperties, EmptySeq
<1>3. \A x, y : Left(s, x, y) = Is(Head(s), x, y) + Left(Tail(s), x, y) /\ Left(s, x, y) \in Nat /\ Left(Tail(s), x, y) \in Nat
  BY <1>1, LeftTail
<1>4. CASE Len(s) = 1
  <2>1. Rest(w) = Free /\ Free.todo = <<>> /\ Free.op = "idle"
    BY <1>4 DEF Rest, Free
  <2>2. Tail(s) = <<>>
    <3> DEFINE t == Tail(s)
    <3>1. t \in Seq(Steps) /\ Len(t) = 0
      BY <1>2, <1>4
    <3> HIDE DEF t
    <3>2. t = <<>>
      BY <3>1, EmptySeq
    <3> QED BY <3>2 DEF t
  <2> QED BY <1>3, <2>1, <2>2
<1>5. CASE Len(s) # 1
  <2>1. Rest(w) = r
    BY <1>5 DEF Rest
  <2>2. /\ r \in Jobs /\ r.todo = Tail(s) /\ r.op = j.op /\ r.value = j.value /\ r.n = j.n
        /\ r.page = j.page /\ r.read = j.read
    BY <1>1, <1>2 DEF Jobs
  <2>3. j.op # "load"
    <3>1. Head(Load).do = "read"
      BY DEF Load, Do
    <3> QED BY <1>5, <3>1, Tails DEF Shape
  <2>4. Orderly(Tail(s)) /\ Announces(Tail(s))
    <3>1. Orderly(Tail(s)) /\ (Head(s).do = "emit" => Left(s, "write", Head(s).to) = 0)
      BY <1>1, TailOrderly
    <3>2. ASSUME NEW a \in Aspects, Left(Tail(s), "emit", a) > 0
          PROVE  Left(Tail(s), "emit", a) >= Left(Tail(s), "write", a)
      <4>1. Head(s) = Do("emit", a) => Left(s, "write", a) = 0
        BY <3>1 DEF Do
      <4>2. Left(s, "emit", a) >= Left(s, "write", a)
        BY <1>1, <1>3, <3>2, IsDo DEF Announces
      <4> QED BY <1>3, <3>2, <4>1, <4>2, IsDo DEF Is
    <3> QED BY <3>1, <3>2 DEF Announces
  <2>5. Left(Tail(s), "write", "status") > 0 => j.value \in OrderStatus
    BY <1>3, IsDo DEF Shape
  <2>6. j.op = "placed" /\ Len(Tail(s)) > 3 => Tail(s) \in {PlacedAssigned, Tail(PlacedAssigned)}
    <3>1. j.op = "placed" /\ Len(s) > 4 => s \in {PlacedAssigned, Tail(PlacedAssigned)}
      BY <1>2 DEF Shape
    <3>2. Len(s) > 4 => s # Tail(PlacedAssigned)
      <4>1. s = Tail(PlacedAssigned) => Len(s) = 4
        BY Tails, Zenon
      <4> DEFINE t == Tail(PlacedAssigned)
                 k == Len(s)
      <4>2. (s = t => k = 4) /\ k \in Nat
        BY <1>2, <4>1
      <4> HIDE DEF t, k
      <4>3. k > 4 => s # t
        BY <4>2
      <4> QED BY <4>3 DEF t, k
    <3> QED BY <1>2, <3>1, <3>2
  <2>7. j.op = "verified" /\ Len(Tail(s)) > 4 => Tail(s) \in {VerifiedAssigned, Tail(VerifiedAssigned)}
    <3>1. j.op = "verified" /\ Len(s) > 5 => s \in {VerifiedAssigned, Tail(VerifiedAssigned)}
      BY <1>2 DEF Shape
    <3>2. Len(s) > 5 => s # Tail(VerifiedAssigned)
      <4>1. s = Tail(VerifiedAssigned) => Len(s) = 5
        BY Tails, Zenon
      <4> DEFINE t == Tail(VerifiedAssigned)
                 k == Len(s)
      <4>2. (s = t => k = 5) /\ k \in Nat
        BY <1>2, <4>1
      <4> HIDE DEF t, k
      <4>3. k > 5 => s # t
        BY <4>2
      <4> QED BY <4>3 DEF t, k
    <3> QED BY <1>2, <3>1, <3>2
  <2>8. j.op = "ship" => Tail(s) \in {Ship, Tail(Ship), <<Note("customer")>>} /\ j.value \in OrderStatus
    <3>1. j.op = "ship" => s \in {Ship, Tail(Ship), <<Note("customer")>>} /\ j.value \in OrderStatus
      BY DEF Shape
    <3> QED BY <1>5, <3>1, Tails
  <2>9. j.page = Nothing /\ j.read = Blank /\ Pageless(Tail(s))
    BY <1>3, <2>3, IsDo DEF Shape, Pageless
  <2>10. Left(Tail(s), "push", "rider") > 0 => j.value = "CONFIRMED" /\ Left(Tail(s), "emit", "status") > 0
    <3> SUFFICES ASSUME Left(Tail(s), "push", "rider") > 0
                 PROVE  j.value = "CONFIRMED" /\ Left(Tail(s), "emit", "status") > 0
      OBVIOUS
    <3>1. Left(s, "push", "rider") > 0
      BY <1>3, IsDo
    <3>2. j.value = "CONFIRMED" /\ Left(s, "emit", "status") > 0
      BY <3>1 DEF Shape
    <3>3. Head(s) # Do("emit", "status")
      <4>1. Head(s).do # "emit"
        BY <1>1, <3>1, TailOrderly
      <4> QED BY <4>1 DEF Do
    <3> QED BY <1>3, <3>2, <3>3 DEF Is
  <2>11. Shape(r)
    <3> HIDE DEF r, s, j
    <3> QED BY <2>2, <2>3, <2>4, <2>5, <2>6, <2>7, <2>8, <2>9, <2>10 DEF Shape
  <2> HIDE DEF r
  <2> QED BY <1>2, <1>3, <2>1, <2>2, <2>3, <2>11
<1> QED BY <1>4, <1>5

-----------------------------------------------------------------------------
(* Requests that come in.                                                  *)
LEMMA FreeShape ==
    /\ Shape(Free) /\ Free.todo = <<>> /\ Free.op = "idle" /\ Free.read = Blank /\ Free.page = Nothing
    /\ \A x, y : Left(Free.todo, x, y) = 0
    /\ \A values, notices : Nothing \in values["place"] => Known(Free, values, notices)
<1>1. /\ Free.todo = <<>> /\ Free.op = "idle" /\ Free.read = Blank /\ Free.page = Nothing
      /\ \A a \in Aspects : Free.read[a] = Nothing
  BY DEF Free, Blank, Aspects
<1>2. \A x, y : Left(Free.todo, x, y) = 0
  BY <1>1, Left0
<1>3. Free \in Jobs
  <2>1. Blank \in [Aspects -> Shown]
    BY DEF Blank, Aspects, Shown
  <2>2. 0 \in Notices
    BY MaxCallsIsNat DEF Notices
  <2>3. <<>> \in Seq(Steps)
    OBVIOUS
  <2> HIDE DEF Blank
  <2> QED BY <2>1, <2>2, <2>3 DEF Free, Jobs, Ops, Shown
<1>4. Orderly(Free.todo) /\ Announces(Free.todo) /\ Pageless(Free.todo)
  <2>1. DOMAIN Free.todo = {}
    BY <1>1
  <2> QED BY <1>2, <2>1 DEF Orderly, Announces, Pageless
<1>5. Shape(Free)
  BY <1>1, <1>2, <1>3, <1>4 DEF Shape
<1>6. ASSUME NEW values, NEW notices, Nothing \in values["place"] PROVE Known(Free, values, notices)
  BY <1>1, <1>2, <1>6 DEF Known, Had, Aspects
<1> QED BY <1>1, <1>2, <1>5, <1>6

(* A request in slot w that has just come in, and owes nothing.            *)
Comes(w, j) ==
    /\ job[w] = Free /\ job' = [job EXCEPT ![w] = j]
    /\ Shape(j) /\ Known(j, stored, notice)
    /\ j.read = Blank
    /\ \A a \in Aspects : Left(j.todo, "emit", a) <= Left(j.todo, "write", a)
    /\ j.op = "load" => \A v \in Slots : job[v].page # j.page
    /\ calls' \in Notices
    /\ UNCHANGED <<viewer, order, shown, pushed, notice, stored, doubt>>

LEMMA HandlerIs ==
    ASSUME NEW h \in Handlers
    PROVE  /\ h[1] \in Ops \ {"idle", "load", "placed"} /\ Begins(h[2]) /\ h[3] \in Shown
           /\ h[1] = "verified" => h[2] \in {Verified, VerifiedAssigned}
           /\ h[1] = "ship" => h[2] = Ship
           /\ h[2] = Locate \/ h[3] \in OrderStatus
           /\ h[2] = Locate => h[1] = "locate"
           /\ h[3] = "CONFIRMED" \/ Rideless(h[2])
<1>1. /\ Begins(Failed) /\ Begins(Captured) /\ Begins(Verified) /\ Begins(VerifiedAssigned) /\ Begins(Assign)
      /\ Begins(Ship) /\ Begins(Ride) /\ Begins(Override) /\ Begins(Locate)
      /\ Rideless(Failed) /\ Rideless(Captured) /\ Rideless(Verified) /\ Rideless(Assign)
      /\ Rideless(Ship) /\ Rideless(Ride) /\ Rideless(Override) /\ Rideless(Locate)
  <2>1. Ship = Verified /\ Override = Verified /\ Ride = Assign
    BY DEF Ship, Override, Verified, Ride, Assign
  <2> QED BY <2>1, BeginsFailed, BeginsCaptured, BeginsVerified, BeginsVerifiedAssigned, BeginsAssign, BeginsLocate
<1>2. CASE \E s \in Overrides : h = <<"override", Override, s>>
  <2>1. PICK s \in Overrides : h = <<"override", Override, s>>
    BY <1>2
  <2>2. h[1] = "override" /\ h[2] = Override /\ h[3] = s /\ s \in OrderStatus
    BY <2>1, OverridesAreStatuses
  <2>3. Override # Locate
    BY DEF Override, Locate, Write, Do
  <2> QED BY <1>1, <2>2, <2>3 DEF Ops, Shown
<1>3. CASE \E p \in Places : h = <<"locate", Locate, p>>
  <2>1. PICK p \in Places : h = <<"locate", Locate, p>>
    BY <1>3
  <2>2. h[1] = "locate" /\ h[2] = Locate /\ h[3] = p
    BY <2>1
  <2> QED BY <1>1, <2>2 DEF Ops, Shown
<1>4. CASE h \in {<<"captured", Captured, "CONFIRMED">>, <<"failed", Failed, "CANCELLED">>,
                  <<"verified", Verified, "CONFIRMED">>, <<"verified", VerifiedAssigned, "CONFIRMED">>,
                  <<"assign", Assign, "PACKED">>, <<"ship", Ship, "SHIPPED">>,
                  <<"ride", Ride, "OUT_FOR_DELIVERY">>, <<"ride", Ride, "DELIVERED">>}
  <2>1. /\ h[1] \in Ops \ {"idle", "load", "placed"} /\ h[3] \in OrderStatus
        /\ h[2] \in {Captured, Failed, Verified, VerifiedAssigned, Assign, Ship, Ride}
        /\ h[1] = "verified" => h[2] \in {Verified, VerifiedAssigned}
        /\ h[1] = "ship" => h[2] = Ship
        /\ h[3] = "CONFIRMED" \/ h[2] \in {Failed, Assign, Ship, Ride}
    BY <1>4 DEF Ops, OrderStatus
  <2>2. \A s \in {Captured, Failed, Verified, VerifiedAssigned, Assign, Ship, Ride} : s[1] = Do("write", "status")
    BY DEF Captured, Failed, Verified, VerifiedAssigned, Assign, Ship, Ride, Write
  <2>3. Locate[1] # Do("write", "status")
    BY DEF Locate, Do
  <2> QED BY <1>1, <2>1, <2>2, <2>3 DEF Shown
<1> QED BY <1>2, <1>3, <1>4 DEF Handlers

(* What comes in is told, and is not told before it is noted.              *)
LEMMA BeginComes ==
    ASSUME StoredInv, NEW w \in Slots, NEW request, Admit(w, request),
           request \in Jobs, Fits(request.todo), request.op # "placed", request.read = Blank,
           Left(request.todo, "write", "status") > 0 => request.value \in OrderStatus,
           request.op = "verified" => request.todo \in {Verified, VerifiedAssigned},
           request.op = "ship" => request.todo = Ship /\ request.value \in OrderStatus,
           request.value = "CONFIRMED" \/ Rideless(request.todo),
           IF request.op = "load"
           THEN /\ request.page \in Clients /\ request.todo = Load
                /\ \A v \in Slots : job[v].page # request.page
           ELSE request.page = Nothing /\ Pageless(request.todo)
    PROVE  \E j : Comes(w, j)
<1>1. PICK p \in Processes :
          /\ job[w] = Free /\ calls' = calls + 1 /\ calls < MaxCalls
          /\ job' = [job EXCEPT ![w] = [request EXCEPT !.at = p, !.n = calls + 1]]
          /\ UNCHANGED <<viewer, order, socket, shown, pushed, notice, stored, doubt>>
  BY DEF Admit, Spend
<1> DEFINE j == [request EXCEPT !.at = p, !.n = calls + 1]
           s == request.todo
<1>2. calls + 1 \in Notices /\ calls' \in Notices
  BY <1>1, MaxCallsIsNat DEF StoredInv, TrackingTypes, Notices
<1>3. /\ j \in Jobs /\ j.op = request.op /\ j.todo = s /\ j.value = request.value
      /\ j.page = request.page /\ j.read = request.read
  BY <1>2 DEF Jobs
<1>4. \A x, y : Left(s, x, y) \in Nat
  BY LeftNone DEF Fits
<1>5. Len(Verified) = 3 /\ Orderly(s) /\ Announces(s)
  BY DEF Fits, Verified
<1>6. request.op = "verified" => (s = VerifiedAssigned /\ Len(s) = 6) \/ Len(s) = 3
  <2>1. s = Verified => Len(s) = 3
    BY <1>5, Zenon
  <2>2. s = VerifiedAssigned => Len(s) = 6
    BY Tails, Zenon
  <2> QED BY <2>1, <2>2
<1>7. Shape(j)
  <2> DEFINE k == Len(s)
  <2>1. request.op = "verified" /\ k > 4 => s \in {VerifiedAssigned, Tail(VerifiedAssigned)}
    <3> HIDE DEF s
    <3>1. request.op = "verified" => s = VerifiedAssigned \/ k = 3
      BY <1>6
    <3> HIDE DEF k
    <3> QED BY <3>1
  <2>2. Left(s, "push", "rider") > 0 => request.value = "CONFIRMED" /\ Left(s, "emit", "status") > 0
    <3>1. Left(s, "push", "rider") <= Left(s, "emit", "status")
      BY DEF Fits
    <3>2. request.value = "CONFIRMED" \/ Left(s, "push", "rider") = 0
      BY DEF Rideless
    <3> HIDE DEF s
    <3> QED BY <1>4, <3>1, <3>2
  <2> HIDE DEF j, s
  <2> QED BY <1>3, <1>5, <2>1, <2>2 DEF Shape, s
<1>8. Known(j, stored, notice)
  <2>1. \A a \in Aspects : request.read[a] \in Had(a, stored)
    BY DEF StoredInv, Stored, Had, Blank, Aspects
  <2>2. request.op = "verified" => Len(s) # 5
    <3> HIDE DEF s
    <3> QED BY <1>6
  <2> HIDE DEF j, s
  <2> QED BY <1>3, <1>4, <2>1, <2>2 DEF Known, Fits, s
<1>9. \A a \in Aspects : Left(s, "emit", a) <= Left(s, "write", a)
  BY DEF Fits
<1> HIDE DEF j, s
<1>10. Comes(w, j)
  <2>1. job' = [job EXCEPT ![w] = j]
    BY <1>1 DEF j
  <2> QED BY <1>1, <1>2, <1>3, <1>7, <1>8, <1>9, <2>1 DEF Comes
<1> QED BY <1>10

LEMMA Comers ==
    ASSUME StoredInv, NEW w \in Slots,
           Handle(w) \/ HandleCancel(w) \/ HandleNewProduct(w) \/ \E c \in Clients : LoadBegin(w, c)
    PROVE  \E j : Comes(w, j)
<1>1. ASSUME NEW op \in Ops \ {"idle", "load", "placed"}, NEW todo, NEW value \in Shown, Begins(todo), Begin(w, op, todo, value),
             Left(todo, "write", "status") > 0 => value \in OrderStatus,
             op = "verified" => todo \in {Verified, VerifiedAssigned},
             op = "ship" => todo = Ship /\ value \in OrderStatus,
             value = "CONFIRMED" \/ Rideless(todo)
      PROVE  \E j : Comes(w, j)
  <2> DEFINE request == [Free EXCEPT !.op = op, !.todo = todo, !.value = value]
  <2>1. Free \in Jobs /\ Free.read = Blank /\ Free.page = Nothing
    BY FreeShape DEF Shape
  <2>2. todo \in Seq(Steps)
    BY <1>1 DEF Begins, Fits
  <2>3. /\ request \in Jobs /\ request.op = op /\ request.todo = todo /\ request.value = value
        /\ request.page = Nothing /\ request.read = Blank
    BY <2>1, <2>2 DEF Jobs
  <2>4. Admit(w, request)
    BY <1>1 DEF Begin
  <2> HIDE DEF request
  <2> QED BY <1>1, <2>3, <2>4, BeginComes DEF Begins
<1>2. CASE Handle(w)
  <2>1. PICK h \in Handlers : Begin(w, h[1], h[2], h[3])
    BY <1>2 DEF Handle
  <2>2. Left(h[2], "write", "status") > 0 => h[3] \in OrderStatus
    <3>1. Left(Locate, "write", "status") = 0
      BY Left2, IsDo DEF Locate
    <3> QED BY <3>1, HandlerIs
  <2>3. h[1] = "ship" => h[3] \in OrderStatus
    BY HandlerIs
  <2> QED BY <1>1, <2>1, <2>2, <2>3, HandlerIs
<1>3. CASE HandleCancel(w)
  <2>1. Begin(w, "cancel", Cancel, "CANCELLED") /\ "CANCELLED" \in OrderStatus /\ "CANCELLED" \in Shown
    BY <1>3 DEF HandleCancel, OrderStatus, Shown
  <2>2. "cancel" \in Ops \ {"idle", "load", "placed"}
    BY DEF Ops
  <2> QED BY <1>1, <2>1, <2>2, BeginsCancel
<1>4. CASE HandleNewProduct(w)
  <2>1. Begin(w, "product", NewProduct, Nothing) /\ Nothing \in Shown
    BY <1>4 DEF HandleNewProduct, Shown
  <2>2. "product" \in Ops \ {"idle", "load", "placed"}
    BY DEF Ops
  <2>3. NewProduct = Placed
    BY DEF NewProduct, Placed
  <2>4. Left(Placed, "write", "status") = 0
    BY Left2, IsDo DEF Placed, Note, Tell
  <2> QED BY <1>1, <2>1, <2>2, <2>3, <2>4, BeginsPlaced
<1>5. CASE \E c \in Clients : LoadBegin(w, c)
  <2>1. PICK c \in Clients : LoadBegin(w, c)
    BY <1>5
  <2> DEFINE request == [Free EXCEPT !.op = "load", !.todo = Load, !.page = c]
  <2>2. Free \in Jobs /\ Free.read = Blank
    BY FreeShape DEF Shape
  <2>3. Load \in Seq(Steps)
    BY LoadFits DEF Fits
  <2>4. /\ request \in Jobs /\ request.op = "load" /\ request.todo = Load
        /\ request.page = c /\ request.read = Blank
    BY <2>2, <2>3 DEF Jobs, Ops
  <2>5. Admit(w, request) /\ \A v \in Slots : job[v].page # c
    BY <2>1 DEF LoadBegin
  <2>6. Left(Load, "write", "status") = 0
    BY Left2, IsDo DEF Load
  <2> HIDE DEF request
  <2> QED BY <2>4, <2>5, <2>6, LoadFits, BeginComes
<1> QED BY <1>2, <1>3, <1>4, <1>5

-----------------------------------------------------------------------------
(* Requests that go on, and those that fail.                               *)

(* What w knows after one step, when the step has stored its value or      *)
(* written its notice.                                                     *)
LEMMA RestKnown ==
    ASSUME StoredInv, NEW w \in Slots, job[w].todo # <<>>, Head(job[w].todo).do # "read",
           NEW values, NEW notices, Nothing \in values["place"],
           \A a \in Aspects : stored[a] \subseteq values[a],
           \A u \in Users : notice[<<job[w].n, u>>] # "absent" => notices[<<job[w].n, u>>] # "absent",
           Head(job[w].todo).do = "write" => job[w].value \in values[Head(job[w].todo).to],
           Head(job[w].todo).do = "notice" => notices[<<job[w].n, Head(job[w].todo).to>>] # "absent"
    PROVE  Known(Rest(w), values, notices)
<1> DEFINE j == job[w]
           h == Head(job[w].todo)
           r == Rest(w)
<1>1. Shape(j) /\ Known(j, stored, notice) /\ j.todo \in Seq(Steps)
  BY DEF StoredInv, Shape, Jobs
<1>2. /\ \A x, y : Left(j.todo, x, y) = Is(h, x, y) + Left(r.todo, x, y)
      /\ \/ r = Free
         \/ /\ r.value = j.value /\ r.n = j.n /\ r.op = j.op /\ r.read = j.read
            /\ Len(r.todo) = Len(j.todo) - 1
  BY <1>1, RestShape, FreeShape
<1>3. CASE r = Free
  BY <1>3, FreeShape
<1>4. CASE r # Free
  <2>1. /\ r.value = j.value /\ r.n = j.n /\ r.op = j.op /\ r.read = j.read
        /\ Len(r.todo) = Len(j.todo) - 1
    BY <1>2, <1>4
  <2>2. \A x, y : Left(r.todo, x, y) \in Nat /\ Left(j.todo, x, y) \in Nat
    <3>1. Shape(r)
      BY <1>1, RestShape, FreeShape
    <3> QED BY <1>1, <3>1, LeftNone DEF Shape, Jobs
  <2>3. ASSUME NEW a \in Aspects, Left(r.todo, "emit", a) > 0, Left(r.todo, "write", a) = 0
        PROVE  r.value \in values[a]
    <3>1. CASE h = Do("write", a)
      BY <2>1, <3>1 DEF Do
    <3>2. CASE h # Do("write", a)
      <4>1. Left(j.todo, "emit", a) > 0 /\ Left(j.todo, "write", a) = 0
        BY <1>2, <2>2, <2>3, <3>2, IsDo DEF Is
      <4> QED BY <1>1, <2>1, <4>1 DEF Known
    <3> QED BY <3>1, <3>2
  <2>4. ASSUME r.op = "verified", Len(r.todo) = 5
        PROVE  r.value \in values["status"]
    <3>1. j.todo = VerifiedAssigned
      <4>1. j.op = "verified" /\ Len(j.todo) = 6
        <5>1. Len(j.todo) \in Nat
          BY <1>1, LenProperties
        <5> DEFINE k == Len(j.todo)
                   m == Len(r.todo)
        <5>2. m = 5 /\ m = k - 1 /\ k \in Nat
          BY <2>1, <2>4, <5>1
        <5> HIDE DEF k, m
        <5>3. k = 6
          BY <5>2
        <5> QED BY <2>1, <2>4, <5>3 DEF k
      <4>2. j.todo = Tail(VerifiedAssigned) => Len(j.todo) = 5
        BY Tails, Zenon
      <4>3. j.todo \in {VerifiedAssigned, Tail(VerifiedAssigned)}
        BY <1>1, <4>1 DEF Shape
      <4> QED BY <4>1, <4>2, <4>3
    <3>2. h = Do("write", "status")
      BY <3>1 DEF VerifiedAssigned, Write
    <3> QED BY <2>1, <3>2 DEF Do
  <2>5. ASSUME NEW u \in Users, Left(r.todo, "push", u) > 0, Left(r.todo, "notice", u) = 0
        PROVE  notices[<<r.n, u>>] # "absent"
    <3>1. CASE h = Do("notice", u)
      BY <2>1, <3>1 DEF Do
    <3>2. CASE h # Do("notice", u)
      <4>1. Left(j.todo, "push", u) > 0 /\ Left(j.todo, "notice", u) = 0
        BY <1>2, <2>2, <2>5, <3>2, IsDo DEF Is
      <4> QED BY <1>1, <2>1, <4>1 DEF Known
    <3> QED BY <3>1, <3>2
  <2>6. ASSUME NEW a \in Aspects PROVE r.read[a] \in Had(a, values)
    BY <1>1, <2>1 DEF Known, Had
  <2> QED BY <2>3, <2>4, <2>5, <2>6 DEF Known
<1> QED BY <1>3, <1>4

(* What a handler goes on with after an error announces what the handler   *)
(* had yet to announce.                                                    *)
LEMMA Recovers ==
    ASSUME StoredInv, NEW w \in Slots, NEW what \in {"write", "notice"}, Doing(w, what)
    PROVE  LET r == Recovery(w) IN
           /\ Shape(r) /\ Known(r, stored, notice)
           /\ r = Free \/ /\ r.op # "load" /\ job[w].op # "load"
                          /\ r.value = job[w].value /\ r.page = job[w].page /\ r.read = job[w].read
                          /\ \A a \in Aspects :
                                Left(r.todo, "emit", a) > Left(r.todo, "write", a) <=> Owes(w, a)
<1> DEFINE j == job[w]
           s == job[w].todo
           r == Recovery(w)
<1>1. /\ j \in Jobs /\ Shape(j) /\ Known(j, stored, notice) /\ s \in Seq(Steps) /\ s # <<>>
      /\ Head(s).do \in {"write", "notice"} /\ Len(s) \in Nat
  BY LenProperties DEF StoredInv, Shape, Jobs, Doing
<1>2. /\ Begins(AutoAssign) /\ Len(AutoAssign) = 3 /\ Begins(ShipMock) /\ Len(ShipMock) = 2 /\ Rideless(ShipMock)
      /\ \A t \in {AutoAssign, ShipMock} :
            /\ \A a \in Aspects : Left(t, "emit", a) = Left(t, "write", a) /\ Left(t, "write", a) \in Nat
            /\ \A u \in Users : Left(t, "push", u) = 0
            /\ Left(t, "emit", "status") = 1
  <2>1. ShipMock = Assign /\ Assign = <<Do("write", "status"), Do("emit", "status")>>
    BY DEF Assign, ShipMock, Write, Announce
  <2>2. \A x, y : Left(Assign, x, y) = Is(Do("write", "status"), x, y) + Is(Do("emit", "status"), x, y)
    BY <2>1, Left2
  <2>3. AutoAssign = <<Do("write", "status"), Do("push", "rider"), Do("emit", "status")>>
    BY DEF AutoAssign, Write, Tell, Announce
  <2>4. \A x, y : Left(AutoAssign, x, y) = Is(Do("write", "status"), x, y) + Is(Do("push", "rider"), x, y) + Is(Do("emit", "status"), x, y)
    BY <2>3, Left3
  <2>5. Len(AutoAssign) = 3 /\ Len(ShipMock) = 2
    BY DEF AutoAssign, ShipMock
  <2> QED BY <2>1, <2>2, <2>4, <2>5, BeginsAssign, BeginsAutoAssign, IsDo DEF Aspects, Users
(* In a handler that assigns a rider, or ships a mock, after all.          *)
<1>3. ASSUME NEW op \in Ops \ {"load", "verified", "ship"}, j.op # "load", j.value \in OrderStatus,
             NEW more \in {AutoAssign, ShipMock}, j.value = "CONFIRMED" \/ more = ShipMock,
             r = [j EXCEPT !.op = op, !.todo = more],
             \A a \in Aspects : Left(s, "emit", a) = Left(s, "write", a) /\ Left(s, "write", a) \in Nat
      PROVE  /\ Shape(r) /\ Known(r, stored, notice)
             /\ r.op # "load" /\ r.value = j.value /\ r.page = j.page /\ r.read = j.read
             /\ \A a \in Aspects : Left(r.todo, "emit", a) > Left(r.todo, "write", a) <=> Owes(w, a)
  <2>1. /\ r \in Jobs /\ r.op = op /\ r.todo = more /\ r.value = j.value
        /\ r.n = j.n /\ r.page = j.page /\ r.read = j.read
    <3>1. more \in Seq(Steps)
      BY <1>2 DEF Begins, Fits
    <3> QED BY <1>1, <1>3, <3>1 DEF Jobs
  <2>2. j.page = Nothing /\ j.read = Blank
    BY <1>1, <1>3 DEF Shape
  <2> HIDE DEF r, j, s
  <2>3. Shape(r)
    <3>1. ~(Len(r.todo) > 3)
      <4> DEFINE k == Len(r.todo)
      <4>1. k = 2 \/ k = 3
        BY <1>2, <1>3, <2>1, Zenon
      <4> HIDE DEF k
      <4>2. ~(k > 3)
        BY <4>1
      <4> QED BY <4>2 DEF k
    <3>2. Left(r.todo, "write", "status") > 0 => r.value \in OrderStatus
      BY <1>3, <2>1
    <3>3. Orderly(r.todo) /\ Announces(r.todo) /\ Pageless(r.todo)
      BY <1>2, <1>3, <2>1 DEF Begins, Fits
    <3>4. Left(r.todo, "push", "rider") > 0 => r.value = "CONFIRMED" /\ Left(r.todo, "emit", "status") > 0
      BY <1>2, <1>3, <2>1 DEF Rideless
    <3> QED BY <1>3, <2>1, <2>2, <3>1, <3>2, <3>3, <3>4 DEF Shape
  <2>4. Known(r, stored, notice)
    BY <1>1, <1>2, <1>3, <2>1 DEF Known
  <2> QED BY <1>2, <1>3, <2>1, <2>3, <2>4 DEF Owes, s
<1>4. CASE j.op = "placed" /\ Len(s) > 3
  <2>1. r = [j EXCEPT !.op = "placed", !.todo = AutoAssign]
    <3>1. r = [j EXCEPT !.todo = AutoAssign]
      BY <1>2, <1>4 DEF Recovery
    <3>2. j = [j EXCEPT !.op = "placed"]
      BY <1>1, <1>4 DEF Jobs
    <3> QED BY <3>1, <3>2
  <2>2. PlacedAssigned = <<Note("admin"), Tell("admin"), Write, Tell("rider"), Announce>>
    BY DEF PlacedAssigned
  <2>3. Tail(PlacedAssigned) = <<Tell("admin"), Write, Tell("rider"), Announce>>
    BY <2>2
  <2>4. s \in {PlacedAssigned, Tail(PlacedAssigned)}
    BY <1>1, <1>4 DEF Shape
  <2>5. \A x, y : Left(s, x, y) \in {Is(Note("admin"), x, y) + Is(Tell("admin"), x, y) + Is(Write, x, y) + Is(Tell("rider"), x, y) + Is(Announce, x, y),
                                     Is(Tell("admin"), x, y) + Is(Write, x, y) + Is(Tell("rider"), x, y) + Is(Announce, x, y)}
    BY <2>2, <2>3, <2>4, Left4, Left5
  <2>6. \A a \in Aspects : Left(s, "emit", a) = Left(s, "write", a) /\ Left(s, "write", a) \in Nat
    BY <2>5, IsDo DEF Note, Tell, Write, Announce
  <2>7. j.value \in OrderStatus /\ j.value = "CONFIRMED"
    <3>1. Left(s, "write", "status") > 0 /\ Left(s, "push", "rider") > 0
      BY <2>5, IsDo DEF Note, Tell, Write, Announce
    <3> QED BY <1>1, <3>1 DEF Shape
  <2>8. "placed" \in Ops \ {"load", "verified", "ship"}
    BY DEF Ops
  <2> HIDE DEF j, s, r
  <2>9. j.op # "load"
    BY <1>4
  <2> QED BY <1>3, <2>1, <2>6, <2>7, <2>8, <2>9 DEF j, s, r
<1>5. CASE j.op = "verified" /\ Len(s) = 5
  <2> DEFINE rest == <<Announce, Note("customer")>>
  <2>1. r = [j EXCEPT !.todo = rest]
    BY <1>2, <1>5 DEF Recovery
  <2>2. Tail(VerifiedAssigned) = <<Write, Tell("rider"), Announce, Announce, Note("customer")>>
    BY DEF VerifiedAssigned
  <2>3. s = Tail(VerifiedAssigned)
    <3>1. s = VerifiedAssigned => Len(s) = 6
      BY Tails, Zenon
    <3>2. s \in {VerifiedAssigned, Tail(VerifiedAssigned)}
      BY <1>1, <1>5 DEF Shape
    <3> QED BY <1>5, <3>1, <3>2
  <2>4. ASSUME NEW x, NEW y
        PROVE  Left(s, x, y) = Is(Write, x, y) + Is(Tell("rider"), x, y) + Is(Announce, x, y) + Is(Announce, x, y) + Is(Note("customer"), x, y)
    <3>1. Left(<<Write, Tell("rider"), Announce, Announce, Note("customer")>>, x, y) =
             Is(Write, x, y) + Is(Tell("rider"), x, y) + Is(Announce, x, y) + Is(Announce, x, y) + Is(Note("customer"), x, y)
      BY Left5
    <3> QED BY <2>2, <2>3, <3>1, Zenon
  <2>5. \A x, y : Left(rest, x, y) = Is(Announce, x, y) + Is(Note("customer"), x, y)
    BY Left2
  <2>6. \A a \in Aspects : /\ Left(rest, "emit", a) > Left(rest, "write", a) <=> Owes(w, a)
                           /\ Left(rest, "write", a) = 0 /\ Left(rest, "emit", a) \in Nat
                           /\ Left(rest, "emit", a) > 0 => a = "status"
    BY <2>4, <2>5, IsDo DEF Note, Tell, Write, Announce, Owes
  <2>7. Pageless(rest) /\ Rideless(rest) /\ \A u \in Users : Left(rest, "push", u) = 0
    BY <2>5, IsDo DEF Note, Announce, Pageless, Rideless
  <2>8. rest \in Seq(Steps) /\ Orderly(rest) /\ Len(rest) = 2
    <3>1. rest = Tail(Ship) /\ Ship = Verified
      BY Tails DEF Ship, Verified
    <3>2. Ship \in Seq(Steps) /\ Ship # <<>> /\ Orderly(Ship)
      BY <3>1, BeginsVerified DEF Begins, Fits
    <3> QED BY <3>1, <3>2, TailOrderly, HeadTailProperties
  <2>9. j.page = Nothing /\ j.read = Blank /\ j.value \in stored["status"]
    BY <1>1, <1>5 DEF Shape, Known
  <2> HIDE DEF rest
  <2>10. /\ r \in Jobs /\ r.op = "verified" /\ r.todo = rest /\ r.value = j.value
         /\ r.n = j.n /\ r.page = j.page /\ r.read = j.read
    BY <1>1, <1>5, <2>1, <2>8 DEF Jobs
  <2> HIDE DEF r, j, s
  <2>11. Shape(r)
    <3>1. ~(Len(r.todo) > 4)
      <4> DEFINE k == Len(r.todo)
      <4>1. k = 2
        BY <2>8, <2>10, Zenon
      <4> HIDE DEF k
      <4>2. ~(k > 4)
        BY <4>1
      <4> QED BY <4>2 DEF k
    <3>3. Left(r.todo, "write", "status") = 0 /\ Orderly(r.todo)
      BY <2>6, <2>8, <2>10 DEF Aspects
    <3>2. Announces(r.todo)
      BY <2>6, <2>10 DEF Announces
    <3> QED BY <2>7, <2>9, <2>10, <3>1, <3>2, <3>3 DEF Shape, Rideless
  <2>12. Known(r, stored, notice)
    BY <1>1, <2>6, <2>7, <2>8, <2>9, <2>10 DEF Known
  <2> QED BY <1>5, <2>6, <2>10, <2>11, <2>12 DEF r, j
<1>6. CASE j.op = "ship"
  <2>1. r = [j EXCEPT !.op = "shipMock", !.todo = ShipMock]
    BY <1>2, <1>6 DEF Recovery
  <2>2. s \in {Ship, <<Note("customer")>>}
    <3>1. Head(Tail(Ship)).do = "emit"
      BY DEF Ship, Announce, Do
    <3> QED BY <1>1, <1>6, <3>1 DEF Shape
  <2>3. \A x, y : Left(s, x, y) \in {Is(Write, x, y) + Is(Announce, x, y) + Is(Note("customer"), x, y), Is(Note("customer"), x, y)}
    BY <2>2, Left3, Left1 DEF Ship
  <2>4. \A a \in Aspects : Left(s, "emit", a) = Left(s, "write", a) /\ Left(s, "write", a) \in Nat
    BY <2>2, Left3, Left1, IsDo DEF Ship, Note, Write, Announce
  <2>5. j.value \in OrderStatus /\ "shipMock" \in Ops \ {"load", "verified", "ship"}
    BY <1>1, <1>6 DEF Shape, Ops
  <2> HIDE DEF j, s, r
  <2>6. j.op # "load"
    BY <1>6
  <2> QED BY <1>3, <2>1, <2>4, <2>5, <2>6 DEF j, s, r
<1>7. CASE /\ ~(j.op = "placed" /\ Len(s) > 3) /\ ~(j.op = "verified" /\ Len(s) = 5)
           /\ j.op # "ship"
  <2>1. r = Free
    BY <1>2, <1>7 DEF Recovery
  <2> QED BY <2>1, FreeShape DEF StoredInv, Stored
<1> QED BY <1>4, <1>5, <1>6, <1>7

-----------------------------------------------------------------------------
(* Nothing is announced that cannot be looked up.                          *)
LEMMA StepFacts ==
    ASSUME StoredInv, NEW w \in Slots, job[w].todo # <<>>
    PROVE  LET s == job[w].todo h == Head(s) IN
           /\ s \in Seq(Steps) /\ h \in Steps /\ h = Do(h.do, To(w)) /\ h.to = To(w)
           /\ h.do \in {"write", "emit"} => To(w) \in Aspects
           /\ h.do = "notice" => To(w) \in Users
           /\ h.do = "push" => To(w) \in People
           /\ Left(s, h.do, To(w)) > 0
           /\ h.do = "emit" => Left(s, "write", To(w)) = 0
           /\ h.do = "push" => Left(s, "notice", To(w)) = 0
           /\ h = Do("push", "rider") => Left(s, "write", "status") = 0
           /\ job[w].op = "load" => h.do \in {"read", "answer"}
           /\ h.do = "read" => job[w].op = "load" /\ s = Load
           /\ h.do = "answer" => job[w].op = "load" /\ s = Tail(Load) /\ job[w].read # Blank
<1> DEFINE s == job[w].todo
           h == Head(s)
<1>1. Shape(job[w]) /\ s \in Seq(Steps) /\ Orderly(s)
  BY DEF StoredInv, Shape, Jobs
<1>2. h \in Steps /\ h = Do(h.do, h.to) /\ To(w) = h.to
  BY <1>1, HeadTailProperties, StepIs DEF To
<1>3. Left(s, h.do, h.to) > 0
  <2>1. /\ Left(s, h.do, h.to) = Is(h, h.do, h.to) + Left(Tail(s), h.do, h.to)
        /\ Left(Tail(s), h.do, h.to) \in Nat
    BY <1>1, LeftTail
  <2> QED BY <1>2, <2>1 DEF Is
<1>4. job[w].op = "load" => h.do \in {"read", "answer"}
  BY <1>1, Tails DEF Shape, Load, Do
<1>5. h.do = "read" => job[w].op = "load" /\ s = Load
  <2>1. h.do = "read" => h = Do("read", "page")
    BY <1>2 DEF Steps, Do
  <2>2. Head(Tail(Load)) # Do("read", "page")
    <3>1. Head(<<Do("answer", "page")>>) = Do("answer", "page") /\ Do("answer", "page") # Do("read", "page")
      BY DEF Do
    <3> QED BY <3>1, Tails, Zenon
  <2>3. h.do = "read" => Left(s, "read", "page") # 0
    BY <1>3, <2>1 DEF Do
  <2> QED BY <1>1, <2>1, <2>2, <2>3 DEF Shape, Pageless
<1>6. h.do = "answer" => job[w].op = "load" /\ s = Tail(Load) /\ job[w].read # Blank
  <2>1. h.do = "answer" => h = Do("answer", "page")
    BY <1>2 DEF Steps, Do
  <2>2. Head(Load) # Do("answer", "page")
    BY DEF Load, Do
  <2>3. h.do = "answer" => Left(s, "answer", "page") # 0
    BY <1>3, <2>1 DEF Do
  <2> QED BY <1>1, <2>1, <2>2, <2>3 DEF Shape, Pageless
<1> QED BY <1>1, <1>2, <1>3, <1>4, <1>5, <1>6, StepIs, TailOrderly

LEMMA StoredStep ==
    ASSUME StoredInv, TrackingTypes', Stored',
           \A a \in Aspects : stored[a] \subseteq stored'[a],
           \A r \in Notices \X Users : notice[r] # "absent" => notice'[r] # "absent",
           \A v \in Slots : job'[v] = job[v] \/ (Shape(job'[v]) /\ Known(job'[v], stored', notice'))
    PROVE  StoredInv'
<1>1. ASSUME NEW v \in Slots, job'[v] = job[v] PROVE Shape(job'[v]) /\ Known(job'[v], stored', notice')
  <2> DEFINE j == job[v]
  <2>1. Shape(j) /\ Known(j, stored, notice) /\ j.n \in Notices
    BY DEF StoredInv, Shape, Jobs
  <2> HIDE DEF j
  <2>2. Known(j, stored', notice')
    <3>1. \A u \in Users : notice[<<j.n, u>>] # "absent" => notice'[<<j.n, u>>] # "absent"
      BY <2>1
    <3>2. \A a \in Aspects : stored[a] \subseteq stored'[a]
      OBVIOUS
    <3>3. "status" \in Aspects
      BY DEF Aspects
    <3> QED BY <2>1, <3>1, <3>2, <3>3 DEF Known, Had
  <2> QED BY <1>1, <2>1, <2>2 DEF j
<1> QED BY <1>1 DEF StoredInv

(* One slot changes to j.                                                  *)
LEMMA Changes ==
    ASSUME StoredInv, NEW w \in Slots, NEW j \in Jobs, job' = [job EXCEPT ![w] = j]
    PROVE  job' \in [Slots -> Jobs] /\ job'[w] = j /\ \A v \in Slots : v # w => job'[v] = job[v]
  BY DEF StoredInv, TrackingTypes

LEMMA DoubtType ==
    ASSUME StoredInv
    PROVE  /\ \A a \in Aspects : \A who : Doubt(a, who) => doubt' \in [Clients -> SUBSET Aspects]
           /\ \A gone : Lose(gone) => doubt' \in [Clients -> SUBSET Aspects]
  BY DEF StoredInv, TrackingTypes, Doubt, Lose

LEMMA ComesStored ==
    ASSUME StoredInv, NEW w \in Slots, NEW j, Comes(w, j) PROVE StoredInv'
<1>1. /\ Shape(j) /\ j \in Jobs /\ Known(j, stored, notice)
      /\ job' \in [Slots -> Jobs] /\ job'[w] = j /\ \A v \in Slots : v # w => job'[v] = job[v]
  BY Changes DEF Comes, Shape
<1>2. TrackingTypes'
  BY <1>1 DEF StoredInv, TrackingTypes, Comes
<1>3. Stored'
  BY DEF StoredInv, Stored, Had, Comes
<1>4. UNCHANGED <<stored, notice>>
  BY DEF Comes
<1> QED BY <1>1, <1>2, <1>3, <1>4, StoredStep

LEMMA WriteStored ==
    ASSUME StoredInv, NEW w \in Slots, WriteRow(w) PROVE StoredInv'
<1> DEFINE a == To(w)
           h == Head(job[w].todo)
<1>1. /\ job[w].todo # <<>> /\ h.do = "write" /\ a \in Aspects /\ h.to = a
      /\ a = "status" => job[w].value \in OrderStatus
      /\ job[w].value \in Shown
  <2>1. job[w].todo # <<>> /\ h.do = "write"
    BY DEF WriteRow, Doing
  <2> QED BY <2>1, StepFacts DEF StoredInv, Shape, Jobs
<1>2. /\ order' = [order EXCEPT ![a] = job[w].value]
      /\ stored' = [stored EXCEPT ![a] = stored[a] \cup {job[w].value}]
      /\ job' = [job EXCEPT ![w] = Rest(w)]
      /\ UNCHANGED <<viewer, socket, shown, pushed, notice, calls>>
      /\ doubt' \in [Clients -> SUBSET Aspects]
  BY <1>1, DoubtType DEF WriteRow, Advance
<1> HIDE DEF a
<1>3. /\ order' \in [Aspects -> Shown] /\ stored' \in [Aspects -> SUBSET Shown]
      /\ order'[a] = job[w].value /\ stored'[a] = stored[a] \cup {job[w].value}
      /\ \A b \in Aspects : b # a => order'[b] = order[b] /\ stored'[b] = stored[b]
  BY <1>1, <1>2 DEF StoredInv, TrackingTypes
<1>4. Shape(Rest(w)) /\ Rest(w) \in Jobs
  BY <1>1, RestShape, FreeShape DEF StoredInv, Shape
<1>5. job' \in [Slots -> Jobs] /\ job'[w] = Rest(w) /\ \A v \in Slots : v # w => job'[v] = job[v]
  BY <1>2, <1>4, Changes
<1>6. TrackingTypes'
  BY <1>2, <1>3, <1>5 DEF StoredInv, TrackingTypes
<1>7. Stored'
  <2>1. Nothing \notin stored'["status"] /\ Nothing \in stored'["place"]
    BY <1>1, <1>3, NothingIsNone DEF StoredInv, Stored, Aspects
  <2>2. \A b \in Aspects : order'[b] \in stored'[b] /\ stored[b] \subseteq stored'[b]
    BY <1>3 DEF StoredInv, Stored
  <2> QED BY <1>2, <2>1, <2>2 DEF StoredInv, Stored, Had
<1>8. \A b \in Aspects : stored[b] \subseteq stored'[b]
  BY <1>3
<1>9. Known(Rest(w), stored', notice')
  <2>1. Nothing \in stored'["place"]
    BY <1>7 DEF Stored
  <2> QED BY <1>1, <1>2, <1>3, <1>8, <2>1, RestKnown
<1> QED BY <1>2, <1>4, <1>5, <1>6, <1>7, <1>8, <1>9, StoredStep

LEMMA EmitStored ==
    ASSUME StoredInv, NEW w \in Slots, Emit(w) PROVE StoredInv'
<1> DEFINE a == To(w)
           h == Head(job[w].todo)
           v == job[w].value
           heard == {c \in Clients : Hears(c, job[w].at, a)}
<1>1. job[w].todo # <<>> /\ h.do = "emit" /\ a \in Aspects /\ v \in stored[a] /\ v \in Shown
  <2>1. job[w].todo # <<>> /\ h.do = "emit"
    BY DEF Emit, Doing
  <2> QED BY <2>1, StepFacts DEF StoredInv, Shape, Jobs, Known
<1>2. /\ shown' = [c \in Clients |-> IF c \in heard THEN [shown[c] EXCEPT ![a] = v] ELSE shown[c]]
      /\ job' = [job EXCEPT ![w] = Rest(w)]
      /\ UNCHANGED <<viewer, order, socket, pushed, notice, calls, stored>>
      /\ doubt' \in [Clients -> SUBSET Aspects]
  BY <1>1, DoubtType DEF Emit, Advance
<1> HIDE DEF a, heard
<1>3. /\ shown' \in [Clients -> [Aspects -> Shown]]
      /\ \A c \in Clients : \A b \in Aspects : shown'[c][b] = shown[c][b] \/ (b = a /\ shown'[c][b] = v)
  BY <1>1, <1>2 DEF StoredInv, TrackingTypes
<1>4. Shape(Rest(w)) /\ Rest(w) \in Jobs
  BY <1>1, RestShape, FreeShape DEF StoredInv, Shape
<1>5. job' \in [Slots -> Jobs] /\ job'[w] = Rest(w) /\ \A x \in Slots : x # w => job'[x] = job[x]
  BY <1>2, <1>4, Changes
<1>6. TrackingTypes'
  BY <1>2, <1>3, <1>5 DEF StoredInv, TrackingTypes
<1>7. Stored'
  <2>1. \A c \in Clients : \A b \in Aspects : shown'[c][b] \in Had(b, stored)
    BY <1>1, <1>3 DEF StoredInv, Stored, Had
  <2> QED BY <1>2, <2>1 DEF StoredInv, Stored, Had
<1>8. Known(Rest(w), stored', notice')
  <2>1. Nothing \in stored'["place"]
    BY <1>7 DEF Stored
  <2> QED BY <1>1, <1>2, <2>1, RestKnown
<1> QED BY <1>2, <1>4, <1>5, <1>6, <1>7, <1>8, StoredStep

LEMMA NoticeStored ==
    ASSUME StoredInv, NEW w \in Slots, CreateNotice(w) PROVE StoredInv'
<1> DEFINE u == To(w)
           h == Head(job[w].todo)
           n == job[w].n
<1>1. job[w].todo # <<>> /\ h.do = "notice" /\ u \in Users /\ h.to = u /\ n \in Notices
  <2>1. job[w].todo # <<>> /\ h.do = "notice"
    BY DEF CreateNotice, Doing
  <2> QED BY <2>1, StepFacts DEF StoredInv, Shape, Jobs
<1>2. /\ notice' = [notice EXCEPT ![<<n, u>>] = "unread"]
      /\ job' = [job EXCEPT ![w] = Rest(w)]
      /\ UNCHANGED <<viewer, order, socket, shown, pushed, calls, stored, doubt>>
  BY DEF CreateNotice, Advance
<1> HIDE DEF u, n
<1>3. /\ notice' \in [Notices \X Users -> {"absent", "unread", "read", "deleted"}]
      /\ notice'[<<n, u>>] = "unread"
      /\ \A r \in Notices \X Users : notice[r] # "absent" => notice'[r] # "absent"
  <2> DEFINE r == <<n, u>>
  <2>1. r \in Notices \X Users
    BY <1>1
  <2> HIDE DEF r
  <2>2. notice' = [notice EXCEPT ![r] = "unread"]
    BY <1>2 DEF r
  <2>3. /\ notice' \in [Notices \X Users -> {"absent", "unread", "read", "deleted"}]
        /\ notice'[r] = "unread"
        /\ \A q \in Notices \X Users : notice[q] # "absent" => notice'[q] # "absent"
    BY <2>1, <2>2 DEF StoredInv, TrackingTypes
  <2> QED BY <2>3 DEF r
<1>4. Shape(Rest(w)) /\ Rest(w) \in Jobs
  BY <1>1, RestShape, FreeShape DEF StoredInv, Shape
<1>5. job' \in [Slots -> Jobs] /\ job'[w] = Rest(w) /\ \A x \in Slots : x # w => job'[x] = job[x]
  BY <1>2, <1>4, Changes
<1>6. TrackingTypes'
  BY <1>2, <1>3, <1>5 DEF StoredInv, TrackingTypes
<1>7. Stored'
  <2>1. ASSUME NEW c \in Clients, viewer'[c] \in Users, NEW m \in pushed'[c] PROVE notice'[<<m, viewer'[c]>>] # "absent"
    <3>1. m \in pushed[c] /\ m \in Notices /\ viewer[c] \in Users /\ viewer' = viewer
      BY <1>2, <2>1 DEF StoredInv, TrackingTypes
    <3> QED BY <1>3, <3>1 DEF StoredInv, Stored
  <2> QED BY <1>2, <2>1 DEF StoredInv, Stored, Had
<1>8. Known(Rest(w), stored', notice')
  <2>1. Nothing \in stored'["place"]
    BY <1>7 DEF Stored
  <2>2. notice'[<<job[w].n, h.to>>] # "absent"
    BY <1>1, <1>3 DEF n
  <2>3. \A x \in Users : notice[<<job[w].n, x>>] # "absent" => notice'[<<job[w].n, x>>] # "absent"
    BY <1>1, <1>3 DEF n
  <2> QED BY <1>1, <1>2, <2>1, <2>2, <2>3, RestKnown
<1> QED BY <1>2, <1>3, <1>4, <1>5, <1>6, <1>7, <1>8, StoredStep

LEMMA PushStored ==
    ASSUME StoredInv, NEW w \in Slots, Push(w) PROVE StoredInv'
<1> DEFINE u == To(w)
           h == Head(job[w].todo)
           n == job[w].n
<1>1. /\ job[w].todo # <<>> /\ h.do = "push" /\ n \in Notices
      /\ u \in Users => notice[<<n, u>>] # "absent"
      /\ u = "rider" => "CONFIRMED" \in stored["status"]
  <2>1. job[w].todo # <<>> /\ h.do = "push"
    BY DEF Push, Doing
  <2>2. n \in Notices /\ (u \in Users => notice[<<n, u>>] # "absent")
    BY <2>1, StepFacts DEF StoredInv, Shape, Jobs, Known
  <2>3. ASSUME u = "rider" PROVE "CONFIRMED" \in stored["status"]
    <3>1. Left(job[w].todo, "push", "rider") > 0 /\ Left(job[w].todo, "write", "status") = 0
      BY <2>1, <2>3, StepFacts
    <3>2. job[w].value = "CONFIRMED" /\ Left(job[w].todo, "emit", "status") > 0
      BY <3>1 DEF StoredInv, Shape
    <3> QED BY <3>1, <3>2 DEF StoredInv, Known, Aspects
  <2> QED BY <2>1, <2>2, <2>3
<1>2. /\ pushed' = [c \in Clients |->
                      IF socket[c].at = job[w].at /\ "user" \in socket[c].rooms /\ viewer[c] = u
                      THEN pushed[c] \cup {n} ELSE pushed[c]]
      /\ job' = [job EXCEPT ![w] = Rest(w)]
      /\ UNCHANGED <<viewer, order, socket, shown, notice, calls, stored, doubt>>
  BY DEF Push, Advance
<1> HIDE DEF u, n
<1>3. /\ pushed' \in [Clients -> SUBSET Notices]
      /\ \A c \in Clients : \A m \in pushed'[c] : m \in pushed[c] \/ (m = n /\ viewer[c] = u)
  BY <1>1, <1>2 DEF StoredInv, TrackingTypes
<1>4. Shape(Rest(w)) /\ Rest(w) \in Jobs
  BY <1>1, RestShape, FreeShape DEF StoredInv, Shape
<1>5. job' \in [Slots -> Jobs] /\ job'[w] = Rest(w) /\ \A x \in Slots : x # w => job'[x] = job[x]
  BY <1>2, <1>4, Changes
<1>6. TrackingTypes'
  BY <1>2, <1>3, <1>5 DEF StoredInv, TrackingTypes
<1>7. Stored'
  BY <1>1, <1>2, <1>3 DEF StoredInv, Stored, Had
<1>8. Known(Rest(w), stored', notice')
  <2>1. Nothing \in stored'["place"]
    BY <1>7 DEF Stored
  <2> QED BY <1>1, <1>2, <2>1, RestKnown
<1> QED BY <1>2, <1>4, <1>5, <1>6, <1>7, <1>8, StoredStep

(* A page's load after it has read.                                        *)
LEMMA ReadJob ==
    ASSUME StoredInv, NEW w \in Slots, Doing(w, "read")
    PROVE  LET j == [Rest(w) EXCEPT !.read = order] IN
           /\ Shape(j) /\ Known(j, stored, notice)
           /\ j.op = "load" /\ job[w].op = "load" /\ j.page = job[w].page /\ j.page \in Clients /\ j.read = order
           /\ order # Blank
           /\ \A a \in Aspects : Left(j.todo, "emit", a) = 0 /\ Left(job[w].todo, "emit", a) = 0
<1> DEFINE o == job[w]
           j == [Rest(w) EXCEPT !.read = order]
           rest == Tail(Load)
<1>1. /\ o.todo = Load /\ o.op = "load" /\ o \in Jobs /\ o.page \in Clients
      /\ Load \in Seq(Steps) /\ Load # <<>> /\ Orderly(Load)
  <2>1. job[w].todo # <<>> /\ Head(job[w].todo).do = "read"
    BY DEF Doing
  <2>2. o.todo = Load /\ o.op = "load"
    BY <2>1, StepFacts
  <2> QED BY <2>2, LoadFits DEF StoredInv, Shape, Fits
<1>2. Rest(w) = [o EXCEPT !.todo = rest]
  <2>1. Len(o.todo) # 1
    <3>1. Len(Load) = 2 /\ o.todo = Load
      BY <1>1, Tails
    <3> QED BY <3>1
  <2> QED BY <1>1, <2>1 DEF Rest
<1>3. rest \in Seq(Steps) /\ Orderly(rest)
  BY <1>1, HeadTailProperties, TailOrderly
<1>4. \A x, y : Left(rest, x, y) = Is(Do("answer", "page"), x, y)
  BY Left1, Tails
<1>5. \A x, y : Left(Load, x, y) = Is(Do("read", "page"), x, y) + Is(Do("answer", "page"), x, y)
  BY Left2 DEF Load
<1>6. /\ \A a \in Aspects : Left(rest, "emit", a) = 0 /\ Left(Load, "emit", a) = 0 /\ Left(rest, "write", a) = 0
      /\ \A u \in Users : Left(rest, "push", u) = 0
      /\ Left(rest, "push", "rider") = 0
  BY <1>4, <1>5, IsDo DEF Aspects
<1>7. order # Blank /\ order \in [Aspects -> Shown] /\ \A a \in Aspects : order[a] \in stored[a]
  BY DEF StoredInv, Stored, TrackingTypes, Blank, Aspects
<1> HIDE DEF rest
<1>8. /\ j \in Jobs /\ j.todo = rest /\ j.op = "load" /\ j.page = o.page /\ j.read = order
  BY <1>1, <1>2, <1>3, <1>7 DEF Jobs
<1> HIDE DEF j
<1>9. Shape(j)
  BY <1>1, <1>3, <1>6, <1>7, <1>8 DEF Shape, Announces, rest, Aspects
<1>10. Known(j, stored, notice)
  BY <1>6, <1>7, <1>8 DEF Known, Had
<1> QED BY <1>1, <1>6, <1>7, <1>8, <1>9, <1>10 DEF j

LEMMA LoadStored ==
    ASSUME StoredInv, NEW w \in Slots, LoadRead(w) \/ LoadAnswer(w) PROVE StoredInv'
<1>1. CASE LoadRead(w)
  <2> DEFINE j == [Rest(w) EXCEPT !.read = order]
  <2>1. Doing(w, "read") /\ job' = [job EXCEPT ![w] = j]
        /\ UNCHANGED <<viewer, order, socket, shown, pushed, notice, calls, stored>>
        /\ doubt' \in [Clients -> SUBSET Aspects]
    BY <1>1 DEF LoadRead, StoredInv, TrackingTypes
  <2>2. Shape(j) /\ Known(j, stored, notice)
    BY <2>1, ReadJob
  <2> HIDE DEF j
  <2>3. /\ job' \in [Slots -> Jobs] /\ job'[w] = j /\ \A x \in Slots : x # w => job'[x] = job[x]
    BY <2>1, <2>2, Changes DEF Shape
  <2>4. TrackingTypes' /\ Stored'
    BY <2>1, <2>3 DEF StoredInv, TrackingTypes, Stored, Had
  <2> QED BY <2>1, <2>2, <2>3, <2>4, StoredStep
<1>2. CASE LoadAnswer(w)
  <2> DEFINE r == Rest(w)
             c == job[w].page
  <2>1. /\ shown' = [shown EXCEPT ![c] = job[w].read] /\ job' = [job EXCEPT ![w] = r]
        /\ UNCHANGED <<viewer, order, socket, pushed, notice, calls, stored, doubt>>
    BY <1>2 DEF LoadAnswer, Advance
  <2>2. job[w].todo # <<>> /\ Head(job[w].todo).do = "answer"
    BY <1>2 DEF LoadAnswer, Doing
  <2>3. c \in Clients /\ job[w].read \in [Aspects -> Shown] /\ \A a \in Aspects : job[w].read[a] \in Had(a, stored)
    BY <2>2, StepFacts DEF StoredInv, Shape, Known, Jobs
  <2>4. Nothing \in stored["place"]
    BY DEF StoredInv, Stored
  <2>5. Shape(r) /\ Known(r, stored, notice)
    BY <2>2, <2>4, RestShape, RestKnown, FreeShape DEF StoredInv
  <2> HIDE DEF r
  <2>6. /\ job' \in [Slots -> Jobs] /\ job'[w] = r /\ \A x \in Slots : x # w => job'[x] = job[x]
    BY <2>1, <2>5, Changes DEF Shape
  <2>7. TrackingTypes'
    BY <2>1, <2>3, <2>6 DEF StoredInv, TrackingTypes
  <2>8. Stored'
    BY <2>1, <2>3 DEF StoredInv, TrackingTypes, Stored, Had
  <2> QED BY <2>1, <2>5, <2>6, <2>7, <2>8, StoredStep
<1> QED BY <1>1, <1>2

LEMMA ThrowStored ==
    ASSUME StoredInv, NEW w \in Slots, Throw(w) PROVE StoredInv'
<1> DEFINE r == Recovery(w)
<1>1. /\ job' = [job EXCEPT ![w] = r]
      /\ UNCHANGED <<viewer, order, socket, shown, pushed, notice, calls, stored>>
      /\ doubt' \in [Clients -> SUBSET Aspects]
  BY DoubtType DEF Throw
<1>2. Shape(r) /\ Known(r, stored, notice)
  BY Recovers DEF Throw
<1> HIDE DEF r
<1>3. /\ job' \in [Slots -> Jobs] /\ job'[w] = r /\ \A x \in Slots : x # w => job'[x] = job[x]
  BY <1>1, <1>2, Changes DEF Shape
<1>4. TrackingTypes' /\ Stored'
  BY <1>1, <1>3 DEF StoredInv, TrackingTypes, Stored, Had
<1> QED BY <1>1, <1>2, <1>3, <1>4, StoredStep

LEMMA CrashStored ==
    ASSUME StoredInv, NEW p \in Processes, Crash(p) PROVE StoredInv'
<1>1. /\ \A v \in Slots : job'[v] = job[v] \/ job'[v] = Free
      /\ job' \in [Slots -> Jobs]
      /\ UNCHANGED <<viewer, order, shown, pushed, notice, stored>>
      /\ doubt' \in [Clients -> SUBSET Aspects] /\ calls' \in Notices
  <2>1. Free \in Jobs
    BY FreeShape DEF Shape
  <2>2. calls' \in Notices
    BY MaxCallsIsNat DEF Crash, Spend, StoredInv, TrackingTypes, Notices
  <2> QED BY <2>1, <2>2, DoubtType DEF Crash, StoredInv, TrackingTypes
<1>2. Shape(Free) /\ Known(Free, stored', notice')
  BY <1>1, FreeShape DEF StoredInv, Stored
<1>3. TrackingTypes' /\ Stored'
  BY <1>1 DEF StoredInv, TrackingTypes, Stored, Had
<1>4. \A v \in Slots : job'[v] = job[v] \/ (Shape(job'[v]) /\ Known(job'[v], stored', notice'))
  BY <1>1, <1>2
<1> QED BY <1>1, <1>3, <1>4, StoredStep

(* What clients, riders and users do.                                      *)
LEMMA OthersStored ==
    ASSUME StoredInv,
           \/ \E c \in Clients : ClientStep(c)
           \/ \E p \in Processes, place \in Places : DeliveryLocation(p, place)
           \/ \E r \in DOMAIN notice : MarkAsRead(r) \/ DeleteNotification(r)
           \/ \E u \in Users : MarkAllAsRead(u)
    PROVE  StoredInv'
<1>1. CASE \E c \in Clients : ClientStep(c)
  <2>1. /\ UNCHANGED <<viewer, order, shown, pushed, notice, job, stored, doubt>>
        /\ calls' = calls \/ Spend
    BY <1>1 DEF ClientStep, Connect, Join, LeaveOrderRoom, Disconnect
  <2>2. calls' \in Notices
    BY <2>1, MaxCallsIsNat DEF Spend, StoredInv, TrackingTypes, Notices
  <2>3. TrackingTypes' /\ Stored'
    BY <2>1, <2>2 DEF StoredInv, TrackingTypes, Stored, Had
  <2> QED BY <2>1, <2>3, StoredStep
<1>2. CASE \E p \in Processes, place \in Places : DeliveryLocation(p, place)
  <2>1. PICK p \in Processes, place \in Places : DeliveryLocation(p, place)
    BY <1>2
  <2> DEFINE heard == {c \in Clients : Hears(c, p, "place")}
  <2>2. /\ shown' = [c \in Clients |-> IF c \in heard THEN [shown[c] EXCEPT !["place"] = place] ELSE shown[c]]
        /\ stored' = [stored EXCEPT !["place"] = stored["place"] \cup {place}]
        /\ UNCHANGED <<viewer, order, socket, pushed, notice, job>>
        /\ doubt' \in [Clients -> SUBSET Aspects] /\ Spend
    BY <2>1, DoubtType DEF DeliveryLocation, Aspects
  <2> HIDE DEF heard
  <2>3. calls' \in Notices
    BY <2>2, MaxCallsIsNat DEF Spend, StoredInv, TrackingTypes, Notices
  <2>4. "place" \in Aspects /\ "status" \in Aspects /\ place \in Shown /\ \A a \in Aspects : a # "place" => a = "status"
    BY DEF Aspects, Shown
  <2>5. /\ stored' \in [Aspects -> SUBSET Shown] /\ shown' \in [Clients -> [Aspects -> Shown]]
        /\ stored'["place"] = stored["place"] \cup {place} /\ stored'["status"] = stored["status"]
        /\ \A c \in Clients : \A a \in Aspects :
              shown'[c][a] = shown[c][a] \/ (a = "place" /\ shown'[c][a] = place)
    BY <2>2, <2>4 DEF StoredInv, TrackingTypes
  <2>6. TrackingTypes'
    BY <2>2, <2>3, <2>5 DEF StoredInv, TrackingTypes
  <2>7. \A a \in Aspects : stored[a] \subseteq stored'[a]
    BY <2>4, <2>5
  <2>8. Stored'
    <3>1. \A c \in Clients : \A a \in Aspects : shown'[c][a] \in Had(a, stored')
      BY <2>4, <2>5, <2>7 DEF StoredInv, Stored, Had
    <3>2. \A a \in Aspects : order'[a] \in stored'[a]
      BY <2>2, <2>7 DEF StoredInv, Stored
    <3> QED BY <2>2, <2>5, <3>1, <3>2 DEF StoredInv, Stored, Had
  <2> QED BY <2>2, <2>6, <2>7, <2>8, StoredStep
<1>3. CASE \/ \E r \in DOMAIN notice : MarkAsRead(r) \/ DeleteNotification(r)
           \/ \E u \in Users : MarkAllAsRead(u)
  <2>1. UNCHANGED <<viewer, order, socket, shown, pushed, job, stored, doubt>> /\ Spend
    BY <1>3 DEF MarkAsRead, DeleteNotification, MarkAllAsRead
  <2>2. calls' \in Notices
    BY <2>1, MaxCallsIsNat DEF Spend, StoredInv, TrackingTypes, Notices
  <2>3. /\ notice' \in [Notices \X Users -> {"absent", "unread", "read", "deleted"}]
        /\ \A r \in Notices \X Users : notice[r] # "absent" => notice'[r] # "absent"
    <3>1. notice \in [Notices \X Users -> {"absent", "unread", "read", "deleted"}]
      BY DEF StoredInv, TrackingTypes
    <3> QED BY <1>3, <3>1 DEF MarkAsRead, DeleteNotification, MarkAllAsRead
  <2>4. TrackingTypes'
    BY <2>1, <2>2, <2>3 DEF StoredInv, TrackingTypes
  <2>5. Stored'
    <3>1. ASSUME NEW c \in Clients, viewer'[c] \in Users, NEW m \in pushed'[c] PROVE notice'[<<m, viewer'[c]>>] # "absent"
      <4>1. m \in pushed[c] /\ m \in Notices /\ viewer[c] \in Users /\ viewer' = viewer
        BY <2>1, <3>1 DEF StoredInv, TrackingTypes
      <4> QED BY <2>3, <4>1 DEF StoredInv, Stored
    <3> QED BY <2>1, <3>1 DEF StoredInv, Stored, Had
  <2> QED BY <2>1, <2>3, <2>4, <2>5, StoredStep
<1> QED BY <1>1, <1>2, <1>3

-----------------------------------------------------------------------------
(* The first request is the customer's, who has placed the order.          *)
LEMMA PlacedShape ==
    ASSUME NEW p \in Processes, NEW todo \in {Placed, PlacedAssigned}
    PROVE  LET j == [Free EXCEPT !.op = "placed", !.todo = todo, !.at = p, !.value = "CONFIRMED"] IN
           /\ Shape(j) /\ j \in Jobs /\ j.op = "placed" /\ j.todo = todo
           /\ j.page = Nothing /\ j.read = Blank
           /\ \A values, notices : Nothing \in values["place"] => Known(j, values, notices)
<1> DEFINE j == [Free EXCEPT !.op = "placed", !.todo = todo, !.at = p, !.value = "CONFIRMED"]
<1>1. Begins(todo) /\ todo \in Seq(Steps)
  BY BeginsPlaced, BeginsPlacedAssigned DEF Begins, Fits
<1>2. Free \in Jobs /\ Free.read = Blank /\ Free.page = Nothing
  BY FreeShape DEF Shape
<1>3. "CONFIRMED" \in OrderStatus /\ "CONFIRMED" \in Shown /\ "placed" \in Ops
  BY DEF OrderStatus, Shown, Ops
<1>4. /\ j \in Jobs /\ j.op = "placed" /\ j.todo = todo /\ j.value = "CONFIRMED"
      /\ j.page = Nothing /\ j.read = Blank
  BY <1>1, <1>2, <1>3 DEF Jobs
<1>5. \A x, y : Left(todo, x, y) \in Nat
  BY <1>1, LeftNone
<1> DEFINE k == Len(todo)
<1>6. k > 3 => todo = PlacedAssigned
  <2>1. todo # PlacedAssigned => k = 2
    <3>1. Len(Placed) = 2
      BY DEF Placed
    <3> QED BY <3>1, Zenon
  <2> HIDE DEF k
  <2> QED BY <2>1
<1> HIDE DEF j, k
<1>7. Shape(j)
  <2>1. Left(todo, "push", "rider") > 0 => Left(todo, "emit", "status") > 0
    BY <1>1, <1>5 DEF Begins, Fits
  <2> QED BY <1>1, <1>3, <1>4, <1>6, <2>1 DEF Shape, Begins, Fits, k
<1>8. ASSUME NEW values, NEW notices, Nothing \in values["place"]
      PROVE  Known(j, values, notices)
  <2>1. \A a \in Aspects : Blank[a] \in Had(a, values)
    BY <1>8 DEF Had, Blank, Aspects
  <2> QED BY <1>1, <1>4, <1>5, <2>1 DEF Known, Begins, Fits
<1> QED BY <1>4, <1>7, <1>8 DEF j

LEMMA StoredInit == TrackingInit => StoredInv
<1> SUFFICES ASSUME TrackingInit PROVE StoredInv
  OBVIOUS
<1>1. PICK x \in Slots, p \in Processes, todo \in {Placed, PlacedAssigned}, s \in {"PENDING", "CONFIRMED"} :
          /\ order = [status |-> s, place |-> Nothing]
          /\ stored = [status |-> {s}, place |-> {Nothing}]
          /\ job = [[v \in Slots |-> Free] EXCEPT ![x] =
                       [Free EXCEPT !.op = "placed", !.todo = todo, !.at = p, !.value = "CONFIRMED"]]
  BY DEF TrackingInit
<1> DEFINE j == [Free EXCEPT !.op = "placed", !.todo = todo, !.at = p, !.value = "CONFIRMED"]
<1>2. Shape(j) /\ j \in Jobs /\ Nothing \in stored["place"] => Known(j, stored, notice)
  BY PlacedShape
<1>3. Shape(j) /\ j \in Jobs
  BY PlacedShape
<1>4. job = [[v \in Slots |-> Free] EXCEPT ![x] = j]
  BY <1>1
<1> HIDE DEF j
<1>5. Free \in Jobs
  BY FreeShape DEF Shape
<1>6. job \in [Slots -> Jobs] /\ \A v \in Slots : job[v] \in {Free, j}
  BY <1>3, <1>4, <1>5
<1>7. /\ order["status"] = s /\ order["place"] = Nothing /\ order \in [Aspects -> Shown]
      /\ stored["status"] = {s} /\ stored["place"] = {Nothing} /\ stored \in [Aspects -> SUBSET Shown]
      /\ Blank \in [Aspects -> Shown] /\ Blank["status"] = Nothing /\ Blank["place"] = Nothing
  BY <1>1 DEF Aspects, Shown, OrderStatus, Blank
<1> HIDE DEF Blank
<1>8. TrackingTypes
  <2>1. 0 \in Notices
    BY MaxCallsIsNat DEF Notices
  <2>2. notice \in [Notices \X Users -> {"absent", "unread", "read", "deleted"}]
    BY DEF TrackingInit, Notices
  <2>3. viewer \in [Clients -> People]
    BY ViewersArePeople DEF TrackingInit, People
  <2> QED BY <1>6, <1>7, <2>1, <2>2, <2>3 DEF TrackingInit, TrackingTypes
<1>9. Stored
  <2>1. Nothing # s
    BY NothingIsNone DEF OrderStatus
  <2>2. \A a \in Aspects : a = "status" \/ a = "place"
    BY DEF Aspects
  <2>3. \A c \in Clients : shown[c] = Blank /\ pushed[c] = {}
    BY DEF TrackingInit
  <2> QED BY <1>7, <2>1, <2>2, <2>3 DEF Stored, Had
<1>10. \A v \in Slots : Shape(job[v]) /\ Known(job[v], stored, notice)
  BY <1>2, <1>3, <1>6, <1>9, FreeShape DEF Stored
<1> QED BY <1>8, <1>9, <1>10 DEF StoredInv

LEMMA StoredNext == StoredInv /\ [TrackingNext]_tracked => StoredInv'
<1> SUFFICES ASSUME StoredInv, [TrackingNext]_tracked PROVE StoredInv'
  OBVIOUS
<1>1. ASSUME NEW w \in Slots, HandlerStep(w) \/ LoadRead(w) \/ LoadAnswer(w) \/ \E c \in Clients : LoadBegin(w, c)
      PROVE  StoredInv'
  <2>1. CASE Handle(w) \/ HandleCancel(w) \/ HandleNewProduct(w) \/ \E c \in Clients : LoadBegin(w, c)
    BY <2>1, Comers, ComesStored
  <2>2. CASE WriteRow(w)
    BY <2>2, WriteStored
  <2>3. CASE Emit(w)
    BY <2>3, EmitStored
  <2>4. CASE CreateNotice(w)
    BY <2>4, NoticeStored
  <2>5. CASE Push(w)
    BY <2>5, PushStored
  <2>6. CASE Throw(w)
    BY <2>6, ThrowStored
  <2>7. CASE LoadRead(w) \/ LoadAnswer(w)
    BY <2>7, LoadStored
  <2> QED BY <1>1, <2>1, <2>2, <2>3, <2>4, <2>5, <2>6, <2>7 DEF HandlerStep
<1>2. CASE \/ \E c \in Clients : ClientStep(c)
           \/ \E p \in Processes, place \in Places : DeliveryLocation(p, place)
           \/ \E r \in DOMAIN notice : MarkAsRead(r) \/ DeleteNotification(r)
           \/ \E u \in Users : MarkAllAsRead(u)
  BY <1>2, OthersStored
<1>3. CASE \E p \in Processes : Crash(p)
  BY <1>3, CrashStored
<1>4. CASE UNCHANGED tracked
  BY <1>4 DEF tracked, StoredInv, TrackingTypes, Stored, Had, Known, Shape, Pageless, Announces, Orderly
<1> QED BY <1>1, <1>2, <1>3, <1>4 DEF TrackingNext

(* The inductive invariant: every state keeps what a handler has stored    *)
(* ahead of what it has yet to announce and to push, errors that handlers  *)
(* catch and crashes between two of their steps included.                  *)
THEOREM StoredInvariance == TrackingSpec => []StoredInv
<1>1. TrackingInit => StoredInv
  BY StoredInit
<1>2. StoredInv /\ [TrackingNext]_tracked => StoredInv'
  BY StoredNext
<1> QED BY <1>1, <1>2, PTL DEF TrackingSpec

LEMMA StoredIsFirst == StoredInv => StoredFirst
<1> SUFFICES ASSUME StoredInv PROVE StoredFirst
  OBVIOUS
<1>1. ASSUME NEW c \in Clients
      PROVE  /\ shown[c]["status"] \in stored["status"] \cup {Nothing}
             /\ shown[c]["place"] \in stored["place"]
             /\ viewer[c] \in Users => \A n \in pushed[c] : notice[<<n, viewer[c]>>] # "absent"
             /\ viewer[c] = "rider" /\ pushed[c] # {} => "CONFIRMED" \in stored["status"]
  BY DEF StoredInv, Stored, Had, Aspects
<1> QED BY <1>1 DEF StoredFirst

(* Nothing is announced that cannot be looked up: updateOrderStatus,       *)
(* createOrder and the other handlers update the order, add the position   *)
(* or create the Notification row before they emit it; a rider, for whom   *)
(* no row is written, is told after the order is CONFIRMED.                *)
THEOREM NothingToldUnstored == TrackingSpec => []StoredFirst
<1> QED BY StoredInvariance, StoredIsFirst, PTL

-----------------------------------------------------------------------------
(* A screen that is not in doubt.                                          *)
OneLoad == \A v, w \in Slots : job[v].op = "load" /\ job[w].op = "load" /\ job[v].page = job[w].page => v = w

(* Who has still to announce an aspect announces what is stored; when no   *)
(* one has, the screen shows it or the answer on its way to it does.       *)
Agrees(c, a) ==
    /\ \A v \in Slots : Owes(v, a) => job[v].value = order[a]
    /\ (\A v \in Slots : ~Owes(v, a)) =>
           IF Loading(c) = {} THEN shown[c][a] = order[a]
                              ELSE \A l \in Loading(c) : job[l].read[a] = order[a]

Current == \A c \in Clients : \A a \in Aspects \ doubt[c] : Agrees(c, a)

CurrentInv == StoredInv /\ OneLoad /\ Current

(* Screen c and its aspect a do not see the difference of the requests.    *)
Owing(j, a) == Left(j.todo, "emit", a) > Left(j.todo, "write", a)
Alike(j, k, c, a) ==
    /\ Owing(j, a) <=> Owing(k, a)
    /\ Owing(k, a) => k.value = j.value
    /\ \/ k.page = j.page /\ k.read = j.read
       \/ (k.page # c \/ k.read = Blank) /\ (j.page # c \/ j.read = Blank)

LEMMA OneLoadStep ==
    ASSUME OneLoad,
           \A v \in Slots : job'[v].op = "load" => job[v].op = "load" /\ job'[v].page = job[v].page
    PROVE  OneLoad'
  BY DEF OneLoad

LEMMA Still ==
    ASSUME NEW c \in Clients, NEW a \in Aspects, Agrees(c, a),
           \A v \in Slots : Alike(job[v], job'[v], c, a),
           order'[a] = order[a], shown'[c][a] = shown[c][a]
    PROVE  Agrees(c, a)'
<1>1. \A v \in Slots : Owes(v, a) = Owing(job[v], a) /\ Owes(v, a)' = Owing(job'[v], a)
  BY DEF Owes, Owing
<1>2. \A v \in Slots : Owes(v, a)' => Owes(v, a) /\ job'[v].value = job[v].value
  BY <1>1 DEF Alike
<1>3. (\A v \in Slots : ~Owes(v, a)') => \A v \in Slots : ~Owes(v, a)
  BY <1>1 DEF Alike
<1>4. \A v \in Slots : v \in Loading(c)' <=> v \in Loading(c)
  BY DEF Alike, Loading
<1>5. Loading(c)' = Loading(c)
  BY <1>4 DEF Loading
<1>6. \A l \in Loading(c) : job'[l].read = job[l].read
  BY DEF Alike, Loading
<1> QED BY <1>2, <1>3, <1>5, <1>6 DEF Agrees

LEMMA SameAlike == ASSUME NEW j, NEW c, NEW a PROVE Alike(j, j, c, a)
  BY DEF Alike

(* Who has no page does not load it.                                       *)
LEMMA LoadsPages ==
    ASSUME StoredInv, NEW w \in Slots, job[w].op # "load" PROVE job[w].read = Blank /\ job[w].page = Nothing
  BY DEF StoredInv, Shape

LEMMA RestAlike ==
    ASSUME StoredInv, NEW w \in Slots, job[w].todo # <<>>, NEW c \in Clients, NEW a \in Aspects,
           Head(job[w].todo).do # "read",
           Head(job[w].todo) # Do("emit", a), Head(job[w].todo) # Do("write", a),
           job[w].op = "load" => job[w].page # c
    PROVE  Alike(job[w], Rest(w), c, a)
<1> DEFINE j == job[w]
           r == Rest(w)
           h == Head(job[w].todo)
<1>1. /\ \A x, y : Left(j.todo, x, y) = Is(h, x, y) + Left(r.todo, x, y)
      /\ \/ r = Free
         \/ r.value = j.value /\ r.read = j.read /\ r.page = j.page
      /\ Shape(r) /\ Shape(j)
  BY RestShape, FreeShape DEF StoredInv
<1>2. \A x, y : Left(r.todo, x, y) \in Nat
  BY <1>1, LeftNone DEF Shape, Jobs
<1>3. Left(j.todo, "emit", a) = Left(r.todo, "emit", a) /\ Left(j.todo, "write", a) = Left(r.todo, "write", a)
  BY <1>1, <1>2 DEF Is
<1>4. j.page # c \/ j.read = Blank
  BY LoadsPages
<1>5. r = Free => ~Owing(r, a) /\ r.read = Blank
  BY FreeShape DEF Owing
<1>6. r = Free \/ (r.value = j.value /\ r.read = j.read /\ r.page = j.page)
  BY <1>1
<1>7. Owing(j, a) <=> Owing(r, a)
  BY <1>3 DEF Owing
<1>8. Alike(j, r, c, a)
  <2> HIDE DEF j, r
  <2>1. CASE r = Free
    BY <1>4, <1>5, <1>7, <2>1 DEF Alike
  <2>2. CASE r # Free
    BY <1>6, <1>7, <2>2 DEF Alike
  <2> QED BY <2>1, <2>2
<1> QED BY <1>8

LEMMA ComesCurrent ==
    ASSUME CurrentInv, NEW w \in Slots, NEW j, Comes(w, j) PROVE OneLoad' /\ Current'
<1>1. /\ job[w] = Free /\ Shape(j) /\ j \in Jobs /\ j.read = Blank /\ UNCHANGED <<order, shown, doubt>>
      /\ job' \in [Slots -> Jobs] /\ job'[w] = j /\ \A v \in Slots : v # w => job'[v] = job[v]
  BY Changes DEF Comes, Shape, CurrentInv
<1>2. OneLoad'
  <2>1. j.op = "load" => \A v \in Slots : job[v].page # j.page
    BY DEF Comes
  <2> QED BY <1>1, <2>1 DEF CurrentInv, OneLoad
<1>3. ASSUME NEW c \in Clients, NEW a \in Aspects \ doubt[c] PROVE Agrees(c, a)'
  <2>1. ~Owing(j, a) /\ ~Owing(Free, a)
    <3>1. Left(j.todo, "emit", a) <= Left(j.todo, "write", a)
      BY DEF Comes
    <3>2. Left(j.todo, "emit", a) \in Nat /\ Left(j.todo, "write", a) \in Nat
      BY <1>1, LeftNone DEF Jobs
    <3> QED BY <3>1, <3>2, FreeShape DEF Owing
  <2>2. Alike(job[w], job'[w], c, a)
    BY <1>1, <2>1, FreeShape DEF Alike
  <2>3. \A v \in Slots : Alike(job[v], job'[v], c, a)
    BY <1>1, <2>2, SameAlike
  <2> QED BY <1>1, <1>3, <2>3, Still DEF CurrentInv, Current
<1> QED BY <1>1, <1>2, <1>3 DEF Current

(* A step that is not a page's leaves the loads alone.                     *)
LEMMA RestOneLoad ==
    ASSUME CurrentInv, NEW w \in Slots, job[w].todo # <<>>, Head(job[w].todo).do # "read", Advance(w)
    PROVE  OneLoad' /\ job'[w] = Rest(w) /\ \A v \in Slots : v # w => job'[v] = job[v]
<1>1. Shape(Rest(w)) /\ Rest(w).op # "load" /\ job' = [job EXCEPT ![w] = Rest(w)]
  BY RestShape, FreeShape DEF CurrentInv, StoredInv, Advance
<1>2. job'[w] = Rest(w) /\ \A v \in Slots : v # w => job'[v] = job[v]
  BY <1>1, Changes DEF CurrentInv, Shape
<1> QED BY <1>1, <1>2, OneLoadStep DEF CurrentInv

LEMMA WriteCurrent ==
    ASSUME CurrentInv, NEW w \in Slots, WriteRow(w) PROVE OneLoad' /\ Current'
<1> DEFINE b == To(w)
           o == job[w]
           h == Head(job[w].todo)
           r == Rest(w)
           who == IF Left(o.todo, "emit", b) = 0 \/ \E v \in Slots \ {w} : Owes(v, b) THEN Clients ELSE {}
<1>1. /\ o.todo # <<>> /\ h.do = "write" /\ b \in Aspects /\ h = Do("write", b) /\ o.op # "load"
      /\ Left(o.todo, "write", b) > 0
  <2>1. o.todo # <<>> /\ h.do = "write"
    BY DEF WriteRow, Doing
  <2> QED BY <2>1, StepFacts DEF CurrentInv
<1>2. /\ order' = [order EXCEPT ![b] = o.value] /\ shown' = shown /\ Advance(w)
      /\ doubt' = [c \in Clients |-> IF c \in who THEN doubt[c] \cup {b} ELSE doubt[c]]
  BY DEF WriteRow, Doubt
<1>3. OneLoad' /\ job'[w] = r /\ \A v \in Slots : v # w => job'[v] = job[v]
  BY <1>1, <1>2, RestOneLoad
<1>4. order'[b] = o.value /\ \A a \in Aspects : a # b => order'[a] = order[a]
  BY <1>1, <1>2 DEF CurrentInv, StoredInv, TrackingTypes
<1>5. ASSUME NEW c \in Clients, NEW a \in Aspects \ doubt'[c] PROVE Agrees(c, a)'
  <2>1. a \notin doubt[c]
    BY <1>2, <1>5
  <2>2. CASE a # b
    <3>1. h # Do("emit", a) /\ h # Do("write", a)
      BY <1>1, <2>2 DEF Do
    <3>2. Alike(o, r, c, a)
      BY <1>1, <3>1, RestAlike DEF CurrentInv
    <3>3. \A v \in Slots : Alike(job[v], job'[v], c, a)
      BY <1>3, <3>2, SameAlike
    <3> QED BY <1>2, <1>4, <2>1, <2>2, <3>3, Still DEF CurrentInv, Current
  <2>3. CASE a = b
    <3>1. c \notin who
      BY <1>2, <1>5, <2>3
    <3>2. Left(o.todo, "emit", b) # 0 /\ \A v \in Slots \ {w} : ~Owes(v, b)
      BY <3>1
    <3>3. /\ Left(o.todo, "emit", b) = Left(r.todo, "emit", b)
          /\ Left(o.todo, "write", b) = 1 + Left(r.todo, "write", b)
          /\ r = Free \/ r.value = o.value
          /\ Shape(r) /\ Shape(o)
      <4>1. /\ \A x, y : Left(o.todo, x, y) = Is(h, x, y) + Left(r.todo, x, y)
            /\ r = Free \/ r.value = o.value
            /\ Shape(r) /\ Shape(o)
        BY <1>1, RestShape, FreeShape DEF CurrentInv, StoredInv
      <4>2. \A x, y : Left(r.todo, x, y) \in Nat
        BY <4>1, LeftNone DEF Shape, Jobs
      <4>3. Is(h, "emit", b) = 0 /\ Is(h, "write", b) = 1
        BY <1>1, IsDo
      <4> QED BY <4>1, <4>2, <4>3
    <3>4. Left(o.todo, "emit", b) \in Nat /\ Left(o.todo, "write", b) \in Nat /\ Left(r.todo, "write", b) \in Nat
      BY <3>3, LeftNone DEF Shape, Jobs
    <3>5. Left(o.todo, "emit", b) >= Left(o.todo, "write", b)
      BY <1>1, <3>2, <3>3, <3>4 DEF Shape, Announces
    <3>6. Owing(r, b) /\ r.value = o.value
      BY <3>2, <3>3, <3>4, <3>5, FreeShape DEF Owing
    <3>7. /\ Owing(job'[w], a) /\ job'[w].value = order'[a]
          /\ \A v \in Slots : v # w => ~Owing(job'[v], a)
      BY <1>3, <1>4, <2>3, <3>2, <3>6 DEF Owes, Owing
    <3>8. Owes(w, a)' /\ \A v \in Slots : Owes(v, a)' => v = w
      BY <3>7 DEF Owes, Owing
    <3> QED BY <3>7, <3>8 DEF Agrees
  <2> QED BY <2>2, <2>3
<1> QED BY <1>3, <1>5 DEF Current

LEMMA EmitCurrent ==
    ASSUME CurrentInv, NEW w \in Slots, Emit(w) PROVE OneLoad' /\ Current'
<1> DEFINE b == To(w)
           o == job[w]
           h == Head(job[w].todo)
           r == Rest(w)
           x == job[w].value
           heard == {c \in Clients : Hears(c, job[w].at, b)}
           who == {c \in Clients : c \notin heard \/ \E l \in Loading(c) : job[l].read[b] # x}
<1>1. /\ o.todo # <<>> /\ h.do = "emit" /\ b \in Aspects /\ h = Do("emit", b) /\ o.op # "load"
      /\ Left(o.todo, "emit", b) > 0 /\ Left(o.todo, "write", b) = 0
  <2>1. o.todo # <<>> /\ h.do = "emit"
    BY DEF Emit, Doing
  <2> QED BY <2>1, StepFacts DEF CurrentInv
<1>2. /\ shown' = [c \in Clients |-> IF c \in heard THEN [shown[c] EXCEPT ![b] = x] ELSE shown[c]]
      /\ order' = order /\ Advance(w)
      /\ doubt' = [c \in Clients |-> IF c \in who THEN doubt[c] \cup {b} ELSE doubt[c]]
  BY DEF Emit, Doubt
<1> HIDE DEF heard
<1>3. OneLoad' /\ job'[w] = r /\ \A v \in Slots : v # w => job'[v] = job[v]
  BY <1>1, <1>2, RestOneLoad
<1>4. \A c \in Clients : /\ \A a \in Aspects : a # b => shown'[c][a] = shown[c][a]
                         /\ c \in heard => shown'[c][b] = x
  BY <1>1, <1>2 DEF CurrentInv, StoredInv, TrackingTypes
<1>5. ASSUME NEW c \in Clients, NEW a \in Aspects \ doubt'[c] PROVE Agrees(c, a)'
  <2>1. a \notin doubt[c] /\ Agrees(c, a)
    BY <1>2, <1>5 DEF CurrentInv, Current
  <2>2. CASE a # b
    <3>1. h # Do("emit", a) /\ h # Do("write", a)
      BY <1>1, <2>2 DEF Do
    <3>2. Alike(o, r, c, a)
      BY <1>1, <3>1, RestAlike DEF CurrentInv
    <3>3. \A v \in Slots : Alike(job[v], job'[v], c, a)
      BY <1>3, <3>2, SameAlike
    <3> QED BY <1>2, <1>4, <2>1, <2>2, <3>3, Still
  <2>3. CASE a = b
    <3>1. c \notin who
      BY <1>2, <1>5, <2>3
    <3>2. c \in heard /\ \A l \in Loading(c) : job[l].read[b] = x
      BY <3>1
    <3>3. x = order[b]
      <4>1. Owes(w, b)
        BY <1>1 DEF Owes
      <4> QED BY <2>1, <2>3, <4>1 DEF Agrees
    <3>4. (r = Free \/ (r.value = x /\ r.read = o.read /\ r.page = o.page)) /\ o.read = Blank
      BY <1>1, RestShape, FreeShape, LoadsPages DEF CurrentInv, StoredInv
    <3>5. \A v \in Slots : Owes(v, a)' => job'[v].value = order'[a]
      <4>1. ~Owing(Free, a)
        BY FreeShape DEF Owing
      <4>2. Owes(w, a)' => job'[w].value = order'[a]
        BY <1>2, <1>3, <2>3, <3>3, <3>4, <4>1 DEF Owes, Owing
      <4>3. \A v \in Slots : v # w => (Owes(v, a)' => job'[v].value = order'[a])
        BY <1>2, <1>3, <2>1, <2>3 DEF Owes, Agrees
      <4> QED BY <4>2, <4>3
    <3>6. \A l \in Slots : l \in Loading(c)' => l # w /\ l \in Loading(c) /\ job'[l] = job[l]
      BY <1>3, <3>4, FreeShape DEF Loading
    <3>7. \A l \in Loading(c)' : job'[l].read[a] = order'[a]
      BY <1>2, <2>3, <3>2, <3>3, <3>6 DEF Loading
    <3>8. shown'[c][a] = order'[a]
      BY <1>2, <1>4, <2>3, <3>2, <3>3
    <3> QED BY <3>5, <3>7, <3>8 DEF Agrees
  <2> QED BY <2>2, <2>3
<1> QED BY <1>3, <1>5 DEF Current

LEMMA NoticeCurrent ==
    ASSUME CurrentInv, NEW w \in Slots, CreateNotice(w) \/ Push(w) PROVE OneLoad' /\ Current'
<1> DEFINE h == Head(job[w].todo)
<1>1. job[w].todo # <<>> /\ h.do \in {"notice", "push"} /\ Advance(w) /\ UNCHANGED <<order, shown, doubt>>
  BY DEF CreateNotice, Push, Doing
<1>2. job[w].op # "load"
  BY <1>1, StepFacts DEF CurrentInv
<1>3. OneLoad' /\ job'[w] = Rest(w) /\ \A v \in Slots : v # w => job'[v] = job[v]
  BY <1>1, RestOneLoad
<1>4. ASSUME NEW c \in Clients, NEW a \in Aspects \ doubt[c] PROVE Agrees(c, a)'
  <2>1. h # Do("emit", a) /\ h # Do("write", a)
    BY <1>1 DEF Do
  <2>2. Alike(job[w], Rest(w), c, a)
    BY <1>1, <1>2, <2>1, RestAlike DEF CurrentInv
  <2>3. \A v \in Slots : Alike(job[v], job'[v], c, a)
    BY <1>3, <2>2, SameAlike
  <2> QED BY <1>1, <1>4, <2>3, Still DEF CurrentInv, Current
<1> QED BY <1>1, <1>3, <1>4 DEF Current

LEMMA ReadCurrent ==
    ASSUME CurrentInv, NEW w \in Slots, LoadRead(w) PROVE OneLoad' /\ Current'
<1> DEFINE j == [Rest(w) EXCEPT !.read = order]
           page == job[w].page
<1>1. Doing(w, "read")
  BY DEF LoadRead
<1>2. /\ Shape(j) /\ j.op = "load" /\ job[w].op = "load" /\ j.page = page /\ page \in Clients
      /\ j.read = order /\ order # Blank
      /\ \A a \in Aspects : Left(j.todo, "emit", a) = 0 /\ Left(job[w].todo, "emit", a) = 0
  BY <1>1, ReadJob DEF CurrentInv
<1>3. /\ job' = [job EXCEPT ![w] = j] /\ UNCHANGED <<order, shown>>
      /\ doubt' = [doubt EXCEPT ![page] = {a \in Aspects : \E v \in Slots : Owes(v, a) /\ job[v].value # order[a]}]
  BY DEF LoadRead
<1> HIDE DEF j, page
<1>4. job'[w] = j /\ \A v \in Slots : v # w => job'[v] = job[v]
  BY <1>2, <1>3, Changes DEF CurrentInv, Shape
<1>5. OneLoad'
  BY <1>2, <1>4, OneLoadStep DEF CurrentInv, page
<1>6. /\ doubt'[page] = {a \in Aspects : \E v \in Slots : Owes(v, a) /\ job[v].value # order[a]}
      /\ \A c \in Clients : c # page => doubt'[c] = doubt[c]
  BY <1>2, <1>3 DEF CurrentInv, StoredInv, TrackingTypes
<1>7. \A a \in Aspects : ~Owing(j, a) /\ ~Owing(job[w], a)
  <2>1. Shape(job[w])
    BY DEF CurrentInv, StoredInv
  <2>2. \A x, y : Left(j.todo, x, y) \in Nat /\ Left(job[w].todo, x, y) \in Nat
    BY <1>2, <2>1, LeftNone DEF Shape, Jobs
  <2> QED BY <1>2, <2>2 DEF Owing
<1>8. ASSUME NEW c \in Clients, NEW a \in Aspects \ doubt'[c] PROVE Agrees(c, a)'
  <2>1. CASE c # page
    <3>1. Alike(job[w], j, c, a)
      BY <1>2, <1>7, <2>1 DEF Alike, page
    <3>2. \A v \in Slots : Alike(job[v], job'[v], c, a)
      BY <1>4, <3>1, SameAlike
    <3> QED BY <1>3, <1>6, <1>8, <2>1, <3>2, Still DEF CurrentInv, Current
  <2>2. CASE c = page
    <3>1. \A v \in Slots : Owes(v, a) => job[v].value = order[a]
      BY <1>6, <1>8, <2>2
    <3>2. \A v \in Slots : Owes(v, a)' => job'[v].value = order'[a]
      BY <1>3, <1>4, <1>7, <3>1 DEF Owes, Owing
    <3>3. w \in Loading(c)'
      BY <1>2, <1>4, <2>2 DEF Loading
    <3>4. ASSUME NEW l \in Loading(c)' PROVE l = w
      <4>1. l \in Slots /\ job'[l].page = c /\ job'[l].read # Blank
        BY <3>4 DEF Loading
      <4>2. l # w => job[l].op = "load" /\ job[l].page = c
        BY <1>4, <4>1, LoadsPages DEF CurrentInv
      <4> QED BY <1>2, <2>2, <4>1, <4>2 DEF CurrentInv, OneLoad, page
    <3>5. \A l \in Loading(c)' : job'[l].read[a] = order'[a]
      BY <1>2, <1>3, <1>4, <3>4
    <3> QED BY <3>2, <3>3, <3>5 DEF Agrees
  <2> QED BY <2>1, <2>2
<1> QED BY <1>5, <1>8 DEF Current

LEMMA AnswerCurrent ==
    ASSUME CurrentInv, NEW w \in Slots, LoadAnswer(w) PROVE OneLoad' /\ Current'
<1> DEFINE page == job[w].page
           h == Head(job[w].todo)
<1>1. job[w].todo # <<>> /\ h.do = "answer" /\ Advance(w) /\ UNCHANGED <<order, doubt>>
      /\ shown' = [shown EXCEPT ![page] = job[w].read]
  BY DEF LoadAnswer, Doing
<1>2. job[w].op = "load" /\ job[w].read # Blank /\ page \in Clients
  BY <1>1, StepFacts DEF CurrentInv, StoredInv, Shape
<1>3. OneLoad' /\ job'[w] = Rest(w) /\ \A v \in Slots : v # w => job'[v] = job[v]
  BY <1>1, RestOneLoad
<1>4. Rest(w) = Free
  <2>1. Rest(w).op # "load" /\ (Rest(w) = Free \/ Rest(w).op = job[w].op)
    BY <1>1, RestShape, FreeShape DEF CurrentInv, StoredInv
  <2> QED BY <1>2, <2>1
<1>5. shown'[page] = job[w].read /\ \A c \in Clients : c # page => shown'[c] = shown[c]
  BY <1>1, <1>2 DEF CurrentInv, StoredInv, TrackingTypes
<1>6. ASSUME NEW c \in Clients, NEW a \in Aspects \ doubt[c] PROVE Agrees(c, a)'
  <2>1. Agrees(c, a) /\ h # Do("emit", a) /\ h # Do("write", a)
    BY <1>1, <1>6 DEF CurrentInv, Current, Do
  <2>2. CASE c # page
    <3>1. Alike(job[w], Rest(w), c, a)
      BY <1>1, <2>1, <2>2, RestAlike DEF CurrentInv
    <3>2. \A v \in Slots : Alike(job[v], job'[v], c, a)
      BY <1>3, <3>1, SameAlike
    <3> QED BY <1>1, <1>5, <2>1, <2>2, <3>2, Still
  <2>3. CASE c = page
    <3>1. w \in Loading(c)
      BY <1>2, <2>3 DEF Loading
    <3>2. ~Owes(w, a) /\ ~Owes(w, a)'
      <4>1. Alike(job[w], Rest(w), w, a) \/ Owing(job[w], a) = Owing(Rest(w), a)
        <5>1. \A x, y : Left(job[w].todo, x, y) = Is(h, x, y) + Left(Rest(w).todo, x, y)
          BY <1>1, RestShape, FreeShape DEF CurrentInv, StoredInv
        <5>2. Is(h, "emit", a) = 0 /\ Is(h, "write", a) = 0
          BY <2>1 DEF Is
        <5> QED BY <1>4, <5>1, <5>2, FreeShape DEF Owing
      <4>2. ~Owing(Free, a)
        BY FreeShape DEF Owing
      <4> QED BY <1>3, <1>4, <4>1, <4>2 DEF Owes, Owing, Alike
    <3>3. \A v \in Slots : Owes(v, a)' => Owes(v, a) /\ v # w /\ job'[v] = job[v]
      BY <1>3, <3>2 DEF Owes
    <3>4. (\A v \in Slots : ~Owes(v, a)') => \A v \in Slots : ~Owes(v, a)
      BY <1>3, <3>2 DEF Owes
    <3>5. Loading(c)' = {}
      <4>1. ASSUME NEW l \in Loading(c)' PROVE FALSE
        <5>1. l \in Slots /\ job'[l].page = c /\ job'[l].read # Blank
          BY <4>1 DEF Loading
        <5>2. l # w
          BY <1>3, <1>4, <5>1, FreeShape
        <5>3. job[l].op = "load" /\ job[l].page = c
          BY <1>3, <5>1, <5>2, LoadsPages DEF CurrentInv
        <5> QED BY <1>2, <2>3, <5>1, <5>2, <5>3 DEF CurrentInv, OneLoad
      <4> QED BY <4>1
    <3>6. (\A v \in Slots : ~Owes(v, a)) => shown'[c][a] = order'[a]
      BY <1>1, <1>5, <2>1, <2>3, <3>1 DEF Agrees
    <3> QED BY <1>1, <2>1, <3>3, <3>4, <3>5, <3>6 DEF Agrees
  <2> QED BY <2>2, <2>3
<1> QED BY <1>1, <1>3, <1>6 DEF Current

LEMMA ThrowCurrent ==
    ASSUME CurrentInv, NEW w \in Slots, Throw(w) PROVE OneLoad' /\ Current'
<1> DEFINE o == job[w]
           r == Recovery(w)
           gone == IF r = Free THEN {w} ELSE {}
<1>1. PICK what \in {"write", "notice"} : Doing(w, what)
  BY DEF Throw
<1>2. /\ job' = [job EXCEPT ![w] = r] /\ UNCHANGED <<order, shown>>
      /\ doubt' = [c \in Clients |->
                      doubt[c] \cup {a \in Aspects : \E v \in gone : Owes(v, a) \/ job[v].page = c}]
  BY DEF Throw, Lose
<1>3. /\ Shape(r)
      /\ r = Free \/ /\ r.op # "load" /\ r.value = o.value /\ r.page = o.page /\ r.read = o.read
                     /\ \A a \in Aspects : Left(r.todo, "emit", a) > Left(r.todo, "write", a) <=> Owes(w, a)
  BY <1>1, Recovers DEF CurrentInv
<1> HIDE DEF r
<1>4. job'[w] = r /\ \A v \in Slots : v # w => job'[v] = job[v]
  BY <1>2, <1>3, Changes DEF CurrentInv, Shape
<1>5. OneLoad'
  <2>1. r.op # "load"
    BY <1>3, FreeShape
  <2> QED BY <1>4, <2>1, OneLoadStep DEF CurrentInv
<1>6. ASSUME NEW c \in Clients, NEW a \in Aspects \ doubt'[c] PROVE Agrees(c, a)'
  <2>1. a \notin doubt[c] /\ (r = Free => ~Owes(w, a) /\ o.page # c)
    BY <1>2, <1>6
  <2>2. CASE r = Free
    <3>1. ~Owing(Free, a) /\ Free.read = Blank
      BY FreeShape DEF Owing
    <3>2. Alike(o, r, c, a)
      BY <2>1, <2>2, <3>1 DEF Alike, Owes, Owing
    <3>3. \A v \in Slots : Alike(job[v], job'[v], c, a)
      BY <1>4, <3>2, SameAlike
    <3> QED BY <1>2, <2>1, <3>3, Still DEF CurrentInv, Current
  <2>3. CASE r # Free
    <3>1. Alike(o, r, c, a)
      BY <1>3, <2>3 DEF Alike, Owes, Owing
    <3>2. \A v \in Slots : Alike(job[v], job'[v], c, a)
      BY <1>4, <3>1, SameAlike
    <3> QED BY <1>2, <2>1, <3>2, Still DEF CurrentInv, Current
  <2> QED BY <2>2, <2>3
<1> QED BY <1>5, <1>6 DEF Current

LEMMA CrashCurrent ==
    ASSUME CurrentInv, NEW p \in Processes, Crash(p) PROVE OneLoad' /\ Current'
<1> DEFINE dying == {w \in Slots : job[w].at = p}
<1>1. /\ job' = [w \in Slots |-> IF w \in dying THEN Free ELSE job[w]] /\ UNCHANGED <<order, shown>>
      /\ doubt' = [c \in Clients |->
                      doubt[c] \cup {a \in Aspects : \E v \in dying : Owes(v, a) \/ job[v].page = c}]
  BY DEF Crash, Lose
<1> HIDE DEF dying
<1>2. \A v \in Slots : job'[v] = IF v \in dying THEN Free ELSE job[v]
  BY <1>1
<1>3. OneLoad'
  <2>1. Free.op # "load"
    BY FreeShape
  <2> QED BY <1>2, <2>1, OneLoadStep DEF CurrentInv
<1>4. ASSUME NEW c \in Clients, NEW a \in Aspects \ doubt'[c] PROVE Agrees(c, a)'
  <2>1. a \notin doubt[c] /\ \A v \in dying : ~Owes(v, a) /\ job[v].page # c
    BY <1>1, <1>4
  <2>2. ~Owing(Free, a) /\ Free.read = Blank
    BY FreeShape DEF Owing
  <2>3. \A v \in Slots : v \in dying => Alike(job[v], job'[v], c, a)
    BY <1>2, <2>1, <2>2 DEF Alike, Owes, Owing
  <2>4. \A v \in Slots : Alike(job[v], job'[v], c, a)
    BY <1>2, <2>3, SameAlike
  <2> QED BY <1>1, <2>1, <2>4, Still DEF CurrentInv, Current
<1> QED BY <1>3, <1>4 DEF Current

LEMMA OthersCurrent ==
    ASSUME CurrentInv,
           \/ \E c \in Clients : ClientStep(c)
           \/ \E p \in Processes, place \in Places : DeliveryLocation(p, place)
           \/ \E r \in DOMAIN notice : MarkAsRead(r) \/ DeleteNotification(r)
           \/ \E u \in Users : MarkAllAsRead(u)
    PROVE  OneLoad' /\ Current'
<1>1. CASE UNCHANGED <<order, shown, job, doubt>>
  BY <1>1 DEF CurrentInv, OneLoad, Current, Agrees, Owes, Loading
<1>2. CASE \E p \in Processes, place \in Places : DeliveryLocation(p, place)
  <2>1. PICK p \in Processes, place \in Places : DeliveryLocation(p, place)
    BY <1>2
  <2> DEFINE heard == {c \in Clients : Hears(c, p, "place")}
  <2>2. /\ shown' = [c \in Clients |-> IF c \in heard THEN [shown[c] EXCEPT !["place"] = place] ELSE shown[c]]
        /\ UNCHANGED <<order, job>>
        /\ doubt' = [c \in Clients |-> IF c \in heard THEN doubt[c] \cup {"place"} ELSE doubt[c]]
    BY <2>1 DEF DeliveryLocation, Doubt
  <2> HIDE DEF heard
  <2>3. ASSUME NEW c \in Clients, NEW a \in Aspects \ doubt'[c] PROVE Agrees(c, a)'
    <3>1. a \notin doubt[c] /\ shown'[c][a] = shown[c][a]
      BY <2>2, <2>3 DEF CurrentInv, StoredInv, TrackingTypes
    <3>2. \A v \in Slots : Alike(job[v], job'[v], c, a)
      BY <2>2, SameAlike
    <3> QED BY <2>2, <3>1, <3>2, Still DEF CurrentInv, Current
  <2>4. OneLoad'
    BY <2>2 DEF CurrentInv, OneLoad
  <2> QED BY <2>3, <2>4 DEF Current
<1>3. CASE \/ \E c \in Clients : ClientStep(c)
           \/ \E r \in DOMAIN notice : MarkAsRead(r) \/ DeleteNotification(r)
           \/ \E u \in Users : MarkAllAsRead(u)
  BY <1>1, <1>3 DEF ClientStep, Connect, Join, LeaveOrderRoom, Disconnect,
                    MarkAsRead, DeleteNotification, MarkAllAsRead
<1> QED BY <1>2, <1>3

LEMMA CurrentInit == TrackingInit => CurrentInv
<1> SUFFICES ASSUME TrackingInit PROVE CurrentInv
  OBVIOUS
<1>1. PICK x \in Slots, p \in Processes, todo \in {Placed, PlacedAssigned}, s \in {"PENDING", "CONFIRMED"} :
          /\ order = [status |-> s, place |-> Nothing]
          /\ stored = [status |-> {s}, place |-> {Nothing}]
          /\ job = [[v \in Slots |-> Free] EXCEPT ![x] =
                       [Free EXCEPT !.op = "placed", !.todo = todo, !.at = p, !.value = "CONFIRMED"]]
  BY DEF TrackingInit
<1> DEFINE j == [Free EXCEPT !.op = "placed", !.todo = todo, !.at = p, !.value = "CONFIRMED"]
<1>2. j.op # "load" /\ Free.op # "load"
  BY PlacedShape, FreeShape
<1>3. job = [[v \in Slots |-> Free] EXCEPT ![x] = j]
  BY <1>1
<1> HIDE DEF j
<1>4. \A v \in Slots : job[v].op # "load"
  BY <1>2, <1>3
<1>5. \A c \in Clients : Aspects \ doubt[c] = {}
  BY DEF TrackingInit
<1> QED BY <1>4, <1>5, StoredInit DEF CurrentInv, OneLoad, Current

LEMMA CurrentNext == CurrentInv /\ [TrackingNext]_tracked => CurrentInv'
<1> SUFFICES ASSUME CurrentInv, [TrackingNext]_tracked PROVE CurrentInv'
  OBVIOUS
<1>1. StoredInv'
  BY StoredNext DEF CurrentInv
<1>2. ASSUME NEW w \in Slots, HandlerStep(w) \/ LoadRead(w) \/ LoadAnswer(w) \/ \E c \in Clients : LoadBegin(w, c)
      PROVE  OneLoad' /\ Current'
  <2>1. CASE Handle(w) \/ HandleCancel(w) \/ HandleNewProduct(w) \/ \E c \in Clients : LoadBegin(w, c)
    BY <2>1, Comers, ComesCurrent DEF CurrentInv
  <2>2. CASE WriteRow(w)
    BY <2>2, WriteCurrent
  <2>3. CASE Emit(w)
    BY <2>3, EmitCurrent
  <2>4. CASE CreateNotice(w) \/ Push(w)
    BY <2>4, NoticeCurrent
  <2>5. CASE Throw(w)
    BY <2>5, ThrowCurrent
  <2>6. CASE LoadRead(w)
    BY <2>6, ReadCurrent
  <2>7. CASE LoadAnswer(w)
    BY <2>7, AnswerCurrent
  <2> QED BY <1>2, <2>1, <2>2, <2>3, <2>4, <2>5, <2>6, <2>7 DEF HandlerStep
<1>3. CASE \/ \E c \in Clients : ClientStep(c)
           \/ \E p \in Processes, place \in Places : DeliveryLocation(p, place)
           \/ \E r \in DOMAIN notice : MarkAsRead(r) \/ DeleteNotification(r)
           \/ \E u \in Users : MarkAllAsRead(u)
  BY <1>1, <1>3, OthersCurrent DEF CurrentInv
<1>4. CASE \E p \in Processes : Crash(p)
  BY <1>1, <1>4, CrashCurrent DEF CurrentInv
<1>5. CASE UNCHANGED tracked
  <2>1. OneLoad' /\ Current'
    BY <1>5 DEF tracked, CurrentInv, OneLoad, Current, Agrees, Owes, Loading
  <2> QED BY <1>1, <2>1 DEF CurrentInv
<1> QED BY <1>1, <1>2, <1>3, <1>4, <1>5 DEF TrackingNext, CurrentInv

LEMMA CurrentIsShown == CurrentInv => ScreenCurrent
<1> SUFFICES ASSUME CurrentInv, Quiet, NEW c \in Clients, NEW a \in Aspects \ doubt[c]
             PROVE  shown[c][a] = order[a]
  BY DEF ScreenCurrent
<1>1. Agrees(c, a)
  BY DEF CurrentInv, Current
<1>2. \A v \in Slots : ~Owes(v, a)
  BY FreeShape DEF Quiet, Owes
<1>3. Loading(c) = {}
  BY FreeShape DEF Quiet, Loading
<1> QED BY <1>1, <1>2, <1>3 DEF Agrees

(* When no request is in flight, a page in the order's room shows what is  *)
(* stored, unless one of the named races of the gateway put it in doubt:   *)
(* emitOrderStatusUpdate and emitLocationUpdate send what was written, and *)
(* getOrderTracking answers what it read.                                  *)
THEOREM ScreensAreCurrent == TrackingSpec => []ScreenCurrent
<1>1. TrackingInit => CurrentInv
  BY CurrentInit
<1>2. CurrentInv /\ [TrackingNext]_tracked => CurrentInv'
  BY CurrentNext
<1>3. CurrentInv => ScreenCurrent
  BY CurrentIsShown
<1> QED BY <1>1, <1>2, <1>3, PTL DEF TrackingSpec
===============================================================================
