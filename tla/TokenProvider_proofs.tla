------------------------ MODULE TokenProvider_proofs ------------------------
(* Theorems about TokenProvider.                                           *)
EXTENDS TokenProvider, TLAPS

\* An answer has its type, and its token is refused no earlier than expires_in
\* after its request.
LEMMA AnswerFacts ==
    ASSUME NEW t \in Nat, NEW issued \in t..now, now \in Nat,
           NEW e \in Lifetimes, NEW r \in RefreshLifetimes
    PROVE  LET answer == Answer(t, issued, e, r) IN
           /\ answer \in OpenidToken
           /\ answer["AccessToken"] # 0
           /\ answer["AccessToken"] >= answer["RequestTime"] + answer["ExpiresIn"]
<1> DEFINE answer == Answer(t, issued, e, r)
<1>1. e \in Nat \ {0} /\ r \in Nat \ {0} /\ issued \in Nat /\ issued >= t
  BY LifetimesAssumption
<1>2. /\ answer["AccessToken"] = issued + e /\ answer["ExpiresIn"] = e
      /\ answer["RequestTime"] = t
  BY DEF Answer, Fields, NoToken
<1>3. answer \in [Fields -> Nat]
  BY <1>1 DEF Answer, Fields, NoToken
<1>4. answer["AccessToken"] # 0 /\ answer["AccessToken"] >= answer["RequestTime"] + answer["ExpiresIn"]
  <2> HIDE DEF answer
  <2> QED BY <1>1, <1>2
<1> QED BY <1>3, <1>4 DEF OpenidToken

LEMMA ErrorFacts ==
    ASSUME NEW t \in Nat, AfterError(t), now \in Nat
    PROVE  /\ openid' \in OpenidToken
           /\ openid'["AccessToken"] # 0 =>
                openid'["AccessToken"] >= openid'["RequestTime"] + openid'["ExpiresIn"]
<1>1. CASE openid' = NoToken
  BY <1>1 DEF NoToken, OpenidToken, Fields
<1>2. CASE openid' # NoToken
  <2>1. PICK missing \in SUBSET (Fields \ {"RequestTime"}), issued \in t..now,
             e \in Lifetimes, r \in RefreshLifetimes :
          openid' = Partly(Answer(t, issued, e, r), missing)
    BY <1>2 DEF AfterError
  <2>2. PICK answer : answer = Answer(t, issued, e, r)
    OBVIOUS
  <2>3. /\ answer \in OpenidToken
        /\ answer["AccessToken"] >= answer["RequestTime"] + answer["ExpiresIn"]
    BY <2>2, AnswerFacts
  <2>4. openid' = [f \in Fields |-> IF f \in missing THEN 0 ELSE answer[f]]
    BY <2>1, <2>2 DEF Partly
  <2>5. \A f \in Fields : openid'[f] \in {0, answer[f]} /\ answer[f] \in Nat
    BY <2>3, <2>4 DEF OpenidToken
  <2>6. openid' \in OpenidToken
    BY <2>3, <2>4 DEF OpenidToken
  <2>7. "AccessToken" \in Fields /\ "RequestTime" \in Fields /\ "ExpiresIn" \in Fields
    BY DEF Fields
  <2> QED BY <2>3, <2>5, <2>6, <2>7
<1> QED BY <1>1, <1>2

-----------------------------------------------------------------------------
(* Types                                                                   *)

LEMMA InitTyped == Init => TypeOK
BY TimeAssumption
   DEF Init, TypeOK, OpenidToken, NoToken, Fields, CallRecord, Idle

LEMMA ResetTyped ==
    ASSUME TypeOK, NEW c \in Callers, NEW f \in Fields, Reset(c, f)
    PROVE  TypeOK'
<1>1. openid' \in OpenidToken /\ held' \in OpenidToken
  BY DEF Reset, TypeOK, OpenidToken, NoToken
<1>2. calls' \in [Callers -> CallRecord]
  <2>1. calls[c] \in CallRecord /\ Idle \in CallRecord
    BY DEF TypeOK, CallRecord, Idle
  <2>2. [calls[c] EXCEPT !.reset = calls[c].reset \ {f}] \in CallRecord
    BY <2>1 DEF CallRecord
  <2>3. CASE calls[c].reset = {f}
    <3>1. calls' = [calls EXCEPT ![c] = Idle]
      BY <2>3 DEF Reset
    <3> QED BY <2>1, <3>1 DEF TypeOK
  <2>4. CASE calls[c].reset # {f}
    <3>1. calls' = [calls EXCEPT ![c] = [calls[c] EXCEPT !.reset = calls[c].reset \ {f}]]
      BY <2>4 DEF Reset
    <3> QED BY <2>2, <3>1 DEF TypeOK
  <2> QED BY <2>3, <2>4
<1> QED BY <1>1, <1>2 DEF Reset, TypeOK

LEMMA StoredTyped ==
    ASSUME TypeOK, NEW c \in Callers, Stored(c)
    PROVE  TypeOK'
<1>1. calls[c].requestTime \in Nat /\ now \in Nat
  BY DEF TypeOK, CallRecord
<1>2. PICK issued \in calls[c].requestTime..now, e \in Lifetimes, r \in RefreshLifetimes :
        openid' = Answer(calls[c].requestTime, issued, e, r)
  BY DEF Stored
<1>3. openid' \in OpenidToken /\ held' = openid'
  BY <1>1, <1>2, AnswerFacts DEF Stored
<1>4. calls' \in [Callers -> CallRecord]
  BY DEF Stored, TypeOK, CallRecord
<1> QED BY <1>3, <1>4 DEF Stored, TypeOK

LEMMA ErrorTyped ==
    ASSUME TypeOK, NEW c \in Callers, RefreshFails(c) \/ GetFails(c)
    PROVE  TypeOK'
<1>1. calls[c].requestTime \in Nat /\ now \in Nat
  BY DEF TypeOK, CallRecord
<1>2. AfterError(calls[c].requestTime) /\ held' = NoToken
  BY DEF RefreshFails, GetFails
<1>3. openid' \in OpenidToken /\ held' \in OpenidToken
  BY <1>1, <1>2, ErrorFacts DEF NoToken, OpenidToken
<1>4. calls' \in [Callers -> CallRecord]
  BY <1>1 DEF RefreshFails, GetFails, TypeOK, CallRecord
<1> QED BY <1>3, <1>4 DEF RefreshFails, GetFails, TypeOK

LEMMA NextTyped == TypeOK /\ [Next]_vars => TypeOK'
<1> SUFFICES ASSUME TypeOK, [Next]_vars PROVE TypeOK'
  OBVIOUS
<1>1. ASSUME NEW c \in Callers, Call(c) PROVE TypeOK'
  BY <1>1 DEF Call, TypeOK, CallRecord
<1>2. ASSUME NEW c \in Callers, Lock(c) PROVE TypeOK'
  <2>1. openid["RequestTime"] \in Nat /\ now \in Nat
    BY DEF TypeOK, OpenidToken, Fields
  <2>2. calls' \in [Callers -> CallRecord]
    <3>1. calls[c] \in CallRecord
      BY DEF TypeOK
    <3>2. [calls[c] EXCEPT !.pc = "check", !.at = now, !.requestTime = openid["RequestTime"]]
            \in CallRecord
      BY <2>1, <3>1 DEF CallRecord
    <3> QED BY <1>2, <3>2 DEF Lock, TypeOK
  <2> QED BY <1>2, <2>2 DEF Lock, TypeOK
<1>3. ASSUME NEW c \in Callers, Check(c) PROVE TypeOK'
  <2>1. AccessTokenLasts(c) \in BOOLEAN /\ now \in Nat
    BY DEF TypeOK, AccessTokenLasts
  <2>2. calls' \in [Callers -> CallRecord]
    <3>1. calls[c] \in CallRecord
      BY DEF TypeOK
    <3>2. [calls[c] EXCEPT !.pc = "bearer", !.cached = TRUE] \in CallRecord
      BY <3>1 DEF CallRecord
    <3>3. ASSUME NEW pc \in {"refresh", "get"}
          PROVE  [calls[c] EXCEPT !.pc = pc, !.cached = FALSE, !.requestTime = now] \in CallRecord
      BY <2>1, <3>1 DEF CallRecord
    <3>4. CASE AccessTokenLasts(c)
      BY <1>3, <3>2, <3>4 DEF Check, TypeOK
    <3>5. CASE ~AccessTokenLasts(c)
      <4> DEFINE pc == IF RefreshTokenLasts(c) THEN "refresh" ELSE "get"
      <4>1. calls' = [calls EXCEPT ![c] = [calls[c] EXCEPT !.pc = pc, !.cached = FALSE,
                                                           !.requestTime = now]]
        BY <1>3, <3>5 DEF Check
      <4>2. pc \in {"refresh", "get"}
        OBVIOUS
      <4> HIDE DEF pc
      <4> QED BY <3>3, <4>1, <4>2 DEF TypeOK
    <3> QED BY <3>4, <3>5
  <2> QED BY <1>3, <2>2 DEF Check, TypeOK
<1>4. ASSUME NEW c \in Callers, Stored(c) PROVE TypeOK'
  BY <1>4, StoredTyped
<1>5. ASSUME NEW c \in Callers, RefreshFails(c) \/ GetFails(c) PROVE TypeOK'
  BY <1>5, ErrorTyped
<1>6. ASSUME NEW c \in Callers, Bearer(c) PROVE TypeOK'
  <2>1. openid["AccessToken"] \in Nat
    BY DEF TypeOK, OpenidToken, Fields
  <2>2. calls' \in [Callers -> CallRecord]
    <3>1. calls[c] \in CallRecord
      BY DEF TypeOK
    <3>2. [calls[c] EXCEPT !.pc = "unlock", !.bearer = openid["AccessToken"]] \in CallRecord
      BY <2>1, <3>1 DEF CallRecord
    <3> QED BY <1>6, <3>2 DEF Bearer, TypeOK
  <2> QED BY <1>6, <2>2 DEF Bearer, TypeOK
<1>7. ASSUME NEW c \in Callers, Unlock(c) PROVE TypeOK'
  BY <1>7 DEF Unlock, TypeOK, CallRecord, Idle
<1>8. ASSUME NEW c \in Callers, NEW f \in Fields, Reset(c, f) PROVE TypeOK'
  BY <1>8, ResetTyped
<1>9. CASE Tick
  BY <1>9, TimeAssumption DEF Tick, TypeOK
<1>10. CASE UNCHANGED vars
  BY <1>10 DEF vars, TypeOK
<1> QED
  BY <1>1, <1>2, <1>3, <1>4, <1>5, <1>6, <1>7, <1>8, <1>9, <1>10
     DEF Next, NewTokenProvider, NewUserTokenProvider, Step, refreshOpenidToken,
         getOpenidToken, getOpenidPasswordToken

(***************************************************************************)
(* Every reachable state has the declared types.                           *)
(***************************************************************************)
THEOREM TypeCorrect == Spec => []TypeOK
BY InitTyped, NextTyped, PTL DEF Spec

-----------------------------------------------------------------------------
(* The mutex                                                               *)

MutexInv == \A c \in Callers : Inside(c) => mux = c

LEMMA MutexNext == TypeOK /\ MutexInv /\ [Next]_vars => MutexInv'
<1> SUFFICES ASSUME TypeOK, MutexInv, [Next]_vars PROVE MutexInv'
  OBVIOUS
<1> USE CallersAssumption DEF MutexInv, Inside, At, TypeOK
<1>1. ASSUME NEW c \in Callers, Call(c) PROVE MutexInv'
  BY <1>1 DEF Call
<1>2. ASSUME NEW c \in Callers, Lock(c) PROVE MutexInv'
  BY <1>2 DEF Lock
<1>3. ASSUME NEW c \in Callers, Check(c) PROVE MutexInv'
  BY <1>3 DEF Check
<1>4. ASSUME NEW c \in Callers, refreshOpenidToken(c) PROVE MutexInv'
  BY <1>4 DEF refreshOpenidToken, Stored
<1>5. ASSUME NEW c \in Callers, RefreshFails(c) \/ GetFails(c) PROVE MutexInv'
  BY <1>5 DEF RefreshFails, GetFails
<1>6. ASSUME NEW c \in Callers, getOpenidToken(c) \/ getOpenidPasswordToken(c) PROVE MutexInv'
  BY <1>6 DEF getOpenidToken, getOpenidPasswordToken, Stored
<1>7. ASSUME NEW c \in Callers, Bearer(c) PROVE MutexInv'
  BY <1>7 DEF Bearer
<1>8. ASSUME NEW c \in Callers, Unlock(c) PROVE MutexInv'
  BY <1>8 DEF Unlock, Idle
<1>9. ASSUME NEW c \in Callers, NEW f \in Fields, Reset(c, f) PROVE MutexInv'
  BY <1>9 DEF Reset, Idle
<1>10. CASE Tick
  BY <1>10 DEF Tick
<1>11. CASE UNCHANGED vars
  BY <1>11 DEF vars
<1> QED
  BY <1>1, <1>2, <1>3, <1>4, <1>5, <1>6, <1>7, <1>8, <1>9, <1>10, <1>11
     DEF Next, NewTokenProvider, NewUserTokenProvider, Step

LEMMA MutexHolds == Spec => []MutexInv
<1>1. Init => MutexInv
  BY DEF Init, MutexInv, Inside, Idle
<1> QED BY <1>1, MutexNext, TypeCorrect, PTL DEF Spec

(***************************************************************************)
(* No two calls are between Lock and Unlock, whatever fails.               *)
(***************************************************************************)
THEOREM MutualExclusion == Spec => []OneAtATime
<1>1. MutexInv => OneAtATime
  BY DEF MutexInv, OneAtATime
<1> QED BY <1>1, MutexHolds, PTL

-----------------------------------------------------------------------------
(* The token                                                               *)

\* A token lasts as long as openid says, as far as openid says it.
TokenAgrees ==
    openid["AccessToken"] # 0 =>
        openid["AccessToken"] >= openid["RequestTime"] + openid["ExpiresIn"]

\* Nobody but a call that fails discards the last answer.
HeldAgrees == held # NoToken => openid = held /\ held["AccessToken"] # 0

\* The call that holds the mutex has read RequestTime before the token.
CheckAgrees(c) ==
    At(c, "check") =>
        /\ openid["AccessToken"] # 0 =>
             openid["AccessToken"] >= calls[c].requestTime + openid["ExpiresIn"]
        /\ held # NoToken => calls[c].requestTime = held["RequestTime"]

RequestAgrees(c) ==
    calls[c].pc \in {"refresh", "get"} =>
        /\ ~calls[c].cached
        /\ held # NoToken => ~Lasts(held["ExpiresIn"], held["RequestTime"], calls[c].at)

BearerAgrees(c) ==
    At(c, "bearer") =>
        /\ openid["AccessToken"] = 0 => c \in disturbed
        /\ calls[c].cached /\ openid["AccessToken"] # 0 =>
             openid["AccessToken"] > calls[c].at + Margin

UnlockAgrees(c) ==
    At(c, "unlock") =>
        /\ calls[c].bearer = 0 => c \in disturbed
        /\ calls[c].cached /\ calls[c].bearer # 0 =>
             calls[c].bearer > calls[c].at + Margin

CallAgrees(c) == CheckAgrees(c) /\ RequestAgrees(c) /\ BearerAgrees(c) /\ UnlockAgrees(c)

TokenInv ==
    /\ TokenAgrees
    /\ HeldAgrees
    /\ \A c \in Callers : CallAgrees(c)

\* What the calls of others keep: a call that is not inside has nothing to
\* agree with, one inside sees at most another call reset or leave.
LEMMA OutsideAgrees ==
    ASSUME NEW d \in Callers, ~Inside(d)'
    PROVE  CallAgrees(d)'
BY DEF CallAgrees, CheckAgrees, RequestAgrees, BearerAgrees, UnlockAgrees, Inside, At

LEMMA KeptAgrees ==
    ASSUME TypeOK, NEW d \in Callers, CallAgrees(d), calls'[d] = calls[d],
           UNCHANGED <<openid, held>>,
           d \in disturbed => d \in disturbed'
    PROVE  CallAgrees(d)'
<1>1. CheckAgrees(d)'
  BY DEF CallAgrees, CheckAgrees, At
<1>2. RequestAgrees(d)'
  BY DEF CallAgrees, RequestAgrees, Lasts
<1>3. BearerAgrees(d)'
  BY DEF CallAgrees, BearerAgrees, At
<1>4. UnlockAgrees(d)'
  BY DEF CallAgrees, UnlockAgrees, At
<1> QED BY <1>1, <1>2, <1>3, <1>4 DEF CallAgrees

\* A step of c that writes no token leaves the others as they are.
LEMMA OthersAgree ==
    ASSUME TypeOK, TokenInv, NEW c \in Callers,
           \A d \in Callers \ {c} : calls'[d] = calls[d],
           UNCHANGED <<openid, held>>,
           disturbed' \in {disturbed, disturbed \ {c}}
    PROVE  TokenAgrees' /\ HeldAgrees' /\ \A d \in Callers \ {c} : CallAgrees(d)'
<1>1. TokenAgrees' /\ HeldAgrees'
  BY DEF TokenInv, TokenAgrees, HeldAgrees
<1>2. ASSUME NEW d \in Callers \ {c} PROVE CallAgrees(d)'
  <2>1. CallAgrees(d) /\ calls'[d] = calls[d] /\ (d \in disturbed => d \in disturbed')
    BY DEF TokenInv
  <2> QED BY <2>1, KeptAgrees
<1> QED BY <1>1, <1>2

\* A step of c inside the mutex: nobody else is inside.
LEMMA OthersOutside ==
    ASSUME TypeOK, MutexInv, NEW c \in Callers, Inside(c),
           \A d \in Callers \ {c} : calls'[d] = calls[d]
    PROVE  \A d \in Callers \ {c} : CallAgrees(d)'
<1> SUFFICES ASSUME NEW d \in Callers \ {c} PROVE CallAgrees(d)'
  OBVIOUS
<1>1. ~Inside(d)
  BY DEF MutexInv
<1>2. ~Inside(d)'
  BY <1>1 DEF Inside
<1> QED BY <1>2, OutsideAgrees

LEMMA CallKeeps == TypeOK /\ TokenInv => \A c \in Callers : Call(c) => TokenInv'
<1> SUFFICES ASSUME TypeOK, TokenInv, NEW c \in Callers, Call(c) PROVE TokenInv'
  OBVIOUS
<1>1. \A d \in Callers \ {c} : calls'[d] = calls[d]
  BY DEF Call, TypeOK
<1>2. TokenAgrees' /\ HeldAgrees' /\ \A d \in Callers \ {c} : CallAgrees(d)'
  BY <1>1, OthersAgree DEF Call
<1>3. ~Inside(c)'
  BY DEF Call, Inside, TypeOK, CallRecord
<1> QED BY <1>2, <1>3, OutsideAgrees DEF TokenInv

LEMMA LockKeeps == TypeOK /\ TokenInv => \A c \in Callers : Lock(c) => TokenInv'
<1> SUFFICES ASSUME TypeOK, TokenInv, NEW c \in Callers, Lock(c) PROVE TokenInv'
  OBVIOUS
<1>1. \A d \in Callers \ {c} : calls'[d] = calls[d]
  BY DEF Lock, TypeOK
<1>2. TokenAgrees' /\ HeldAgrees' /\ \A d \in Callers \ {c} : CallAgrees(d)'
  BY <1>1, OthersAgree DEF Lock
<1>3. calls'[c].pc = "check" /\ calls'[c].requestTime = openid["RequestTime"]
  BY DEF Lock, TypeOK, CallRecord
<1>4. CheckAgrees(c)'
  BY <1>3 DEF CheckAgrees, Lock, TokenInv, TokenAgrees, HeldAgrees
<1>5. RequestAgrees(c)' /\ BearerAgrees(c)' /\ UnlockAgrees(c)'
  BY <1>3 DEF RequestAgrees, BearerAgrees, UnlockAgrees, At
<1> QED BY <1>2, <1>4, <1>5 DEF TokenInv, CallAgrees

LEMMA CheckKeeps == TypeOK /\ TokenInv => \A c \in Callers : Check(c) => TokenInv'
<1> SUFFICES ASSUME TypeOK, TokenInv, NEW c \in Callers, Check(c) PROVE TokenInv'
  OBVIOUS
<1>1. \A d \in Callers \ {c} : calls'[d] = calls[d]
  BY DEF Check, TypeOK
<1>2. TokenAgrees' /\ HeldAgrees' /\ \A d \in Callers \ {c} : CallAgrees(d)'
  BY <1>1, OthersAgree DEF Check
<1>3. CheckAgrees(c) /\ At(c, "check") /\ calls[c] \in CallRecord
  BY DEF TokenInv, CallAgrees, Check, TypeOK
<1>4. /\ openid["AccessToken"] \in Nat /\ openid["ExpiresIn"] \in Nat
      /\ calls[c].requestTime \in Nat /\ calls[c].at \in Nat /\ Margin \in Nat
  BY <1>3, TimeAssumption DEF TypeOK, OpenidToken, Fields, CallRecord
<1>5. CASE AccessTokenLasts(c)
  <2>1. calls'[c].pc = "bearer" /\ calls'[c].at = calls[c].at
    BY <1>3, <1>5 DEF Check, TypeOK, CallRecord
  <2>2. /\ openid["AccessToken"] # 0
        /\ openid["ExpiresIn"] + calls[c].requestTime > calls[c].at + Margin
    BY <1>5 DEF AccessTokenLasts, Lasts
  <2>3. openid["AccessToken"] > calls[c].at + Margin
    BY <1>3, <1>4, <2>2 DEF CheckAgrees
  <2>4. BearerAgrees(c)'
    BY <2>1, <2>2, <2>3 DEF BearerAgrees, Check
  <2>5. CheckAgrees(c)' /\ RequestAgrees(c)' /\ UnlockAgrees(c)'
    BY <2>1 DEF RequestAgrees, CheckAgrees, UnlockAgrees, At
  <2> QED BY <1>2, <2>4, <2>5 DEF TokenInv, CallAgrees
<1>6. CASE ~AccessTokenLasts(c)
  <2>1. /\ calls'[c].pc \in {"refresh", "get"}
        /\ ~calls'[c].cached
        /\ calls'[c].at = calls[c].at
    BY <1>3, <1>6 DEF Check, TypeOK, CallRecord
  <2>2. held # NoToken => ~Lasts(held["ExpiresIn"], held["RequestTime"], calls[c].at)
    BY <1>3, <1>6 DEF AccessTokenLasts, CheckAgrees, TokenInv, HeldAgrees
  <2>3. RequestAgrees(c)'
    BY <2>1, <2>2 DEF RequestAgrees, Check, Lasts
  <2>4. CheckAgrees(c)' /\ BearerAgrees(c)' /\ UnlockAgrees(c)'
    BY <2>1 DEF BearerAgrees, CheckAgrees, UnlockAgrees, At
  <2> QED BY <1>2, <2>3, <2>4 DEF TokenInv, CallAgrees
<1> QED BY <1>5, <1>6

LEMMA StoredKeeps ==
    TypeOK /\ MutexInv /\ TokenInv =>
        \A c \in Callers : calls[c].pc \in {"refresh", "get"} /\ Stored(c) => TokenInv'
<1> SUFFICES ASSUME TypeOK, MutexInv, TokenInv, NEW c \in Callers,
                    calls[c].pc \in {"refresh", "get"}, Stored(c)
             PROVE  TokenInv'
  OBVIOUS
<1>1. /\ \A d \in Callers \ {c} : calls'[d] = calls[d]
      /\ calls'[c].pc = "bearer" /\ calls'[c].cached = calls[c].cached
  BY DEF Stored, TypeOK, CallRecord
<1>2. \A d \in Callers \ {c} : CallAgrees(d)'
  BY <1>1, OthersOutside DEF Inside
<1>3. calls[c].requestTime \in Nat /\ now \in Nat
  BY DEF TypeOK, CallRecord
<1>4. PICK issued \in calls[c].requestTime..now, e \in Lifetimes, r \in RefreshLifetimes :
        openid' = Answer(calls[c].requestTime, issued, e, r)
  BY DEF Stored
<1>5. /\ openid'["AccessToken"] # 0 /\ held' = openid'
      /\ openid'["AccessToken"] >= openid'["RequestTime"] + openid'["ExpiresIn"]
  BY <1>3, <1>4, AnswerFacts DEF Stored
<1>6. TokenAgrees' /\ HeldAgrees'
  BY <1>5 DEF TokenAgrees, HeldAgrees
<1>7. ~calls[c].cached
  BY DEF TokenInv, CallAgrees, RequestAgrees
<1>8. BearerAgrees(c)'
  BY <1>1, <1>5, <1>7 DEF BearerAgrees
<1>9. CheckAgrees(c)' /\ RequestAgrees(c)' /\ UnlockAgrees(c)'
  BY <1>1 DEF RequestAgrees, CheckAgrees, UnlockAgrees, At
<1> QED BY <1>2, <1>6, <1>8, <1>9 DEF TokenInv, CallAgrees

LEMMA ErrorKeeps ==
    TypeOK /\ MutexInv /\ TokenInv =>
        \A c \in Callers : RefreshFails(c) \/ GetFails(c) => TokenInv'
<1> SUFFICES ASSUME TypeOK, MutexInv, TokenInv, NEW c \in Callers, RefreshFails(c) \/ GetFails(c)
             PROVE  TokenInv'
  OBVIOUS
<1>1. /\ \A d \in Callers \ {c} : calls'[d] = calls[d]
      /\ calls'[c].pc \in {"get", "fail"} /\ calls'[c].cached = calls[c].cached
      /\ calls[c].pc \in {"refresh", "get"}
  BY DEF RefreshFails, GetFails, At, TypeOK, CallRecord
<1>2. \A d \in Callers \ {c} : CallAgrees(d)'
  BY <1>1, OthersOutside DEF Inside
<1>3. now \in Nat /\ calls[c].requestTime \in Nat
  BY DEF TypeOK, CallRecord
<1>4. AfterError(calls[c].requestTime) /\ held' = NoToken
  BY DEF RefreshFails, GetFails
<1>5. TokenAgrees' /\ HeldAgrees'
  BY <1>3, <1>4, ErrorFacts DEF TokenAgrees, HeldAgrees
<1>6. ~calls[c].cached
  BY <1>1 DEF TokenInv, CallAgrees, RequestAgrees
<1>7. RequestAgrees(c)'
  BY <1>1, <1>4, <1>6 DEF RequestAgrees
<1>8. CheckAgrees(c)' /\ BearerAgrees(c)' /\ UnlockAgrees(c)'
  BY <1>1 DEF BearerAgrees, CheckAgrees, UnlockAgrees, At
<1> QED BY <1>2, <1>5, <1>7, <1>8 DEF TokenInv, CallAgrees

LEMMA BearerKeeps == TypeOK /\ TokenInv => \A c \in Callers : Bearer(c) => TokenInv'
<1> SUFFICES ASSUME TypeOK, TokenInv, NEW c \in Callers, Bearer(c) PROVE TokenInv'
  OBVIOUS
<1>1. /\ \A d \in Callers \ {c} : calls'[d] = calls[d]
      /\ calls'[c].pc = "unlock" /\ calls'[c].cached = calls[c].cached
      /\ calls'[c].at = calls[c].at /\ calls'[c].bearer = openid["AccessToken"]
  BY DEF Bearer, TypeOK, CallRecord
<1>2. TokenAgrees' /\ HeldAgrees' /\ \A d \in Callers \ {c} : CallAgrees(d)'
  BY <1>1, OthersAgree DEF Bearer
<1>3. BearerAgrees(c) /\ At(c, "bearer")
  BY DEF TokenInv, CallAgrees, Bearer
<1>4. UnlockAgrees(c)'
  BY <1>1, <1>3 DEF BearerAgrees, UnlockAgrees, Bearer
<1>5. CheckAgrees(c)' /\ RequestAgrees(c)' /\ BearerAgrees(c)'
  BY <1>1 DEF BearerAgrees, CheckAgrees, RequestAgrees, At
<1> QED BY <1>2, <1>4, <1>5 DEF TokenInv, CallAgrees

LEMMA UnlockKeeps == TypeOK /\ TokenInv => \A c \in Callers : Unlock(c) => TokenInv'
<1> SUFFICES ASSUME TypeOK, TokenInv, NEW c \in Callers, Unlock(c) PROVE TokenInv'
  OBVIOUS
<1>1. \A d \in Callers \ {c} : calls'[d] = calls[d]
  BY DEF Unlock, TypeOK
<1>2. TokenAgrees' /\ HeldAgrees' /\ \A d \in Callers \ {c} : CallAgrees(d)'
  BY <1>1, OthersAgree DEF Unlock
<1>3. ~Inside(c)'
  BY DEF Unlock, Inside, TypeOK, Idle
<1> QED BY <1>2, <1>3, OutsideAgrees DEF TokenInv

\* A reset hits the call inside, which is then disturbed.
LEMMA ResetKeeps ==
    TypeOK /\ MutexInv /\ TokenInv =>
        \A c \in Callers, f \in Fields : Reset(c, f) => TokenInv'
<1> SUFFICES ASSUME TypeOK, MutexInv, TokenInv, NEW c \in Callers, NEW f \in Fields, Reset(c, f)
             PROVE  TokenInv'
  OBVIOUS
<1>1. \A d \in Callers \ {c} : calls'[d] = calls[d]
  BY DEF Reset, TypeOK
<1>2. /\ openid' \in OpenidToken /\ openid \in OpenidToken
      /\ \A g \in Fields : openid'[g] \in {0, openid[g]} /\ openid'[g] \in Nat /\ openid[g] \in Nat
      /\ f # "AccessToken" => openid'["AccessToken"] = openid["AccessToken"]
  BY DEF Reset, TypeOK, OpenidToken, Fields
<1>3. {"AccessToken", "ExpiresIn", "RequestTime"} \subseteq Fields
  BY DEF Fields
<1>4. held' = NoToken /\ disturbed \subseteq disturbed'
  BY DEF Reset
<1>5. TokenAgrees' /\ HeldAgrees'
  <2>1. TokenAgrees
    BY DEF TokenInv
  <2> QED BY <1>2, <1>3, <1>4, <2>1 DEF TokenAgrees, HeldAgrees
<1>6. CallAgrees(c)'
  <2>1. ~Inside(c)'
    BY DEF Reset, Inside, At, TypeOK, CallRecord, Idle
  <2> QED BY <2>1, OutsideAgrees
<1>7. ASSUME NEW d \in Callers \ {c} PROVE CallAgrees(d)'
  <2>1. CallAgrees(d) /\ calls'[d] = calls[d] /\ calls[d] \in CallRecord
    BY <1>1 DEF TokenInv, TypeOK
  <2>2. calls[d].at \in Nat /\ calls[d].requestTime \in Nat
    BY <2>1 DEF CallRecord
  <2>3. CheckAgrees(d)'
    BY <1>2, <1>3, <1>4, <2>1, <2>2 DEF CallAgrees, CheckAgrees, At
  <2>4. RequestAgrees(d)'
    BY <1>4, <2>1 DEF CallAgrees, RequestAgrees
  <2>5. BearerAgrees(d)'
    <3> SUFFICES ASSUME At(d, "bearer")' PROVE
            /\ openid'["AccessToken"] = 0 => d \in disturbed'
            /\ calls[d].cached /\ openid'["AccessToken"] # 0 =>
                 openid'["AccessToken"] > calls[d].at + Margin
      BY <2>1 DEF BearerAgrees
    <3>1. mux = d /\ d # NoCaller
      BY <2>1, CallersAssumption DEF At, MutexInv, Inside
    <3>2. f = "AccessToken" => d \in disturbed'
      BY <3>1 DEF Reset
    <3>3. BearerAgrees(d) /\ At(d, "bearer")
      BY <2>1 DEF CallAgrees, At
    <3> QED BY <1>2, <1>3, <1>4, <3>2, <3>3 DEF BearerAgrees
  <2>6. UnlockAgrees(d)'
    BY <1>4, <2>1 DEF CallAgrees, UnlockAgrees, At
  <2> QED BY <2>3, <2>4, <2>5, <2>6 DEF CallAgrees
<1> QED BY <1>5, <1>6, <1>7 DEF TokenInv

LEMMA TokenNext == TypeOK /\ MutexInv /\ TokenInv /\ [Next]_vars => TokenInv'
<1> SUFFICES ASSUME TypeOK, MutexInv, TokenInv, [Next]_vars PROVE TokenInv'
  OBVIOUS
<1>1. ASSUME UNCHANGED <<openid, calls, held, disturbed>> PROVE TokenInv'
  BY <1>1 DEF TokenInv, TokenAgrees, HeldAgrees, CallAgrees, CheckAgrees, RequestAgrees,
              BearerAgrees, UnlockAgrees, At, Lasts
<1>2. ASSUME NEW c \in Callers, refreshOpenidToken(c) \/ getOpenidToken(c) \/ getOpenidPasswordToken(c)
      PROVE  TokenInv'
  <2>1. calls[c].pc \in {"refresh", "get"} /\ Stored(c)
    BY <1>2 DEF refreshOpenidToken, getOpenidToken, getOpenidPasswordToken, At
  <2> QED BY <2>1, StoredKeeps
<1>3. Tick \/ UNCHANGED vars => UNCHANGED <<openid, calls, held, disturbed>>
  BY DEF Tick, vars
<1> QED
  BY <1>1, <1>2, <1>3, CallKeeps, LockKeeps, CheckKeeps, ErrorKeeps, BearerKeeps, UnlockKeeps,
     ResetKeeps DEF Next, NewTokenProvider, NewUserTokenProvider, Step

LEMMA TokenHolds == Spec => []TokenInv
<1>1. Init => TokenInv
  <2> SUFFICES ASSUME Init PROVE TokenInv
    OBVIOUS
  <2>1. TokenAgrees /\ HeldAgrees
    BY DEF Init, TokenAgrees, HeldAgrees, NoToken, Fields
  <2>2. \A c \in Callers : CallAgrees(c)
    BY DEF Init, Idle, CallAgrees, CheckAgrees, RequestAgrees, BearerAgrees, UnlockAgrees, At
  <2> QED BY <2>1, <2>2 DEF TokenInv
<1> QED BY <1>1, TokenNext, TypeCorrect, MutexHolds, PTL DEF Spec

(***************************************************************************)
(* What failed calls leave of openid never makes an old token look new.    *)
(***************************************************************************)
THEOREM CachedTokensAreFresh == Spec => []CachedIsFresh
<1>1. TokenInv => CachedIsFresh
  BY DEF TokenInv, CallAgrees, UnlockAgrees, CachedIsFresh
<1> QED BY <1>1, TokenHolds, PTL

(***************************************************************************)
(* Nobody asks the auth server while the last answer lasts, if no request  *)
(* has failed and no reset of a failed call has run since.                 *)
(***************************************************************************)
THEOREM RequestsAreNeeded == Spec => []NoNeedlessRequest
<1>1. TokenInv => NoNeedlessRequest
  BY DEF TokenInv, CallAgrees, RequestAgrees, NoNeedlessRequest
<1> QED BY <1>1, TokenHolds, PTL

(***************************************************************************)
(* An empty bearer is always the work of the reset of a failed call.       *)
(***************************************************************************)
THEOREM EmptyBearerOnlyByReset == Spec => []EmptyOnlyByReset
<1>1. TokenInv => EmptyOnlyByReset
  BY DEF TokenInv, CallAgrees, UnlockAgrees, EmptyOnlyByReset, At
<1> QED BY <1>1, TokenHolds, PTL
===============================================================================
