---------------------------- MODULE TokenProvider ----------------------------
(***************************************************************************)
(* The function NewTokenProvider and NewUserTokenProvider return           *)
(* (pkg/client/auth.go): goroutines call it for a bearer token, it keeps   *)
(* the last answer of the auth server and uses it until ten seconds before *)
(* it expires, or refreshes it.                                            *)
(*                                                                         *)
(* The deferred reset runs after the deferred Unlock: it is not covered by *)
(* the mutex.  It writes the fields of openid one by one, in an order the  *)
(* compiler chooses, while the next caller reads and writes them.          *)
(***************************************************************************)
EXTENDS Integers

CONSTANTS
    Callers,
    NoCaller,           \* nobody holds the mutex
    Margin,             \* the ten seconds
    Lifetimes,          \* expires_in of an answer
    RefreshLifetimes,   \* refresh_expires_in of an answer
    MaxTime             \* bound of the clock

ASSUME CallersAssumption == NoCaller \notin Callers
ASSUME TimeAssumption == Margin \in Nat /\ MaxTime \in Nat
ASSUME LifetimesAssumption == Lifetimes \subseteq Nat \ {0} /\ RefreshLifetimes \subseteq Nat \ {0}

VARIABLES
    grant,      \* which of the two functions has made the provider
    openid,     \* the captured OpenidToken
    mux,        \* who holds the mutex
    calls,      \* the call each goroutine is in
    now,        \* time
    held,       \* history: the last answer, unless a request has failed or a reset
                \* has run since
    disturbed   \* history: the call that has lost its AccessToken to a reset

vars == <<grant, openid, mux, calls, now, held, disturbed>>

\* A token is the time at which the auth server will refuse it, 0 is "", a
\* RequestTime of 0 is the zero Time.
Fields == {"AccessToken", "ExpiresIn", "RefreshToken", "RefreshExpiresIn", "RequestTime"}
OpenidToken == [Fields -> Nat]
NoToken == [f \in Fields |-> 0]

\* at and requestTime make the duration of a call, cached tells that it asks
\* nobody, bearer is what it returns, reset what it has still to clear.
CallRecord ==
    [pc : {"idle", "lock", "check", "refresh", "get", "bearer", "unlock", "fail", "reset"},
     at : Nat, requestTime : Nat, cached : BOOLEAN, bearer : Nat, reset : SUBSET Fields]
Idle == [pc |-> "idle", at |-> 0, requestTime |-> 0, cached |-> FALSE, bearer |-> 0, reset |-> {}]

TypeOK ==
    /\ grant \in {"client_credentials", "password"}
    /\ openid \in OpenidToken
    /\ mux \in Callers \cup {NoCaller}
    /\ calls \in [Callers -> CallRecord]
    /\ now \in 1..(MaxTime + 1)
    /\ held \in OpenidToken
    /\ disturbed \subseteq Callers

Init ==
    /\ grant \in {"client_credentials", "password"}
    /\ openid = NoToken
    /\ mux = NoCaller
    /\ calls = [c \in Callers |-> Idle]
    /\ now = 1
    /\ held = NoToken
    /\ disturbed = {}

At(c, pc) == calls[c].pc = pc

\* Mutant: the margin is added on the wrong side.
LastsLonger(lifetime, requestTime, t) ==
    requestTime # 0 /\ lifetime + requestTime + Margin > t

\* ExpiresIn > duration; the zero Time is longer ago than any token lasts.
Lasts(lifetime, requestTime, t) ==
    requestTime # 0 /\ lifetime + requestTime > t + Margin

-----------------------------------------------------------------------------
(* The call under the mutex                                                *)

Call(c) ==
    /\ At(c, "idle")
    /\ calls' = [calls EXCEPT ![c].pc = "lock"]
    /\ UNCHANGED <<grant, openid, mux, now, held, disturbed>>

\* Mutant: the token is looked at before the mutex is locked (and was not
\* there).
LockAfterRead(c) ==
    /\ At(c, "lock") /\ mux = NoCaller
    /\ mux' = c
    /\ calls' = [calls EXCEPT ![c].pc = "check", ![c].at = now]
    /\ UNCHANGED <<grant, openid, now, held, disturbed>>

\* Lock, and the duration since RequestTime.
Lock(c) ==
    /\ At(c, "lock") /\ mux = NoCaller
    /\ mux' = c
    /\ calls' = [calls EXCEPT ![c].pc = "check", ![c].at = now,
                   ![c].requestTime = openid["RequestTime"]]
    /\ UNCHANGED <<grant, openid, now, held, disturbed>>

AccessTokenLasts(c) ==
    /\ openid["AccessToken"] # 0
    /\ Lasts(openid["ExpiresIn"], calls[c].requestTime, calls[c].at)
RefreshTokenLasts(c) ==
    /\ openid["RefreshToken"] # 0
    /\ Lasts(openid["RefreshExpiresIn"], calls[c].requestTime, calls[c].at)

\* Mutant: the mutex is given up for the requests.
CheckAndUnlock(c) ==
    /\ At(c, "check")
    /\ \/ /\ AccessTokenLasts(c)
          /\ calls' = [calls EXCEPT ![c].pc = "bearer", ![c].cached = TRUE]
          /\ UNCHANGED mux
       \/ /\ ~AccessTokenLasts(c)
          /\ calls' = [calls EXCEPT
               ![c].pc = IF RefreshTokenLasts(c) THEN "refresh" ELSE "get",
               ![c].cached = FALSE, ![c].requestTime = now]
          /\ mux' = NoCaller
    /\ UNCHANGED <<grant, openid, now, held, disturbed>>

\* What the call does: use the token, refresh it, or get one.  From here on
\* requestTime is that of its own request.
Check(c) ==
    /\ At(c, "check")
    /\ \/ /\ AccessTokenLasts(c)
          /\ calls' = [calls EXCEPT ![c].pc = "bearer", ![c].cached = TRUE]
       \/ /\ ~AccessTokenLasts(c)
          /\ calls' = [calls EXCEPT
               ![c].pc = IF RefreshTokenLasts(c) THEN "refresh" ELSE "get",
               ![c].cached = FALSE, ![c].requestTime = now]
    /\ UNCHANGED <<grant, openid, mux, now, held, disturbed>>

\* An answer with a token, issued at some time since the request.
Answer(requestTime, issued, expiresIn, refreshExpiresIn) ==
    [NoToken EXCEPT !["AccessToken"] = issued + expiresIn,
                    !["ExpiresIn"] = expiresIn,
                    !["RefreshToken"] = issued + refreshExpiresIn,
                    !["RefreshExpiresIn"] = refreshExpiresIn,
                    !["RequestTime"] = requestTime]

\* Nothing, or (an error of the decoder) the fields that could be decoded.
Partly(answer, missing) == [f \in Fields |-> IF f \in missing THEN 0 ELSE answer[f]]
AfterError(requestTime) ==
    \/ openid' = NoToken
    \/ \E missing \in SUBSET (Fields \ {"RequestTime"}), issued \in requestTime..now,
          e \in Lifetimes, r \in RefreshLifetimes :
            openid' = Partly(Answer(requestTime, issued, e, r), missing)

Stored(c) ==
    /\ \E issued \in calls[c].requestTime..now, e \in Lifetimes, r \in RefreshLifetimes :
         openid' = Answer(calls[c].requestTime, issued, e, r)
    /\ held' = openid'
    /\ calls' = [calls EXCEPT ![c].pc = "bearer"]
    /\ UNCHANGED <<grant, mux, now, disturbed>>

refreshOpenidToken(c) == At(c, "refresh") /\ Stored(c)

\* Mutant: a refresh that fails ends the call, with what is left of openid.
RefreshFailsQuietly(c) ==
    /\ At(c, "refresh")
    /\ AfterError(calls[c].requestTime)
    /\ held' = NoToken
    /\ calls' = [calls EXCEPT ![c].pc = "bearer"]
    /\ UNCHANGED <<grant, mux, now, disturbed>>

\* Mutant: the refresh is tried again.
RefreshFailsAgain(c) ==
    /\ At(c, "refresh")
    /\ AfterError(calls[c].requestTime)
    /\ held' = NoToken
    /\ calls' = [calls EXCEPT ![c].requestTime = now]
    /\ UNCHANGED <<grant, mux, now, disturbed>>

\* The error is logged, and a new token is asked for.
RefreshFails(c) ==
    /\ At(c, "refresh")
    /\ AfterError(calls[c].requestTime)
    /\ held' = NoToken
    /\ calls' = [calls EXCEPT ![c].pc = "get", ![c].requestTime = now]
    /\ UNCHANGED <<grant, mux, now, disturbed>>

getOpenidToken(c) == At(c, "get") /\ Stored(c)
getOpenidPasswordToken(c) == At(c, "get") /\ Stored(c)

GetFails(c) ==
    /\ At(c, "get")
    /\ AfterError(calls[c].requestTime)
    /\ held' = NoToken
    /\ calls' = [calls EXCEPT ![c].pc = "fail"]
    /\ UNCHANGED <<grant, mux, now, disturbed>>

\* Mutant: the time that is left is returned.
BearerTime(c) ==
    /\ At(c, "bearer")
    /\ calls' = [calls EXCEPT ![c].pc = "unlock", ![c].bearer = openid["AccessToken"] - now]
    /\ UNCHANGED <<grant, openid, mux, now, held, disturbed>>

\* "Bearer " + openid.AccessToken, read once more.
Bearer(c) ==
    /\ At(c, "bearer")
    /\ calls' = [calls EXCEPT ![c].pc = "unlock", ![c].bearer = openid["AccessToken"]]
    /\ UNCHANGED <<grant, openid, mux, now, held, disturbed>>

\* The deferred functions run in reverse order.
Unlock(c) ==
    /\ At(c, "unlock") \/ At(c, "fail")
    /\ mux' = NoCaller
    /\ calls' = [calls EXCEPT
         ![c] = IF At(c, "fail") THEN [Idle EXCEPT !.pc = "reset", !.reset = Fields] ELSE Idle]
    /\ disturbed' = disturbed \ {c}
    /\ UNCHANGED <<grant, openid, now, held>>

\* openid = OpenidToken{}, one field at a time.
Reset(c, f) ==
    /\ At(c, "reset") /\ f \in calls[c].reset
    /\ openid' = [openid EXCEPT ![f] = 0]
    /\ held' = NoToken
    /\ calls' = [calls EXCEPT ![c] = IF @.reset = {f} THEN Idle
                                  ELSE [calls[c] EXCEPT !.reset = calls[c].reset \ {f}]]
    /\ UNCHANGED <<grant, mux, now>>
    /\ disturbed' = IF f = "AccessToken" /\ mux # NoCaller THEN disturbed \cup {mux} ELSE disturbed

Tick ==
    /\ now <= MaxTime
    /\ now' = now + 1
    /\ UNCHANGED <<grant, openid, mux, calls, held, disturbed>>

Step(c) ==
    \/ Lock(c)
    \/ Check(c)
    \/ refreshOpenidToken(c)
    \/ RefreshFails(c)
    \/ GetFails(c)
    \/ Bearer(c)
    \/ Unlock(c)
    \/ \E f \in Fields : Reset(c, f)

NewTokenProvider(c) == grant = "client_credentials" /\ (Step(c) \/ getOpenidToken(c))
NewUserTokenProvider(c) == grant = "password" /\ (Step(c) \/ getOpenidPasswordToken(c))

Next ==
    \/ \E c \in Callers : Call(c) \/ NewTokenProvider(c) \/ NewUserTokenProvider(c)
    \/ Tick

Spec == Init /\ [][Next]_vars

\* A goroutine goes on, a request ends (its client has a timeout), and a
\* mutex does not let a goroutine starve.  Nobody has to call.
Fairness ==
    \A c \in Callers :
        /\ WF_vars(NewTokenProvider(c) \/ NewUserTokenProvider(c))
        /\ SF_vars(Lock(c))
FairSpec == Spec /\ Fairness

-----------------------------------------------------------------------------
Inside(c) == calls[c].pc \in {"check", "refresh", "get", "bearer", "unlock", "fail"}

(***************************************************************************)
(* One request at a time: while a call asks the auth server nobody else    *)
(* does, and nobody else is between Lock and Unlock.                       *)
(***************************************************************************)
OneAtATime == \A c, d \in Callers : Inside(c) /\ Inside(d) => c = d

(***************************************************************************)
(* A token from memory will be accepted for Margin from the time the       *)
(* caller came: what the resets of failed calls leave of openid, in any    *)
(* order and mixed with a newer answer, never makes an old token look new. *)
(***************************************************************************)
CachedIsFresh ==
    \A c \in Callers :
        At(c, "unlock") /\ calls[c].cached /\ calls[c].bearer # 0 =>
            calls[c].bearer > calls[c].at + Margin

(***************************************************************************)
(* Callers that wait for the mutex share the answer of the first: nobody   *)
(* asks the auth server while the last answer lasts, if no request has     *)
(* failed and no reset has run since.  (The reset of a failed call may     *)
(* come late and discard an answer that another call has got since.)       *)
(***************************************************************************)
NoNeedlessRequest ==
    \A c \in Callers :
        calls[c].pc \in {"refresh", "get"} =>
            ~ (held # NoToken /\ Lasts(held["ExpiresIn"], held["RequestTime"], calls[c].at))

(***************************************************************************)
(* A call returns "Bearer " without a token and without an error only if   *)
(* the reset of a call that has failed hits it between its Lock and its    *)
(* return.  (It does happen: see the README.)                              *)
(***************************************************************************)
EmptyOnlyByReset ==
    \A c \in Callers : At(c, "unlock") /\ calls[c].bearer = 0 => c \in disturbed

(***************************************************************************)
(* Every call returns, with a token or an error, whatever the auth server  *)
(* does and however many others call.                                      *)
(***************************************************************************)
CallsReturn == \A c \in Callers : At(c, "lock") ~> At(c, "idle")
=============================================================================
