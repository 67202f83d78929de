----------------------------- MODULE TokenClient -----------------------------
(***************************************************************************)
(* internal/client/bcrs_client.go: the API client shared by the poller's   *)
(* goroutines.  A request with a token retries on rejection, and a token   *)
(* is fetched by one request (the leader) while the others wait for it.    *)
(*                                                                         *)
(* The k-th fetch yields token k: the upstream service is assumed to issue *)
(* a new token each time.  Token 0 stands for no token (Go's "").  What    *)
(* the answer of the service says is left to module TokenResponse.         *)
(*                                                                         *)
(* A definition marked "Variant" is the one after it with a plausible      *)
(* mistake; no specification uses it.                                      *)
(***************************************************************************)
EXTENDS TokenResponse

CONSTANTS
    Requests,     \* the calls of GetLocations and GetBinStatus, one goroutine each
    MaxRetries,   \* doWithRetry's maxRetries (3)
    MaxEpoch      \* bound: how often InvalidateToken is called

ASSUME ClientAssumption == MaxRetries \in Nat /\ MaxEpoch \in Nat

\* How fetchAccessToken may end, and how the leader's tokenCall ends for the
\* requests that wait for it.  "ctx" is an error that errors.Is takes for
\* context.Canceled or context.DeadlineExceeded: the leader's context is done or
\* the HTTP client timed out.
FetchOutcomes == {"token", "ctx", "failed", "panic"}
CallStates == FetchOutcomes \cup {"pending", "invalidated"}

VARIABLES
    token,      \* c.token
    fresh,      \* time.Now() is before c.tokenExpiry
    epoch,      \* c.tokenEpoch
    inFlight,   \* c.inFlightCall: the number of the fetch, 0 for nil
    calls,      \* calls[k]: state of the tokenCall of fetch k
    dead,       \* tokens that an invalidation has named so far (history)
    pc,         \* pc[r]: where request r is
    cancelled,  \* cancelled[r]: r's context is done
    attempt,    \* attempt[r]: doWithRetry's loop counter
    call,       \* call[r]: the fetch r leads or waits for
    began,      \* began[r]: the epoch r read when it became the leader
    outcome,    \* outcome[r]: what r's own fetchAccessToken returned
    held,       \* held[r]: the token r got from getAccessToken
    known,      \* known[r]: dead when r called getAccessToken (history)
    result      \* result[r]: how the request ended

cacheVars == <<token, fresh, epoch, inFlight, calls, dead>>
vars == <<cacheVars, pc, cancelled, attempt, call, began, outcome, held, known, result>>

Init ==
    /\ token = 0
    /\ fresh = FALSE
    /\ epoch = 0
    /\ inFlight = 0
    /\ calls = <<>>
    /\ dead = {}
    /\ pc        = [r \in Requests |-> "idle"]
    /\ cancelled = [r \in Requests |-> FALSE]
    /\ attempt   = [r \in Requests |-> 0]
    /\ call      = [r \in Requests |-> 0]
    /\ began     = [r \in Requests |-> 0]
    /\ outcome   = [r \in Requests |-> "token"]
    /\ held      = [r \in Requests |-> 0]
    /\ known     = [r \in Requests |-> {}]
    /\ result    = [r \in Requests |-> "none"]

Valid == token # 0 /\ fresh

\* r's getAccessToken returns t: doWithRetry goes on to the request itself.
Obtain(r, t) ==
    /\ held' = [held EXCEPT ![r] = t]
    /\ pc' = [pc EXCEPT ![r] = "send"]
    /\ UNCHANGED result

\* r's doWithRetry returns to its caller.
End(r, how) ==
    /\ result' = [result EXCEPT ![r] = how]
    /\ pc' = [pc EXCEPT ![r] = "ended"]
    /\ UNCHANGED held

\* r is at where next, within getAccessToken.
Goto(r, where) ==
    /\ pc' = [pc EXCEPT ![r] = where]
    /\ UNCHANGED <<held, result>>
-------------------------------------------------------------------------------
(* doWithRetry                                                              *)

Start(r) ==
    /\ pc[r] = "idle"
    /\ pc' = [pc EXCEPT ![r] = "get"]
    /\ known' = [known EXCEPT ![r] = dead]
    /\ UNCHANGED <<cacheVars, cancelled, attempt, call, began, outcome, held, result>>

\* Variant: one attempt too many.
RetryOnce(r) ==
    IF attempt[r] > MaxRetries
    THEN End(r, "failed")
    ELSE Goto(r, "backoff")

\* After the last attempt the request fails, else it sleeps and tries again.
Retry(r) ==
    IF attempt[r] = MaxRetries
    THEN End(r, "failed")
    ELSE Goto(r, "backoff")

\* Variant: any rejection drops the cached token.
RejectAny(t) ==
    /\ token' = 0
    /\ fresh' = FALSE
    /\ dead' = dead \cup {t}
    /\ UNCHANGED <<epoch, inFlight, calls>>

\* invalidateToken(t) for t # "": only the token that was rejected is dropped.
Reject(t) ==
    /\ token' = IF token = t THEN 0 ELSE token
    /\ fresh' = IF token = t THEN FALSE ELSE fresh
    /\ dead' = dead \cup {t}
    /\ UNCHANGED <<epoch, inFlight, calls>>

\* The response to a request that was sent with an old token may be late.
Forbidden(r) ==
    /\ pc[r] = "send"
    /\ Reject(held[r])
    /\ Retry(r)
    /\ UNCHANGED <<cancelled, attempt, call, began, outcome, known>>

\* A transport error (r's own timeout is one), 429 or 5xx.
Retryable(r) ==
    /\ pc[r] = "send"
    /\ Retry(r)
    /\ UNCHANGED <<cacheVars, cancelled, attempt, call, began, outcome, known>>

\* 2xx; another status, an unreadable body or the rate limiter's error: all of them
\* r's own failures.
Answered(r) ==
    /\ pc[r] = "send"
    /\ End(r, "ok") \/ End(r, "failed")
    /\ UNCHANGED <<cacheVars, cancelled, attempt, call, began, outcome, known>>

\* sleepWithContext is over.
Again(r) ==
    /\ pc[r] = "backoff"
    /\ pc' = [pc EXCEPT ![r] = "get"]
    /\ attempt' = [attempt EXCEPT ![r] = @ + 1]
    /\ known' = [known EXCEPT ![r] = dead]
    /\ UNCHANGED <<cacheVars, cancelled, call, began, outcome, held, result>>

\* The waits of doWithRetry end when the context does: the sleep and the limiter.
GiveUp(r) ==
    /\ pc[r] \in {"backoff", "send"}
    /\ cancelled[r]
    /\ End(r, "ctx")
    /\ UNCHANGED <<cacheVars, cancelled, attempt, call, began, outcome, known>>
-------------------------------------------------------------------------------
(* getAccessToken                                                           *)

\* The check of the context at the top of the loop and under the write lock.
GetCancelled(r) ==
    /\ pc[r] \in {"get", "lock"}
    /\ cancelled[r]
    /\ End(r, "ctx")
    /\ UNCHANGED <<cacheVars, cancelled, attempt, call, began, outcome, known>>

\* A valid token, found under the read lock or again under the write lock.
GetCached(r) ==
    /\ pc[r] \in {"get", "lock"}
    /\ ~cancelled[r]
    /\ Valid
    /\ Obtain(r, token)
    /\ UNCHANGED <<cacheVars, cancelled, attempt, call, began, outcome, known>>

\* No valid token under the read lock, which is released before the write lock.
GetMissed(r) ==
    /\ pc[r] = "get"
    /\ ~cancelled[r]
    /\ ~Valid
    /\ Goto(r, "lock")
    /\ UNCHANGED <<cacheVars, cancelled, attempt, call, began, outcome, known>>

Follow(r) ==
    /\ pc[r] = "lock"
    /\ ~cancelled[r]
    /\ ~Valid
    /\ inFlight # 0
    /\ call' = [call EXCEPT ![r] = inFlight]
    /\ Goto(r, "follow")
    /\ UNCHANGED <<cacheVars, cancelled, attempt, began, outcome, known>>

\* Variant: does not look for a fetch in flight.
LeadAlways(r) ==
    /\ pc[r] = "lock"
    /\ ~cancelled[r]
    /\ ~Valid
    /\ calls' = Append(calls, "pending")
    /\ inFlight' = Len(calls) + 1
    /\ call' = [call EXCEPT ![r] = Len(calls) + 1]
    /\ began' = [began EXCEPT ![r] = epoch]
    /\ Goto(r, "fetch")
    /\ UNCHANGED <<token, fresh, epoch, dead, cancelled, attempt, outcome, known>>

Lead(r) ==
    /\ pc[r] = "lock"
    /\ ~cancelled[r]
    /\ ~Valid
    /\ inFlight = 0
    /\ calls' = Append(calls, "pending")
    /\ inFlight' = Len(calls) + 1
    /\ call' = [call EXCEPT ![r] = Len(calls) + 1]
    /\ began' = [began EXCEPT ![r] = epoch]
    /\ Goto(r, "fetch")
    /\ UNCHANGED <<token, fresh, epoch, dead, cancelled, attempt, outcome, known>>

\* Variant: hands the leader's error on, whatever it is.
FollowerObeys(r) ==
    /\ pc[r] = "follow"
    /\ calls[call[r]] # "pending"
    /\ IF calls[call[r]] = "token"
       THEN Obtain(r, call[r])
       ELSE End(r, IF calls[call[r]] = "ctx" THEN "ctx" ELSE "failed")
    /\ UNCHANGED <<cacheVars, cancelled, attempt, call, began, outcome, known>>

\* call.done is closed.  A waiting request whose leader was cancelled, timed out or
\* was overtaken by an invalidation tries again with its own context.
FollowerWakes(r) ==
    /\ pc[r] = "follow"
    /\ calls[call[r]] # "pending"
    /\ \/ calls[call[r]] = "token" /\ Obtain(r, call[r])
       \/ calls[call[r]] # "token" /\ cancelled[r] /\ End(r, "ctx")
       \/ calls[call[r]] \in {"ctx", "invalidated"} /\ ~cancelled[r] /\ Goto(r, "get")
       \/ calls[call[r]] \in {"failed", "panic"} /\ ~cancelled[r] /\ End(r, "failed")
    /\ UNCHANGED <<cacheVars, cancelled, attempt, call, began, outcome, known>>

FollowerCancelled(r) ==
    /\ pc[r] = "follow"
    /\ cancelled[r]
    /\ End(r, "ctx")
    /\ UNCHANGED <<cacheVars, cancelled, attempt, call, began, outcome, known>>

\* fetchAccessToken, with its own doWithRetry, returns or panics; nothing is locked.
\* Only a done context or a timeout of the HTTP client gives "ctx".
Fetch(r) ==
    /\ pc[r] = "fetch"
    /\ \E o \in FetchOutcomes : outcome' = [outcome EXCEPT ![r] = o]
    /\ Goto(r, "publish")
    /\ UNCHANGED <<cacheVars, cancelled, attempt, call, began, known>>

\* Variant: does not look at the epoch.
VerdictBlind(r) == outcome[r]

\* What the leader tells the waiting requests: a token is only good if no
\* InvalidateToken came since the fetch began.
Verdict(r) ==
    IF outcome[r] = "token" /\ epoch # began[r] THEN "invalidated" ELSE outcome[r]

\* Variant: a panic is not recovered from, and the call stays open.
PublishNoRecover(r) ==
    /\ pc[r] = "publish"
    /\ IF outcome[r] = "panic"
       THEN /\ End(r, "panic")
            /\ UNCHANGED <<token, fresh, inFlight, calls>>
       ELSE /\ inFlight' = 0
            /\ calls' = [calls EXCEPT ![call[r]] = Verdict(r)]
            /\ IF Verdict(r) = "token"
               THEN token' = call[r] /\ fresh' = TRUE /\ Obtain(r, call[r])
               ELSE UNCHANGED <<token, fresh>> /\ End(r, "failed")
    /\ UNCHANGED <<epoch, dead, cancelled, attempt, call, began, outcome, known>>

\* The leader's second critical section, the recovery from a panic included.
Publish(r) ==
    /\ pc[r] = "publish"
    /\ inFlight' = 0
    /\ calls' = [calls EXCEPT ![call[r]] = Verdict(r)]
    /\ IF Verdict(r) = "token"
       THEN token' = call[r] /\ fresh' = TRUE
       ELSE UNCHANGED <<token, fresh>>
    /\ \/ Verdict(r) = "token" /\ Obtain(r, call[r])
       \/ Verdict(r) = "ctx" /\ End(r, "ctx")
       \/ Verdict(r) = "panic" /\ End(r, "panic")
       \/ /\ Verdict(r) = "invalidated" \/ (Verdict(r) = "failed" /\ epoch # began[r])
          /\ ~cancelled[r]
          /\ Goto(r, "get")
       \/ /\ \/ Verdict(r) = "failed" /\ epoch = began[r]
             \/ Verdict(r) \in {"failed", "invalidated"} /\ cancelled[r]
          /\ End(r, "failed")
    /\ UNCHANGED <<epoch, dead, cancelled, attempt, call, began, outcome, known>>
-------------------------------------------------------------------------------
(* The environment                                                          *)

\* InvalidateToken(): the cached token and every fetch in flight are void.
InvalidateToken ==
    /\ epoch < MaxEpoch
    /\ token' = 0
    /\ fresh' = FALSE
    /\ epoch' = epoch + 1
    /\ dead' = dead \cup 1..Len(calls)
    /\ UNCHANGED <<inFlight, calls, pc, cancelled, attempt, call, began, outcome, held,
                   known, result>>

\* The cached token reaches its expiry.
Expire ==
    /\ Valid
    /\ fresh' = FALSE
    /\ UNCHANGED <<token, epoch, inFlight, calls, dead, pc, cancelled, attempt, call, began,
                   outcome, held, known, result>>

Cancel(r) ==
    /\ pc[r] # "ended"
    /\ cancelled' = [cancelled EXCEPT ![r] = TRUE]
    /\ UNCHANGED <<cacheVars, pc, attempt, call, began, outcome, held, known, result>>
-------------------------------------------------------------------------------
RequestStep(r) ==
    \/ Forbidden(r) \/ Retryable(r) \/ Answered(r) \/ Again(r) \/ GiveUp(r)
    \/ GetCancelled(r) \/ GetCached(r) \/ GetMissed(r) \/ Follow(r) \/ Lead(r)
    \/ FollowerWakes(r) \/ FollowerCancelled(r) \/ Fetch(r) \/ Publish(r)

Next ==
    \/ \E r \in Requests : Start(r) \/ RequestStep(r) \/ Cancel(r)
    \/ InvalidateToken
    \/ Expire

Spec == Init /\ [][Next]_vars

\* A request goroutine that can go on does: locks are held for a few instructions,
\* a fetch and a request end within the HTTP client's timeout, a sleep ends.
FairSpec == Spec /\ \A r \in Requests : WF_vars(RequestStep(r))
-------------------------------------------------------------------------------
(* Properties.                                                              *)

Fetches == 0..Len(calls)
Leaders == {r \in Requests : pc[r] \in {"fetch", "publish"}}

\* Every variable has its type.
TypeOK ==
    /\ calls \in Seq(CallStates)
    /\ token \in Fetches
    /\ fresh \in BOOLEAN
    /\ epoch \in Nat
    /\ inFlight \in Fetches
    /\ dead \subseteq Fetches
    /\ pc \in [Requests -> {"idle", "get", "lock", "follow", "fetch", "publish", "send",
                            "backoff", "ended"}]
    /\ cancelled \in [Requests -> BOOLEAN]
    /\ attempt \in [Requests -> 0..MaxRetries]
    /\ call \in [Requests -> Fetches]
    /\ began \in [Requests -> Nat]
    /\ outcome \in [Requests -> FetchOutcomes]
    /\ held \in [Requests -> Fetches]
    /\ known \in [Requests -> SUBSET Fetches]
    /\ result \in [Requests -> {"none", "ok", "failed", "ctx", "panic"}]

\* At most one token fetch is under way, the client knows of it as long as it is,
\* and forgets it when it ends, even by a panic: a request never waits for a call
\* that nobody will complete.
SingleFlight ==
    /\ \A q, r \in Leaders : q = r
    /\ \A r \in Leaders : inFlight = call[r] /\ calls[call[r]] = "pending"
    /\ inFlight # 0 => Leaders # {}
    /\ \A r \in Requests :
          pc[r] = "follow" /\ calls[call[r]] = "pending" => call[r] = inFlight

\* A request never gets a token that was rejected or invalidated before it asked
\* for one: not from the cache, not from a fetch it leads and not from a fetch of
\* another request that was under way at the time.
FreshToken == \A r \in Requests : pc[r] = "send" => held[r] # 0 /\ held[r] \notin known[r]

\* A fetch only starts if the last one gave no token, or its token was rejected,
\* invalidated or has expired: a late 403 for an older token, or many requests that
\* are rejected with the same one, cost no fetch of their own.
NeededFetch ==
    Len(calls') > Len(calls) /\ Len(calls) > 0 =>
        \/ calls[Len(calls)] # "token"
        \/ Len(calls) \in dead
        \/ token = Len(calls) /\ ~fresh

FetchOnlyWhenNeeded == [][NeededFetch]_vars

\* A request whose context is live only fails with a context error if the fetch it
\* led itself timed out: the cancellation of another request never reaches it.
OwnContext ==
    \A r \in Requests :
        result[r] = "none" /\ result'[r] = "ctx" =>
            cancelled[r] \/ (pc[r] = "publish" /\ outcome[r] = "ctx")

NoForeignCancellation == [][OwnContext]_vars

\* Every request ends, whichever requests are cancelled, fail or panic meanwhile.
RequestsEnd == \A r \in Requests : pc[r] = "get" ~> pc[r] = "ended"
-------------------------------------------------------------------------------
(* Of TokenResponse.  They say nothing of a state: TLC looks at them in the initial  *)
(* one.                                                                              *)

\* HonoursLifetime and HonoursPastDate: the token is cached for the lifetime that the
\* access-token answer states, which a past date under an earlier name overrules.
LifetimeHonoured == Init => HonoursLifetime /\ HonoursPastDate
===============================================================================
