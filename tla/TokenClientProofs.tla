--------------------------- MODULE TokenClientProofs ---------------------------
(* Theorems about TokenClient, for any number of requests, retries and         *)
(* invalidations, and about TokenResponse, for any clock, lifetime and answer. *)
EXTENDS TokenClient, Integers, FiniteSetTheorems, TLAPS

\* A request that sleeps has an attempt left.
AttemptInv == \A r \in Requests : pc[r] = "backoff" => attempt[r] < MaxRetries

\* A waiting or leading request has a call.
CallInv == \A r \in Requests : pc[r] \in {"follow", "fetch", "publish"} => call[r] # 0

\* Only issued tokens are invalidated, and only those are known to be.
DeadInv == dead \subseteq 1..Len(calls) /\ \A r \in Requests : known[r] \subseteq dead

\* The cached token is good, and the last fetch's token is the cached one unless it
\* was invalidated.
CachedInv ==
    /\ token # 0 => token \notin dead /\ calls[token] = "token"
    /\ Len(calls) > 0 /\ calls[Len(calls)] = "token" /\ Len(calls) \notin dead
           => token = Len(calls)

\* The leader's fetch is the last one, younger than its request, and if it is void
\* the epoch tells.
LeadInv ==
    \A r \in Leaders : /\ call[r] = Len(calls)
                       /\ call[r] \notin known[r]
                       /\ began[r] <= epoch
                       /\ call[r] \in dead => began[r] # epoch

\* A fetch that was void when the request asked gives a waiting request no token.
FollowInv ==
    \A r \in Requests :
        pc[r] = "follow" /\ calls[call[r]] = "token" => call[r] \notin known[r]

HeldInv ==
    \A r \in Requests : pc[r] = "send" =>
        held[r] # 0 /\ calls[held[r]] = "token" /\ held[r] \notin known[r]

SInv == SingleFlight /\ DeadInv /\ CachedInv /\ LeadInv /\ FollowInv /\ HeldInv

TypeInv == TypeOK /\ AttemptInv /\ CallInv

IInv == TypeInv /\ SInv

LEMMA CallsAppend ==
    ASSUME NEW s \in Seq(CallStates), NEW x \in CallStates
    PROVE  /\ Append(s, x) \in Seq(CallStates)
           /\ Len(Append(s, x)) = Len(s) + 1
           /\ Append(s, x)[Len(s) + 1] = x
           /\ \A i \in 1..Len(s) : Append(s, x)[i] = s[i]
  OBVIOUS

LEMMA CallsUpdate ==
    ASSUME NEW s \in Seq(CallStates), NEW x \in CallStates, NEW k \in 1..Len(s)
    PROVE  /\ [s EXCEPT ![k] = x] \in Seq(CallStates)
           /\ Len([s EXCEPT ![k] = x]) = Len(s)
           /\ [s EXCEPT ![k] = x][k] = x
           /\ \A i \in 1..Len(s) : i # k => [s EXCEPT ![k] = x][i] = s[i]
  OBVIOUS

LEMMA VerdictTyped ==
    ASSUME TypeOK, NEW r \in Requests
    PROVE  Verdict(r) \in CallStates
  BY DEF TypeOK, Verdict, CallStates, FetchOutcomes

-------------------------------------------------------------------------------
(* Type correctness.                                                          *)

\* The variables that say where a request is and what it got.
MoveTypes ==
    /\ pc \in [Requests -> {"idle", "get", "lock", "follow", "fetch", "publish", "send",
                            "backoff", "ended"}]
    /\ held \in [Requests -> Fetches]
    /\ result \in [Requests -> {"none", "ok", "failed", "ctx", "panic"}]

LEMMA ObtainTyped ==
    ASSUME TypeOK, NEW r \in Requests, NEW t \in Fetches, Obtain(r, t), Fetches' = Fetches
    PROVE  MoveTypes' /\ pc'[r] = "send" /\ \A q \in Requests \ {r} : pc'[q] = pc[q]
  BY DEF TypeOK, Obtain, MoveTypes

LEMMA EndTyped ==
    ASSUME TypeOK, NEW r \in Requests, NEW how \in {"ok", "failed", "ctx", "panic"},
           End(r, how), Fetches' = Fetches
    PROVE  MoveTypes' /\ pc'[r] = "ended" /\ \A q \in Requests \ {r} : pc'[q] = pc[q]
  BY DEF TypeOK, End, MoveTypes

LEMMA GotoTyped ==
    ASSUME TypeOK, NEW r \in Requests,
           NEW where \in {"get", "lock", "follow", "fetch", "publish", "backoff"},
           Goto(r, where), Fetches \subseteq Fetches'
    PROVE  MoveTypes' /\ pc'[r] = where /\ \A q \in Requests \ {r} : pc'[q] = pc[q]
  BY DEF TypeOK, Goto, MoveTypes

LEMMA RetryTyped ==
    ASSUME TypeInv, NEW r \in Requests, Retry(r), Fetches' = Fetches, attempt' = attempt
    PROVE  /\ MoveTypes'
           /\ pc'[r] \in {"ended", "backoff"}
           /\ pc'[r] = "backoff" => attempt'[r] < MaxRetries
           /\ \A q \in Requests \ {r} : pc'[q] = pc[q]
  <1>1. CASE attempt[r] = MaxRetries
    BY <1>1, EndTyped DEF Retry, TypeInv
  <1>2. CASE attempt[r] # MaxRetries
    <2>1. attempt[r] \in 0..MaxRetries
      BY DEF TypeInv, TypeOK
    <2>2. attempt[r] < MaxRetries
      BY <1>2, <2>1, ClientAssumption
    <2>3. QED
      BY <1>2, <2>2, GotoTyped DEF Retry, TypeInv
  <1>3. QED
    BY <1>1, <1>2

LEMMA InitTyped ==
    ASSUME Init
    PROVE  TypeInv
  <1>1. calls \in Seq(CallStates) /\ Len(calls) = 0
    BY DEF Init
  <1>2. 0 \in Fetches /\ 0 \in 0..MaxRetries
    BY <1>1, ClientAssumption DEF Fetches
  <1>3. QED
    BY <1>1, <1>2 DEF Init, TypeInv, TypeOK, AttemptInv, CallInv, CallStates, FetchOutcomes

LEMMA StepTyped ==
    ASSUME TypeInv, [Next]_vars
    PROVE  TypeInv'
  <1> USE DEF TypeInv, AttemptInv, CallInv
  \* What is left to prove of an action that does not touch the calls.
  <1>a. ASSUME UNCHANGED <<calls, epoch, began, outcome>>, token' \in Fetches,
               fresh' \in BOOLEAN, inFlight' \in Fetches, dead' \subseteq Fetches,
               MoveTypes', cancelled' \in [Requests -> BOOLEAN],
               attempt' \in [Requests -> 0..MaxRetries], call' \in [Requests -> Fetches],
               known' \in [Requests -> SUBSET Fetches]
        PROVE  TypeOK'
    BY <1>a DEF TypeOK, Fetches, MoveTypes
  <1>1. ASSUME NEW r \in Requests, Start(r) \/ Again(r)
        PROVE  TypeInv'
    <2>1. Fetches' = Fetches
      BY <1>1 DEF Start, Again, cacheVars, Fetches
    <2>2. attempt' \in [Requests -> 0..MaxRetries]
      <3>1. CASE Start(r)
        BY <3>1 DEF Start, TypeOK
      <3>2. CASE Again(r)
        <4>1. attempt[r] \in 0..MaxRetries /\ attempt[r] < MaxRetries
          BY <3>2 DEF Again, TypeOK
        <4>2. attempt[r] + 1 \in 0..MaxRetries
          BY <4>1, ClientAssumption
        <4>3. QED
          BY <3>2, <4>2 DEF Again, TypeOK
      <3>3. QED
        BY <1>1, <3>1, <3>2
    <2>3. TypeOK'
      BY <1>1, <2>1, <2>2, <1>a DEF Start, Again, cacheVars, TypeOK, MoveTypes
    <2>4. QED
      BY <1>1, <2>3 DEF Start, Again, TypeOK
  <1>2. ASSUME NEW r \in Requests, Forbidden(r) \/ Retryable(r)
        PROVE  TypeInv'
    <2>1. /\ Fetches' = Fetches
          /\ Retry(r)
          /\ UNCHANGED <<calls, epoch, began, outcome, inFlight, cancelled, attempt, call, known>>
          /\ token' \in {token, 0} /\ fresh' \in {fresh, FALSE}
          /\ dead' \in {dead, dead \cup {held[r]}}
      BY <1>2 DEF Forbidden, Retryable, Reject, cacheVars, Fetches
    <2>2. 0 \in Fetches
      BY DEF TypeOK, Fetches
    <2>3. MoveTypes'
      BY <2>1, RetryTyped
    <2>4. token' \in Fetches /\ fresh' \in BOOLEAN /\ dead' \subseteq Fetches
      BY <2>1, <2>2 DEF TypeOK
    <2>5. /\ inFlight' \in Fetches /\ cancelled' \in [Requests -> BOOLEAN]
          /\ attempt' \in [Requests -> 0..MaxRetries] /\ call' \in [Requests -> Fetches]
          /\ known' \in [Requests -> SUBSET Fetches]
      BY <2>1 DEF TypeOK
    <2>6. TypeOK'
      BY <2>1, <2>3, <2>4, <2>5, <1>a
    <2>7. QED
      BY <2>1, <2>6, RetryTyped
  <1>3. ASSUME NEW r \in Requests,
               \/ Answered(r) \/ GiveUp(r) \/ GetCancelled(r) \/ FollowerCancelled(r)
        PROVE  TypeInv'
    <2>1. /\ Fetches' = Fetches
          /\ \E how \in {"ok", "failed", "ctx"} : End(r, how)
          /\ UNCHANGED <<cacheVars, cancelled, attempt, call, began, outcome, known>>
      BY <1>3 DEF Answered, GiveUp, GetCancelled, FollowerCancelled, cacheVars, Fetches
    <2>2. TypeOK'
      BY <2>1, <1>a, EndTyped DEF TypeOK, cacheVars
    <2>3. QED
      BY <2>1, <2>2, EndTyped
  <1>4. ASSUME NEW r \in Requests, GetCached(r) \/ FollowerWakes(r)
        PROVE  TypeInv'
    <2>1. /\ Fetches' = Fetches
          /\ UNCHANGED <<cacheVars, cancelled, attempt, call, began, outcome, known>>
          /\ \/ \E t \in Fetches : Obtain(r, t)
             \/ \E how \in {"failed", "ctx"} : End(r, how)
             \/ Goto(r, "get")
      BY <1>4 DEF GetCached, FollowerWakes, cacheVars, Fetches, TypeOK
    <2>2. MoveTypes' /\ pc'[r] \in {"send", "ended", "get"}
                     /\ \A q \in Requests \ {r} : pc'[q] = pc[q]
      BY <2>1, ObtainTyped, EndTyped, GotoTyped
    <2>3. TypeOK'
      BY <2>1, <2>2, <1>a DEF TypeOK, cacheVars
    <2>4. QED
      BY <2>1, <2>2, <2>3
  <1>5. ASSUME NEW r \in Requests, GetMissed(r) \/ Follow(r)
        PROVE  TypeInv'
    <2>1. /\ Fetches' = Fetches
          /\ UNCHANGED <<cacheVars, cancelled, attempt, began, outcome, known>>
          /\ Goto(r, "lock") \/ Goto(r, "follow")
          /\ Goto(r, "follow") => call' = [call EXCEPT ![r] = inFlight] /\ inFlight # 0
          /\ Goto(r, "lock") => call' = call
      BY <1>5 DEF GetMissed, Follow, Goto, cacheVars, Fetches, TypeOK
    <2>2. MoveTypes' /\ pc'[r] \in {"lock", "follow"}
                     /\ \A q \in Requests \ {r} : pc'[q] = pc[q]
      BY <2>1, GotoTyped
    <2>3. TypeOK'
      BY <2>1, <2>2, <1>a, ZenonT(40) DEF TypeOK, cacheVars
    <2>4. QED
      BY <2>1, <2>2, <2>3 DEF TypeOK, Goto
  <1>6. ASSUME NEW r \in Requests, Lead(r)
        PROVE  TypeInv'
    <2>1. calls' \in Seq(CallStates) /\ Len(calls') = Len(calls) + 1
      <3>1. "pending" \in CallStates
        BY DEF CallStates
      <3>2. QED
        BY <1>6, <3>1, CallsAppend DEF Lead, TypeOK
    <2>2. Fetches \subseteq Fetches' /\ Len(calls) + 1 \in Fetches' /\ Len(calls) + 1 # 0
      BY <2>1 DEF Fetches, TypeOK
    <2>3. MoveTypes' /\ pc'[r] = "fetch" /\ \A q \in Requests \ {r} : pc'[q] = pc[q]
      BY <1>6, <2>2, GotoTyped DEF Lead
    <2>4. TypeOK'
      BY <1>6, <2>1, <2>2, <2>3 DEF Lead, TypeOK, MoveTypes
    <2>5. QED
      BY <1>6, <2>2, <2>3, <2>4 DEF Lead, TypeOK
  <1>7. ASSUME NEW r \in Requests, Fetch(r)
        PROVE  TypeInv'
    <2>1. Fetches' = Fetches
      BY <1>7 DEF Fetch, cacheVars, Fetches
    <2>2. MoveTypes' /\ pc'[r] = "publish" /\ \A q \in Requests \ {r} : pc'[q] = pc[q]
      BY <1>7, <2>1, GotoTyped DEF Fetch
    <2>3. outcome' \in [Requests -> FetchOutcomes]
      BY <1>7 DEF Fetch, TypeOK
    <2>4. TypeOK'
      BY <1>7, <2>1, <2>2, <2>3 DEF Fetch, TypeOK, MoveTypes, cacheVars
    <2>5. QED
      BY <1>7, <2>2, <2>4 DEF Fetch
  <1>8. ASSUME NEW r \in Requests, Publish(r)
        PROVE  TypeInv'
    <2>1. call[r] \in 1..Len(calls)
      BY <1>8 DEF Publish, TypeOK, Fetches
    <2>2. calls' \in Seq(CallStates) /\ Len(calls') = Len(calls)
      BY <1>8, <2>1, VerdictTyped, CallsUpdate DEF Publish, TypeOK
    <2>3. Fetches' = Fetches /\ call[r] \in Fetches /\ 0 \in Fetches
      BY <2>1, <2>2 DEF Fetches
    <2>4. MoveTypes' /\ pc'[r] \in {"send", "ended", "get"}
                     /\ \A q \in Requests \ {r} : pc'[q] = pc[q]
      BY <1>8, <2>3, ObtainTyped, EndTyped, GotoTyped DEF Publish
    <2>5. TypeOK'
      BY <1>8, <2>2, <2>3, <2>4 DEF Publish, TypeOK, MoveTypes
    <2>6. QED
      BY <1>8, <2>4, <2>5 DEF Publish
  <1>9. CASE InvalidateToken
    <2>1. Fetches' = Fetches /\ 1..Len(calls) \subseteq Fetches /\ 0 \in Fetches /\ epoch' \in Nat
      BY <1>9 DEF InvalidateToken, Fetches, TypeOK
    <2>2. TypeOK'
      BY <1>9, <2>1 DEF InvalidateToken, TypeOK
    <2>3. QED
      BY <1>9, <2>2 DEF InvalidateToken
  <1>10. CASE Expire \/ UNCHANGED vars
    BY <1>10 DEF Expire, vars, cacheVars, TypeOK, Fetches
  <1>11. ASSUME NEW r \in Requests, Cancel(r)
         PROVE  TypeInv'
    BY <1>11 DEF Cancel, cacheVars, TypeOK, Fetches
  <1>12. QED
    BY <1>1, <1>2, <1>3, <1>4, <1>5, <1>6, <1>7, <1>8, <1>9, <1>10, <1>11
       DEF Next, RequestStep

\* Every variable of the client has its type in every behaviour, whatever the number
\* of requests; in particular attempt never passes doWithRetry's maxRetries.
THEOREM TypeCorrect == Spec => []TypeOK
  <1>1. Init => TypeInv
    BY InitTyped
  <1>2. TypeInv /\ [Next]_vars => TypeInv'
    BY StepTyped
  <1>3. TypeInv => TypeOK
    BY DEF TypeInv
  <1>4. QED
    BY <1>1, <1>2, <1>3, PTL DEF Spec
-------------------------------------------------------------------------------
(* The inductive invariant: only the first token of the cache, the leader and *)
(* its followers matter, so most steps of a request are quiet.                *)

\* A step of requests that neither lead, follow nor get a token.
Quiet ==
    /\ UNCHANGED <<token, epoch, inFlight, calls, dead, call, began>>
    /\ \A q \in Requests :
          \/ pc'[q] = pc[q] /\ known'[q] = known[q] /\ held'[q] = held[q]
          \/ /\ pc'[q] \in {"get", "lock", "backoff", "ended"}
             /\ pc[q] \notin {"fetch", "publish"}
             /\ known'[q] \in {known[q], dead}

LEMMA QuietSafe ==
    ASSUME IInv, Quiet
    PROVE  SInv'
  <1> USE DEF IInv, Quiet
  <1>1. Leaders' = Leaders
    BY DEF Leaders
  <1>2. SingleFlight'
    BY <1>1 DEF SInv, SingleFlight
  <1>3. DeadInv' /\ CachedInv'
    BY DEF SInv, DeadInv, CachedInv
  <1>4. LeadInv'
    BY <1>1 DEF SInv, LeadInv, Leaders
  <1>5. FollowInv' /\ HeldInv'
    BY DEF SInv, FollowInv, HeldInv
  <1>6. QED
    BY <1>2, <1>3, <1>4, <1>5 DEF SInv

LEMMA QuietSteps ==
    ASSUME IInv, NEW r \in Requests,
           \/ Start(r) \/ Retryable(r) \/ Answered(r) \/ Again(r) \/ GiveUp(r)
           \/ GetCancelled(r) \/ GetMissed(r) \/ FollowerCancelled(r) \/ Cancel(r)
    PROVE  Quiet
  <1> USE DEF IInv, TypeInv, TypeOK, Quiet, cacheVars
  <1>1. CASE Start(r) \/ Again(r)
    BY <1>1 DEF Start, Again
  <1>2. CASE Retryable(r)
    BY <1>2 DEF Retryable, Retry, End, Goto
  <1>3. CASE Answered(r) \/ GiveUp(r) \/ GetCancelled(r) \/ FollowerCancelled(r)
    BY <1>3 DEF Answered, GiveUp, GetCancelled, FollowerCancelled, End
  <1>4. CASE GetMissed(r) \/ Cancel(r)
    BY <1>4 DEF GetMissed, Goto, Cancel
  <1>5. QED
    BY <1>1, <1>2, <1>3, <1>4

LEMMA InitSafe ==
    ASSUME Init
    PROVE  SInv
  BY DEF Init, SInv, SingleFlight, DeadInv, CachedInv, LeadInv, FollowInv, HeldInv, Leaders

\* The token that is rejected was issued: it is not that of the fetch under way.
LEMMA ForbiddenSafe ==
    ASSUME IInv, NEW r \in Requests, Forbidden(r)
    PROVE  SInv'
  <1> DEFINE t == held[r]
  <1>1. t # 0 /\ calls[t] = "token" /\ t \in 1..Len(calls)
    BY DEF IInv, SInv, HeldInv, Forbidden, TypeInv, TypeOK, Fetches
  <1>2. /\ UNCHANGED <<epoch, inFlight, calls, call, began, known, held>>
        /\ dead' = dead \cup {t}
        /\ token' = IF token = t THEN 0 ELSE token
        /\ pc[r] = "send"
        /\ pc'[r] \in {"ended", "backoff"}
        /\ \A q \in Requests \ {r} : pc'[q] = pc[q]
    BY DEF Forbidden, Reject, Retry, End, Goto, IInv, TypeInv, TypeOK
  <1> HIDE DEF t
  <1>3. Leaders' = Leaders
    BY <1>2 DEF Leaders
  <1>4. SingleFlight'
    BY <1>2, <1>3 DEF IInv, SInv, SingleFlight
  <1>5. DeadInv'
    BY <1>1, <1>2 DEF IInv, SInv, DeadInv
  <1>6. CachedInv'
    BY <1>1, <1>2 DEF IInv, SInv, CachedInv
  <1>7. LeadInv'
    BY <1>1, <1>2, <1>3 DEF IInv, SInv, LeadInv, SingleFlight
  <1>8. FollowInv' /\ HeldInv'
    BY <1>2 DEF IInv, SInv, FollowInv, HeldInv
  <1>9. QED
    BY <1>4, <1>5, <1>6, <1>7, <1>8 DEF SInv

\* The cached token, or that of the fetch that r waited for.
LEMMA ObtainSafe ==
    ASSUME IInv, NEW r \in Requests, GetCached(r) \/ FollowerWakes(r)
    PROVE  SInv'
  <1>1. /\ UNCHANGED <<token, epoch, inFlight, calls, dead, call, began, known>>
        /\ pc[r] \notin {"fetch", "publish"}
        /\ pc'[r] \in {"send", "get", "ended"}
        /\ \A q \in Requests \ {r} : pc'[q] = pc[q] /\ held'[q] = held[q]
    BY DEF GetCached, FollowerWakes, Obtain, End, Goto, cacheVars, IInv, TypeInv, TypeOK
  <1>2. pc'[r] = "send" =>
            held'[r] # 0 /\ calls[held'[r]] = "token" /\ held'[r] \notin known[r]
    <2>1. CASE GetCached(r)
      BY <2>1 DEF GetCached, Obtain, Valid, IInv, SInv, CachedInv, DeadInv, TypeInv, TypeOK
    <2>2. CASE FollowerWakes(r)
      BY <2>2 DEF FollowerWakes, Obtain, End, Goto, IInv, SInv, FollowInv, TypeInv, TypeOK,
                  CallInv
    <2>3. QED
      BY <2>1, <2>2
  <1>3. Leaders' = Leaders
    BY <1>1 DEF Leaders
  <1>4. SingleFlight'
    BY <1>1, <1>3 DEF IInv, SInv, SingleFlight
  <1>5. DeadInv' /\ CachedInv' /\ LeadInv'
    BY <1>1, <1>3 DEF IInv, SInv, DeadInv, CachedInv, LeadInv
  <1>6. FollowInv' /\ HeldInv'
    BY <1>1, <1>2 DEF IInv, SInv, FollowInv, HeldInv
  <1>7. QED
    BY <1>4, <1>5, <1>6 DEF SInv

LEMMA FollowSafe ==
    ASSUME IInv, NEW r \in Requests, Follow(r)
    PROVE  SInv'
  <1>1. /\ UNCHANGED <<token, epoch, inFlight, calls, dead, began, known, held>>
        /\ pc[r] = "lock" /\ pc'[r] = "follow" /\ call'[r] = inFlight
        /\ \A q \in Requests \ {r} : pc'[q] = pc[q] /\ call'[q] = call[q]
    BY DEF Follow, Goto, cacheVars, IInv, TypeInv, TypeOK
  <1>2. calls[inFlight] = "pending"
    BY DEF Follow, IInv, SInv, SingleFlight
  <1>3. Leaders' = Leaders /\ r \notin Leaders
    BY <1>1 DEF Leaders
  <1>4. SingleFlight'
    BY <1>1, <1>3 DEF IInv, SInv, SingleFlight, Leaders
  <1>5. DeadInv' /\ CachedInv'
    BY <1>1 DEF IInv, SInv, DeadInv, CachedInv
  <1>6. LeadInv'
    BY <1>1, <1>3 DEF IInv, SInv, LeadInv, Leaders
  <1>7. FollowInv' /\ HeldInv'
    BY <1>1, <1>2 DEF IInv, SInv, FollowInv, HeldInv
  <1>8. QED
    BY <1>4, <1>5, <1>6, <1>7 DEF SInv

\* Without a fetch in flight there is no leader, and no follower waits.
LEMMA LeadSafe ==
    ASSUME IInv, NEW r \in Requests, Lead(r)
    PROVE  SInv'
  <1> DEFINE n == Len(calls) + 1
  <1>1. /\ n \in Nat /\ n # 0 /\ Len(calls) \in Nat /\ Len(calls') = n
        /\ calls'[n] = "pending"
        /\ \A k \in 1..Len(calls) : calls'[k] = calls[k]
    <2>1. "pending" \in CallStates /\ calls \in Seq(CallStates) /\ calls' = Append(calls, "pending")
      BY DEF CallStates, Lead, IInv, TypeInv, TypeOK
    <2>2. QED
      BY <2>1, CallsAppend
  <1>2. /\ UNCHANGED <<token, epoch, dead, known, held>>
        /\ inFlight = 0 /\ inFlight' = n
        /\ pc[r] = "lock" /\ pc'[r] = "fetch" /\ call'[r] = n /\ began'[r] = epoch
        /\ \A q \in Requests \ {r} :
              pc'[q] = pc[q] /\ call'[q] = call[q] /\ began'[q] = began[q]
    BY DEF Lead, Goto, IInv, TypeInv, TypeOK
  <1>3. /\ token \in 0..Len(calls) /\ epoch \in Nat
        /\ \A q \in Requests : call[q] \in 0..Len(calls) /\ held[q] \in 0..Len(calls)
        /\ dead \subseteq 1..Len(calls) /\ \A q \in Requests : known[q] \subseteq dead
    BY DEF IInv, TypeInv, TypeOK, Fetches, SInv, DeadInv
  <1>4. n \notin dead /\ \A k \in 0..Len(calls) : k # 0 => k \in 1..Len(calls) /\ k # n
    BY <1>1, <1>3
  <1> HIDE DEF n
  <1>5. Leaders = {}
    BY <1>2 DEF IInv, SInv, SingleFlight, TypeInv, CallInv, Leaders
  <1>6. Leaders' = {r}
    BY <1>2, <1>5 DEF Leaders
  <1>7. \A q \in Requests : pc[q] = "follow" =>
            call[q] \in 1..Len(calls) /\ calls[call[q]] # "pending"
    BY <1>2, <1>3, <1>4 DEF IInv, SInv, SingleFlight, TypeInv, CallInv
  <1>8. SingleFlight'
    BY <1>1, <1>2, <1>6, <1>7 DEF SingleFlight
  <1>9. DeadInv'
    <2>1. 1..Len(calls) \subseteq 1..Len(calls')
      BY <1>1 DEF n
    <2>2. QED
      BY <2>1, <1>2, <1>3 DEF DeadInv
  <1>10. CachedInv'
    <2>1. token # 0 => token \notin dead /\ calls'[token] = "token"
      BY <1>1, <1>3, <1>4 DEF IInv, SInv, CachedInv
    <2>2. QED
      BY <2>1, <1>1, <1>2 DEF CachedInv
  <1>11. LeadInv'
    <2>1. began'[r] <= epoch'
      BY <1>2, <1>3
    <2>2. QED
      BY <2>1, <1>1, <1>2, <1>3, <1>4, <1>6 DEF LeadInv
  <1>12. FollowInv'
    BY <1>1, <1>2, <1>7 DEF IInv, SInv, FollowInv
  <1>13. HeldInv'
    BY <1>1, <1>2, <1>3, <1>4 DEF IInv, SInv, HeldInv
  <1>14. QED
    BY <1>8, <1>9, <1>10, <1>11, <1>12, <1>13 DEF SInv

LEMMA FetchSafe ==
    ASSUME IInv, NEW r \in Requests, Fetch(r)
    PROVE  SInv'
  <1>1. /\ UNCHANGED <<token, epoch, inFlight, calls, dead, call, began, known, held>>
        /\ pc[r] = "fetch" /\ pc'[r] = "publish"
        /\ \A q \in Requests \ {r} : pc'[q] = pc[q]
    BY DEF Fetch, Goto, cacheVars, IInv, TypeInv, TypeOK
  <1>2. Leaders' = Leaders
    BY <1>1 DEF Leaders
  <1>3. QED
    BY <1>1, <1>2 DEF IInv, SInv, SingleFlight, DeadInv, CachedInv, LeadInv, FollowInv, HeldInv

\* If the fetch was void, the epoch has changed and nobody gets its token.
LEMMA PublishSafe ==
    ASSUME IInv, NEW r \in Requests, Publish(r)
    PROVE  SInv'
  <1> DEFINE n == Len(calls)
             v == Verdict(r)
  <1>1. /\ call[r] = n /\ n # 0 /\ n \in 1..Len(calls) /\ calls[n] = "pending"
        /\ inFlight = n /\ n \notin known[r]
        /\ Leaders = {r}
    BY DEF Publish, Leaders, IInv, SInv, SingleFlight, LeadInv, TypeInv, TypeOK, CallInv, Fetches
  <1>2. v = "token" => n \notin dead
    BY <1>1 DEF Verdict, IInv, SInv, LeadInv
  <1>3. v # "pending"
    BY DEF Verdict, IInv, TypeInv, TypeOK, FetchOutcomes
  <1>4. /\ Len(calls') = n /\ calls'[n] = v
        /\ \A k \in 1..Len(calls) : k # n => calls'[k] = calls[k]
    <2>1. v \in CallStates /\ calls' = [calls EXCEPT ![n] = v] /\ calls \in Seq(CallStates)
      BY <1>1, VerdictTyped DEF Publish, IInv, TypeInv, TypeOK
    <2>2. QED
      BY <2>1, <1>1, CallsUpdate
  <1>5. /\ UNCHANGED <<epoch, dead, call, began, known>>
        /\ inFlight' = 0
        /\ token' = IF v = "token" THEN n ELSE token
        /\ pc[r] = "publish" /\ pc'[r] \in {"send", "ended", "get"}
        /\ pc'[r] = "send" => v = "token" /\ held'[r] = n
        /\ \A q \in Requests \ {r} : pc'[q] = pc[q] /\ held'[q] = held[q]
    BY <1>1 DEF Publish, Obtain, End, Goto, IInv, TypeInv, TypeOK
  <1>6. /\ token \in 0..Len(calls)
        /\ \A q \in Requests : call[q] \in 0..Len(calls) /\ held[q] \in 0..Len(calls)
        /\ dead \subseteq 1..Len(calls) /\ \A q \in Requests : known[q] \subseteq dead
        /\ \A k \in 0..Len(calls) : k # 0 => k \in 1..Len(calls)
    BY DEF IInv, TypeInv, TypeOK, Fetches, SInv, DeadInv
  <1> HIDE DEF n, v
  <1>7. Leaders' = {}
    BY <1>1, <1>5 DEF Leaders
  <1>8. SingleFlight'
    <2>1. ASSUME NEW q \in Requests, pc[q] = "follow"
          PROVE  calls'[call[q]] # "pending"
      BY <2>1, <1>1, <1>3, <1>4, <1>6 DEF IInv, SInv, SingleFlight, TypeInv, CallInv
    <2>2. QED
      BY <2>1, <1>5, <1>7 DEF SingleFlight
  <1>9. DeadInv'
    BY <1>4, <1>5, <1>6 DEF DeadInv, n
  <1>10. CachedInv'
    <2>1. CASE v = "token"
      BY <2>1, <1>1, <1>2, <1>4, <1>5 DEF CachedInv
    <2>2. CASE v # "token"
      <3>1. token # 0 => token # n /\ token \in 1..Len(calls)
        BY <1>1, <1>6 DEF IInv, SInv, CachedInv
      <3>2. QED
        BY <2>2, <3>1, <1>1, <1>4, <1>5 DEF IInv, SInv, CachedInv
    <2>3. QED
      BY <2>1, <2>2
  <1>11. LeadInv'
    BY <1>7 DEF LeadInv
  <1>12. FollowInv'
    BY <1>1, <1>2, <1>4, <1>5, <1>6 DEF IInv, SInv, FollowInv, TypeInv, CallInv
  <1>13. HeldInv'
    BY <1>1, <1>2, <1>4, <1>5, <1>6 DEF IInv, SInv, HeldInv
  <1>14. QED
    BY <1>8, <1>9, <1>10, <1>11, <1>12, <1>13 DEF SInv

LEMMA InvalidateSafe ==
    ASSUME IInv, InvalidateToken
    PROVE  SInv'
  <1>1. Leaders' = Leaders
    BY DEF InvalidateToken, Leaders
  <1>2. LeadInv'
    BY <1>1 DEF InvalidateToken, IInv, SInv, LeadInv, TypeInv, TypeOK, Leaders
  <1>3. SingleFlight' /\ DeadInv'
    BY <1>1 DEF InvalidateToken, IInv, SInv, SingleFlight, DeadInv
  <1>4. CachedInv'
    <2>1. Len(calls) > 0 => Len(calls) \in 1..Len(calls)
      BY DEF IInv, TypeInv, TypeOK
    <2>2. QED
      BY <2>1 DEF InvalidateToken, CachedInv
  <1>5. FollowInv' /\ HeldInv'
    BY DEF InvalidateToken, IInv, SInv, FollowInv, HeldInv
  <1>6. QED
    BY <1>2, <1>3, <1>4, <1>5 DEF SInv

LEMMA StepSafe ==
    ASSUME IInv, [Next]_vars
    PROVE  SInv'
  <1>1. ASSUME NEW r \in Requests,
               \/ Start(r) \/ Retryable(r) \/ Answered(r) \/ Again(r) \/ GiveUp(r)
               \/ GetCancelled(r) \/ GetMissed(r) \/ FollowerCancelled(r) \/ Cancel(r)
        PROVE  SInv'
    BY <1>1, QuietSteps, QuietSafe
  <1>2. CASE Expire \/ UNCHANGED vars
    <2>1. Quiet
      BY <1>2 DEF Expire, Quiet, vars, cacheVars
    <2>2. QED
      BY <2>1, QuietSafe
  <1>3. QED
    BY <1>1, <1>2, ForbiddenSafe, ObtainSafe, FollowSafe, LeadSafe, FetchSafe, PublishSafe,
       InvalidateSafe DEF Next, RequestStep

LEMMA Invariance == Spec => []IInv
  <1>1. Init => IInv
    BY InitTyped, InitSafe DEF IInv
  <1>2. IInv /\ [Next]_vars => IInv'
    BY StepTyped, StepSafe DEF IInv
  <1>3. QED
    BY <1>1, <1>2, PTL DEF Spec

-------------------------------------------------------------------------------
(* The theorems about the client.                                             *)

\* One token fetch at a time, and nobody waits for a call that no leader will
\* complete (getAccessToken's inFlightCall).
THEOREM SingleFlightCorrect == Spec => []SingleFlight
  <1>1. IInv => SingleFlight
    BY DEF IInv, SInv
  <1>2. QED
    BY <1>1, Invariance, PTL

\* No request is sent with a token that was rejected or invalidated before the
\* request asked for one (invalidateToken and its epoch).
THEOREM FreshTokenCorrect == Spec => []FreshToken
  <1>1. IInv => FreshToken
    BY DEF IInv, SInv, HeldInv, FreshToken
  <1>2. QED
    BY <1>1, Invariance, PTL

\* A fetch starts only when the last token is of no use any more (the double check
\* under the write lock, and a rejection that names its token).
THEOREM FetchOnlyWhenNeededCorrect == Spec => FetchOnlyWhenNeeded
  <1>1. ASSUME IInv, [Next]_vars, Len(calls') > Len(calls)
        PROVE  \E r \in Requests : Lead(r)
    <2>1. ASSUME NEW r \in Requests, Publish(r)
          PROVE  FALSE
      <3>1. call[r] \in 1..Len(calls)
        BY <2>1, <1>1 DEF Publish, IInv, TypeInv, TypeOK, CallInv, Fetches
      <3>2. Len(calls') = Len(calls) /\ Len(calls) \in Nat
        BY <3>1, <2>1, <1>1, VerdictTyped, CallsUpdate DEF Publish, IInv, TypeInv, TypeOK
      <3>3. QED
        BY <3>2, <1>1
    <2>2. calls' # calls
      BY <1>1 DEF IInv, TypeInv, TypeOK
    <2>3. QED
      BY <2>1, <2>2, <1>1 DEF Next, RequestStep, Start, Forbidden, Reject, Retryable, Answered,
            Again, GiveUp, GetCancelled, GetCached, GetMissed, Follow, FollowerWakes,
            FollowerCancelled, Fetch, InvalidateToken, Expire, Cancel, vars, cacheVars
  <1>2. ASSUME IInv, NEW r \in Requests, Lead(r), Len(calls) > 0
        PROVE  \/ calls[Len(calls)] # "token"
               \/ Len(calls) \in dead
               \/ token = Len(calls) /\ ~fresh
    BY <1>2 DEF IInv, SInv, CachedInv, Lead, Valid, TypeInv, TypeOK
  <1>3. IInv /\ [Next]_vars => NeededFetch
    <2>1. SUFFICES ASSUME IInv, [Next]_vars, Len(calls') > Len(calls), Len(calls) > 0
                   PROVE  \/ calls[Len(calls)] # "token"
                          \/ Len(calls) \in dead
                          \/ token = Len(calls) /\ ~fresh
      BY Zenon DEF NeededFetch
    <2>2. PICK r \in Requests : Lead(r)
      BY <2>1, <1>1
    <2>3. QED
      BY <2>1, <2>2, <1>2
  <1>4. QED
    BY <1>3, Invariance, PTL DEF Spec, FetchOnlyWhenNeeded

\* The leader's cancellation never fails a request that waited for it, nor the other
\* way round (the retry with one's own context in getAccessToken).
THEOREM NoForeignCancellationCorrect == Spec => NoForeignCancellation
  <1>1. ASSUME IInv, NEW q \in Requests, NEW r \in Requests,
               Start(q) \/ RequestStep(q) \/ Cancel(q),
               result[r] = "none", result'[r] = "ctx"
        PROVE  cancelled[r] \/ (pc[r] = "publish" /\ outcome[r] = "ctx")
    <2> USE <1>1 DEF IInv, TypeInv, TypeOK, Obtain, End, Goto
    <2>1. CASE Start(q) \/ Cancel(q) \/ Again(q) \/ GetCached(q) \/ GetMissed(q)
      BY <2>1 DEF Start, Cancel, Again, GetCached, GetMissed
    <2>2. CASE Follow(q) \/ Lead(q) \/ Fetch(q)
      BY <2>2 DEF Follow, Lead, Fetch
    <2>3. CASE Forbidden(q) \/ Retryable(q) \/ Answered(q)
      BY <2>3 DEF Forbidden, Retryable, Answered, Retry
    <2>4. CASE GiveUp(q) \/ GetCancelled(q) \/ FollowerCancelled(q) \/ FollowerWakes(q)
      BY <2>4 DEF GiveUp, GetCancelled, FollowerCancelled, FollowerWakes
    <2>5. CASE Publish(q)
      BY <2>5 DEF Publish, Verdict
    <2>6. QED
      BY <2>1, <2>2, <2>3, <2>4, <2>5 DEF RequestStep
  <1>2. ASSUME NEW r \in Requests, InvalidateToken \/ Expire \/ UNCHANGED vars
        PROVE  result'[r] = result[r]
    BY <1>2 DEF InvalidateToken, Expire, vars
  <1>3. IInv /\ [Next]_vars => OwnContext
    BY <1>1, <1>2 DEF OwnContext, Next
  <1>4. QED
    BY <1>3, Invariance, PTL DEF Spec, NoForeignCancellation
-------------------------------------------------------------------------------
(* The answer of the service: the first name of a list that can be read.        *)

\* A set of natural numbers has a least one: the intervals up to its members are
\* well-founded under inclusion.
LEMMA LeastOf ==
    ASSUME NEW T \in SUBSET Nat, T # {}
    PROVE  \E x \in T : \A y \in T : x <= y
  <1> DEFINE U == {0..t : t \in T}
  <1>1. \A t \in T : 0..t \in SUBSET Nat /\ IsFiniteSet(0..t)
    BY FS_Interval
  <1>2. U \subseteq FiniteSubsetsOf(Nat) /\ U # {}
    BY <1>1 DEF FiniteSubsetsOf
  <1>3. PICK u \in U : \A v \in U : ~(<<v, u>> \in StrictSubsetOrdering(Nat))
    <2> HIDE DEF U
    <2>1. QED
      BY <1>2, FS_StrictSubsetOrderingWellFounded, WFMin
  <1>4. PICK x \in T : u = 0..x
    OBVIOUS
  <1>5. ASSUME NEW y \in T PROVE x <= y
    <2>1. SUFFICES ASSUME y < x PROVE FALSE
      OBVIOUS
    <2>2. /\ 0..y \subseteq 0..x /\ x \in 0..x /\ ~(x \in 0..y)
          /\ 0..y \subseteq Nat /\ 0..x \subseteq Nat
      BY <2>1
    <2>3. <<0..y, u>> \in StrictSubsetOrdering(Nat)
      BY <1>4, <2>2 DEF StrictSubsetOrdering
    <2>4. QED
      BY <1>3, <2>3
  <1>6. QED
    BY <1>5

LEMMA FirstInHits ==
    ASSUME NEW names, Len(names) \in Nat, NEW hits, hits \cap NamesOf(names) # {}
    PROVE  FirstIn(names, hits) \in hits \cap NamesOf(names)
  <1> DEFINE at == {i \in 1..Len(names) : names[i] \in hits}
             first == CHOOSE i \in at : \A j \in at : i <= j
  <1>1. at \in SUBSET Nat /\ at # {}
    BY DEF NamesOf
  <1>2. \E i \in at : \A j \in at : i <= j
    <2> HIDE DEF at
    <2>1. QED
      BY <1>1, LeastOf
  <1>3. first \in at
    <2> HIDE DEF at
    <2>1. QED
      BY <1>2
  <1>4. FirstIn(names, hits) = names[first]
    BY DEF FirstIn
  <1>5. QED
    BY <1>3, <1>4 DEF NamesOf

LEMMA NameLists == Len(Wrappers) = 4 /\ Len(AbsoluteNames) = 10 /\ Len(RelativeNames) = 7
  BY DEF Wrappers, AbsoluteNames, RelativeNames
-------------------------------------------------------------------------------
(* Any answer: a number, a date or a duration may be negative.                  *)

Readable == {"number", "numeral", "date", "duration"}

\* The objects whose readable values are numbers, those of a wrapped object included.
FieldsTyped(obj) == \A name \in DOMAIN obj : obj[name].kind \in Readable => obj[name].v \in Int

AnswerTyped(raw) ==
    /\ FieldsTyped(raw)
    /\ \A name \in DOMAIN raw : raw[name].kind = "object" => FieldsTyped(raw[name].v)

LEMMA InstantInt == ASSUME NEW n \in Int PROVE InstantOf(n) \in Int
  BY DEF InstantOf

LEMMA ExpiryInt ==
    ASSUME NEW value, value.kind \in Readable => value.v \in Int
    PROVE  /\ ReadAbsolute(value) => AbsoluteExpiry(value) \in Int
           /\ ReadRelative(value) => RelativeExpiry(value) \in Int
  <1>1. Now \in Int /\ AbsoluteFrom \in Int
    BY InstantAssumption
  <1>2. CASE value.kind \in Readable
    <2>1. value.v \in Int
      BY <1>2
    <2>2. InstantOf(value.v) \in Int
      BY <2>1, InstantInt
    <2>3. QED
      BY <1>1, <2>1, <2>2 DEF AbsoluteExpiry, RelativeExpiry
  <1>3. CASE value.kind \notin Readable
    BY <1>3 DEF ReadAbsolute, ReadRelative, IsNumber, Readable
  <1>4. QED
    BY <1>2, <1>3

LEMMA TargetOf ==
    ASSUME NEW raw, FieldsTyped(raw),
           \A name \in DOMAIN raw : raw[name].kind = "object" => FieldsTyped(raw[name].v)
    PROVE  FieldsTyped(Target(raw))
  <1> DEFINE found == NamesOf(Wrappers) \cap DOMAIN raw
             first == FirstIn(Wrappers, found)
  <1>1. CASE found # {} /\ raw[first].kind = "object" /\ DOMAIN raw[first].v # {}
    <2>1. first \in DOMAIN raw
      BY <1>1, FirstInHits, NameLists
    <2>2. Target(raw) = raw[first].v
      BY <1>1 DEF Target
    <2>3. QED
      BY <1>1, <2>1, <2>2
  <1>2. CASE ~(found # {} /\ raw[first].kind = "object" /\ DOMAIN raw[first].v # {})
    BY <1>2 DEF Target
  <1>3. QED
    BY <1>1, <1>2

\* The name that decides can be read.
LEMMA Decides ==
    ASSUME NEW raw
    PROVE  LET absolute == {k \in NamesOf(AbsoluteNames) : ReadAbsolute(Field(raw, k))}
               relative == {k \in NamesOf(RelativeNames) : ReadRelative(Field(raw, k))}
           IN  /\ absolute # {} => FirstIn(AbsoluteNames, absolute) \in absolute
               /\ relative # {} => FirstIn(RelativeNames, relative) \in relative
  <1> DEFINE absolute == {k \in NamesOf(AbsoluteNames) : ReadAbsolute(Field(raw, k))}
             relative == {k \in NamesOf(RelativeNames) : ReadRelative(Field(raw, k))}
  <1>1. absolute \cap NamesOf(AbsoluteNames) = absolute /\ relative \cap NamesOf(RelativeNames) = relative
    OBVIOUS
  <1> HIDE DEF absolute, relative
  <1>2. absolute # {} => FirstIn(AbsoluteNames, absolute) \in absolute
    BY <1>1, FirstInHits, NameLists
  <1>3. relative # {} => FirstIn(RelativeNames, relative) \in relative
    BY <1>1, FirstInHits, NameLists
  <1>4. QED
    BY <1>2, <1>3 DEF absolute, relative

LEMMA ExpiresAtInt ==
    ASSUME NEW raw, AnswerTyped(raw)
    PROVE  ExpiresAt(raw) \in Int
  <1> DEFINE absolute == {k \in NamesOf(AbsoluteNames) : ReadAbsolute(Field(raw, k))}
             relative == {k \in NamesOf(RelativeNames) : ReadRelative(Field(raw, k))}
  <1>1. FieldsTyped(raw) /\ FieldsTyped(Target(raw))
    BY TargetOf DEF AnswerTyped
  <1>2. \A name : Field(raw, name).kind \in Readable => Field(raw, name).v \in Int
    BY <1>1 DEF Field, FieldsTyped, Blank, Readable
  <1>3. /\ \A name \in absolute : AbsoluteExpiry(Field(raw, name)) \in Int
        /\ \A name \in relative : RelativeExpiry(Field(raw, name)) \in Int
    BY <1>2, ExpiryInt
  <1>4. /\ absolute # {} => FirstIn(AbsoluteNames, absolute) \in absolute
        /\ relative # {} => FirstIn(RelativeNames, relative) \in relative
    BY Decides
  <1>5. ExpiresAt(raw) =
           IF absolute # {} THEN AbsoluteExpiry(Field(raw, FirstIn(AbsoluteNames, absolute)))
           ELSE IF relative # {} THEN RelativeExpiry(Field(raw, FirstIn(RelativeNames, relative)))
           ELSE 0
    BY DEF ExpiresAt
  <1>6. QED
    <2> HIDE DEF absolute, relative
    <2>1. QED
      BY <1>3, <1>4, <1>5

\* Whatever the service answers, in any combination of names, wrappers and values, the
\* past and negative numbers included: the expiry that fetchAccessToken caches a token
\* with lies in the future.
THEOREM NeverCachedExpired ==
    ASSUME NEW raw, AnswerTyped(raw)
    PROVE  CachedExpiry(raw) \in Int /\ CachedExpiry(raw) > Now * 1000
  <1>1. ExpiresAt(raw) \in Int /\ Now \in Int /\ Hour \in Nat \ {0}
    BY ExpiresAtInt, InstantAssumption
  <1>2. QED
    BY <1>1 DEF CachedExpiry

-------------------------------------------------------------------------------
(* The lifetime that an answer states.                                          *)

ExpiryNames == NamesOf(AbsoluteNames) \cup NamesOf(RelativeNames)

\* The lists have no name in common, and none with the wrappers.
LEMMA NamesApart ==
    /\ NamesOf(Wrappers) = {"data", "result", "response", "payload"}
    /\ NamesOf(AbsoluteNames) =
          {"expiresAt", "expires_at", "expireAt", "expire_at", "expiration", "exp", "expiry",
           "expires_on", "not_after", "valid_to"}
    /\ NamesOf(RelativeNames) =
          {"expires_in", "expiresIn", "ttl", "max_age", "maxAge", "expires_in_seconds",
           "expires_in_sec"}
    /\ NamesOf(AbsoluteNames) \cap NamesOf(RelativeNames) = {}
    /\ ExpiryNames \cap NamesOf(Wrappers) = {}
  <1>1. NamesOf(Wrappers) = {"data", "result", "response", "payload"}
    BY DEF NamesOf, Wrappers
  <1>2. NamesOf(AbsoluteNames) =
          {"expiresAt", "expires_at", "expireAt", "expire_at", "expiration", "exp", "expiry",
           "expires_on", "not_after", "valid_to"}
    BY DEF NamesOf, AbsoluteNames
  <1>3. NamesOf(RelativeNames) =
          {"expires_in", "expiresIn", "ttl", "max_age", "maxAge", "expires_in_seconds",
           "expires_in_sec"}
    BY DEF NamesOf, RelativeNames
  <1>4. QED
    BY <1>1, <1>2, <1>3 DEF ExpiryNames

\* Each encoding of a lifetime can be read, as the instant it stands for: the limits
\* between seconds, milliseconds and lifetimes are where InstantAssumption has them.
LEMMA EncodingRead ==
    ASSUME NEW l \in 1..(AbsoluteFrom - 1), NEW code \in Encodings(l)
    PROVE  \/ /\ code[1] \in NamesOf(AbsoluteNames) /\ ReadAbsolute(code[2])
              /\ AbsoluteExpiry(code[2]) = (Now + l) * 1000
           \/ /\ code[1] \in NamesOf(RelativeNames) /\ ReadRelative(code[2])
              /\ RelativeExpiry(code[2]) = (Now + l) * 1000
  <1> DEFINE expiry   == (Now + l) * 1000
             instants == {[kind |-> kind, v |-> n] : kind \in {"number", "numeral"},
                                                     n \in {Now + l, (Now + l) * 1000}}
             absolute == instants \cup {[kind |-> "date", v |-> (Now + l) * 1000]}
             relative == instants \cup {[kind |-> "number", v |-> l], [kind |-> "numeral", v |-> l],
                                        [kind |-> "duration", v |-> l * 1000]}
  <1>1. /\ Now \in Nat /\ AbsoluteFrom \in Nat /\ MillisAbove \in Nat /\ l \in Nat /\ l > 0
        /\ l < AbsoluteFrom /\ AbsoluteFrom <= Now
        /\ Now + AbsoluteFrom <= MillisAbove /\ MillisAbove < Now * 1000
    BY InstantAssumption
  <1>2. InstantOf(Now + l) = (Now + l) * 1000 /\ InstantOf((Now + l) * 1000) = (Now + l) * 1000
    BY <1>1 DEF InstantOf
  <1>3. ASSUME NEW value \in instants
        PROVE  /\ ReadAbsolute(value) /\ AbsoluteExpiry(value) = expiry
               /\ ReadRelative(value) /\ RelativeExpiry(value) = expiry
    <2>1. value.kind \in {"number", "numeral"} /\ value.v \in {Now + l, (Now + l) * 1000}
      OBVIOUS
    <2>2. value.v > 0 /\ value.v >= AbsoluteFrom /\ InstantOf(value.v) = (Now + l) * 1000
      BY <1>1, <1>2, <2>1
    <2>3. QED
      BY <2>1, <2>2 DEF ReadAbsolute, ReadRelative, AbsoluteExpiry, RelativeExpiry, IsNumber
  <1>4. /\ ReadAbsolute([kind |-> "date", v |-> expiry])
        /\ AbsoluteExpiry([kind |-> "date", v |-> expiry]) = expiry
    BY DEF ReadAbsolute, AbsoluteExpiry
  <1>5. ASSUME NEW value \in {[kind |-> "number", v |-> l], [kind |-> "numeral", v |-> l],
                              [kind |-> "duration", v |-> l * 1000]}
        PROVE  ReadRelative(value) /\ RelativeExpiry(value) = expiry
    BY <1>1 DEF ReadRelative, RelativeExpiry, IsNumber
  <1>6. /\ \A value \in absolute : ReadAbsolute(value) /\ AbsoluteExpiry(value) = expiry
        /\ \A value \in relative : ReadRelative(value) /\ RelativeExpiry(value) = expiry
    BY <1>3, <1>4, <1>5
  <1>7. code \in (NamesOf(AbsoluteNames) \X absolute) \cup (NamesOf(RelativeNames) \X relative)
    BY DEF Encodings
  <1>8. QED
    <2> HIDE DEF absolute, relative
    <2>1. QED
      BY <1>6, <1>7

\* The code can read value under this name.
Read(name, value) ==
    \/ name \in NamesOf(AbsoluteNames) /\ ReadAbsolute(value)
    \/ name \in NamesOf(RelativeNames) /\ ReadRelative(value)

\* Whatever the names of an answer and wherever they stand: if all those that the code
\* can read state the same lifetime, each in its own way, and there is one, the token is
\* cached for exactly this lifetime.  A date is read even if it is Go's zero time.
THEOREM StatedLifetimeHonoured ==
    ASSUME NEW raw, NEW l \in 1..(AbsoluteFrom - 1),
           \A name \in ExpiryNames :
              Read(name, Field(raw, name)) => <<name, Field(raw, name)>> \in Encodings(l),
           \E name \in ExpiryNames : Read(name, Field(raw, name))
    PROVE  CachedExpiry(raw) = (Now + l) * 1000
  <1> DEFINE expiry   == (Now + l) * 1000
             absolute == {k \in NamesOf(AbsoluteNames) : ReadAbsolute(Field(raw, k))}
             relative == {k \in NamesOf(RelativeNames) : ReadRelative(Field(raw, k))}
  <1>1. Now \in Nat /\ expiry \in Nat /\ expiry > Now * 1000
    BY InstantAssumption
  <1>2. ASSUME NEW name \in absolute
        PROVE  AbsoluteExpiry(Field(raw, name)) = expiry
    <2>1. name \in ExpiryNames /\ Read(name, Field(raw, name)) /\ name \notin NamesOf(RelativeNames)
      BY NamesApart DEF ExpiryNames, Read
    <2>2. <<name, Field(raw, name)>> \in Encodings(l)
      BY <2>1
    <2>3. QED
      BY <2>1, <2>2, EncodingRead
  <1>3. ASSUME NEW name \in relative
        PROVE  RelativeExpiry(Field(raw, name)) = expiry
    <2>1. name \in ExpiryNames /\ Read(name, Field(raw, name)) /\ name \notin NamesOf(AbsoluteNames)
      BY NamesApart DEF ExpiryNames, Read
    <2>2. <<name, Field(raw, name)>> \in Encodings(l)
      BY <2>1
    <2>3. QED
      BY <2>1, <2>2, EncodingRead
  <1>4. absolute # {} \/ relative # {}
    BY DEF Read
  <1>5. /\ absolute # {} => FirstIn(AbsoluteNames, absolute) \in absolute
        /\ relative # {} => FirstIn(RelativeNames, relative) \in relative
    BY Decides
  <1>6. ExpiresAt(raw) =
           IF absolute # {} THEN AbsoluteExpiry(Field(raw, FirstIn(AbsoluteNames, absolute)))
           ELSE IF relative # {} THEN RelativeExpiry(Field(raw, FirstIn(RelativeNames, relative)))
           ELSE 0
    BY DEF ExpiresAt
  <1>7. ExpiresAt(raw) = expiry
    <2> HIDE DEF absolute, relative, expiry
    <2>1. QED
      BY <1>2, <1>3, <1>4, <1>5, <1>6
  <1>8. QED
    BY <1>1, <1>7 DEF CachedExpiry

\* A date that is past under the first of all names decides too, whatever the others say:
\* the token is cached for Hour.
THEOREM PastDateHonoured ==
    ASSUME NEW raw,
           Field(raw, AbsoluteNames[1]).kind = "date",
           Field(raw, AbsoluteNames[1]).v \in Int,
           Field(raw, AbsoluteNames[1]).v <= Now * 1000
    PROVE  CachedExpiry(raw) = Now * 1000 + Hour
  <1> DEFINE absolute == {k \in NamesOf(AbsoluteNames) : ReadAbsolute(Field(raw, k))}
             at       == {i \in 1..Len(AbsoluteNames) : AbsoluteNames[i] \in absolute}
             least    == CHOOSE i \in at : \A j \in at : i <= j
  <1>1. AbsoluteNames[1] \in absolute /\ 1 \in at
    BY NameLists DEF NamesOf, ReadAbsolute
  <1>2. least \in at /\ least <= 1
    <2>1. \E i \in at : \A j \in at : i <= j
      BY <1>1, NameLists
    <2>2. QED
      <3> HIDE DEF at
      <3>1. QED
        BY <1>1, <2>1
  <1>3. least = 1
    <2> HIDE DEF least
    <2>1. least \in 1..10
      BY <1>2, NameLists
    <2>2. QED
      <3> HIDE DEF at
      <3>1. QED
        BY <1>2, <2>1
  <1>4. FirstIn(AbsoluteNames, absolute) = AbsoluteNames[1]
    <2>1. FirstIn(AbsoluteNames, absolute) = AbsoluteNames[least]
      BY DEF FirstIn
    <2>2. QED
      <3> HIDE DEF least
      <3>1. QED
        BY <1>3, <2>1
  <1>5. ExpiresAt(raw) = Field(raw, AbsoluteNames[1]).v
    <2>1. ExpiresAt(raw) = AbsoluteExpiry(Field(raw, FirstIn(AbsoluteNames, absolute)))
      BY <1>1 DEF ExpiresAt
    <2>2. QED
      BY <1>4, <2>1 DEF AbsoluteExpiry
  <1>6. QED
    BY <1>5, InstantAssumption DEF CachedExpiry

\* A wrapped object is found, and hides what stands beside it.
LEMMA AnswerFields ==
    ASSUME NEW wrapper \in {"none"} \cup NamesOf(Wrappers), NEW fields, NEW beside,
           DOMAIN fields # {}, DOMAIN fields \cap NamesOf(Wrappers) = {},
           DOMAIN beside \subseteq DOMAIN fields,
           NEW name \in ExpiryNames
    PROVE  Field(Answer(wrapper, fields, beside), name) =
              IF name \in DOMAIN fields THEN fields[name] ELSE Blank
  <1> DEFINE raw == Answer(wrapper, fields, beside)
  <1>1. CASE wrapper = "none"
    <2>1. raw = fields
      BY <1>1 DEF Answer
    <2>2. Target(raw) = raw
      BY <2>1 DEF Target
    <2>3. QED
      BY <2>1, <2>2 DEF Field
  <1>2. CASE wrapper # "none"
    <2>1. wrapper \in NamesOf(Wrappers)
      BY <1>2
    <2>2. /\ DOMAIN raw = {wrapper} \cup DOMAIN beside
          /\ raw[wrapper].kind = "object" /\ raw[wrapper].v = fields
      BY <1>2 DEF Answer
    <2>3. NamesOf(Wrappers) \cap DOMAIN raw = {wrapper}
      BY <2>1, <2>2
    <2>4. FirstIn(Wrappers, {wrapper}) = wrapper
      BY <2>1, FirstInHits, NameLists
    <2>5. Target(raw) = fields
      BY <2>2, <2>3, <2>4 DEF Target
    <2>6. name \in DOMAIN raw => name \in DOMAIN fields
      BY <2>1, <2>2, NamesApart
    <2>7. QED
      BY <2>5, <2>6 DEF Field
  <1>3. QED
    BY <1>1, <1>2

\* What another name holds is not read, or states the same lifetime.
LEMMA OthersRead ==
    ASSUME NEW l \in 1..(AbsoluteFrom - 1), NEW other \in Others(l)
    PROVE  /\ other[1] \in ExpiryNames
           /\ Read(other[1], other[2]) => <<other[1], other[2]>> \in Encodings(l)
  <1> DEFINE duration == [kind |-> "duration", v |-> l * 1000]
             date     == [kind |-> "date", v |-> Now * 1000]
  <1>1. CASE other \in Encodings(l)
    <2>1. other = <<other[1], other[2]>>
      BY <1>1 DEF Encodings
    <2>2. QED
      BY <1>1, <2>1, EncodingRead DEF ExpiryNames
  <1>2. CASE other \in NamesOf(AbsoluteNames) \X {Blank, duration}
    <2>1. ~ReadAbsolute(Blank) /\ ~ReadAbsolute(duration)
      BY DEF ReadAbsolute, IsNumber, Blank
    <2>2. /\ other[1] \in NamesOf(AbsoluteNames) /\ other[1] \notin NamesOf(RelativeNames)
          /\ other[2] \in {Blank, duration}
      BY <1>2, NamesApart
    <2>3. QED
      BY <2>1, <2>2 DEF Read, ExpiryNames
  <1>3. CASE other \in NamesOf(RelativeNames) \X {Blank, date}
    <2>1. ~ReadRelative(Blank) /\ ~ReadRelative(date)
      BY DEF ReadRelative, IsNumber, Blank
    <2>2. /\ other[1] \in NamesOf(RelativeNames) /\ other[1] \notin NamesOf(AbsoluteNames)
          /\ other[2] \in {Blank, date}
      BY <1>3, NamesApart
    <2>3. QED
      BY <2>1, <2>2 DEF Read, ExpiryNames
  <1>4. QED
    BY <1>1, <1>2, <1>3 DEF Others

\* For any lifetimes below the limit, and any clock: HonoursLifetime and HonoursPastDate.
THEOREM LifetimeHonouredCorrect == Spec => []LifetimeHonoured
  <1> DEFINE besideOf(l, code) == [name \in {code[1]} |-> [kind |-> "number", v |-> Now + l + 1]]
  <1>1. ASSUME NEW l \in Lifetimes, NEW code \in Encodings(l), NEW other \in Others(l),
               NEW wrapper \in {"none"} \cup NamesOf(Wrappers)
        PROVE  CachedExpiry(Answer(wrapper, Stating(code, other), besideOf(l, code))) =
                  (Now + l) * 1000
    <2> DEFINE fields == Stating(code, other)
               beside == besideOf(l, code)
               raw    == Answer(wrapper, fields, beside)
    <2>1. l \in 1..(AbsoluteFrom - 1)
      BY InstantAssumption
    <2>2. /\ code[1] \in ExpiryNames /\ Read(code[1], code[2])
          /\ <<code[1], code[2]>> \in Encodings(l)
      <3>1. code = <<code[1], code[2]>>
        BY DEF Encodings
      <3>2. QED
        BY <2>1, <3>1, EncodingRead DEF ExpiryNames, Read
    <2>3. /\ other[1] \in ExpiryNames
          /\ Read(other[1], other[2]) => <<other[1], other[2]>> \in Encodings(l)
      BY <2>1, OthersRead
    <2>4. /\ DOMAIN fields = {code[1], other[1]} /\ DOMAIN beside = {code[1]}
          /\ fields[code[1]] = code[2]
          /\ \A name \in DOMAIN fields \ {code[1]} : name = other[1] /\ fields[name] = other[2]
      BY DEF Stating
    <2>5. DOMAIN fields \cap NamesOf(Wrappers) = {} /\ DOMAIN beside \subseteq DOMAIN fields
      BY <2>2, <2>3, <2>4, NamesApart
    <2>6. \A name \in ExpiryNames :
             Field(raw, name) = IF name \in DOMAIN fields THEN fields[name] ELSE Blank
      BY <2>4, <2>5, AnswerFields
    <2>7. ASSUME NEW name \in ExpiryNames, Read(name, Field(raw, name))
          PROVE  <<name, Field(raw, name)>> \in Encodings(l)
      <3>1. ~Read(name, Blank)
        BY DEF Read, ReadAbsolute, ReadRelative, IsNumber, Blank
      <3>2. name \in DOMAIN fields /\ Field(raw, name) = fields[name]
        BY <2>6, <2>7, <3>1
      <3>3. CASE name = code[1]
        BY <2>2, <2>4, <3>2, <3>3
      <3>4. CASE name # code[1]
        BY <2>3, <2>4, <2>7, <3>2, <3>4
      <3>5. QED
        BY <3>3, <3>4
    <2>8. Read(code[1], Field(raw, code[1]))
      BY <2>2, <2>4, <2>6
    <2>9. QED
      <3> HIDE DEF raw
      <3>1. CachedExpiry(raw) = (Now + l) * 1000
        BY <2>1, <2>2, <2>7, <2>8, StatedLifetimeHonoured
      <3>2. QED
        BY <3>1 DEF raw
  <1>2. HonoursLifetime
    BY <1>1 DEF HonoursLifetime
  <1>3. ASSUME NEW l \in Lifetimes, NEW code \in Encodings(l), NEW date \in PastDates,
               NEW wrapper \in {"none"} \cup NamesOf(Wrappers), code[1] # AbsoluteNames[1]
        PROVE  CachedExpiry(Answer(wrapper, Stating(code, <<AbsoluteNames[1], date>>), <<>>)) =
                  Now * 1000 + Hour
    <2> DEFINE first  == AbsoluteNames[1]
               fields == Stating(code, <<first, date>>)
               raw    == Answer(wrapper, fields, <<>>)
    <2>1. l \in 1..(AbsoluteFrom - 1)
      BY InstantAssumption
    <2>2. code[1] \in ExpiryNames
      BY <2>1, EncodingRead DEF ExpiryNames
    <2>3. first \in ExpiryNames
      BY NameLists DEF ExpiryNames, NamesOf
    <2>4. DOMAIN fields = {code[1], first} /\ fields[first] = date /\ DOMAIN <<>> = {}
      BY <1>3 DEF Stating
    <2>5. DOMAIN fields \cap NamesOf(Wrappers) = {}
      BY <2>2, <2>3, <2>4, NamesApart
    <2>6. Field(raw, first) = date
      <3> HIDE DEF first, fields
      <3>1. QED
        BY <2>3, <2>4, <2>5, AnswerFields
    <2>7. date.kind = "date" /\ date.v \in Int /\ date.v <= Now * 1000
      BY InstantAssumption DEF PastDates
    <2>8. QED
      <3> HIDE DEF raw
      <3>1. CachedExpiry(raw) = Now * 1000 + Hour
        BY <2>6, <2>7, PastDateHonoured
      <3>2. QED
        BY <3>1 DEF raw
  <1>4. HonoursPastDate
    BY <1>3 DEF HonoursPastDate
  <1>5. LifetimeHonoured
    BY <1>2, <1>4 DEF LifetimeHonoured
  <1>6. QED
    BY <1>5, PTL

================================================================================
