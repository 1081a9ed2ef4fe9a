-------------------------- MODULE RequestAdmission --------------------------
(***************************************************************************)
(* What a mutating request passes before it does anything: the rate limits *)
(* of its client address, the session capability and the Turnstile token,  *)
(* and for a new session the capacity. Target profiles keep the limits in  *)
(* two DynamoDB tables that every API instance shares, so each access is a *)
(* step of its own; the local profile keeps them in the process and a      *)
(* consumption is one step.                                                *)
(*                                                                         *)
(* Time is counted in ticks; a window, an hour, a day and the idle limit   *)
(* are numbers of ticks.                                                   *)
(***************************************************************************)
EXTENDS Integers, Sequences, FiniteSets, FiniteSetsExt

CONSTANTS
    Requests,      \* the requests that may arrive
    Addresses,     \* client addresses
    Kinds,         \* which routes are called
    StoreKind,     \* "dynamo" or "memory" (profile.rateLimit.store)
    Window,        \* length of the per-address windows
    Hour, Day,     \* length of the global windows
    ActiveFor,     \* FIVE_MINUTES_MS
    Limit,         \* per-address limit of a consumed scope
    MaxExecutions, DailyLimit, HourlyLimit,
    MaxSessions,   \* MAX_SESSIONS
    MaxBuckets,    \* buckets the in-memory limiter keeps
    MaxClock       \* bound: the last tick

AttemptMultiplier == 2

\* What an instance gives the constants.
AdmissionConstants ==
    /\ {Window, Hour, Day, ActiveFor, Limit, MaxExecutions, DailyLimit, HourlyLimit, MaxSessions, MaxBuckets} \subseteq Nat \ {0}
    /\ Kinds \subseteq {"create", "vote", "finalize", "cancel"}

VARIABLES
    clock,
    events,     \* rate-limit events: [scope, ip, at, by]
    counters,   \* global counters: <<window, start>> -> count
    buckets,    \* the in-memory limiter's map, in insertion order
    sessions,   \* session created by a request -> its last activity, or Gone
    req,        \* the requests
    granted,    \* history: consumptions that were allowed
    executed,   \* history: zkVM executions, with the time of the attempt
    evicted     \* history: addresses whose bucket was dropped to make room

vars == <<clock, events, counters, buckets, sessions, req, granted, executed, evicted>>

Gone == -1

Scopes == {"session-create", "vote-attempt", "vote", "zkvm-attempt", "zkvm", "finalize-cancel"}

(* The stages of a route, in the order its registration and handler run them. *)
Stages(kind) ==
    CASE kind = "create"   -> <<"session-create", "turnstile", "scan", "createSession">>
      [] kind = "vote"     -> <<"vote-attempt", "capability", "turnstile", "vote", "work">>
      [] kind = "cancel"   -> <<"capability", "finalize-cancel", "work">>
      [] kind = "finalize" ->
           IF StoreKind = "memory" THEN <<"capability", "turnstile", "work">>
           ELSE <<"zkvm-attempt", "checkIp", "daily", "hourly", "capability", "turnstile", "work",
                  "recordIp", "recordDaily", "recordHourly">>

ScopeLimit(scope) ==
    CASE scope = "vote-attempt" -> Limit * AttemptMultiplier
      [] scope = "zkvm-attempt" -> MaxExecutions * AttemptMultiplier
      [] scope = "zkvm" -> MaxExecutions
      [] OTHER -> Limit

Idling == [kind |-> "none", ip |-> "none", pc |-> 0, step |-> "start", now |-> 0, pend |-> {}, count |-> 0,
           overtaken |-> FALSE, answer |-> "none"]

Init ==
    /\ clock = 0
    /\ events = {} /\ counters = [k \in {} |-> 0] /\ buckets = <<>>
    /\ sessions = [r \in Requests |-> Gone]
    /\ req = [r \in Requests |-> Idling]
    /\ granted = {} /\ executed = {} /\ evicted = {}

Stage(r) == IF req[r].pc = 0 THEN "none" ELSE Stages(req[r].kind)[req[r].pc]

(* The request moves to its next stage, or answers after the last. *)
Advance(r) ==
    req' = [req EXCEPT ![r] = IF @.pc = Len(Stages(@.kind))
                              THEN [@ EXCEPT !.pc = 0, !.answer = "ok"]
                              ELSE [@ EXCEPT !.pc = req[r].pc + 1, !.step = "start"]]

Answer(r, answer) == req' = [req EXCEPT ![r] = [@ EXCEPT !.pc = 0, !.answer = answer]]

Arrive(r) ==
    /\ req[r] = Idling
    /\ \E kind \in Kinds, ip \in Addresses :
         req' = [req EXCEPT ![r] = [@ EXCEPT !.kind = kind, !.ip = ip, !.pc = 1]]
    /\ UNCHANGED <<clock, events, counters, buckets, sessions, granted, executed, evicted>>

-----------------------------------------------------------------------------
(* The shared store.                                                       *)

EventsOf(scope, ip, cutoff) == {e \in events : e.scope = scope /\ e.ip = ip /\ e.at > cutoff}

ConsumedScopes == Scopes \ {"zkvm"}

Consuming(r) == StoreKind = "dynamo" /\ Stage(r) \in ConsumedScopes

(* currentEventWindow takes the time; the event is written, then the window is counted. *)
currentEventWindow(r) ==
    /\ \/ Consuming(r)
       \/ Stage(r) = "checkIp"
    /\ req[r].step = "start"
    /\ req' = [req EXCEPT ![r].now = clock, ![r].step = IF Stage(r) = "checkIp" THEN "count" ELSE "record"]
    /\ UNCHANGED <<clock, events, counters, buckets, sessions, granted, executed, evicted>>

recordEvent(r) ==
    /\ Consuming(r) /\ req[r].step = "record"
    /\ events' = events \cup {[scope |-> Stage(r), ip |-> req[r].ip, at |-> req[r].now, by |-> r]}
    /\ req' = [req EXCEPT ![r].step = "count"]
    /\ UNCHANGED <<clock, counters, buckets, sessions, granted, executed, evicted>>

(* Faulty variant: the request's own event is left out of the count. *)
consumeAllowedOthers(r, count) == count - 1 <= ScopeLimit(Stage(r))

(* The event of the request is in the count. *)
consumeAllowed(r, count) == count <= ScopeLimit(Stage(r))

consumeEventWindow(r) ==
    LET count == Cardinality(EventsOf(Stage(r), req[r].ip, req[r].now - Window))
    IN  /\ Consuming(r) /\ req[r].step = "count"
        /\ IF consumeAllowed(r, count)
           THEN /\ granted' = granted \cup {[scope |-> Stage(r), ip |-> req[r].ip, at |-> req[r].now, by |-> r]}
                /\ Advance(r)
           ELSE UNCHANGED granted /\ Answer(r, "limited")
        /\ UNCHANGED <<clock, events, counters, buckets, sessions, executed, evicted>>

checkZkVmRateLimit(r) ==
    LET count == Cardinality(EventsOf("zkvm", req[r].ip, req[r].now - Window))
    IN  /\ Stage(r) = "checkIp" /\ req[r].step = "count"
        /\ IF count >= MaxExecutions THEN Answer(r, "limited") ELSE Advance(r)
        /\ UNCHANGED <<clock, events, counters, buckets, sessions, granted, executed, evicted>>

Duration(window) == IF window = "daily" THEN Day ELSE Hour

globalKey(window) == <<window, clock - (clock % Duration(window))>>

getCounter(key) == IF key \in DOMAIN counters THEN counters[key] ELSE 0

checkGlobalLimit(r) ==
    LET limit == IF Stage(r) = "daily" THEN DailyLimit ELSE HourlyLimit
    IN  /\ Stage(r) \in {"daily", "hourly"}
        /\ IF getCounter(globalKey(Stage(r))) >= limit THEN Answer(r, "limited") ELSE Advance(r)
        /\ UNCHANGED <<clock, events, counters, buckets, sessions, granted, executed, evicted>>

incrementCounter(window) ==
    LET key == globalKey(window)
    IN  counters' = [k \in DOMAIN counters \cup {key} |-> IF k = key THEN getCounter(k) + 1 ELSE counters[k]]

(* The execution is recorded after it was accepted, in three separate writes. *)
recordFinalizeRateLimit(r) ==
    /\ \/ /\ Stage(r) = "recordIp"
          /\ events' = events \cup {[scope |-> "zkvm", ip |-> req[r].ip, at |-> clock, by |-> r]}
          /\ UNCHANGED counters
       \/ Stage(r) = "recordDaily" /\ incrementCounter("daily") /\ UNCHANGED events
       \/ Stage(r) = "recordHourly" /\ incrementCounter("hourly") /\ UNCHANGED events
    /\ Advance(r)
    /\ UNCHANGED <<clock, buckets, sessions, granted, executed, evicted>>

(* Any access to the store may fail. Before the work the request is refused, after it the error is thrown. *)
StoreFails(r) ==
    /\ StoreKind = "dynamo"
    /\ Stage(r) \notin {"none", "capability", "turnstile"}
    /\ Answer(r, IF Stage(r) \in {"recordIp", "recordDaily", "recordHourly", "work", "scan", "createSession"}
                 THEN "error" ELSE "limited")
    /\ UNCHANGED <<clock, events, counters, buckets, sessions, granted, executed, evicted>>

-----------------------------------------------------------------------------
(* The in-memory limiter: fixed windows, one bucket per address and scope.  *)

Live(b) == clock - b.start < Window

BucketOf(scope, ip) == {n \in DOMAIN buckets : buckets[n].scope = scope /\ buckets[n].ip = ip}

SizeOf(bs, scope) == Len(SelectSeq(bs, LAMBDA b : b.scope = scope))

(* A full limiter drops its expired buckets, then the one inserted first. *)
makeRoomForBucket(scope) ==
    IF SizeOf(buckets, scope) < MaxBuckets THEN buckets
    ELSE LET live == SelectSeq(buckets, LAMBDA b : b.scope # scope \/ Live(b))
             first == CHOOSE n \in DOMAIN live : live[n].scope = scope /\ \A k \in 1..(n - 1) : live[k].scope # scope
         IN  IF SizeOf(live, scope) < MaxBuckets THEN live
             ELSE [n \in 1..(Len(live) - 1) |-> live[IF n < first THEN n ELSE n + 1]]

windowStart(b) == b.start

(* An expired bucket keeps its place in the map. *)
consumed(scope, ip) ==
    LET own   == BucketOf(scope, ip)
        fresh == [scope |-> scope, ip |-> ip, start |-> clock, count |-> 1]
    IN  IF own # {} /\ Live(buckets[Max(own)])
        THEN [buckets EXCEPT ![Max(own)].count = @ + 1, ![Max(own)].start = windowStart(buckets[Max(own)])]
        ELSE LET room == makeRoomForBucket(scope)
                 kept == {n \in DOMAIN room : room[n].scope = scope /\ room[n].ip = ip}
             IN  IF kept # {} THEN [room EXCEPT ![Max(kept)] = fresh] ELSE Append(room, fresh)

consume(r) ==
    /\ StoreKind = "memory" /\ Stage(r) \in ConsumedScopes
    /\ buckets' = consumed(Stage(r), req[r].ip)
    /\ evicted' = evicted \cup {ip \in Addresses : \E n \in DOMAIN buckets :
                     /\ buckets[n].ip = ip /\ buckets[n].scope = Stage(r) /\ Live(buckets[n])
                     /\ \A k \in DOMAIN buckets' : buckets'[k].ip # ip \/ buckets'[k].scope # Stage(r)}
    /\ LET b == buckets'[Max({n \in DOMAIN buckets' : buckets'[n].scope = Stage(r) /\ buckets'[n].ip = req[r].ip})]
       IN  IF b.count > ScopeLimit(Stage(r))
           THEN UNCHANGED granted /\ Answer(r, "limited")
           ELSE /\ granted' = granted \cup {[scope |-> Stage(r), ip |-> req[r].ip, at |-> clock, by |-> r]}
                /\ Advance(r)
    /\ UNCHANGED <<clock, events, counters, sessions, executed>>

-----------------------------------------------------------------------------
(* Credentials, sessions and the work itself.                              *)

(* The capability is a signed claim on the session until its expiry; it may be absent, forged or expired. *)
validateSessionCapabilityForSession(r) ==
    /\ Stage(r) = "capability"
    /\ \/ Advance(r)
       \/ Answer(r, "unauthorized")
    /\ UNCHANGED <<clock, events, counters, buckets, sessions, granted, executed, evicted>>

(* Siteverify may refuse the token, answer nonsense or not at all: each is a refusal. *)
validateTurnstileToken(r) ==
    /\ Stage(r) = "turnstile"
    /\ \/ Advance(r)
       \/ Answer(r, "captcha")
    /\ UNCHANGED <<clock, events, counters, buckets, sessions, granted, executed, evicted>>

isActiveSessionCandidate(s, now) == sessions[s] # Gone /\ now - sessions[s] <= ActiveFor

ActiveSessions == {s \in Requests : isActiveSessionCandidate(s, clock)}

(* The scan reads the identities, then the voting item of each; activity is judged at the scan's start. *)
ScanSessions(r) ==
    /\ Stage(r) = "scan" /\ req[r].step = "start"
    /\ req' = [req EXCEPT ![r] = [@ EXCEPT !.step = "load", !.now = clock, !.count = 0, !.overtaken = FALSE,
                                           !.pend = {s \in Requests : sessions[s] # Gone}]]
    /\ UNCHANGED <<clock, events, counters, buckets, sessions, granted, executed, evicted>>

getActiveSessionCount(r) ==
    /\ Stage(r) = "scan" /\ req[r].step = "load"
    /\ \E s \in req[r].pend :
         req' = [req EXCEPT ![r].pend = @ \ {s},
                            ![r].count = @ + IF isActiveSessionCandidate(s, req[r].now) THEN 1 ELSE 0]
    /\ UNCHANGED <<clock, events, counters, buckets, sessions, granted, executed, evicted>>

full(count) == count >= MaxSessions

createSessionWithinCapacity(r) ==
    /\ Stage(r) = "scan" /\ req[r].step = "load" /\ req[r].pend = {}
    /\ IF full(req[r].count) THEN Answer(r, "full") ELSE Advance(r)
    /\ UNCHANGED <<clock, events, counters, buckets, sessions, granted, executed, evicted>>

(* Whoever is between its scan and its creation has been overtaken. *)
Overtake(r) == [o \in Requests |-> IF o # r /\ Stage(o) \in {"scan", "createSession"} THEN TRUE ELSE req[o].overtaken]

createSession(r) ==
    /\ Stage(r) = "createSession"
    /\ sessions' = [sessions EXCEPT ![r] = clock]
    /\ req' = [o \in Requests |-> IF o = r THEN [req[r] EXCEPT !.pc = 0, !.answer = "ok"]
                                  ELSE [req[o] EXCEPT !.overtaken = Overtake(r)[o]]]
    /\ UNCHANGED <<clock, events, counters, buckets, granted, executed, evicted>>

(* A vote or another request of the session refreshes its activity. *)
touchSession(s) ==
    /\ sessions[s] \notin {Gone, clock}
    /\ sessions' = [sessions EXCEPT ![s] = clock]
    /\ req' = [o \in Requests |-> [req[o] EXCEPT !.overtaken = Overtake(s)[o]]]
    /\ UNCHANGED <<clock, events, counters, buckets, granted, executed, evicted>>

(* An expired session disappears: DynamoDB deletes it some time after its expiry. *)
SessionExpires(s) ==
    /\ sessions[s] # Gone /\ clock - sessions[s] > ActiveFor
    /\ sessions' = [sessions EXCEPT ![s] = Gone]
    /\ UNCHANGED <<clock, events, counters, buckets, req, granted, executed, evicted>>

(* DynamoDB deletes an event well after it has left its window: later than any request that is still *)
(* counting a window with the event in it.                                                           *)
EventExpires(e) ==
    /\ clock >= e.at + Window
    /\ \A r \in Requests : req[r].pc > 0 => e.at <= req[r].now - Window \/ req[r].step = "start"
    /\ events' = events \ {e}
    /\ UNCHANGED <<clock, counters, buckets, sessions, req, granted, executed, evicted>>

(* The vote, the cancellation or the finalization; it may be refused by its own rules. *)
Work(r) ==
    /\ Stage(r) = "work"
    /\ \/ /\ executed' = IF req[r].kind = "finalize" THEN executed \cup {[ip |-> req[r].ip, at |-> clock, by |-> r]} ELSE executed
          /\ Advance(r)
       \/ Answer(r, "refused") /\ UNCHANGED executed
    /\ UNCHANGED <<clock, events, counters, buckets, sessions, granted, evicted>>

Tick == /\ clock < MaxClock
        /\ clock' = clock + 1
        /\ UNCHANGED <<events, counters, buckets, sessions, req, granted, executed, evicted>>

RequestStep(r) ==
    \/ currentEventWindow(r) \/ recordEvent(r) \/ consumeEventWindow(r)
    \/ checkZkVmRateLimit(r) \/ checkGlobalLimit(r) \/ recordFinalizeRateLimit(r)
    \/ consume(r)
    \/ validateSessionCapabilityForSession(r) \/ validateTurnstileToken(r)
    \/ ScanSessions(r) \/ getActiveSessionCount(r) \/ createSessionWithinCapacity(r) \/ createSession(r)
    \/ Work(r)

Next ==
    \/ Tick
    \/ \E r \in Requests : Arrive(r) \/ RequestStep(r) \/ StoreFails(r) \/ touchSession(r) \/ SessionExpires(r)
    \/ \E e \in events : EventExpires(e)

Spec == Init /\ [][Next]_vars

FairSpec == Spec /\ \A r \in Requests : WF_vars(RequestStep(r))

-----------------------------------------------------------------------------
(* The variables keep their types. *)
TypeOK ==
    /\ clock \in 0..MaxClock
    /\ \A e \in events : e.scope \in Scopes /\ e.ip \in Addresses /\ e.at \in 0..MaxClock
    /\ \A k \in DOMAIN counters : counters[k] \in 1..Cardinality(Requests)
    /\ \A n \in DOMAIN buckets : buckets[n].count \in 1..Cardinality(Requests)
    /\ sessions \in [Requests -> {Gone} \cup 0..MaxClock]
    /\ \A r \in Requests : req[r].answer \in {"none", "ok", "limited", "error", "unauthorized", "captcha", "full", "refused"}

GrantedIn(scope, ip, t) == {g \in granted : g.scope = scope /\ g.ip = ip /\ g.at > t - Window /\ g.at <= t}

(* However the consumptions of one address interleave, no window of the shared store grants more than the *)
(* limit: each writes its event before it counts (consumeEventWindow).                                    *)
ConsumeLimitHolds ==
    StoreKind = "dynamo" =>
        \A scope \in ConsumedScopes, ip \in Addresses, t \in 0..MaxClock :
            Cardinality(GrantedIn(scope, ip, t)) <= ScopeLimit(scope)

(* The in-memory limiter grants at most twice its limit in any window, at the seam of two of its own,      *)
(* unless a full map made it forget the address; and it never keeps more buckets than it may               *)
(* (makeRoomForBucket).                                                                                   *)
MemoryLimitHolds ==
    StoreKind = "memory" =>
        /\ \A scope \in ConsumedScopes : SizeOf(buckets, scope) <= MaxBuckets
        /\ \A scope \in ConsumedScopes, ip \in Addresses \ evicted, t \in 0..MaxClock :
              Cardinality(GrantedIn(scope, ip, t)) <= 2 * ScopeLimit(scope)

(* A finalization answered with success is in the counts that later requests are checked against: its     *)
(* event is recorded and both global counters include it (recordFinalizeRateLimit).                        *)
AnsweredIsCounted ==
    StoreKind = "dynamo" =>
        LET ok == {r \in Requests : req[r].kind = "finalize" /\ req[r].answer = "ok"}
            Total(window) == FoldSet(LAMBDA k, n : n + counters[k], 0, {k \in DOMAIN counters : k[1] = window})
        IN  /\ ok \subseteq {x.by : x \in executed}
            /\ Cardinality(ok) <= Total("daily") /\ Cardinality(ok) <= Total("hourly")
            /\ \A r \in ok : (\E e \in events : e.by = r /\ e.scope = "zkvm")
                             \/ \E x \in executed : x.by = r /\ clock >= x.at + Window

(* The number of active sessions passes the cap only by a race: a creation that no other creation or      *)
(* activity overtook since it counted leaves at most MAX_SESSIONS active (createSessionWithinCapacity).    *)
OnlyRacesExceedCapacity ==
    \A r \in Requests : createSession(r) /\ ~req[r].overtaken => Cardinality(ActiveSessions') <= MaxSessions

(* Every request that arrived is answered. *)
RequestsAnswered == \A r \in Requests : req[r].pc > 0 ~> req[r].answer # "none"
=============================================================================
