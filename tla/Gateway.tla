------------------------------ MODULE Gateway ------------------------------
(***************************************************************************)
(* What stands between a client and the endpoints (middleware.py, api.py): *)
(* the request-size, rate-limit and API-key middlewares, the sliding       *)
(* window of POST /agent/chat and the cached payload of GET /health.       *)
(*                                                                         *)
(* The handlers modelled here are coroutines of one event loop: a step is  *)
(* what runs between two awaits, and several requests are in flight.  The  *)
(* rate-limit counters are keys of a Redis server shared by every API      *)
(* process, which may fail at any command.                                 *)
(***************************************************************************)
EXTENDS Clock, Sequences, SequencesExt, FiniteSets

CONSTANTS
    Tasks,          \* requests in flight at a time
    Requests,       \* [path, sid, xkey, bearer, host, declared, streamed, body]
    None,           \* an absent header or setting
    ApiKey,         \* settings.api_key, or None
    RequireKey,     \* settings.require_api_key
    RequireAuth,    \* settings.auth_required
    MaxBody,        \* settings.max_request_bytes
    RatePerMinute,  \* settings.rate_limit_per_minute
    Minute,         \* ticks of a rate-limit window
    RateKeyTtl,     \* EXPIRE of a counter: 90 s
    ChatMax,        \* settings.agent_chat_limit_requests
    ChatSpan,       \* settings.agent_chat_limit_window_seconds
    HealthTtl,      \* settings.health_cache_ttl_seconds
    MaxOutages,     \* bound: requests that meet a failing Redis
    GateEnd         \* bound: the clock stops here

VARIABLES
    hits,       \* Redis: counter and time of expiry (0: none) of each caller's key
    passed,     \* requests each of these keys let through with Redis answering
    outages,    \* requests that met a failing Redis
    leaked,     \* keys of past minutes that Redis keeps: they had no expiry
    chat,       \* chat_rate_windows
    chatted,    \* the latest times at which a chat request was let through
    health,     \* _HEALTH_CACHE: when its payload was sampled (0: none), expires_at
    task        \* the request of each task: where it waits, and since when

gateVars == <<hits, passed, outages, leaked, chat, chatted, health, task>>

ASSUME GateAssumption ==
    /\ MaxBody \in Nat /\ RatePerMinute \in Nat /\ Minute \in Nat \ {0}
    /\ RateKeyTtl \in Nat /\ RateKeyTtl >= Minute /\ ChatMax \in Nat \ {0} /\ ChatSpan \in Nat \ {0}
    /\ HealthTtl \in Nat /\ MaxOutages \in Nat /\ IsFiniteSet(Requests)
    /\ \A r \in Requests : r.path \in {"chat", "health"}

NoTask == [pc |-> "idle", sid |-> None, since |-> 0]

-----------------------------------------------------------------------------
(* Headers *)

\* get_session_id.  An explicit session is not namespaced.
GetSessionId(r) ==
    CASE r.sid # None -> r.sid
      [] r.sid = None /\ r.xkey # None -> r.xkey
      [] r.sid = None /\ r.xkey = None /\ r.bearer # None -> r.bearer
      [] OTHER -> IF ApiKey # None THEN "api_key:default" ELSE "local-session"

\* RateLimitMiddleware's ident.
RateIdent(r) == IF r.xkey # None THEN r.xkey ELSE r.host

\* MaxRequestSizeMiddleware lets the request through.  A declared length is the
\* length of the body unless it is malformed; a body without one, or of a type
\* that is always streamed, is counted.
SizeAccepted(r) ==
    /\ r.declared # "malformed"
    /\ r.declared = "absent" \/ r.streamed \/ r.body <= MaxBody
    /\ r.body <= MaxBody

\* ApiKeyAuthMiddleware.
KeyAccepted(r) == ApiKey # None => r.xkey = ApiKey

\* The require_api_key dependency.
RequireApiKey(r) ==
    \/ ~ RequireKey /\ ~ RequireAuth
    \/ ApiKey = None /\ ~ RequireAuth
    \/ ApiKey # None /\ ApiKey \in {r.xkey, r.bearer}

-----------------------------------------------------------------------------
(* The rate limit *)

\* A key names the caller and the minute: only the current one is ever used.
RateKeys == {RateIdent(r) : r \in Requests}
NoHits   == [k \in RateKeys |-> [n |-> 0, expires |-> 0]]

\* Redis INCR, on a key that may have expired.
Incremented(k) ==
    IF hits[k].n = 0 \/ (hits[k].expires # 0 /\ hits[k].expires <= now)
      THEN [n |-> 1, expires |-> 0]
      ELSE [hits[k] EXCEPT !.n = @ + 1]

\* The counters that Redis would keep for ever.
Endless == {k \in RateKeys : hits[k].n > 0 /\ hits[k].expires = 0}

\* EXPIRE, once the counter is at its limit.
ExpiringLate(h) == IF h.n = RatePerMinute THEN [h EXCEPT !.expires = now + RateKeyTtl] ELSE h

\* EXPIRE, on the first increment alone.
Expiring(h) == IF h.n = 1 THEN [h EXCEPT !.expires = now + RateKeyTtl] ELSE h

RateLimited(h) == h.n > RatePerMinute

\* RateLimitMiddleware passes the request on, or answers 429.
RateLimit(k, pass) ==
  /\ hits[k].n <= RatePerMinute    \* bound: every later request is refused too
  /\ \/ /\ RatePerMinute <= 0 /\ pass
        /\ UNCHANGED <<hits, passed, outages>>
     \/ /\ RatePerMinute > 0
        /\ LET h == Expiring(Incremented(k))
           IN  /\ hits' = [hits EXCEPT ![k] = h]
               /\ pass = ~ RateLimited(h)
               /\ passed' = [passed EXCEPT ![k] = IF pass THEN @ + 1 ELSE @]
        /\ UNCHANGED outages
     \* INCR, or the EXPIRE after it, raises: the request passes.
     \/ /\ RatePerMinute > 0 /\ outages < MaxOutages /\ pass
        /\ outages' = outages + 1
        /\ hits' \in {hits, [hits EXCEPT ![k] = Incremented(k)]}
        /\ UNCHANGED passed

-----------------------------------------------------------------------------
GateInit ==
    /\ hits = NoHits
    /\ passed = [k \in RateKeys |-> 0]
    /\ outages = 0 /\ leaked = 0
    /\ chat = [c \in {GetSessionId(r) : r \in Requests} |-> <<>>]
    /\ chatted = [c \in {GetSessionId(r) : r \in Requests} |-> <<>>]
    /\ health = [sampled |-> 0, expires |-> 0]
    /\ task = [t \in Tasks |-> NoTask]

Waits(t, w) == task' = [task EXCEPT ![t] = w]
Answers(t)  == task' = [task EXCEPT ![t] = NoTask]

\* The middlewares, outermost first, then the dependencies of the endpoint.
Arrive(t) ==
    /\ task[t].pc = "idle"
    /\ \E r \in Requests :
         \/ /\ ~ SizeAccepted(r)                                   \* 400, 413
            /\ UNCHANGED <<hits, passed, outages, task>>
         \/ /\ SizeAccepted(r)
            /\ \E pass \in BOOLEAN :
                 /\ RateLimit(RateIdent(r), pass)
                 /\ IF /\ pass /\ KeyAccepted(r)
                       /\ r.path = "chat" => RequireApiKey(r)
                      THEN Waits(t, [NoTask EXCEPT !.pc = r.path,
                             !.sid = IF r.path = "chat" THEN GetSessionId(r) ELSE None])
                      ELSE UNCHANGED task                          \* 429, 401
    /\ UNCHANGED <<leaked, chat, chatted, health>>

\* A window that is open at its old end.
CutoffOpen(window) == SelectSeq(window, LAMBDA x : x > now - ChatSpan)

\* How many requests have left the window, counted from its old end ...
Popped(window) == CHOOSE n \in 0 .. Len(window) :
    /\ \A i \in 1 .. n : window[i] < now - ChatSpan
    /\ n < Len(window) => window[n + 1] >= now - ChatSpan

\* ... and the window without them.
Cutoff(window) == SubSeq(window, Popped(window) + 1, Len(window))

LastOf(times) == IF Len(times) > ChatMax + 1 THEN Tail(times) ELSE times

\* agent_chat: _enforce_chat_rate_limit, then _invoke_openai_chat up to its await
\* (or the 503 for a missing key, the request counted all the same).
AgentChat(t) ==
    LET sid    == task[t].sid
        window == Cutoff(chat[sid])
    IN  /\ task[t].pc = "chat"
        /\ IF Len(window) >= ChatMax
             THEN /\ chat' = [chat EXCEPT ![sid] = window]         \* 429
                  /\ Answers(t)
                  /\ UNCHANGED chatted
             ELSE /\ chat' = [chat EXCEPT ![sid] = Append(window, now)]
                  /\ chatted' = [chatted EXCEPT ![sid] = LastOf(Append(@, now))]
                  /\ Waits(t, [NoTask EXCEPT !.pc = "openai"]) \/ Answers(t)
        /\ UNCHANGED <<hits, passed, outages, leaked, health>>

\* The answer of the model, its error status, or the client's timeout.
InvokeOpenaiChat(t) ==
    /\ task[t].pc = "openai"
    /\ Answers(t)
    /\ UNCHANGED <<hits, passed, outages, leaked, chat, chatted, health>>

HealthFresh == HealthTtl > 0 /\ health.sampled # 0 /\ health.expires > now

\* health(), up to the await of redis_ping.
Health(t) ==
    /\ task[t].pc = "health"
    /\ IF HealthFresh THEN Answers(t) ELSE Waits(t, [NoTask EXCEPT !.pc = "ping", !.since = now])
    /\ UNCHANGED <<hits, passed, outages, leaked, chat, chatted, health>>

\* The cache as the task whose ping ended leaves it.
HealthCached(t) == [sampled |-> task[t].since, expires |-> now + HealthTtl]

\* redis_ping returned, whatever it says; whoever writes last wins.
HealthStore(t) ==
    /\ task[t].pc = "ping"
    /\ health' = IF HealthTtl > 0 THEN HealthCached(t) ELSE health
    /\ Answers(t)
    /\ UNCHANGED <<hits, passed, outages, leaked, chat, chatted>>

\* Time passes, however long a ping takes; nobody uses a past minute's key again.
GateTick ==
    /\ Tick(GateEnd)
    /\ IF now' \div Minute = now \div Minute
         THEN UNCHANGED <<hits, passed, leaked>>
         ELSE /\ hits' = NoHits /\ passed' = [k \in RateKeys |-> 0]
              /\ leaked' = leaked + Cardinality(Endless)
    /\ UNCHANGED <<outages, chat, chatted, health, task>>

GateNext ==
    \/ /\ \E t \in Tasks : Arrive(t) \/ AgentChat(t) \/ InvokeOpenaiChat(t)
                           \/ Health(t) \/ HealthStore(t)
       /\ UNCHANGED now
    \/ GateTick

GateSpec == ClockInit /\ GateInit /\ [][GateNext]_<<now, gateVars>>

-----------------------------------------------------------------------------
RatePassed(k) == RatePerMinute > 0 => passed[k] <= RatePerMinute

ChatSpaced(times) == \A i \in DOMAIN times :
    i + ChatMax \in DOMAIN times => times[i + ChatMax] - times[i] > ChatSpan

\* middleware.py:110-122: with Redis answering, a counter lets at most
\* RatePerMinute requests through in its minute; its expiry is set by the first
\* request alone (line 118), and a request that found Redis failing after INCR
\* must not reset it.  api.py:572-600: a session is never let through more than
\* ChatMax times within ChatSpan, ends included, although a span is no fixed slot
\* and requests that wait for their dependencies enter in any order.
RequestLimits == /\ \A k \in RateKeys : RatePassed(k)
                 /\ \A c \in DOMAIN chatted : ChatSpaced(chatted[c])

\* middleware.py:113-120: INCR and EXPIRE are two commands, and only the request
\* that counts 1 sends the second.  A failing Redis between them leaves a counter
\* that no later request repairs and no time removes; each failure costs at most
\* one of them, and nothing else leaves one behind.
CountersExpire == leaked + Cardinality(Endless) <= outages
=============================================================================
