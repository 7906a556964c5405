-------------------------------- MODULE Auth --------------------------------
(***************************************************************************)
(* Accounts, cookie sessions and API tokens (auth/store.py, routes.py and  *)
(* deps.py).  Every call on AuthStore takes the store's lock and the       *)
(* connection at the head of a pool of PoolSize SQLite connections, which  *)
(* goes back to the tail.  sqlite3 opens a transaction before the first    *)
(* write on a connection, and no code of the store commits one: what is    *)
(* written is visible on that connection alone, and a write on any other   *)
(* waits for the file lock until the busy timeout, the store's lock in     *)
(* hand.                                                                   *)
(*                                                                         *)
(* A handler is a thread of the server's pool; its store calls are         *)
(* separate steps.  Register is the only writer of accounts and makes      *)
(* administrators, so every principal with an account carries the scope    *)
(* "*".  Status codes, hashes and display fields are left out.             *)
(***************************************************************************)
EXTENDS Clock, Sequences, SequencesExt

CONSTANTS
    Slots,          \* threads that serve requests
    NoSlot,
    Emails,
    PoolSize,
    BusyTimeout,    \* sqlite3.connect(timeout=...)
    CacheTtl,       \* _token_cache_ttl_seconds
    SessionTtl,
    TokenTtls,      \* what a client may ask for; 0 stands for no expiry
    MaxRows,        \* bound: sessions, and tokens
    LastStart,      \* bound: no request starts later
    AuthEnd         \* bound: the clock stops here

VARIABLES
    head,       \* the connection at the head of the pool
    writer,     \* the connection with an open transaction, or NoConn
    db,         \* what is committed
    open,       \* what the open transaction sees
    cache,      \* _token_cache: until when a token is taken as verified, 0 if absent
    lock,       \* the slot that waits for the file lock, holding _lock
    req         \* the request of each slot

authVars == <<head, writer, db, open, cache, lock, req>>

ASSUME AuthAssumption ==
    /\ PoolSize \in Nat \ {0} /\ BusyTimeout \in Nat /\ CacheTtl \in Nat
    /\ SessionTtl \in Nat /\ TokenTtls \subseteq Nat /\ MaxRows \in Nat
    /\ NoSlot \notin Slots

NoConn == PoolSize
Empty  == [users |-> <<>>, sessions |-> <<>>, tokens |-> <<>>]
NoReq  == [pc |-> "idle", op |-> "none", email |-> "", cookie |-> 0, bearer |-> 0,
           target |-> 0, user |-> 0, clock |-> 0]

\* A fresh AuthStore: _init_db has used the first connection.
StoreOpened ==
    /\ head' = 1 % PoolSize /\ writer' = NoConn /\ open' = Empty
    /\ cache' = [k \in 1 .. MaxRows |-> 0]
    /\ lock' = NoSlot
    /\ req' = [s \in Slots |-> NoReq]

AuthInit ==
    /\ head = 1 % PoolSize /\ writer = NoConn /\ db = Empty /\ open = Empty
    /\ cache = [k \in 1 .. MaxRows |-> 0]
    /\ lock = NoSlot
    /\ req = [s \in Slots |-> NoReq]

-----------------------------------------------------------------------------
(* Connections *)

View == IF head = writer THEN open ELSE db

HasRow(rows, id) == id \in 1 .. Len(rows)

Reads == /\ head' = (head + 1) % PoolSize
         /\ UNCHANGED <<writer, db, open>>

CanWrite == writer \in {NoConn, head}

\* The transaction stays open when the connection goes back to the pool.
Writes(rows) ==
    /\ CanWrite
    /\ writer' = head /\ open' = rows
    /\ head' = (head + 1) % PoolSize
    /\ UNCHANGED db

\* "with self._lock": the slot may make the call it has come to.
Call(s, pc) == lock = NoSlot /\ req[s].pc = pc

Goto(s, pc) == req' = [req EXCEPT ![s].pc = pc]
Ends(s)     == req' = [req EXCEPT ![s] = NoReq]

\* get_principal returns an account; the credentials are not looked at again.
Admits(s, user) ==
    req' = [req EXCEPT ![s].pc = "handler", ![s].user = user, ![s].cookie = 0,
                       ![s].bearer = 0, ![s].clock = 0]

\* get_principal without an account: 401, or an anonymous principal, whom every
\* endpoint here answers without a store call (as it does the admin key).
Unidentified(s) == Ends(s)

\* get_principal from its third branch on.
TriesBearer(s) ==
    IF req[s].bearer # 0
      THEN req' = [req EXCEPT ![s].pc = "clock", ![s].cookie = 0, ![s].user = 0]
      ELSE Unidentified(s)

-----------------------------------------------------------------------------
(* Requests *)

\* "read" is GET /me or GET /tokens: one more read.
Endpoints == {"read", "create_token", "revoke_token"}

\* A session cookie on an unsafe method needs the double-submitted token.
RequireCsrf(op, cookie, csrf) ==
    op \in {"create_token", "revoke_token"} /\ cookie # 0 => csrf

\* The bound on rows is a bound on the requests that would add one.
Room(op) ==
    /\ op = "login" => Len(open.sessions) < MaxRows
    /\ op = "create_token" => Len(open.tokens) < MaxRows
    /\ op \in {"login", "create_token"} => \A s \in Slots : req[s].op # op

\* Where a request makes its first store call.
FirstCall(op, cookie) ==
    CASE op = "register" -> "count"
      [] op = "login"    -> "find"
      [] op = "logout"   -> "revoke_session"
      [] OTHER -> IF cookie # 0 THEN "session" ELSE "clock"

Begin(s, r) == req' = [req EXCEPT ![s] = r]

Start(s) ==
    /\ req[s].pc = "idle" /\ now <= LastStart
    /\ \/ \E op \in {"register", "login"}, e \in Emails :
            Room(op) /\ Begin(s, [NoReq EXCEPT !.pc = FirstCall(op, 0), !.op = op, !.email = e])
       \/ \E c \in 1 .. MaxRows :
            Begin(s, [NoReq EXCEPT !.pc = FirstCall("logout", c), !.op = "logout", !.cookie = c])
       \/ \E op \in Endpoints, c, b, t \in 0 .. MaxRows, csrf \in BOOLEAN :
            /\ c # 0 \/ b # 0
            /\ RequireCsrf(op, c, csrf) /\ Room(op)
            /\ op = "revoke_token" <=> t # 0
            /\ Begin(s, [NoReq EXCEPT !.pc = FirstCall(op, c), !.op = op,
                           !.cookie = c, !.bearer = b, !.target = t])
    /\ UNCHANGED <<head, writer, db, open, cache, lock>>

\* register: user_count.
Count(s) ==
    /\ Call(s, "count")
    /\ IF View.users # <<>> THEN Ends(s) ELSE Goto(s, "create")
    /\ Reads
    /\ UNCHANGED <<cache, lock>>

\* register: create_user; an INSERT that breaks UNIQUE leaves its transaction open.
CreateUser(s) ==
    /\ Call(s, "create")
    /\ Writes(IF Contains(View.users, req[s].email) THEN View
              ELSE [View EXCEPT !.users = Append(@, req[s].email)])
    /\ Ends(s)
    /\ UNCHANGED <<cache, lock>>

\* get_user_by_email: addresses are unique.
UserId(users, email) == CHOOSE i \in 1 .. Len(users) : users[i] = email

\* session_login: verify_credentials; create_session reads the clock before its lock.
FindUser(s) ==
    /\ Call(s, "find")
    /\ \E passwordOk \in BOOLEAN :
         IF Contains(View.users, req[s].email) /\ passwordOk
           THEN req' = [req EXCEPT ![s].pc = "create_session", ![s].clock = now,
                                   ![s].user = UserId(View.users, req[s].email)]
           ELSE Ends(s)
    /\ Reads
    /\ UNCHANGED <<cache, lock>>

CreateSession(s) ==
    /\ Call(s, "create_session")
    /\ Writes([View EXCEPT !.sessions =
                 Append(@, [user |-> req[s].user, expires |-> req[s].clock + SessionTtl,
                            state |-> "live"])])
    /\ Ends(s)
    /\ UNCHANGED <<cache, lock>>

\* session_logout.  The UPDATE takes the file lock even if it matches no row.
RevokeSession(s) ==
    /\ Call(s, "revoke_session")
    /\ Writes([View EXCEPT !.sessions =
                 [i \in DOMAIN @ |-> IF i = req[s].cookie /\ @[i].state = "live"
                                       THEN [@[i] EXCEPT !.state = "revoked"] ELSE @[i]]])
    /\ Ends(s)
    /\ UNCHANGED <<cache, lock>>

\* get_principal: get_session, which deletes an expired session or renews last_seen_at.
GetSession(s) ==
    LET id   == req[s].cookie
        live == HasRow(View.sessions, id) /\ View.sessions[id].state = "live"
    IN  /\ Call(s, "session")
        /\ \/ ~ live /\ Reads /\ TriesBearer(s)
           \/ /\ live /\ View.sessions[id].expires <= now
              /\ Writes([View EXCEPT !.sessions[id].state = "deleted"])
              /\ TriesBearer(s)
           \/ /\ live /\ View.sessions[id].expires > now
              /\ Writes(View)
              /\ req' = [req EXCEPT ![s].pc = "user", ![s].user = View.sessions[id].user]
        /\ UNCHANGED <<cache, lock>>

\* get_principal: get_user_by_id, on the next connection.
GetUser(s) ==
    /\ Call(s, "user")
    /\ IF HasRow(View.users, req[s].user) THEN Admits(s, req[s].user)
                                          ELSE TriesBearer(s)
    /\ Reads
    /\ UNCHANGED <<cache, lock>>

\* verify_api_token: "now = time.time()", before the lock is taken.
ReadClock(s) ==
    /\ req[s].pc = "clock"
    /\ req' = [req EXCEPT ![s].pc = "cache", ![s].clock = now]
    /\ UNCHANGED <<head, writer, db, open, cache, lock>>

\* A cache whose entries live as long as they are used.
CacheRenewed(s) == cache' = [cache EXCEPT ![req[s].bearer] = now + CacheTtl]
CacheKept(s)    == UNCHANGED cache

TokenCache(s) ==
    LET k == req[s].bearer
    IN  /\ Call(s, "cache")
        /\ IF cache[k] > req[s].clock
             THEN Admits(s, open.tokens[k].user) /\ CacheKept(s)
             ELSE Goto(s, "token") /\ cache' = [cache EXCEPT ![k] = 0]
        /\ UNCHANGED <<head, writer, db, open, lock>>

VerifyToken(s) ==
    LET k     == req[s].bearer
        valid == /\ HasRow(View.tokens, k)
                 /\ View.tokens[k].revoked = 0
                 /\ View.tokens[k].expires = 0 \/ View.tokens[k].expires > now
    IN  /\ Call(s, "token")
        /\ \/ ~ valid /\ Reads /\ Unidentified(s) /\ UNCHANGED cache
           \/ /\ valid /\ Writes(View)
              /\ IF HasRow(View.users, View.tokens[k].user)
                   THEN /\ Admits(s, View.tokens[k].user)
                        /\ cache' = [cache EXCEPT ![k] = req[s].clock + CacheTtl]
                   ELSE Unidentified(s) /\ UNCHANGED cache
        /\ UNCHANGED lock

-----------------------------------------------------------------------------
(* What the endpoints do once the principal is known *)

ReadAccount(s) ==
    /\ Call(s, "handler") /\ req[s].op = "read"
    /\ Reads /\ Ends(s)
    /\ UNCHANGED <<cache, lock>>

CreateApiToken(s) ==
    /\ Call(s, "handler") /\ req[s].op = "create_token"
    /\ \E ttl \in TokenTtls :
         Writes([View EXCEPT !.tokens =
                   Append(@, [user |-> req[s].user, revoked |-> 0,
                              expires |-> IF ttl = 0 THEN 0 ELSE now + ttl])])
    /\ Ends(s)
    /\ UNCHANGED <<cache, lock>>

\* Only the owner's token, and only once.
RevokeApiToken(s) ==
    /\ Call(s, "handler") /\ req[s].op = "revoke_token"
    /\ Writes([View EXCEPT !.tokens =
                 [i \in DOMAIN @ |->
                    IF i = req[s].target /\ @[i].user = req[s].user /\ @[i].revoked = 0
                      THEN [@[i] EXCEPT !.revoked = now] ELSE @[i]]])
    /\ Ends(s)
    /\ UNCHANGED <<cache, lock>>

-----------------------------------------------------------------------------
(* The file lock *)

\* The call the slot has come to writes.  get_session and verify_api_token write
\* only for a row they have found, and then theirs is the writer's connection.
IsWrite(s) ==
    \/ req[s].pc \in {"create", "create_session", "revoke_session"}
    \/ req[s].pc = "handler" /\ req[s].op \in {"create_token", "revoke_token"}

\* Another connection has a transaction open: the call waits inside SQLite.
DatabaseBusy(s) ==
    /\ lock = NoSlot /\ IsWrite(s) /\ ~ CanWrite
    /\ lock' = s
    /\ Begin(s, [NoReq EXCEPT !.pc = "busy", !.op = req[s].op, !.clock = now])
    /\ UNCHANGED <<head, writer, db, open, cache>>

ReleasesNothing(s) == UNCHANGED lock
Releases(s)        == lock' = NoSlot

\* "database is locked": the exception leaves both with blocks.  The end of the
\* modelled time stands for any later time.
DatabaseLocked(s) ==
    /\ req[s].pc = "busy"
    /\ now >= req[s].clock + BusyTimeout \/ now = AuthEnd
    /\ Releases(s) /\ Ends(s) /\ Reads
    /\ UNCHANGED cache

\* The process ends and a new one opens the file: open transactions are rolled back.
Restart == now <= LastStart /\ StoreOpened /\ UNCHANGED db

AuthStep(s) ==
    \/ Count(s) \/ CreateUser(s)
    \/ FindUser(s) \/ CreateSession(s) \/ RevokeSession(s)
    \/ GetSession(s) \/ GetUser(s)
    \/ ReadClock(s) \/ TokenCache(s) \/ VerifyToken(s)
    \/ ReadAccount(s) \/ CreateApiToken(s) \/ RevokeApiToken(s)
    \/ DatabaseBusy(s) \/ DatabaseLocked(s)

AuthNext ==
    \/ /\ \/ \E s \in Slots : Start(s) \/ AuthStep(s)
          \/ Restart
       /\ UNCHANGED now
    \/ Tick(AuthEnd) /\ UNCHANGED authVars

AuthSpec == ClockInit /\ AuthInit /\ [][AuthNext]_<<now, authVars>>

\* Threads that can go on do, and time passes.
AuthFairness == WF_<<now, authVars>>(Tick(AuthEnd) /\ UNCHANGED authVars)
                /\ \A s \in Slots : WF_<<now, authVars>>(AuthStep(s) /\ UNCHANGED now)

-----------------------------------------------------------------------------
\* A token stops working CacheTtl after it was revoked or ran out: whoever reads
\* the clock (store.py:262) at that time or later is refused, however long the
\* request then waits for the store's lock and whatever is cached (store.py:263-
\* 269, 307-308).
TokenGrace == [][\A s \in Slots :
    req[s].pc \in {"cache", "token"} /\ req'[s].pc = "handler" =>
    LET t == open.tokens[req[s].bearer]
    IN  /\ t.revoked = 0 \/ req[s].clock < t.revoked + CacheTtl
        /\ t.expires = 0 \/ req[s].clock < t.expires + CacheTtl]_authVars

\* routes.py:36-38: "If no users exist yet: allow creating the first (admin)
\* user. - Otherwise: reject".
BootstrapOnce == Len(open.users) <= 1

\* Every request ends, although a transaction is never closed and a write on
\* another connection waits for it with the lock of the whole store in hand.
RequestsEnd == \A s \in Slots : req[s].pc # "idle" ~> req[s].pc = "idle"
=============================================================================
